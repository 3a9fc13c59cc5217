--------------------------------- MODULE Sweep ---------------------------------
(***************************************************************************)
(* internal/chain/sweep: collecting what users deposited at one address    *)
(* into the hot wallet, with the part of internal/chain/hotwallet it       *)
(* shares with the withdrawals (`other`), the signing log, the two custody *)
(* accounts of the ledger and an external EVM node.                        *)
(*                                                                         *)
(* The sweeper is one goroutine of the chain role: `job` is where it       *)
(* stands between two commits, signatures or sends.  The sending loop of   *)
(* the withdrawals is another one; both take nonces from the manager, and  *)
(* `alloc` is an allocation whose transaction is not committed yet.        *)
(*                                                                         *)
(* Abstractions: one address; a transaction's gas costs Cost, its budget   *)
(* is the fee level `fee`, which the market moves; a mined transaction is  *)
(* final (confirmations and reorganisations are Withdrawal's); the signed  *)
(* transaction's fee cap is left out, as nobody else spends the address's  *)
(* ether between the check and the send.  Faults: "signer" fails or loses  *)
(* its answer, "fill" the same while a fill is signed, "rpc" answers with  *)
(* an error whatever the node did.                                         *)
(***************************************************************************)
EXTENDS Integers, Sequences, FiniteSetsExt

CONSTANTS
  Sweeps,        \* bound: rows of chain.sweeps
  Others,        \* bound: withdrawals that take a nonce meanwhile
  Assets,        \* of "eth", "tok"
  DepositAmount, \* [Assets -> Nat]: what one deposit brings
  Threshold,     \* [Assets -> Nat]: sweep_threshold
  Cost,          \* what a mined transaction burns
  Fees,          \* levels of the fee market
  Ceiling,       \* ETH_MAX_FEE_PER_GAS
  Faults,
  Deposits,      \* bound: [Assets -> Nat]: deposits of each asset
  MaxGifts, MaxFeeMoves, MaxDrops,
  MaxReverts, MaxSignerFaults, MaxCrashes,  \* bounds, and one of the
  MaxTroubles    \* events of all these kinds together

ASSUME SweepAssumption ==
  /\ IsFiniteSet(Sweeps) /\ Assets \subseteq {"eth", "tok"} /\ Faults \subseteq {"signer", "rpc", "fill"}
  /\ {DepositAmount, Deposits} \subseteq [Assets -> Nat] /\ Threshold \in [Assets -> Nat \ {0}]
  /\ Cost \in Nat \ {0} /\ Ceiling \in Nat /\ Fees \subseteq {f \in Nat : f >= Cost} /\ Fees # {}

VARIABLES
  row,       \* chain.sweeps
  other,     \* the withdrawals' nonces, and whether their transaction was sent
  nextNonce, \* chain.hot_wallets.next_nonce
  alloc,     \* a nonce taken in a transaction that is not committed
  fills,     \* chain.nonce_fills
  log,       \* chain.signing_log: the gas fundings signed
  phase,     \* the chain role: "down", "starting", "up"
  job,       \* what the sweeper is in the middle of
  pool,      \* transactions some node holds
  mined,     \* of "hot" and "addr": mined[a][n + 1] took nonce n
  held,      \* what the address holds on chain
  unseen,    \* the part of it the scanner cannot see
  coming,    \* deposits on chain that the ledger has not credited
  credited,  \* what the ledger has credited to the address
  book,      \* custody:deposit_addresses per asset and gas_expense
  fee,       \* the current fee cap suggestion
  count      \* uses of the bounded environment actions

wallet == <<nextNonce, alloc, fills, log, other>>
node   == <<pool, mined, held>>
users  == <<unseen, coming, credited>>
vars   == <<row, other, nextNonce, alloc, fills, log, phase, job, pool, mined, held, unseen, coming, credited, book, fee, count>>

None == -1
Tx(kind, id, n, v) == [kind |-> kind, id |-> id, nonce |-> n, val |-> v]
FillTx(n) == Tx("fill", "none", n, 0)
Sender(tx) == IF tx.kind = "sweep" THEN "addr" ELSE "hot"

Idle == [at |-> "idle", s |-> "none", v |-> 0, then |-> ""]
Job(at, s, v) == [at |-> at, s |-> s, v |-> v, then |-> ""]

\* 0015: one open sweep per address.
Open == {s \in Sweeps : row[s].st \in {"requested", "gas_funded", "broadcast"}}
Ended(s) == row[s].st \in {"confirmed", "failed"}

Init ==
  /\ row = [s \in Sweeps |-> [st |-> "none", asset |-> "", amt |-> 0, fn |-> None, fa |-> 0,
                              fsigned |-> FALSE, an |-> None, signed |-> FALSE, gas |-> 0]]
  /\ other = [o \in Others |-> [nonce |-> None, sent |-> FALSE]]
  /\ nextNonce = 0 /\ alloc = None /\ fills = {} /\ log = {}
  /\ phase = "up" /\ job = Idle
  /\ pool = {} /\ mined = [a \in {"hot", "addr"} |-> << >>]
  /\ held = [a \in {"eth", "tok"} |-> 0] /\ unseen = held /\ coming = [a \in Assets |-> 0] /\ credited = [a \in Assets |-> 0]
  /\ book = [eth |-> 0, tok |-> 0, gas |-> 0]
  /\ fee \in Fees
  /\ count = [gift |-> 0, fee |-> 0, drop |-> 0, dropfill |-> 0, revert |-> 0, signer |-> 0, crash |-> 0]

Troubles == MapThenSumSet(LAMBDA k : count[k], DOMAIN count)
Used(what, bound) ==
  /\ count[what] < bound /\ Troubles < MaxTroubles
  /\ count' = [count EXCEPT ![what] = @ + 1]

-----------------------------------------------------------------------------
(* Users and the fee market.                                               *)

Deposit(a) ==
  /\ credited[a] + coming[a] < Deposits[a] * DepositAmount[a]
  /\ held' = [held EXCEPT ![a] = @ + DepositAmount[a]]
  /\ coming' = [coming EXCEPT ![a] = @ + DepositAmount[a]]
  /\ UNCHANGED <<row, wallet, phase, job, pool, mined, unseen, credited, book, fee, count>>

\* The deposit scanner credits it; see Deposit for how.
Credit(a) ==
  /\ coming[a] > 0
  /\ credited' = [credited EXCEPT ![a] = @ + coming[a]]
  /\ book' = [book EXCEPT ![a] = @ + coming[a]]
  /\ coming' = [coming EXCEPT ![a] = 0]
  /\ UNCHANGED <<row, wallet, phase, job, node, unseen, fee, count>>

\* A transfer inside a contract, which the scanner does not see.
Gift(a) ==
  /\ Used("gift", MaxGifts)
  /\ held' = [held EXCEPT ![a] = @ + 1] /\ unseen' = [unseen EXCEPT ![a] = @ + 1]
  /\ UNCHANGED <<row, wallet, phase, job, pool, mined, coming, credited, book, fee>>

MoveFee ==
  /\ Used("fee", MaxFeeMoves)
  /\ fee' \in Fees \ {fee}
  /\ UNCHANGED <<row, wallet, phase, job, node, users, book>>

-----------------------------------------------------------------------------
(* Planning.                                                               *)

\* Only confirmed sweeps count; gas counts when it came out of the same asset.
SweptFromAddress(a) ==
  MapThenSumSet(LAMBDA s : row[s].amt + (IF a = "eth" THEN row[s].gas ELSE 0),
                {s \in Sweeps : row[s].st = "confirmed" /\ row[s].asset = a})

\* Nothing waits to be credited (CountUnsettledDeposits), whatever its asset.
Eligible == \A a \in Assets : coming[a] = 0

\* Mutant of Sweepable: what the address holds, without the ceiling.
SweepableHeld(a) == held[a] - (IF a = "eth" THEN fee ELSE 0)

\* What the ledger knows arrived, less what it knows has gone, at most what is
\* there; the native asset leaves enough behind to pay for itself.
Sweepable(a) ==
  Min({held[a], credited[a] - SweptFromAddress(a)}) - (IF a = "eth" THEN fee ELSE 0)

\* planOne; a row is inserted unless the address has an open sweep.
Plan(s, a) ==
  /\ phase = "up" /\ job = Idle /\ row[s].st = "none" /\ Open = {}
  /\ Eligible /\ held[a] >= Threshold[a]
  /\ Sweepable(a) > 0
  /\ a = "eth" => fee =< Ceiling /\ Sweepable(a) >= Threshold[a]
  /\ row' = [row EXCEPT ![s] = [@ EXCEPT !.st = "requested", !.asset = a, !.amt = Sweepable(a)]]
  /\ UNCHANGED <<wallet, phase, job, node, users, book, fee, count>>

-----------------------------------------------------------------------------
(* The node and the signing log.                                           *)

Mined(tx) == \E i \in DOMAIN mined[Sender(tx)] : mined[Sender(tx)][i].tx = tx
Succeeded(tx) == \E i \in DOMAIN mined[Sender(tx)] : mined[Sender(tx)][i] = [tx |-> tx, ok |-> TRUE]

\* "already known" and "nonce too low" count as sent.
Known(tx) == tx \in pool \/ tx.nonce < Len(mined[Sender(tx)])
Affordable(tx) == tx.kind = "sweep" =>
  held["eth"] >= Cost + (IF row[tx.id].asset = "eth" THEN tx.val ELSE 0)

Accepts(tx) ==
  \/ Known(tx) /\ UNCHANGED pool
  \/ ~Known(tx) /\ Affordable(tx) /\ pool' = pool \cup {tx}
Refuses(tx) ==
  \/ ~Known(tx) /\ UNCHANGED pool
  \/ "rpc" \in Faults /\ (UNCHANGED pool \/ Accepts(tx))

\* eth_getTransactionCount(pending).
PendingNonce(a) ==
  LET base == Len(mined[a])  mine == {tx.nonce : tx \in {t \in pool : Sender(t) = a}}
  IN  Min({n \in base..(base + Cardinality(mine)) : n \notin mine})

FundTx(s) == Tx("fund", s, row[s].fn, row[s].fa)
SweepTx(s) == Tx("sweep", s, row[s].an, row[s].amt)

\* gasFundTx refuses an amount other than the recorded one; the signing log has
\* one transaction per intent and returns it only for the nonce it was signed with.
FundingSignable(s, v) ==
  /\ row[s].fa = v
  /\ \A tx \in log : tx.id = s => tx.nonce = row[s].fn

-----------------------------------------------------------------------------
(* First leg: the hot wallet pays for the token transfer's gas.            *)

Ready(s, st) == phase = "up" /\ job = Idle /\ row[s].st = st
ToFund(s) == Ready(s, "requested") /\ row[s].asset = "tok" /\ ~row[s].fsigned

\* fundGas: only the shortfall is sent; an address that can pay skips the leg.
FundGas(s) ==
  /\ ToFund(s) /\ fee =< Ceiling
  /\ job' = IF held["eth"] >= fee THEN Job("release", s, 0) ELSE Job("pin", s, fee - held["eth"])
  /\ UNCHANGED <<row, wallet, phase, node, users, book, fee, count>>

\* Mutant of Release: what an earlier attempt pinned stays on the row.
ReleaseNothing ==
  /\ job.at = "release"
  /\ job' = [job EXCEPT !.at = "funded"]
  /\ UNCHANGED <<row, wallet, phase, node, users, book, fee, count>>

\* releasePinnedFunding: a nonce pinned without a transaction is given back first.
Release ==
  /\ job.at = "release"
  /\ job' = IF row[job.s].fn = None THEN [job EXCEPT !.at = "funded"]
            ELSE [job EXCEPT !.at = "recycle", !.then = "clear"]
  /\ UNCHANGED <<row, wallet, phase, node, users, book, fee, count>>

\* ClearSweepGasFunding.
ClearFunding ==
  /\ job.at = "clear"
  /\ row' = [row EXCEPT ![job.s].fn = None, ![job.s].fa = 0]
  /\ job' = [job EXCEPT !.at = "funded"]
  /\ UNCHANGED <<wallet, phase, node, users, book, fee, count>>

\* markGasFunded: the ether that moved and the state, in one transaction.
GasFunded(s, gas) ==
  /\ book' = [book EXCEPT !.eth = @ + row[s].fa, !.gas = @ + gas]
  /\ row' = [row EXCEPT ![s].st = "gas_funded"]

AlreadyFunded ==
  /\ job.at = "funded" /\ GasFunded(job.s, 0) /\ job' = Idle
  /\ UNCHANGED <<wallet, phase, node, users, fee, count>>

\* signFunding: nonce and amount are kept on the row in the transaction that
\* allocates the nonce; the row lock waits for another allocation's commit.
PinFunding ==
  /\ job.at = "pin"
  /\ IF row[job.s].fn # None THEN UNCHANGED <<row, nextNonce>>
     ELSE /\ alloc = None /\ nextNonce' = nextNonce + 1
          /\ row' = [row EXCEPT ![job.s].fn = nextNonce, ![job.s].fa = job.v]
  /\ job' = [job EXCEPT !.at = "sign"]
  /\ UNCHANGED <<alloc, fills, log, other, phase, node, users, book, fee, count>>

SignFunding ==
  /\ job.at = "sign" /\ fee =< Ceiling /\ FundingSignable(job.s, job.v)
  /\ log' = log \cup {FundTx(job.s)} /\ job' = [job EXCEPT !.at = "record"]
  /\ UNCHANGED <<row, nextNonce, alloc, fills, other, phase, node, users, book, fee, count>>

\* The signer fails, refuses or does not answer, or the fees are above the
\* ceiling: the row keeps what was pinned and the next tick starts over.
SignFundingFails ==
  /\ job.at = "sign"
  /\ \/ /\ "signer" \in Faults /\ Used("signer", MaxSignerFaults)
        /\ UNCHANGED log \/ (FundingSignable(job.s, job.v) /\ log' = log \cup {FundTx(job.s)})
     \/ (fee > Ceiling \/ ~FundingSignable(job.s, job.v)) /\ UNCHANGED <<log, count>>
  /\ job' = Idle
  /\ UNCHANGED <<row, nextNonce, alloc, fills, other, phase, node, users, book, fee>>

\* FundSweepGas, before anything is sent.
RecordFunding ==
  /\ job.at = "record"
  /\ row' = [row EXCEPT ![job.s].fsigned = TRUE, ![job.s].fa = job.v]
  /\ job' = [job EXCEPT !.at = "send"]
  /\ UNCHANGED <<wallet, phase, node, users, book, fee, count>>

\* A refused funding gives its nonce back and ends the sweep.
SendFunding ==
  /\ job.at = "send"
  /\ \/ Accepts(FundTx(job.s)) /\ job' = Idle
     \/ Refuses(FundTx(job.s)) /\ job' = [job EXCEPT !.at = "recycle", !.then = "failfunding"]
  /\ UNCHANGED <<row, wallet, phase, mined, held, users, book, fee, count>>

FailFunding(s, gas) ==
  /\ book' = [book EXCEPT !.gas = @ + gas]
  /\ row' = [row EXCEPT ![s].st = "failed"]

FundingRefused ==
  /\ job.at = "failfunding" /\ FailFunding(job.s, 0) /\ job' = Idle
  /\ UNCHANGED <<wallet, phase, node, users, fee, count>>

Tracking(s) == Ready(s, "requested") /\ row[s].asset = "tok" /\ row[s].fsigned

\* trackGasFunding: mined, the funding and its gas are booked, or the gas alone.
TrackFunding(s) ==
  /\ Tracking(s) /\ Mined(FundTx(s))
  /\ IF Succeeded(FundTx(s)) THEN GasFunded(s, Cost) ELSE FailFunding(s, Cost)
  /\ UNCHANGED <<wallet, phase, job, node, users, fee, count>>

\* Unknown to the node: the stored bytes are sent again.
ResendFunding(s) ==
  /\ Tracking(s) /\ ~Known(FundTx(s)) /\ Accepts(FundTx(s))
  /\ UNCHANGED <<row, wallet, phase, job, mined, held, users, book, fee, count>>

-----------------------------------------------------------------------------
(* Second leg: the deposit address sends.                                  *)

ToSend(s) == Ready(s, "gas_funded") \/ (Ready(s, "requested") /\ row[s].asset = "eth")

\* stillAffordable.
StillAffordable(s) ==
  IF row[s].asset = "eth" THEN held["eth"] >= row[s].amt + fee
  ELSE held["eth"] >= fee /\ held["tok"] >= row[s].amt

\* fail: the gas it burned is booked with the state.
Fail(s, gas) ==
  /\ book' = [book EXCEPT !.eth = @ - gas, !.gas = @ + gas]
  /\ row' = [row EXCEPT ![s].st = "failed", ![s].gas = gas]

\* send: a plan that no longer fits is abandoned before anything is signed.
BalanceChanged(s) ==
  /\ ToSend(s) /\ ~row[s].signed /\ fee =< Ceiling /\ ~StillAffordable(s)
  /\ Fail(s, 0)
  /\ UNCHANGED <<wallet, phase, job, node, users, fee, count>>

\* signSweep: the address's nonce comes from the node and is kept on the row.
PinSweepNonce(s) ==
  /\ ToSend(s) /\ ~row[s].signed /\ fee =< Ceiling /\ StillAffordable(s)
  /\ row' = [row EXCEPT ![s].an = IF @ = None THEN PendingNonce("addr") ELSE @]
  /\ job' = Job("signsweep", s, 0)
  /\ UNCHANGED <<wallet, phase, node, users, book, fee, count>>

\* SignSweep: recorded once the signer answered.
SignSweep ==
  /\ job.at = "signsweep" /\ fee =< Ceiling
  /\ row' = [row EXCEPT ![job.s].signed = TRUE] /\ job' = [job EXCEPT !.at = "sendsweep"]
  /\ UNCHANGED <<wallet, phase, node, users, book, fee, count>>

SignSweepFails ==
  /\ job.at = "signsweep"
  /\ \/ "signer" \in Faults /\ Used("signer", MaxSignerFaults)
     \/ fee > Ceiling /\ UNCHANGED count
  /\ job' = Idle
  /\ UNCHANGED <<row, wallet, phase, node, users, book, fee>>

\* A signed sweep found after a restart goes straight to the node.
SendSigned(s) ==
  /\ ToSend(s) /\ row[s].signed
  /\ job' = Job("sendsweep", s, 0)
  /\ UNCHANGED <<row, wallet, phase, node, users, book, fee, count>>

SendSweep ==
  /\ job.at = "sendsweep"
  /\ \/ Accepts(SweepTx(job.s)) /\ job' = [job EXCEPT !.at = "mark"]
     \/ Refuses(SweepTx(job.s)) /\ job' = [job EXCEPT !.at = "refused"]
  /\ UNCHANGED <<row, wallet, phase, mined, held, users, book, fee, count>>

MarkBroadcast ==
  /\ job.at = "mark"
  /\ row' = [row EXCEPT ![job.s].st = "broadcast"] /\ job' = Idle
  /\ UNCHANGED <<wallet, phase, node, users, book, fee, count>>

SweepRefused ==
  /\ job.at = "refused" /\ Fail(job.s, 0) /\ job' = Idle
  /\ UNCHANGED <<wallet, phase, node, users, fee, count>>

\* Mutant of Confirm: the gas is taken for the hot wallet's.
ConfirmGasElsewhere(s) ==
  /\ book' = [book EXCEPT ![row[s].asset] = @ - row[s].amt, !.gas = @ + Cost]
  /\ row' = [row EXCEPT ![s].st = "confirmed", ![s].gas = Cost]

\* confirm: the asset and the gas the address paid, with the state.
Confirm(s) ==
  LET moved == [book EXCEPT ![row[s].asset] = @ - row[s].amt] IN
  /\ book' = [moved EXCEPT !.eth = @ - Cost, !.gas = @ + Cost]
  /\ row' = [row EXCEPT ![s].st = "confirmed", ![s].gas = Cost]

\* track: a sweep that was mined is settled.
Track(s) ==
  /\ Ready(s, "broadcast") /\ Mined(SweepTx(s))
  /\ IF Succeeded(SweepTx(s)) THEN Confirm(s) ELSE Fail(s, Cost)
  /\ UNCHANGED <<wallet, phase, job, node, users, fee, count>>

\* Mutant of ResendSweep: what the node forgot is waited for.
AwaitForgotten(s) == Ready(s, "broadcast") /\ ~Known(SweepTx(s)) /\ UNCHANGED vars

ResendSweep(s) ==
  /\ Ready(s, "broadcast") /\ ~Known(SweepTx(s)) /\ Accepts(SweepTx(s))
  /\ UNCHANGED <<row, wallet, phase, job, mined, held, users, book, fee, count>>

-----------------------------------------------------------------------------
(* The nonce manager.  Its mutex covers a call, not the caller's commit.   *)

Locked == job.at \in {"stepback", "fill", "fillsend"}

\* Mutant of Recycle: a nonce that is not the last one is dropped.
RecycleLastOnly ==
  /\ job.at = "recycle"
  /\ job' = [job EXCEPT !.at = IF nextNonce = row[job.s].fn + 1 THEN "stepback" ELSE job.then]
  /\ UNCHANGED <<row, wallet, phase, node, users, book, fee, count>>

\* Recycle reads the committed counter: the last nonce steps back, any other is filled.
Recycle ==
  /\ job.at = "recycle"
  /\ job' = IF nextNonce = row[job.s].fn + 1 THEN [job EXCEPT !.at = "stepback", !.v = row[job.s].fn]
            ELSE [job EXCEPT !.at = "fill", !.v = row[job.s].fn]
  /\ UNCHANGED <<row, wallet, phase, node, users, book, fee, count>>

\* SetNextNonce: the row lock waits for an allocation's commit.
StepBack ==
  /\ job.at = "stepback" /\ alloc = None
  /\ nextNonce' = job.v /\ job' = [job EXCEPT !.at = job.then]
  /\ UNCHANGED <<row, alloc, fills, log, other, phase, node, users, book, fee, count>>

\* An error of the manager: a release is tried again next tick, a refused
\* funding is failed all the same, a start is retried.
AfterError == IF job.then = "failfunding" THEN [job EXCEPT !.at = "failfunding"] ELSE Idle
AfterFill == IF job.then = "" THEN Idle ELSE [job EXCEPT !.at = job.then]

\* fill: recorded under the nonce's unique key before it is sent; a signer that
\* fails and fees above the ceiling are errors too.
FillFails == job.v \in fills \/ fee > Ceiling
RecordFill ==
  /\ job.at = "fill"
  /\ \/ (FillFails \/ "fill" \in Faults) /\ job' = AfterError /\ UNCHANGED fills
     \/ ~FillFails /\ fills' = fills \cup {job.v} /\ job' = [job EXCEPT !.at = "fillsend"]
  /\ UNCHANGED <<row, nextNonce, alloc, log, other, phase, node, users, book, fee, count>>

SendFill ==
  /\ job.at = "fillsend"
  /\ \/ Accepts(FillTx(job.v)) /\ job' = AfterFill
     \/ "rpc" \in Faults /\ Refuses(FillTx(job.v)) /\ job' = AfterError
  /\ UNCHANGED <<row, wallet, phase, mined, held, users, book, fee, count>>

\* A withdrawal's pinNonce: the statement, the commit, later its transaction,
\* which a replacement brings back when it is forgotten.
OtherAllocates ==
  /\ phase = "up" /\ ~Locked /\ alloc = None /\ \E o \in Others : other[o].nonce = None
  /\ alloc' = nextNonce
  /\ UNCHANGED <<row, nextNonce, fills, log, other, phase, job, node, users, book, fee, count>>

OtherCommits ==
  LET o == CHOOSE x \in Others : other[x].nonce = None IN
  /\ alloc # None
  /\ nextNonce' = alloc + 1 /\ other' = [other EXCEPT ![o].nonce = alloc] /\ alloc' = None
  /\ UNCHANGED <<row, fills, log, phase, job, node, users, book, fee, count>>

OtherSends(o) ==
  LET tx == Tx("other", o, other[o].nonce, 0) IN
  /\ phase = "up" /\ other[o].nonce # None /\ (other[o].sent => ~Known(tx))
  /\ Accepts(tx)
  /\ other' = [other EXCEPT ![o].sent = TRUE]
  /\ UNCHANGED <<row, nextNonce, alloc, fills, log, phase, job, mined, held, users, book, fee, count>>

-----------------------------------------------------------------------------
(* Restart.                                                                *)

Crash ==
  /\ phase # "down" /\ Used("crash", MaxCrashes)
  /\ phase' = "down" /\ job' = Idle /\ alloc' = None
  /\ UNCHANGED <<row, nextNonce, fills, log, other, node, users, book, fee>>

Start ==
  /\ phase = "down" /\ PendingNonce("hot") =< nextNonce
  /\ phase' = "starting"
  /\ UNCHANGED <<row, wallet, job, node, users, book, fee, count>>

\* holders: withdrawals and fills.  The fundings of sweeps are not among them.
Holders == fills \cup {other[o].nonce : o \in Others}
Gaps == (PendingNonce("hot")..(nextNonce - 1)) \ Holders

StartFill ==
  /\ phase = "starting" /\ job = Idle /\ Gaps # {} /\ fee =< Ceiling
  /\ job' = Job("fill", "none", Min(Gaps))
  /\ UNCHANGED <<row, wallet, phase, node, users, book, fee, count>>

Started ==
  /\ phase = "starting" /\ job = Idle /\ Gaps = {}
  /\ phase' = "up"
  /\ UNCHANGED <<row, wallet, job, node, users, book, fee, count>>

-----------------------------------------------------------------------------
(* The chain.                                                              *)

Succeeds(tx) ==
  held' = CASE tx.kind = "fund"  -> [held EXCEPT !.eth = @ + tx.val]
            [] tx.kind = "sweep" -> IF row[tx.id].asset = "eth" THEN [held EXCEPT !.eth = @ - tx.val - Cost]
                                    ELSE [held EXCEPT !.eth = @ - Cost, !.tok = @ - tx.val]
            [] OTHER             -> held

\* Reverted: only the gas is gone.
Reverts(tx) == held' = IF tx.kind = "sweep" THEN [held EXCEPT !.eth = @ - Cost] ELSE held

Mine(tx) ==
  LET a == Sender(tx)  put(ok) == mined' = [mined EXCEPT ![a] = Append(@, [tx |-> tx, ok |-> ok])] IN
  /\ tx.nonce = Len(mined[a]) /\ Affordable(tx)
  /\ pool' = pool \ {tx}
  /\ \/ Succeeds(tx) /\ put(TRUE) /\ UNCHANGED count
     \/ tx.kind \in {"fund", "sweep"} /\ Reverts(tx) /\ put(FALSE) /\ Used("revert", MaxReverts)
  /\ UNCHANGED <<row, wallet, phase, job, users, book, fee>>

\* A node forgets a transaction it held.  Nobody sends a fill again.
Drop(tx) ==
  /\ Used(IF tx.kind = "fill" THEN "dropfill" ELSE "drop", MaxDrops) /\ pool' = pool \ {tx}
  /\ UNCHANGED <<row, wallet, phase, job, mined, held, users, book, fee>>

-----------------------------------------------------------------------------
SweepStep(s) ==
  \/ FundGas(s) \/ TrackFunding(s) \/ ResendFunding(s) \/ BalanceChanged(s)
  \/ PinSweepNonce(s) \/ SendSigned(s) \/ Track(s) \/ ResendSweep(s)

JobStep ==
  \/ Release \/ ClearFunding \/ AlreadyFunded \/ PinFunding \/ SignFunding \/ SignFundingFails
  \/ RecordFunding \/ SendFunding \/ FundingRefused \/ SignSweep \/ SignSweepFails \/ SendSweep
  \/ MarkBroadcast \/ SweepRefused \/ Recycle \/ StepBack \/ RecordFill \/ SendFill

Next ==
  \/ \E a \in Assets : Deposit(a) \/ Credit(a) \/ Gift(a) \/ \E s \in Sweeps : Plan(s, a)
  \/ \E s \in Sweeps : SweepStep(s)
  \/ JobStep \/ MoveFee
  \/ OtherAllocates \/ OtherCommits \/ \E o \in Others : OtherSends(o)
  \/ Crash \/ Start \/ StartFill \/ Started
  \/ \E tx \in pool : Mine(tx) \/ Drop(tx)

\* The tickers fire, commits end, and the node mines what is next in line.
Fairness ==
  /\ WF_vars(JobStep) /\ WF_vars(\E s \in Sweeps : SweepStep(s))
  /\ WF_vars(OtherCommits) /\ WF_vars(\E o \in Others : OtherSends(o))
  /\ WF_vars(Start \/ StartFill \/ Started) /\ WF_vars(\E tx \in pool : Mine(tx))

Spec == Init /\ [][Next]_vars
FairSpec == Spec /\ Fairness

-----------------------------------------------------------------------------
(* Properties.                                                             *)

\* Fundings that arrived and sweeps that left, and the ledger has not booked.
Arrived == {s \in Sweeps : row[s].st = "requested" /\ row[s].fsigned /\ Succeeded(FundTx(s))}
Left(ok) == {s \in Open : row[s].signed /\ Mined(SweepTx(s)) /\ Succeeded(SweepTx(s)) = ok}
Amounts(S, a) == MapThenSumSet(LAMBDA s : row[s].amt, {s \in S : row[s].asset = a})

\* custody:deposit_addresses is what the address holds, except for transfers the
\* exchange cannot see, deposits not credited yet and what a sweep in progress
\* has moved and not booked.  It relates plan, both legs, their failures and
\* restarts: a leg booked twice, not booked or booked for a transaction that was
\* never sent breaks it for good.
BooksFollowChain ==
  /\ book.eth = held["eth"] - unseen["eth"] - (IF "eth" \in Assets THEN coming["eth"] ELSE 0)
                 - MapThenSumSet(LAMBDA s : row[s].fa, Arrived)
                 + Amounts(Left(TRUE), "eth") + Cost * Cardinality(Left(TRUE) \cup Left(FALSE))
  /\ book.tok = held["tok"] - unseen["tok"] - (IF "tok" \in Assets THEN coming["tok"] ELSE 0)
                 + Amounts(Left(TRUE), "tok")

\* What sweeps take from the address, now or once those in progress end, was
\* credited to users first: planning and the one-open-sweep index keep the sum
\* of several sweeps below what the ledger saw arrive.
SweptWasCredited ==
  \A a \in Assets : SweptFromAddress(a) + Amounts(Open, a) =< credited[a]

\* Whenever the sweeper is between two steps, each nonce handed out and not yet
\* mined has somebody to take it: a withdrawal, a recorded fill, an open sweep or
\* a transaction some node holds.  Otherwise every later withdrawal waits.  (A
\* fill that fails after a refused funding does leave one: the error is logged
\* and the sweep failed all the same.  Fault "fill".)  It looks below next_nonce:
\* a counter stepped back below a number in use is NonceOfOne's.
NoAbandonedNonce ==
  phase = "up" /\ job = Idle =>
    \A n \in Len(mined["hot"])..(nextNonce - 1) :
      \/ n \in Holders \cup {row[s].fn : s \in Open}
      \/ \E tx \in pool : Sender(tx) = "hot" /\ tx.nonce = n

\* A withdrawal has the number of the sweep's funding and was mined with it.
Overtaken(s) ==
  row[s].st = "requested" /\ \E o \in Others : Mined(Tx("other", o, row[s].fn, 0))

\* The address becomes free for the next sweep, as long as the process and the
\* signer do not fail, no node forgets a fill and its funding's number was not
\* handed out twice (NonceOfOne): nonces waited for, refused and forgotten
\* transactions, reverts and a moving fee never leave it closed.
SweepsEnd ==
  Open # {} ~> Open = {} \/ count.crash + count.signer + count.dropfill > 0 \/ \E s \in Open : Overtaken(s)

\* The manager's lock (hotwallet/nonce.go:67): allocation and recycling do not
\* interleave, so that no number is handed out twice.  It covers the call and not
\* the caller's commit, so Recycle may read the counter before a commit and step
\* it back after: violated.
NonceOfOne ==
  /\ \A o, p \in Others : other[o].nonce = other[p].nonce /\ o # p => other[o].nonce = None
  /\ \A s \in Open, o \in Others : job = Idle /\ row[s].fn # None => row[s].fn # other[o].nonce

\* signFunding's claim: whatever happens between pinning and recording, the
\* retry asks for the same intent, so the funding is eventually decided.
FundingEnds == \A s \in Sweeps : row[s].st = "requested" ~> row[s].st # "requested"
===============================================================================
