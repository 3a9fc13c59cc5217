------------------------------ MODULE Withdrawal ------------------------------
(***************************************************************************)
(* The withdrawal state machine of internal/chain/withdrawal with the hot  *)
(* wallet's nonce manager and the signing log behind it, the ledger        *)
(* buckets its postings move money between, and an external EVM node.      *)
(*                                                                         *)
(* The sending loop of the chain role is one goroutine: `job` is where it  *)
(* stands in the step of the withdrawal it works on, so a crash may fall   *)
(* between any two of its commits, signatures and sends.  The policy loop  *)
(* and the admin role work beside it, each step one transaction under the  *)
(* row's lock.                                                             *)
(*                                                                         *)
(* Abstractions: one account and one asset, every withdrawal the same      *)
(* amount and fee; fees, gas and the fee ceiling (which only postpones a   *)
(* step) are left out, and so is the status of a nonce fill's row, which   *)
(* the withdrawal side never reads.  Faults names what the environment may *)
(* do beyond crashes: the signer may fail ("signer"), an RPC call may fail *)
(* whether or not the node took the transaction ("rpc"), and an operator   *)
(* may ask for a retry of what was refunded ("reresolve").                 *)
(***************************************************************************)
EXTENDS Integers, Sequences, FiniteSets

CONSTANTS
  Withdrawals,      \* idempotency keys, one row each
  Funds,            \* the account's deposit
  Amount, Fee,
  DailyLimit,       \* what is decided without a person
  MaxReplacements,  \* fee bumps before a person is asked
  Faults,
  MaxAttempts,      \* bound: attempts signed for one withdrawal
  MaxSpent,         \* bound: what the owner uses elsewhere meanwhile
  MaxAsks,          \* bound: operator resolutions
  MaxCrashes, MaxReverts, MaxReorgs,   \* bounds, and one of the
  MaxTroubles       \* events of these three kinds together

ASSUME WithdrawalAssumption ==
  /\ IsFiniteSet(Withdrawals) /\ {"fill", "none"} \cap Withdrawals = {}
  /\ Funds \in Nat /\ Amount \in Nat \ {0} /\ Fee \in Nat /\ DailyLimit \in Nat
  /\ Faults \subseteq {"signer", "rpc", "reresolve"}
  /\ {MaxReplacements, MaxAttempts, MaxSpent, MaxAsks, MaxCrashes, MaxReverts, MaxReorgs,
     MaxTroubles} \subseteq Nat

VARIABLES
  row,       \* chain.withdrawals
  bal,       \* ledger.balances of the account: [avail, hold]
  house,     \* [pending, hot, revenue]; spent is the owner's other business
  keys,      \* idempotency keys of the postings made
  nextNonce, \* chain.hot_wallets.next_nonce
  fills,     \* chain.nonce_fills
  log,       \* chain.signing_log: the transactions signed
  phase,     \* the chain role: "down", "starting", "up"
  job,       \* what the sending loop is in the middle of
  mempool,   \* transactions some node holds
  mined,     \* mined[n + 1]: the transaction that took nonce n, and whether it succeeded
  deep,      \* how many of them have the required confirmations
  count      \* uses of the bounded environment actions

ledger == <<bal, house, keys>>
wallet == <<nextNonce, fills, log>>
node   == <<mempool, mined, deep>>
vars   == <<row, bal, house, keys, nextNonce, fills, log, phase, job, mempool, mined, deep, count>>

None == -1
NoTx == [w |-> "none", att |-> None, nonce |-> None]
Tx(w, att, n) == [w |-> w, att |-> att, nonce |-> n]
\* The zero-value self-transfer on a nonce; its signing intent is the nonce.
FillTx(n) == Tx("fill", 0, n)

Idle == [at |-> "idle", w |-> "none", tx |-> NoTx, clear |-> FALSE]
Job(at, w, tx, clear) == [at |-> at, w |-> w, tx |-> tx, clear |-> clear]

Ended == {"none", "rejected", "failed"}
Total == Amount + Fee

Init ==
  /\ row = [w \in Withdrawals |-> [st |-> "none", why |-> "", nonce |-> None, att |-> 0,
                                   tx |-> NoTx, cancel |-> FALSE, ask |-> ""]]
  /\ bal = [avail |-> Funds, hold |-> 0]
  /\ house = [pending |-> 0, hot |-> 0, revenue |-> 0, spent |-> 0]
  /\ keys = {} /\ nextNonce = 0 /\ fills = {} /\ log = {}
  /\ phase = "up" /\ job = Idle
  /\ mempool = {} /\ mined = << >> /\ deep = 0
  /\ count = [crash |-> 0, revert |-> 0, reorg |-> 0, ask |-> 0]

Status(w, st, why) == row' = [row EXCEPT ![w].st = st, ![w].why = why]

\* An event of the environment's that the bounds still allow.
Used(what, bound) ==
  /\ count[what] < bound /\ count.crash + count.revert + count.reorg < MaxTroubles
  /\ count' = [count EXCEPT ![what] = @ + 1]

-----------------------------------------------------------------------------
(* Request, decision, funds.                                               *)

\* Service.Create: the balance check is advisory, nothing is held yet.
Create(w) ==
  /\ row[w].st = "none" /\ bal.avail >= Total
  /\ Status(w, "requested", "")
  /\ UNCHANGED <<ledger, wallet, phase, job, node, count>>

\* The owner uses available balance elsewhere in the meantime.
Spend ==
  /\ house.spent < MaxSpent /\ bal.avail > 0
  /\ bal' = [bal EXCEPT !.avail = @ - 1] /\ house' = [house EXCEPT !.spent = @ + 1]
  /\ UNCHANGED <<row, keys, wallet, phase, job, node, count>>

\* decide: a frozen account or a disabled asset rejects; above the rolling
\* total a person decides.
Decide(w) ==
  LET committed == {v \in Withdrawals : row[v].st \notin Ended} IN
  /\ phase = "up" /\ row[w].st = "requested"
  /\ \/ Status(w, "rejected", "policy")
     \/ Status(w, IF Cardinality(committed) * Amount > DailyLimit THEN "pending_review" ELSE "auto_approved", "")
  /\ UNCHANGED <<ledger, wallet, phase, job, node, count>>

\* Reviewer.Review.
Review(w, approve) ==
  /\ row[w].st = "pending_review"
  /\ IF approve THEN Status(w, "approved", "") ELSE Status(w, "rejected", "policy")
  /\ UNCHANGED <<ledger, wallet, phase, job, node, count>>

\* lockFunds: amount and fee move to hold with the state change.
LockFunds(w) ==
  /\ phase = "up" /\ row[w].st \in {"auto_approved", "approved"}
  /\ IF bal.avail >= Total
       THEN /\ bal' = [avail |-> bal.avail - Total, hold |-> bal.hold + Total]
            /\ Status(w, "funds_locked", "")
       ELSE Status(w, "failed", "insufficient_balance") /\ UNCHANGED bal
  /\ UNCHANGED <<house, keys, wallet, phase, job, node, count>>

-----------------------------------------------------------------------------
(* Operator requests.                                                      *)

Resolvable(w, action) ==
  CASE action = "bump"         -> row[w].st = "broadcast" /\ ~row[w].cancel
    [] action = "cancel_nonce" -> row[w].st = "broadcast"
    [] OTHER                   -> row[w].st = "failed" /\ row[w].why = "on_chain"

Refunded(w) == <<"refund", w, row[w].att>> \in keys

\* Reviewer.RequestResolve: the request is only recorded.
RequestResolve(w, action) ==
  /\ Resolvable(w, action) /\ row[w].ask = "" /\ count.ask < MaxAsks
  /\ Refunded(w) => "reresolve" \in Faults
  /\ row' = [row EXCEPT ![w].ask = action]
  /\ count' = [count EXCEPT !.ask = @ + 1]
  /\ UNCHANGED <<ledger, wallet, phase, job, node>>

-----------------------------------------------------------------------------
(* The node, as the wallet sees it.                                        *)

\* SendRawTransaction answers "already known" or "nonce too low": both count
\* as sent.
Known(tx) == tx \in mempool \/ tx.nonce < Len(mined)

Accepts(tx) == IF Known(tx) THEN UNCHANGED mempool ELSE mempool' = mempool \cup {tx}

\* The node refuses what it does not know; an RPC error says nothing.
Refuses(tx) ==
  \/ ~Known(tx) /\ UNCHANGED mempool
  \/ "rpc" \in Faults /\ (UNCHANGED mempool \/ Accepts(tx))

\* The signing log has one transaction for an intent: asking again returns it,
\* asking with another nonce is refused.
Signable(tx) ==
  \A x \in log : x.w = tx.w /\ x.att = tx.att /\ (tx.w = "fill" => x.nonce = tx.nonce) => x = tx
Sign(tx) == Signable(tx) /\ log' = log \cup {tx}

-----------------------------------------------------------------------------
(* The sending loop: sign.                                                 *)

Ready(w, st) == phase = "up" /\ job = Idle /\ row[w].st = st

\* pinNonce: allocated and kept on the row in one commit, before signing.
PinNonce(w) ==
  /\ Ready(w, "funds_locked")
  /\ IF row[w].nonce = None
       THEN /\ nextNonce' = nextNonce + 1
            /\ row' = [row EXCEPT ![w].nonce = nextNonce]
       ELSE UNCHANGED <<row, nextNonce>>
  /\ job' = Job("sign", w, Tx(w, row[w].att, row'[w].nonce), FALSE)
  /\ UNCHANGED <<ledger, fills, log, phase, node, count>>

SignerSigns ==
  /\ job.at = "sign" /\ Sign(job.tx)
  /\ job' = [job EXCEPT !.at = "record"]
  /\ UNCHANGED <<row, ledger, nextNonce, fills, phase, node, count>>

\* The signer refuses, or its answer does not arrive: the nonce is given back
\* although the row keeps it.
SignerFails ==
  /\ job.at = "sign" /\ ("signer" \in Faults \/ ~Signable(job.tx))
  /\ Sign(job.tx) \/ UNCHANGED log
  /\ job' = [job EXCEPT !.at = "recycle"]
  /\ UNCHANGED <<row, ledger, nextNonce, fills, phase, node, count>>

\* SignWithdrawal: nonce, transaction and state in one statement.
RecordSigned ==
  /\ job.at = "record"
  /\ row' = [row EXCEPT ![job.w].st = "signed", ![job.w].tx = job.tx, ![job.w].nonce = job.tx.nonce]
  /\ job' = Idle
  /\ UNCHANGED <<ledger, wallet, phase, node, count>>

\* Mutant of Recycle: a nonce that is not the last one is dropped.
RecycleLastOnly ==
  LET n == job.tx.nonce IN
  /\ job.at = "recycle"
  /\ nextNonce' = IF nextNonce = n + 1 THEN n ELSE nextNonce
  /\ job' = Idle
  /\ UNCHANGED <<row, ledger, fills, log, phase, node, count>>

\* Recycle: the last nonce steps back, any other is filled.
Recycle ==
  LET n == job.tx.nonce IN
  /\ job.at = "recycle"
  /\ IF nextNonce = n + 1
       THEN nextNonce' = n /\ job' = Idle
       ELSE job' = Job("fill", "none", FillTx(n), FALSE) /\ UNCHANGED nextNonce
  /\ UNCHANGED <<row, ledger, fills, log, phase, node, count>>

\* fill: signed, recorded under the nonce's unique key, then sent.
RecordFill ==
  /\ job.at = "fill"
  /\ IF job.tx.nonce \in fills
       THEN job' = Idle /\ UNCHANGED <<fills, log>>
       ELSE /\ Sign(job.tx) /\ fills' = fills \cup {job.tx.nonce}
            /\ job' = [job EXCEPT !.at = "fillsend"]
  /\ UNCHANGED <<row, ledger, nextNonce, phase, node, count>>

SendFill ==
  /\ job.at = "fillsend"
  /\ Accepts(job.tx) \/ Refuses(job.tx)
  /\ job' = Idle
  /\ UNCHANGED <<row, ledger, wallet, phase, mined, deep, count>>

-----------------------------------------------------------------------------
(* The sending loop: broadcast.                                            *)

\* broadcast: the stored bytes are sent first.
Broadcast(w) ==
  /\ Ready(w, "signed")
  /\ \/ Accepts(row[w].tx) /\ job' = Job("post", w, row[w].tx, FALSE)
     \/ Refuses(row[w].tx) /\ job' = Job("refused", w, row[w].tx, FALSE)
  /\ UNCHANGED <<row, ledger, wallet, phase, mined, deep, count>>

\* Mutant of PostBroadcast: the posting is keyed by the withdrawal alone.
PostBroadcastOnce ==
  LET w == job.w IN
  /\ job.at = "post"
  /\ IF <<"broadcast", w, 0>> \in keys THEN UNCHANGED ledger
     ELSE /\ bal.hold >= Amount
          /\ bal' = [bal EXCEPT !.hold = @ - Amount] /\ house' = [house EXCEPT !.pending = @ + Amount]
          /\ keys' = keys \cup {<<"broadcast", w, 0>>}
  /\ Status(w, "broadcast", "") /\ job' = Idle
  /\ UNCHANGED <<wallet, phase, node, count>>

\* The amount moves from hold to pending_withdrawal, keyed by the attempt, in
\* the transaction that marks the row.
PostBroadcast ==
  LET w == job.w  key == <<"broadcast", w, row[w].att>> IN
  /\ job.at = "post"
  /\ IF key \in keys THEN UNCHANGED ledger
     ELSE /\ bal.hold >= Amount
          /\ bal' = [bal EXCEPT !.hold = @ - Amount] /\ house' = [house EXCEPT !.pending = @ + Amount]
          /\ keys' = keys \cup {key}
  /\ Status(w, "broadcast", "") /\ job' = Idle
  /\ UNCHANGED <<wallet, phase, node, count>>

\* broadcastFailed: a nonce the chain has counted is left alone; otherwise
\* amount and fee are released and the nonce is given back.
BroadcastFailed ==
  LET w == job.w IN
  /\ job.at = "refused"
  /\ IF Len(mined) > row[w].nonce
       THEN job' = Idle /\ UNCHANGED <<row, bal>>
       ELSE /\ bal.hold >= Total
            /\ bal' = [avail |-> bal.avail + Total, hold |-> bal.hold - Total]
            /\ Status(w, "failed", "broadcast")
            /\ job' = [job EXCEPT !.at = "recycle"]
  /\ UNCHANGED <<house, keys, wallet, phase, node, count>>

-----------------------------------------------------------------------------
(* The sending loop: track.                                                *)

Mined(tx) == \E i \in DOMAIN mined : mined[i].tx = tx
Confirmed(tx, ok) == \E i \in 1..deep : mined[i].tx = tx /\ mined[i].ok = ok

\* What track watches: the displacement when there is one and the node has
\* it, the recorded transaction otherwise.
Displaced(w) == row[w].cancel /\ Mined(FillTx(row[w].nonce))

\* Mutant of Confirm: one block is enough.
ConfirmEarly(w) ==
  /\ Ready(w, "broadcast") /\ ~Displaced(w)
  /\ \E i \in DOMAIN mined : mined[i].tx = row[w].tx /\ mined[i].ok
  /\ bal.hold >= Fee
  /\ bal' = [bal EXCEPT !.hold = @ - Fee]
  /\ house' = [house EXCEPT !.pending = @ - Amount, !.hot = @ + Amount, !.revenue = @ + Fee]
  /\ Status(w, "confirmed", "")
  /\ UNCHANGED <<keys, wallet, phase, job, node, count>>

\* confirm: pending_withdrawal to custody, the fee from hold to revenue.
Confirm(w) ==
  /\ Ready(w, "broadcast") /\ ~Displaced(w) /\ Confirmed(row[w].tx, TRUE)
  /\ bal.hold >= Fee
  /\ bal' = [bal EXCEPT !.hold = @ - Fee]
  /\ house' = [house EXCEPT !.pending = @ - Amount, !.hot = @ + Amount, !.revenue = @ + Fee]
  /\ Status(w, "confirmed", "")
  /\ UNCHANGED <<keys, wallet, phase, job, node, count>>

\* failedOnChain: the amount stays in pending_withdrawal, the fee on hold.
FailedOnChain(w) ==
  /\ Ready(w, "broadcast") /\ ~Displaced(w) /\ Confirmed(row[w].tx, FALSE)
  /\ Status(w, "failed", "on_chain")
  /\ UNCHANGED <<ledger, wallet, phase, job, node, count>>

\* Mutant of SettleCancelled: the refund does not wait for the displacement.
SettleCancelledEarly(w) ==
  /\ Ready(w, "broadcast") /\ row[w].cancel
  /\ bal.hold >= Fee
  /\ bal' = [avail |-> bal.avail + Total, hold |-> bal.hold - Fee]
  /\ house' = [house EXCEPT !.pending = @ - Amount]
  /\ Status(w, "failed", "replaced")
  /\ UNCHANGED <<keys, wallet, phase, job, node, count>>

\* settleCancelled: the displacement has the nonce, the user gets both back.
SettleCancelled(w) ==
  /\ Ready(w, "broadcast") /\ row[w].cancel /\ Confirmed(FillTx(row[w].nonce), TRUE)
  /\ bal.hold >= Fee
  /\ bal' = [avail |-> bal.avail + Total, hold |-> bal.hold - Fee]
  /\ house' = [house EXCEPT !.pending = @ - Amount]
  /\ Status(w, "failed", "replaced")
  /\ UNCHANGED <<keys, wallet, phase, job, node, count>>

\* Mutant of SignReplacement: the bump takes a nonce of its own.
SignReplacementFresh(w, clear) ==
  /\ row[w].att < MaxAttempts
  /\ Sign(Tx(w, row[w].att + 1, nextNonce)) /\ nextNonce' = nextNonce + 1
  /\ job' = Job("resend", w, Tx(w, row[w].att + 1, nextNonce), clear)
  /\ UNCHANGED <<row, ledger, fills, phase, node, count>>

\* replace: the next attempt on the same nonce is signed.
SignReplacement(w, clear) ==
  /\ row[w].att < MaxAttempts
  /\ Sign(Tx(w, row[w].att + 1, row[w].nonce))
  /\ job' = Job("resend", w, Tx(w, row[w].att + 1, row[w].nonce), clear)
  /\ UNCHANGED <<row, ledger, nextNonce, fills, phase, node, count>>

\* maybeReplace: unmined for too long, and bumps are left.
MaybeReplace(w) ==
  /\ Ready(w, "broadcast") /\ ~Mined(row[w].tx) /\ ~row[w].cancel
  /\ row[w].att < MaxReplacements
  /\ SignReplacement(w, FALSE)

\* The bump is sent; a refused one only counts, the row keeps its hash.
Resend ==
  /\ job.at = "resend"
  /\ \/ Accepts(job.tx) /\ job' = [job EXCEPT !.at = "replaced"] /\ UNCHANGED row
     \/ Refuses(job.tx) /\ job' = Idle /\ row' = [row EXCEPT ![job.w].att = @ + 1]
  /\ UNCHANGED <<ledger, wallet, phase, mined, deep, count>>

Cleared == IF job.clear THEN [job EXCEPT !.at = "clear"] ELSE Idle

\* ReplaceWithdrawalTx.
RecordReplacement ==
  /\ job.at = "replaced"
  /\ row' = [row EXCEPT ![job.w].att = @ + 1, ![job.w].tx = job.tx]
  /\ job' = Cleared
  /\ UNCHANGED <<ledger, wallet, phase, node, count>>

-----------------------------------------------------------------------------
(* ApplyResolutions.                                                       *)

Asked(w, action) == phase = "up" /\ job = Idle /\ row[w].ask = action /\ Resolvable(w, action)

Bump(w) == Asked(w, "bump") /\ SignReplacement(w, TRUE)

\* cancelNonce: the self-transfer is signed and recorded, then sent.
CancelNonce(w) ==
  LET n == row[w].nonce IN
  /\ Asked(w, "cancel_nonce") /\ n \notin fills
  /\ Sign(FillTx(n)) /\ fills' = fills \cup {n}
  /\ job' = Job("cancelsend", w, FillTx(n), TRUE)
  /\ UNCHANGED <<row, ledger, nextNonce, phase, node, count>>

SendCancel ==
  /\ job.at = "cancelsend"
  /\ \/ Accepts(job.tx) /\ job' = [job EXCEPT !.at = "cancelmark"]
     \/ Refuses(job.tx) /\ job' = Idle
  /\ UNCHANGED <<row, ledger, wallet, phase, mined, deep, count>>

MarkCancelling ==
  /\ job.at = "cancelmark"
  /\ row' = [row EXCEPT ![job.w].cancel = TRUE] /\ job' = Cleared
  /\ UNCHANGED <<ledger, wallet, phase, node, count>>

\* settleFailed: amount and fee go back; the row stays failed(on_chain).
Refund(w) ==
  LET key == <<"refund", w, row[w].att>> IN
  /\ Asked(w, "refund")
  /\ IF key \in keys THEN UNCHANGED ledger
     ELSE /\ bal.hold >= Fee
          /\ bal' = [avail |-> bal.avail + Total, hold |-> bal.hold - Fee]
          /\ house' = [house EXCEPT !.pending = @ - Amount]
          /\ keys' = keys \cup {key}
  /\ job' = Job("clear", w, NoTx, TRUE)
  /\ UNCHANGED <<row, wallet, phase, node, count>>

\* settleFailed: the amount returns to hold, the row to funds_locked.
Retry(w) ==
  LET key == <<"retry", w, row[w].att>> IN
  /\ Asked(w, "retry") /\ row[w].att < MaxAttempts
  /\ IF key \in keys THEN UNCHANGED ledger
     ELSE /\ bal' = [bal EXCEPT !.hold = @ + Amount]
          /\ house' = [house EXCEPT !.pending = @ - Amount]
          /\ keys' = keys \cup {key}
  /\ row' = [row EXCEPT ![w] = [row[w] EXCEPT !.st = "funds_locked", !.why = "", !.nonce = None,
                                              !.tx = NoTx, !.cancel = FALSE, !.att = @ + 1]]
  /\ job' = Job("clear", w, NoTx, TRUE)
  /\ UNCHANGED <<wallet, phase, node, count>>

\* ClearWithdrawalResolve, a statement of its own after the action.
ClearRequest ==
  /\ job.at = "clear"
  /\ row' = [row EXCEPT ![job.w].ask = ""] /\ job' = Idle
  /\ UNCHANGED <<ledger, wallet, phase, node, count>>

\* The request no longer applies.
DropRequest(w) ==
  /\ phase = "up" /\ job = Idle /\ row[w].ask # "" /\ ~Resolvable(w, row[w].ask)
  /\ row' = [row EXCEPT ![w].ask = ""]
  /\ UNCHANGED <<ledger, wallet, phase, job, node, count>>

-----------------------------------------------------------------------------
(* Restart.                                                                *)

Crash ==
  /\ phase # "down" /\ Used("crash", MaxCrashes)
  /\ phase' = "down" /\ job' = Idle
  /\ UNCHANGED <<row, ledger, wallet, node>>

\* eth_getTransactionCount(pending): the nonces a node could mine in order.
PendingNonce ==
  CHOOSE n \in Len(mined)..(Len(mined) + Cardinality(mempool)) :
    /\ \A k \in Len(mined)..(n - 1) : \E tx \in mempool : tx.nonce = k
    /\ \A tx \in mempool : tx.nonce # n

\* Manager.Start refuses when the chain has counted more than was allocated.
Start ==
  /\ phase = "down" /\ PendingNonce =< nextNonce
  /\ phase' = "starting"
  /\ UNCHANGED <<row, ledger, wallet, job, node, count>>

Holders == fills \cup {row[w].nonce : w \in {v \in Withdrawals :
             row[v].st \in {"funds_locked", "signed", "broadcast", "confirmed"}}}
Gaps == (PendingNonce..(nextNonce - 1)) \ Holders

\* An allocated nonce that nothing holds is filled.
StartFill ==
  /\ phase = "starting" /\ job = Idle
  /\ \E n \in Gaps : (\A m \in Gaps : n =< m) /\ job' = Job("fill", "none", FillTx(n), FALSE)
  /\ UNCHANGED <<row, ledger, wallet, phase, node, count>>

Started ==
  /\ phase = "starting" /\ job = Idle /\ Gaps = {}
  /\ phase' = "up"
  /\ UNCHANGED <<row, ledger, wallet, job, node, count>>

-----------------------------------------------------------------------------
(* The chain.                                                              *)

\* The next nonce is taken by any transaction some node still holds.
Mine(tx, ok) ==
  /\ tx.nonce = Len(mined)
  /\ IF ok THEN UNCHANGED count ELSE tx.w # "fill" /\ Used("revert", MaxReverts)
  /\ mined' = Append(mined, [tx |-> tx, ok |-> ok]) /\ mempool' = mempool \ {tx}
  /\ UNCHANGED <<row, ledger, wallet, phase, job, deep>>

Deepen ==
  /\ deep < Len(mined) /\ deep' = deep + 1
  /\ UNCHANGED <<row, ledger, wallet, phase, job, mempool, mined, count>>

\* A block without the required confirmations is undone.
Reorg ==
  /\ deep < Len(mined) /\ Used("reorg", MaxReorgs)
  /\ mempool' = mempool \cup {mined[Len(mined)].tx}
  /\ mined' = SubSeq(mined, 1, Len(mined) - 1)
  /\ UNCHANGED <<row, ledger, wallet, phase, job, deep>>

-----------------------------------------------------------------------------
SendStep(w) ==
  \/ PinNonce(w) \/ Broadcast(w) \/ Confirm(w) \/ FailedOnChain(w)
  \/ SettleCancelled(w) \/ MaybeReplace(w)

ResolveStep(w) ==
  Bump(w) \/ CancelNonce(w) \/ Refund(w) \/ Retry(w) \/ DropRequest(w)

JobStep ==
  \/ SignerSigns \/ SignerFails \/ RecordSigned \/ Recycle \/ RecordFill \/ SendFill
  \/ PostBroadcast \/ BroadcastFailed \/ Resend \/ RecordReplacement
  \/ SendCancel \/ MarkCancelling \/ ClearRequest

Next ==
  \/ \E w \in Withdrawals :
       \/ Create(w) \/ Decide(w) \/ LockFunds(w) \/ SendStep(w) \/ ResolveStep(w)
       \/ \E approve \in BOOLEAN : Review(w, approve)
       \/ \E action \in {"bump", "cancel_nonce", "refund", "retry"} : RequestResolve(w, action)
  \/ JobStep \/ Spend \/ Crash \/ Start \/ StartFill \/ Started
  \/ \E tx \in mempool, ok \in BOOLEAN : Mine(tx, ok)
  \/ Deepen \/ Reorg

Spec == Init /\ [][Next]_vars

-----------------------------------------------------------------------------
(* Properties.                                                             *)

With(P(_)) == Cardinality({w \in Withdrawals : P(w)})

\* A reverted withdrawal whose money nobody has decided about yet.
Undecided(w) == row[w].st = "failed" /\ row[w].why = "on_chain" /\ ~Refunded(w)

\* Every bucket is what the rows say it should be: hold carries amount and fee
\* until the broadcast and the fee after it, pending_withdrawal the amounts on
\* their way, custody and revenue what was confirmed.  It relates the commits
\* of sign, broadcast, confirm, cancel, refund and retry with each other over
\* crashes and repeated requests.  Nothing is overdrawn.
LedgerAgrees ==
  /\ bal.avail >= 0
  /\ bal.hold = Total * With(LAMBDA w : row[w].st \in {"funds_locked", "signed"})
                  + Fee * With(LAMBDA w : row[w].st = "broadcast" \/ Undecided(w))
  /\ house.pending = Amount * With(LAMBDA w : row[w].st = "broadcast" \/ Undecided(w))
  /\ house.hot = Amount * With(LAMBDA w : row[w].st = "confirmed")
  /\ house.revenue = Fee * With(LAMBDA w : row[w].st = "confirmed")

\* The user has the money back by an operator's decision.
Returned(w) == row[w].st = "failed" /\ (row[w].why = "replaced" \/ Refunded(w))

\* settleCancelled and settleFailed give money back only when no transaction of
\* the withdrawal can pay any more: none has paid, and none that some node holds
\* has a nonce that is still open.
ReturnedIsOver ==
  \A w \in Withdrawals : Returned(w) =>
    /\ \A i \in DOMAIN mined : mined[i].tx.w = w => ~mined[i].ok /\ i =< deep
    /\ \A tx \in mempool : tx.w = w => tx.nonce < deep

\* The chain pays a withdrawal at most once, whatever was bumped, retried,
\* recycled or signed again.
PaidOnce ==
  \A i, j \in DOMAIN mined :
    mined[i].ok /\ mined[j].ok /\ mined[i].tx.w = mined[j].tx.w /\ mined[i].tx.w # "fill" => i = j

\* A confirmed withdrawal is paid beyond the confirmations: no reorganisation
\* takes it back.
ConfirmedIsPaid ==
  \A w \in Withdrawals : row[w].st = "confirmed" => \E i \in 1..deep : mined[i].tx = row[w].tx /\ mined[i].ok

\* Whenever the sending loop is between two steps, each nonce handed out and not
\* yet mined has somebody to take it: an open withdrawal, a recorded fill or a
\* transaction some node holds.  Otherwise everything behind it waits for ever.
\* (A recorded fill counts although nobody sends it again if its send failed.)
NoAbandonedNonce ==
  phase = "up" /\ job = Idle =>
    \A n \in Len(mined)..(nextNonce - 1) : n \in Holders \/ \E tx \in mempool : tx.nonce = n

\* hotwallet's claim that a number is never handed out twice: no two
\* withdrawals that may still be sent hold the same nonce.
NonceOfOne ==
  LET holds(w) == row[w].st \in {"funds_locked", "signed", "broadcast"} /\ row[w].nonce # None IN
  \A v, w \in Withdrawals : v # w /\ holds(v) /\ holds(w) => row[v].nonce # row[w].nonce

\* settleFailed's claim: a refund ends the withdrawal.  Nothing sends it again.
RefundEnds ==
  \A w \in Withdrawals : (\E a \in 0..MaxAttempts : <<"refund", w, a>> \in keys) => row[w].st = "failed"
===============================================================================
