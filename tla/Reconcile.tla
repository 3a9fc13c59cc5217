------------------------------- MODULE Reconcile -------------------------------
(***************************************************************************)
(* internal/chain/reconcile: passes that compare, asset by asset, what the *)
(* ledger says the exchange holds on chain with what the chain says.       *)
(*                                                                         *)
(* A pass is a sequence of RPC calls and database reads; `pass` is where   *)
(* it stands and what the calls before returned.  In between the node      *)
(* mines and reorganises, and the scanner, the withdrawals' loop and the   *)
(* sweeper, each on a clock of its own, book what they find.               *)
(*                                                                         *)
(* Abstractions: a transaction is an item; where it is mined, and whether  *)
(* its row has been booked, is all that matters here.  Those three workers *)
(* appear by the commits they make (Deposit, Withdrawal and Sweep have     *)
(* their steps).  Holdings count from a start on which both sides agree.   *)
(* A block's hash is the branch it was mined on, as in Deposit.  Custody   *)
(* is the sum of the two custody accounts.  A sweep's gas funding is to a  *)
(* pass what a sweep is, and is left out.                                  *)
(***************************************************************************)
EXTENDS Integers, Sequences, FiniteSetsExt

CONSTANTS
  Assets, Native,
  Required,     \* [Assets -> Nat]: required_confirmations
  Deposits, Withdrawals, Sweeps,
  Fills,        \* nonce fills, cancellations included
  Strangers,    \* transfers to or from our addresses that no row describes
  Asset,        \* of an item
  Amount,       \* of an item
  Gas,          \* of an item: what its transaction burns
  CancelledBy,  \* [Withdrawals -> Fills and "none"]: resolve(cancel_nonce)
  MayRevert,    \* withdrawals whose transaction may revert
  LateMark,     \* may a sweep be mined before its row says broadcast
  MaxHeight, MaxTxs, MaxReorgs, MaxDepth, MaxPasses   \* bounds, of a block and of a reorganisation too

Sent == Withdrawals \cup Sweeps \cup Fills
Items == Deposits \cup Sent \cup Strangers

ASSUME ReconcileAssumption ==
  /\ Native \in Assets /\ Required \in [Assets -> Nat \ {0}]
  /\ Asset \in [Items -> Assets] /\ Amount \in [Items -> Int] /\ Gas \in [Items -> Nat]
  /\ CancelledBy \in [Withdrawals -> Fills \cup {"none"}] /\ MayRevert \subseteq Withdrawals
  /\ LateMark \in BOOLEAN

VARIABLES
  chain,    \* the node's canonical chain: blocks [branch, txs, bad]
  branch,   \* reorganisations so far
  row,      \* of an item: the status of its row, and the block it was booked at
  custody,  \* ledger: the custody accounts, per asset
  ring,     \* chain.blocks: the hash the scanner recorded at a height
  cursor,   \* chain.scan_cursors
  pass,     \* the pass under way
  report,   \* the latest report
  passes    \* passes begun

node == <<chain, branch>>
books == <<row, custody>>
scan == <<ring, cursor>>
vars == <<chain, branch, row, custody, ring, cursor, pass, report, passes>>

NoHash == -1
Height == Len(chain)
HashAt(n) == IF n = 0 THEN 0 ELSE IF n \in 1..Height THEN chain[n].branch ELSE NoHash

\* Where the receipt of an item says it was mined; 0 is ErrNotFound.
BlockOf(i) ==
  IF \E n \in 1..Height : i \in chain[n].txs THEN CHOOSE n \in 1..Height : i \in chain[n].txs ELSE 0
Reverted(i) == \E n \in 1..Height : i \in chain[n].bad
Mined == UNION {chain[n].txs : n \in 1..Height}
UpTo(n) == UNION {chain[m].txs : m \in (1..n) \cap (1..Height)}

Zero == [a \in Assets |-> 0]
NoFrontier == [a \in Assets |-> -1]
Idle == [at |-> "idle", head |-> 0, fills |-> {}, scanned |-> 0, frontier |-> NoFrontier, hashes |-> Zero,
         seen |-> Zero, ledger |-> Zero, open |-> {}, flight |-> Zero, settled |-> FALSE]

Init ==
  /\ chain = << >> /\ branch = 0
  /\ row = [i \in Items |-> [st |-> IF i \in Sweeps THEN "requested" ELSE IF i \in Sent THEN "broadcast" ELSE "none",
                             block |-> 0]]
  /\ custody = Zero
  /\ ring = [n \in 1..MaxHeight |-> NoHash] /\ cursor = 0
  /\ pass = Idle /\ passes = 0
  /\ report = [diff |-> Zero, news |-> {}]

-----------------------------------------------------------------------------
(* The node.                                                               *)

\* What item i moves of asset a at a place.
Moves(i, place, a) ==
  LET native(amount) == IF a = Native THEN amount ELSE 0
      own(amount)    == IF a = Asset[i] /\ ~Reverted(i) THEN amount ELSE 0
      sender         == IF i \in Sweeps THEN "addresses" ELSE "hot"
      burnt          == IF i \in Sent /\ place = sender THEN native(Gas[i]) ELSE 0
  IN  CASE i \in Deposits    -> IF place = "addresses" THEN own(Amount[i]) ELSE 0
        [] i \in Strangers   -> IF place = "hot" THEN own(Amount[i]) ELSE 0
        [] i \in Withdrawals -> (IF place = "hot" THEN own(-Amount[i]) ELSE 0) - burnt
        [] i \in Sweeps      -> own(IF place = "hot" THEN Amount[i] ELSE -Amount[i]) - burnt
        [] i \in Fills       -> -burnt

\* BalanceAt, over the addresses of a place, at block n.
BalanceAt(place, a, n) == MapThenSumSet(LAMBDA i : Moves(i, place, a), UpTo(n))

\* Of a withdrawal and its cancellation, which have one nonce, one is mined.
Competes(i, txs) ==
  \E w \in Withdrawals : CancelledBy[w] # "none" /\ i \in {w, CancelledBy[w]} /\ ({w, CancelledBy[w]} \ {i}) \cap txs # {}

Minable(txs) ==
  /\ txs \cap Mined = {} /\ Cardinality(txs) =< MaxTxs
  /\ \A i \in txs : ~Competes(i, Mined \cup txs)
  /\ \A s \in txs \cap Sweeps : LateMark \/ row[s].st # "requested"

Mine ==
  /\ Height < MaxHeight
  /\ \E txs \in SUBSET Items : \E bad \in SUBSET (txs \cap MayRevert) :
       /\ Minable(txs)
       /\ chain' = Append(chain, [branch |-> branch, txs |-> txs, bad |-> bad])
  /\ UNCHANGED <<branch, books, scan, pass, report, passes>>

Reorg ==
  /\ branch < MaxReorgs
  /\ \E n \in 0..(Height - 1) : Height - n =< MaxDepth /\ chain' = SubSeq(chain, 1, n)
  /\ branch' = branch + 1
  /\ UNCHANGED <<books, scan, pass, report, passes>>

-----------------------------------------------------------------------------
(* The workers' commits.                                                   *)

Deep(n, head, a) == n > 0 /\ n =< head /\ head - n + 1 >= Required[a]

Book(i, st, n) == row' = [row EXCEPT ![i] = [st |-> st, block |-> n]]
Take(a, amount) == [Zero EXCEPT ![a] = amount]
Spend(x, y) == custody' = [a \in Assets |-> custody[a] - x[a] - y[a]]

\* Deposit!Rewind: what was pending above the ancestor is no longer; credited
\* deposits stay.  Deposit!CommitBlock: the next block and its deposits.
Scan ==
  /\ cursor > 0 => ring[cursor] = HashAt(cursor)
  /\ cursor < Height
  /\ LET n == cursor + 1 IN
     /\ row' = [i \in Items |-> IF i \in chain[n].txs \cap Deposits /\ row[i].st # "credited"
                                  THEN [st |-> "pending", block |-> n] ELSE row[i]]
     /\ ring' = [ring EXCEPT ![n] = HashAt(n)] /\ cursor' = n
  /\ UNCHANGED <<node, custody, pass, report, passes>>

Rewind ==
  /\ cursor > 0 /\ ring[cursor] # HashAt(cursor)
  /\ \E n \in 0..(cursor - 1) :
       /\ n > 0 => ring[n] = HashAt(n)
       /\ \A m \in (n + 1)..cursor : ring[m] # HashAt(m)
       /\ row' = [i \in Items |-> IF i \in Deposits /\ row[i].st = "pending" /\ row[i].block > n
                                    THEN [st |-> "none", block |-> 0] ELSE row[i]]
       /\ ring' = [m \in 1..MaxHeight |-> IF m > n THEN NoHash ELSE ring[m]] /\ cursor' = n
  /\ UNCHANGED <<node, custody, pass, report, passes>>

Credit(d) ==
  /\ row[d].st = "pending" /\ Deep(row[d].block, Height, Asset[d]) /\ ring[row[d].block] = HashAt(row[d].block)
  /\ Book(d, "credited", row[d].block)
  /\ Spend(Take(Asset[d], -Amount[d]), Zero)
  /\ UNCHANGED <<node, scan, pass, report, passes>>

\* Withdrawal!Confirm and FailedOnChain: the amount leaves custody unless the
\* transaction reverted; the gas leaves it in any case.
ConfirmWithdrawal(w) ==
  LET n == BlockOf(w) IN
  /\ row[w].st = "broadcast" /\ Deep(n, Height, Asset[w])
  /\ Book(w, IF Reverted(w) THEN "failed" ELSE "confirmed", n)
  /\ Spend(IF Reverted(w) THEN Zero ELSE Take(Asset[w], Amount[w]), Take(Native, Gas[w]))
  /\ UNCHANGED <<node, scan, pass, report, passes>>

\* settleCancelled: the displacement's gas is booked under the withdrawal's
\* key, and neither row is given its cost and block.
SettleCancelled(w) ==
  LET f == CancelledBy[w] IN
  /\ f # "none" /\ row[w].st = "broadcast" /\ Deep(BlockOf(f), Height, Asset[w])
  /\ row' = [row EXCEPT ![w] = [st |-> "failed", block |-> 0], ![f].st = "confirmed"]
  /\ Spend(Zero, Take(Native, Gas[f]))
  /\ UNCHANGED <<node, scan, pass, report, passes>>

\* MarkSweepBroadcast, after the sweep was sent.
MarkSweep(s) ==
  /\ row[s].st = "requested"
  /\ Book(s, "broadcast", 0)
  /\ UNCHANGED <<node, custody, scan, pass, report, passes>>

\* Sweep!Confirm: the amount stays in custody, the gas leaves it.
ConfirmSweep(s) ==
  LET n == BlockOf(s) IN
  /\ row[s].st = "broadcast" /\ Deep(n, Height, Asset[s])
  /\ Book(s, "confirmed", n)
  /\ Spend(Zero, Take(Native, Gas[s]))
  /\ UNCHANGED <<node, scan, pass, report, passes>>

-----------------------------------------------------------------------------
(* A pass.                                                                 *)

Begin ==
  /\ pass.at = "idle" /\ passes < MaxPasses
  /\ pass' = [Idle EXCEPT !.at = "fills", !.head = Height, !.fills = {f \in Fills : row[f].st = "broadcast"}]
  /\ passes' = passes + 1
  /\ UNCHANGED <<node, books, scan, report>>

\* bookOneFill: a fill that is deep enough is booked and its row confirmed,
\* whatever the row has become since it was listed.
BookFill ==
  /\ pass.at = "fills"
  /\ \E f \in pass.fills :
       /\ pass' = [pass EXCEPT !.fills = @ \ {f}]
       /\ IF Deep(BlockOf(f), pass.head, Native)
            THEN Book(f, "confirmed", BlockOf(f)) /\ Spend(Zero, Take(Native, Gas[f]))
            ELSE UNCHANGED books
  /\ UNCHANGED <<node, scan, report, passes>>

\* Mutant of Frontier: the head alone decides.
FrontierOfHead(a) == pass.head - Required[a] + 1

Frontier(a) == LET b == pass.head - Required[a] + 1 IN IF cursor < b THEN cursor ELSE b

\* frontiers, and the first reading of their blocks' hashes.  A head below the
\* confirmations, or a block the node no longer has, ends the pass.
Frontiers ==
  /\ pass.at = "fills" /\ pass.fills = {}
  /\ LET f == [a \in Assets |-> Frontier(a)] IN
     pass' = IF \E a \in Assets : pass.head + 1 < Required[a] \/ f[a] > Height THEN Idle
             ELSE [pass EXCEPT !.at = "addresses", !.scanned = cursor, !.frontier = f, !.hashes = [a \in Assets |-> HashAt(f[a])]]
  /\ UNCHANGED <<node, books, scan, report, passes>>

\* readBalances: the deposit addresses, then the hot wallet.  The code goes
\* asset by asset; a balance at a block changes only with the block.
ReadBalances(place, next) ==
  /\ pass.at = place
  /\ pass' = IF \E a \in Assets : pass.frontier[a] > Height THEN Idle
             ELSE [pass EXCEPT !.at = next, !.seen = [a \in Assets |-> @[a] + BalanceAt(place, a, pass.frontier[a])]]
  /\ UNCHANGED <<node, books, scan, report, passes>>

\* The chain up to the frontiers, by the hashes there.
Hashes == [a \in Assets |-> HashAt(pass.frontier[a])]

\* Mutant of Unmoved: the hashes are not compared.
UnmovedAlways(hashes) == TRUE

Unmoved(hashes) == hashes = Hashes

\* The second reading of the hashes: a pass over a chain that moved is dropped.
CheckHashes ==
  /\ pass.at = "again"
  /\ pass' = IF Unmoved(pass.hashes) /\ \A a \in Assets : pass.frontier[a] =< Height
             THEN [pass EXCEPT !.at = "ledger", !.hashes = Hashes]
             ELSE Idle
  /\ UNCHANGED <<node, books, scan, report, passes>>

Uncredited(a, n) ==
  MapThenSumSet(LAMBDA d : Amount[d], {d \in Deposits : Asset[d] = a /\ row[d].st = "pending" /\ row[d].block =< n})

\* aboveFrontier: what the ledger booked above block n.
BookedAbove(a, n) ==
  MapThenSumSet(LAMBDA d : Amount[d], {d \in Deposits : Asset[d] = a /\ row[d].st = "credited" /\ row[d].block > n})
  - MapThenSumSet(LAMBDA w : Amount[w], {w \in Withdrawals : Asset[w] = a /\ row[w].st = "confirmed" /\ row[w].block > n})
  - IF a = Native
      THEN MapThenSumSet(LAMBDA i : Gas[i], {i \in Sent : row[i].st \in {"confirmed", "failed"} /\ row[i].block > n})
      ELSE 0

\* ListOpenChainWork: sent, and not booked.
Open == {i \in Sent : row[i].st = "broadcast"}

\* No reorganisation is being digested: the blocks the scanner had recorded
\* when the pass began are still the chain's, and so is what was booked.
Settled ==
  /\ \A n \in 1..pass.scanned : ring[n] = HashAt(n)
  /\ \A i \in Items : row[i].st \in {"credited", "confirmed", "failed"} /\ row[i].block > 0
                        => BlockOf(i) = row[i].block

\* readLedger, in one snapshot: custody, less what is booked above the
\* frontier, plus what is not credited at or below it.
ReadLedger ==
  /\ pass.at = "ledger"
  /\ pass' = [pass EXCEPT !.at = "receipts", !.open = Open, !.settled = Settled,
                !.ledger = [a \in Assets |-> LET n == pass.frontier[a]
                                             IN  custody[a] - BookedAbove(a, n) + Uncredited(a, n)]]
  /\ UNCHANGED <<node, books, scan, report, passes>>

\* inFlight: what a mined transaction took at or below the frontier of a.
Flight(i, a) ==
  LET n == BlockOf(i) IN
  IF n = 0 \/ n > pass.frontier[a] THEN 0
  ELSE (IF a = Native THEN Gas[i] ELSE 0) + (IF i \in Withdrawals /\ a = Asset[i] THEN Amount[i] ELSE 0)

Receipt ==
  /\ pass.at = "receipts"
  /\ \E i \in pass.open :
       pass' = [pass EXCEPT !.open = @ \ {i}, !.flight = [a \in Assets |-> @[a] + Flight(i, a)]]
  /\ UNCHANGED <<node, books, scan, report, passes>>

\* line and record: a break is announced when the report before had another.
Record ==
  LET diff == [a \in Assets |-> pass.seen[a] - pass.ledger[a] + pass.flight[a]] IN
  /\ pass.at = "receipts" /\ pass.open = {}
  /\ report' = [diff |-> diff, news |-> {a \in Assets : diff[a] # 0 /\ diff[a] # report.diff[a]}]
  /\ pass' = Idle
  /\ UNCHANGED <<node, books, scan, passes>>

-----------------------------------------------------------------------------
Pass ==
  \/ Begin \/ BookFill \/ Frontiers \/ ReadBalances("addresses", "hot") \/ ReadBalances("hot", "again")
  \/ CheckHashes \/ ReadLedger \/ Receipt \/ Record

Next ==
  \/ Mine \/ Reorg \/ Scan \/ Rewind
  \/ \E d \in Deposits : Credit(d)
  \/ \E w \in Withdrawals : ConfirmWithdrawal(w)
  \/ \E s \in Sweeps : MarkSweep(s) \/ ConfirmSweep(s)
  \/ Pass

Spec == Init /\ [][Next]_vars

\* With cancellations: a fill that displaced a withdrawal is booked by whoever
\* comes first, and then by the other as well.
CancelSpec == Init /\ [][Next \/ \E w \in Withdrawals : SettleCancelled(w)]_vars

-----------------------------------------------------------------------------
(* Properties.                                                             *)

Unexplained(a, n) == MapThenSumSet(LAMBDA i : IF Asset[i] = a THEN Amount[i] ELSE 0, UpTo(n) \cap Strangers)

\* What a pass reports is the money that nobody told the ledger about, to the
\* unit, at the block it read each asset at: however far the scanner, the
\* withdrawals and the sweeps had booked, and whatever they booked while it
\* read.  Excepted are passes that meet a reorganisation which the scanner has
\* not yet followed, or which undid something booked (worker.go, Tick:
\* "a pass that cannot be trusted is dropped rather than reported").  It holds
\* where no withdrawal reverts (MayRevert), no sweep is mined before its row is
\* marked (LateMark) and none is cancelled; each of these breaks it or GasBookedOnce.
BreaksAreReal ==
  [][Record /\ pass.settled /\ pass.hashes = Hashes
       => \A a \in Assets : report'.diff[a] = Unexplained(a, pass.frontier[a])]_vars

\* What has left custody in ether beyond what withdrawals took is at most what
\* the mined transactions burned (queries/reconcile.sql, ConfirmNonceFill: "so
\* the gas can be booked exactly once"); cancellations break it.
GasBookedOnce ==
  LET ether(i) == IF Asset[i] # Native THEN 0
                  ELSE IF row[i].st = "credited" THEN Amount[i]
                  ELSE IF i \in Withdrawals /\ row[i].st = "confirmed" THEN -Amount[i] ELSE 0
  IN  custody[Native] >= MapThenSumSet(ether, Items) - MapThenSumSet(LAMBDA i : Gas[i], Mined \cap Sent)

\* As BreaksAreReal, of every pass, which the code does not achieve.
EveryBreakIsReal ==
  [][Record => \A a \in Assets : report'.diff[a] = Unexplained(a, pass.frontier[a])]_vars

===============================================================================
