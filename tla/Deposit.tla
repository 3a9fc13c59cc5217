-------------------------------- MODULE Deposit --------------------------------
(***************************************************************************)
(* The deposit scanner of internal/chain/deposit: one tick after another   *)
(* follows the chain by its blocks' hashes, records the transfers to the   *)
(* exchange's addresses, credits them once they are deep enough, takes     *)
(* back what a reorganisation removed, and applies the reversals an        *)
(* operator asked for.                                                     *)
(*                                                                         *)
(* A tick is a sequence of RPC calls and commits; `job` is where it        *)
(* stands, with what the calls before it returned, so that the chain may   *)
(* change, or the process die, between any two of them.                    *)
(*                                                                         *)
(* Abstractions: one account, every deposit of the same amount and fee.    *)
(* A block's hash is the branch it was mined on: with the height it names  *)
(* the block and all before it.  "pending" stands for detected and         *)
(* confirming, which no step tells apart.  The address pool, failed and    *)
(* unreadable transfers and the exchange's own transfers are left out.     *)
(***************************************************************************)
EXTENDS Integers, Sequences, FiniteSets

CONSTANTS
  Deposits,    \* transfers to one of our addresses: tx_hash and log_index
  Tokens,      \* those seen as logs; the others are plain transfers
  Amount, Fee,
  Required,    \* required_confirmations
  BatchSize, RingDepth, OrphanExpiry,
  MidTick,     \* may a reorganisation fall into a tick
  LateReturn,  \* may a transfer come back after its reversal was asked for
  MaxHeight, MaxReorgs, MaxCrashes, MaxSpent   \* bounds

ASSUME DepositAssumption ==
  /\ IsFiniteSet(Deposits) /\ Tokens \subseteq Deposits
  /\ {MidTick, LateReturn} \subseteq BOOLEAN
  /\ Amount \in Nat /\ Fee \in 0..(Amount - 1)
  /\ {Required, BatchSize, RingDepth} \subseteq Nat \ {0}
  /\ {OrphanExpiry, MaxHeight, MaxReorgs, MaxCrashes, MaxSpent} \subseteq Nat

VARIABLES
  chain,   \* the node's canonical chain: blocks [branch, txs] from height 1
  branch,  \* reorganisations so far
  peak,    \* the greatest height so far
  row,     \* chain.deposits
  ring,    \* chain.blocks: the hash recorded at a height
  cursor,  \* chain.scan_cursors
  job,     \* the scanner's tick
  books,   \* ledger: the account's available, custody, fee revenue
  posted,  \* idempotency keys of the entries posted
  spent,   \* what the owner has spent
  crashes

node   == <<chain, branch, peak>>
ledger == <<books, posted>>
vars   == <<chain, branch, peak, row, ring, cursor, job, books, posted, spent, crashes>>

NoHash == -1
Heights == 0..MaxHeight
Idle == [at |-> "idle", head |-> 0, from |-> 0, n |-> 0, logs |-> {}, claims |-> {}]
Down == [Idle EXCEPT !.at = "down"]
NoRow == [st |-> "none", block |-> 0, orphaned |-> 0, reorged |-> FALSE, asked |-> FALSE]

Init ==
  /\ chain = << >> /\ branch = 0 /\ peak = 0
  /\ row = [d \in Deposits |-> NoRow]
  /\ ring = [n \in Heights |-> NoHash] /\ cursor = 0 /\ job = Idle
  /\ books = [available |-> 0, custody |-> 0, revenue |-> 0] /\ posted = {}
  /\ spent = 0 /\ crashes = 0

Height == Len(chain)
HashAt(n) == IF n \in 1..Height THEN chain[n].branch ELSE NoHash
TxsAt(n) == IF n \in 1..Height THEN chain[n].txs ELSE {}
Lesser(a, b) == IF a < b THEN a ELSE b

Go(at) == job' = [job EXCEPT !.at = at]
\* An error ends the tick; the next one begins with a new head.
Fails == job' = Idle

-----------------------------------------------------------------------------
(* The chain and the people.                                               *)

Mined == UNION {chain[n].txs : n \in 1..Height}

\* A block on top of the chain, with transfers it does not have yet.
Mine ==
  /\ Height < MaxHeight
  /\ \E txs \in SUBSET (Deposits \ Mined) :
       /\ LateReturn \/ \A d \in txs : row[d].st # "reversed" /\ ~row[d].asked
       /\ chain' = Append(chain, [branch |-> branch, txs |-> txs])
  /\ peak' = IF Height = peak THEN Height + 1 ELSE peak
  /\ UNCHANGED <<branch, row, ring, cursor, job, ledger, spent, crashes>>

\* The node leaves a branch.  The blocks that replace it are mined after; it
\* goes no further back than the ring, below which an operator must decide.
Reorg ==
  /\ branch < MaxReorgs /\ (MidTick \/ job.at \in {"idle", "down"})
  /\ \E n \in 0..(Height - 1) : n >= peak - RingDepth /\ chain' = SubSeq(chain, 1, n)
  /\ branch' = branch + 1
  /\ UNCHANGED <<peak, row, ring, cursor, job, ledger, spent, crashes>>

Spend ==
  /\ spent < MaxSpent /\ books.available > 0
  /\ books' = [books EXCEPT !.available = @ - 1] /\ spent' = spent + 1
  /\ UNCHANGED <<node, row, ring, cursor, job, posted, crashes>>

\* Reviewer.RequestReversal: only the request is recorded.  Whether the chain
\* still lacks the transfer is the operator's to know.
RequestReversal(d) ==
  /\ row[d].st = "credited" /\ row[d].reorged /\ ~row[d].asked
  /\ LateReturn \/ d \notin Mined
  /\ row' = [row EXCEPT ![d].asked = TRUE]
  /\ UNCHANGED <<node, ring, cursor, job, ledger, spent, crashes>>

-----------------------------------------------------------------------------
(* A tick: where the chain and the cursor part.                            *)

Tick ==
  /\ job.at = "idle"
  /\ job' = [Idle EXCEPT !.at = "tip", !.head = Height]
  /\ UNCHANGED <<node, row, ring, cursor, ledger, spent, crashes>>

Rows == [Idle EXCEPT !.at = "advance", !.head = job.head]
Scanning(from) == IF from =< job.head THEN [job EXCEPT !.at = "logs", !.from = from, !.n = 0] ELSE Rows

\* Mutant of ReconcileTip: the tip is looked at only when there is new work.
ReconcileTipOnNewWork ==
  /\ job.at = "tip"
  /\ job' = IF cursor >= job.head \/ ring[cursor] \in {NoHash, HashAt(cursor)} THEN Scanning(cursor + 1)
             ELSE [job EXCEPT !.at = "walk", !.from = cursor, !.n = cursor]
  /\ UNCHANGED <<node, row, ring, cursor, ledger, spent, crashes>>

\* reconcileTip: the hash at the cursor, or at the head when that is lower.
ReconcileTip ==
  LET tip == Lesser(cursor, job.head) IN
  /\ job.at = "tip"
  /\ job' = IF cursor = 0 \/ ring[tip] = NoHash \/ (HashAt(tip) = ring[tip] /\ tip = cursor)
              THEN Scanning(cursor + 1)
              ELSE [job EXCEPT !.at = "walk", !.from = tip, !.n = tip]
  /\ UNCHANGED <<node, row, ring, cursor, ledger, spent, crashes>>

\* commonAncestor: down the ring to a hash the chain still has, or to a height
\* where nothing is recorded.
CommonAncestor ==
  LET n == job.n IN
  /\ job.at = "walk"
  /\ IF ring[n] = NoHash \/ HashAt(n) = ring[n] THEN Go("rewind")
     ELSE IF n + RingDepth = job.from \/ n = 0 THEN Fails
     ELSE job' = [job EXCEPT !.n = n - 1]
  /\ UNCHANGED <<node, row, ring, cursor, ledger, spent, crashes>>

\* Mutant of Rewound: credited deposits are not stamped.
RewoundUnstamped(d, n) ==
  IF row[d].block > n /\ row[d].st = "pending" THEN [row[d] EXCEPT !.st = "orphaned", !.orphaned = n] ELSE row[d]

\* Pending deposits above the ancestor are orphaned, credited ones stamped.
Rewound(d, n) ==
  CASE row[d].block > n /\ row[d].st = "pending"  -> [row[d] EXCEPT !.st = "orphaned", !.orphaned = n]
    [] row[d].block > n /\ row[d].st = "credited" -> [row[d] EXCEPT !.reorged = TRUE]
    [] OTHER -> row[d]

\* rewind: rows, ring and cursor in one commit; the ancestor is read in it.
Rewind ==
  LET n == job.n IN
  /\ job.at = "rewind"
  /\ IF n > Height THEN Fails /\ UNCHANGED <<row, ring, cursor>>
     ELSE /\ row' = [d \in Deposits |-> Rewound(d, n)]
          /\ ring' = [m \in Heights |-> IF m > n THEN NoHash ELSE ring[m]]
          /\ cursor' = n /\ job' = Scanning(n + 1)
  /\ UNCHANGED <<node, ledger, spent, crashes>>

-----------------------------------------------------------------------------
(* A tick: the blocks.                                                     *)

LastOfBatch == Lesser(job.from + BatchSize - 1, job.head)

\* scanRange asks once for the logs of the whole range.
TransferLogs ==
  /\ job.at = "logs"
  /\ job' = [job EXCEPT !.at = "block", !.n = job.from,
                        !.logs = {s \in (job.from..LastOfBatch) \X Tokens : s[2] \in TxsAt(s[1])}]
  /\ UNCHANGED <<node, row, ring, cursor, ledger, spent, crashes>>

\* The block's own plain transfers and the logs its number had.
Sightings(n) == (TxsAt(n) \ Tokens) \cup {d \in Tokens : <<n, d>> \in job.logs}

\* Mutant of Recorded: a transfer that came back is taken for a duplicate.
RecordedOnce(d, n) ==
  IF row[d].st = "none" THEN [NoRow EXCEPT !.st = "pending", !.block = n] ELSE row[d]

\* Mutant of Recorded: a credited transfer is recorded again.
RecordedAlways(d, n) == [row[d] EXCEPT !.st = "pending", !.block = n, !.orphaned = 0]

\* record: a credited row is left alone, any other moves to the block.
Recorded(d, n) ==
  IF row[d].st = "credited" THEN row[d]
  ELSE [row[d] EXCEPT !.st = "pending", !.block = n, !.orphaned = 0]

\* commitBlock: the block, its deposits and the cursor in one commit.  A
\* reversed row cannot become pending (its reversed_at stays: a CHECK), which
\* undoes the commit.
CommitBlock ==
  LET n == job.n IN
  /\ job.at = "block"
  /\ IF n > Height THEN job' = Rows /\ UNCHANGED <<row, ring, cursor>>
     ELSE IF \E d \in Sightings(n) : row[d].st = "reversed" THEN Fails /\ UNCHANGED <<row, ring, cursor>>
     ELSE /\ row' = [d \in Deposits |-> IF d \in Sightings(n) THEN Recorded(d, n) ELSE row[d]]
          /\ ring' = [ring EXCEPT ![n] = HashAt(n)] /\ cursor' = n
          /\ job' = IF n = LastOfBatch THEN Rows ELSE [job EXCEPT !.n = n + 1]
  /\ UNCHANGED <<node, ledger, spent, crashes>>

-----------------------------------------------------------------------------
(* A tick: the rows.                                                       *)

Mature(d) == row[d].st = "pending" /\ row[d].block =< job.head /\ job.head - row[d].block + 1 >= Required
CreditKey(d) == <<"deposit", d>>
ReversalKey(d) == <<"reversal", d>>

\* ledger.Post: an entry whose key is there already changes nothing.
Post(key, n) ==
  /\ posted' = posted \cup {key}
  /\ books' = IF key \in posted THEN books
              ELSE [available |-> books.available + n * (Amount - Fee),
                    custody |-> books.custody + n * Amount, revenue |-> books.revenue + n * Fee]

\* credit: the entry, keyed by the transfer, and the status in one commit.
Credit(d) ==
  /\ job.at = "advance" /\ Mature(d)
  /\ Post(CreditKey(d), 1)
  /\ row' = [row EXCEPT ![d].st = "credited"]
  /\ UNCHANGED <<node, ring, cursor, job, spent, crashes>>

\* advance has credited everything that is ready.
Advanced ==
  /\ job.at = "advance" /\ \A d \in Deposits : ~Mature(d)
  /\ Go("expire")
  /\ UNCHANGED <<node, row, ring, cursor, ledger, spent, crashes>>

\* expireOrphans: what has not come back is dropped, a row at a time.
Expired(d) ==
  /\ row[d].st = "orphaned"
  /\ row[d].orphaned =< (IF job.head > OrphanExpiry THEN job.head - OrphanExpiry ELSE 0)

Drop(d) ==
  /\ job.at = "expire" /\ Expired(d)
  /\ row' = [row EXCEPT ![d].st = "dropped"]
  /\ UNCHANGED <<node, ring, cursor, job, ledger, spent, crashes>>

\* The requests of this tick are claimed at once.
ExpireOrphans ==
  /\ job.at = "expire" /\ \A d \in Deposits : ~Expired(d)
  /\ job' = [job EXCEPT !.at = "reverse", !.claims = {d \in Deposits : row[d].asked}]
  /\ UNCHANGED <<node, row, ring, cursor, ledger, spent, crashes>>

Claimed(d) == job.at = "reverse" /\ d \in job.claims
Handled(d) == job' = [job EXCEPT !.claims = @ \ {d}]

\* Mutant of ReverseDeposit: the fee is kept.
ReverseKeepsFee(d) ==
  /\ Claimed(d) /\ books.available >= Amount - Fee
  /\ books' = [books EXCEPT !.available = @ - (Amount - Fee), !.custody = @ - Amount]
  /\ posted' = posted \cup {ReversalKey(d)}
  /\ row' = [row EXCEPT ![d].st = "reversed", ![d].asked = FALSE]
  /\ Handled(d) /\ UNCHANGED <<node, ring, cursor, spent, crashes>>

\* reverse: every posting of the credit the other way round, with the status.
ReverseDeposit(d) ==
  /\ Claimed(d) /\ books.available >= Amount - Fee
  /\ Post(ReversalKey(d), -1)
  /\ row' = [row EXCEPT ![d].st = "reversed", ![d].asked = FALSE]
  /\ Handled(d) /\ UNCHANGED <<node, ring, cursor, spent, crashes>>

\* reversalRefused: the money is spent; the request is withdrawn.
ReversalRefused(d) ==
  /\ Claimed(d) /\ books.available < Amount - Fee
  /\ row' = [row EXCEPT ![d].asked = FALSE]
  /\ Handled(d) /\ UNCHANGED <<node, ring, cursor, ledger, spent, crashes>>

\* Nothing more to reverse: the ring is cut and the tick over.
PruneRing ==
  /\ job.at = "reverse" /\ job.claims = {}
  /\ ring' = [n \in Heights |-> IF n < job.head - RingDepth THEN NoHash ELSE ring[n]]
  /\ job' = Idle
  /\ UNCHANGED <<node, row, cursor, ledger, spent, crashes>>

-----------------------------------------------------------------------------
(* Failure.                                                                *)

Crash ==
  /\ crashes < MaxCrashes /\ job # Down
  /\ job' = Down /\ crashes' = crashes + 1
  /\ UNCHANGED <<node, row, ring, cursor, ledger, spent>>

\* Start refuses a chain that is shorter than the cursor.
Start ==
  /\ job = Down /\ cursor =< Height /\ job' = Idle
  /\ UNCHANGED <<node, row, ring, cursor, ledger, spent, crashes>>

-----------------------------------------------------------------------------
TickStep ==
  \/ Tick \/ ReconcileTip \/ CommonAncestor \/ Rewind \/ TransferLogs \/ CommitBlock
  \/ Advanced \/ ExpireOrphans \/ PruneRing
  \/ \E d \in Deposits : Credit(d) \/ Drop(d) \/ ReverseDeposit(d) \/ ReversalRefused(d)

Next ==
  \/ TickStep \/ Mine \/ Reorg \/ Spend \/ Crash \/ Start
  \/ \E d \in Deposits : RequestReversal(d)

\* The scanner runs on a timer and is restarted when it dies, and a node that
\* left a branch soon has one as long.
Fairness == WF_vars(TickStep) /\ WF_vars(Start) /\ WF_vars(Height < peak /\ Mine)
Spec == Init /\ [][Next]_vars /\ Fairness

-----------------------------------------------------------------------------
(* Properties.                                                             *)

CreditedRows == {d \in Deposits : row[d].st = "credited"}

\* Account, custody and fee revenue are what the credited rows say, over every
\* crash, re-detection and reversal: credit posts once per transfer whatever
\* happens to its row, and reverse takes back exactly what it posted.
BooksFollowRows ==
  LET n == Cardinality(CreditedRows) IN
  /\ books.available >= 0 /\ books.available + spent = n * (Amount - Fee)
  /\ books.custody = n * Amount /\ books.revenue = n * Fee

\* reconcileTip finds nothing to do: the hash at the cursor is the chain's.
TipAgrees == cursor =< Height /\ (cursor > 0 => ring[cursor] # NoHash /\ ring[cursor] = HashAt(cursor))

\* The hash of the tip vouches for everything below it: when it agrees with
\* the chain, each deposit waiting for confirmations, and each credited one
\* that is not in the operator's queue, is in the block its row names.
NoPhantom ==
  TipAgrees => \A d \in Deposits :
    row[d].st = "pending" \/ (row[d].st = "credited" /\ ~row[d].reorged) => d \in TxsAt(row[d].block)

\* Under the same condition no transfer at or below the cursor has been missed:
\* whatever happened to its row before, the row awaits its confirmations or has
\* its credit.
NoneMissed ==
  TipAgrees => \A n \in 1..cursor : \A d \in TxsAt(n) : row[d].st \in {"pending", "credited"}

\* A credit is undone only by an operator's request about a deposit that a
\* reorganisation took away; nothing else moves a credited row.
CreditIsFinal ==
  [][\A d \in Deposits : row[d].st = "credited" =>
       \/ row'[d].st = "credited" /\ row'[d].block = row[d].block
       \/ row'[d].st = "reversed" /\ row[d].asked /\ row[d].reorged]_vars

\* Once the chain is left alone the scanner reaches its head, on the chain's own
\* branch, and stays there: no reorganisation, of whatever height, and no crash
\* leaves it behind or on an abandoned branch for good.
CatchesUp == <>[](cursor = Height /\ TipAgrees)
================================================================================
