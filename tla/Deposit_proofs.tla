----------------------------- MODULE Deposit_proofs -----------------------------
(***************************************************************************)
(* The deposit scanner of Deposit for any set of transfers, any depths,    *)
(* batches and bounds.                                                     *)
(*                                                                         *)
(* The books need nothing of the chain: the entry of a credit and the      *)
(* entry of a reversal are posted exactly when the row has gone through    *)
(* these states (KeysFollow), so each commit moves the books by what it    *)
(* adds to the credited rows or takes from them.                           *)
(*                                                                         *)
(* That the rows follow the chain rests on one idea.  A recorded hash that *)
(* the chain still has, or that was pruned because no reorganisation goes  *)
(* that deep, vouches for its height (Vouched), and a height that is       *)
(* vouched for has nothing below it that is not (Connected).  A row is     *)
(* true as long as its own height is vouched for (RowsTrue), and a height  *)
(* that is vouched for has all its transfers in rows (AllSeen).            *)
(***************************************************************************)
EXTENDS Deposit, TLAPS, FiniteSetTheorems

States == {"none", "pending", "credited", "orphaned", "dropped", "reversed"}
RowType == [st : States, block : Nat, orphaned : Nat, reorged : BOOLEAN, asked : BOOLEAN]
Stages == {"idle", "down", "tip", "walk", "rewind", "logs", "block", "advance", "expire", "reverse"}
JobType == [at : Stages, head : Nat, from : Nat, n : Nat,
            logs : SUBSET (Nat \X Deposits), claims : SUBSET Deposits]

Blocks == [branch : Nat, txs : SUBSET Deposits]

\* Types.
LedgerTypes ==
  /\ chain \in Seq(Blocks) /\ branch \in Nat
  /\ row \in [Deposits -> RowType] /\ job \in JobType /\ cursor \in Nat
  /\ books \in [available : Int, custody : Int, revenue : Int] /\ spent \in Nat

\* An entry is in the journal exactly when the row has come that far.
KeysFollow ==
  \A d \in Deposits :
    /\ CreditKey(d) \in posted <=> row[d].st \in {"credited", "reversed"}
    /\ ReversalKey(d) \in posted <=> row[d].st = "reversed"

\* Only a credited row that was stamped is asked about, and a claim is a
\* request that still stands.
Requests ==
  /\ \A d \in Deposits : row[d].asked => row[d].st = "credited" /\ row[d].reorged
  /\ \A d \in job.claims : row[d].asked

LedgerInv == LedgerTypes /\ KeysFollow /\ Requests /\ BooksFollowRows

\* Heights whose recorded block is the chain's, or lies below every
\* reorganisation.
Vouched(m) == m \in 1..cursor /\ m =< Height /\ ring[m] \in {NoHash, HashAt(m)}

\* The node: a branch's number is new, and the tip is within the ring.
NodeInv ==
  /\ peak \in Nat /\ Height =< MaxHeight /\ Height =< peak /\ peak - RingDepth =< Height
  /\ \A n \in 1..Height : chain[n].branch =< branch
  /\ \A m, n \in 1..Height : m # n => chain[m].txs \cap chain[n].txs = {}

\* The ring: hashes up to the cursor, of branches the node has had, missing
\* only where no reorganisation reaches.
RingInv ==
  /\ ring \in [Heights -> Int] /\ cursor \in Heights
  /\ \A m \in Heights :
       /\ ring[m] # NoHash => m \in 1..cursor
       /\ ring[m] =< branch /\ (m > Height => ring[m] < branch)
       /\ m \in 1..cursor /\ ring[m] = NoHash => m < peak - RingDepth

Connected == \A m \in Heights : Vouched(m) => \A k \in 1..m : Vouched(k)

Active(d) == row[d].st = "pending" \/ (row[d].st = "credited" /\ ~row[d].reorged)

\* What a row says of its block is so as long as the block is vouched for.
RowsTrue ==
  \A d \in Deposits : Active(d) =>
    row[d].block \in 1..cursor /\ (Vouched(row[d].block) => d \in TxsAt(row[d].block))

\* No transfer of a block that is vouched for has been missed.
AllSeen ==
  \A n \in Heights : Vouched(n) => \A d \in TxsAt(n) :
    \/ row[d].st = "pending" /\ row[d].block = n
    \/ row[d].st = "credited"

\* A reversal is asked for, and done, while the transfer is not on the chain.
GoneForGood == \A d \in Deposits : row[d].asked \/ row[d].st = "reversed" => d \notin Mined

\* Where the tick stands, stage by stage.
TickInv ==
  /\ job.at \notin {"idle", "down"} => job.head =< Height
  /\ job.at \in {"walk", "rewind"} => job.n =< cursor /\ job.n =< job.head
  /\ job.at = "rewind" => job.n = 0 \/ Vouched(job.n)
  /\ job.at \in {"logs", "block"} => cursor = 0 \/ Vouched(cursor)
  /\ job.at = "logs" => job.from = cursor + 1 /\ job.from =< job.head
  /\ job.at = "block" =>
       /\ job.n = cursor + 1 /\ 1 =< job.from /\ job.from =< job.n /\ job.n =< LastOfBatch
       /\ \A m \in job.n..LastOfBatch, d \in Tokens : <<m, d>> \in job.logs <=> d \in TxsAt(m)
  /\ job.at \in {"advance", "expire", "reverse"} =>
       \A m \in 1..Lesser(cursor, job.head) : Vouched(m)

ChainInv == NodeInv /\ RingInv /\ Connected /\ RowsTrue /\ TickInv

-----------------------------------------------------------------------------
(* The ledger.                                                             *)

\* Nothing is detected, booked or under way at first.
LEMMA LedgerInit == Init => LedgerInv
<1> SUFFICES ASSUME Init PROVE LedgerInv
  OBVIOUS
<1> USE DEF Init
<1>1. LedgerTypes BY DEF LedgerTypes, RowType, States, NoRow, JobType, Stages, Idle
<1>2. KeysFollow BY DEF KeysFollow, NoRow
<1>3. Requests BY DEF Requests, NoRow, Idle
<1>4. BooksFollowRows
  <2>1. CreditedRows = {} BY DEF CreditedRows, NoRow
  <2>2. Cardinality(CreditedRows) = 0 BY <2>1, FS_EmptySet
  <2>3. Amount \in Int /\ Fee \in Int BY DepositAssumption DEF DepositAssumption
  <2>4. 0 * (Amount - Fee) = 0 /\ 0 * Amount = 0 /\ 0 * Fee = 0 BY <2>3
  <2> QED BY <2>2, <2>4 DEF BooksFollowRows
<1> QED BY <1>1, <1>2, <1>3, <1>4 DEF LedgerInv

\* A step that posts nothing, and moves no row into or out of the states that
\* the journal knows.
LEMMA RowsChange ==
  ASSUME LedgerInv, UNCHANGED <<books, posted, spent>>,
         chain' \in Seq(Blocks), branch' \in Nat,
         row' \in [Deposits -> RowType], job' \in JobType, cursor' \in Nat,
         \A d \in Deposits :
           row'[d].st = row[d].st \/ {row'[d].st, row[d].st} \cap {"credited", "reversed"} = {},
         \A d \in Deposits : row'[d].asked => row'[d].st = "credited" /\ row'[d].reorged,
         \A d \in job'.claims : row'[d].asked
  PROVE  LedgerInv'
<1>1. LedgerTypes' BY DEF LedgerInv, LedgerTypes
<1>2. KeysFollow' BY DEF LedgerInv, KeysFollow, CreditKey, ReversalKey
<1>3. Requests' BY DEF Requests
<1>4. CreditedRows' = CreditedRows BY DEF CreditedRows
<1>5. BooksFollowRows' BY <1>4 DEF LedgerInv, BooksFollowRows
<1> QED BY <1>1, <1>2, <1>3, <1>5 DEF LedgerInv

\* What a credit adds to a product, and a reversal takes from it.
LEMMA OneMore ==
  ASSUME NEW n \in Int, NEW x \in Int
  PROVE  (n + 1) * x = n * x + x /\ 1 * x = x /\ -1 * x = -x
OBVIOUS

\* The books after a posting for one more, or one fewer, credited row.
LEMMA Booked ==
  ASSUME LedgerInv, NEW k \in {1, -1}, NEW key, key \notin posted, Post(key, k), spent' = spent,
         k = 1 => Cardinality(CreditedRows') = Cardinality(CreditedRows) + 1,
         k = -1 => /\ Cardinality(CreditedRows) = Cardinality(CreditedRows') + 1
                   /\ books.available >= Amount - Fee
  PROVE  /\ books' \in [available : Int, custody : Int, revenue : Int]
         /\ BooksFollowRows'
<1> DEFINE n == Cardinality(CreditedRows)
           m == Cardinality(CreditedRows')
<1>1. Amount \in Int /\ Fee \in Int /\ Amount - Fee \in Int /\ Amount - Fee >= 0
  BY DepositAssumption DEF DepositAssumption
<1>2. m \in Nat /\ n \in Nat
  <2>1. CreditedRows \subseteq Deposits /\ CreditedRows' \subseteq Deposits BY DEF CreditedRows
  <2>2. IsFiniteSet(CreditedRows) /\ IsFiniteSet(CreditedRows')
    BY <2>1, FS_Subset, DepositAssumption DEF DepositAssumption
  <2> QED BY <2>2, FS_CardinalityType
<1>4. books' = [available |-> books.available + k * (Amount - Fee),
                custody |-> books.custody + k * Amount, revenue |-> books.revenue + k * Fee]
  BY DEF Post
<1>5. /\ books.available \in Int /\ books.custody \in Int /\ books.revenue \in Int /\ spent \in Int
      /\ books.available >= 0 /\ books.available + spent = n * (Amount - Fee)
      /\ books.custody = n * Amount /\ books.revenue = n * Fee
  BY DEF LedgerInv, LedgerTypes, BooksFollowRows
<1> HIDE DEF n, m
<1>6. CASE k = 1
  <2>1. m = n + 1 BY <1>6 DEF n, m
  <2>2. /\ m * (Amount - Fee) = n * (Amount - Fee) + (Amount - Fee)
        /\ m * Amount = n * Amount + Amount /\ m * Fee = n * Fee + Fee
    BY <2>1, <1>1, <1>2, OneMore
  <2>3. books' = [available |-> books.available + (Amount - Fee),
                  custody |-> books.custody + Amount, revenue |-> books.revenue + Fee]
    BY <1>4, <1>6, <1>1
  <2>4. /\ books'.available >= 0 /\ books'.available + spent = m * (Amount - Fee)
        /\ books'.custody = m * Amount /\ books'.revenue = m * Fee
    BY <2>2, <2>3, <1>1, <1>5
  <2> QED BY <2>3, <2>4, <1>1, <1>5 DEF BooksFollowRows, m
<1>7. CASE k = -1
  <2>1. n = m + 1 BY <1>7 DEF n, m
  <2>2. /\ n * (Amount - Fee) = m * (Amount - Fee) + (Amount - Fee)
        /\ n * Amount = m * Amount + Amount /\ n * Fee = m * Fee + Fee
    BY <2>1, <1>1, <1>2, OneMore
  <2>3. books' = [available |-> books.available - (Amount - Fee),
                  custody |-> books.custody - Amount, revenue |-> books.revenue - Fee]
    BY <1>4, <1>7, <1>1, <1>5
  <2>4. m * (Amount - Fee) \in Int /\ m * Amount \in Int /\ m * Fee \in Int BY <1>1, <1>2
  <2>5. /\ books'.available >= 0 /\ books'.available + spent = m * (Amount - Fee)
        /\ books'.custody = m * Amount /\ books'.revenue = m * Fee
    BY <2>2, <2>3, <2>4, <1>1, <1>5, <1>7
  <2> QED BY <2>3, <2>5, <1>1, <1>5 DEF BooksFollowRows, m
<1> QED BY <1>6, <1>7

-----------------------------------------------------------------------------
(* One lemma for each group of actions.                                    *)

\* The tick that goes on scanning keeps the job typed and adds no claim.
LEMMA ScanningType ==
  ASSUME job \in JobType, NEW from \in Nat
  PROVE  Scanning(from) \in JobType /\ Scanning(from).claims \subseteq job.claims
BY DEF Scanning, Rows, Idle, JobType, Stages

\* The chain's and the reading steps of a tick leave rows and books alone.
LEMMA ReadingSteps ==
  ASSUME LedgerInv,
         \/ Mine \/ Reorg \/ Tick \/ ReconcileTip \/ CommonAncestor \/ TransferLogs
         \/ Advanced \/ ExpireOrphans \/ PruneRing \/ Crash \/ Start \/ UNCHANGED vars
  PROVE  LedgerInv'
<1> USE DEF LedgerInv, LedgerTypes, Requests
<1>1. UNCHANGED <<row, books, posted, spent>> /\ cursor' \in Nat
  BY DEF Mine, Reorg, Tick, ReconcileTip, CommonAncestor, TransferLogs, Advanced, ExpireOrphans,
         PruneRing, Crash, Start, vars, ledger
<1>2. chain' \in Seq(Blocks) /\ branch' \in Nat
  <2>1. CASE Mine
    <3>1. PICK txs \in SUBSET Deposits : chain' = Append(chain, [branch |-> branch, txs |-> txs])
      BY <2>1 DEF Mine
    <3>2. [branch |-> branch, txs |-> txs] \in Blocks BY DEF Blocks
    <3> QED BY <3>1, <3>2, <2>1 DEF Mine
  <2>2. CASE Reorg
    <3>1. PICK n \in 0..(Height - 1) : chain' = SubSeq(chain, 1, n) BY <2>2 DEF Reorg
    <3>2. chain' \in Seq(Blocks) BY <3>1 DEF Height
    <3> QED BY <3>2, <2>2 DEF Reorg
  <2>3. CASE ~Mine /\ ~Reorg
    BY <2>3 DEF Tick, ReconcileTip, CommonAncestor, TransferLogs, Advanced, ExpireOrphans,
                PruneRing, Crash, Start, vars, node
  <2> QED BY <2>1, <2>2, <2>3
<1>3. job' \in JobType /\ \A d \in job'.claims : row[d].asked
  <2>1. CASE Tick
    <3>1. Height \in Nat BY DEF Height
    <3>2. job' = [Idle EXCEPT !.at = "tip", !.head = Height] BY <2>1 DEF Tick
    <3> HIDE DEF Height
    <3> QED BY <3>1, <3>2 DEF Idle, JobType, Stages
  <2>2. CASE ReconcileTip
    <3> DEFINE tip == Lesser(cursor, job.head)
    <3>1. tip \in Nat BY DEF Lesser, JobType
    <3>2. \/ job' = Scanning(cursor + 1)
          \/ job' = [job EXCEPT !.at = "walk", !.from = tip, !.n = tip]
      BY <2>2 DEF ReconcileTip
    <3> HIDE DEF tip
    <3>3. [job EXCEPT !.at = "walk", !.from = tip, !.n = tip] \in JobType
      BY <3>1 DEF JobType, Stages
    <3>4. Scanning(cursor + 1) \in JobType /\ Scanning(cursor + 1).claims \subseteq job.claims
      BY ScanningType
    <3>5. [job EXCEPT !.at = "walk", !.from = tip, !.n = tip].claims = job.claims BY DEF JobType
    <3> QED BY <3>2, <3>3, <3>4, <3>5, <1>1
  <2>3. CASE CommonAncestor
    <3>1. CASE job' = [job EXCEPT !.n = job.n - 1] /\ job.n # 0 BY <3>1, SMTT(60) DEF JobType
    <3>2. CASE job' = Idle \/ job' = [job EXCEPT !.at = "rewind"]
      BY <3>2, SMTT(60) DEF Idle, JobType, Stages
    <3> QED BY <2>3, <3>1, <3>2 DEF CommonAncestor, Go, Fails
  <2>4. CASE TransferLogs
    <3> DEFINE seen == {s \in (job.from..LastOfBatch) \X Tokens : s[2] \in TxsAt(s[1])}
    <3>1. seen \in SUBSET (Nat \X Deposits)
      BY DepositAssumption DEF DepositAssumption, JobType, LastOfBatch, Lesser
    <3>2. job' = [job EXCEPT !.at = "block", !.n = job.from, !.logs = seen]
      BY <2>4 DEF TransferLogs
    <3> HIDE DEF seen
    <3> QED BY <3>1, <3>2 DEF JobType, Stages
  <2>5. CASE Advanced BY <2>5 DEF Advanced, Go, JobType, Stages
  <2>6. CASE ExpireOrphans BY <2>6, ZenonT(60) DEF ExpireOrphans, JobType, Stages
  <2>7. CASE PruneRing \/ Crash \/ Start
    BY <2>7, SMTT(60) DEF PruneRing, Crash, Start, Down, Idle, JobType, Stages
  <2>8. CASE Mine \/ Reorg \/ UNCHANGED vars BY <2>8 DEF Mine, Reorg, vars
  <2> QED BY <2>1, <2>2, <2>3, <2>4, <2>5, <2>6, <2>7, <2>8
<1>4. \A d \in Deposits : row'[d].asked => row'[d].st = "credited" /\ row'[d].reorged BY <1>1
<1> HIDE DEF LedgerInv
<1> QED BY <1>1, <1>2, <1>3, <1>4, RowsChange DEF LedgerInv, LedgerTypes

\* A row with some of its columns written.
Wrote(w, st, block, orphaned, reorged, asked) ==
  /\ w \in RowType /\ w.st = st /\ w.block = block /\ w.orphaned = orphaned
  /\ w.reorged = reorged /\ w.asked = asked
LEMMA WriteOne ==
  ASSUME NEW r, r \in RowType
  PROVE  /\ \A v \in States : Wrote([r EXCEPT !.st = v], v, r.block, r.orphaned, r.reorged, r.asked)
         /\ \A v \in Nat : Wrote([r EXCEPT !.block = v], r.st, v, r.orphaned, r.reorged, r.asked)
         /\ \A v \in Nat : Wrote([r EXCEPT !.orphaned = v], r.st, r.block, v, r.reorged, r.asked)
         /\ \A v \in BOOLEAN : Wrote([r EXCEPT !.reorged = v], r.st, r.block, r.orphaned, v, r.asked)
         /\ \A v \in BOOLEAN : Wrote([r EXCEPT !.asked = v], r.st, r.block, r.orphaned, r.reorged, v)
BY DEF RowType, Wrote

\* The columns the scanner writes together.
LEMMA WriteMore ==
  ASSUME NEW r, r \in RowType, NEW st, st \in States, NEW n, n \in Nat
  PROVE  /\ \A w : w = [r EXCEPT !.st = st, !.block = n, !.orphaned = 0]
                     => Wrote(w, st, n, 0, r.reorged, r.asked)
         /\ \A w : w = [r EXCEPT !.st = st, !.orphaned = n]
                     => Wrote(w, st, r.block, n, r.reorged, r.asked)
         /\ \A w : w = [r EXCEPT !.st = st, !.asked = FALSE]
                     => Wrote(w, st, r.block, r.orphaned, r.reorged, FALSE)
<1> DEFINE a == [r EXCEPT !.st = st]
           b == [a EXCEPT !.block = n]
           no == FALSE
           z == 0
<1>1. Wrote(a, st, r.block, r.orphaned, r.reorged, r.asked) BY WriteOne
<1>2. a \in RowType /\ a.st = st /\ a.block = r.block /\ a.orphaned = r.orphaned /\ a.reorged = r.reorged
      /\ a.asked = r.asked
  BY <1>1 DEF Wrote
<1>3. /\ [r EXCEPT !.st = st, !.block = n, !.orphaned = z] = [b EXCEPT !.orphaned = z]
      /\ [r EXCEPT !.st = st, !.orphaned = n] = [a EXCEPT !.orphaned = n]
      /\ [r EXCEPT !.st = st, !.asked = no] = [a EXCEPT !.asked = no]
  OBVIOUS
<1>0. z \in Nat /\ no \in BOOLEAN OBVIOUS
<1> HIDE DEF a, no, z
<1>4. Wrote(b, st, n, r.orphaned, r.reorged, r.asked) BY <1>2, WriteOne
<1>5. b \in RowType /\ b.st = st /\ b.block = n /\ b.reorged = r.reorged /\ b.asked = r.asked BY <1>4 DEF Wrote
<1> HIDE DEF b
<1>6. Wrote([b EXCEPT !.orphaned = z], st, n, z, r.reorged, r.asked) BY <1>0, <1>5, WriteOne
<1>7. Wrote([a EXCEPT !.orphaned = n], st, r.block, n, r.reorged, r.asked) BY <1>2, WriteOne
<1>8. Wrote([a EXCEPT !.asked = no], st, r.block, r.orphaned, r.reorged, no) BY <1>0, <1>2, WriteOne
<1> QED BY <1>3, <1>6, <1>7, <1>8 DEF Wrote, no, z

\* One row written.
RowPut(old, new, d, w) ==
  /\ new \in [Deposits -> RowType] /\ new[d] = w /\ \A c \in Deposits \ {d} : new[c] = old[c]
LEMMA PutRow ==
  ASSUME NEW old, old \in [Deposits -> RowType], NEW d, d \in Deposits, NEW w, w \in RowType,
         NEW new, new = [old EXCEPT ![d] = w]
  PROVE  RowPut(old, new, d, w)
BY DEF RowPut

\* Steps that change rows only.
LEMMA RowSteps ==
  ASSUME LedgerInv,
         \/ Rewind \/ CommitBlock
         \/ \E d \in Deposits : Drop(d) \/ ReversalRefused(d) \/ RequestReversal(d)
  PROVE  LedgerInv'
<1> USE DEF LedgerTypes, Requests
<1> DEFINE Quiet == /\ UNCHANGED <<books, posted, spent, chain, branch>>
                    /\ row' \in [Deposits -> RowType] /\ job' \in JobType /\ cursor' \in Nat
           Apart == \A d \in Deposits :
             row'[d].st = row[d].st \/ {row'[d].st, row[d].st} \cap {"credited", "reversed"} = {}
           Asks == /\ \A d \in Deposits : row'[d].asked => row'[d].st = "credited" /\ row'[d].reorged
                   /\ \A d \in job'.claims : row'[d].asked
<1>0. LedgerTypes /\ Requests BY DEF LedgerInv
<1>1. CASE Rewind
  <2> DEFINE n == job.n
  <2>1. n \in Nat /\ Idle \in JobType /\ Idle.claims = {} BY <1>0 DEF JobType, Idle, Stages
  <2>2. CASE n > Height /\ Fails /\ UNCHANGED <<row, ring, cursor>>
    BY <1>0, <1>1, <2>1, <2>2, RowsChange DEF Rewind, Fails, node, ledger
  <2>3. CASE row' = [d \in Deposits |-> Rewound(d, n)] /\ cursor' = n /\ job' = Scanning(n + 1)
    <3>1. \A d \in Deposits :
            /\ row'[d] \in RowType /\ row'[d].asked = row[d].asked
            /\ row'[d].st = row[d].st \/ (row[d].st = "pending" /\ row'[d].st = "orphaned")
            /\ row[d].reorged => row'[d].reorged
      <4> TAKE d \in Deposits
      <4>1. row[d] \in RowType /\ "orphaned" \in States /\ TRUE \in BOOLEAN BY <1>0 DEF States
      <4>2. row'[d] = Rewound(d, n) BY <2>3
      <4>3. CASE row[d].block > n /\ row[d].st = "pending"
        <5>1. row'[d] = [row[d] EXCEPT !.st = "orphaned", !.orphaned = n] BY <4>2, <4>3 DEF Rewound
        <5>2. Wrote(row'[d], "orphaned", row[d].block, n, row[d].reorged, row[d].asked)
          BY ONLY <2>1, <4>1, <5>1, WriteMore, ZenonT(60)
        <5> QED BY <4>3, <5>2 DEF Wrote
      <4>4. CASE row[d].block > n /\ row[d].st = "credited"
        <5>1. row'[d] = [row[d] EXCEPT !.reorged = TRUE] BY <4>2, <4>4 DEF Rewound
        <5>2. Wrote(row'[d], row[d].st, row[d].block, row[d].orphaned, TRUE, row[d].asked)
          BY <4>1, <5>1, WriteOne
        <5> QED BY <5>2 DEF Wrote
      <4>5. CASE ~(row[d].block > n /\ row[d].st \in {"pending", "credited"}) BY <4>1, <4>2, <4>5 DEF Rewound
      <4> QED BY <4>3, <4>4, <4>5
    <3>2. Apart /\ row' \in [Deposits -> RowType] BY <2>3, <3>1
    <3>3. job' \in JobType /\ job'.claims \subseteq job.claims BY <1>0, <2>1, <2>3, ScanningType
    <3>4. Asks BY <1>0, <3>1, <3>3 DEF JobType
    <3>5. Quiet BY <1>0, <1>1, <2>1, <2>3, <3>2, <3>3 DEF Rewind, node, ledger
    <3> QED BY <1>0, <3>2, <3>4, <3>5, RowsChange
  <2> QED BY <1>1, <2>2, <2>3 DEF Rewind
<1>2. CASE CommitBlock
  <2> DEFINE n == job.n
  <2>1. n \in Nat /\ Idle \in JobType /\ Idle.claims = {} /\ Rows \in JobType /\ Rows.claims = {}
    BY <1>0 DEF JobType, Idle, Rows, Stages
  <2>2. CASE job' \in {Rows, Idle} /\ UNCHANGED <<row, ring, cursor>>
    BY <1>0, <1>2, <2>1, <2>2, RowsChange DEF CommitBlock, node, ledger
  <2>3. CASE /\ \A d \in Sightings(n) : row[d].st # "reversed"
             /\ row' = [d \in Deposits |-> IF d \in Sightings(n) THEN Recorded(d, n) ELSE row[d]]
             /\ cursor' = n /\ job' = IF n = LastOfBatch THEN Rows ELSE [job EXCEPT !.n = n + 1]
    <3>1. \A d \in Deposits :
            /\ row'[d] \in RowType
            /\ \/ row'[d] = row[d]
               \/ row[d].st \notin {"credited", "reversed"} /\ row'[d].st = "pending"
                    /\ row'[d].asked = row[d].asked
      <4> TAKE d \in Deposits
      <4>1. row[d] \in RowType /\ "pending" \in States BY <1>0 DEF States
      <4>2. row'[d] = IF d \in Sightings(n) THEN Recorded(d, n) ELSE row[d] BY <2>3
      <4>3. CASE d \in Sightings(n) /\ row[d].st # "credited"
        <5>1. row'[d] = [row[d] EXCEPT !.st = "pending", !.block = n, !.orphaned = 0] BY <4>2, <4>3 DEF Recorded
        <5>2. Wrote(row'[d], "pending", n, 0, row[d].reorged, row[d].asked) BY ONLY <2>1, <4>1, <5>1, WriteMore, ZenonT(60)
        <5>3. row[d].st # "reversed" BY <2>3, <4>3
        <5> QED BY <4>3, <5>2, <5>3 DEF Wrote
      <4>4. CASE ~(d \in Sightings(n) /\ row[d].st # "credited") BY <4>1, <4>2, <4>4 DEF Recorded
      <4> QED BY <4>3, <4>4
    <3>2. Apart /\ row' \in [Deposits -> RowType] BY <2>3, <3>1
    <3>3. job' \in JobType /\ job'.claims \subseteq job.claims
      <4> DEFINE next == n + 1
      <4>0. next \in Nat /\ job \in JobType BY <1>0, <2>1
      <4> HIDE DEF next
      <4>1. [job EXCEPT !.n = next] \in JobType /\ [job EXCEPT !.n = next].claims = job.claims
        BY <4>0 DEF JobType
      <4> QED BY <2>1, <2>3, <4>1 DEF next
    <3>4. Asks BY <1>0, <3>1, <3>3 DEF JobType
    <3>5. Quiet BY <1>0, <1>2, <2>1, <2>3, <3>2, <3>3 DEF CommitBlock, node, ledger
    <3> QED BY <1>0, <3>2, <3>4, <3>5, RowsChange
  <2> QED BY <1>2, <2>2, <2>3 DEF CommitBlock, Fails
<1>3. CASE \E d \in Deposits : Drop(d)
  <2>1. PICK d \in Deposits : Drop(d) BY <1>3
  <2>2. row' \in [Deposits -> RowType] /\ \A c \in Deposits :
          row'[c] = row[c] \/ (row[c].st = "orphaned" /\ row'[c].st = "dropped" /\ row'[c].asked = row[c].asked)
    <3> DEFINE w == [row[d] EXCEPT !.st = "dropped"]
    <3>1. row[d] \in RowType /\ "dropped" \in States BY <1>0 DEF States
    <3>2. Wrote(w, "dropped", row[d].block, row[d].orphaned, row[d].reorged, row[d].asked) BY <3>1, WriteOne
    <3>3. w \in RowType /\ w.st = "dropped" /\ w.asked = row[d].asked BY <3>2 DEF Wrote
    <3>4. row' = [row EXCEPT ![d] = w] /\ row[d].st = "orphaned" BY <2>1 DEF Drop, Expired
    <3> HIDE DEF w
    <3>5. RowPut(row, row', d, w) BY <1>0, <3>3, <3>4, PutRow
    <3> QED BY <3>3, <3>4, <3>5 DEF RowPut
  <2>3. Apart /\ Asks
    <3>1. Apart BY <2>2
    <3>2. job' = job /\ \A c \in job.claims : c \in Deposits BY <1>0, <2>1 DEF JobType, Drop
    <3>3. \A c \in Deposits : row[c].asked => row[c].st = "credited" /\ row[c].reorged BY <1>0
    <3>4. \A c \in Deposits : row[c].asked => row'[c] = row[c] BY <2>2, <3>3
    <3>5. \A c \in Deposits : row'[c].asked => row'[c] = row[c] BY <2>2, <3>3
    <3>6. \A c \in job'.claims : row'[c].asked BY <1>0, <3>2, <3>4
    <3> QED BY <3>1, <3>3, <3>5, <3>6
  <2>4. Quiet BY <1>0, <2>1, <2>2 DEF Drop, node, ledger
  <2> QED BY <1>0, <2>2, <2>3, <2>4, RowsChange
<1>4. CASE \E d \in Deposits : ReversalRefused(d)
  <2>1. PICK d \in Deposits : ReversalRefused(d) BY <1>4
  <2>2. row' \in [Deposits -> RowType] /\ \A c \in Deposits :
          row'[c].st = row[c].st /\ row'[c].reorged = row[c].reorged
            /\ row'[c].asked = (row[c].asked /\ c # d)
    <3> DEFINE v == FALSE
               w == [row[d] EXCEPT !.asked = v]
    <3>1. row[d] \in RowType /\ v \in BOOLEAN /\ \A c \in Deposits : row[c].asked \in BOOLEAN BY <1>0 DEF RowType
    <3>4. row' = [row EXCEPT ![d] = w] BY <2>1 DEF ReversalRefused
    <3> HIDE DEF w, v
    <3>2. Wrote(w, row[d].st, row[d].block, row[d].orphaned, row[d].reorged, v) BY <3>1, WriteOne DEF w
    <3>3. w \in RowType /\ w.st = row[d].st /\ w.reorged = row[d].reorged /\ w.asked = v BY <3>2 DEF Wrote
    <3>5. RowPut(row, row', d, w) BY <1>0, <3>3, <3>4, PutRow
    <3> QED BY <3>1, <3>3, <3>5 DEF RowPut, v
  <2>3. job' \in JobType /\ job'.claims = job.claims \ {d}
    BY <1>0, <2>1 DEF ReversalRefused, Handled, JobType
  <2>4. Apart /\ Asks BY <1>0, <2>2, <2>3 DEF JobType
  <2>5. Quiet BY <1>0, <2>1, <2>2, <2>3 DEF ReversalRefused, node, ledger
  <2> QED BY <1>0, <2>2, <2>4, <2>5, RowsChange
<1>5. CASE \E d \in Deposits : RequestReversal(d)
  <2>1. PICK d \in Deposits : RequestReversal(d) BY <1>5
  <2>2. row' \in [Deposits -> RowType] /\ \A c \in Deposits :
          row'[c].st = row[c].st /\ row'[c].reorged = row[c].reorged
            /\ row'[c].asked = (row[c].asked \/ c = d)
    <3> DEFINE v == TRUE
               w == [row[d] EXCEPT !.asked = v]
    <3>1. row[d] \in RowType /\ v \in BOOLEAN /\ \A c \in Deposits : row[c].asked \in BOOLEAN BY <1>0 DEF RowType
    <3>4. row' = [row EXCEPT ![d] = w] BY <2>1 DEF RequestReversal
    <3> HIDE DEF w, v
    <3>2. Wrote(w, row[d].st, row[d].block, row[d].orphaned, row[d].reorged, v) BY <3>1, WriteOne DEF w
    <3>3. w \in RowType /\ w.st = row[d].st /\ w.reorged = row[d].reorged /\ w.asked = v BY <3>2 DEF Wrote
    <3>5. RowPut(row, row', d, w) BY <1>0, <3>3, <3>4, PutRow
    <3> QED BY <3>1, <3>3, <3>5 DEF RowPut, v
  <2>3. Apart /\ Asks BY <1>0, <2>1, <2>2 DEF JobType, RequestReversal
  <2>4. Quiet BY <1>0, <2>1, <2>2 DEF RequestReversal, node, ledger
  <2> QED BY <1>0, <2>2, <2>3, <2>4, RowsChange
<1> QED BY <1>1, <1>2, <1>3, <1>4, <1>5

\* credit: the journal has no entry of the transfer yet.
LEMMA CreditStep ==
  ASSUME LedgerInv, NEW d \in Deposits, Credit(d)
  PROVE  LedgerInv'
<1> USE DEF LedgerInv, LedgerTypes
<1>1. row[d].st = "pending" /\ CreditKey(d) \notin posted BY DEF Credit, Mature, KeysFollow
<1>2. /\ row' \in [Deposits -> RowType] /\ row'[d].st = "credited" /\ row'[d].asked = row[d].asked
      /\ \A c \in Deposits \ {d} : row'[c] = row[c]
  BY DEF Credit, RowType, States
<1>3. Cardinality(CreditedRows') = Cardinality(CreditedRows) + 1
  <2>1. CreditedRows' = CreditedRows \cup {d} /\ d \notin CreditedRows
    BY <1>1, <1>2 DEF CreditedRows
  <2>2. IsFiniteSet(CreditedRows)
    BY FS_Subset, DepositAssumption DEF DepositAssumption, CreditedRows
  <2> QED BY <2>1, <2>2, FS_AddElement
<1>4. books' \in [available : Int, custody : Int, revenue : Int] /\ BooksFollowRows'
  BY <1>1, <1>3, Booked DEF Credit
<1>5. KeysFollow' BY <1>1, <1>2, ZenonT(60) DEF KeysFollow, Credit, Post, CreditKey, ReversalKey
<1>6. Requests' BY <1>1, <1>2 DEF Requests, Credit, JobType
<1> QED BY <1>2, <1>4, <1>5, <1>6 DEF Credit, node

\* reverse: the row was credited, and its reversal has no entry yet.
LEMMA ReverseStep ==
  ASSUME LedgerInv, NEW d \in Deposits, ReverseDeposit(d)
  PROVE  LedgerInv'
<1> USE DEF LedgerInv, LedgerTypes
<1>1. row[d].st = "credited" /\ ReversalKey(d) \notin posted
  BY DEF ReverseDeposit, Claimed, Requests, KeysFollow
<1>2. /\ row' \in [Deposits -> RowType] /\ row'[d].st = "reversed" /\ ~row'[d].asked
      /\ \A c \in Deposits \ {d} : row'[c] = row[c]
  <2> DEFINE w == [row[d] EXCEPT !.st = "reversed", !.asked = FALSE]
  <2>1. row[d] \in RowType /\ "reversed" \in States /\ row[d].block \in Nat BY DEF RowType, States
  <2>2. Wrote(w, "reversed", row[d].block, row[d].orphaned, row[d].reorged, FALSE) BY ONLY <2>1, WriteMore, ZenonT(60)
  <2>3. w \in RowType /\ w.st = "reversed" /\ ~w.asked BY <2>2 DEF Wrote
  <2>4. row' = [row EXCEPT ![d] = w] BY DEF ReverseDeposit
  <2> HIDE DEF w
  <2>5. RowPut(row, row', d, w) BY <2>3, <2>4, PutRow
  <2> QED BY <2>3, <2>5 DEF RowPut
<1>3. Cardinality(CreditedRows) = Cardinality(CreditedRows') + 1
  <2>1. CreditedRows = CreditedRows' \cup {d} /\ d \notin CreditedRows'
    BY <1>1, <1>2 DEF CreditedRows
  <2>2. IsFiniteSet(CreditedRows')
    BY FS_Subset, DepositAssumption DEF DepositAssumption, CreditedRows
  <2> QED BY <2>1, <2>2, FS_AddElement
<1>4. books' \in [available : Int, custody : Int, revenue : Int] /\ BooksFollowRows'
  BY <1>1, <1>3, Booked DEF ReverseDeposit
<1>5. KeysFollow' BY <1>1, <1>2, ZenonT(60) DEF KeysFollow, ReverseDeposit, Post, CreditKey, ReversalKey
<1>6. job' \in JobType /\ job'.claims = job.claims \ {d} BY DEF ReverseDeposit, Handled, JobType
<1>7. Requests' BY <1>2, <1>6 DEF Requests, JobType
<1> QED BY <1>2, <1>4, <1>5, <1>6, <1>7 DEF ReverseDeposit, node

\* Every step keeps the books with the rows.
LEMMA LedgerStep == LedgerInv /\ [Next]_vars => LedgerInv'
<1> SUFFICES ASSUME LedgerInv, [Next]_vars PROVE LedgerInv'
  OBVIOUS
<1>1. CASE Spend
  <2> USE DEF LedgerInv, LedgerTypes, Spend
  <2>1. books' = [books EXCEPT !.available = @ - 1] /\ spent' = spent + 1 /\ books.available > 0
    BY <1>1
  <2>2. UNCHANGED <<chain, branch, row, cursor, job, posted>> BY <1>1 DEF node
  <2>3. CreditedRows' = CreditedRows BY <2>2 DEF CreditedRows
  <2>4. BooksFollowRows' BY <2>1, <2>3 DEF BooksFollowRows
  <2> QED BY <2>1, <2>2, <2>4 DEF KeysFollow, Requests
<1> QED BY <1>1, ReadingSteps, RowSteps, CreditStep, ReverseStep DEF Next, TickStep

\* Every step, mid-tick reorganisations and crashes included, keeps the keys, the
\* requests and the books with the rows.
THEOREM LedgerInvariance == Spec => []LedgerInv
<1> QED BY LedgerInit, LedgerStep, PTL DEF Spec

\* The ledger's account, custody and revenue are what the credited rows say
\* (credit, reverse, ledger.Post), whatever the chain does.
THEOREM BooksAreRight == Spec => []BooksFollowRows
<1>1. LedgerInv => BooksFollowRows BY DEF LedgerInv
<1> QED BY <1>1, LedgerInvariance, PTL

\* A credited row is moved by nothing but the reversal that an operator asked
\* for after a reorganisation (rewind, commitBlock, reverse).
THEOREM CreditsAreFinal == Spec => CreditIsFinal
<1> DEFINE Final == \A d \in Deposits : row[d].st = "credited" =>
             \/ row'[d].st = "credited" /\ row'[d].block = row[d].block
             \/ row'[d].st = "reversed" /\ row[d].asked /\ row[d].reorged
<1>1. LedgerInv /\ [Next]_vars => [Final]_vars
  <2> SUFFICES ASSUME LedgerInv, [Next]_vars, NEW d \in Deposits, row[d].st = "credited"
               PROVE  \/ row'[d].st = "credited" /\ row'[d].block = row[d].block
                      \/ row'[d].st = "reversed" /\ row[d].asked /\ row[d].reorged
    OBVIOUS
  <2> USE DEF LedgerInv, LedgerTypes
  <2>1. CASE Rewind
    <3>1. CASE UNCHANGED <<row, ring, cursor>> BY <3>1
    <3>2. CASE row' = [c \in Deposits |-> Rewound(c, job.n)]
      <4>1. row'[d] \in {row[d], [row[d] EXCEPT !.reorged = TRUE]} BY <3>2, ZenonT(60) DEF Rewound
      <4> QED BY <4>1 DEF RowType
    <3> QED BY <2>1, <3>1, <3>2 DEF Rewind
  <2>2. CASE CommitBlock BY <2>2, ZenonT(60) DEF CommitBlock, Recorded
  <2>3. CASE \E c \in Deposits : Credit(c) \/ Drop(c)
    BY <2>3 DEF Credit, Mature, Drop, Expired
  <2>4. CASE \E c \in Deposits : ReverseDeposit(c)
    BY <2>4 DEF ReverseDeposit, Claimed, Requests, RowType
  <2>5. CASE \E c \in Deposits : ReversalRefused(c) \/ RequestReversal(c)
    <3>1. PICK c \in Deposits, b \in BOOLEAN : row' = [row EXCEPT ![c].asked = b]
      BY <2>5 DEF ReversalRefused, RequestReversal
    <3>2. row'[d].st = row[d].st /\ row'[d].block = row[d].block BY <3>1 DEF RowType
    <3> QED BY <3>2
  <2>6. CASE UNCHANGED row BY <2>6
  <2>7. CASE \/ Mine \/ Reorg \/ Spend \/ Tick \/ ReconcileTip \/ CommonAncestor \/ TransferLogs
             \/ Advanced \/ ExpireOrphans \/ PruneRing \/ Crash \/ Start \/ UNCHANGED vars
    BY <2>7 DEF Mine, Reorg, Spend, Tick, ReconcileTip, CommonAncestor, TransferLogs,
           Advanced, ExpireOrphans, PruneRing, Crash, Start, vars
  <2> HIDE DEF LedgerInv, LedgerTypes
  <2> QED BY <2>1, <2>2, <2>3, <2>4, <2>5, <2>6, <2>7 DEF Next, TickStep
<1> QED BY <1>1, LedgerInvariance, PTL DEF Spec, CreditIsFinal

-----------------------------------------------------------------------------
(* The chain.  The passing runs' setting: a reorganisation falls between    *)
(* two ticks (~MidTick).                                                   *)

FollowInv == LedgerInv /\ ChainInv

\* What the assumptions say of each constant.
LEMMA Constants ==
  /\ RingDepth \in Nat /\ RingDepth > 0 /\ BatchSize \in Nat /\ BatchSize > 0 /\ MaxHeight \in Nat
  /\ Tokens \subseteq Deposits
BY DepositAssumption DEF DepositAssumption

\* The chain's blocks, read through Height, HashAt and TxsAt.
LEMMA Reads ==
  ASSUME LedgerTypes
  PROVE  /\ Height \in Nat
         /\ \A m \in 1..Height :
              /\ HashAt(m) = chain[m].branch /\ HashAt(m) \in Nat
              /\ TxsAt(m) = chain[m].txs /\ TxsAt(m) \subseteq Deposits
<1>1. Height \in Nat /\ \A m \in 1..Height : chain[m] \in Blocks BY DEF LedgerTypes, Height
<1> QED BY <1>1 DEF Blocks, HashAt, TxsAt

\* The ring is empty and connected at first.
LEMMA ChainInit == Init => ChainInv
<1> SUFFICES ASSUME Init PROVE ChainInv
  OBVIOUS
<1> USE Constants DEF Init, Height
<1>1. NodeInv BY DEF NodeInv
<1>2. RingInv BY DEF RingInv, Heights, NoHash
<1>3. Connected BY DEF Connected, Vouched
<1>4. RowsTrue BY DEF RowsTrue, Active, NoRow
<1>5. TickInv BY DEF TickInv, Idle
<1> QED BY <1>1, <1>2, <1>3, <1>4, <1>5 DEF ChainInv

\* A block on top vouches for no height that was not vouched for: what is
\* recorded above the chain is of an older branch.
LEMMA MineStep ==
  ASSUME FollowInv, Mine
  PROVE  /\ ChainInv' /\ Height' = Height + 1
         /\ \A m \in 1..Height : TxsAt(m)' = TxsAt(m)
         /\ \A m \in Heights : Vouched(m)' <=> Vouched(m)
<1> USE Constants DEF FollowInv, ChainInv, LedgerInv
<1>0. LedgerTypes OBVIOUS
<1>1. PICK txs \in SUBSET (Deposits \ Mined) : chain' = Append(chain, [branch |-> branch, txs |-> txs])
  BY DEF Mine
<1>2. /\ chain \in Seq(Blocks) /\ branch \in Nat /\ Height \in Nat
      /\ [branch |-> branch, txs |-> txs] \in Blocks
  BY <1>0, Reads DEF LedgerTypes, Blocks
<1>3. /\ Height' = Height + 1 /\ \A m \in 1..Height : chain'[m] = chain[m]
      /\ chain'[Height + 1] = [branch |-> branch, txs |-> txs]
  BY <1>1, <1>2 DEF Height
<1>4. \A m \in Nat : /\ m \in 1..Height => HashAt(m)' = HashAt(m) /\ TxsAt(m)' = TxsAt(m)
                     /\ m = Height + 1 => HashAt(m)' = branch
  BY <1>2, <1>3 DEF HashAt, TxsAt
<1>5. /\ UNCHANGED <<branch, row, ring, cursor, job>> /\ Height < MaxHeight
      /\ peak' = IF Height = peak THEN Height + 1 ELSE peak
  BY DEF Mine
<1>6. NodeInv'
  <2>1. peak' \in Nat /\ Height' =< MaxHeight /\ Height' =< peak' /\ peak' - RingDepth =< Height'
    BY <1>2, <1>3, <1>5 DEF NodeInv
  <2>2. \A n \in 1..Height' : chain'[n].branch =< branch' BY <1>2, <1>3, <1>5 DEF NodeInv
  <2>3. \A n \in 1..Height : chain[n].txs \cap txs = {} BY <1>1 DEF Mined
  <2>4. \A m, n \in 1..Height' : m # n => chain'[m].txs \cap chain'[n].txs = {}
    BY <1>2, <1>3, <2>3, SMTT(60) DEF NodeInv
  <2> QED BY <2>1, <2>2, <2>4 DEF NodeInv
<1>7. RingInv'
  <2>1. peak \in Nat /\ peak' \in Nat /\ peak =< peak' BY <1>2, <1>5 DEF NodeInv
  <2> QED BY <1>2, <1>3, <1>5, <2>1, SMTT(60) DEF RingInv, Heights
<1>8. \A m \in Heights : Vouched(m)' <=> Vouched(m)
  <2> SUFFICES ASSUME NEW m \in Heights PROVE Vouched(m)' <=> Vouched(m)
    OBVIOUS
  <2>1. CASE m = Height + 1
    <3>1. m \in 1..cursor => ring[m] < branch /\ ring[m] # NoHash
      BY <1>2, <2>1 DEF RingInv, NodeInv, Heights
    <3>2. m \in Nat /\ HashAt(m)' = branch BY <1>2, <1>4, <2>1
    <3> QED BY <1>2, <1>5, <2>1, <3>1, <3>2 DEF Vouched, RingInv
  <2>2. CASE m # Height + 1
    BY <1>2, <1>3, <1>4, <1>5, <2>2 DEF Vouched, Heights, RingInv
  <2> QED BY <2>1, <2>2
<1>9. Connected' BY <1>5, <1>8 DEF Connected, Heights
<1>10. RowsTrue'
  <2>1. \A d \in Deposits : Active(d)' <=> Active(d) BY <1>5 DEF Active
  <2>2. \A m \in 1..cursor : m \in Heights BY DEF RingInv, Heights
  <2> QED BY <1>2, <1>4, <1>5, <1>8, <2>1, <2>2 DEF RowsTrue, Vouched
<1>11. TickInv'
  <2>1. job.head \in Nat /\ job.from \in Nat /\ job.n \in Nat BY <1>0 DEF LedgerTypes, JobType
  <2>2. \A m \in Nat : Vouched(m) => Vouched(m)' BY <1>8 DEF Vouched, RingInv, Heights
  <2>3. LastOfBatch' = LastOfBatch BY <1>5 DEF LastOfBatch, Lesser
  <2>4. job.at = "block" => \A m \in job.n..LastOfBatch : TxsAt(m)' = TxsAt(m)
    BY <1>2, <1>4, <2>1 DEF TickInv, LastOfBatch, Lesser
  <2>5. cursor \in Nat BY <1>0 DEF LedgerTypes
  <2> QED BY <1>2, <1>3, <1>5, <2>1, <2>2, <2>3, <2>4, <2>5 DEF TickInv, Lesser
<1> QED BY <1>3, <1>4, <1>6, <1>7, <1>8, <1>9, <1>10, <1>11

\* A reorganisation keeps what is vouched for up to the fork, and nothing else.
LEMMA ReorgStep ==
  ASSUME FollowInv, Reorg, ~MidTick
  PROVE  /\ ChainInv'
         /\ \A m \in 1..Height' : m \in 1..Height /\ TxsAt(m)' = TxsAt(m)
         /\ \A m \in Heights : Vouched(m)' => Vouched(m)
<1> USE Constants DEF FollowInv, ChainInv, LedgerInv
<1>0. LedgerTypes OBVIOUS
<1>1. PICK n \in 0..(Height - 1) : n >= peak - RingDepth /\ chain' = SubSeq(chain, 1, n)
  BY DEF Reorg
<1>2. chain \in Seq(Blocks) /\ branch \in Nat /\ Height \in Nat BY <1>0, Reads DEF LedgerTypes
<1>3. Height' = n /\ \A m \in 1..n : chain'[m] = chain[m] BY <1>1, <1>2 DEF Height
<1>4. \A m \in 1..n : HashAt(m)' = HashAt(m) /\ TxsAt(m)' = TxsAt(m)
  BY <1>1, <1>2, <1>3 DEF HashAt, TxsAt
<1>5. UNCHANGED <<peak, row, ring, cursor, job>> /\ branch' = branch + 1 /\ job.at \in {"idle", "down"}
  BY DEF Reorg
<1>6. NodeInv'
  <2>1. peak \in Nat /\ Height' =< MaxHeight /\ Height' =< peak /\ peak - RingDepth =< Height'
    BY <1>1, <1>2, <1>3 DEF NodeInv
  <2>2. \A m \in 1..Height' : m \in 1..Height /\ chain'[m] = chain[m] BY <1>1, <1>2, <1>3
  <2>3. \A m \in 1..Height : chain[m].branch \in Nat BY <1>0, Reads
  <2>4. \A m \in 1..Height' : chain'[m].branch =< branch'
    BY <1>2, <1>5, <2>2, <2>3, SMTT(60) DEF NodeInv
  <2> QED BY <1>5, <2>1, <2>2, <2>4 DEF NodeInv
<1>7. RingInv' BY <1>2, <1>3, <1>5 DEF RingInv, Heights
<1>8. \A m \in Heights : Vouched(m)' <=> Vouched(m) /\ m =< n
  BY <1>1, <1>2, <1>3, <1>4, <1>5 DEF Vouched, Heights
<1>9. Connected' BY <1>1, <1>5, <1>8 DEF Connected, Heights
<1>10. RowsTrue'
  <2>1. \A d \in Deposits : Active(d)' <=> Active(d) BY <1>5 DEF Active
  <2>2. \A m \in 1..cursor : m \in Heights BY DEF RingInv, Heights
  <2> QED BY <1>1, <1>4, <1>5, <1>8, <2>1, <2>2 DEF RowsTrue
<1>11. TickInv' BY <1>5 DEF TickInv
<1> QED BY <1>1, <1>2, <1>3, <1>4, <1>6, <1>7, <1>8, <1>9, <1>10, <1>11

\* The steps of a tick that only look, a crash, a start, and the owner.
LEMMA LookingSteps ==
  ASSUME FollowInv,
         \/ Tick \/ ReconcileTip \/ CommonAncestor \/ TransferLogs \/ Advanced \/ ExpireOrphans
         \/ Crash \/ Start \/ Spend \/ UNCHANGED vars
  PROVE  ChainInv' /\ UNCHANGED <<chain, row, ring, cursor>>
<1> USE Constants DEF FollowInv, ChainInv, LedgerInv
<1>0. LedgerTypes OBVIOUS
<1>1. UNCHANGED <<chain, branch, peak, row, ring, cursor>>
  BY DEF Tick, ReconcileTip, CommonAncestor, TransferLogs, Advanced, ExpireOrphans, Crash, Start,
         Spend, vars, node
<1>2. NodeInv' /\ RingInv' /\ Connected' /\ RowsTrue'
  BY <1>1 DEF NodeInv, RingInv, Connected, RowsTrue, Active, Vouched, Height, HashAt, TxsAt
<1>3. TickInv'
  <2>1. /\ Height' = Height /\ \A m : TxsAt(m)' = TxsAt(m)
        /\ \A m : Vouched(m)' <=> Vouched(m)
    BY <1>1 DEF Height, TxsAt, Vouched, HashAt
  <2>2. /\ job \in JobType /\ job.head \in Nat /\ job.from \in Nat /\ job.n \in Nat
        /\ cursor \in Nat /\ cursor \in Heights /\ Height \in Nat
    BY <1>0, Reads DEF LedgerTypes, JobType, RingInv
  <2>3. CASE Tick BY <2>1, <2>2, <2>3 DEF Tick, Idle, TickInv
  <2>4. CASE ReconcileTip
    <3> DEFINE tip == Lesser(cursor, job.head)
    <3>1. tip \in Nat /\ tip =< cursor /\ tip =< job.head /\ job.head =< Height
          /\ (tip = cursor \/ tip = job.head)
      BY <2>2, <2>4 DEF Lesser, ReconcileTip, TickInv
    <3>2. CASE job' = [job EXCEPT !.at = "walk", !.from = tip, !.n = tip]
      <4>1. job'.at = "walk" /\ job'.n = tip /\ job'.head = job.head BY <2>2, <3>2 DEF JobType
      <4> QED BY <1>1, <2>1, <3>1, <4>1 DEF TickInv
    <3>3. CASE /\ cursor = 0 \/ ring[tip] = NoHash \/ (HashAt(tip) = ring[tip] /\ tip = cursor)
               /\ job' = Scanning(cursor + 1)
      <4>1. tip # 0 => Vouched(tip)
        <5>1. tip # 0 => tip \in 1..cursor /\ tip =< Height /\ cursor # 0 BY <2>2, <3>1
        <5> HIDE DEF tip
        <5> QED BY <3>3, <5>1 DEF Vouched
      <4>2. \A m \in 1..tip : Vouched(m)
        <5>1. tip \in Heights BY <2>2, <3>1 DEF Heights
        <5> HIDE DEF tip
        <5> QED BY <4>1, <5>1, <3>1 DEF Connected
      <4>3. CASE cursor + 1 =< job.head
        <5>1. tip = cursor BY <2>2, <4>3 DEF Lesser
        <5>2. job'.at = "logs" /\ job'.from = cursor + 1 /\ job'.head = job.head
          BY <2>2, <3>3, <4>3 DEF Scanning, JobType
        <5> QED BY <1>1, <2>1, <2>2, <3>1, <4>1, <4>3, <5>1, <5>2 DEF TickInv
      <4>4. CASE ~(cursor + 1 =< job.head)
        <5>1. job'.at = "advance" /\ job'.head = job.head
          BY <2>2, <3>3, <4>4 DEF Scanning, Rows, Idle
        <5> QED BY <1>1, <2>1, <2>2, <3>1, <4>2, <5>1 DEF TickInv, Lesser
      <4> QED BY <4>3, <4>4
    <3> QED BY <2>4, <3>2, <3>3 DEF ReconcileTip
  <2>5. CASE CommonAncestor
    <3>1. job.at = "walk" /\ job.n =< cursor /\ job.n =< job.head /\ job.head =< Height
      BY <2>5 DEF CommonAncestor, TickInv
    <3>2. CASE (ring[job.n] = NoHash \/ HashAt(job.n) = ring[job.n])
               /\ job' = [job EXCEPT !.at = "rewind"]
      <4>1. job'.at = "rewind" /\ job'.n = job.n /\ job'.head = job.head BY <2>2, <3>2 DEF JobType
      <4>2. job.n = 0 \/ Vouched(job.n) BY <2>2, <3>1, <3>2 DEF Vouched
      <4> QED BY <1>1, <2>1, <2>2, <3>1, <4>1, <4>2 DEF TickInv
    <3>3. CASE job' = Idle BY <3>3 DEF Idle, TickInv
    <3>4. CASE job' = [job EXCEPT !.n = job.n - 1] /\ job.n # 0
      <4>1. job'.at = "walk" /\ job'.n = job.n - 1 /\ job'.head = job.head
        BY <2>2, <3>1, <3>4 DEF JobType
      <4> QED BY <1>1, <2>1, <2>2, <3>1, <4>1 DEF TickInv
    <3> QED BY <2>5, <3>2, <3>3, <3>4 DEF CommonAncestor, Go, Fails
  <2>6. CASE TransferLogs
    <3> DEFINE seen == {s \in (job.from..LastOfBatch) \X Tokens : s[2] \in TxsAt(s[1])}
    <3>1. job.at = "logs" /\ job' = [job EXCEPT !.at = "block", !.n = job.from, !.logs = seen]
      BY <2>6 DEF TransferLogs
    <3>2. \A m \in job.from..LastOfBatch, d \in Tokens : <<m, d>> \in seen <=> d \in TxsAt(m)
      OBVIOUS
    <3> HIDE DEF seen
    <3>3. /\ job'.at = "block" /\ job'.n = job.from /\ job'.from = job.from /\ job'.head = job.head
          /\ job'.logs = seen
      BY <2>2, <3>1 DEF JobType
    <3>4. LastOfBatch' = LastOfBatch /\ job.from =< LastOfBatch
      BY <2>2, <3>1, <3>3 DEF LastOfBatch, Lesser, TickInv
    <3> QED BY <1>1, <2>1, <2>2, <3>1, <3>2, <3>3, <3>4 DEF TickInv
  <2>7. CASE Advanced \/ ExpireOrphans
    <3>1. job.at \in {"advance", "expire"} /\ job'.at \in {"expire", "reverse"} /\ job'.head = job.head
      BY <2>2, <2>7 DEF Advanced, ExpireOrphans, Go, JobType
    <3> QED BY <1>1, <2>1, <2>2, <3>1 DEF TickInv, Lesser
  <2>8. CASE Crash \/ Start BY <2>8 DEF Crash, Start, Down, Idle, TickInv
  <2>9. CASE Spend \/ UNCHANGED vars
    <3>1. job' = job BY <2>9 DEF Spend, vars
    <3>2. LastOfBatch' = LastOfBatch BY <3>1 DEF LastOfBatch, Lesser
    <3> QED BY <1>1, <2>1, <3>1, <3>2 DEF TickInv, Lesser
  <2> QED BY <2>3, <2>4, <2>5, <2>6, <2>7, <2>8, <2>9
<1> QED BY <1>1, <1>2, <1>3

\* Credits, expiries and reversals: a row that was true stays so.
LEMMA StatusSteps ==
  ASSUME FollowInv, NEW d \in Deposits,
         Credit(d) \/ Drop(d) \/ ReverseDeposit(d) \/ ReversalRefused(d) \/ RequestReversal(d)
  PROVE  ChainInv' /\ UNCHANGED <<chain, ring, cursor>>
<1> USE DEF FollowInv, ChainInv, LedgerInv
<1>0. LedgerTypes OBVIOUS
<1>1. UNCHANGED <<chain, branch, peak, ring, cursor>>
  BY DEF Credit, Drop, ReverseDeposit, ReversalRefused, RequestReversal, node
<1>2. /\ job'.at = job.at /\ job'.head = job.head /\ job'.n = job.n /\ job'.from = job.from
      /\ job'.logs = job.logs
  BY <1>0 DEF Credit, Drop, ReverseDeposit, ReversalRefused, RequestReversal, Handled, LedgerTypes, JobType
<1>3. \A c \in Deposits : Active(c)' => Active(c) /\ row'[c].block = row[c].block
  <2> SUFFICES ASSUME NEW c \in Deposits, Active(c)' PROVE Active(c) /\ row'[c].block = row[c].block
    OBVIOUS
  <2>0. row \in [Deposits -> RowType] BY <1>0 DEF LedgerTypes
  <2>1. CASE Credit(d) BY <2>0, <2>1 DEF Credit, Mature, Active, RowType
  <2>2. CASE Drop(d) BY <2>0, <2>2 DEF Drop, Active, RowType
  <2>3. CASE ReverseDeposit(d) BY <2>0, <2>3 DEF ReverseDeposit, Active, RowType
  <2>4. CASE ReversalRefused(d) BY <2>0, <2>4 DEF ReversalRefused, Active, RowType
  <2>5. CASE RequestReversal(d) BY <2>0, <2>5 DEF RequestReversal, Active, RowType
  <2> QED BY <2>1, <2>2, <2>3, <2>4, <2>5
<1>4. /\ Height' = Height /\ \A m : TxsAt(m)' = TxsAt(m) /\ (Vouched(m)' <=> Vouched(m))
      /\ LastOfBatch' = LastOfBatch
  BY <1>1, <1>2 DEF Height, TxsAt, HashAt, Vouched, LastOfBatch, Lesser
<1>5. NodeInv' /\ RingInv' /\ Connected'
  BY <1>1 DEF NodeInv, RingInv, Connected, Vouched, Height, HashAt
<1>6. RowsTrue' BY <1>1, <1>3, <1>4 DEF RowsTrue
<1>7. TickInv' BY <1>1, <1>2, <1>4 DEF TickInv, Lesser
<1> QED BY <1>1, <1>5, <1>6, <1>7

\* rewind: what remains recorded is vouched for, and the rows above are no
\* longer active.
LEMMA RewindStep ==
  ASSUME FollowInv, Rewind
  PROVE  /\ ChainInv' /\ UNCHANGED chain
         /\ \A m \in Heights : Vouched(m)' => Vouched(m) /\ m =< job.n
         /\ \A d \in Deposits :
              /\ \/ row'[d].st = row[d].st /\ row'[d].block = row[d].block
                 \/ row[d].st = "pending" /\ row[d].block > job.n /\ row'[d].st = "orphaned"
              /\ row'[d].asked = row[d].asked
<1> USE Constants DEF FollowInv, ChainInv, LedgerInv
<1>0. LedgerTypes OBVIOUS
<1>a. PICK n \in Nat : n = job.n BY <1>0 DEF LedgerTypes, JobType
<1>1. /\ job \in JobType /\ job.head \in Nat /\ n \in Nat /\ cursor \in Nat /\ Height \in Nat
      /\ row \in [Deposits -> RowType]
  BY <1>0, Reads DEF LedgerTypes, JobType
<1>2. n =< cursor /\ n =< job.head /\ job.head =< Height /\ (n = 0 \/ Vouched(n))
  BY <1>a DEF Rewind, TickInv
<1>3. /\ UNCHANGED <<chain, branch, peak>> /\ cursor' = n /\ job' = Scanning(n + 1)
      /\ row' = [d \in Deposits |-> Rewound(d, n)]
      /\ ring' = [m \in Heights |-> IF m > n THEN NoHash ELSE ring[m]]
  BY <1>a, <1>1, <1>2 DEF Rewind, node
<1>4. Height' = Height /\ \A m : TxsAt(m)' = TxsAt(m) /\ HashAt(m)' = HashAt(m)
  BY <1>3 DEF Height, TxsAt, HashAt
<1>5. n \in Heights /\ cursor \in Heights BY <1>1, <1>2 DEF NodeInv, RingInv, Heights
<1>6. \A m \in Heights : Vouched(m)' <=> Vouched(m) /\ m =< n
  BY <1>1, <1>2, <1>3, <1>4 DEF Vouched, Heights
<1>7. NodeInv' BY <1>3, <1>4 DEF NodeInv
<1>8. RingInv'
  <2>1. NoHash \in Int /\ NoHash < branch BY <1>0 DEF NoHash, LedgerTypes
  <2>2. ring' \in [Heights -> Int] BY <1>3, <2>1 DEF RingInv
  <2> QED BY <1>1, <1>2, <1>3, <1>4, <1>5, <2>1, <2>2 DEF RingInv, Heights
<1>9. Connected' BY <1>1, <1>6 DEF Connected, Heights
<1>10. \A d \in Deposits :
         /\ \/ row'[d] = row[d] /\ (Active(d) => row[d].block =< n)
            \/ row[d].st = "pending" /\ row[d].block > n
                 /\ row'[d] = [row[d] EXCEPT !.st = "orphaned", !.orphaned = n]
            \/ row[d].st = "credited" /\ row'[d] = [row[d] EXCEPT !.reorged = TRUE]
  <2> TAKE d \in Deposits
  <2>1. row[d].block \in Nat BY <1>1 DEF RowType
  <2>2. row'[d] = Rewound(d, n) BY <1>3
  <2>3. CASE row[d].block > n /\ row[d].st = "pending" BY <2>2, <2>3 DEF Rewound
  <2>4. CASE row[d].block > n /\ row[d].st = "credited" BY <2>2, <2>4 DEF Rewound
  <2>5. CASE ~(row[d].block > n /\ row[d].st \in {"pending", "credited"})
    BY <2>1, <2>2, <2>5 DEF Rewound, Active
  <2> QED BY <2>3, <2>4, <2>5
<1>11. \A d \in Deposits :
         /\ \/ row'[d].st = row[d].st /\ row'[d].block = row[d].block
            \/ row[d].st = "pending" /\ row[d].block > n /\ row'[d].st = "orphaned"
         /\ row'[d].asked = row[d].asked
         /\ Active(d)' => Active(d) /\ row'[d].block = row[d].block /\ row[d].block =< n
  BY <1>1, <1>10 DEF RowType, Active
<1>12. RowsTrue'
  <2> SUFFICES ASSUME NEW d \in Deposits, Active(d)'
               PROVE  row'[d].block \in 1..n /\ (Vouched(row[d].block)' => d \in TxsAt(row[d].block)')
    BY <1>3, <1>11 DEF RowsTrue
  <2>1. PICK b \in 1..cursor : b = row[d].block /\ b = row'[d].block /\ b =< n
      /\ (Vouched(b) => d \in TxsAt(b))
    BY <1>11 DEF RowsTrue
  <2>2. b \in Heights BY <1>1, <1>5, <2>1 DEF Heights
  <2>3. Vouched(b)' => d \in TxsAt(b)' BY <1>4, <1>6, <2>1, <2>2
  <2> QED BY <1>1, <2>1, <2>3
<1>13. TickInv'
  <2>1. \A m \in 1..n : Vouched(m)'
    BY <1>1, <1>2, <1>5, <1>6 DEF Connected, Heights
  <2>2. CASE n + 1 =< job.head
    <3>1. job'.at = "logs" /\ job'.from = n + 1 /\ job'.head = job.head
      BY <1>1, <1>3, <2>2 DEF Scanning, JobType
    <3>2. cursor' # 0 => Vouched(n)' BY <1>1, <1>3, <2>1
    <3> QED BY <1>1, <1>2, <1>3, <1>4, <2>2, <3>1, <3>2 DEF TickInv
  <2>3. CASE ~(n + 1 =< job.head)
    <3>1. job'.at = "advance" /\ job'.head = job.head BY <1>1, <1>3, <2>3 DEF Scanning, Rows, Idle
    <3> QED BY <1>1, <1>2, <1>3, <1>4, <2>1, <3>1 DEF TickInv, Lesser
  <2> QED BY <2>2, <2>3
<1> QED BY <1>a, <1>3, <1>6, <1>7, <1>8, <1>9, <1>11, <1>12, <1>13

\* commitBlock: the next height is vouched for, and its transfers are in rows.
LEMMA CommitStep ==
  ASSUME FollowInv, CommitBlock
  PROVE  /\ ChainInv' /\ UNCHANGED chain
         /\ \/ UNCHANGED <<row, ring, cursor>>
            \/ /\ job.n \in Heights /\ cursor = job.n - 1 /\ job.n \in 1..Height
               /\ \A m \in Heights : Vouched(m)' => Vouched(m) \/ m = job.n
               /\ \A d \in Deposits :
                    IF d \in TxsAt(job.n)
                      THEN row[d].st # "reversed" /\ row'[d] = Recorded(d, job.n) ELSE row'[d] = row[d]
<1> USE Constants DEF FollowInv, ChainInv, LedgerInv
<1>0. LedgerTypes OBVIOUS
<1>a. PICK n \in Nat : n = job.n BY <1>0 DEF LedgerTypes, JobType
<1>1. /\ job \in JobType /\ job.head \in Nat /\ job.from \in Nat /\ n \in Nat
      /\ cursor \in Nat /\ Height \in Nat /\ row \in [Deposits -> RowType]
  BY <1>0, Reads DEF LedgerTypes, JobType
<1>2. /\ n = cursor + 1 /\ 1 =< job.from /\ job.from =< n /\ n =< LastOfBatch /\ job.head =< Height
      /\ cursor = 0 \/ Vouched(cursor)
      /\ \A m \in n..LastOfBatch, d \in Tokens : <<m, d>> \in job.logs <=> d \in TxsAt(m)
  BY <1>a DEF CommitBlock, TickInv
<1>3. LastOfBatch \in Nat /\ LastOfBatch =< job.head BY <1>1 DEF LastOfBatch, Lesser
<1>4. n =< Height /\ n \in 1..Height /\ n \in Heights BY <1>1, <1>2, <1>3 DEF NodeInv, Heights
<1>5. Sightings(n) = TxsAt(n)
  <2>1. TxsAt(n) \subseteq Deposits BY <1>0, <1>4, Reads
  <2>2. \A d \in Tokens : <<n, d>> \in job.logs <=> d \in TxsAt(n) BY <1>1, <1>2, <1>3
  <2> QED BY <2>1, <2>2 DEF Sightings
<1>6. UNCHANGED <<chain, branch, peak>> BY DEF CommitBlock, node
<1>7. Height' = Height /\ \A m : TxsAt(m)' = TxsAt(m) /\ HashAt(m)' = HashAt(m)
  BY <1>6 DEF Height, TxsAt, HashAt
<1>8. NodeInv' BY <1>6, <1>7 DEF NodeInv
<1>9. CASE job' = Idle /\ UNCHANGED <<row, ring, cursor>>
  <2>1. TickInv' BY <1>9 DEF Idle, TickInv
  <2>2. RingInv' /\ Connected' /\ RowsTrue'
    BY <1>6, <1>9 DEF RingInv, Connected, RowsTrue, Active, Vouched, Height, HashAt, TxsAt
  <2> QED BY <1>6, <1>8, <1>9, <2>1, <2>2
<1>10. CASE /\ \A d \in TxsAt(n) : row[d].st # "reversed"
            /\ row' = [d \in Deposits |-> IF d \in TxsAt(n) THEN Recorded(d, n) ELSE row[d]]
            /\ ring' = [ring EXCEPT ![n] = HashAt(n)] /\ cursor' = n
            /\ job' = IF n = LastOfBatch THEN Rows ELSE [job EXCEPT !.n = n + 1]
  <2>1. HashAt(n) \in Nat /\ HashAt(n) =< branch /\ HashAt(n) # NoHash
    BY <1>0, <1>4, Reads DEF NodeInv, NoHash
  <2>2. \A m \in Heights : Vouched(m)' <=> Vouched(m) \/ m = n
    BY <1>1, <1>2, <1>4, <1>7, <1>10 DEF Vouched, RingInv, Heights
  <2>3. RingInv'
    <3>1. ring' \in [Heights -> Int] /\ \A m \in Heights : ring'[m] = IF m = n THEN HashAt(n) ELSE ring[m]
      BY <1>4, <1>10, <2>1 DEF RingInv
    <3> QED BY <1>1, <1>2, <1>4, <1>6, <1>7, <1>10, <2>1, <3>1 DEF RingInv, Heights
  <2>4. \A m \in 1..n : Vouched(m)'
    <3>1. \A m \in 1..cursor : Vouched(m) BY <1>1, <1>2 DEF Connected, RingInv
    <3> QED BY <1>1, <1>2, <1>4, <2>2, <3>1 DEF Heights
  <2>5. Connected' BY <1>1, <1>2, <1>4, <2>2, <2>4 DEF Connected, Heights, Vouched
  <2>6. \A d \in Deposits : IF d \in TxsAt(n) THEN row'[d] = Recorded(d, n) ELSE row'[d] = row[d]
    BY <1>10
  <2>7. RowsTrue'
    <3> SUFFICES ASSUME NEW d \in Deposits, Active(d)'
                 PROVE  row'[d].block \in 1..n /\ (Vouched(row[d].block)' => d \in TxsAt(row'[d].block))
      <4>1. \A b \in 1..n : b \in Heights BY <1>4 DEF Heights
      <4> QED BY <1>7, <1>10, <2>4 DEF RowsTrue
    <3>1. CASE row'[d] = row[d]
      <4>1. PICK b \in 1..cursor : b = row[d].block /\ (Vouched(b) => d \in TxsAt(b))
        BY <3>1 DEF RowsTrue, Active
      <4>2. b \in 1..n /\ Vouched(b) BY <1>1, <1>2, <4>1 DEF Connected, RingInv
      <4> QED BY <3>1, <4>1, <4>2
    <3>2. CASE d \in TxsAt(n) /\ row'[d] # row[d]
      <4>1. row'[d].block = n BY <1>1, <2>6, <3>2 DEF Recorded, RowType
      <4> QED BY <1>1, <1>2, <3>2, <4>1
    <3> QED BY <2>6, <3>1, <3>2
  <2>8. TickInv'
    <3>1. CASE n = LastOfBatch
      <4>1. job'.at = "advance" /\ job'.head = job.head BY <1>10, <3>1 DEF Rows, Idle
      <4> QED BY <1>1, <1>2, <1>3, <1>7, <1>10, <2>4, <4>1 DEF TickInv, Lesser
    <3>2. CASE n # LastOfBatch
      <4>0. n + 1 \in Nat /\ job' = [job EXCEPT !.n = n + 1] BY <1>1, <1>10, <3>2
      <4>1. /\ job'.at = "block" /\ job'.n = n + 1 /\ job'.head = job.head /\ job'.from = job.from
            /\ job'.logs = job.logs
        BY <1>1, <4>0 DEF JobType, CommitBlock
      <4>2. LastOfBatch' = LastOfBatch BY <4>1 DEF LastOfBatch, Lesser
      <4>3. Vouched(n)' BY <1>1, <1>4, <2>4
      <4>4. \A m : m = cursor' => Vouched(m)' BY <1>10, <4>3
      <4>5. \A m \in (n + 1)..LastOfBatch : m \in n..LastOfBatch BY <1>1, <1>3
      <4> QED BY <1>1, <1>2, <1>3, <1>7, <1>10, <3>2, <4>1, <4>2, <4>4, <4>5 DEF TickInv
    <3> QED BY <3>1, <3>2
  <2> QED BY <1>a, <1>1, <1>2, <1>4, <1>6, <1>8, <1>10, <2>2, <2>3, <2>5, <2>6, <2>7, <2>8
<1> QED BY <1>a, <1>1, <1>4, <1>5, <1>9, <1>10 DEF CommitBlock, Fails

\* Pruning forgets no hash that a reorganisation could still contradict.
LEMMA PruneStep ==
  ASSUME FollowInv, PruneRing
  PROVE  /\ ChainInv' /\ UNCHANGED <<chain, row, cursor>>
         /\ \A m \in Heights : Vouched(m)' <=> Vouched(m)
<1> USE Constants DEF FollowInv, ChainInv, LedgerInv
<1>0. LedgerTypes OBVIOUS
<1>1. /\ job.head \in Nat /\ cursor \in Nat /\ Height \in Nat /\ branch \in Nat /\ peak \in Nat
  BY <1>0, Reads DEF LedgerTypes, JobType, NodeInv
<1>2. job.head =< Height /\ \A m \in 1..Lesser(cursor, job.head) : Vouched(m)
  BY DEF PruneRing, TickInv
<1>3. /\ UNCHANGED <<chain, branch, peak, row, cursor>> /\ job' = Idle
      /\ ring' = [n \in Heights |-> IF n < job.head - RingDepth THEN NoHash ELSE ring[n]]
  BY DEF PruneRing, node
<1>4. Height' = Height /\ \A m : TxsAt(m)' = TxsAt(m) /\ HashAt(m)' = HashAt(m)
  BY <1>3 DEF Height, TxsAt, HashAt
<1>5. \A m \in Heights : Vouched(m)' <=> Vouched(m)
  <2> TAKE m \in Heights
  <2>1. CASE m < job.head - RingDepth
    <3>1. m \in 1..cursor => Vouched(m) BY <1>1, <1>2, <2>1 DEF Lesser, Heights
    <3> QED BY <1>3, <1>4, <2>1, <3>1 DEF Vouched
  <2>2. CASE ~(m < job.head - RingDepth) BY <1>3, <1>4, <2>2 DEF Vouched
  <2> QED BY <2>1, <2>2
<1>6. RingInv'
  <2>1. NoHash \in Int /\ NoHash < branch BY <1>1 DEF NoHash
  <2>2. ring' \in [Heights -> Int] BY <1>3, <2>1 DEF RingInv
  <2>3. job.head =< peak BY <1>1, <1>2 DEF NodeInv
  <2> QED BY <1>1, <1>3, <1>4, <2>1, <2>2, <2>3 DEF RingInv, Heights
<1>7. NodeInv' BY <1>3, <1>4 DEF NodeInv
<1>8. Connected' BY <1>5 DEF Connected, Heights, RingInv, Vouched
<1>9. RowsTrue'
  <2>1. \A d \in Deposits : Active(d)' <=> Active(d) BY <1>3 DEF Active
  <2>2. \A m \in 1..cursor : m \in Heights BY DEF RingInv, Heights
  <2> QED BY <1>3, <1>4, <1>5, <2>1, <2>2 DEF RowsTrue
<1>10. TickInv' BY <1>3 DEF TickInv, Idle
<1> QED BY <1>3, <1>5, <1>6, <1>7, <1>8, <1>9, <1>10

\* Without a reorganisation inside a tick, every step keeps the ring and the rows
\* with the chain.
LEMMA FollowStep == ~MidTick /\ FollowInv /\ [Next]_vars => FollowInv'
<1> SUFFICES ASSUME ~MidTick, FollowInv, [Next]_vars PROVE FollowInv'
  OBVIOUS
<1>1. LedgerInv' BY LedgerStep DEF FollowInv
<1>2. ChainInv'
  BY MineStep, ReorgStep, LookingSteps, StatusSteps, RewindStep, CommitStep, PruneStep DEF Next, TickStep
<1> QED BY <1>1, <1>2 DEF FollowInv

\* While the chain reorganises between ticks only, every step keeps the ring and
\* the rows with it: a recorded hash the chain still has vouches for all below it.
THEOREM FollowInvariance ==
  ASSUME ~MidTick PROVE Spec => []FollowInv
<1>1. Init => FollowInv BY LedgerInit, ChainInit DEF FollowInv
<1>2. FollowInv /\ [Next]_vars => FollowInv' BY FollowStep
<1> QED BY <1>1, <1>2, PTL DEF Spec

\* When the tip agrees with the chain, so does every block below it.
LEMMA TipVouches ==
  ASSUME FollowInv, TipAgrees
  PROVE  \A m \in 1..cursor : m \in Heights /\ Vouched(m)
<1> USE DEF FollowInv, ChainInv, LedgerInv
<1>1. cursor \in Nat /\ cursor \in Heights /\ Height \in Nat BY Reads DEF LedgerTypes, RingInv
<1>2. cursor > 0 => Vouched(cursor) BY <1>1 DEF TipAgrees, Vouched
<1>3. \A m \in 1..cursor : m \in Heights BY <1>1, Constants DEF Heights
<1>4. \A m \in 1..cursor : Vouched(m) BY <1>1, <1>2 DEF Connected
<1> QED BY <1>3, <1>4

\* When reconcileTip finds nothing to do, each deposit that waits for its
\* confirmations, and each credited one that is not in the operator's queue, is
\* in the block its row names: for any number of reorganisations between ticks,
\* of any heights the ring covers.
THEOREM NoPhantomCredit ==
  ASSUME ~MidTick PROVE Spec => []NoPhantom
<1>1. FollowInv => NoPhantom
  <2> SUFFICES ASSUME FollowInv, TipAgrees, NEW d \in Deposits, Active(d)
               PROVE  d \in TxsAt(row[d].block)
    BY DEF NoPhantom, Active
  <2>1. row[d].block \in 1..cursor /\ (Vouched(row[d].block) => d \in TxsAt(row[d].block))
    BY DEF FollowInv, ChainInv, RowsTrue
  <2> QED BY <2>1, TipVouches
<1> QED BY <1>1, FollowInvariance, PTL

-----------------------------------------------------------------------------
(* Nothing is missed, as long as no transfer comes back after its reversal *)
(* was asked for (~LateReturn).                                            *)

SeenInv == AllSeen /\ GoneForGood

\* Nothing the cursor has passed is left out by any step.
LEMMA SeenStep ==
  ASSUME ~MidTick, ~LateReturn, FollowInv, SeenInv, [Next]_vars
  PROVE  SeenInv'
<1> USE DEF FollowInv, ChainInv, LedgerInv, SeenInv
<1>0. LedgerTypes /\ Height \in Nat /\ row \in [Deposits -> RowType] BY Reads DEF LedgerTypes
<1>1. CASE Mine
  <2>1. /\ Height' = Height + 1 /\ \A m \in 1..Height : TxsAt(m)' = TxsAt(m)
        /\ \A m \in Heights : Vouched(m)' <=> Vouched(m)
    BY <1>1, MineStep
  <2>2. row' = row BY <1>1 DEF Mine
  <2>3. AllSeen' BY <1>0, <2>1, <2>2 DEF AllSeen, Vouched
  <2>4. PICK txs \in SUBSET (Deposits \ Mined) :
          /\ \A d \in txs : row[d].st # "reversed" /\ ~row[d].asked
          /\ chain' = Append(chain, [branch |-> branch, txs |-> txs])
    BY <1>1 DEF Mine
  <2>5. /\ \A m \in 1..Height : chain'[m] = chain[m]
        /\ chain'[Height + 1] = [branch |-> branch, txs |-> txs]
    <3>1. chain \in Seq(Blocks) /\ [branch |-> branch, txs |-> txs] \in Blocks
      BY <1>0, <2>4 DEF LedgerTypes, Blocks
    <3> QED BY <2>4, <3>1 DEF Height
  <2>6. Mined' = Mined \cup txs BY <1>0, <2>1, <2>5 DEF Mined
  <2>7. GoneForGood' BY <2>2, <2>4, <2>6 DEF GoneForGood
  <2> QED BY <2>3, <2>7
<1>2. CASE Reorg
  <2>1. /\ \A m \in 1..Height' : m \in 1..Height /\ TxsAt(m)' = TxsAt(m)
        /\ \A m \in Heights : Vouched(m)' => Vouched(m)
    BY <1>2, ReorgStep
  <2>2. row' = row BY <1>2 DEF Reorg
  <2>3. \A m \in Heights : Vouched(m)' => m \in 1..Height'
    BY DEF Vouched, Heights
  <2>4. AllSeen' BY <2>1, <2>2, <2>3 DEF AllSeen
  <2>5. \A m \in 1..Height' : chain'[m].txs = chain[m].txs
    BY <2>1 DEF TxsAt
  <2>6. Mined' \subseteq Mined BY <2>1, <2>5 DEF Mined
  <2>7. GoneForGood' BY <2>2, <2>6 DEF GoneForGood
  <2> QED BY <2>4, <2>7
<1>3. CASE \/ Tick \/ ReconcileTip \/ CommonAncestor \/ TransferLogs \/ Advanced \/ ExpireOrphans
           \/ Crash \/ Start \/ Spend \/ UNCHANGED vars
  <2>1. UNCHANGED <<chain, row, ring, cursor>> BY <1>3, LookingSteps
  <2> QED BY <2>1 DEF AllSeen, GoneForGood, Vouched, Mined, Height, HashAt, TxsAt
<1>4. CASE PruneRing
  <2>1. UNCHANGED <<chain, row, cursor>> /\ \A m \in Heights : Vouched(m)' <=> Vouched(m)
    BY <1>4, PruneStep
  <2>2. GoneForGood' BY <2>1 DEF GoneForGood, Mined, Height
  <2>3. AllSeen' BY <2>1 DEF AllSeen, TxsAt, Height
  <2> QED BY <2>2, <2>3
<1>5. CASE Rewind
  <2>1. PICK n \in Nat : n = job.n BY <1>0 DEF LedgerTypes, JobType
  <2>2. /\ UNCHANGED chain /\ \A m \in Heights : Vouched(m)' => Vouched(m) /\ m =< n
        /\ \A d \in Deposits :
             /\ \/ row'[d].st = row[d].st /\ row'[d].block = row[d].block
                \/ row[d].st = "pending" /\ row[d].block > n /\ row'[d].st = "orphaned"
             /\ row'[d].asked = row[d].asked
    BY <1>5, <2>1, RewindStep
  <2>3. \A m \in Heights : Vouched(m) => TxsAt(m)' = TxsAt(m) /\ TxsAt(m) \subseteq Deposits
    BY <1>0, <2>2, Reads DEF TxsAt, Height, Vouched, Heights
  <2>4. AllSeen'
    <3> SUFFICES ASSUME NEW m \in Heights, Vouched(m)', NEW d \in TxsAt(m)'
                 PROVE  \/ row'[d].st = "pending" /\ row'[d].block = m
                        \/ row'[d].st = "credited"
      BY DEF AllSeen
    <3>1. Vouched(m) /\ m =< n /\ m \in Nat BY <2>2 DEF Heights
    <3>2. d \in Deposits /\ d \in TxsAt(m) BY <2>3, <3>1
    <3>3. (row[d].st = "pending" /\ row[d].block = m) \/ row[d].st = "credited"
      BY <3>1, <3>2 DEF AllSeen
    <3> QED BY <2>1, <2>2, <3>1, <3>2, <3>3
  <2>5. GoneForGood' BY <2>2 DEF GoneForGood, Mined, Height
  <2> QED BY <2>4, <2>5
<1>6. CASE CommitBlock
  <2>1. PICK n \in Nat : n = job.n BY <1>0 DEF LedgerTypes, JobType
  <2>2. UNCHANGED chain BY <1>6, CommitStep
  <2>3. \A m : TxsAt(m)' = TxsAt(m) /\ HashAt(m)' = HashAt(m) /\ Height' = Height
    BY <2>2 DEF TxsAt, Height, HashAt
  <2>4. CASE UNCHANGED <<row, ring, cursor>>
    BY <2>2, <2>4 DEF AllSeen, GoneForGood, Vouched, Mined, Height, HashAt, TxsAt
  <2>5. CASE /\ n \in Heights /\ cursor = n - 1 /\ n \in 1..Height
             /\ \A m \in Heights : Vouched(m)' => Vouched(m) \/ m = n
             /\ \A d \in Deposits :
                  IF d \in TxsAt(n)
                    THEN row[d].st # "reversed" /\ row'[d] = Recorded(d, n) ELSE row'[d] = row[d]
    <3>1. \A d \in Deposits :
            /\ d \in TxsAt(n) => \/ row'[d].st = "pending" /\ row'[d].block = n
                                 \/ row'[d].st = "credited"
            /\ row'[d].st = "credited" <=> row[d].st = "credited"
            /\ row'[d].st = "reversed" <=> row[d].st = "reversed"
            /\ row'[d].asked = row[d].asked
            /\ d \notin TxsAt(n) => row'[d] = row[d]
      BY <1>0, <2>5 DEF Recorded, RowType
    <3>2. AllSeen'
      <4> SUFFICES ASSUME NEW m \in Heights, Vouched(m)', NEW d \in TxsAt(m)
                   PROVE  \/ row'[d].st = "pending" /\ row'[d].block = m
                          \/ row'[d].st = "credited"
        BY <2>3 DEF AllSeen
      <4>1. m \in 1..Height BY <2>3 DEF Vouched, Heights
      <4>2. d \in Deposits BY <1>0, <4>1, Reads
      <4>3. CASE m = n BY <3>1, <4>2, <4>3
      <4>4. CASE m # n
        <5>1. Vouched(m) BY <2>5, <4>4
        <5>2. d \notin TxsAt(n) BY <1>0, <2>5, <4>1, <4>4, Reads DEF NodeInv
        <5> QED BY <3>1, <4>2, <5>1, <5>2 DEF AllSeen
      <4> QED BY <4>3, <4>4
    <3>3. GoneForGood' BY <2>2, <3>1 DEF GoneForGood, Mined, Height
    <3> QED BY <3>2, <3>3
  <2> QED BY <1>6, <2>1, <2>4, <2>5, CommitStep
<1>7. ASSUME NEW c \in Deposits,
             Credit(c) \/ Drop(c) \/ ReverseDeposit(c) \/ ReversalRefused(c) \/ RequestReversal(c)
      PROVE  SeenInv'
  <2>1. UNCHANGED <<chain, ring, cursor>> BY <1>7, StatusSteps
  <2>2. /\ Mined' = Mined
        /\ \A m : TxsAt(m)' = TxsAt(m) /\ (Vouched(m)' <=> Vouched(m))
    BY <2>1 DEF Mined, Height, TxsAt, HashAt, Vouched
  <2>3. \A d \in Deposits \ {c} : row'[d] = row[d]
    BY <1>0, <1>7 DEF Credit, Drop, ReverseDeposit, ReversalRefused, RequestReversal
  <2>4. row'[c].asked \/ row'[c].st = "reversed" =>
          row[c].asked \/ row[c].st = "reversed" \/ c \notin Mined
    <3>1. CASE Credit(c) \/ Drop(c) BY <1>0, <3>1 DEF Credit, Drop, RowType
    <3>2. CASE ReverseDeposit(c) BY <3>2 DEF ReverseDeposit, Claimed, Requests
    <3>3. CASE ReversalRefused(c) BY <3>3 DEF ReversalRefused, Claimed, Requests
    <3>4. CASE RequestReversal(c) BY <3>4 DEF RequestReversal
    <3> QED BY <1>7, <3>1, <3>2, <3>3, <3>4
  <2>5. GoneForGood' BY <2>2, <2>3, <2>4 DEF GoneForGood
  <2>6. c \in Mined /\ row[c].st \in {"pending", "credited"} =>
          \/ row'[c].st = "credited"
          \/ row'[c].st = row[c].st /\ row'[c].block = row[c].block
    <3>1. CASE Credit(c) BY <1>0, <3>1 DEF Credit, RowType
    <3>2. CASE Drop(c) BY <3>2 DEF Drop, Expired
    <3>3. CASE ReverseDeposit(c) BY <3>3 DEF ReverseDeposit, Claimed, Requests, GoneForGood
    <3>4. CASE ReversalRefused(c) BY <1>0, <3>4 DEF ReversalRefused, RowType
    <3>5. CASE RequestReversal(c) BY <1>0, <3>5 DEF RequestReversal, RowType
    <3> QED BY <1>7, <3>1, <3>2, <3>3, <3>4, <3>5
  <2>7. AllSeen'
    <3> SUFFICES ASSUME NEW m \in Heights, Vouched(m), NEW d \in TxsAt(m)
                 PROVE  \/ row'[d].st = "pending" /\ row'[d].block = m
                        \/ row'[d].st = "credited"
      BY <2>2 DEF AllSeen
    <3>1. m \in 1..Height BY DEF Vouched, Heights
    <3>2. d \in Deposits /\ TxsAt(m) = chain[m].txs BY <1>0, <3>1, Reads
    <3>3. d \in Mined BY <3>1, <3>2 DEF Mined
    <3>4. (row[d].st = "pending" /\ row[d].block = m) \/ row[d].st = "credited" BY DEF AllSeen
    <3> QED BY <2>3, <2>6, <3>2, <3>3, <3>4
  <2> QED BY <2>5, <2>7
<1> QED BY <1>1, <1>2, <1>3, <1>4, <1>5, <1>6, <1>7 DEF Next, TickStep

\* When reconcileTip finds nothing to do, no transfer at or below the cursor
\* has been missed, whatever became of its row before: for any number of
\* reorganisations between ticks.
THEOREM NothingIsMissed ==
  ASSUME ~MidTick, ~LateReturn PROVE Spec => []NoneMissed
<1>1. Init => SeenInv
  BY DEF Init, SeenInv, AllSeen, GoneForGood, Vouched, NoRow
<1>2. FollowInv /\ SeenInv /\ [Next]_vars => SeenInv' BY SeenStep
<1>3. FollowInv /\ SeenInv => NoneMissed
  BY TipVouches DEF SeenInv, AllSeen, NoneMissed
<1> QED BY <1>1, <1>2, <1>3, FollowInvariance, PTL DEF Spec
================================================================================
