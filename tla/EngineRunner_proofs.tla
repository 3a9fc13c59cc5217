------------------------- MODULE EngineRunner_proofs -------------------------
(***************************************************************************)
(* The mirror of EngineRunner is faithful for any number of engines,       *)
(* orders, faults and re-sent commands.  The argument: whoever holds the   *)
(* sequence row's lock works on a copy of the committed rows, its book is  *)
(* the book of that copy, and a commit that changes the book also moves    *)
(* the sequence.  A runner whose sequence is the database's therefore has  *)
(* not missed a change of the book, which is all executeGroup compares.    *)
(***************************************************************************)
EXTENDS EngineRunner, TLAPS, SequenceTheorems

\* The committed rows, or a transaction's copy of them, at sequence n.
SeqRows(rw, n) ==
  \A p \in Places :
    /\ rw[p].seq =< n
    /\ rw[p].st = "none" => rw[p].seq = 0
    /\ \A q \in Places : p # q /\ rw[p].seq = rw[q].seq => rw[p].seq = 0

OldRows(rw) ==
  \A o, m \in Places :
    rw[o].st = Open /\ rw[m].st = "filled" /\ Side[o] = Side[m] /\ rw[o].seq < rw[m].seq
      => rw[rw[m].with].seq < rw[m].seq

RowsGood(rw, n) == PairedRows(rw) /\ SeqRows(rw, n) /\ OldRows(rw)

\* A runner walks or commits exactly while it owns the transaction.
OwnerInv == \A e \in Engines : phase[e] \in {"walk", "committing"} <=> Holds(e)

\* The open transaction: a well-formed copy that kept every ended order, and
\* whose book differs from the committed one only if its sequence does.
TxInv ==
  tx # NoTx =>
    /\ dbSeq =< tx.next /\ RowsGood(tx.row, tx.next)
    /\ tx.next = dbSeq => BookOf(tx.row) = BookOf(row)
    /\ \A p \in Places : row[p].st \in Terminal => tx.row[p] = row[p]

\* What each runner's memory says of the database, phase by phase.
MirrorAt(e) ==
  /\ mSeq[e] =< dbSeq
  /\ phase[e] \in {"idle", "preread"} /\ mSeq[e] = dbSeq => mBook[e] = BookOf(row)
  /\ Holds(e) => mSeq[e] = dbSeq /\ mNext[e] = tx.next /\ mBook[e] = BookOf(tx.row)
  /\ phase[e] = "committed" =>
       mNext[e] =< dbSeq /\ (mNext[e] = dbSeq => mBook[e] = BookOf(row))
MirrorInv == \A e \in Engines : MirrorAt(e)

IInv == TypeOK /\ OwnerInv /\ TxInv /\ MirrorInv /\ RowsGood(row, dbSeq)

-----------------------------------------------------------------------------
(* Rows: what each kind of write does to a well-formed copy.               *)

\* A refused order joins no book, whether or not it used a sequence.
LEMMA RejectRow ==
  ASSUME NEW rw \in [Places -> Rows], NEW n \in Nat, RowsGood(rw, n),
         NEW p \in Places, rw[p].st = "none",
         NEW s \in {0, n + 1}
  PROVE  LET new == [rw EXCEPT ![p] = [st |-> "rejected", seq |-> s, with |-> NoPlace]] IN
         /\ new \in [Places -> Rows] /\ BookOf(new) = BookOf(rw)
         /\ RowsGood(new, n + 1) /\ (s = 0 => RowsGood(new, n))
<1> DEFINE r   == [st |-> "rejected", seq |-> s, with |-> NoPlace]
           new == [rw EXCEPT ![p] = r]
<1>1. r \in Rows BY DEF Rows, Statuses, Terminal, Open
<1>2. new \in [Places -> Rows] /\ \A q \in Places : new[q] = IF q = p THEN r ELSE rw[q]
  BY <1>1
<1>3. \A q \in Places : rw[q].seq \in Nat BY DEF Rows
<1> HIDE DEF new
<1>4. PairedRows(new) BY <1>2, RunnerAssumption DEF RowsGood, PairedRows, RunnerAssumption
<1>5. SeqRows(new, n + 1) /\ (s = 0 => SeqRows(new, n)) BY <1>2, <1>3 DEF RowsGood, SeqRows
<1>6. OldRows(new)
  <2> SUFFICES ASSUME NEW o \in Places, NEW m \in Places, new[o].st = Open, new[m].st = "filled",
                      Side[o] = Side[m], new[o].seq < new[m].seq
               PROVE  new[new[m].with].seq < new[m].seq
    BY DEF OldRows
  <2>1. o # p /\ m # p BY <1>2 DEF Open
  <2>2. rw[m].with \in Places /\ rw[m].with # p BY <1>2, <2>1 DEF RowsGood, PairedRows
  <2> QED BY <1>2, <2>1, <2>2 DEF RowsGood, OldRows
<1>7. BookOf(new) = BookOf(rw) BY <1>2 DEF BookOf, Open
<1> QED BY <1>2, <1>4, <1>5, <1>6, <1>7 DEF RowsGood, new

\* An order comes to rest: the book gains it, at the new sequence.
LEMMA RestRow ==
  ASSUME NEW rw \in [Places -> Rows], NEW n \in Nat, RowsGood(rw, n),
         NEW p \in Places, rw[p].st = "none"
  PROVE  LET new == [rw EXCEPT ![p] = [st |-> Open, seq |-> n + 1, with |-> NoPlace]] IN
         new \in [Places -> Rows] /\ RowsGood(new, n + 1) /\ BookOf(new) = BookOf(rw) \cup {<<p, n + 1>>}
<1> DEFINE r   == [st |-> Open, seq |-> n + 1, with |-> NoPlace]
           new == [rw EXCEPT ![p] = r]
<1>1. r \in Rows BY DEF Rows, Statuses, Terminal, Open
<1>2. new \in [Places -> Rows] /\ \A q \in Places : new[q] = IF q = p THEN r ELSE rw[q]
  BY <1>1
<1>3. \A q \in Places : rw[q].seq \in Nat BY DEF Rows
<1> HIDE DEF new
<1>4. PairedRows(new) BY <1>2 DEF RowsGood, PairedRows, Open
<1>5. SeqRows(new, n + 1) BY <1>2, <1>3 DEF RowsGood, SeqRows, Open
<1>6. OldRows(new)
  <2> SUFFICES ASSUME NEW o \in Places, NEW m \in Places, new[o].st = Open, new[m].st = "filled",
                      Side[o] = Side[m], new[o].seq < new[m].seq
               PROVE  new[new[m].with].seq < new[m].seq
    BY DEF OldRows
  <2>1. m # p BY <1>2 DEF Open
  <2>2. o # p BY <1>2, <1>3, <2>1 DEF RowsGood, SeqRows
  <2>3. rw[m].with \in Places /\ rw[m].with # p BY <1>2, <2>1 DEF RowsGood, PairedRows
  <2> QED BY <1>2, <2>1, <2>2, <2>3 DEF RowsGood, OldRows
<1>7. BookOf(new) = BookOf(rw) \cup {<<p, n + 1>>} BY <1>2 DEF BookOf, Open
<1> QED BY <1>2, <1>4, <1>5, <1>6, <1>7 DEF RowsGood, new

\* A cancelled order leaves the book.
LEMMA CancelRow ==
  ASSUME NEW rw \in [Places -> Rows], NEW n \in Nat, RowsGood(rw, n),
         NEW t \in Places, rw[t].st = Open
  PROVE  LET new == [rw EXCEPT ![t].st = "cancelled"] IN
         new \in [Places -> Rows] /\ RowsGood(new, n + 1)
           /\ BookOf(new) = {x \in BookOf(rw) : x[1] # t}
<1> DEFINE r   == [rw[t] EXCEPT !.st = "cancelled"]
           new == [rw EXCEPT ![t].st = "cancelled"]
<1>1. r \in Rows BY DEF Rows, Statuses, Terminal, Open
<1>2. new \in [Places -> Rows] /\ \A q \in Places : new[q] = IF q = t THEN r ELSE rw[q]
  BY <1>1
<1>3. r.st = "cancelled" /\ r.seq = rw[t].seq /\ \A q \in Places : rw[q].seq \in Nat BY DEF Rows
<1> HIDE DEF new, r
<1>4. PairedRows(new) BY <1>2, <1>3 DEF RowsGood, PairedRows, Open
<1>5. SeqRows(new, n + 1) BY <1>2, <1>3 DEF RowsGood, SeqRows, Open
<1>6. OldRows(new)
  <2> SUFFICES ASSUME NEW o \in Places, NEW m \in Places, new[o].st = Open, new[m].st = "filled",
                      Side[o] = Side[m], new[o].seq < new[m].seq
               PROVE  new[new[m].with].seq < new[m].seq
    BY DEF OldRows
  <2>1. o # t /\ m # t BY <1>2, <1>3 DEF Open
  <2>2. rw[m].with \in Places BY <1>2, <2>1 DEF RowsGood, PairedRows
  <2> QED BY <1>2, <1>3, <2>1, <2>2 DEF RowsGood, OldRows
<1>7. BookOf(new) = {x \in BookOf(rw) : x[1] # t} BY <1>2, <1>3 DEF BookOf, Open
<1> QED BY <1>2, <1>4, <1>5, <1>6, <1>7 DEF RowsGood, new

\* A fill ends the taker and the oldest resting order of the other side, and
\* takes the latter off the book.
LEMMA FillRow ==
  ASSUME NEW rw \in [Places -> Rows], NEW n \in Nat, RowsGood(rw, n),
         NEW p \in Places, rw[p].st = "none",
         NEW m \in BookOf(rw), Side[m[1]] # Side[p],
         \A x \in BookOf(rw) : Side[x[1]] # Side[p] => m[2] =< x[2],
         NEW new,
         new = [q \in Places |->
                  IF q = p THEN [st |-> "filled", seq |-> n + 1, with |-> m[1]]
                  ELSE IF q = m[1] THEN [st |-> "filled", seq |-> rw[q].seq, with |-> p] ELSE rw[q]]
  PROVE  new \in [Places -> Rows] /\ RowsGood(new, n + 1) /\ BookOf(new) = BookOf(rw) \ {m}
<1> DEFINE k   == m[1]
           rp  == [st |-> "filled", seq |-> n + 1, with |-> k]
           rk  == [st |-> "filled", seq |-> rw[k].seq, with |-> p]
<1>1. k \in Places /\ rw[k].st = Open /\ m = <<k, rw[k].seq>> /\ k # p BY DEF BookOf, Open
<1>2. NoPlace \notin Places BY RunnerAssumption DEF RunnerAssumption
<1>3. rp \in Rows /\ rk \in Rows
  <2>1. rp \in Rows BY <1>1, <1>2 DEF Rows, Statuses, Terminal, Open
  <2>2. rw[k] \in [st : Statuses, seq : Nat, with : Places \cup {NoPlace}] BY <1>1 DEF Rows
  <2>3. rk \in Rows BY <1>2, <2>2 DEF Rows, Statuses, Terminal
  <2> QED BY <2>1, <2>3
<1>4. new \in [Places -> Rows] /\ \A q \in Places : new[q] = IF q = p THEN rp ELSE IF q = k THEN rk ELSE rw[q]
  BY <1>1, <1>3
<1>5. rk.st = "filled" /\ rk.seq = rw[k].seq /\ rk.with = p /\ \A q \in Places : rw[q].seq \in Nat
  BY <1>1 DEF Rows
<1>6. rp.st = "filled" /\ rp.seq = n + 1 /\ rp.with = k OBVIOUS
<1>7. Side \in [Places -> {"buy", "sell"}] /\ Side[k] # Side[p] BY RunnerAssumption DEF RunnerAssumption
<1>8. \A x \in Places : rw[x].st = Open /\ Side[x] # Side[p] => rw[k].seq =< rw[x].seq
  <2> SUFFICES ASSUME NEW x \in Places, rw[x].st = Open, Side[x] # Side[p]
               PROVE  rw[k].seq =< rw[x].seq
    OBVIOUS
  <2>1. <<x, rw[x].seq>> \in BookOf(rw) BY DEF BookOf
  <2> QED BY <2>1, <1>1
<1> HIDE DEF rk, rp, k
<1>9. PairedRows(new)
  <2> SUFFICES ASSUME NEW a \in Places, new[a].st = "filled"
               PROVE  new[a].with \in Places /\ new[new[a].with].st = "filled"
                        /\ new[new[a].with].with = a /\ Side[new[a].with] # Side[a]
    BY DEF PairedRows
  <2>1. CASE a = p BY <2>1, <1>1, <1>4, <1>5, <1>6, <1>7
  <2>2. CASE a = k BY <2>2, <1>1, <1>4, <1>5, <1>6, <1>7
  <2>3. CASE a # p /\ a # k
    <3>1. new[a] = rw[a] BY <2>3, <1>4
    <3>2. rw[a].with \in Places /\ rw[a].with # p /\ rw[a].with # k BY <3>1, <1>1 DEF RowsGood, PairedRows, Open
    <3> QED BY <3>1, <3>2, <1>4 DEF RowsGood, PairedRows
  <2> QED BY <2>1, <2>2, <2>3
<1>10. SeqRows(new, n + 1) BY <1>1, <1>4, <1>5, <1>6 DEF RowsGood, SeqRows
<1>11. OldRows(new)
  <2> SUFFICES ASSUME NEW o \in Places, NEW f \in Places, new[o].st = Open, new[f].st = "filled",
                      Side[o] = Side[f], new[o].seq < new[f].seq
               PROVE  new[new[f].with].seq < new[f].seq
    BY DEF OldRows
  <2>1. o # p /\ o # k /\ new[o] = rw[o] BY <1>4, <1>5, <1>6 DEF Open
  <2>2. CASE f = p
    BY <2>2, <1>1, <1>4, <1>5, <1>6 DEF RowsGood, SeqRows
  <2>3. CASE f = k
    <3>1. rw[k].seq =< rw[o].seq BY <2>1, <2>3, <1>7, <1>8
    <3> QED BY <3>1, <2>1, <2>3, <1>1, <1>4, <1>5
  <2>4. CASE f # p /\ f # k
    <3>1. new[f] = rw[f] BY <2>4, <1>4
    <3>2. rw[f].with \in Places /\ rw[f].with # p /\ rw[f].with # k BY <3>1, <1>1 DEF RowsGood, PairedRows, Open
    <3> QED BY <3>1, <3>2, <2>1, <1>4 DEF RowsGood, OldRows
  <2> QED BY <2>2, <2>3, <2>4
<1>12. BookOf(new) = BookOf(rw) \ {m}
  <2>1. \A q \in Places : new[q].st = Open <=> rw[q].st = Open /\ q # k
    BY <1>1, <1>4, <1>5, <1>6 DEF Open
  <2>2. \A q \in Places : new[q].st = Open => new[q].seq = rw[q].seq
    BY <1>4, <1>5, <1>6 DEF Open
  <2> QED BY <2>1, <2>2, <1>1 DEF BookOf
<1> QED BY <1>4, <1>9, <1>10, <1>11, <1>12 DEF RowsGood

-----------------------------------------------------------------------------
(* Steps: what an action must leave alone for the invariant to survive.    *)

\* The empty database and the runners that have not started satisfy IInv.
LEMMA InitInv == Init => IInv
<1> SUFFICES ASSUME Init PROVE IInv
  OBVIOUS
<1> USE DEF Init
<1>1. NoRow \in Rows BY DEF NoRow, Rows, Statuses
<1>2. TypeOK BY <1>1 DEF TypeOK, Phases
<1>3. OwnerInv /\ TxInv BY DEF OwnerInv, TxInv, Holds
<1>4. MirrorInv BY DEF MirrorInv, MirrorAt, Holds
<1>5. RowsGood(row, dbSeq)
  BY DEF RowsGood, PairedRows, SeqRows, OldRows, NoRow, Open
<1> QED BY <1>2, <1>3, <1>4, <1>5 DEF IInv

\* Steps of clients, of the supervisor and of a failing group: the rows and
\* the mirrors stay, the transaction can only lose its owner or be sent or
\* rolled back, and no runner comes closer to believing its book.
LEMMA QuietStep ==
  ASSUME IInv, TypeOK', UNCHANGED <<db, mirror>>,
         tx' = NoTx \/ (/\ tx # NoTx /\ tx'.row = tx.row /\ tx'.next = tx.next
                        /\ tx'.owner \in {tx.owner, NoEngine}),
         \A e \in Engines :
           /\ phase'[e] \in {"walk", "committing"} <=> Holds(e)'
           /\ phase'[e] \in {"idle", "preread"} => phase[e] \in {"idle", "preread"}
           /\ phase'[e] = "committed" => phase[e] = "committed"
  PROVE  IInv'
<1>1. row' = row /\ dbSeq' = dbSeq /\ mSeq' = mSeq /\ mNext' = mNext /\ mBook' = mBook
  BY DEF db, mirror
<1>2. \A e \in Engines : Holds(e)' => Holds(e) /\ tx'.row = tx.row /\ tx'.next = tx.next
  BY RunnerAssumption DEF RunnerAssumption, Holds
<1>3. OwnerInv' BY DEF OwnerInv
<1>4. TxInv' BY <1>1 DEF IInv, TxInv, BookOf
<1>5. MirrorInv' BY <1>1, <1>2 DEF IInv, MirrorInv, MirrorAt, BookOf
<1>6. RowsGood(row, dbSeq)' BY <1>1 DEF IInv, RowsGood, PairedRows, SeqRows, OldRows
<1> QED BY <1>3, <1>4, <1>5, <1>6 DEF IInv

\* A walked command: what it writes is well formed, moves the sequence if it
\* moves the book, and leaves ended orders as they are.
LEMMA WalkedStep ==
  ASSUME IInv, NEW e \in Engines, Walking(e),
         NEW rw \in [Places -> Rows], NEW n \in Nat, NEW bk, NEW a, Walked(e, rw, n, bk, a),
         RowsGood(rw, n), bk = BookOf(rw), tx.next =< n,
         n = tx.next => BookOf(rw) = BookOf(tx.row),
         \A q \in Places : tx.row[q].st \in Terminal => rw[q] = tx.row[q]
  PROVE  IInv'
<1>1. tx \in TxType /\ tx.owner = e /\ Holds(e) BY DEF IInv, TypeOK, Walking, Holds
<1>2. /\ tx' \in TxType /\ tx' # NoTx /\ tx'.owner = e /\ tx'.row = rw /\ tx'.next = n
      /\ mNext' = [mNext EXCEPT ![e] = n] /\ mBook' = [mBook EXCEPT ![e] = bk]
      /\ row' = row /\ dbSeq' = dbSeq /\ mSeq' = mSeq /\ phase' = phase
  BY <1>1, NoTxAssumption DEF Walked, TxType, db
<1>3. bk \in SUBSET (Places \X Nat) BY DEF BookOf, Rows
<1>4. todo[e] \in Seq(Cmds) /\ todo[e] # << >> BY DEF IInv, TypeOK, Walking
<1>5. todo' \in [Engines -> Seq(Cmds)]
  <2>1. Tail(todo[e]) \in Seq(Cmds) BY <1>4
  <2> QED BY <2>1 DEF Walked, IInv, TypeOK
<1>6. TypeOK' BY <1>2, <1>3, <1>5, SMTT(60) DEF Walked, clients, IInv, TypeOK
<1>7. \A x \in Engines : Holds(x)' <=> x = e BY <1>2 DEF Holds
<1>8. \A x \in Engines : Holds(x) <=> x = e BY <1>1 DEF Holds
<1>9. OwnerInv' BY <1>2, <1>7, <1>8 DEF IInv, OwnerInv
<1>10. TxInv'
  <2>1. \A q \in Places : row[q].st \in Terminal => rw[q] = row[q] BY <1>1 DEF IInv, TxInv, Holds
  <2>2. dbSeq =< n /\ (n = dbSeq => BookOf(rw) = BookOf(row))
    BY <1>1 DEF IInv, TypeOK, TxInv, TxType, Holds
  <2> QED BY <1>2, <2>1, <2>2 DEF TxInv, BookOf
<1>11. MirrorInv'
  <2>1. phase[e] = "walk" /\ mSeq[e] = dbSeq BY <1>8 DEF Walking, IInv, MirrorInv, MirrorAt
  <2>2. BookOf(row)' = BookOf(row) /\ BookOf(tx.row)' = BookOf(rw) BY <1>2 DEF BookOf
  <2>3. mNext'[e] = n /\ mBook'[e] = bk BY <1>2 DEF IInv, TypeOK
  <2>4. \A x \in Engines : x # e => mNext'[x] = mNext[x] /\ mBook'[x] = mBook[x]
    BY <1>2 DEF IInv, TypeOK
  <2> SUFFICES ASSUME NEW x \in Engines PROVE MirrorAt(x)'
    BY DEF MirrorInv
  <2>5. CASE x = e BY <2>5, <1>2, <2>1, <2>2, <2>3 DEF IInv, MirrorInv, MirrorAt
  <2>6. CASE x # e BY <2>6, <1>2, <1>7, <2>2, <2>4 DEF IInv, MirrorInv, MirrorAt
  <2> QED BY <2>5, <2>6
<1>12. RowsGood(row, dbSeq)' BY <1>2 DEF IInv, RowsGood, PairedRows, SeqRows, OldRows
<1> QED BY <1>6, <1>9, <1>10, <1>11, <1>12 DEF IInv

\* Each way a command is walked satisfies what WalkedStep asks.
LEMMA WalkSteps ==
  ASSUME IInv, NEW e \in Engines, Walking(e)
  PROVE  /\ \A p \in Places : WalkReplay(e, p) \/ WalkDenied(e, p) \/ WalkRejected(e, p)
                                \/ WalkRest(e, p) \/ (\E m \in mBook[e] : WalkFill(e, p, m)) => IInv'
         /\ \A c \in Cancels : WalkCancel(e, c) \/ WalkCancelEnded(e, c) => IInv'
<1>1. /\ tx \in TxType /\ tx # NoTx /\ tx.row \in [Places -> Rows] /\ tx.next \in Nat
      /\ RowsGood(tx.row, tx.next) /\ mBook[e] = BookOf(tx.row)
  BY DEF IInv, TypeOK, TxInv, MirrorInv, MirrorAt, Walking, Holds, TxType
<1>0. /\ tx.next =< tx.next /\ tx.next =< tx.next + 1 /\ tx.next + 1 # tx.next
      /\ tx.next + 1 \in Nat /\ 0 \in Nat
  BY <1>1
<1>2. ASSUME NEW a, Walked(e, tx.row, tx.next, mBook[e], a) PROVE IInv'
  BY <1>0, <1>1, <1>2, WalkedStep
<1>3. ASSUME NEW p \in Places, WalkReplay(e, p) PROVE IInv'
  BY <1>2, <1>3 DEF WalkReplay
<1>4. ASSUME NEW c \in Cancels, WalkCancelEnded(e, c) PROVE IInv'
  BY <1>2, <1>4 DEF WalkCancelEnded
<1>5. ASSUME NEW p \in Places, WalkDenied(e, p) PROVE IInv'
  <2> DEFINE new == [tx.row EXCEPT ![p] = [st |-> "rejected", seq |-> 0, with |-> NoPlace]]
  <2>1. tx.row[p].st = "none" /\ Walked(e, new, tx.next, mBook[e], "rejected")
    BY <1>5 DEF WalkDenied, Fresh
  <2>2. new \in [Places -> Rows] /\ RowsGood(new, tx.next) /\ BookOf(new) = BookOf(tx.row)
    BY <1>0, <1>1, <2>1, RejectRow
  <2>3. \A q \in Places : tx.row[q].st \in Terminal => new[q] = tx.row[q]
    BY <1>1, <2>1 DEF Terminal
  <2> HIDE DEF new
  <2> QED BY <1>0, <1>1, <2>1, <2>2, <2>3, WalkedStep
<1>6. ASSUME NEW p \in Places, WalkRejected(e, p) PROVE IInv'
  <2> DEFINE new == [tx.row EXCEPT ![p] = [st |-> "rejected", seq |-> tx.next + 1, with |-> NoPlace]]
  <2>1. tx.row[p].st = "none" /\ Walked(e, new, tx.next + 1, mBook[e], "rejected")
    BY <1>6 DEF WalkRejected, Fresh
  <2>2. new \in [Places -> Rows] /\ RowsGood(new, tx.next + 1) /\ BookOf(new) = BookOf(tx.row)
    BY <1>0, <1>1, <2>1, RejectRow
  <2>3. \A q \in Places : tx.row[q].st \in Terminal => new[q] = tx.row[q]
    BY <1>1, <2>1 DEF Terminal
  <2> HIDE DEF new
  <2> QED BY <1>0, <1>1, <2>1, <2>2, <2>3, WalkedStep
<1>7. ASSUME NEW p \in Places, WalkRest(e, p) PROVE IInv'
  <2> DEFINE new == [tx.row EXCEPT ![p] = [st |-> Open, seq |-> tx.next + 1, with |-> NoPlace]]
  <2>1. tx.row[p].st = "none" /\ Walked(e, new, tx.next + 1, mBook[e] \cup {<<p, tx.next + 1>>}, Open)
    BY <1>7 DEF WalkRest, Fresh
  <2>2. /\ new \in [Places -> Rows] /\ RowsGood(new, tx.next + 1)
        /\ BookOf(new) = BookOf(tx.row) \cup {<<p, tx.next + 1>>}
    BY <1>1, <2>1, RestRow
  <2>3. \A q \in Places : tx.row[q].st \in Terminal => new[q] = tx.row[q]
    BY <1>1, <2>1 DEF Terminal
  <2> HIDE DEF new
  <2> QED BY <1>0, <1>1, <2>1, <2>2, <2>3, WalkedStep
<1>8. ASSUME NEW p \in Places, NEW m \in mBook[e], WalkFill(e, p, m) PROVE IInv'
  <2> DEFINE new == [tx.row EXCEPT ![p] = [st |-> "filled", seq |-> tx.next + 1, with |-> m[1]],
                                   ![m[1]] = [st |-> "filled", seq |-> @.seq, with |-> p]]
  <2>1. /\ tx.row[p].st = "none" /\ Walked(e, new, tx.next + 1, mBook[e] \ {m}, "filled")
        /\ Side[m[1]] # Side[p] /\ \A x \in mBook[e] : Side[x[1]] # Side[p] => m[2] =< x[2]
    BY <1>8 DEF WalkFill, Fresh, Makers
  <2>2. new \in [Places -> Rows] /\ RowsGood(new, tx.next + 1) /\ BookOf(new) = BookOf(tx.row) \ {m}
    <3>1. m \in BookOf(tx.row) /\ \A x \in BookOf(tx.row) : Side[x[1]] # Side[p] => m[2] =< x[2]
      BY <1>1, <2>1
    <3>2. m[1] \in Places /\ m[1] # p BY <1>1, <2>1 DEF BookOf, Open
    <3>3. new = [q \in Places |->
                   IF q = p THEN [st |-> "filled", seq |-> tx.next + 1, with |-> m[1]]
                   ELSE IF q = m[1] THEN [st |-> "filled", seq |-> tx.row[q].seq, with |-> p]
                   ELSE tx.row[q]]
      BY <1>1, <3>2
    <3> HIDE DEF new
    <3> QED BY <1>1, <2>1, <3>1, <3>3, FillRow
  <2>3. m[1] \in Places /\ tx.row[m[1]].st = Open BY <1>1 DEF BookOf
  <2>4. \A q \in Places : tx.row[q].st \in Terminal => new[q] = tx.row[q]
    BY <1>1, <2>1, <2>3 DEF Terminal, Open
  <2> HIDE DEF new
  <2> QED BY <1>0, <1>1, <2>1, <2>2, <2>4, WalkedStep
<1>9. ASSUME NEW c \in Cancels, WalkCancel(e, c) PROVE IInv'
  <2> DEFINE t   == Target[c]
             new == [tx.row EXCEPT ![t].st = "cancelled"]
  <2>1. t \in Places BY RunnerAssumption DEF RunnerAssumption
  <2>2. /\ tx.row[t].st = Open
        /\ Walked(e, new, tx.next + 1, {x \in mBook[e] : x[1] # t}, "cancelled")
    BY <1>1, <1>9 DEF WalkCancel, InBook, BookOf
  <2>3. /\ new \in [Places -> Rows] /\ RowsGood(new, tx.next + 1)
        /\ BookOf(new) = {x \in BookOf(tx.row) : x[1] # t}
    BY <1>1, <2>1, <2>2, CancelRow
  <2>4. \A q \in Places : tx.row[q].st \in Terminal => new[q] = tx.row[q]
    BY <1>1, <2>1, <2>2 DEF Terminal, Open
  <2> HIDE DEF new, t
  <2> QED BY <1>0, <1>1, <2>2, <2>3, <2>4, WalkedStep
<1> QED BY <1>3, <1>4, <1>5, <1>6, <1>7, <1>8, <1>9

\* Clients, the advisory lock, restore and stop.
LEMMA StartSteps ==
  ASSUME IInv, NEW e \in Engines,
         \/ \E c \in Cmds : Send(c, e)
         \/ AcquireLock(e) \/ RestoreSeq(e) \/ RestoreOrders(e) \/ Stop(e)
  PROVE  IInv'
<1> USE DEF IInv
<1>1. CASE \E c \in Cmds : Send(c, e)
  <2> PICK c \in Cmds : Send(c, e) BY <1>1
  <2>1. Append(queue[e], c) \in Seq(Cmds) BY DEF TypeOK
  <2>2. TypeOK' BY <2>1 DEF Send, TypeOK, db, mirror, work
  <2> QED BY <2>2, QuietStep DEF Send, OwnerInv, Holds, db, mirror
<1>2. CASE AcquireLock(e)
  <2>1. TypeOK' BY <1>2 DEF AcquireLock, TypeOK, db, mirror, work, clients, Phases
  <2>2. phase' = [phase EXCEPT ![e] = "starting"] /\ phase[e] = "off" /\ tx' = tx BY <1>2 DEF AcquireLock
  <2> QED BY <1>2, <2>1, <2>2, QuietStep DEF AcquireLock, OwnerInv, Holds, TypeOK, db, mirror
<1>3. CASE Stop(e)
  <2>1. << >> \in Seq(Cmds) OBVIOUS
  <2>2. TypeOK' BY <1>3, <2>1 DEF Stop, TypeOK, db, mirror, work, Phases
  <2>3. phase' = [phase EXCEPT ![e] = "off"] /\ phase[e] \in {"idle", "dirty"} /\ tx' = tx BY <1>3 DEF Stop
  <2> QED BY <1>3, <2>2, <2>3, QuietStep DEF Stop, OwnerInv, Holds, TypeOK, db, mirror
<1>4. CASE RestoreSeq(e)
  <2>1. TypeOK' BY <1>4 DEF RestoreSeq, TypeOK, db, work, clients, Phases
  <2>2. /\ tx = NoTx /\ tx' = NoTx /\ row' = row /\ dbSeq' = dbSeq /\ mNext' = mNext /\ mBook' = mBook
        /\ phase[e] \in {"starting", "dirty"} /\ phase'[e] \in {"startread", "restoring"}
        /\ \A x \in Engines : x # e => phase'[x] = phase[x] /\ mSeq'[x] = mSeq[x]
        /\ mSeq'[e] = dbSeq
    BY <1>4 DEF RestoreSeq, TypeOK, db
  <2>3. OwnerInv' /\ TxInv' BY <2>2 DEF OwnerInv, TxInv, Holds
  <2>4. MirrorInv'
    <3>1. BookOf(row)' = BookOf(row) /\ \A x \in Engines : ~Holds(x)' BY <2>2 DEF BookOf, Holds
    <3>2. dbSeq =< dbSeq BY DEF TypeOK
    <3> QED BY <2>2, <3>1, <3>2 DEF MirrorInv, MirrorAt
  <2>5. RowsGood(row, dbSeq)' BY <2>2 DEF RowsGood, PairedRows, SeqRows, OldRows
  <2> QED BY <2>1, <2>3, <2>4, <2>5
<1>5. CASE RestoreOrders(e)
  <2>1. BookOf(row) \in SUBSET (Places \X Nat) BY DEF BookOf, TypeOK, Rows
  <2>2. TypeOK' BY <1>5, <2>1 DEF RestoreOrders, TypeOK, db, work, clients, Phases
  <2>3. /\ tx' = tx /\ row' = row /\ dbSeq' = dbSeq /\ mSeq' = mSeq /\ mNext' = mNext
        /\ phase[e] \in {"startread", "restoring"} /\ phase'[e] = "idle"
        /\ \A x \in Engines : x # e => phase'[x] = phase[x] /\ mBook'[x] = mBook[x]
        /\ mBook'[e] = BookOf(row)
    BY <1>5 DEF RestoreOrders, TypeOK, db
  <2>4. BookOf(row)' = BookOf(row) /\ (tx # NoTx => BookOf(tx.row)' = BookOf(tx.row)) BY <2>3 DEF BookOf
  <2>5. OwnerInv' /\ TxInv' BY <2>3, <2>4 DEF OwnerInv, TxInv, Holds
  <2>6. ~Holds(e) BY <2>3 DEF OwnerInv
  <2>7. MirrorInv'
    <3>1. \A x \in Engines : (Holds(x)' <=> Holds(x)) /\ (Holds(x) => BookOf(tx.row)' = BookOf(tx.row))
      BY <2>3, <2>4 DEF Holds
    <3> SUFFICES ASSUME NEW x \in Engines PROVE MirrorAt(x)'
      BY DEF MirrorInv
    <3>2. CASE x = e BY <3>1, <3>2, <2>3, <2>4, <2>6 DEF MirrorInv, MirrorAt
    <3>3. CASE x # e BY <3>1, <3>3, <2>3, <2>4 DEF MirrorInv, MirrorAt
    <3> QED BY <3>2, <3>3
  <2>8. RowsGood(row, dbSeq)' BY <2>3 DEF RowsGood, PairedRows, SeqRows, OldRows
  <2> QED BY <2>2, <2>5, <2>7, <2>8
<1> QED BY <1>1, <1>2, <1>3, <1>4, <1>5

\* A failing group: the runner distrusts its book and loses its transaction.
LEMMA FailStep ==
  ASSUME IInv, NEW e \in Engines, NEW err, NEW giveUp \in BOOLEAN, GroupFails(e, err, giveUp),
         phase[e] \in {"preread", "walk", "committing", "committed"},
         tx' = tx \/ (Holds(e) /\ tx' = [tx EXCEPT !.owner = NoEngine]),
         Holds(e) => tx'.owner = NoEngine,
         faults' \in Nat
  PROVE  IInv'
<1> USE DEF IInv
<1>1. rest' \in [Engines -> Seq(Cmds)] BY DEF GroupFails, TypeOK
<1>2. tx' = NoTx \/ (/\ tx # NoTx /\ tx' \in TxType /\ tx'.row = tx.row /\ tx'.next = tx.next
                     /\ tx'.owner \in {tx.owner, NoEngine})
  BY DEF TypeOK, TxType, Holds
<1>3. TypeOK' BY <1>1, <1>2 DEF GroupFails, TypeOK, db, mirror, Phases
<1>4. phase' = [phase EXCEPT ![e] = "dirty"] /\ UNCHANGED <<db, mirror>> BY DEF GroupFails
<1>5. ~Holds(e)' BY RunnerAssumption DEF RunnerAssumption, Holds
<1>6. \A x \in Engines : x # e => (Holds(x)' <=> Holds(x)) BY RunnerAssumption DEF RunnerAssumption, Holds
<1>7. \A x \in Engines :
        /\ phase'[x] \in {"walk", "committing"} <=> Holds(x)'
        /\ phase'[x] \in {"idle", "preread"} => phase[x] \in {"idle", "preread"}
        /\ phase'[x] = "committed" => phase[x] = "committed"
  BY <1>4, <1>5, <1>6 DEF TypeOK, OwnerInv
<1> QED BY <1>2, <1>3, <1>4, <1>7, QuietStep

\* Taking a group off the queue leaves sequences of commands.
LEMMA TakenTypes ==
  ASSUME TypeOK, NEW e \in Engines, NEW n \in 1..MaxGroup, Taken(e, n)
  PROVE  NextGroup(e, n) \in Seq(Cmds) /\ rest' \in [Engines -> Seq(Cmds)] /\ queue' \in [Engines -> Seq(Cmds)]
<1> DEFINE g == NextGroup(e, n)
<1>1. n \in Nat /\ n >= 1 BY RunnerAssumption DEF RunnerAssumption
<1>2. CASE rest[e] # << >>
  <2>1. Head(rest[e]) \in Cmds /\ Tail(rest[e]) \in Seq(Cmds) BY <1>2 DEF TypeOK
  <2>2. g = <<Head(rest[e])>> /\ g \in Seq(Cmds) BY <1>2, <2>1 DEF NextGroup
  <2>3. rest' = [rest EXCEPT ![e] = Tail(@)] /\ queue' = queue BY <1>2 DEF Taken
  <2> HIDE DEF g
  <2> QED BY <2>1, <2>2, <2>3 DEF TypeOK, g
<1>3. CASE rest[e] = << >>
  <2>1. queue[e] \in Seq(Cmds) /\ n =< Len(queue[e]) BY <1>3 DEF Taken, TypeOK
  <2>2. \A i \in 1..Len(queue[e]) : queue[e][i] \in Cmds BY <2>1
  <2>3. \A i \in 1..n : queue[e][i] \in Cmds BY <1>1, <2>1, <2>2
  <2>4. SubSeq(queue[e], 1, n) \in Seq(Cmds) BY <1>1, <2>3, SubSeqProperties
  <2>5. \A i \in (n + 1)..Len(queue[e]) : queue[e][i] \in Cmds BY <1>1, <2>1, <2>2
  <2>6. SubSeq(queue[e], n + 1, Len(queue[e])) \in Seq(Cmds)
    <3>1. n + 1 \in Int /\ Len(queue[e]) \in Int BY <1>1, <2>1
    <3> QED BY <2>5, <3>1, SubSeqProperties
  <2> QED BY <1>3, <2>4, <2>6 DEF Taken, NextGroup, TypeOK
<1> QED BY <1>2, <1>3

\* One group, from its pre-reads to the answers.
LEMMA GroupSteps == ASSUME IInv, NEW e \in Engines, GroupStep(e) PROVE IInv'
<1> USE DEF IInv
<1>1. CASE \E n \in 1..MaxGroup : Begin(e, n)
  <2> PICK n \in 1..MaxGroup : Begin(e, n) BY <1>1
  <2> DEFINE g == NextGroup(e, n)
  <2>2. g \in Seq(Cmds) /\ rest' \in [Engines -> Seq(Cmds)] /\ queue' \in [Engines -> Seq(Cmds)]
    BY TakenTypes DEF Begin
  <2> HIDE DEF g
  <2>3. /\ phase' = [phase EXCEPT ![e] = "preread"] /\ phase[e] = "idle" /\ tx' = tx
        /\ cur' = [cur EXCEPT ![e] = g] /\ todo' = [todo EXCEPT ![e] = g] /\ pre' = [pre EXCEPT ![e] = row]
        /\ UNCHANGED <<db, advisory, mirror, faults>>
    BY DEF Begin, g
  <2>4. TypeOK' BY <2>2, <2>3 DEF TypeOK, db, mirror, Phases
  <2> QED BY <2>3, <2>4, QuietStep DEF OwnerInv, Holds, TypeOK
<1>2. CASE LockSeq(e)
  <2>1. tx' \in TxType /\ tx' # NoTx
    <3>1. row \in [Places -> Rows] /\ dbSeq \in Nat /\ e \in Engines \cup {NoEngine} BY DEF TypeOK
    <3>2. tx' = [owner |-> e, row |-> row, next |-> dbSeq, sent |-> FALSE] BY <1>2 DEF LockSeq
    <3>3. tx' \in TxType BY <3>1, <3>2, Zenon DEF TxType
    <3> QED BY <3>3, NoTxAssumption
  <2>2. TypeOK' BY <1>2, <2>1 DEF LockSeq, TypeOK, db, work, clients, Phases
  <2>3. /\ tx = NoTx /\ tx'.owner = e /\ tx'.row = row /\ tx'.next = dbSeq
        /\ row' = row /\ dbSeq' = dbSeq /\ mSeq' = mSeq /\ mBook' = mBook
        /\ phase[e] = "preread" /\ phase'[e] = "walk" /\ mSeq[e] = dbSeq /\ mNext'[e] = dbSeq
        /\ \A x \in Engines : x # e => phase'[x] = phase[x] /\ mNext'[x] = mNext[x]
    BY <1>2 DEF LockSeq, TypeOK, db
  <2>4. \A x \in Engines : ~Holds(x) /\ (Holds(x)' <=> x = e) BY <2>1, <2>3 DEF Holds
  <2>5. OwnerInv' BY <2>3, <2>4 DEF OwnerInv
  <2>6. TxInv' BY <2>3 DEF TxInv, BookOf, TypeOK, RowsGood, PairedRows, SeqRows, OldRows
  <2>7. MirrorInv' BY <2>3, <2>4 DEF MirrorInv, MirrorAt, BookOf
  <2>8. RowsGood(row, dbSeq)' BY <2>3 DEF RowsGood, PairedRows, SeqRows, OldRows
  <2> QED BY <2>2, <2>5, <2>6, <2>7, <2>8
<1>3. CASE SequenceConflict(e)
  <2>1. ~Holds(e) /\ tx' = tx /\ faults' \in Nat BY <1>3 DEF SequenceConflict, Holds, TypeOK
  <2> QED BY <1>3, <2>1, FailStep DEF SequenceConflict
<1>4. CASE WalkStep(e)
  <2>1. CASE \E p \in Places : WalkDuplicate(e, p)
    <3> PICK p \in Places : WalkDuplicate(e, p) BY <2>1
    <3>1. Holds(e) /\ phase[e] = "walk" BY DEF WalkDuplicate, Walk, Walking
    <3>2. tx' = [tx EXCEPT !.owner = NoEngine] /\ faults' \in Nat BY DEF WalkDuplicate, TypeOK
    <3>3. tx'.owner = NoEngine BY <3>1, <3>2 DEF Holds, TypeOK, TxType
    <3> QED BY <3>1, <3>2, <3>3, FailStep DEF WalkDuplicate
  <2>2. CASE ~\E p \in Places : WalkDuplicate(e, p)
    <3>1. Walking(e)
      BY <1>4, <2>2 DEF WalkStep, WalkReplay, WalkDenied, WalkRejected, WalkFill, WalkRest, WalkCancel,
                        WalkCancelEnded, Fresh, Walk
    <3> QED BY <1>4, <2>2, <3>1, WalkSteps DEF WalkStep
  <2> QED BY <2>1, <2>2
<1>5. CASE SendCommit(e)
  <2>1. tx \in TxType /\ tx.owner = e /\ tx # NoTx BY <1>5 DEF SendCommit, Holds, TypeOK
  <2>2. tx' \in TxType /\ tx' # NoTx /\ tx'.row = tx.row /\ tx'.next = tx.next /\ tx'.owner = tx.owner
    BY <1>5, <2>1, NoTxAssumption DEF SendCommit, TxType
  <2>3. TypeOK' BY <1>5, <2>2 DEF SendCommit, TypeOK, db, mirror, work, clients, Phases
  <2>4. \A x \in Engines : Holds(x)' <=> Holds(x) BY <2>1, <2>2 DEF Holds
  <2>5. phase' = [phase EXCEPT ![e] = "committing"] /\ phase[e] = "walk" BY <1>5 DEF SendCommit
  <2> QED BY <1>5, <2>1, <2>2, <2>3, <2>4, <2>5, QuietStep DEF SendCommit, OwnerInv, TypeOK
<1>6. CASE Respond(e)
  <2>1. TypeOK' BY <1>6 DEF Respond, TypeOK, db, work, Phases
  <2>2. /\ tx' = tx /\ row' = row /\ dbSeq' = dbSeq /\ mNext' = mNext /\ mBook' = mBook
        /\ phase[e] = "committed" /\ phase'[e] = "idle" /\ mSeq'[e] = mNext[e]
        /\ \A x \in Engines : x # e => phase'[x] = phase[x] /\ mSeq'[x] = mSeq[x]
    BY <1>6 DEF Respond, TypeOK, db
  <2>3. ~Holds(e) BY <2>2 DEF OwnerInv
  <2>4. OwnerInv' /\ TxInv' BY <2>2, <2>3 DEF OwnerInv, TxInv, Holds, BookOf
  <2>5. MirrorInv' BY <2>2, <2>3 DEF MirrorInv, MirrorAt, Holds, BookOf
  <2>6. RowsGood(row, dbSeq)' BY <2>2 DEF RowsGood, PairedRows, SeqRows, OldRows
  <2> QED BY <2>1, <2>4, <2>5, <2>6
<1> QED BY <1>1, <1>2, <1>3, <1>4, <1>5, <1>6 DEF GroupStep

\* Time-outs, failed rebuilds, crashes and lost locks.
LEMMA FaultSteps == ASSUME IInv, NEW e \in Engines, Fault(e) PROVE IInv'
<1> USE DEF IInv
<1>1. \A x \in Engines : x # NoEngine BY RunnerAssumption DEF RunnerAssumption
<1>2. ASSUME Disown(e)
      PROVE  /\ tx' = tx \/ (Holds(e) /\ tx' = [tx EXCEPT !.owner = NoEngine])
             /\ Holds(e) => tx'.owner = NoEngine
             /\ tx' = NoTx \/ (/\ tx # NoTx /\ tx' \in TxType /\ tx'.row = tx.row /\ tx'.next = tx.next
                               /\ tx'.owner \in {tx.owner, NoEngine})
  BY <1>2 DEF Disown, Holds, TypeOK, TxType
<1>3. CASE \E giveUp \in BOOLEAN : Timeout(e, giveUp)
  <2> PICK giveUp \in BOOLEAN : Timeout(e, giveUp) BY <1>3
  <2>1. /\ GroupFails(e, "error", giveUp) /\ Disown(e) /\ faults' \in Nat
        /\ phase[e] \in {"preread", "walk", "committing", "committed"}
    BY DEF Timeout, TypeOK
  <2> QED BY <1>2, <2>1, FailStep
<1>4. CASE \E n \in 1..MaxGroup : RestoreFails(e, n)
  <2> PICK n \in 1..MaxGroup : RestoreFails(e, n) BY <1>4
  <2>1. /\ phase[e] \in {"dirty", "restoring"} /\ phase' = [phase EXCEPT ![e] = "dirty"]
        /\ UNCHANGED <<db, tx, advisory, mirror, cur, todo, pre>> /\ faults' \in Nat
    BY <1>4 DEF RestoreFails, TypeOK
  <2>2. rest' \in [Engines -> Seq(Cmds)] /\ queue' \in [Engines -> Seq(Cmds)]
    BY TakenTypes DEF RestoreFails
  <2>3. TypeOK' BY <2>1, <2>2 DEF TypeOK, db, mirror, Phases
  <2> QED BY <2>1, <2>3, QuietStep DEF OwnerInv, Holds, TypeOK
<1>5. CASE Crash(e)
  <2>1. << >> \in Seq(Cmds) OBVIOUS
  <2>2. Disown(e) /\ phase' = [phase EXCEPT ![e] = "off"] /\ UNCHANGED <<db, mirror>> BY <1>5 DEF Crash
  <2>3. TypeOK' BY <1>2, <1>5, <2>1, <2>2, SMTT(60) DEF Crash, TypeOK, db, mirror, Phases
  <2>4. ~Holds(e)' /\ \A x \in Engines : x # e => (Holds(x)' <=> Holds(x)) BY <1>1, <1>2, <2>2 DEF Holds
  <2> QED BY <1>2, <2>2, <2>3, <2>4, QuietStep DEF OwnerInv, TypeOK
<1>6. CASE LoseLock(e)
  <2>1. UNCHANGED <<db, tx, phase, mirror>> BY <1>6 DEF LoseLock
  <2>2. TypeOK' BY <1>6, <2>1 DEF LoseLock, TypeOK, db, mirror, work
  <2> QED BY <2>1, <2>2, QuietStep DEF OwnerInv, Holds
<1> QED BY <1>3, <1>4, <1>5, <1>6 DEF Fault

\* COMMIT: the copy becomes the rows.  A runner that thought itself current
\* still is, unless the sequence moved past it.
LEMMA CommitStep == ASSUME IInv, DBCommit PROVE IInv'
<1> USE DEF IInv
<1>1. tx \in TxType /\ tx # NoTx BY DEF DBCommit, TypeOK
<1>2. /\ row' = tx.row /\ dbSeq' = tx.next /\ tx' = NoTx /\ dbSeq =< tx.next
      /\ dbSeq \in Nat /\ tx.next \in Nat
      /\ mSeq' = mSeq /\ mNext' = mNext /\ mBook' = mBook
      /\ phase' = [x \in Engines |-> IF x = tx.owner THEN "committed" ELSE phase[x]]
  BY <1>1 DEF DBCommit, mirror, TxInv, TypeOK, TxType
<1>3. TypeOK' BY <1>1, <1>2 DEF DBCommit, TypeOK, TxType, mirror, work, clients, Phases
<1>4. \A x \in Engines : (Holds(x) <=> x = tx.owner) /\ ~Holds(x)' BY <1>1, <1>2 DEF Holds
<1>5. OwnerInv' BY <1>2, <1>4 DEF OwnerInv
<1>6. TxInv' BY <1>2 DEF TxInv
<1>7. BookOf(row)' = BookOf(tx.row) /\ (tx.next = dbSeq => BookOf(tx.row) = BookOf(row))
  BY <1>1, <1>2 DEF BookOf, TxInv
<1>8. MirrorInv'
  <2> SUFFICES ASSUME NEW x \in Engines PROVE MirrorAt(x)'
    BY DEF MirrorInv
  <2>1. mSeq[x] \in Nat /\ mNext[x] \in Nat BY DEF TypeOK
  <2>2. CASE x = tx.owner BY <2>1, <2>2, <1>2, <1>4, <1>7 DEF MirrorInv, MirrorAt
  <2>3. CASE x # tx.owner BY <2>1, <2>3, <1>2, <1>4, <1>7 DEF MirrorInv, MirrorAt
  <2> QED BY <2>2, <2>3
<1>9. RowsGood(row, dbSeq)' BY <1>1, <1>2 DEF TxInv, RowsGood, PairedRows, SeqRows, OldRows
<1> QED BY <1>3, <1>5, <1>6, <1>8, <1>9

\* Every step, and every stutter, preserves IInv.
LEMMA StepInv == IInv /\ [Next]_vars => IInv'
<1> SUFFICES ASSUME IInv, [Next]_vars PROVE IInv'
  OBVIOUS
<1>1. CASE UNCHANGED vars
  <2>1. TypeOK' BY <1>1 DEF IInv, TypeOK, vars
  <2> QED BY <1>1, <2>1, QuietStep DEF IInv, OwnerInv, Holds, vars, db, mirror
<1>2. ASSUME NEW e \in Engines,
             (\E c \in Cmds : Send(c, e)) \/ AcquireLock(e) \/ RestoreSeq(e) \/ RestoreOrders(e) \/ Stop(e)
      PROVE  IInv'
  BY <1>2, StartSteps
<1>3. ASSUME NEW e \in Engines, GroupStep(e) PROVE IInv' BY <1>3, GroupSteps
<1>4. ASSUME NEW e \in Engines, Fault(e) PROVE IInv' BY <1>4, FaultSteps
<1>5. CASE DBCommit BY <1>5, CommitStep
<1>6. CASE DBAbort
  <2>1. TypeOK' BY <1>6 DEF DBAbort, IInv, TypeOK, db, mirror, work, clients
  <2>2. /\ tx' = NoTx /\ tx # NoTx /\ tx.owner = NoEngine /\ UNCHANGED <<db, mirror>> /\ phase' = phase
    BY <1>6 DEF DBAbort
  <2>3. \A x \in Engines : ~Holds(x) /\ ~Holds(x)' BY <2>2, RunnerAssumption DEF Holds, RunnerAssumption
  <2> QED BY <2>1, <2>2, <2>3, QuietStep DEF IInv, OwnerInv
<1> QED BY <1>1, <1>2, <1>3, <1>4, <1>5, <1>6 DEF Next

-----------------------------------------------------------------------------
(* Theorems.                                                               *)

\* IInv holds throughout: locked copy, mirrors and rows agree.
THEOREM Invariance == Spec => []IInv
<1> QED BY InitInv, StepInv, PTL DEF Spec

\* Rows, mirrors, transaction and queues keep their types.
THEOREM TypeCorrect == Spec => []TypeOK
<1>1. IInv => TypeOK BY DEF IInv
<1> QED BY <1>1, Invariance, PTL

\* executeGroup compares only sequences, and that is enough: a runner between
\* groups at the database's sequence has the database's book.
THEOREM MirrorIsFaithful == Spec => []MirrorFaithful
<1>1. IInv => MirrorFaithful BY DEF IInv, MirrorInv, MirrorAt, MirrorFaithful
<1> QED BY <1>1, Invariance, PTL

\* No order is filled twice and no ended order is filled, whatever mirrors the
\* engines hold: the two parties of every fill name each other.
THEOREM FillsArePaired == Spec => []Paired
<1>1. IInv => Paired BY DEF IInv, RowsGood, Paired
<1> QED BY <1>1, Invariance, PTL

\* A market's sequences are used once and stay within market_sequences.
THEOREM SequencesAreUnique == Spec => []SeqsUnique
<1>1. IInv => SeqsUnique BY DEF IInv, RowsGood, SeqRows, SeqsUnique
<1> QED BY <1>1, Invariance, PTL

\* Time priority survives crashes, re-runs and competing engines.
THEOREM OldestIsFilledFirst == Spec => []OldestFirst
<1>1. IInv => OldestFirst BY DEF IInv, RowsGood, OldRows, OldestFirst
<1> QED BY <1>1, Invariance, PTL

\* No commit, of whichever engine, rewrites an order that has ended.
THEOREM EndedOrdersStay == Spec => EndedStays
<1>1. IInv /\ [Next]_vars => [\A p \in Places : row[p].st \in Terminal => row'[p] = row[p]]_vars
  <2> SUFFICES ASSUME IInv, [Next]_vars, NEW p \in Places, row[p].st \in Terminal
               PROVE  row'[p] = row[p]
    OBVIOUS
  <2>1. CASE DBCommit BY <2>1 DEF DBCommit, IInv, TxInv
  <2>2. CASE ~DBCommit
    <3>1. CASE UNCHANGED vars \/ DBAbort BY <3>1 DEF vars, DBAbort, db
    <3>2. ASSUME NEW e \in Engines,
                 (\E c \in Cmds : Send(c, e)) \/ AcquireLock(e) \/ RestoreSeq(e) \/ RestoreOrders(e) \/ Stop(e)
          PROVE  row' = row
      BY <3>2 DEF Send, AcquireLock, RestoreSeq, RestoreOrders, Stop, db
    <3>3. ASSUME NEW e \in Engines, WalkStep(e) PROVE row' = row
      BY <3>3 DEF WalkStep, WalkReplay, WalkDenied, WalkRejected, WalkFill, WalkRest, WalkDuplicate, WalkCancel,
                  WalkCancelEnded, Walked, GroupFails, db
    <3>4. ASSUME NEW e \in Engines, GroupStep(e) PROVE row' = row
      BY <3>3, <3>4 DEF GroupStep, Begin, LockSeq, SequenceConflict, SendCommit, Respond, GroupFails, db
    <3>5. ASSUME NEW e \in Engines, Fault(e) PROVE row' = row
      BY <3>5 DEF Fault, Timeout, RestoreFails, Crash, LoseLock, GroupFails, db
    <3> QED BY <2>2, <3>1, <3>2, <3>4, <3>5 DEF Next
  <2> QED BY <2>1, <2>2
<1> QED BY <1>1, Invariance, PTL DEF Spec, EndedStays

-----------------------------------------------------------------------------
(* Answers.  A status only moves forward, from none over open to an end; an *)
(* answer prepared in a group is true of the transaction's copy from the    *)
(* moment it is prepared, and of the rows from the commit on.               *)

\* No order loses its row or leaves the end it came to.
Forward(old, new) ==
  \A p \in Places : /\ old[p].st # "none" => new[p].st # "none"
                    /\ old[p].st \in Terminal => new[p].st = old[p].st

\* What answer a to the command c promises of the rows.
Says(rw, c, a) ==
  /\ c \in Places /\ a \in {Open} \cup Terminal =>
       rw[c].st # "none" /\ (a \in Terminal => rw[c].st = a)
  /\ c \in Cancels /\ a \in Terminal => rw[Target[c]].st = a

Told == Statuses \cup {"error", "mismatch"}
AnswerInv ==
  /\ replies \in [Engines -> [Cmds -> Told]] /\ answers \in [Cmds -> SUBSET Told]
  /\ \A c \in Cmds : \A a \in answers[c] : Says(row, c, a)
  /\ \A e \in Engines : Forward(pre[e], row)
  /\ tx # NoTx => Forward(row, tx.row)
  /\ \A e \in Engines, c \in Cmds :
       /\ phase[e] = "preread" => replies[e][c] = "none"
       /\ Holds(e) => Says(tx.row, c, replies[e][c])
       /\ phase[e] = "committed" => Says(row, c, replies[e][c])

\* Going forward is reflexive and transitive, and keeps what was said true.
LEMMA ForwardSays ==
  /\ \A rw : Forward(rw, rw)
  /\ \A a, b, c : Forward(a, b) /\ Forward(b, c) => Forward(a, c)
  /\ \A old, new, c, a : Forward(old, new) /\ Says(old, c, a) => Says(new, c, a)
<1>1. \A rw : Forward(rw, rw) BY DEF Forward
<1>2. \A a, b, c : Forward(a, b) /\ Forward(b, c) => Forward(a, c) BY DEF Forward, Terminal
<1>3. \A old, new, c, a : Forward(old, new) /\ Says(old, c, a) => Says(new, c, a)
  <2> TAKE old, new, c, a
  <2>1. c \in Cancels => Target[c] \in Places BY RunnerAssumption DEF RunnerAssumption
  <2> QED BY <2>1 DEF Forward, Says, Terminal, Open
<1> QED BY <1>1, <1>2, <1>3

\* The words that promise nothing.
LEMMA SaysNothing ==
  \A rw, c : Says(rw, c, "none") /\ Says(rw, c, "error") /\ Says(rw, c, "mismatch")
BY DEF Says, Open, Terminal

\* Nothing is answered at first.
LEMMA AnswerInit == Init => AnswerInv
<1> SUFFICES ASSUME Init PROVE AnswerInv
  OBVIOUS
<1>1. "none" \in Told BY DEF Told, Statuses
<1> QED BY <1>1, ForwardSays, SaysNothing DEF Init, AnswerInv, Holds

\* Clients, failing groups and the supervisor tell nobody anything but errors,
\* leave rows and pre-reads alone, and bring no runner nearer to an answer.
LEMMA QuietAnswers ==
  ASSUME AnswerInv, UNCHANGED <<row, pre, replies>>,
         tx' = NoTx \/ (tx # NoTx /\ tx'.row = tx.row /\ \A e \in Engines : Holds(e)' => Holds(e)),
         \A e \in Engines : phase'[e] \in {"preread", "committed"} => phase[e] = phase'[e],
         answers' \in [Cmds -> SUBSET Told],
         \A c \in Cmds : answers'[c] \subseteq answers[c] \cup {"error", "mismatch"}
  PROVE  AnswerInv'
<1>1. \A c \in Cmds : \A a \in answers'[c] : Says(row', c, a)
  BY SaysNothing DEF AnswerInv
<1>2. \A e \in Engines : Forward(pre[e], row)' BY DEF AnswerInv
<1>3. tx' # NoTx => Forward(row', tx'.row) BY DEF AnswerInv
<1>4. \A e \in Engines, c \in Cmds :
        /\ phase'[e] = "preread" => replies'[e][c] = "none"
        /\ Holds(e)' => Says(tx'.row, c, replies'[e][c])
        /\ phase'[e] = "committed" => Says(row', c, replies'[e][c])
  BY DEF AnswerInv, Holds
<1> QED BY <1>1, <1>2, <1>3, <1>4 DEF AnswerInv

\* A failing group tells its commands of the failure.
LEMMA FailedAnswers ==
  ASSUME AnswerInv, NEW e \in Engines, NEW err \in {"error", "mismatch"}, NEW giveUp, GroupFails(e, err, giveUp),
         phase \in [Engines -> Phases],
         tx' = NoTx \/ (tx # NoTx /\ tx'.row = tx.row /\ \A x \in Engines : Holds(x)' => Holds(x))
  PROVE  AnswerInv'
<1>1. UNCHANGED <<row, pre, replies>> /\ phase' = [phase EXCEPT ![e] = "dirty"] BY DEF GroupFails, db
<1> DEFINE lost == IF Len(cur[e]) = 1 THEN Items(cur[e]) ELSE {}
           tell == IF giveUp THEN Items(rest[e]) ELSE {}
<1>2. answers' = [c \in Cmds |-> answers[c] \cup (IF c \in lost THEN {err} ELSE {})
                                            \cup (IF c \in tell THEN {"error"} ELSE {})]
  BY DEF GroupFails
<1> HIDE DEF lost, tell
<1>3. \A c \in Cmds : answers[c] \subseteq Told BY DEF AnswerInv
<1>4. answers' \in [Cmds -> SUBSET Told] BY <1>2, <1>3 DEF Told
<1>5. \A c \in Cmds : answers'[c] \subseteq answers[c] \cup {"error", "mismatch"} BY <1>2
<1> QED BY <1>1, <1>4, <1>5, QuietAnswers

\* A walked command goes forward from the transaction's copy, and its answer is
\* true of what it wrote.
LEMMA WalkedSays ==
  ASSUME IInv, AnswerInv, NEW e \in Engines, WalkStep(e)
  PROVE  \/ \E err \in {"error", "mismatch"} : GroupFails(e, err, FALSE) /\ tx' = [tx EXCEPT !.owner = NoEngine]
         \/ \E c \in Cmds, rw \in [Places -> Rows], a \in Told : \E n, bk :
              /\ Walk(e, c) /\ Walked(e, rw, n, bk, a) /\ Forward(tx.row, rw) /\ Says(rw, c, a)
<1> DEFINE Goal == \E c \in Cmds, rw \in [Places -> Rows], a \in Told : \E n, bk :
                     Walk(e, c) /\ Walked(e, rw, n, bk, a) /\ Forward(tx.row, rw) /\ Says(rw, c, a)
<1>0. Walking(e) => /\ tx \in TxType /\ tx # NoTx /\ tx.row \in [Places -> Rows] /\ tx.next \in Nat
                    /\ RowsGood(tx.row, tx.next) /\ mBook[e] = BookOf(tx.row)
                    /\ Forward(pre[e], tx.row) /\ pre[e] \in [Places -> Rows]
  <2>1. tx # NoTx => Forward(pre[e], tx.row) BY ForwardSays DEF AnswerInv
  <2> QED BY <2>1 DEF IInv, TypeOK, TxInv, MirrorInv, MirrorAt, Walking, Holds, TxType
<1>a. Places \subseteq Cmds /\ Cancels \subseteq Cmds /\ Places \cap Cancels = {}
        /\ \A c \in Cancels : Target[c] \in Places
  BY RunnerAssumption DEF RunnerAssumption, Cmds
<1>b. Statuses \subseteq Told /\ \A rw \in [Places -> Rows], p \in Places : rw[p].st \in Statuses
  BY DEF Told, Rows
<1>1. ASSUME NEW p \in Places, WalkReplay(e, p) PROVE Goal
  <2>1. Walk(e, p) /\ Walked(e, tx.row, tx.next, mBook[e], pre[e][p].st) BY <1>1 DEF WalkReplay
  <2>2. Walking(e) BY <2>1 DEF Walk
  <2>3. Says(tx.row, p, pre[e][p].st)
    <3>1. p \notin Cancels BY <1>a
    <3>2. pre[e][p].st # "none" /\ Forward(pre[e], tx.row) BY <1>0, <1>1, <2>2 DEF WalkReplay
    <3> QED BY <3>1, <3>2 DEF Says, Forward
  <2>4. pre[e][p].st \in Told BY <1>0, <1>b, <2>2
  <2>5. p \in Cmds /\ tx.row \in [Places -> Rows] /\ Forward(tx.row, tx.row)
    BY <1>0, <1>a, <2>2, ForwardSays
  <2> QED BY <2>1, <2>3, <2>4, <2>5
<1>2. ASSUME NEW c \in Cancels, WalkCancelEnded(e, c) PROVE Goal
  <2> DEFINE t == Target[c]
             a == IF pre[e][t].st = Open THEN tx.row[t].st ELSE pre[e][t].st
  <2>1. Walk(e, c) /\ Walked(e, tx.row, tx.next, mBook[e], a) BY <1>2 DEF WalkCancelEnded
  <2>2. Walking(e) BY <2>1 DEF Walk
  <2>3. t \in Places /\ c \in Cmds /\ c \notin Places BY <1>a
  <2>4. a \in Told BY <1>0, <1>b, <2>2, <2>3
  <2>5. Says(tx.row, c, a)
    <3>1. a \in Terminal => tx.row[t].st = a BY <1>0, <2>2, <2>3 DEF Forward, Open
    <3> QED BY <2>3, <3>1 DEF Says
  <2>6. tx.row \in [Places -> Rows] /\ Forward(tx.row, tx.row) BY <1>0, <2>2, ForwardSays
  <2> HIDE DEF a
  <2> QED BY <2>1, <2>3, <2>4, <2>5, <2>6
<1>3. ASSUME NEW p \in Places, WalkDenied(e, p) \/ WalkRejected(e, p) PROVE Goal
  <2>1. PICK s \in {0, tx.next + 1}, n \in {tx.next, tx.next + 1} :
          Walked(e, [tx.row EXCEPT ![p] = [st |-> "rejected", seq |-> s, with |-> NoPlace]], n, mBook[e], "rejected")
    BY <1>3 DEF WalkDenied, WalkRejected
  <2> DEFINE new == [tx.row EXCEPT ![p] = [st |-> "rejected", seq |-> s, with |-> NoPlace]]
  <2>2. Walk(e, p) /\ tx.row[p].st = "none" BY <1>3 DEF WalkDenied, WalkRejected, Fresh
  <2>3. Walking(e) BY <2>2 DEF Walk
  <2>4. new \in [Places -> Rows] BY <1>0, <2>2, <2>3, RejectRow
  <2>5. new[p].st = "rejected" /\ \A q \in Places \ {p} : new[q] = tx.row[q] BY <1>0, <2>3
  <2>6. p \in Cmds /\ p \notin Cancels /\ "rejected" \in Told BY <1>a DEF Told, Statuses, Terminal
  <2>7. Walked(e, new, n, mBook[e], "rejected") BY <2>1
  <2> HIDE DEF new
  <2>8. Forward(tx.row, new) BY <2>2, <2>5 DEF Forward, Terminal
  <2>9. Says(new, p, "rejected") BY <2>5, <2>6 DEF Says
  <2> QED BY <2>2, <2>4, <2>6, <2>7, <2>8, <2>9
<1>4. ASSUME NEW p \in Places, WalkRest(e, p) PROVE Goal
  <2> DEFINE new == [tx.row EXCEPT ![p] = [st |-> Open, seq |-> tx.next + 1, with |-> NoPlace]]
  <2>1. /\ Walk(e, p) /\ tx.row[p].st = "none"
        /\ Walked(e, new, tx.next + 1, mBook[e] \cup {<<p, tx.next + 1>>}, Open)
    BY <1>4 DEF WalkRest, Fresh
  <2>2. Walking(e) BY <2>1 DEF Walk
  <2>3. new \in [Places -> Rows] BY <1>0, <2>1, <2>2, RestRow
  <2>4. new[p].st = Open /\ \A q \in Places \ {p} : new[q] = tx.row[q] BY <1>0, <2>2
  <2>5. p \in Cmds /\ p \notin Cancels /\ Open \in Told BY <1>a DEF Told, Statuses
  <2> HIDE DEF new
  <2>6. Forward(tx.row, new) BY <2>1, <2>4 DEF Forward, Terminal, Open
  <2>7. Says(new, p, Open) BY <2>4, <2>5 DEF Says, Terminal, Open
  <2> QED BY <2>1, <2>3, <2>5, <2>6, <2>7
<1>5. ASSUME NEW p \in Places, NEW m \in mBook[e], WalkFill(e, p, m) PROVE Goal
  <2> DEFINE r   == [st |-> "filled", seq |-> tx.next + 1, with |-> m[1]]
             o   == [st |-> "filled", seq |-> tx.row[m[1]].seq, with |-> p]
             new == [tx.row EXCEPT ![p] = r, ![m[1]] = [st |-> "filled", seq |-> @.seq, with |-> p]]
  <2>1. /\ Walk(e, p) /\ tx.row[p].st = "none" /\ Walked(e, new, tx.next + 1, mBook[e] \ {m}, "filled")
    BY <1>5 DEF WalkFill, Fresh
  <2>2. Walking(e) BY <2>1 DEF Walk
  <2>3. m[1] \in Places /\ tx.row[m[1]].st = Open /\ m[1] # p BY <1>0, <2>1, <2>2 DEF BookOf, Open
  <2>4. r \in Rows /\ o \in Rows
    <3>1. m[1] # NoPlace /\ p # NoPlace BY <2>3, RunnerAssumption DEF RunnerAssumption
    <3>2. tx.row[m[1]].seq \in Nat /\ tx.next + 1 \in Nat BY <1>0, <2>2, <2>3 DEF Rows
    <3> QED BY <2>3, <3>1, <3>2 DEF Rows, Statuses, Terminal
  <2>5. new = [q \in Places |-> IF q = p THEN r ELSE IF q = m[1] THEN o ELSE tx.row[q]]
    BY <1>0, <2>2, <2>3
  <2> HIDE DEF new
  <2>6. new \in [Places -> Rows] BY <1>0, <2>2, <2>4, <2>5
  <2>7. new[p].st = "filled" /\ new[m[1]].st = "filled" /\ \A q \in Places \ {p, m[1]} : new[q] = tx.row[q]
    BY <2>3, <2>5
  <2>8. Forward(tx.row, new) BY <2>1, <2>3, <2>7 DEF Forward, Terminal, Open
  <2>9. p \in Cmds /\ p \notin Cancels /\ "filled" \in Told BY <1>a DEF Told, Statuses, Terminal
  <2>10. Says(new, p, "filled") BY <2>7, <2>9 DEF Says
  <2> QED BY <2>1, <2>6, <2>8, <2>9, <2>10
<1>6. ASSUME NEW c \in Cancels, WalkCancel(e, c) PROVE Goal
  <2> DEFINE t   == Target[c]
             new == [tx.row EXCEPT ![t].st = "cancelled"]
  <2>1. Walk(e, c) /\ Walked(e, new, tx.next + 1, {x \in mBook[e] : x[1] # t}, "cancelled")
    BY <1>6 DEF WalkCancel
  <2>2. Walking(e) /\ t \in Places BY <1>a, <2>1 DEF Walk
  <2>3. tx.row[t].st = Open BY <1>0, <1>6, <2>2 DEF WalkCancel, InBook, BookOf
  <2>4. new \in [Places -> Rows] BY <1>0, <2>2, <2>3, CancelRow
  <2>5. new[t].st = "cancelled" /\ \A q \in Places \ {t} : new[q] = tx.row[q] BY <1>0, <2>2 DEF Rows
  <2>6. c \in Cmds /\ c \notin Places /\ "cancelled" \in Told BY <1>a DEF Told, Statuses, Terminal
  <2>7. Forward(tx.row, new) BY <2>2, <2>3, <2>5 DEF Forward, Terminal, Open
  <2>8. Says(new, c, "cancelled") BY <2>5, <2>6 DEF Says
  <2> HIDE DEF new, t
  <2> QED BY <2>1, <2>4, <2>6, <2>7, <2>8
<1>7. ASSUME NEW p \in Places, WalkDuplicate(e, p)
      PROVE  GroupFails(e, "mismatch", FALSE) /\ tx' = [tx EXCEPT !.owner = NoEngine]
  BY <1>7 DEF WalkDuplicate
<1> QED BY <1>1, <1>2, <1>3, <1>4, <1>5, <1>6, <1>7 DEF WalkStep

\* Walking on prepares one more answer, which is true of the transaction's copy.
LEMMA WalkedAnswers ==
  ASSUME IInv, AnswerInv, NEW e \in Engines, WalkStep(e)
  PROVE  AnswerInv'
<1>1. CASE \E err \in {"error", "mismatch"} : GroupFails(e, err, FALSE) /\ tx' = [tx EXCEPT !.owner = NoEngine]
  <2>1. PICK err \in {"error", "mismatch"} : GroupFails(e, err, FALSE) /\ tx' = [tx EXCEPT !.owner = NoEngine]
    BY <1>1
  <2>2. phase[e] = "walk" BY DEF WalkStep, WalkReplay, WalkDenied, WalkRejected, WalkFill, WalkRest, WalkDuplicate,
                                 WalkCancel, WalkCancelEnded, Fresh, Walk, Walking
  <2>3. tx # NoTx /\ tx \in TxType /\ phase \in [Engines -> Phases] BY <2>2 DEF IInv, OwnerInv, Holds, TypeOK
  <2>4. tx'.row = tx.row /\ tx'.owner = NoEngine BY <2>1, <2>3 DEF TxType
  <2>5. \A x \in Engines : Holds(x)' => Holds(x) BY <2>4, RunnerAssumption DEF Holds, RunnerAssumption
  <2> QED BY <2>1, <2>3, <2>4, <2>5, FailedAnswers
<1>2. CASE \E c \in Cmds, rw \in [Places -> Rows], a \in Told : \E n, bk :
             Walk(e, c) /\ Walked(e, rw, n, bk, a) /\ Forward(tx.row, rw) /\ Says(rw, c, a)
  <2>1. PICK c \in Cmds, rw \in [Places -> Rows], a \in Told : \E n, bk :
          Walk(e, c) /\ Walked(e, rw, n, bk, a) /\ Forward(tx.row, rw) /\ Says(rw, c, a)
    BY <1>2
  <2>2. PICK n, bk : Walk(e, c) /\ Walked(e, rw, n, bk, a) BY <2>1
  <2>3. tx # NoTx /\ tx \in TxType /\ phase[e] = "walk" /\ Head(todo[e]) = c /\ tx.owner = e
    BY <2>2 DEF Walk, Walking, Holds, IInv, TypeOK
  <2>4. tx' = [tx EXCEPT !.row = rw, !.next = n] /\ replies' = [replies EXCEPT ![e][c] = a]
          /\ UNCHANGED <<row, phase, pre, answers>>
    BY <2>2, <2>3 DEF Walked, db, clients
  <2>5. tx'.row = rw /\ tx'.owner = tx.owner BY <2>3, <2>4 DEF TxType
  <2>6. replies' \in [Engines -> [Cmds -> Told]] /\ replies'[e][c] = a
          /\ \A x \in Engines, d \in Cmds : x # e \/ d # c => replies'[x][d] = replies[x][d]
    BY <2>1, <2>4 DEF AnswerInv
  <2>7. Forward(row', tx'.row) BY <2>1, <2>3, <2>4, <2>5, ForwardSays DEF AnswerInv
  <2>8. ASSUME NEW x \in Engines, NEW d \in Cmds
        PROVE  /\ phase'[x] = "preread" => replies'[x][d] = "none"
               /\ Holds(x)' => Says(tx'.row, d, replies'[x][d])
               /\ phase'[x] = "committed" => Says(row', d, replies'[x][d])
    <3>1. CASE x # e
      <4>1. ~Holds(x)' BY <2>3, <2>5, <3>1 DEF Holds
      <4> QED BY <2>4, <2>6, <3>1, <4>1 DEF AnswerInv
    <3>2. CASE x = e /\ d = c BY <2>1, <2>3, <2>4, <2>5, <2>6, <3>2
    <3>3. CASE x = e /\ d # c
      <4>1. Says(tx.row, d, replies[e][d]) BY <2>3 DEF AnswerInv, Holds
      <4>2. Says(rw, d, replies[e][d]) BY <2>1, <4>1, ForwardSays
      <4> QED BY <2>3, <2>4, <2>5, <2>6, <3>3, <4>2
    <3> QED BY <3>1, <3>2, <3>3
  <2>9. /\ answers' \in [Cmds -> SUBSET Told]
        /\ \A d \in Cmds : \A b \in answers'[d] : Says(row', d, b)
        /\ \A x \in Engines : Forward(pre'[x], row')
    BY <2>4 DEF AnswerInv
  <2> QED BY <2>6, <2>7, <2>8, <2>9 DEF AnswerInv
<1> QED BY <1>1, <1>2, WalkedSays

\* A group's life: it begins with no answers, walks on a copy of the committed
\* rows, and speaks once Postgres has said that the copy is the rows.
LEMMA GroupAnswers ==
  ASSUME IInv, AnswerInv, NEW e \in Engines, GroupStep(e)
  PROVE  AnswerInv'
<1>0. phase \in [Engines -> Phases] /\ (tx # NoTx => tx \in TxType) BY DEF IInv, TypeOK
<1>1. ASSUME NEW n \in 1..MaxGroup, Begin(e, n) PROVE AnswerInv'
  <2>1. /\ phase[e] = "idle" /\ UNCHANGED <<row, tx, answers>>
        /\ pre' = [pre EXCEPT ![e] = row] /\ replies' = [replies EXCEPT ![e] = [c \in Cmds |-> "none"]]
        /\ phase' = [phase EXCEPT ![e] = "preread"]
    BY <1>1 DEF Begin, db, clients
  <2>2. "none" \in Told BY DEF Told, Statuses
  <2>3. replies' \in [Engines -> [Cmds -> Told]] BY <2>1, <2>2 DEF AnswerInv
  <2>4. \A x \in Engines : Forward(pre'[x], row')
    <3> TAKE x \in Engines
    <3>1. pre \in [Engines -> [Places -> Rows]] BY DEF IInv, TypeOK
    <3>2. pre'[x] = IF x = e THEN row ELSE pre[x] BY <2>1, <3>1
    <3> QED BY <2>1, <3>2, ForwardSays DEF AnswerInv
  <2>5. ASSUME NEW x \in Engines, NEW c \in Cmds
        PROVE  /\ phase'[x] = "preread" => replies'[x][c] = "none"
               /\ Holds(x)' => Says(tx'.row, c, replies'[x][c])
               /\ phase'[x] = "committed" => Says(row', c, replies'[x][c])
    <3>1. CASE x # e
      <4>1. phase'[x] = phase[x] /\ replies'[x] = replies[x] BY <1>0, <2>1, <3>1 DEF AnswerInv
      <4> QED BY <2>1, <4>1 DEF AnswerInv, Holds
    <3>2. CASE x = e
      <4>1. replies'[x][c] = "none" BY <2>1, <3>2 DEF AnswerInv
      <4> QED BY <4>1, SaysNothing
    <3> QED BY <3>1, <3>2
  <2> QED BY <2>1, <2>3, <2>4, <2>5 DEF AnswerInv
<1>2. ASSUME LockSeq(e) PROVE AnswerInv'
  <2>1. /\ phase[e] = "preread" /\ tx'.row = row /\ tx'.owner = e
        /\ UNCHANGED <<row, pre, replies, answers>> /\ phase' = [phase EXCEPT ![e] = "walk"]
    BY <1>2 DEF LockSeq, db, work, clients
  <2>2. ASSUME NEW x \in Engines, NEW c \in Cmds
        PROVE  /\ phase'[x] = "preread" => replies'[x][c] = "none"
               /\ Holds(x)' => Says(tx'.row, c, replies'[x][c])
               /\ phase'[x] = "committed" => Says(row', c, replies'[x][c])
    <3>1. CASE x # e
      <4>1. phase'[x] = phase[x] /\ ~Holds(x)' BY <1>0, <2>1, <3>1 DEF Holds
      <4> QED BY <2>1, <4>1 DEF AnswerInv
    <3>2. CASE x = e
      <4>1. replies'[x][c] = "none" BY <2>1, <3>2 DEF AnswerInv
      <4> QED BY <4>1, SaysNothing
    <3> QED BY <3>1, <3>2
  <2>3. Forward(row', tx'.row) BY <2>1, ForwardSays
  <2>4. /\ replies' \in [Engines -> [Cmds -> Told]] /\ answers' \in [Cmds -> SUBSET Told]
        /\ \A d \in Cmds : \A b \in answers'[d] : Says(row', d, b)
        /\ \A x \in Engines : Forward(pre'[x], row')
    BY <2>1 DEF AnswerInv
  <2> QED BY <2>2, <2>3, <2>4 DEF AnswerInv
<1>3. ASSUME SequenceConflict(e) PROVE AnswerInv'
  <2>1. GroupFails(e, "error", FALSE) /\ tx' = tx /\ tx = NoTx BY <1>3 DEF SequenceConflict
  <2> QED BY <1>0, <2>1, FailedAnswers
<1>4. ASSUME SendCommit(e) PROVE AnswerInv'
  <2>1. /\ Holds(e) /\ tx' = [tx EXCEPT !.sent = TRUE] /\ UNCHANGED <<row, pre, replies, answers>>
        /\ phase' = [phase EXCEPT ![e] = "committing"]
    BY <1>4 DEF SendCommit, db, work, clients
  <2>2. tx # NoTx /\ tx'.row = tx.row /\ tx'.owner = tx.owner BY <1>0, <2>1 DEF Holds, TxType
  <2>3. \A x \in Engines : Holds(x)' => Holds(x) BY <2>2 DEF Holds
  <2>4. \A x \in Engines : phase'[x] \in {"preread", "committed"} => phase[x] = phase'[x] BY <1>0, <2>1
  <2>5. answers' \in [Cmds -> SUBSET Told] /\ \A c \in Cmds : answers'[c] \subseteq answers[c] \cup {"error", "mismatch"}
    BY <2>1 DEF AnswerInv
  <2> QED BY <2>1, <2>2, <2>3, <2>4, <2>5, QuietAnswers
<1>5. ASSUME Respond(e) PROVE AnswerInv'
  <2>1. /\ phase[e] = "committed" /\ UNCHANGED <<row, tx, pre, replies>>
        /\ phase' = [phase EXCEPT ![e] = "idle"]
        /\ answers' = [c \in Cmds |-> answers[c] \cup (IF c \in Items(cur[e]) THEN {replies[e][c]} ELSE {})]
    BY <1>5 DEF Respond, db, work
  <2>2. \A c \in Cmds : answers[c] \subseteq Told /\ replies[e][c] \in Told BY DEF AnswerInv
  <2>3. answers' \in [Cmds -> SUBSET Told] BY <2>1, <2>2
  <2>4. \A c \in Cmds : \A b \in answers'[c] : Says(row', c, b)
    <3> TAKE c \in Cmds
    <3> TAKE b \in answers'[c]
    <3>1. b \in answers[c] \/ b = replies[e][c] BY <2>1
    <3> QED BY <2>1, <3>1 DEF AnswerInv
  <2>5. \A x \in Engines : phase'[x] \in {"preread", "committed"} => phase[x] = phase'[x] BY <1>0, <2>1
  <2>6. \A x \in Engines, c \in Cmds :
          /\ phase'[x] = "preread" => replies'[x][c] = "none"
          /\ Holds(x)' => Says(tx'.row, c, replies'[x][c])
          /\ phase'[x] = "committed" => Says(row', c, replies'[x][c])
    BY <2>1, <2>5 DEF AnswerInv, Holds
  <2> QED BY <2>1, <2>3, <2>4, <2>6 DEF AnswerInv
<1> QED BY <1>1, <1>2, <1>3, <1>4, <1>5, WalkedAnswers DEF GroupStep

\* The commit turns the transaction's copy, about which the answers were
\* prepared, into the rows.
LEMMA CommitAnswers == ASSUME IInv, AnswerInv, DBCommit PROVE AnswerInv'
<1>1. /\ tx # NoTx /\ row' = tx.row /\ tx' = NoTx /\ UNCHANGED <<pre, replies, answers>>
      /\ phase' = [x \in Engines |-> IF x = tx.owner THEN "committed" ELSE phase[x]]
  BY DEF DBCommit, work, clients
<1>2. Forward(row, row') BY <1>1 DEF AnswerInv
<1>3. \A c \in Cmds : \A a \in answers'[c] : Says(row', c, a) BY <1>1, <1>2, ForwardSays DEF AnswerInv
<1>4. \A x \in Engines : Forward(pre'[x], row') BY <1>1, <1>2, ForwardSays DEF AnswerInv
<1>5. ASSUME NEW x \in Engines, NEW c \in Cmds
      PROVE  /\ phase'[x] = "preread" => replies'[x][c] = "none"
             /\ ~Holds(x)'
             /\ phase'[x] = "committed" => Says(row', c, replies'[x][c])
  <2>1. CASE x = tx.owner
    <3>1. Says(tx.row, c, replies[x][c]) BY <1>1, <2>1 DEF AnswerInv, Holds
    <3> QED BY <1>1, <2>1, <3>1 DEF Holds
  <2>2. CASE x # tx.owner
    <3>1. phase'[x] = phase[x] BY <1>1, <2>2
    <3>2. phase[x] = "committed" => Says(row', c, replies[x][c]) BY <1>2, ForwardSays DEF AnswerInv
    <3> QED BY <1>1, <3>1, <3>2 DEF AnswerInv, Holds
  <2> QED BY <2>1, <2>2
<1> QED BY <1>1, <1>3, <1>4, <1>5 DEF AnswerInv

\* A fault answers with an error, or with nothing.
LEMMA FaultAnswers == ASSUME IInv, AnswerInv, NEW e \in Engines, Fault(e) PROVE AnswerInv'
<1>0. phase \in [Engines -> Phases] /\ (tx # NoTx => tx \in TxType) BY DEF IInv, TypeOK
<1>1. ASSUME Disown(e)
      PROVE  tx' = NoTx \/ (tx # NoTx /\ tx'.row = tx.row /\ \A x \in Engines : Holds(x)' => Holds(x))
  <2>1. CASE tx # NoTx /\ tx.owner = e
    <3>1. tx'.row = tx.row /\ tx'.owner = NoEngine BY <1>0, <1>1, <2>1 DEF Disown, TxType
    <3> QED BY <2>1, <3>1, RunnerAssumption DEF Holds, RunnerAssumption
  <2>2. CASE ~(tx # NoTx /\ tx.owner = e) BY <1>1, <2>2 DEF Disown, Holds
  <2> QED BY <2>1, <2>2
<1>2. ASSUME NEW giveUp \in BOOLEAN, Timeout(e, giveUp) PROVE AnswerInv'
  <2>1. GroupFails(e, "error", giveUp) /\ Disown(e) BY <1>2 DEF Timeout
  <2> QED BY <1>0, <1>1, <2>1, FailedAnswers
<1>3. ASSUME NEW n \in 1..MaxGroup, RestoreFails(e, n) PROVE AnswerInv'
  <2> DEFINE told == Items(NextGroup(e, n))
  <2>1. /\ UNCHANGED <<row, tx, pre, replies>> /\ phase' = [phase EXCEPT ![e] = "dirty"]
        /\ answers' = [c \in Cmds |-> answers[c] \cup (IF c \in told THEN {"error"} ELSE {})]
    BY <1>3 DEF RestoreFails, db
  <2> HIDE DEF told
  <2>2. \A c \in Cmds : answers[c] \subseteq Told BY DEF AnswerInv
  <2>3. answers' \in [Cmds -> SUBSET Told] BY <2>1, <2>2 DEF Told
  <2>4. \A c \in Cmds : answers'[c] \subseteq answers[c] \cup {"error", "mismatch"} BY <2>1
  <2>5. \A x \in Engines : phase'[x] \in {"preread", "committed"} => phase[x] = phase'[x] BY <1>0, <2>1
  <2>6. tx' = NoTx \/ (tx # NoTx /\ tx'.row = tx.row /\ \A x \in Engines : Holds(x)' => Holds(x))
    BY <2>1 DEF Holds
  <2> QED BY <2>1, <2>3, <2>4, <2>5, <2>6, QuietAnswers
<1>4. ASSUME Crash(e) PROVE AnswerInv'
  <2>1. UNCHANGED <<row, pre, replies, answers>> /\ phase' = [phase EXCEPT ![e] = "off"] /\ Disown(e)
    BY <1>4 DEF Crash, db, clients
  <2>2. \A x \in Engines : phase'[x] \in {"preread", "committed"} => phase[x] = phase'[x] BY <1>0, <2>1
  <2>3. answers' \in [Cmds -> SUBSET Told] /\ \A c \in Cmds : answers'[c] \subseteq answers[c] \cup {"error", "mismatch"}
    BY <2>1 DEF AnswerInv
  <2> QED BY <1>1, <2>1, <2>2, <2>3, QuietAnswers
<1>5. ASSUME LoseLock(e) PROVE AnswerInv'
  <2>1. UNCHANGED <<row, tx, pre, replies, answers, phase>> BY <1>5 DEF LoseLock, db, work, clients
  <2>2. answers' \in [Cmds -> SUBSET Told] /\ \A c \in Cmds : answers'[c] \subseteq answers[c] \cup {"error", "mismatch"}
    BY <2>1 DEF AnswerInv
  <2>3. tx' = NoTx \/ (tx # NoTx /\ tx'.row = tx.row /\ \A x \in Engines : Holds(x)' => Holds(x))
    BY <2>1 DEF Holds
  <2> QED BY <2>1, <2>2, <2>3, QuietAnswers
<1> QED BY <1>2, <1>3, <1>4, <1>5 DEF Fault

\* Every step keeps every answer true.
LEMMA AnswerStep == IInv /\ AnswerInv /\ [Next]_vars => AnswerInv'
<1> SUFFICES ASSUME IInv, AnswerInv, [Next]_vars PROVE AnswerInv'
  OBVIOUS
<1>0. phase \in [Engines -> Phases] BY DEF IInv, TypeOK
<1>q. ASSUME UNCHANGED <<row, pre, replies, answers>>,
             tx' = NoTx \/ tx' = tx,
             \A x \in Engines : phase'[x] \in {"preread", "committed"} => phase[x] = phase'[x]
      PROVE  AnswerInv'
  <2>1. answers' \in [Cmds -> SUBSET Told] /\ \A c \in Cmds : answers'[c] \subseteq answers[c] \cup {"error", "mismatch"}
    BY <1>q DEF AnswerInv
  <2>2. tx' = NoTx \/ (tx # NoTx /\ tx'.row = tx.row /\ \A x \in Engines : Holds(x)' => Holds(x))
    BY <1>q DEF Holds
  <2> QED BY <1>q, <2>1, <2>2, QuietAnswers
<1>1. CASE UNCHANGED vars BY <1>1, <1>q DEF vars
<1>2. ASSUME NEW e \in Engines, (\E c \in Cmds : Send(c, e)) \/ AcquireLock(e) \/ RestoreSeq(e) \/ RestoreOrders(e)
      PROVE  AnswerInv'
  <2>1. UNCHANGED <<row, pre, replies, answers, tx>>
    BY <1>2 DEF Send, AcquireLock, RestoreSeq, RestoreOrders, db, work, clients
  <2>2. \A x \in Engines : phase'[x] \in {"preread", "committed"} => phase[x] = phase'[x]
    BY <1>0, <1>2 DEF Send, AcquireLock, RestoreSeq, RestoreOrders
  <2> QED BY <1>q, <2>1, <2>2
<1>3. ASSUME NEW e \in Engines, Stop(e) PROVE AnswerInv'
  <2> DEFINE told == Items(queue[e])
  <2>1. /\ UNCHANGED <<row, tx, pre, replies>> /\ phase' = [phase EXCEPT ![e] = "off"]
        /\ answers' = [c \in Cmds |-> answers[c] \cup (IF c \in told THEN {"error"} ELSE {})]
    BY <1>3 DEF Stop, db, work
  <2> HIDE DEF told
  <2>2. \A c \in Cmds : answers[c] \subseteq Told BY DEF AnswerInv
  <2>3. answers' \in [Cmds -> SUBSET Told] BY <2>1, <2>2 DEF Told
  <2>4. \A c \in Cmds : answers'[c] \subseteq answers[c] \cup {"error", "mismatch"} BY <2>1
  <2>5. \A x \in Engines : phase'[x] \in {"preread", "committed"} => phase[x] = phase'[x] BY <1>0, <2>1
  <2>6. tx' = NoTx \/ (tx # NoTx /\ tx'.row = tx.row /\ \A x \in Engines : Holds(x)' => Holds(x))
    BY <2>1 DEF Holds
  <2> QED BY <2>1, <2>3, <2>4, <2>5, <2>6, QuietAnswers
<1>4. CASE DBAbort
  <2>1. UNCHANGED <<row, pre, replies, answers, phase>> /\ tx' = NoTx BY <1>4 DEF DBAbort, db, work, clients
  <2> QED BY <1>q, <2>1
<1> QED BY <1>1, <1>2, <1>3, <1>4, GroupAnswers, FaultAnswers, CommitAnswers DEF Next

\* What a caller was told of its order, it will find: an answer leaves handleGroup
\* only after the COMMIT was answered, and no committed order goes back.
THEOREM AnswersAreDurable == Spec => []AnswersDurable
<1>1. AnswerInv => AnswersDurable
  <2> SUFFICES ASSUME AnswerInv PROVE AnswersDurable
    OBVIOUS
  <2>1. Places \subseteq Cmds /\ Cancels \subseteq Cmds BY DEF Cmds
  <2>2. ASSUME NEW p \in Places, NEW a \in answers[p] \cap ({Open} \cup Terminal)
        PROVE  row[p].st # "none" /\ (a \in Terminal => row[p].st = a)
    <3>1. Says(row, p, a) BY <2>1, <2>2 DEF AnswerInv
    <3> QED BY <2>2, <3>1 DEF Says
  <2>3. ASSUME NEW c \in Cancels, NEW a \in answers[c] \cap Terminal PROVE row[Target[c]].st = a
    <3>1. Says(row, c, a) BY <2>1, <2>3 DEF AnswerInv
    <3> QED BY <2>3, <3>1 DEF Says
  <2> QED BY <2>2, <2>3 DEF AnswersDurable
<1> QED BY <1>1, AnswerInit, AnswerStep, Invariance, PTL DEF Spec

=============================================================================
