----------------------------- MODULE EngineRunner -----------------------------
(***************************************************************************)
(* How the trading engine makes commands durable: the runner's in-memory   *)
(* mirror of one market (book, last sequence), the group commit of         *)
(* internal/trading/batch.go, and the Postgres rows behind it.  Commands   *)
(* arrive on a queue, a group of them runs in one transaction that locks   *)
(* the market's sequence row, and the answers leave after COMMIT.          *)
(* Connections time out with the COMMIT in flight, engines crash, lose     *)
(* their advisory lock without noticing and meet a second instance, and    *)
(* clients send a command again.                                           *)
(*                                                                         *)
(* Orders have one unit of quantity and every buy crosses every sell: what *)
(* a fill does to prices and money is Market's subject, here it is who     *)
(* filled whom and whether the database agrees.                            *)
(***************************************************************************)
EXTENDS Naturals, Sequences, FiniteSets

CONSTANTS
  Engines,     \* engine processes, of which one should be running
  Places,      \* place requests, one client_order_id each
  Cancels,     \* cancel requests
  Target,      \* Target[c]: the order a cancel is about
  Side,        \* Side[p] \in {"buy", "sell"}
  MayDeny,     \* places the policy may refuse (no sequence consumed)
  MayReject,   \* places the funds check or the book may refuse
  MaxGroup,    \* batchSize
  MaxSends,    \* bound: MaxSends[c] is the times a client sends c
  MaxFaults,   \* bound: timeouts, crashes and lost locks
  NoPlace, NoEngine, NoTx

Cmds == Places \cup Cancels

ASSUME RunnerAssumption ==
  /\ Places \cap Cancels = {}
  /\ Target \in [Cancels -> Places] /\ Side \in [Places -> {"buy", "sell"}]
  /\ MayDeny \subseteq Places /\ MayReject \subseteq Places
  /\ MaxGroup \in Nat \ {0} /\ MaxSends \in [Cmds -> Nat] /\ MaxFaults \in Nat
  /\ NoPlace \notin Places /\ NoEngine \notin Engines

VARIABLES
  row,       \* trading.orders: [st, seq, with] of each client_order_id
  dbSeq,     \* trading.market_sequences.last_seq
  tx,        \* the transaction holding the sequence row's lock, or NoTx
  advisory,  \* the engine whose connection holds the advisory lock
  phase,     \* what each engine's runner is doing
  mSeq,      \* r.seq: the last sequence it knows committed
  mNext,     \* `next`: the last sequence its group consumed
  mBook,     \* r.book with r.orders: pairs <<order, seq>>
  queue,     \* r.cmds
  cur,       \* the group being executed
  todo,      \* the part of it not walked yet
  pre,       \* the group's pre-reads
  rest,      \* commands of a failed group still to be re-run one by one
  replies,   \* the answers prepared for the group's commands
  answers,   \* every answer each command's caller was given
  sends,     \* times each command was sent
  faults     \* faults so far

db      == <<row, dbSeq>>
mirror  == <<mSeq, mNext, mBook>>
work    == <<cur, todo, pre, rest, replies>>
clients == <<answers, sends>>
vars    == <<row, dbSeq, tx, advisory, phase, mSeq, mNext, mBook, queue,
             cur, todo, pre, rest, replies, answers, sends, faults>>

Open == "open"
Terminal == {"filled", "cancelled", "rejected"}
Statuses == {"none", Open} \cup Terminal
Rows == {r \in [st : Statuses, seq : Nat, with : Places \cup {NoPlace}] :
           r.st = "filled" <=> r.with # NoPlace}
NoRow == [st |-> "none", seq |-> 0, with |-> NoPlace]
TxType == [owner : Engines \cup {NoEngine}, row : [Places -> Rows], next : Nat, sent : BOOLEAN]
ASSUME NoTxAssumption == NoTx \notin TxType
Phases == {"off", "starting", "startread", "dirty", "restoring", "idle",
           "preread", "walk", "committing", "committed"}
Ready(e) == phase[e] \notin {"off", "starting", "startread"}

\* The book that a set of rows describes.
BookOf(rw) == {<<p, rw[p].seq>> : p \in {q \in Places : rw[q].st = Open}}
InBook(bk, p) == \E x \in bk : x[1] = p

\* request.key: a group never holds the same key twice.
KeyOf(c) == IF c \in Places THEN <<"p", c>> ELSE <<"c", Target[c]>>

Items(s) == {s[i] : i \in DOMAIN s}

Init ==
  /\ row = [p \in Places |-> NoRow] /\ dbSeq = 0
  /\ tx = NoTx /\ advisory = NoEngine
  /\ phase = [e \in Engines |-> "off"]
  /\ mSeq = [e \in Engines |-> 0] /\ mNext = [e \in Engines |-> 0]
  /\ mBook = [e \in Engines |-> {}]
  /\ queue = [e \in Engines |-> << >>]
  /\ cur = [e \in Engines |-> << >>] /\ todo = [e \in Engines |-> << >>]
  /\ pre = [e \in Engines |-> row] /\ rest = [e \in Engines |-> << >>]
  /\ replies = [e \in Engines |-> [c \in Cmds |-> "none"]]
  /\ answers = [c \in Cmds |-> {}] /\ sends = [c \in Cmds |-> 0]
  /\ faults = 0

-----------------------------------------------------------------------------
(* Clients.                                                                *)

\* A command reaches an engine's queue; a cancel names an order its client
\* has seen.  The client may send again whenever it likes.
Send(c, e) ==
  /\ Ready(e) /\ sends[c] < MaxSends[c]
  /\ c \in Cancels => row[Target[c]].st # "none"
  /\ queue' = [queue EXCEPT ![e] = Append(@, c)]
  /\ sends' = [sends EXCEPT ![c] = @ + 1]
  /\ UNCHANGED <<db, tx, advisory, phase, mirror, work, answers, faults>>

-----------------------------------------------------------------------------
(* Start, restore, stop.                                                   *)

\* acquireLock: pg_try_advisory_lock on a dedicated connection.
AcquireLock(e) ==
  /\ phase[e] = "off" /\ advisory = NoEngine
  /\ advisory' = e /\ phase' = [phase EXCEPT ![e] = "starting"]
  /\ UNCHANGED <<db, tx, mirror, queue, work, clients, faults>>

\* restore, first statement: EnsureMarketSequence is an upsert, so it waits
\* for a transaction that holds the row.
RestoreSeq(e) ==
  /\ phase[e] \in {"starting", "dirty"} /\ tx = NoTx
  /\ mSeq' = [mSeq EXCEPT ![e] = dbSeq]
  /\ phase' = [phase EXCEPT ![e] = IF @ = "starting" THEN "startread" ELSE "restoring"]
  /\ UNCHANGED <<db, tx, advisory, mNext, mBook, queue, work, clients, faults>>

\* restore, second statement: the open orders, committed by now.
RestoreOrders(e) ==
  /\ phase[e] \in {"startread", "restoring"}
  /\ mBook' = [mBook EXCEPT ![e] = BookOf(row)]
  /\ phase' = [phase EXCEPT ![e] = "idle"]
  /\ UNCHANGED <<db, tx, advisory, mSeq, mNext, queue, work, clients, faults>>

\* Engine.Stop: the runner ends between groups and answers what is queued.
Stop(e) ==
  /\ phase[e] \in {"idle", "dirty"} /\ rest[e] = << >>
  /\ phase' = [phase EXCEPT ![e] = "off"]
  /\ answers' = [c \in Cmds |-> answers[c] \cup (IF c \in Items(queue[e]) THEN {"error"} ELSE {})]
  /\ queue' = [queue EXCEPT ![e] = << >>]
  /\ advisory' = IF advisory = e THEN NoEngine ELSE advisory
  /\ UNCHANGED <<db, tx, mirror, work, sends, faults>>

-----------------------------------------------------------------------------
(* One group.                                                              *)

\* The commands handleGroup takes next: one left over from a failed group, or
\* a stretch of the queue without a repeated key (drain).
NextGroup(e, n) ==
  IF rest[e] # << >> THEN <<Head(rest[e])>> ELSE SubSeq(queue[e], 1, n)

\* Those n commands leave the queue, or the leftovers.
Taken(e, n) ==
  /\ IF rest[e] # << >> THEN n = 1 ELSE n =< Len(queue[e])
  /\ \A i, j \in DOMAIN NextGroup(e, n) : i # j => KeyOf(NextGroup(e, n)[i]) # KeyOf(NextGroup(e, n)[j])
  /\ IF rest[e] # << >>
       THEN rest' = [rest EXCEPT ![e] = Tail(@)] /\ queue' = queue
       ELSE queue' = [queue EXCEPT ![e] = SubSeq(@, n + 1, Len(@))] /\ rest' = rest

\* BEGIN and the pre-reads.  They see what is committed before the lock.
Begin(e, n) ==
  /\ phase[e] = "idle" /\ Taken(e, n)
  /\ cur' = [cur EXCEPT ![e] = NextGroup(e, n)]
  /\ todo' = [todo EXCEPT ![e] = NextGroup(e, n)]
  /\ pre' = [pre EXCEPT ![e] = row]
  /\ replies' = [replies EXCEPT ![e] = [c \in Cmds |-> "none"]]
  /\ phase' = [phase EXCEPT ![e] = "preread"]
  /\ UNCHANGED <<db, tx, advisory, mirror, clients, faults>>

\* resolve: a cancel whose order the database calls open must be in the book.
Resolvable(e) ==
  \A i \in DOMAIN cur[e] :
    cur[e][i] \in Cancels /\ pre[e][Target[cur[e][i]]].st = Open => InBook(mBook[e], Target[cur[e][i]])

\* Mutants of GroupFails: the book is kept, and a group's commands are dropped.
GroupFailsClean(e, err, giveUp) ==
  /\ phase' = [phase EXCEPT ![e] = "idle"]
  /\ answers' = [c \in Cmds |-> answers[c] \cup (IF c \in Items(cur[e]) THEN {err} ELSE {})]
  /\ UNCHANGED <<db, advisory, mirror, queue, cur, todo, pre, rest, replies, sends>>
GroupFailsSilent(e, err, giveUp) ==
  /\ phase' = [phase EXCEPT ![e] = "dirty"]
  /\ UNCHANGED <<db, advisory, mirror, queue, cur, todo, pre, rest, replies, answers, sends>>

\* The whole group fails: the book is dirty, a single command is answered with
\* the error, a larger group is re-run one by one.  `giveUp`: the database did
\* not answer the ping either, so the rest is answered too.
GroupFails(e, err, giveUp) ==
  LET lost  == IF Len(cur[e]) = 1 THEN Items(cur[e]) ELSE {}
      left  == IF Len(cur[e]) = 1 THEN rest[e] ELSE cur[e]
      tell  == IF giveUp THEN Items(rest[e]) ELSE {}
  IN  /\ giveUp => Len(cur[e]) = 1
      /\ phase' = [phase EXCEPT ![e] = "dirty"]
      /\ answers' = [c \in Cmds |-> answers[c] \cup (IF c \in lost THEN {err} ELSE {})
                                               \cup (IF c \in tell THEN {"error"} ELSE {})]
      /\ rest' = [rest EXCEPT ![e] = IF giveUp THEN << >> ELSE left]
      /\ UNCHANGED <<db, advisory, mirror, queue, cur, todo, pre, replies, sends>>

\* Mutant of LockSeq: the locked sequence is not compared with r.seq.
LockSeqUnchecked(e) ==
  /\ phase[e] = "preread" /\ tx = NoTx /\ Resolvable(e)
  /\ tx' = [owner |-> e, row |-> row, next |-> mSeq[e], sent |-> FALSE]
  /\ mNext' = [mNext EXCEPT ![e] = mSeq[e]]
  /\ phase' = [phase EXCEPT ![e] = "walk"]
  /\ UNCHANGED <<db, advisory, mSeq, mBook, queue, work, clients, faults>>

\* LockMarketSequence, then the comparison with r.seq.
LockSeq(e) ==
  /\ phase[e] = "preread" /\ tx = NoTx
  /\ dbSeq = mSeq[e] /\ Resolvable(e)
  /\ tx' = [owner |-> e, row |-> row, next |-> dbSeq, sent |-> FALSE]
  /\ mNext' = [mNext EXCEPT ![e] = dbSeq]
  /\ phase' = [phase EXCEPT ![e] = "walk"]
  /\ UNCHANGED <<db, advisory, mSeq, mBook, queue, work, clients, faults>>

\* ErrSequenceConflict, ErrBookInconsistent.
SequenceConflict(e) ==
  /\ phase[e] = "preread" /\ tx = NoTx
  /\ dbSeq # mSeq[e] \/ ~Resolvable(e)
  /\ GroupFails(e, "error", FALSE)
  /\ UNCHANGED <<tx, faults>>

\* One command walked: its writes join the transaction, the mirror follows at
\* once, its answer waits for the commit.
Walked(e, rw, next, book, answer) ==
  /\ tx' = [tx EXCEPT !.row = rw, !.next = next]
  /\ mNext' = [mNext EXCEPT ![e] = next]
  /\ mBook' = [mBook EXCEPT ![e] = book]
  /\ replies' = [replies EXCEPT ![e][Head(todo[e])] = answer]
  /\ todo' = [todo EXCEPT ![e] = Tail(@)]
  /\ UNCHANGED <<db, advisory, phase, mSeq, queue, cur, pre, rest, clients, faults>>

Holds(e) == tx # NoTx /\ tx.owner = e
Walking(e) == phase[e] = "walk" /\ Holds(e) /\ todo[e] # << >>
Walk(e, c) == Walking(e) /\ Head(todo[e]) = c

\* The pre-read found the client_order_id: the order as it was read.
WalkReplay(e, p) ==
  /\ Walk(e, p) /\ pre[e][p].st # "none"
  /\ Walked(e, tx.row, tx.next, mBook[e], pre[e][p].st)

Fresh(e, p) == Walk(e, p) /\ pre[e][p].st = "none" /\ tx.row[p].st = "none"

\* The policy refuses: a row without a sequence.
WalkDenied(e, p) ==
  /\ Fresh(e, p) /\ p \in MayDeny
  /\ Walked(e, [tx.row EXCEPT ![p] = [st |-> "rejected", seq |-> 0, with |-> NoPlace]],
            tx.next, mBook[e], "rejected")

\* Too little balance, or the book refuses: the sequence is used up.
WalkRejected(e, p) ==
  /\ Fresh(e, p) /\ p \in MayReject
  /\ Walked(e, [tx.row EXCEPT ![p] = [st |-> "rejected", seq |-> tx.next + 1, with |-> NoPlace]],
            tx.next + 1, mBook[e], "rejected")

Makers(e, p) == {x \in mBook[e] : Side[x[1]] # Side[p]}

\* Mutants of WalkFill: any maker, and the maker's row does not say whom it met.
WalkFillAny(e, p, m) ==
  /\ Fresh(e, p) /\ m \in Makers(e, p)
  /\ Walked(e, [tx.row EXCEPT ![p] = [st |-> "filled", seq |-> tx.next + 1, with |-> m[1]],
                              ![m[1]] = [st |-> "filled", seq |-> @.seq, with |-> p]],
            tx.next + 1, mBook[e] \ {m}, "filled")
WalkFillAnonymous(e, p, m) ==
  /\ Fresh(e, p) /\ m \in Makers(e, p) /\ \A x \in Makers(e, p) : m[2] =< x[2]
  /\ Walked(e, [tx.row EXCEPT ![p] = [st |-> "filled", seq |-> tx.next + 1, with |-> m[1]],
                              ![m[1]] = [@ EXCEPT !.st = "filled"]],
            tx.next + 1, mBook[e] \ {m}, "filled")

\* The order fills the oldest resting order of the other side.
WalkFill(e, p, m) ==
  /\ Fresh(e, p)
  /\ m \in Makers(e, p) /\ \A x \in Makers(e, p) : m[2] =< x[2]
  /\ Walked(e, [tx.row EXCEPT ![p] = [st |-> "filled", seq |-> tx.next + 1, with |-> m[1]],
                              ![m[1]] = [st |-> "filled", seq |-> @.seq, with |-> p]],
            tx.next + 1, mBook[e] \ {m}, "filled")

\* Nothing to trade with: it rests.
WalkRest(e, p) ==
  /\ Fresh(e, p) /\ Makers(e, p) = {}
  /\ Walked(e, [tx.row EXCEPT ![p] = [st |-> Open, seq |-> tx.next + 1, with |-> NoPlace]],
            tx.next + 1, mBook[e] \cup {<<p, tx.next + 1>>}, Open)

\* Another writer took the client_order_id between the pre-read and the lock:
\* the insert violates the unique index and the group fails.
WalkDuplicate(e, p) ==
  /\ Walk(e, p) /\ pre[e][p].st = "none" /\ tx.row[p].st # "none"
  /\ GroupFails(e, "mismatch", FALSE)
  /\ tx' = [tx EXCEPT !.owner = NoEngine]
  /\ UNCHANGED faults

\* Mutant of WalkCancel: the pre-read is believed.
WalkCancelStale(e, c) ==
  /\ Walk(e, c) /\ pre[e][Target[c]].st = Open
  /\ Walked(e, [tx.row EXCEPT ![Target[c]].st = "cancelled"], tx.next + 1,
            {x \in mBook[e] : x[1] # Target[c]}, "cancelled")

\* A resting order is cancelled.
WalkCancel(e, c) ==
  /\ Walk(e, c) /\ pre[e][Target[c]].st = Open /\ InBook(mBook[e], Target[c])
  /\ Walked(e, [tx.row EXCEPT ![Target[c]].st = "cancelled"], tx.next + 1,
            {x \in mBook[e] : x[1] # Target[c]}, "cancelled")

\* The order had ended when the group began, or an earlier command of the
\* group ended it: it is answered as it stands, no sequence is used.
WalkCancelEnded(e, c) ==
  /\ Walk(e, c)
  /\ pre[e][Target[c]].st = Open => ~InBook(mBook[e], Target[c])
  /\ Walked(e, tx.row, tx.next, mBook[e],
            IF pre[e][Target[c]].st = Open THEN tx.row[Target[c]].st ELSE pre[e][Target[c]].st)

\* Mutant of SendCommit: the answers leave with the COMMIT.
SendCommitAnswers(e) ==
  /\ phase[e] = "walk" /\ Holds(e) /\ todo[e] = << >>
  /\ tx' = [tx EXCEPT !.sent = TRUE]
  /\ phase' = [phase EXCEPT ![e] = "committing"]
  /\ answers' = [c \in Cmds |-> answers[c] \cup (IF c \in Items(cur[e]) THEN {replies[e][c]} ELSE {})]
  /\ UNCHANGED <<db, advisory, mirror, queue, work, sends, faults>>

\* The outbox rows, SetMarketSequence and COMMIT leave in one batch.
SendCommit(e) ==
  /\ phase[e] = "walk" /\ Holds(e) /\ todo[e] = << >>
  /\ tx' = [tx EXCEPT !.sent = TRUE]
  /\ phase' = [phase EXCEPT ![e] = "committing"]
  /\ UNCHANGED <<db, advisory, mirror, queue, work, clients, faults>>

\* Mutant of DBCommit: the market sequence is not written.
DBCommitRowsOnly ==
  /\ tx # NoTx /\ tx.sent
  /\ row' = tx.row /\ dbSeq' = dbSeq /\ tx' = NoTx
  /\ phase' = [e \in Engines |-> IF e = tx.owner THEN "committed" ELSE phase[e]]
  /\ UNCHANGED <<advisory, mirror, queue, work, clients, faults>>

\* Postgres commits; nobody may be listening any more.
DBCommit ==
  /\ tx # NoTx /\ tx.sent
  /\ row' = tx.row /\ dbSeq' = tx.next /\ tx' = NoTx
  /\ phase' = [e \in Engines |-> IF e = tx.owner THEN "committed" ELSE phase[e]]
  /\ UNCHANGED <<advisory, mirror, queue, work, clients, faults>>

\* Postgres rolls back a transaction whose connection is gone.
DBAbort ==
  /\ tx # NoTx /\ tx.owner = NoEngine
  /\ tx' = NoTx
  /\ UNCHANGED <<db, advisory, phase, mirror, queue, work, clients, faults>>

\* COMMIT answered: r.seq moves and every command of the group is answered.
Respond(e) ==
  /\ phase[e] = "committed"
  /\ mSeq' = [mSeq EXCEPT ![e] = mNext[e]]
  /\ answers' = [c \in Cmds |-> answers[c] \cup (IF c \in Items(cur[e]) THEN {replies[e][c]} ELSE {})]
  /\ phase' = [phase EXCEPT ![e] = "idle"]
  /\ UNCHANGED <<db, tx, advisory, mNext, mBook, queue, work, sends, faults>>

-----------------------------------------------------------------------------
(* Faults.                                                                 *)

Disown(e) == tx' = IF tx # NoTx /\ tx.owner = e THEN [tx EXCEPT !.owner = NoEngine] ELSE tx

\* Any round trip of the group fails or times out, the COMMIT's included.
Timeout(e, giveUp) ==
  /\ faults < MaxFaults /\ phase[e] \in {"preread", "walk", "committing", "committed"}
  /\ GroupFails(e, "error", giveUp) /\ Disown(e)
  /\ faults' = faults + 1

\* The rebuild fails: the group that was to run next is answered.
RestoreFails(e, n) ==
  /\ faults < MaxFaults /\ phase[e] \in {"dirty", "restoring"} /\ Taken(e, n)
  /\ phase' = [phase EXCEPT ![e] = "dirty"]
  /\ answers' = [c \in Cmds |-> answers[c] \cup (IF c \in Items(NextGroup(e, n)) THEN {"error"} ELSE {})]
  /\ faults' = faults + 1
  /\ UNCHANGED <<db, tx, advisory, mirror, cur, todo, pre, replies, sends>>

\* The process dies: memory and queue are gone, its connections drop.
Crash(e) ==
  /\ faults < MaxFaults /\ phase[e] # "off"
  /\ phase' = [phase EXCEPT ![e] = "off"]
  /\ queue' = [queue EXCEPT ![e] = << >>] /\ rest' = [rest EXCEPT ![e] = << >>]
  /\ Disown(e) /\ advisory' = IF advisory = e THEN NoEngine ELSE advisory
  /\ faults' = faults + 1
  /\ UNCHANGED <<db, mirror, cur, todo, pre, replies, clients>>

\* The dedicated connection drops and Postgres frees the advisory lock; the
\* engine does not look at it again.
LoseLock(e) ==
  /\ faults < MaxFaults /\ advisory = e
  /\ advisory' = NoEngine /\ faults' = faults + 1
  /\ UNCHANGED <<db, tx, phase, mirror, queue, work, clients>>

-----------------------------------------------------------------------------
WalkStep(e) ==
  \/ \E p \in Places :
       \/ WalkReplay(e, p) \/ WalkDenied(e, p) \/ WalkRejected(e, p)
       \/ \E m \in mBook[e] : WalkFill(e, p, m)
       \/ WalkRest(e, p) \/ WalkDuplicate(e, p)
  \/ \E c \in Cancels : WalkCancel(e, c) \/ WalkCancelEnded(e, c)

GroupStep(e) ==
  \/ \E n \in 1..MaxGroup : Begin(e, n)
  \/ LockSeq(e) \/ SequenceConflict(e) \/ WalkStep(e)
  \/ SendCommit(e) \/ Respond(e)

Fault(e) == (\E giveUp \in BOOLEAN : Timeout(e, giveUp)) \/ (\E n \in 1..MaxGroup : RestoreFails(e, n)) \/ Crash(e) \/ LoseLock(e)

Next ==
  \/ \E e \in Engines :
       \/ \E c \in Cmds : Send(c, e)
       \/ AcquireLock(e) \/ RestoreSeq(e) \/ RestoreOrders(e) \/ Stop(e)
       \/ GroupStep(e) \/ Fault(e)
  \/ DBCommit \/ DBAbort

Spec == Init /\ [][Next]_vars

\* An engine that has work does it, and Postgres finishes what it was sent or
\* notices that a connection is gone.  Faults and clients are not owed.
Fairness ==
  /\ \A e \in Engines : WF_vars(AcquireLock(e)) /\ WF_vars(RestoreSeq(e)) /\ WF_vars(RestoreOrders(e))
                        /\ WF_vars(GroupStep(e))
  /\ WF_vars(DBCommit \/ DBAbort)
FairSpec == Spec /\ Fairness

-----------------------------------------------------------------------------
(* Properties.                                                             *)

\* Types of the rows, the mirror, the transaction and the answers.
TypeOK ==
  /\ row \in [Places -> Rows] /\ dbSeq \in Nat
  /\ tx = NoTx \/ tx \in TxType
  /\ advisory \in Engines \cup {NoEngine}
  /\ phase \in [Engines -> Phases]
  /\ mSeq \in [Engines -> Nat] /\ mNext \in [Engines -> Nat]
  /\ mBook \in [Engines -> SUBSET (Places \X Nat)]
  /\ queue \in [Engines -> Seq(Cmds)] /\ cur \in [Engines -> Seq(Cmds)]
  /\ todo \in [Engines -> Seq(Cmds)] /\ rest \in [Engines -> Seq(Cmds)]
  /\ pre \in [Engines -> [Places -> Rows]]
  /\ faults \in Nat

\* The comparison of r.seq with the locked sequence row is enough: a runner
\* between groups whose sequence is the database's has the database's book.
MirrorFaithful ==
  \A e \in Engines : phase[e] = "idle" /\ mSeq[e] = dbSeq => mBook[e] = BookOf(row)

\* Every fill has exactly two parties, of opposite sides, that name each
\* other: no stale mirror filled an order twice or filled a cancelled one.
PairedRows(rw) ==
  \A p \in Places :
    rw[p].st = "filled" =>
      LET q == rw[p].with IN
      q \in Places /\ rw[q].st = "filled" /\ rw[q].with = p /\ Side[q] # Side[p]
Paired == PairedRows(row)

\* An answer describes committed state: the caller of a place or a cancel that
\* was told an end (filled, cancelled, rejected) will find exactly that order,
\* through crashes, re-runs and a second engine.
AnswersDurable ==
  /\ \A p \in Places : \A a \in answers[p] \cap ({Open} \cup Terminal) :
       row[p].st # "none" /\ (a \in Terminal => row[p].st = a)
  /\ \A c \in Cancels : \A a \in answers[c] \cap Terminal : row[Target[c]].st = a

\* Time priority over the rows: while an order is open, no younger order of
\* its side was filled by a taker that arrived after both.
OldestFirst ==
  \A o, m \in Places :
    row[o].st = Open /\ row[m].st = "filled" /\ Side[o] = Side[m] /\ row[o].seq < row[m].seq
      => row[row[m].with].seq < row[m].seq

\* No two commands of the market used the same sequence, and none is ahead of
\* the committed counter.
SeqsUnique ==
  \A p, q \in Places : /\ row[p].seq =< dbSeq
                       /\ p # q /\ row[p].seq = row[q].seq => row[p].seq = 0

\* Orders never leave a terminal status and never lose their row, whatever
\* engine commits.
EndedStays ==
  [][\A p \in Places : row[p].st \in Terminal => row'[p] = row[p]]_vars

\* Every request is answered (handleGroup) unless its engine stops first.
EveryRequestAnswered ==
  \A e \in Engines, c \in Cmds :
    c \in Items(queue[e]) ~> answers[c] # {} \/ phase[e] = "off"
===============================================================================
