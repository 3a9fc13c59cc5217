----------------------------- MODULE Webhook_proofs -----------------------------
(***************************************************************************)
(* Webhook implements AtLeastOnce for any number of endpoints, workers,    *)
(* rows, faults and replays: Spec => Kept.  The argument: a row is marked  *)
(* only once the server stores its message, a message is acknowledged only *)
(* once each endpoint has a queue row, an acknowledged POST or a recorded  *)
(* reason (Handled), and a queue row is only removed with one of these.    *)
(* A run of the queue ends for a reason of its own (RunsEndForCause): each *)
(* failure it counts was a POST nobody else counts (Counted).              *)
(***************************************************************************)
EXTENDS Webhook, TLAPS, FiniteSetTheorems

Stored == {log[p] : p \in 1..Len(log)}

\* The bus: whatever is marked, or about to be, is in the log.
BusInv ==
  /\ state \in [Rows -> {"none", "open", "committed", "void"}]
  /\ log \in Seq(Rows) /\ Len(log) =< MaxLog
  /\ batch \in Seq(Rows) /\ \A k \in 1..Len(batch) : batch[k] \in Committed
  /\ published \subseteq Stored /\ sent \subseteq Stored /\ recent \subseteq Stored
  /\ Stored \subseteq Committed

\* The server's books of its messages, and the handler's hand.
ConsumerInv ==
  /\ tries \in [Positions -> Nat]
  /\ \A p \in Positions : p > Len(log) => tries[p] = 0
  /\ done \subseteq 1..Len(log) /\ hand \in 0..Len(log) /\ hand \notin done
  /\ want \subseteq Endpoints

ActiveInv == active \subseteq Endpoints

\* Nothing is queued, recorded or told of that did not happen.
QueueInv ==
  /\ queue \in [Duties -> 0..MaxRuns]
  /\ \A d \in Duties : queue[d] # 0 => d \in Happened
  /\ ended \subseteq Happened /\ recorded \subseteq Happened
  /\ dropped \subseteq Happened /\ told \subseteq Happened
  /\ replay # None => replay \in Happened

\* A worker that settles as delivered has been answered.
WorkerInv ==
  /\ claimed = [w \in Workers |-> claimed[w]] /\ result = [w \in Workers |-> result[w]]
  /\ \A w \in Workers :
       /\ claimed[w] # None => claimed[w][1] \in Happened
       /\ result[w] # "none" => claimed[w] # None
       /\ result[w] = "ok" => claimed[w][1] \in told

\* Each duty of an acknowledged message, and of a message in hand each one that
\* Enqueue has written, is queued, told or excused.
Handled ==
  \A p \in 1..Len(log), e \in Endpoints :
    p \in done \/ (p = hand /\ e \notin want) =>
      queue[<<e, log[p]>>] # 0 \/ <<e, log[p]>> \in told \cup dropped \cup ended

IInv == BusInv /\ ActiveInv /\ ConsumerInv /\ QueueInv /\ WorkerInv /\ Handled

-----------------------------------------------------------------------------
(* The invariant.                                                          *)

\* Nothing is published, queued or sent at first.
LEMMA InitInv == Init => IInv
<1> SUFFICES ASSUME Init PROVE IInv
  OBVIOUS
<1> USE EventBusAssumption, WebhookAssumption DEF Init, BusInit
<1>1. BusInv BY DEF BusInv, Stored, Rows
<1>2. ConsumerInv BY DEF ConsumerInv, Positions
<1>3. QueueInv BY DEF QueueInv, None
<1>4. WorkerInv BY DEF WorkerInv, None
<1>5. Handled BY DEF Handled
<1>6. ActiveInv BY DEF ActiveInv
<1> QED BY <1>1, <1>2, <1>3, <1>4, <1>5, <1>6 DEF IInv

\* What every step of the bus keeps: rows that are committed stay so, and the
\* log grows by at most one committed row.
LEMMA BusStep ==
  ASSUME BusInv, BusNext
  PROVE  /\ BusInv' /\ Committed \subseteq Committed'
         /\ \/ log' = log
            \/ \E i \in Committed : log' = Append(log, i) /\ Len(log) < MaxLog
<1> USE EventBusAssumption
<1> DEFINE Kept1 == Committed \subseteq Committed'
           Grows == \/ log' = log
                    \/ \E i \in Committed : log' = Append(log, i) /\ Len(log) < MaxLog
<1> SUFFICES BusInv' /\ Kept1 /\ Grows
  OBVIOUS
<1>1. ASSUME NEW i \in Rows, AppendEvent(i) PROVE BusInv' /\ Kept1 /\ Grows
  BY <1>1 DEF BusInv, AppendEvent, NextId, Insert, Stored, Committed, relay, server
<1>2. ASSUME NEW i \in Rows, Commit(i) PROVE BusInv' /\ Kept1 /\ Grows
  BY <1>2, SMTT(60) DEF BusInv, Commit, Stored, Committed, relay, server
<1>3. ASSUME NEW i \in Rows, Rollback(i) PROVE BusInv' /\ Kept1 /\ Grows
  BY <1>3 DEF BusInv, Rollback, Stored, Committed, relay, server
<1>4. CASE ListBatch
  <2>1. PICK n \in 1..BatchSize : \E b \in [1..n -> Unpublished] : batch' = b
    BY <1>4 DEF ListBatch
  <2>2. PICK b \in [1..n -> Unpublished] : batch' = b
    BY <2>1
  <2>3. batch' \in Seq(Rows) /\ \A k \in 1..Len(batch') : batch'[k] \in Committed
    BY <2>1, <2>2 DEF Unpublished, Committed
  <2> QED BY <1>4, <2>3 DEF ListBatch, BusInv, Stored, Committed, outbox, server
<1>5. ASSUME NEW i \in Committed, Store(i)
      PROVE  /\ log' \in Seq(Rows) /\ Len(log') =< MaxLog
             /\ Stored \subseteq Stored' /\ i \in Stored' /\ recent' \subseteq Stored'
             /\ Stored' \subseteq Committed /\ Grows
  <2>1. CASE i \in recent BY <1>5, <2>1 DEF Store, server, BusInv, Stored
  <2>2. CASE i \notin recent
    <3>1. log' = Append(log, i) /\ Len(log) < MaxLog /\ recent' = recent \cup {i}
      BY <1>5, <2>2 DEF Store
    <3>2. i \in Rows BY DEF Committed
    <3>3. /\ log' \in Seq(Rows) /\ Len(log') = Len(log) + 1 /\ log'[Len(log) + 1] = i
          /\ \A p \in 1..Len(log) : log'[p] = log[p]
      BY <3>1, <3>2 DEF BusInv
    <3>4. Stored' = Stored \cup {i}
      BY <3>3, SMTT(60) DEF Stored, BusInv
    <3> QED BY <3>1, <3>3, <3>4 DEF BusInv
  <2> QED BY <2>1, <2>2
<1>6. CASE Publish \/ PublishFails
  <2>1. batch # << >> /\ batch[1] \in Committed /\ Head(batch) = batch[1]
    BY <1>6 DEF Publish, PublishFails, BusInv
  <2>2. /\ Tail(batch) \in Seq(Rows)
        /\ \A k \in 1..Len(Tail(batch)) : Tail(batch)[k] \in Committed
    BY <2>1 DEF BusInv
  <2>3. Committed' = Committed /\ state' = state /\ published' = published
    BY <1>6 DEF Publish, PublishFails, outbox, Committed
  <2>4. CASE Store(Head(batch))
    <3>1. /\ log' \in Seq(Rows) /\ Len(log') =< MaxLog
          /\ Stored \subseteq Stored' /\ Head(batch) \in Stored' /\ recent' \subseteq Stored'
          /\ Stored' \subseteq Committed /\ Grows
      BY <1>5, <2>1, <2>4
    <3>2. sent' \subseteq Stored' BY <1>6, <3>1 DEF Publish, PublishFails, BusInv
    <3>3. batch' \in Seq(Rows) /\ \A k \in 1..Len(batch') : batch'[k] \in Committed
      <4>1. CASE Publish BY <2>2, <2>3, <4>1 DEF Publish
      <4>2. CASE PublishFails
        <5>1. batch' = << >> BY <4>2 DEF PublishFails
        <5> QED BY <5>1
      <4> QED BY <1>6, <4>1, <4>2
    <3> QED BY <2>3, <3>1, <3>2, <3>3 DEF BusInv
  <2>5. CASE UNCHANGED server /\ PublishFails
    BY <2>3, <2>5 DEF PublishFails, server, BusInv, Stored
  <2> QED BY <1>6, <2>4, <2>5 DEF Publish, PublishFails
<1>7. CASE MarkPublished \/ RelayCrash \/ WindowPasses
  <2>1. state' = state /\ log' = log /\ Committed' = Committed /\ Stored' = Stored
    BY <1>7 DEF MarkPublished, RelayCrash, WindowPasses, outbox, server, Committed, Stored
  <2>2. published' \subseteq Stored /\ sent' \subseteq Stored /\ recent' \subseteq Stored
    BY <1>7 DEF MarkPublished, RelayCrash, WindowPasses, BusInv, outbox, server, relay
  <2>3. batch' = batch \/ batch' = << >>
    BY <1>7 DEF MarkPublished, RelayCrash, WindowPasses, relay
  <2>4. batch' \in Seq(Rows) /\ \A k \in 1..Len(batch') : batch'[k] \in Committed
    <3>1. CASE batch' = batch BY <3>1 DEF BusInv
    <3>2. CASE batch' = << >> BY <3>2
    <3> QED BY <2>3, <3>1, <3>2
  <2> QED BY <2>1, <2>2, <2>4 DEF BusInv
<1> HIDE DEF Kept1, Grows
<1> QED BY <1>1, <1>2, <1>3, <1>4, <1>6, <1>7 DEF BusNext, RelayStep

\* Then the rest of the invariant follows the longer log and the later rows.
LEMMA BusKeepsRest ==
  ASSUME IInv, Bus
  PROVE  IInv'
<1> USE EventBusAssumption, WebhookAssumption
<1>1. /\ BusInv' /\ Committed \subseteq Committed'
      /\ \/ log' = log
         \/ \E i \in Committed : log' = Append(log, i) /\ Len(log) < MaxLog
  BY BusStep DEF IInv, Bus
<1>2. UNCHANGED <<active, tries, done, hand, want, queue, attempts, ended, recorded, claimed, result, replay, told, dropped>>
  BY DEF Bus, consumer, rows, workers, history
<1>3. Happened \subseteq Happened'
  BY <1>1 DEF Happened, Committed, Duties
<1>4. /\ Len(log) \in Nat /\ Len(log') \in Nat /\ Len(log) =< Len(log')
      /\ \A p \in 1..Len(log) : log'[p] = log[p]
  <2>1. CASE log' = log BY <2>1 DEF IInv, BusInv
  <2>2. ASSUME NEW i \in Committed, log' = Append(log, i)
        PROVE  /\ Len(log) \in Nat /\ Len(log') \in Nat /\ Len(log) =< Len(log')
               /\ \A p \in 1..Len(log) : log'[p] = log[p]
    <3>1. i \in Rows /\ log \in Seq(Rows) BY DEF Committed, IInv, BusInv
    <3> QED BY <2>2, <3>1
  <2> QED BY <1>1, <2>1, <2>2
<1>5. ConsumerInv' BY <1>2, <1>4 DEF IInv, ConsumerInv, Positions
<1>6. QueueInv' BY <1>2, <1>3 DEF IInv, QueueInv, Duties
<1>7. WorkerInv' BY <1>2, <1>3 DEF IInv, WorkerInv
<1>8. Handled'
  <2> SUFFICES ASSUME NEW p \in 1..Len(log'), NEW e \in Endpoints, p \in done \/ (p = hand /\ e \notin want)
               PROVE  queue[<<e, log'[p]>>] # 0 \/ <<e, log'[p]>> \in told \cup dropped \cup ended
    BY <1>2 DEF Handled
  <2>1. p \in 1..Len(log) BY <1>4 DEF IInv, ConsumerInv
  <2> QED BY <1>4, <2>1 DEF IInv, Handled
<1>9. ActiveInv' BY <1>2 DEF IInv, ActiveInv
<1> QED BY <1>1, <1>5, <1>6, <1>7, <1>8, <1>9 DEF IInv

\* The other actions leave the bus alone.
LEMMA OthersKeepBus ==
  ASSUME IInv, UNCHANGED <<outbox, relay, server>>
  PROVE  /\ BusInv' /\ log' = log /\ state' = state /\ published' = published
         /\ Happened' = Happened
BY DEF IInv, BusInv, outbox, relay, server, Stored, Committed, Happened, Duties

\* What is in the log is what was published.
LEMMA LogHappened ==
  ASSUME BusInv, NEW p \in 1..Len(log), NEW e \in Endpoints
  PROVE  /\ <<e, log[p]>> \in Happened /\ <<e, log[p]>> \in Duties
         /\ <<e, log[p]>>[1] = e /\ <<e, log[p]>>[2] = log[p]
BY DEF BusInv, Stored, Committed, Happened, Duties

\* A duty has a queue row after Start, and no other row is touched.
LEMMA StartStep ==
  ASSUME QueueInv, NEW d \in Duties, Start(d)
  PROVE  /\ queue' \in [Duties -> 0..MaxRuns] /\ queue'[d] # 0
         /\ \A x \in Duties : x # d => queue'[x] = queue[x]
BY WebhookAssumption DEF QueueInv, Start

\* Receive excuses the endpoints it does not want; the others wait for Enqueue.
LEMMA ReceiveInv ==
  ASSUME IInv, NEW p \in Positions, Receive(p)
  PROVE  IInv'
<1>1. BusInv' /\ log' = log /\ Happened' = Happened
  BY OthersKeepBus DEF Receive, busVars
<1>2. hand = 0 /\ p \in 1..Len(log) /\ p \notin done
  BY DEF Receive, Undelivered
<1>3. /\ tries' = [tries EXCEPT ![p] = @ + 1] /\ done' = done /\ hand' = p /\ want' = active
      /\ UNCHANGED <<active, queue, ended, recorded, claimed, result, replay, told>>
      /\ dropped' = dropped \cup {<<e, log[p]>> : e \in Endpoints \ active}
  BY DEF Receive, rows, workers
<1>4. ConsumerInv'
  BY <1>1, <1>2, <1>3 DEF IInv, ConsumerInv, ActiveInv
<1>5. QueueInv'
  <2>1. dropped' \subseteq Happened BY <1>2, <1>3, LogHappened DEF IInv, QueueInv
  <2> QED BY <1>1, <1>3, <2>1 DEF IInv, QueueInv
<1>6. WorkerInv' BY <1>1, <1>3 DEF IInv, WorkerInv
<1>7. Handled'
  <2> SUFFICES ASSUME NEW q \in 1..Len(log), NEW e \in Endpoints, q \in done \/ (q = p /\ e \notin active)
               PROVE  queue[<<e, log[q]>>] # 0 \/ <<e, log[q]>> \in told \cup dropped' \cup ended
    BY <1>1, <1>3 DEF Handled
  <2>1. CASE q \in done BY <1>3, <2>1 DEF IInv, Handled
  <2>2. CASE q = p /\ e \notin active BY <1>3, <2>2
  <2> QED BY <2>1, <2>2
<1>8. ActiveInv' BY <1>3 DEF IInv, ActiveInv
<1> QED BY <1>1, <1>4, <1>5, <1>6, <1>7, <1>8 DEF IInv

\* A delivery enqueued for one endpoint keeps the invariant.
LEMMA EnqueueOneInv ==
  ASSUME IInv, NEW e \in Endpoints, EnqueueOne(e)
  PROVE  IInv'
<1> DEFINE d == <<e, log[hand]>>
<1>1. BusInv' /\ log' = log /\ Happened' = Happened
  BY OthersKeepBus DEF EnqueueOne, busVars
<1>2. /\ hand \in 1..Len(log) /\ Start(d) /\ want' = want \ {e}
      /\ UNCHANGED <<active, tries, done, hand, ended, recorded, claimed, result, replay, told, dropped>>
  BY DEF EnqueueOne, IInv, ConsumerInv, BusInv, workers
<1>3. d \in Happened /\ d \in Duties
  BY <1>2, LogHappened DEF IInv
<1> HIDE DEF d
<1>4. /\ queue' \in [Duties -> 0..MaxRuns] /\ queue'[d] # 0
      /\ \A x \in Duties : x # d => queue'[x] = queue[x]
  BY <1>2, <1>3, StartStep DEF IInv
<1>5. ConsumerInv' BY <1>1, <1>2 DEF IInv, ConsumerInv
<1>6. QueueInv' BY <1>1, <1>2, <1>3, <1>4 DEF IInv, QueueInv
<1>7. WorkerInv' BY <1>1, <1>2 DEF IInv, WorkerInv
<1>8. Handled'
  <2> SUFFICES ASSUME NEW q \in 1..Len(log), NEW x \in Endpoints,
                      q \in done \/ (q = hand /\ x \notin want \ {e}),
                      queue'[<<x, log[q]>>] = 0
               PROVE  <<x, log[q]>> \in told \cup dropped \cup ended
    BY <1>1, <1>2 DEF Handled
  <2>1. <<x, log[q]>> \in Duties BY LogHappened DEF IInv
  <2>2. <<x, log[q]>> # d /\ queue[<<x, log[q]>>] = 0 BY <1>4, <2>1
  <2>3. q \in done \/ (q = hand /\ x \notin want) BY <2>2 DEF d
  <2> QED BY <2>2, <2>3 DEF IInv, Handled
<1>9. ActiveInv' BY <1>2 DEF IInv, ActiveInv
<1> QED BY <1>1, <1>5, <1>6, <1>7, <1>8, <1>9 DEF IInv

\* Acknowledged or given back, the message leaves the handler.
LEMMA HandInv ==
  ASSUME IInv, Ack \/ HandlerFails
  PROVE  IInv'
<1>1. BusInv' /\ log' = log /\ Happened' = Happened
  BY OthersKeepBus DEF Ack, HandlerFails, busVars
<1>2. /\ hand \in 1..Len(log) /\ hand' = 0 /\ want' = {}
      /\ done' = done \/ (done' = done \cup {hand} /\ want = {})
      /\ UNCHANGED <<active, tries, queue, ended, recorded, claimed, result, replay, told, dropped>>
  BY DEF Ack, HandlerFails, IInv, ConsumerInv, BusInv, rows, workers, history
<1>3. ConsumerInv'
  <2>1. Len(log) \in Nat BY DEF IInv, BusInv
  <2>2. done' \subseteq 1..Len(log) BY <1>2 DEF IInv, ConsumerInv
  <2>3. hand' \in 0..Len(log) /\ hand' \notin done' BY <1>2, <2>1, <2>2
  <2>4. tries' = tries /\ want' \subseteq Endpoints BY <1>2
  <2> QED BY <1>1, <2>2, <2>3, <2>4 DEF IInv, ConsumerInv
<1>4. QueueInv' BY <1>1, <1>2 DEF IInv, QueueInv
<1>5. WorkerInv' BY <1>1, <1>2 DEF IInv, WorkerInv
<1>6. Handled' BY <1>1, <1>2 DEF IInv, Handled
<1>7. ActiveInv' BY <1>2 DEF IInv, ActiveInv
<1> QED BY <1>1, <1>3, <1>4, <1>5, <1>6, <1>7 DEF IInv

\* The steps of the workers keep the bus, the consumer and the endpoints.
LEMMA DispatchKeeps ==
  ASSUME IInv, UNCHANGED <<outbox, relay, server, active, consumer>>
  PROVE  /\ BusInv' /\ ActiveInv' /\ ConsumerInv' /\ Happened' = Happened
         /\ log' = log /\ done' = done /\ hand' = hand /\ want' = want
<1>1. BusInv' /\ log' = log /\ Happened' = Happened BY OthersKeepBus
<1>2. ActiveInv' /\ ConsumerInv' BY <1>1 DEF IInv, ActiveInv, ConsumerInv, consumer
<1> QED BY <1>1, <1>2 DEF consumer

\* A claim keeps the invariant.
LEMMA ClaimInv ==
  ASSUME IInv, NEW w \in Workers, NEW d \in Duties, Claim(w, d)
  PROVE  IInv'
<1>1. /\ BusInv' /\ ActiveInv' /\ ConsumerInv' /\ Happened' = Happened
      /\ log' = log /\ done' = done /\ hand' = hand /\ want' = want
  BY DispatchKeeps DEF Claim, busVars
<1>2. /\ claimed[w] = None /\ d \in Happened
      /\ claimed' = [claimed EXCEPT ![w] = <<d, queue[d], attempts[d]>>]
      /\ UNCHANGED <<queue, ended, recorded, result, replay, told, dropped>>
  BY DEF Claim, rows, history, IInv, QueueInv
<1>3. QueueInv' BY <1>1, <1>2 DEF IInv, QueueInv
<1>4. WorkerInv'
  <2>1. result[w] # "ok" /\ result[w] = "none" BY <1>2 DEF IInv, WorkerInv
  <2>2. claimed' = [x \in Workers |-> IF x = w THEN <<d, queue[d], attempts[d]>> ELSE claimed[x]]
    BY <1>2 DEF IInv, WorkerInv
  <2>3. <<d, queue[d], attempts[d]>>[1] = d OBVIOUS
  <2> QED BY <1>1, <1>2, <2>1, <2>2, <2>3 DEF IInv, WorkerInv
<1>5. Handled' BY <1>1, <1>2 DEF IInv, Handled
<1> QED BY <1>1, <1>3, <1>4, <1>5 DEF IInv

\* A request sent, whatever its answer, keeps the invariant.
LEMMA PostInv ==
  ASSUME IInv, NEW w \in Workers, Post(w)
  PROVE  IInv'
<1>1. /\ BusInv' /\ ActiveInv' /\ ConsumerInv' /\ Happened' = Happened
      /\ log' = log /\ done' = done /\ hand' = hand /\ want' = want
  BY DispatchKeeps DEF Post, busVars
<1>2. /\ claimed[w] # None /\ claimed[w][1] \in Happened
      /\ UNCHANGED <<queue, ended, recorded, claimed, replay, dropped>>
  BY DEF Post, rows, IInv, WorkerInv
<1>3. PICK x \in {"ok", "fail"} :
        /\ result' = [result EXCEPT ![w] = x]
        /\ told \subseteq told' /\ told' \subseteq told \cup {claimed[w][1]}
        /\ x = "ok" => claimed[w][1] \in told'
  BY DEF Post
<1>4. QueueInv' BY <1>1, <1>2, <1>3 DEF IInv, QueueInv
<1>5. WorkerInv'
  <2>1. result' = [y \in Workers |-> IF y = w THEN x ELSE result[y]]
    BY <1>3 DEF IInv, WorkerInv
  <2> QED BY <1>1, <1>2, <1>3, <2>1 DEF IInv, WorkerInv
<1>6. Handled' BY <1>1, <1>2, <1>3 DEF IInv, Handled
<1> QED BY <1>1, <1>4, <1>5, <1>6 DEF IInv

\* What a settled attempt does to the queue: the row stays, or leaves it told or
\* recorded dead.
LEMMA SettleQueue ==
  ASSUME IInv, NEW w \in Workers, Settle(w)
  PROVE  LET d == claimed[w][1] IN
         /\ d \in Happened /\ d \in Duties
         /\ queue' \in [Duties -> 0..MaxRuns] /\ \A x \in Duties : queue'[x] \in {0, queue[x]}
         /\ \A x \in Duties : queue'[x] # queue[x] => x = d /\ d \in told \cup ended'
         /\ ended \subseteq ended' /\ ended' \subseteq ended \cup {d}
         /\ recorded' = recorded \cup {d}
         /\ claimed' = [claimed EXCEPT ![w] = None] /\ result' = [result EXCEPT ![w] = "none"]
         /\ UNCHANGED <<replay, told, dropped>>
<1> DEFINE d == claimed[w][1]
<1> USE WebhookAssumption
<1>1. d \in Happened /\ d \in Duties /\ (result[w] = "ok" => d \in told)
  BY DEF Settle, IInv, WorkerInv, Happened
<1>2. queue \in [Duties -> 0..MaxRuns] BY DEF IInv, QueueInv
<1>3. CASE result[w] = "ok" \/ OutOfSteps(claimed[w][3])
  BY <1>1, <1>2, <1>3 DEF Settle, Leave, history
<1>4. CASE ~(result[w] = "ok" \/ OutOfSteps(claimed[w][3]))
  BY <1>1, <1>2, <1>4 DEF Settle, Reschedule, history
<1> QED BY <1>3, <1>4

\* The recorded outcome of a request keeps the invariant.
LEMMA SettleInv ==
  ASSUME IInv, NEW w \in Workers, Settle(w)
  PROVE  IInv'
<1> DEFINE d == claimed[w][1]
<1>1. /\ BusInv' /\ ActiveInv' /\ ConsumerInv' /\ Happened' = Happened
      /\ log' = log /\ done' = done /\ hand' = hand /\ want' = want
  BY DispatchKeeps DEF Settle, busVars
<1>2. /\ d \in Happened /\ d \in Duties
      /\ queue' \in [Duties -> 0..MaxRuns] /\ \A x \in Duties : queue'[x] \in {0, queue[x]}
      /\ \A x \in Duties : queue'[x] # queue[x] => x = d /\ d \in told \cup ended'
      /\ ended \subseteq ended' /\ ended' \subseteq ended \cup {d}
      /\ recorded' = recorded \cup {d}
      /\ claimed' = [claimed EXCEPT ![w] = None] /\ result' = [result EXCEPT ![w] = "none"]
      /\ UNCHANGED <<replay, told, dropped>>
  BY SettleQueue
<1> HIDE DEF d
<1>3. QueueInv' BY <1>1, <1>2 DEF IInv, QueueInv
<1>4. WorkerInv'
  <2>1. /\ claimed' = [x \in Workers |-> IF x = w THEN None ELSE claimed[x]]
        /\ result' = [x \in Workers |-> IF x = w THEN "none" ELSE result[x]]
    BY <1>2 DEF IInv, WorkerInv
  <2> QED BY <1>1, <1>2, <2>1 DEF IInv, WorkerInv
<1>5. Handled'
  <2> SUFFICES ASSUME NEW p \in 1..Len(log), NEW e \in Endpoints, p \in done \/ (p = hand /\ e \notin want),
                      queue'[<<e, log[p]>>] = 0
               PROVE  <<e, log[p]>> \in told \cup dropped \cup ended'
    BY <1>1, <1>2 DEF Handled
  <2>1. <<e, log[p]>> \in Duties BY LogHappened DEF IInv
  <2>2. queue[<<e, log[p]>>] # 0 \/ <<e, log[p]>> \in told \cup dropped \cup ended
    BY DEF IInv, Handled
  <2> QED BY <1>2, <2>1, <2>2
<1> QED BY <1>1, <1>3, <1>4, <1>5 DEF IInv

\* A worker's crash keeps the invariant.
LEMMA WorkerCrashInv ==
  ASSUME IInv, NEW w \in Workers, WorkerCrash(w)
  PROVE  IInv'
<1>1. /\ BusInv' /\ ActiveInv' /\ ConsumerInv' /\ Happened' = Happened
      /\ log' = log /\ done' = done /\ hand' = hand /\ want' = want
  BY DispatchKeeps DEF WorkerCrash
<1>2. /\ claimed' = [claimed EXCEPT ![w] = None] /\ result' = [result EXCEPT ![w] = "none"]
      /\ UNCHANGED <<queue, ended, recorded, replay, told, dropped>>
  BY DEF WorkerCrash, rows, history
<1>3. QueueInv' BY <1>1, <1>2 DEF IInv, QueueInv
<1>4. WorkerInv'
  <2>1. /\ claimed' = [x \in Workers |-> IF x = w THEN None ELSE claimed[x]]
        /\ result' = [x \in Workers |-> IF x = w THEN "none" ELSE result[x]]
    BY <1>2 DEF IInv, WorkerInv
  <2> QED BY <1>1, <1>2, <2>1 DEF IInv, WorkerInv
<1>5. Handled' BY <1>1, <1>2 DEF IInv, Handled
<1> QED BY <1>1, <1>3, <1>4, <1>5 DEF IInv

\* The operator's steps: disabling excuses what it drops.
LEMMA OperatorInv ==
  ASSUME IInv,
         \/ \E e \in Endpoints : Enable(e) \/ Disable(e)
         \/ \E d \in Duties : ReplayRead(d)
         \/ ReplayInsert
  PROVE  IInv'
<1>1. CASE \E e \in Endpoints : Enable(e)
  <2>1. UNCHANGED <<outbox, relay, server>> BY <1>1 DEF Enable, busVars
  <2>2. BusInv' /\ log' = log /\ Happened' = Happened BY <2>1, OthersKeepBus
  <2>3. /\ active' \subseteq Endpoints
        /\ UNCHANGED <<tries, done, hand, want, queue, ended, recorded, claimed, result, replay, told, dropped>>
    BY <1>1 DEF Enable, IInv, ActiveInv, consumer, rows, workers, history
  <2> QED BY <2>2, <2>3 DEF IInv, ActiveInv, ConsumerInv, QueueInv, WorkerInv, Handled
<1>2. ASSUME NEW e \in Endpoints, Disable(e) PROVE IInv'
  <2> DEFINE mine == {d \in Duties : d[1] = e /\ queue[d] # 0}
  <2>1. UNCHANGED <<outbox, relay, server>> BY <1>2 DEF Disable, busVars
  <2>2. BusInv' /\ log' = log /\ Happened' = Happened BY <2>1, OthersKeepBus
  <2>3. /\ active' \subseteq Endpoints
        /\ UNCHANGED <<tries, done, hand, want, ended, recorded, claimed, result, replay, told>>
        /\ queue' = [d \in Duties |-> IF d \in mine THEN 0 ELSE queue[d]]
        /\ dropped' = dropped \cup mine
    BY <1>2 DEF Disable, IInv, ActiveInv, consumer, workers
  <2>4. mine \subseteq Happened BY DEF IInv, QueueInv
  <2> HIDE DEF mine
  <2>5. ActiveInv' /\ ConsumerInv' BY <2>2, <2>3 DEF IInv, ActiveInv, ConsumerInv
  <2>6. QueueInv' BY WebhookAssumption, <2>2, <2>3, <2>4 DEF IInv, QueueInv
  <2>7. WorkerInv' BY <2>2, <2>3 DEF IInv, WorkerInv
  <2>8. Handled'
    <3> SUFFICES ASSUME NEW p \in 1..Len(log), NEW x \in Endpoints, p \in done \/ (p = hand /\ x \notin want)
                 PROVE  queue'[<<x, log[p]>>] # 0 \/ <<x, log[p]>> \in told \cup dropped' \cup ended
      BY <2>2, <2>3 DEF Handled
    <3>1. <<x, log[p]>> \in Duties BY LogHappened DEF IInv
    <3>2. queue[<<x, log[p]>>] # 0 \/ <<x, log[p]>> \in told \cup dropped \cup ended
      BY DEF IInv, Handled
    <3> QED BY <2>3, <3>1, <3>2
  <2> QED BY <2>2, <2>5, <2>6, <2>7, <2>8 DEF IInv
<1>3. ASSUME NEW d \in Duties, ReplayRead(d) PROVE IInv'
  <2>1. UNCHANGED <<outbox, relay, server, active, consumer>> BY <1>3 DEF ReplayRead, busVars
  <2>2. /\ BusInv' /\ ActiveInv' /\ ConsumerInv' /\ Happened' = Happened
        /\ log' = log /\ done' = done /\ hand' = hand /\ want' = want
    BY <2>1, DispatchKeeps
  <2>3. /\ replay' = d /\ d \in Happened
        /\ UNCHANGED <<queue, ended, recorded, claimed, result, told, dropped>>
    BY <1>3 DEF ReplayRead, IInv, QueueInv, rows, workers, history
  <2> QED BY <2>2, <2>3 DEF IInv, QueueInv, WorkerInv, Handled
<1>4. CASE ReplayInsert
  <2>1. UNCHANGED <<outbox, relay, server, active, consumer>> BY <1>4 DEF ReplayInsert, busVars
  <2>2. /\ BusInv' /\ ActiveInv' /\ ConsumerInv' /\ Happened' = Happened
        /\ log' = log /\ done' = done /\ hand' = hand /\ want' = want
    BY <2>1, DispatchKeeps
  <2>3. /\ replay' = None /\ Start(replay) /\ replay \in Happened /\ replay \in Duties
        /\ UNCHANGED <<ended, recorded, claimed, result, told, dropped>>
    BY <1>4 DEF ReplayInsert, IInv, QueueInv, workers, Happened
  <2>4. /\ queue' \in [Duties -> 0..MaxRuns] /\ queue'[replay] # 0
        /\ \A x \in Duties : x # replay => queue'[x] = queue[x]
    BY <2>3, StartStep DEF IInv
  <2>5. QueueInv' BY <2>2, <2>3, <2>4 DEF IInv, QueueInv
  <2>6. WorkerInv' BY <2>2, <2>3 DEF IInv, WorkerInv
  <2>7. Handled'
    <3> SUFFICES ASSUME NEW p \in 1..Len(log), NEW e \in Endpoints, p \in done \/ (p = hand /\ e \notin want)
                 PROVE  queue'[<<e, log[p]>>] # 0 \/ <<e, log[p]>> \in told \cup dropped \cup ended
      BY <2>2, <2>3 DEF Handled
    <3>1. <<e, log[p]>> \in Duties BY LogHappened DEF IInv
    <3>2. queue[<<e, log[p]>>] # 0 \/ <<e, log[p]>> \in told \cup dropped \cup ended
      BY DEF IInv, Handled
    <3> QED BY <2>4, <3>1, <3>2
  <2> QED BY <2>2, <2>5, <2>6, <2>7 DEF IInv
<1> QED BY <1>1, <1>2, <1>3, <1>4

\* Every step keeps the invariant.
LEMMA StepInv == IInv /\ [Next]_vars => IInv'
<1> SUFFICES ASSUME IInv, [Next]_vars PROVE IInv'
  OBVIOUS
<1>1. CASE UNCHANGED vars
  <2>1. UNCHANGED <<outbox, relay, server, active, consumer>> BY <1>1 DEF vars, busVars
  <2>2. /\ BusInv' /\ ActiveInv' /\ ConsumerInv' /\ Happened' = Happened
        /\ log' = log /\ done' = done /\ hand' = hand /\ want' = want
    BY <2>1, DispatchKeeps
  <2>3. UNCHANGED <<queue, ended, recorded, claimed, result, replay, told, dropped>>
    BY <1>1 DEF vars, rows, workers, history
  <2> QED BY <2>2, <2>3 DEF IInv, QueueInv, WorkerInv, Handled
<1>2. CASE Next
  <2>1. CASE Bus BY <2>1, BusKeepsRest
  <2>2. CASE Consume \/ HandlerFails BY <2>2, ReceiveInv, EnqueueOneInv, HandInv DEF Consume
  <2>3. CASE \E w \in Workers : Dispatch(w) \/ WorkerCrash(w)
    BY <2>3, ClaimInv, PostInv, SettleInv, WorkerCrashInv DEF Dispatch
  <2> QED BY <1>2, <2>1, <2>2, <2>3, OperatorInv DEF Next
<1> QED BY <1>1, <1>2

\* The inductive invariant holds of every behaviour.
THEOREM Invariance == Spec => []IInv
<1> QED BY InitInv, StepInv, PTL DEF Spec

-----------------------------------------------------------------------------
(* Each step is one of AtLeastOnce's.                                      *)

\* Everything excused has happened.
LEMMA ExcusedHappened == IInv => Excused \subseteq Happened
<1> SUFFICES ASSUME IInv, NEW d \in Excused PROVE d \in Happened
  OBVIOUS
<1>1. CASE d \in dropped \cup ended BY <1>1 DEF IInv, QueueInv
<1>2. CASE d \in Duties /\ GivenUp(d)
  <2>1. PICK p \in 1..Len(log) : log[p] = d[2] BY <1>2 DEF GivenUp
  <2>2. log[p] \in Committed BY DEF IInv, BusInv, Stored
  <2> QED BY <1>2, <2>1, <2>2 DEF Happened, Committed
<1> QED BY <1>1, <1>2 DEF Excused

\* What is excused after the step happened before it was.
LEMMA ExcusedHappenedNext == (IInv => Excused \subseteq Happened)'
<1> QED BY ExcusedHappened, PTL

\* A step after which more is owed and nothing else changed.
LEMMA MoreOwed ==
  ASSUME Happened' = Happened, told' = told, Excused' = Excused, Owed \subseteq Owed'
  PROVE  Promise!Next
<1>1. Owed' \subseteq Happened BY DEF Owed
<1>2. Happened \subseteq Duties BY DEF Happened
<1>3. Promise!Again(Owed') BY <1>1 DEF Promise!Again
<1> QED BY <1>1, <1>2, <1>3 DEF Promise!Next

\* A step after which less is owed, with a reason for each duty.
LEMMA LessOwed ==
  ASSUME IInv', Happened' = Happened, told' = told, Excused \subseteq Excused', Owed' \subseteq Owed,
         Owed \ Owed' \subseteq told \cup Excused'
  PROVE  Promise!Next
<1>1. Owed \ Owed' \subseteq Duties BY DEF Owed, Happened
<1>2. Excused' \subseteq Happened BY ExcusedHappenedNext
<1>3. Promise!Close(Owed \ Owed') BY <1>2 DEF Promise!Close
<1> QED BY <1>1, <1>3 DEF Promise!Next

\* While the server's books of a message stay, so does its being pending.
LEMMA PendingStays ==
  ASSUME UNCHANGED <<log, tries, done, hand>>
  PROVE  /\ \A p \in 1..Len(log) : Pending(p)' = Pending(p)
         /\ \A d \in Duties : GivenUp(d)' = GivenUp(d)
BY DEF Pending, Undelivered, GivenUp

\* The bus: a commit happens, a publication owes again, a mark ends what the
\* consumer has dealt with.
LEMMA BusRefines ==
  ASSUME IInv, IInv', Bus
  PROVE  [Promise!Next]_(Promise!vars)
<1> USE EventBusAssumption, WebhookAssumption
<1>1. /\ Committed \subseteq Committed'
      /\ \/ log' = log
         \/ \E i \in Committed : log' = Append(log, i) /\ Len(log) < MaxLog
  BY BusStep DEF IInv, Bus
<1>2. UNCHANGED <<tries, done, hand, queue, ended, told, dropped>>
  BY DEF Bus, consumer, rows, history
<1>3. /\ Len(log) \in Nat /\ Len(log') \in Nat /\ Len(log) =< Len(log') /\ Len(log') =< MaxLog
      /\ \A p \in 1..Len(log) : log'[p] = log[p]
  <2>1. CASE log' = log BY <2>1 DEF IInv, BusInv
  <2>2. ASSUME NEW i \in Committed, log' = Append(log, i)
        PROVE  /\ Len(log) \in Nat /\ Len(log') \in Nat /\ Len(log) =< Len(log') /\ Len(log') =< MaxLog
               /\ \A p \in 1..Len(log) : log'[p] = log[p]
    <3>1. i \in Rows /\ log \in Seq(Rows) BY DEF Committed, IInv, BusInv
    <3> QED BY <2>2, <3>1 DEF IInv, BusInv
  <2> QED BY <1>1, <2>1, <2>2
<1>4. \A p \in 1..Len(log) : Pending(p)' = Pending(p)
  BY <1>2, <1>3 DEF Pending, Undelivered
<1>5. \A p \in 1..Len(log') : p \notin 1..Len(log) => Pending(p)'
  BY <1>2, <1>3, SMTT(60) DEF Pending, Undelivered, IInv, ConsumerInv, Positions
<1>6. \A d \in Duties : GivenUp(d)' = GivenUp(d)
  BY <1>2, <1>3, <1>4, <1>5 DEF GivenUp
<1>7. Excused' = Excused
  BY <1>2, <1>6 DEF Excused
<1>8. ASSUME NEW d \in Happened
      PROVE  (\E p \in 1..Len(log) : log[p] = d[2] /\ Pending(p))
               => \E p \in 1..Len(log') : log'[p] = d[2] /\ Pending(p)'
  BY <1>3, <1>4
<1>9. ASSUME NEW i \in Rows, Commit(i)
      PROVE  Promise!Next
  <2> DEFINE S == {d \in Duties : d[2] = i}
  <2>1. /\ state[i] = "open" /\ state' = [state EXCEPT ![i] = "committed"]
        /\ published' = published /\ log' = log
    BY <1>9 DEF Commit, relay, server
  <2>2. S \cap Happened = {} /\ Happened' = Happened \cup S
    BY <2>1 DEF IInv, BusInv, Happened, Duties
  <2>3. i \notin published BY <2>1 DEF IInv, BusInv, Committed
  <2>4. \A p \in 1..Len(log) : Pending(p)' = Pending(p) BY <1>4
  <2>5. Owed' = Owed \cup S
    BY <1>2, <2>1, <2>2, <2>3, <2>4 DEF Owed
  <2>6. Promise!Happen(S) BY <1>2, <1>7, <2>2, <2>5 DEF Promise!Happen
  <2> QED BY <2>6 DEF Promise!Next
<1>10. ASSUME Happened' = Happened, published' = published
       PROVE  Promise!Next
  BY <1>2, <1>7, <1>8, <1>10, MoreOwed DEF Owed
<1>11. CASE MarkPublished
  <2>1. published' = published \cup sent /\ log' = log /\ Happened' = Happened
    BY <1>11 DEF MarkPublished, outbox, server, Happened, Duties
  <2>2. Owed' \subseteq Owed BY <1>2, <1>4, <2>1 DEF Owed
  <2>3. ASSUME NEW d \in Owed \ Owed' PROVE d \in told \cup Excused'
    <3>1. /\ d \in Happened /\ d \in Duties /\ queue[d] = 0
          /\ d[2] \in published'
          /\ \A p \in 1..Len(log) : log[p] = d[2] => ~Pending(p)
      BY <1>2, <1>4, <2>1 DEF Owed, Happened
    <3>2. d[2] \in Stored BY <2>1, <3>1 DEF IInv, BusInv
    <3>3. PICK p \in 1..Len(log) : log[p] = d[2] BY <3>2 DEF Stored
    <3>4. d[1] \in Endpoints /\ d = <<d[1], log[p]>> BY <3>1, <3>3 DEF Duties
    <3>5. told \cup dropped \cup ended \subseteq told \cup Excused'
      BY <1>7 DEF Excused
    <3>6. CASE p \in done
      <4>1. queue[<<d[1], log[p]>>] # 0 \/ <<d[1], log[p]>> \in told \cup dropped \cup ended
        BY <3>4, <3>6 DEF IInv, Handled
      <4> QED BY <3>1, <3>4, <3>5, <4>1
    <3>7. CASE p \notin done
      <4>1. GivenUp(d) BY <3>1, <3>3, <3>7 DEF GivenUp
      <4> QED BY <1>7, <3>1, <4>1 DEF Excused
    <3> QED BY <3>6, <3>7
  <2> QED BY <1>2, <1>7, <2>1, <2>2, <2>3, LessOwed
<1>12. CASE ~MarkPublished /\ ~(\E i \in Rows : Commit(i))
  <2>1. published' = published
    BY <1>12 DEF Bus, BusNext, RelayStep, AppendEvent, Insert, Rollback, ListBatch, Publish, PublishFails, RelayCrash,
                 WindowPasses, relay
  <2>2. \A i \in Rows : state'[i] = "committed" <=> state[i] = "committed"
    BY <1>12 DEF Bus, BusNext, RelayStep, AppendEvent, NextId, Insert, Rollback, ListBatch, Publish, PublishFails,
                 RelayCrash, WindowPasses, outbox, IInv, BusInv
  <2>3. Happened' = Happened BY <2>2 DEF Happened, Duties
  <2> QED BY <1>10, <2>1, <2>3
<1> QED BY <1>9, <1>11, <1>12

\* The consumer: from the handler's hand to the queue, or to a reason.
LEMMA ReceiveRefines ==
  ASSUME IInv, IInv', NEW p \in Positions, Receive(p)
  PROVE  Promise!Next
<1>1. log' = log /\ Happened' = Happened /\ published' = published
  BY OthersKeepBus DEF Receive, busVars
<1>2. /\ hand = 0 /\ Undelivered(p) /\ hand' = p /\ tries' = [tries EXCEPT ![p] = @ + 1]
      /\ UNCHANGED <<done, queue, ended, told>> /\ dropped \subseteq dropped'
  BY DEF Receive, rows
<1>3. \A q \in 1..Len(log) : Pending(q)' = Pending(q)
  BY <1>1, <1>2 DEF Pending, Undelivered, IInv, ConsumerInv
<1>4. \A d \in Duties : GivenUp(d)' = GivenUp(d) BY <1>1, <1>2, <1>3 DEF GivenUp
<1>5. Excused \subseteq Excused' BY <1>2, <1>4 DEF Excused
<1>6. Owed' = Owed BY <1>1, <1>2, <1>3 DEF Owed
<1> QED BY <1>1, <1>2, <1>5, <1>6, LessOwed

\* Enqueueing is a step of the promise or none.
LEMMA EnqueueOneRefines ==
  ASSUME IInv, NEW e \in Endpoints, EnqueueOne(e)
  PROVE  Promise!Next
<1> DEFINE d == <<e, log[hand]>>
<1>1. log' = log /\ Happened' = Happened /\ published' = published
  BY OthersKeepBus DEF EnqueueOne, busVars
<1>2. /\ hand \in 1..Len(log) /\ Start(d) /\ UNCHANGED <<tries, done, hand, ended, told, dropped>>
  BY DEF EnqueueOne, IInv, ConsumerInv, BusInv
<1>3. d \in Duties BY <1>2, LogHappened DEF IInv
<1> HIDE DEF d
<1>4. \A x \in Duties : queue[x] # 0 => queue'[x] # 0
  BY <1>2, <1>3, StartStep DEF IInv
<1>5. /\ \A q \in 1..Len(log) : Pending(q)' = Pending(q)
      /\ \A x \in Duties : GivenUp(x)' = GivenUp(x)
  BY <1>1, <1>2, PendingStays
<1>6. Excused' = Excused BY <1>2, <1>5 DEF Excused
<1>7. Owed \subseteq Owed' BY <1>1, <1>4, <1>5 DEF Owed, Happened
<1> QED BY <1>1, <1>2, <1>6, <1>7, MoreOwed

\* A handler call acknowledged or failed is a step of the promise or none.
LEMMA HandRefines ==
  ASSUME IInv, IInv', Ack \/ HandlerFails
  PROVE  Promise!Next
<1>1. log' = log /\ Happened' = Happened /\ published' = published
  BY OthersKeepBus DEF Ack, HandlerFails, busVars
<1>2. PICK h \in 1..Len(log) : h = hand
  BY DEF Ack, HandlerFails, IInv, ConsumerInv, BusInv
<1>3. /\ hand' = 0
      /\ \/ done' = done
         \/ done' = done \cup {h} /\ want = {}
      /\ UNCHANGED <<tries, queue, ended, told, dropped>>
  BY <1>2 DEF Ack, HandlerFails, rows, history
<1>4. \A q \in 1..Len(log) : q # h => Pending(q)' = Pending(q) /\ (q \in done' <=> q \in done)
  BY <1>1, <1>2, <1>3 DEF Pending, Undelivered
<1>5. Pending(h) BY <1>2 DEF Pending
<1>6. \A d \in Duties : GivenUp(d) => GivenUp(d)'
  BY <1>1, <1>4, <1>5 DEF GivenUp
<1>7. Excused \subseteq Excused' BY <1>3, <1>6 DEF Excused
<1>8. Owed' \subseteq Owed BY <1>1, <1>3, <1>4, <1>5 DEF Owed
<1>9. ASSUME NEW d \in Owed \ Owed' PROVE d \in told \cup Excused'
  <2>1. /\ d \in Happened /\ d \in Duties /\ d[2] \in published
        /\ \A p \in 1..Len(log) : log[p] = d[2] => ~Pending(p)'
        /\ queue[d] = 0
    BY <1>1, <1>3 DEF Owed, Happened
  <2>2. PICK p \in 1..Len(log) : log[p] = d[2] /\ Pending(p)
    BY <2>1 DEF Owed
  <2>3. log[h] = d[2] /\ ~Pending(h)'
    BY <1>4, <2>1, <2>2
  <2>4. d[1] \in Endpoints /\ d = <<d[1], log[hand]>> BY <1>2, <2>1, <2>3 DEF Duties
  <2>5. CASE h \notin done'
    <3>1. GivenUp(d)' BY <1>1, <2>3, <2>5 DEF GivenUp
    <3> QED BY <2>1, <3>1 DEF Excused
  <2>6. CASE h \in done'
    <3>1. want = {} BY <1>2, <1>3, <2>6 DEF IInv, ConsumerInv
    <3>2. queue[<<d[1], log[hand]>>] # 0 \/ <<d[1], log[hand]>> \in told \cup dropped \cup ended
      BY <1>2, <2>4, <3>1 DEF IInv, Handled
    <3>3. told \cup dropped \cup ended \subseteq told \cup Excused'
      BY <1>3 DEF Excused
    <3> QED BY <2>1, <2>4, <3>2, <3>3
  <2> QED BY <2>5, <2>6
<1> QED BY <1>1, <1>3, <1>7, <1>8, <1>9, LessOwed

\* The dispatchers: a POST tells, a settled run ends with a reason.
LEMMA DispatchRefines ==
  ASSUME IInv, IInv', NEW w \in Workers, Dispatch(w) \/ WorkerCrash(w)
  PROVE  Promise!Next
<1>1. UNCHANGED <<outbox, relay, server, active, consumer, dropped>>
  BY DEF Dispatch, Claim, Post, Settle, WorkerCrash, busVars, history
<1>2. log' = log /\ Happened' = Happened /\ published' = published
  BY <1>1, OthersKeepBus
<1>3. /\ \A q \in 1..Len(log) : Pending(q)' = Pending(q)
      /\ \A x \in Duties : GivenUp(x)' = GivenUp(x)
  BY <1>1, <1>2, PendingStays DEF consumer
<1>4. CASE (\E d \in Duties : Claim(w, d)) \/ WorkerCrash(w)
  <2>1. UNCHANGED <<queue, ended, told>> BY <1>4 DEF Claim, WorkerCrash, rows, history
  <2>2. Excused' = Excused BY <1>1, <1>3, <2>1 DEF Excused
  <2>3. Owed \subseteq Owed' BY <1>2, <1>3, <2>1 DEF Owed
  <2> QED BY <1>2, <2>1, <2>2, <2>3, MoreOwed
<1>5. CASE Post(w)
  <2>1. /\ UNCHANGED <<queue, ended>> /\ claimed[w][1] \in Happened
        /\ told' = told \/ told' = told \cup {claimed[w][1]}
    BY <1>5 DEF Post, rows, IInv, WorkerInv
  <2>2. Excused' = Excused BY <1>1, <1>3, <2>1 DEF Excused
  <2>3. Owed' = Owed BY <1>2, <1>3, <2>1 DEF Owed
  <2>4. CASE told' = told BY <1>2, <2>2, <2>3, <2>4, MoreOwed
  <2>5. CASE told' = told \cup {claimed[w][1]}
    <3>1. claimed[w][1] \in Duties BY <2>1 DEF Happened
    <3>2. Promise!Tell(claimed[w][1]) BY <1>2, <2>1, <2>2, <2>3, <2>5 DEF Promise!Tell
    <3> QED BY <3>1, <3>2 DEF Promise!Next
  <2> QED BY <2>1, <2>4, <2>5
<1>6. CASE Settle(w)
  <2> DEFINE d == claimed[w][1]
  <2>1. /\ \A x \in Duties : queue'[x] \in {0, queue[x]}
        /\ \A x \in Duties : queue'[x] # queue[x] => x = d /\ d \in told \cup ended'
        /\ ended \subseteq ended' /\ UNCHANGED <<told, dropped>>
    BY <1>6, SettleQueue
  <2> HIDE DEF d
  <2>2. Excused \subseteq Excused' /\ ended' \subseteq Excused'
    BY <1>3, <2>1 DEF Excused
  <2>3. Owed' \subseteq Owed BY <1>2, <1>3, <2>1 DEF Owed, Happened
  <2>4. \A x \in Owed \ Owed' : queue'[x] # queue[x] /\ x \in Duties
    BY <1>2, <1>3 DEF Owed, Happened
  <2>5. Owed \ Owed' \subseteq told \cup Excused' BY <2>1, <2>2, <2>4
  <2> QED BY <1>2, <2>1, <2>2, <2>3, <2>5, LessOwed
<1> QED BY <1>4, <1>5, <1>6 DEF Dispatch

\* The operator: disabling drops, replaying owes again.
LEMMA OperatorRefines ==
  ASSUME IInv, IInv',
         \/ \E e \in Endpoints : Enable(e) \/ Disable(e)
         \/ \E d \in Duties : ReplayRead(d)
         \/ ReplayInsert
  PROVE  Promise!Next
<1>1. UNCHANGED <<outbox, relay, server, consumer, told, ended>>
  BY DEF Enable, Disable, ReplayRead, ReplayInsert, busVars, history, rows
<1>2. log' = log /\ Happened' = Happened /\ published' = published
  BY <1>1, OthersKeepBus
<1>3. /\ \A q \in 1..Len(log) : Pending(q)' = Pending(q)
      /\ \A x \in Duties : GivenUp(x)' = GivenUp(x)
  BY <1>1, <1>2, PendingStays DEF consumer
<1>4. ASSUME dropped' = dropped, \A x \in Duties : queue[x] # 0 => queue'[x] # 0
      PROVE  Promise!Next
  <2>1. Excused' = Excused BY <1>1, <1>3, <1>4 DEF Excused
  <2>2. Owed \subseteq Owed' BY <1>2, <1>3, <1>4 DEF Owed, Happened
  <2> QED BY <1>1, <1>2, <2>1, <2>2, MoreOwed
<1>5. CASE (\E e \in Endpoints : Enable(e)) \/ (\E d \in Duties : ReplayRead(d))
  BY <1>4, <1>5 DEF Enable, ReplayRead, rows, history
<1>6. CASE ReplayInsert
  <2>1. replay \in Duties /\ Start(replay) /\ dropped' = dropped
    BY <1>6 DEF ReplayInsert, IInv, QueueInv, Happened
  <2>2. \A x \in Duties : queue[x] # 0 => queue'[x] # 0
    BY <2>1, StartStep DEF IInv
  <2> QED BY <1>4, <2>1, <2>2
<1>7. ASSUME NEW e \in Endpoints, Disable(e) PROVE Promise!Next
  <2> DEFINE mine == {d \in Duties : d[1] = e /\ queue[d] # 0}
  <2>1. /\ queue' = [d \in Duties |-> IF d \in mine THEN 0 ELSE queue[d]]
        /\ dropped' = dropped \cup mine
    BY <1>7 DEF Disable
  <2> HIDE DEF mine
  <2>2. Excused \subseteq Excused' /\ mine \subseteq Excused'
    BY <1>1, <1>3, <2>1 DEF Excused
  <2>3. Owed' \subseteq Owed BY <1>2, <1>3, <2>1 DEF Owed, Happened
  <2>4. Owed \ Owed' \subseteq mine
    BY <1>2, <1>3, <2>1 DEF Owed, Happened
  <2> QED BY <1>1, <1>2, <2>2, <2>3, <2>4, LessOwed
<1> QED BY <1>5, <1>6, <1>7

\* Every step is a step of the promise or none.
LEMMA StepRefines == IInv /\ IInv' /\ [Next]_vars => [Promise!Next]_(Promise!vars)
<1> SUFFICES ASSUME IInv, IInv', [Next]_vars PROVE [Promise!Next]_(Promise!vars)
  OBVIOUS
<1>1. CASE UNCHANGED vars
  <2>1. UNCHANGED <<outbox, relay, server, consumer, queue, told, ended, dropped>>
    BY <1>1 DEF vars, busVars, rows, history
  <2>2. log' = log /\ Happened' = Happened /\ published' = published
    BY <2>1, OthersKeepBus
  <2>3. /\ \A q \in 1..Len(log) : Pending(q)' = Pending(q)
        /\ \A x \in Duties : GivenUp(x)' = GivenUp(x)
    BY <2>1, <2>2, PendingStays DEF consumer
  <2>4. Excused' = Excused BY <2>1, <2>3 DEF Excused
  <2>5. Owed' = Owed BY <2>1, <2>2, <2>3 DEF Owed
  <2> QED BY <2>1, <2>2, <2>4, <2>5 DEF Promise!vars
<1>2. CASE Next
  <2>1. CASE Bus BY <2>1, BusRefines
  <2>2. CASE Consume \/ HandlerFails
    BY <2>2, ReceiveRefines, EnqueueOneRefines, HandRefines DEF Consume
  <2>3. CASE \E w \in Workers : Dispatch(w) \/ WorkerCrash(w)
    BY <2>3, DispatchRefines
  <2> QED BY <1>2, <2>1, <2>2, <2>3, OperatorRefines DEF Next
<1> QED BY <1>1, <1>2

\* The program starts where the promise starts.
LEMMA InitRefines == Init => Promise!Init
<1> SUFFICES ASSUME Init PROVE Promise!Init
  OBVIOUS
<1>1. Happened = {} BY DEF Init, BusInit, Happened, Duties
<1>2. Owed = {} BY <1>1 DEF Owed
<1>3. Excused = {}
  <2>1. \A d \in Duties : ~GivenUp(d) BY DEF Init, BusInit, GivenUp
  <2> QED BY <2>1 DEF Init, Excused
<1> QED BY <1>1, <1>2, <1>3 DEF Init, Promise!Init

\* docs/webhooks.md's promise, for any number of endpoints, workers, faults,
\* redeliveries and replays: what is owed stays in the outbox, the stream or the
\* queue until it is told or excused.
THEOREM DeliveryIsKept == Spec => Kept
<1>1. Init => Promise!Init BY InitRefines
<1>2. IInv /\ IInv' /\ [Next]_vars => [Promise!Next]_(Promise!vars) BY StepRefines
<1> QED BY <1>1, <1>2, Invariance, PTL DEF Spec, Kept, Promise!Spec

-----------------------------------------------------------------------------
(* Runs.  Each failed settlement of the current run adds one to attempts,   *)
(* and each settlement had a POST of its own before it.                    *)

\* The workers that have posted the current run of d and not settled it.
Posted(d) == {w \in Workers : claimed[w] # None /\ claimed[w][1] = d /\ claimed[w][2] = queue[d] /\ result[w] # "none"}

\* The current run of d was posted as often as it was settled or will be.
Counted(d) ==
  /\ IsFiniteSet(Posted(d))
  /\ posts[d] > Budget \/ posts[d] >= attempts[d] + Cardinality(Posted(d))

RunInv ==
  /\ attempts \in [Duties -> Nat] /\ posts \in [Duties -> Nat]
  /\ \A w \in Workers : claimed[w] # None =>
       /\ claimed[w] \in Duties \X (1..MaxRuns) \X Nat
       /\ queue[claimed[w][1]] = claimed[w][2] =>
            claimed[w][3] =< attempts[claimed[w][1]] /\ (result[w] = "ok" => claimed[w][1] \in heard)
  /\ \A d \in Duties : queue[d] # 0 => Counted(d)

\* Nothing has been claimed at first.
LEMMA RunInit == Init => RunInv
<1> SUFFICES ASSUME Init PROVE RunInv
  OBVIOUS
<1> USE DEF Init
<1>1. attempts \in [Duties -> Nat] /\ posts \in [Duties -> Nat] OBVIOUS
<1>2. \A w \in Workers : claimed[w] = None OBVIOUS
<1>3. \A d \in Duties : queue[d] = 0 OBVIOUS
<1> QED BY <1>1, <1>2, <1>3 DEF RunInv

\* A step that leaves runs, claims and POSTs alone.
LEMMA RunFrame ==
  ASSUME RunInv, UNCHANGED <<queue, attempts, claimed, result, heard, posts>>
  PROVE  RunInv'
BY DEF RunInv, Counted, Posted

\* A new run begins with nothing counted and nothing heard; its id is nobody's.
LEMMA StartRun ==
  ASSUME IInv, RunInv, NEW d \in Duties, Start(d), UNCHANGED <<claimed, result>>
  PROVE  RunInv'
<1>1. CASE queue[d] # 0 BY <1>1, RunFrame DEF Start
<1>2. CASE queue[d] = 0
  <2>1. PICK r \in 1..MaxRuns :
          /\ ~InUse(r) /\ queue' = [queue EXCEPT ![d] = r]
          /\ attempts' = [attempts EXCEPT ![d] = 0]
          /\ heard' = heard \ {d} /\ posts' = [posts EXCEPT ![d] = 0]
    BY <1>2 DEF Start, NewRun
  <2>2. \A w \in Workers : claimed[w] # None => claimed[w][2] # r BY <2>1 DEF InUse
  <2>3. queue \in [Duties -> 0..MaxRuns] BY DEF IInv, QueueInv
  <2>4. attempts' \in [Duties -> Nat] /\ posts' \in [Duties -> Nat] BY <2>1 DEF RunInv
  <2>5. queue'[d] = r /\ attempts'[d] = 0 /\ posts'[d] = 0 BY <2>1, <2>3 DEF RunInv
  <2>6. ASSUME NEW x \in Duties, x # d
        PROVE  /\ queue'[x] = queue[x] /\ attempts'[x] = attempts[x] /\ posts'[x] = posts[x]
               /\ (x \in heard' <=> x \in heard)
    BY <2>1, <2>3, <2>6 DEF RunInv
  <2>7. ASSUME NEW w \in Workers, claimed'[w] # None
        PROVE  /\ claimed'[w] \in Duties \X (1..MaxRuns) \X Nat
               /\ queue'[claimed'[w][1]] = claimed'[w][2] =>
                    claimed'[w][3] =< attempts'[claimed'[w][1]] /\ (result'[w] = "ok" => claimed'[w][1] \in heard')
    <3>1. claimed'[w] = claimed[w] /\ result'[w] = result[w] /\ claimed[w] \in Duties \X (1..MaxRuns) \X Nat
      BY <2>7 DEF RunInv
    <3>2. CASE claimed[w][1] = d BY <2>2, <2>5, <2>7, <3>1, <3>2
    <3>3. CASE claimed[w][1] # d
      <4> DEFINE x == claimed[w][1]
      <4>1. x \in Duties BY <3>1
      <4>2. queue[x] = claimed[w][2] => claimed[w][3] =< attempts[x] /\ (result[w] = "ok" => x \in heard)
        BY <2>7, <3>1 DEF RunInv
      <4>3. queue'[x] = queue[x] /\ attempts'[x] = attempts[x] /\ (x \in heard' <=> x \in heard)
        BY <2>6, <3>3, <4>1
      <4> QED BY <3>1, <4>2, <4>3
    <3> QED BY <3>2, <3>3
  <2>8. Counted(d)'
    <3>1. Posted(d)' = {} BY <2>2, <2>5 DEF Posted
    <3>2. IsFiniteSet(Posted(d)') /\ Cardinality(Posted(d)') = 0 BY <3>1, FS_EmptySet
    <3> QED BY <2>5, <3>2 DEF Counted
  <2>9. ASSUME NEW x \in Duties, x # d, queue'[x] # 0 PROVE Counted(x)'
    <3>1. queue'[x] = queue[x] /\ attempts'[x] = attempts[x] /\ posts'[x] = posts[x] BY <2>6, <2>9
    <3>2. Posted(x)' = Posted(x) BY <3>1 DEF Posted
    <3>3. Counted(x) BY <2>9, <3>1 DEF RunInv
    <3> QED BY <3>1, <3>2, <3>3 DEF Counted
  <2> QED BY <2>4, <2>7, <2>8, <2>9 DEF RunInv
<1> QED BY <1>1, <1>2

\* A claim takes the run and the attempts as they are.
LEMMA ClaimRun ==
  ASSUME IInv, RunInv, NEW w \in Workers, NEW d \in Duties, Claim(w, d)
  PROVE  RunInv'
<1>1. /\ claimed[w] = None /\ queue[d] # 0 /\ claimed' = [claimed EXCEPT ![w] = <<d, queue[d], attempts[d]>>]
      /\ UNCHANGED <<queue, attempts, result, heard, posts>>
  BY DEF Claim, rows, history
<1>2. result[w] = "none" /\ claimed = [x \in Workers |-> claimed[x]] BY <1>1 DEF IInv, WorkerInv
<1>3. claimed'[w] = <<d, queue[d], attempts[d]>> /\ \A x \in Workers \ {w} : claimed'[x] = claimed[x]
  BY <1>1, <1>2
<1>4. queue[d] \in 1..MaxRuns /\ attempts[d] \in Nat
  BY <1>1, WebhookAssumption DEF IInv, QueueInv, RunInv
<1>5. ASSUME NEW v \in Workers, claimed'[v] # None
      PROVE  /\ claimed'[v] \in Duties \X (1..MaxRuns) \X Nat
             /\ queue'[claimed'[v][1]] = claimed'[v][2] =>
                  claimed'[v][3] =< attempts'[claimed'[v][1]] /\ (result'[v] = "ok" => claimed'[v][1] \in heard')
  <2>1. CASE v = w
    <3>1. claimed'[v] \in Duties \X (1..MaxRuns) \X Nat BY <1>3, <1>4, <2>1
    <3>2. claimed'[v][1] = d /\ claimed'[v][3] = attempts[d] BY <1>3, <2>1
    <3>3. result'[v] # "ok" BY <1>1, <1>2, <2>1
    <3>4. attempts[d] =< attempts[d] BY <1>4
    <3> QED BY <1>1, <3>1, <3>2, <3>3, <3>4
  <2>2. CASE v # w BY <1>1, <1>3, <1>5, <2>2 DEF RunInv
  <2> QED BY <2>1, <2>2
<1>6. ASSUME NEW x \in Duties, queue'[x] # 0 PROVE Counted(x)'
  <2>1. Posted(x)' = Posted(x) BY <1>1, <1>2, <1>3 DEF Posted
  <2>2. Counted(x) BY <1>1, <1>6 DEF RunInv
  <2> QED BY <1>1, <2>1, <2>2 DEF Counted
<1>7. attempts' \in [Duties -> Nat] /\ posts' \in [Duties -> Nat] BY <1>1 DEF RunInv
<1> QED BY <1>5, <1>6, <1>7 DEF RunInv

\* A POST of the current run is counted.
LEMMA PostRun ==
  ASSUME IInv, RunInv, NEW w \in Workers, Post(w)
  PROVE  RunInv'
<1> DEFINE d == claimed[w][1]
           r == claimed[w][2]
<1>1. claimed[w] # None /\ result[w] = "none" /\ UNCHANGED <<queue, attempts, claimed>>
  BY DEF Post, rows
<1>2. d \in Duties BY <1>1 DEF RunInv
<1>3. posts' = IF queue[d] = r /\ posts[d] =< Budget THEN [posts EXCEPT ![d] = @ + 1] ELSE posts
  BY DEF Post
<1>4. /\ \E y \in {"ok", "fail"} : result' = [result EXCEPT ![w] = y]
      /\ heard \subseteq heard' /\ (result'[w] = "ok" /\ queue[d] = r => d \in heard')
  <2>1. result = [x \in Workers |-> result[x]] BY DEF IInv, WorkerInv
  <2>2. CASE /\ heard' = IF queue[d] = r THEN heard \cup {d} ELSE heard
             /\ \E y \in {"ok", "fail"} : result' = [result EXCEPT ![w] = y]
    BY <2>2
  <2>3. CASE UNCHANGED <<told, heard>> /\ result' = [result EXCEPT ![w] = "fail"]
    <3>1. result'[w] = "fail" BY <2>1, <2>3
    <3> QED BY <2>3, <3>1
  <2> QED BY <2>2, <2>3 DEF Post
<1>5. result'[w] \in {"ok", "fail"} /\ \A x \in Workers \ {w} : result'[x] = result[x]
  <2>1. result = [x \in Workers |-> result[x]] BY DEF IInv, WorkerInv
  <2>2. PICK y \in {"ok", "fail"} : result' = [result EXCEPT ![w] = y] BY <1>4
  <2> QED BY <2>1, <2>2
<1>6. ASSUME NEW v \in Workers, claimed'[v] # None
      PROVE  /\ claimed'[v] \in Duties \X (1..MaxRuns) \X Nat
             /\ queue'[claimed'[v][1]] = claimed'[v][2] =>
                  claimed'[v][3] =< attempts'[claimed'[v][1]] /\ (result'[v] = "ok" => claimed'[v][1] \in heard')
  <2>1. /\ claimed[v] \in Duties \X (1..MaxRuns) \X Nat
        /\ queue[claimed[v][1]] = claimed[v][2] =>
             claimed[v][3] =< attempts[claimed[v][1]] /\ (result[v] = "ok" => claimed[v][1] \in heard)
    BY <1>1, <1>6 DEF RunInv
  <2>2. CASE v = w BY <1>1, <1>4, <2>1, <2>2
  <2>3. CASE v # w BY <1>1, <1>4, <1>5, <2>1, <2>3
  <2> QED BY <2>2, <2>3
<1> DEFINE n == posts[d]
<1>7. \A x \in Duties : posts[x] \in Nat /\ attempts[x] \in Nat BY DEF RunInv
<1>8. posts' \in [Duties -> Nat] BY <1>2, <1>3, <1>7 DEF RunInv
<1>9. ASSUME NEW x \in Duties, queue'[x] # 0 PROVE Counted(x)'
  <2>0. Counted(x) /\ queue'[x] = queue[x] /\ attempts'[x] = attempts[x] BY <1>1, <1>9 DEF RunInv
  <2>1. CASE x = d /\ queue[d] = r
    <3>1. Posted(x)' = Posted(x) \cup {w} /\ w \notin Posted(x)
      BY <1>1, <1>5, <2>1 DEF Posted
    <3>2. IsFiniteSet(Posted(x)') /\ Cardinality(Posted(x)') = Cardinality(Posted(x)) + 1
      BY <2>0, <3>1, FS_AddElement DEF Counted
    <3>3. Cardinality(Posted(x)) \in Nat BY <2>0, FS_CardinalityType DEF Counted
    <3>4. posts'[x] = IF posts[x] =< Budget THEN posts[x] + 1 ELSE posts[x]
      BY <1>2, <1>3, <2>1 DEF RunInv
    <3> QED BY <1>7, <2>0, <3>2, <3>3, <3>4, WebhookAssumption DEF Counted, WebhookAssumption
  <2>2. CASE x # d \/ queue[d] # r
    <3>1. posts'[x] = posts[x] BY <1>2, <1>3, <2>2 DEF RunInv
    <3>2. Posted(x)' = Posted(x) BY <1>1, <1>5, <2>2 DEF Posted
    <3> QED BY <2>0, <3>1, <3>2 DEF Counted
  <2> QED BY <2>1, <2>2
<1>10. attempts' \in [Duties -> Nat] BY <1>1 DEF RunInv
<1> QED BY <1>6, <1>8, <1>9, <1>10 DEF RunInv

\* A worker that lets go of its claim, and what it does to its run: nothing, the
\* end, or one attempt more.
LEMMA ReleaseRun ==
  ASSUME IInv, RunInv, NEW w \in Workers, claimed[w] # None,
         claimed' = [claimed EXCEPT ![w] = None], result' = [result EXCEPT ![w] = "none"],
         UNCHANGED <<heard, posts>>,
         LET d == claimed[w][1]  r == claimed[w][2] IN
           \/ UNCHANGED <<queue, attempts>>
           \/ queue[d] = r /\ queue' = [queue EXCEPT ![d] = 0] /\ attempts' = attempts
           \/ queue[d] = r /\ queue' = queue /\ attempts' = [attempts EXCEPT ![d] = @ + 1] /\ result[w] # "none"
  PROVE  RunInv'
<1> DEFINE d == claimed[w][1]
           r == claimed[w][2]
<1>1. /\ claimed[w] \in Duties \X (1..MaxRuns) \X Nat /\ d \in Duties /\ r # 0
      /\ \A x \in Duties : posts[x] \in Nat /\ attempts[x] \in Nat
  BY DEF RunInv
<1>2. /\ claimed'[w] = None /\ \A x \in Workers \ {w} : claimed'[x] = claimed[x]
      /\ result'[w] = "none" /\ \A x \in Workers \ {w} : result'[x] = result[x]
  <2>1. claimed = [x \in Workers |-> claimed[x]] /\ result = [x \in Workers |-> result[x]] BY DEF IInv, WorkerInv
  <2> QED BY <2>1
<1>3. queue \in [Duties -> 0..MaxRuns] /\ attempts \in [Duties -> Nat] BY DEF IInv, QueueInv, RunInv
<1>4. /\ attempts' \in [Duties -> Nat]
      /\ \A x \in Duties : queue'[x] \in {0, queue[x]} /\ attempts[x] =< attempts'[x]
  <2>1. CASE UNCHANGED <<queue, attempts>> BY <1>1, <1>3, <2>1
  <2>2. CASE queue' = [queue EXCEPT ![d] = 0] /\ attempts' = attempts BY <1>1, <1>3, <2>2
  <2>3. CASE queue' = queue /\ attempts' = [attempts EXCEPT ![d] = @ + 1] BY <1>1, <1>3, <2>3
  <2> QED BY <2>1, <2>2, <2>3
<1>5. ASSUME NEW v \in Workers, claimed'[v] # None
      PROVE  /\ claimed'[v] \in Duties \X (1..MaxRuns) \X Nat
             /\ queue'[claimed'[v][1]] = claimed'[v][2] =>
                  claimed'[v][3] =< attempts'[claimed'[v][1]] /\ (result'[v] = "ok" => claimed'[v][1] \in heard')
  <2> DEFINE y == claimed[v][1]
  <2>1. claimed'[v] = claimed[v] /\ result'[v] = result[v] BY <1>2, <1>5
  <2>2. /\ claimed[v] \in Duties \X (1..MaxRuns) \X Nat
        /\ queue[y] = claimed[v][2] => claimed[v][3] =< attempts[y] /\ (result[v] = "ok" => y \in heard)
    BY <1>5, <2>1 DEF RunInv
  <2>3. y \in Duties /\ claimed[v][2] # 0 /\ claimed[v][3] \in Nat BY <2>2
  <2>4. ASSUME queue'[y] = claimed[v][2] PROVE claimed[v][3] =< attempts'[y] /\ (result[v] = "ok" => y \in heard)
    <3>1. queue[y] = claimed[v][2] BY <1>4, <2>3, <2>4
    <3>2. claimed[v][3] =< attempts[y] /\ attempts[y] =< attempts'[y] /\ attempts'[y] \in Nat /\ attempts[y] \in Nat
      BY <1>1, <1>4, <2>2, <2>3, <3>1
    <3> QED BY <2>2, <2>3, <3>1, <3>2
  <2> QED BY <2>1, <2>2, <2>4
<1>6. ASSUME NEW x \in Duties, queue'[x] # 0 PROVE Counted(x)'
  <2>1. queue'[x] = queue[x] /\ Counted(x) /\ posts'[x] = posts[x] BY <1>4, <1>6 DEF RunInv
  <2>2. Posted(x)' = Posted(x) \ {w} BY <1>2, <2>1 DEF Posted
  <2>3. /\ IsFiniteSet(Posted(x)') /\ Cardinality(Posted(x)) \in Nat /\ Cardinality(Posted(x)') \in Nat
        /\ Cardinality(Posted(x)') = IF w \in Posted(x) THEN Cardinality(Posted(x)) - 1 ELSE Cardinality(Posted(x))
    BY <2>1, <2>2, FS_RemoveElement, FS_CardinalityType DEF Counted
  <2>4. attempts'[x] = attempts[x] \/ (attempts'[x] = attempts[x] + 1 /\ w \in Posted(x))
    <3>1. CASE UNCHANGED <<queue, attempts>> \/ attempts' = attempts BY <3>1
    <3>2. CASE queue[d] = r /\ attempts' = [attempts EXCEPT ![d] = @ + 1] /\ result[w] # "none"
      <4>1. w \in Posted(d) BY <3>2 DEF Posted
      <4>2. attempts'[x] = IF x = d THEN attempts[x] + 1 ELSE attempts[x] BY <1>1, <1>3, <3>2
      <4> QED BY <4>1, <4>2
    <3> QED BY <3>1, <3>2
  <2>5. posts'[x] > Budget \/ posts'[x] >= attempts'[x] + Cardinality(Posted(x)')
    <3>1. posts[x] > Budget \/ posts[x] >= attempts[x] + Cardinality(Posted(x)) BY <2>1 DEF Counted
    <3> QED BY <1>1, <2>1, <2>3, <2>4, <3>1, WebhookAssumption DEF WebhookAssumption
  <2> QED BY <2>3, <2>5 DEF Counted
<1>7. posts' \in [Duties -> Nat] BY DEF RunInv
<1> QED BY <1>4, <1>5, <1>6, <1>7 DEF RunInv

\* What a settlement does to its run, and why it ends it.
LEMMA SettleRun ==
  ASSUME IInv, RunInv, NEW w \in Workers, Settle(w)
  PROVE  /\ RunInv'
         /\ \A x \in Duties : queue[x] # 0 /\ queue'[x] # queue[x] => x \in heard \/ posts[x] > Budget
<1> DEFINE d == claimed[w][1]
           r == claimed[w][2]
           a == claimed[w][3]
<1>1. /\ claimed' = [claimed EXCEPT ![w] = None] /\ result' = [result EXCEPT ![w] = "none"]
      /\ UNCHANGED <<heard, posts>> /\ result[w] # "none"
  BY DEF Settle, history
<1>2. claimed[w] # None BY <1>1 DEF IInv, WorkerInv
<1>3. \/ (result[w] = "ok" \/ a >= Budget) /\ Leave(d, r) /\ UNCHANGED attempts
      \/ Reschedule(d, r) /\ UNCHANGED queue
  BY DEF Settle, OutOfSteps
<1>4. d \in Duties /\ a \in Nat /\ queue \in [Duties -> 0..MaxRuns] /\ attempts \in [Duties -> Nat] /\ posts \in [Duties -> Nat]
  BY <1>2 DEF RunInv, IInv, QueueInv
<1>5. \/ UNCHANGED <<queue, attempts>>
      \/ queue[d] = r /\ queue' = [queue EXCEPT ![d] = 0] /\ attempts' = attempts
      \/ queue[d] = r /\ queue' = queue /\ attempts' = [attempts EXCEPT ![d] = @ + 1] /\ result[w] # "none"
  BY <1>1, <1>3 DEF Leave, Reschedule
<1>6. RunInv' BY <1>1, <1>2, <1>5, ReleaseRun
<1>7. ASSUME NEW x \in Duties, queue[x] # 0, queue'[x] # queue[x] PROVE x \in heard \/ posts[x] > Budget
  <2>1. x = d /\ queue[d] = r /\ (result[w] = "ok" \/ a >= Budget)
    BY <1>3, <1>4, <1>7 DEF Leave
  <2>2. CASE result[w] = "ok" BY <1>2, <2>1, <2>2 DEF RunInv
  <2>3. CASE a >= Budget
    <3>1. a =< attempts[d] BY <1>2, <2>1 DEF RunInv
    <3>2. Counted(d) BY <1>7, <2>1 DEF RunInv
    <3>3. w \in Posted(d) BY <1>1, <1>2, <2>1 DEF Posted
    <3>4. Cardinality(Posted(d)) \in Nat /\ Cardinality(Posted(d)) # 0
      BY <3>2, <3>3, FS_CardinalityType, FS_EmptySet DEF Counted
    <3>5. posts[d] > Budget \/ posts[d] >= attempts[d] + Cardinality(Posted(d)) BY <3>2 DEF Counted
    <3>6. attempts[d] \in Nat /\ posts[d] \in Nat BY <1>4
    <3> QED BY <1>4, <2>1, <2>3, <3>1, <3>4, <3>5, <3>6, WebhookAssumption DEF WebhookAssumption
  <2> QED BY <2>1, <2>2, <2>3
<1> QED BY <1>6, <1>7

\* Disabling an endpoint ends its runs and touches no other.
LEMMA DisableRun ==
  ASSUME IInv, RunInv, NEW e \in Endpoints, Disable(e)
  PROVE  /\ RunInv'
         /\ \A x \in Duties : queue[x] # 0 /\ queue'[x] # queue[x] => x[1] \notin active'
<1>1. /\ UNCHANGED <<attempts, claimed, result, heard, posts>> /\ e \notin active'
      /\ queue' = [x \in Duties |-> IF x[1] = e /\ queue[x] # 0 THEN 0 ELSE queue[x]]
  BY DEF Disable, workers
<1>2. \A x \in Duties : queue'[x] \in {0, queue[x]} BY <1>1
<1>3. ASSUME NEW v \in Workers, claimed'[v] # None
      PROVE  /\ claimed'[v] \in Duties \X (1..MaxRuns) \X Nat
             /\ queue'[claimed'[v][1]] = claimed'[v][2] =>
                  claimed'[v][3] =< attempts'[claimed'[v][1]] /\ (result'[v] = "ok" => claimed'[v][1] \in heard')
  <2>1. /\ claimed[v] \in Duties \X (1..MaxRuns) \X Nat
        /\ queue[claimed[v][1]] = claimed[v][2] =>
             claimed[v][3] =< attempts[claimed[v][1]] /\ (result[v] = "ok" => claimed[v][1] \in heard)
    BY <1>1, <1>3 DEF RunInv
  <2>2. claimed[v][1] \in Duties /\ claimed[v][2] # 0 BY <2>1
  <2> QED BY <1>1, <1>2, <2>1, <2>2
<1>4. ASSUME NEW x \in Duties, queue'[x] # 0 PROVE Counted(x)'
  <2>1. queue'[x] = queue[x] BY <1>2, <1>4
  <2>2. Posted(x)' = Posted(x) /\ Counted(x) BY <1>1, <1>4, <2>1 DEF Posted, RunInv
  <2> QED BY <1>1, <2>2 DEF Counted
<1>5. RunInv' BY <1>1, <1>3, <1>4 DEF RunInv
<1> QED BY <1>1, <1>5

\* Every step keeps the count, and ends a run for a reason only.
LEMMA RunStep ==
  ASSUME IInv, RunInv, [Next]_vars
  PROVE  /\ RunInv'
         /\ \A d \in Duties : queue[d] # 0 /\ queue'[d] # queue[d] =>
              d \in heard \/ posts[d] > Budget \/ d[1] \notin active'
<1> DEFINE Cause == \A d \in Duties : queue[d] # 0 /\ queue'[d] # queue[d] =>
                      d \in heard \/ posts[d] > Budget \/ d[1] \notin active'
<1> SUFFICES RunInv' /\ Cause
  OBVIOUS
<1>a. ASSUME UNCHANGED <<queue, attempts, claimed, result, heard, posts>> PROVE RunInv' /\ Cause
  BY <1>a, RunFrame
<1>b. ASSUME NEW d \in Duties, Start(d), UNCHANGED <<claimed, result>> PROVE RunInv' /\ Cause
  <2>1. \A x \in Duties : queue[x] # 0 => queue'[x] = queue[x]
    BY <1>b DEF Start, IInv, QueueInv
  <2> QED BY <1>b, <2>1, StartRun
<1>1. CASE UNCHANGED vars BY <1>1, <1>a DEF vars, rows, workers, history
<1>2. CASE Bus BY <1>2, <1>a DEF Bus, rows, workers, history
<1>3. CASE \E p \in Positions : Receive(p) BY <1>3, <1>a DEF Receive, rows, workers
<1>4. ASSUME NEW e \in Endpoints, EnqueueOne(e) PROVE RunInv' /\ Cause
  <2>1. hand \in 1..Len(log) BY <1>4 DEF EnqueueOne, IInv, ConsumerInv, BusInv
  <2>2. <<e, log[hand]>> \in Duties BY <2>1, LogHappened DEF IInv
  <2>3. Start(<<e, log[hand]>>) /\ UNCHANGED <<claimed, result>> BY <1>4 DEF EnqueueOne, workers
  <2> QED BY <1>b, <2>2, <2>3
<1>5. CASE Ack \/ HandlerFails BY <1>5, <1>a DEF Ack, HandlerFails, rows, workers, history
<1>6. ASSUME NEW w \in Workers, NEW d \in Duties, Claim(w, d) PROVE RunInv' /\ Cause
  <2>1. queue' = queue BY <1>6 DEF Claim, rows
  <2> QED BY <1>6, <2>1, ClaimRun
<1>7. ASSUME NEW w \in Workers, Post(w) PROVE RunInv' /\ Cause
  <2>1. queue' = queue BY <1>7 DEF Post, rows
  <2> QED BY <1>7, <2>1, PostRun
<1>8. ASSUME NEW w \in Workers, Settle(w) PROVE RunInv' /\ Cause
  BY <1>8, SettleRun
<1>9. ASSUME NEW w \in Workers, WorkerCrash(w) PROVE RunInv' /\ Cause
  <2>1. /\ claimed[w] # None /\ claimed' = [claimed EXCEPT ![w] = None] /\ result' = [result EXCEPT ![w] = "none"]
        /\ UNCHANGED <<queue, attempts, heard, posts>>
    BY <1>9 DEF WorkerCrash, rows, history
  <2> QED BY <2>1, ReleaseRun
<1>10. ASSUME NEW e \in Endpoints, Enable(e) PROVE RunInv' /\ Cause
  BY <1>10, <1>a DEF Enable, rows, workers, history
<1>11. ASSUME NEW e \in Endpoints, Disable(e) PROVE RunInv' /\ Cause
  BY <1>11, DisableRun
<1>12. CASE \E d \in Duties : ReplayRead(d) BY <1>12, <1>a DEF ReplayRead, rows, workers, history
<1>13. CASE ReplayInsert
  <2>1. replay \in Duties /\ Start(replay) /\ UNCHANGED <<claimed, result>>
    BY <1>13 DEF ReplayInsert, workers, IInv, QueueInv, Happened
  <2> QED BY <1>b, <2>1
<1> QED BY <1>1, <1>2, <1>3, <1>4, <1>5, <1>6, <1>7, <1>8, <1>9, <1>10, <1>11, <1>12, <1>13 DEF Next, Consume, Dispatch

\* A run leaves the queue only because its endpoint answered it, because it was
\* posted Budget + 1 times, or because the operator disabled the endpoint: the
\* fences of Dequeue and RescheduleQueued suffice for any number of overlapping
\* workers, crashes and replays.
THEOREM RunsEndWithCause == Spec => RunsEndForCause
<1>1. IInv /\ RunInv /\ [Next]_vars => RunInv'
  BY RunStep
<1>2. IInv /\ RunInv /\ [Next]_vars =>
        [\A d \in Duties : queue[d] # 0 /\ queue'[d] # queue[d] =>
           d \in heard \/ posts[d] > Budget \/ d[1] \notin active']_vars
  BY RunStep
<1> QED BY <1>1, <1>2, RunInit, Invariance, PTL DEF Spec, RunsEndForCause

=============================================================================
