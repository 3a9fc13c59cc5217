-------------------------------- MODULE Webhook --------------------------------
(***************************************************************************)
(* internal/webhook on internal/eventbus: the durable consumer that turns  *)
(* messages into queue rows, the dispatchers that POST what is due and     *)
(* settle each attempt, and the operator who disables endpoints and        *)
(* replays events.                                                         *)
(*                                                                         *)
(* A run is one pass of an event through the retry schedule.  Every        *)
(* endpoint subscribes to every event; the waits of the schedule are any   *)
(* time at all, secrets and signatures are left out.  A POST succeeds,     *)
(* fails, or reaches an endpoint whose answer is lost.                     *)
(***************************************************************************)
EXTENDS EventBus

CONSTANTS
  Endpoints,
  Workers,     \* worker processes, or ticks that overlap in one
  Budget,      \* length of WEBHOOK_BACKOFF
  MaxDeliver,  \* ConsumerConfig.MaxDeliver
  MaxRuns,     \* bound: runs queued or claimed at one time
  MaxToggles, MaxReplays  \* bounds

ASSUME WebhookAssumption ==
  /\ Budget \in Nat /\ MaxDeliver \in Nat \ {0} /\ {MaxRuns, MaxToggles, MaxReplays} \subseteq Nat

Duties == Endpoints \X Rows
Positions == 1..MaxLog

VARIABLES
  active,    \* webhook.endpoints.status = 'active'
  tries,     \* the server: deliveries of each message
  done,      \* the server: messages acknowledged
  hand,      \* the message in the consumer's handler, or 0
  want,      \* the endpoints its Enqueue still has to write
  queue,     \* webhook.queue: the run of each duty, or 0
  attempts,  \* webhook.queue.attempts
  ended,     \* webhook.deliveries: duties with a run recorded dead
  recorded,  \* webhook.deliveries: duties with a row
  claimed,   \* what each worker claimed and has not settled: <<duty, run, attempts>>
  result,    \* the outcome of its POST: "none", "ok", "fail"
  replay,    \* the duty an operator's transaction is about to queue, or none
  told,      \* the endpoints' side: duties they answered with 2xx
  heard,     \* duties whose current run they answered so
  posts,     \* POSTs of the current run, counted up to Budget + 1
  dropped,   \* duties let go because their endpoint was not active
  toggles, replays

consumer == <<tries, done, hand, want>>
rows     == <<queue, attempts, ended, recorded>>
workers  == <<claimed, result>>
history  == <<told, heard, posts, dropped>>
counts   == <<toggles, replays>>
vars == <<busVars, active, consumer, rows, workers, replay, history, counts>>

None == << >>

Init ==
  /\ BusInit
  /\ active = Endpoints
  /\ tries = [p \in Positions |-> 0] /\ done = {} /\ hand = 0 /\ want = {}
  /\ queue = [d \in Duties |-> 0] /\ attempts = [d \in Duties |-> 0]
  /\ ended = {} /\ recorded = {}
  /\ claimed = [w \in Workers |-> None] /\ result = [w \in Workers |-> "none"]
  /\ replay = None
  /\ told = {} /\ heard = {} /\ posts = [d \in Duties |-> 0] /\ dropped = {}
  /\ toggles = 0 /\ replays = 0

Bus == BusNext /\ UNCHANGED <<active, consumer, rows, workers, replay, history, counts>>

-----------------------------------------------------------------------------
(* The durable consumer.                                                   *)

Undelivered(p) == p \in 1..Len(log) /\ p \notin done /\ tries[p] < MaxDeliver

\* A message arrives: Enqueue reads the active endpoints.
Receive(p) ==
  /\ hand = 0 /\ Undelivered(p)
  /\ tries' = [tries EXCEPT ![p] = @ + 1]
  /\ hand' = p /\ want' = active
  /\ dropped' = dropped \cup {<<e, log[p]>> : e \in Endpoints \ active}
  /\ UNCHANGED <<busVars, active, done, rows, workers, replay, told, heard, posts, counts>>

\* The ids of runs nobody holds any more stand for one another; a new run takes
\* the lowest.
InUse(r) == (\E d \in Duties : queue[d] = r) \/ (\E w \in Workers : claimed[w] # None /\ claimed[w][2] = r)
NewRun(r) == ~InUse(r) /\ \A q \in 1..MaxRuns : q < r => InUse(q)

\* A new queue row, unless one waits already.
Start(d) ==
  IF queue[d] # 0 THEN UNCHANGED <<queue, attempts, heard, posts>>
  ELSE \E r \in 1..MaxRuns :
         /\ NewRun(r) /\ queue' = [queue EXCEPT ![d] = r]
         /\ attempts' = [attempts EXCEPT ![d] = 0]
         /\ heard' = heard \ {d} /\ posts' = [posts EXCEPT ![d] = 0]

\* One statement of Enqueue per endpoint.
EnqueueOne(e) ==
  /\ hand # 0 /\ e \in want
  /\ Start(<<e, log[hand]>>)
  /\ want' = want \ {e}
  /\ UNCHANGED <<busVars, active, tries, done, hand, ended, recorded, workers, replay, told, dropped, counts>>

\* Mutant of Ack: the message is acknowledged as soon as the handler has it.
AckFirst ==
  /\ hand # 0 /\ done' = done \cup {hand}
  /\ UNCHANGED <<busVars, active, tries, hand, want, rows, workers, replay, history, counts>>

Ack ==
  /\ hand # 0 /\ want = {}
  /\ done' = done \cup {hand} /\ hand' = 0
  /\ UNCHANGED <<busVars, active, tries, want, rows, workers, replay, history, counts>>

\* The handler fails, its process dies, or its ack is lost: delivered again,
\* at most MaxDeliver times.
HandlerFails ==
  /\ hand # 0 /\ Fault /\ hand' = 0 /\ want' = {}
  /\ UNCHANGED <<outbox, relay, server, active, tries, done, rows, workers, replay, history, counts>>

-----------------------------------------------------------------------------
(* The dispatchers.                                                        *)

\* ClaimDue: the row stays as it is, so another worker may claim it too.
Claim(w, d) ==
  /\ claimed[w] = None /\ queue[d] # 0 /\ d[1] \in active
  /\ claimed' = [claimed EXCEPT ![w] = <<d, queue[d], attempts[d]>>]
  /\ UNCHANGED <<busVars, active, consumer, rows, result, replay, history, counts>>

Post(w) ==
  LET d == claimed[w][1]  r == claimed[w][2] IN
  /\ claimed[w] # None /\ result[w] = "none"
  /\ posts' = IF queue[d] = r /\ posts[d] =< Budget THEN [posts EXCEPT ![d] = @ + 1] ELSE posts
  /\ \/ /\ told' = told \cup {d} /\ heard' = IF queue[d] = r THEN heard \cup {d} ELSE heard
        /\ \E x \in {"ok", "fail"} : result' = [result EXCEPT ![w] = x]
     \/ UNCHANGED <<told, heard>> /\ result' = [result EXCEPT ![w] = "fail"]
  /\ UNCHANGED <<busVars, active, consumer, rows, claimed, replay, dropped, counts>>

\* Mutant of Leave: the run is not compared.
LeaveAny(d, r) == queue' = [queue EXCEPT ![d] = 0]

\* Dequeue, fenced on the run.
Leave(d, r) == queue' = IF queue[d] = r THEN [queue EXCEPT ![d] = 0] ELSE queue

\* Mutant of Reschedule: the failure is not counted.
RescheduleUncounted(d, r) == UNCHANGED attempts

\* RescheduleQueued, fenced too; each worker adds one to what the row has now.
Reschedule(d, r) == attempts' = IF queue[d] = r THEN [attempts EXCEPT ![d] = @ + 1] ELSE attempts

\* The schedule has no step left for a claim made at a attempts.  Its mutant
\* gives up one step early.
OutOfStepsEarly(a) == a + 1 >= Budget
OutOfSteps(a) == a >= Budget

\* settle, in one transaction: the attempt's row, and the queue's.
Settle(w) ==
  LET d == claimed[w][1]  r == claimed[w][2]  a == claimed[w][3] IN
  /\ result[w] # "none" /\ recorded' = recorded \cup {d}
  /\ IF result[w] = "ok" \/ OutOfSteps(a)
       THEN /\ Leave(d, r) /\ UNCHANGED attempts
            /\ ended' = IF result[w] = "ok" THEN ended ELSE ended \cup {d}
       ELSE Reschedule(d, r) /\ UNCHANGED <<queue, ended>>
  /\ claimed' = [claimed EXCEPT ![w] = None] /\ result' = [result EXCEPT ![w] = "none"]
  /\ UNCHANGED <<busVars, active, consumer, replay, history, counts>>

WorkerCrash(w) ==
  /\ claimed[w] # None /\ Fault
  /\ claimed' = [claimed EXCEPT ![w] = None] /\ result' = [result EXCEPT ![w] = "none"]
  /\ UNCHANGED <<outbox, relay, server, active, consumer, rows, replay, history, counts>>

-----------------------------------------------------------------------------
(* The operator.                                                           *)

Enable(e) ==
  /\ e \notin active /\ active' = active \cup {e}
  /\ UNCHANGED <<busVars, consumer, rows, workers, replay, history, counts>>

\* SetStatus: disabling drops what is queued, in the same transaction.
Disable(e) ==
  LET mine == {d \in Duties : d[1] = e /\ queue[d] # 0} IN
  /\ e \in active /\ toggles < MaxToggles /\ toggles' = toggles + 1
  /\ active' = active \ {e}
  /\ queue' = [d \in Duties |-> IF d \in mine THEN 0 ELSE queue[d]]
  /\ dropped' = dropped \cup mine
  /\ UNCHANGED <<busVars, consumer, attempts, ended, recorded, workers, replay, told, heard, posts, replays>>

\* Replay, two statements of a read-committed transaction.
ReplayRead(d) ==
  /\ replay = None /\ replays < MaxReplays /\ replays' = replays + 1
  /\ d \in recorded /\ d[1] \in active
  /\ replay' = d
  /\ UNCHANGED <<busVars, active, consumer, rows, workers, history, toggles>>

ReplayInsert ==
  /\ replay # None /\ Start(replay) /\ replay' = None
  /\ UNCHANGED <<busVars, active, consumer, ended, recorded, workers, told, dropped, counts>>

-----------------------------------------------------------------------------
Consume == (\E p \in Positions : Receive(p)) \/ (\E e \in Endpoints : EnqueueOne(e)) \/ Ack
Dispatch(w) == (\E d \in Duties : Claim(w, d)) \/ Post(w) \/ Settle(w)

Next ==
  \/ Bus \/ Consume \/ HandlerFails
  \/ \E w \in Workers : Dispatch(w) \/ WorkerCrash(w)
  \/ \E e \in Endpoints : Enable(e) \/ Disable(e)
  \/ \E d \in Duties : ReplayRead(d)
  \/ ReplayInsert

Spec == Init /\ [][Next]_vars

\* Every loop keeps running: the relay, the consumer, the workers, and the
\* operator's transaction.
Fairness ==
  /\ BusFairness /\ WF_vars(Consume) /\ \A w \in Workers : WF_vars(Dispatch(w))
  /\ WF_vars(ReplayInsert)
FairSpec == Spec /\ Fairness

-----------------------------------------------------------------------------
(* Properties.                                                             *)

\* A message the server will still deliver, or that is being handled.
Pending(p) == p \in 1..Len(log) /\ (hand = p \/ Undelivered(p))

Happened == {d \in Duties : state[d[2]] = "committed"}
Owed ==
  {d \in Happened :
     \/ d[2] \notin published
     \/ \E p \in 1..Len(log) : log[p] = d[2] /\ Pending(p)
     \/ queue[d] # 0}

\* The server gave up on a message of it (MaxDeliver), a run of it is recorded
\* dead, or its endpoint was not active.
GivenUp(d) == \E p \in 1..Len(log) : log[p] = d[2] /\ p \notin done /\ ~Pending(p)
Excused == dropped \cup ended \cup {d \in Duties : GivenUp(d)}

\* What docs/webhooks.md promises, end to end: between the commit of an event
\* and the end of its delivery it is always in the outbox, in the stream or in
\* the queue, whatever crashes, is published twice, is delivered again or is
\* settled by the wrong worker.  Only an acknowledged POST or a recorded reason
\* ends it.
Promise == INSTANCE AtLeastOnce WITH happened <- Happened, owed <- Owed, told <- told, excused <- Excused
Kept == Promise!Spec

\* A run leaves the queue for a reason of its own: its endpoint answered it, it
\* used the whole schedule, or the operator disabled the endpoint.  A worker
\* that settles late ends neither a later run (Dequeue's fence) nor, by counting
\* the same attempt twice, the run before Budget + 1 POSTs.
RunsEndForCause ==
  [][\A d \in Duties : queue[d] # 0 /\ queue'[d] # queue[d] =>
       d \in heard \/ posts[d] > Budget \/ d[1] \notin active']_vars

\* What is owed to an active endpoint is settled: retries are bounded, and no
\* row is left that no loop will pick up.
Settles == \A d \in Duties : d \in Owed ~> d \notin Owed \/ d[1] \notin active

\* SetStatus's and Replay's claim: nothing waits in the queue for an endpoint
\* that is not active, where ClaimDue would never find it.
NoUnreachableRow == \A d \in Duties : queue[d] # 0 => d[1] \in active
===============================================================================
