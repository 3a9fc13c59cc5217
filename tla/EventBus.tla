-------------------------------- MODULE EventBus --------------------------------
(***************************************************************************)
(* internal/eventbus: how an event of a business transaction reaches       *)
(* JetStream.  The transaction writes its event to the outbox, the relay   *)
(* of the engine role publishes committed rows in id order and marks them, *)
(* and the server drops a message id it has seen within its window.        *)
(*                                                                         *)
(* Ids are taken when a row is inserted and rows become visible when their *)
(* transaction commits, so ids of different accounts may appear out of     *)
(* order; an account's own events are numbered under the lock of its row.  *)
(* The streams are one log here: a consumer of a stream reads the messages *)
(* of its domain in their order.  Retention is left out.                   *)
(***************************************************************************)
EXTENDS Naturals, Sequences, FiniteSets

CONSTANTS
  MaxRows,      \* bound: outbox rows
  Accounts,     \* accounts the events belong to
  Domains,      \* streams: "trading", "chain"
  BatchSize,    \* RelayConfig.BatchSize
  MaxLog,       \* bound: messages the server keeps
  MaxFaults     \* bound: failures and crashes

ASSUME EventBusAssumption ==
  /\ MaxRows \in Nat /\ BatchSize \in Nat \ {0} /\ MaxLog \in Nat /\ MaxFaults \in Nat

Rows == 1..MaxRows

VARIABLES
  state,     \* of each eventbus.outbox id: "none", "open" (in a transaction), "committed", "void"
  acct,      \* account_id
  aseq,      \* account_seq
  dom,       \* the stream its subject belongs to
  published, \* rows with published_at
  batch,     \* the relay: rows of this Drain still to publish
  sent,      \* the relay: rows published and not marked
  log,       \* the server: message ids (rows) in the order they were stored
  recent,    \* the server: message ids within the duplicate window
  faults

outbox  == <<state, acct, aseq, dom>>
relay   == <<batch, sent, published>>
server  == <<log, recent>>
busVars == <<outbox, relay, server, faults>>

BusInit ==
  /\ state = [i \in Rows |-> "none"] /\ aseq = [i \in Rows |-> 0]
  /\ acct \in [Rows -> Accounts] /\ dom \in [Rows -> Domains]
  /\ published = {} /\ batch = << >> /\ sent = {}
  /\ log = << >> /\ recent = {} /\ faults = 0

Fault == faults < MaxFaults /\ faults' = faults + 1

-----------------------------------------------------------------------------
(* Producers.                                                              *)

Of(a) == {i \in Rows : acct[i] = a /\ state[i] \in {"open", "committed"}}
AccountSeq(a) == Cardinality(Of(a))
Committed == {i \in Rows : state[i] = "committed"}

NextId(i) == state[i] = "none" /\ \A j \in Rows : j < i => state[j] # "none"

Insert(i) ==
  /\ state' = [state EXCEPT ![i] = "open"]
  /\ aseq' = [aseq EXCEPT ![i] = AccountSeq(acct[i]) + 1]
  /\ UNCHANGED <<acct, dom, relay, server, faults>>

\* Mutant of Append: the account's row is not locked.
AppendUnlocked(i) == NextId(i) /\ Insert(i)

\* Outbox.Append, after the account's sequence was advanced under its row lock.
AppendEvent(i) ==
  /\ NextId(i) /\ \A j \in Of(acct[i]) : state[j] # "open"
  /\ Insert(i)

\* The business transaction ends.
Commit(i) ==
  /\ state[i] = "open" /\ state' = [state EXCEPT ![i] = "committed"]
  /\ UNCHANGED <<acct, aseq, dom, relay, server, faults>>

Rollback(i) ==
  /\ state[i] = "open" /\ state' = [state EXCEPT ![i] = "void"]
  /\ UNCHANGED <<acct, aseq, dom, relay, server, faults>>

-----------------------------------------------------------------------------
(* The relay.                                                              *)

Unpublished == Committed \ published

\* b is the n lowest ids of S, in order.
Lowest(S, n, b) ==
  /\ \A k, m \in 1..n : k < m => b[k] < b[m]
  /\ \A i \in S : i =< b[n] => \E k \in 1..n : b[k] = i

\* ListUnpublished.
ListBatch ==
  /\ batch = << >> /\ sent = {} /\ Unpublished # {}
  /\ \E n \in {m \in 1..BatchSize : m = BatchSize \/ m = Cardinality(Unpublished)} :
       \E b \in [1..n -> Unpublished] : Lowest(Unpublished, n, b) /\ batch' = b
  /\ UNCHANGED <<outbox, sent, published, server, faults>>

\* The server stores a message unless its id is within the window.
Store(i) ==
  IF i \in recent THEN UNCHANGED server
  ELSE /\ Len(log) < MaxLog /\ log' = Append(log, i)
       /\ recent' = recent \cup {i}

Publish ==
  /\ batch # << >> /\ Store(Head(batch))
  /\ sent' = sent \cup {Head(batch)} /\ batch' = Tail(batch)
  /\ UNCHANGED <<outbox, published, faults>>

\* Mutant of PublishFails: the whole batch counts as published.
PublishFailsUnnoticed ==
  /\ batch # << >> /\ Fault
  /\ sent' = sent \cup {Head(batch)} /\ batch' = Tail(batch)
  /\ UNCHANGED <<outbox, published, server>>

\* A failed publish, stored or not, ends the batch; what went before is marked.
PublishFails ==
  /\ batch # << >> /\ Fault
  /\ UNCHANGED server \/ Store(Head(batch))
  /\ batch' = << >>
  /\ UNCHANGED <<outbox, sent, published>>

MarkPublished ==
  /\ batch = << >> /\ sent # {}
  /\ published' = published \cup sent /\ sent' = {}
  /\ UNCHANGED <<outbox, batch, server, faults>>

\* The engine dies, or the marking fails: the rows are published again.
RelayCrash ==
  /\ Fault /\ (batch # << >> \/ sent # {})
  /\ batch' = << >> /\ sent' = {}
  /\ UNCHANGED <<outbox, published, server>>

WindowPasses ==
  /\ recent # {} /\ recent' = {}
  /\ UNCHANGED <<outbox, relay, log, faults>>

RelayStep == ListBatch \/ Publish \/ MarkPublished

BusNext ==
  \/ \E i \in Rows : AppendEvent(i) \/ Commit(i) \/ Rollback(i)
  \/ RelayStep \/ PublishFails \/ RelayCrash \/ WindowPasses

BusFairness == WF_busVars(RelayStep) /\ WF_busVars(\E i \in Rows : Commit(i) \/ Rollback(i))

===============================================================================
