----------------------------- MODULE PrivateStream -----------------------------
(***************************************************************************)
(* internal/stream's private channel on internal/eventbus: one connection  *)
(* of one account, from the binding to the feed through the hold, the      *)
(* replay of the outbox and the release, and the client of                 *)
(* web/trade/src/ws/private.ts that reconnects and resumes.                *)
(*                                                                         *)
(* Account is the connection's; the events of others only take ids.  A     *)
(* frame is its outbox row.  A full send buffer, a failed page and a       *)
(* server that restarts close the connection like a lost one (Drop); the   *)
(* fills channel, which is not resumable, is left out.                     *)
(***************************************************************************)
EXTENDS EventBus

CONSTANTS
  Account,
  MaxHeld,   \* 4 * STREAM_WRITE_BUFFER
  PageSize   \* STREAM_RESUME_PAGE_SIZE

ASSUME PrivateAssumption ==
  Account \in Accounts /\ MaxHeld \in Nat /\ PageSize \in Nat \ {0}

VARIABLES
  pos,      \* the feed: position in log of each stream's ordered consumer
  carry,    \* the feed: a frame it decided to send straight away and has not sent, or 0
  phase,    \* the connection: "closed", "open", "bound", "read", "held", "live"
  authSeq,  \* pv.accountSeq
  held,     \* pv.held
  fired,    \* the hold timer's function has started and waits for c.mu
  replay,   \* resume: "no", "pages", "done"
  since,    \* resume: the sequence it was accepted from (kept until the connection
            \* closes, for the properties), or Null
  last,     \* resume: the last sequence replayed
  wire,     \* messages to the client
  served,   \* history: the events of the frames sent on this connection
  up,       \* the operation the server has not read: <<>>, <<"auth">>, <<"resume", n>>
  client,   \* "away", "authenticating", "live"
  lastSeq,  \* the client's resume point, or Null
  got       \* events the client knows, by frame or by its REST lists

feed    == <<pos, carry>>
pv      == <<authSeq, held, fired, replay, since, last>>
outward == <<wire, served>>
page    == <<client, lastSeq, got>>
vars    == <<busVars, feed, phase, pv, outward, up, page>>

Null == MaxRows + 1  \* no sequence

Closed ==
  /\ phase' = "closed" /\ wire' = << >> /\ served' = {} /\ up' = << >> /\ client' = "away"
  /\ authSeq' = 0 /\ held' = << >> /\ fired' = FALSE /\ replay' = "no" /\ since' = Null /\ last' = 0
  /\ carry' = [s \in Domains |-> 0]

Init ==
  /\ BusInit
  /\ pos = [s \in Domains |-> 0] /\ carry = [s \in Domains |-> 0]
  /\ phase = "closed" /\ wire = << >> /\ served = {} /\ up = << >>
  /\ authSeq = 0 /\ held = << >> /\ fired = FALSE /\ replay = "no" /\ since = Null /\ last = 0
  /\ client = "away" /\ lastSeq = Null /\ got = {}

\* What a query of the account's rows sees.
Seen == {i \in Committed : acct[i] = Account}

Bus == BusNext /\ UNCHANGED <<feed, phase, pv, outward, up, page>>

-----------------------------------------------------------------------------
(* The server: authenticate.                                               *)

Bind ==
  /\ phase = "open" /\ up = <<"auth">>
  /\ phase' = "bound" /\ up' = << >>
  /\ UNCHANGED <<busVars, feed, pv, outward, page>>

ReadSeq ==
  /\ phase = "bound" /\ phase' = "read"
  /\ authSeq' = Cardinality(Seen)
  /\ UNCHANGED <<busVars, feed, held, fired, replay, since, last, outward, up, page>>

\* The hold begins and its timer starts; then the acknowledgement is sent.
Acknowledge ==
  /\ phase = "read" /\ phase' = "held"
  /\ wire' = Append(wire, <<"auth", authSeq>>)
  /\ UNCHANGED <<busVars, feed, pv, served, up, page>>

-----------------------------------------------------------------------------
(* The server: goLive and resume.                                          *)

\* What goLive lets through: everything held, or what follows the replay.
Released(after) == SelectSeq(held, LAMBDA i : aseq[i] > after)
AsFrames(s) == [k \in 1..Len(s) |-> <<"frame", s[k]>>]

\* The events of s, then the server's answer if there is one.
SendAll(s, answer) ==
  /\ wire' = wire \o AsFrames(s) \o answer
  /\ served' = served \cup {s[k] : k \in 1..Len(s)}

\* The window is over.  Stopping the timer does not stop a function that runs.
HoldExpires ==
  /\ phase = "held" /\ ~fired /\ replay = "no" /\ fired' = TRUE
  /\ UNCHANGED <<busVars, feed, phase, authSeq, held, replay, since, last, outward, up, page>>

ExpiredGoLive ==
  /\ fired /\ fired' = FALSE
  /\ IF phase = "held"
       THEN phase' = "live" /\ held' = << >> /\ SendAll(held, << >>)
       ELSE UNCHANGED <<phase, held, outward>>
  /\ UNCHANGED <<busVars, feed, authSeq, replay, since, last, up, page>>

\* resume_too_late once it is live, resume_failed for a client ahead of the account.
ResumeRefused ==
  /\ up # << >> /\ up[1] = "resume" /\ replay = "no"
  /\ phase = "live" \/ (phase = "held" /\ up[2] > authSeq)
  /\ up' = << >> /\ phase' = "live" /\ held' = << >>
  /\ wire' = Append(wire, <<"error">>) \o AsFrames(held)
  /\ served' = served \cup {held[k] : k \in 1..Len(held)}
  /\ UNCHANGED <<busVars, feed, authSeq, fired, replay, since, last, page>>

Resume ==
  /\ up # << >> /\ up[1] = "resume" /\ phase = "held" /\ up[2] =< authSeq
  /\ up' = << >> /\ replay' = "pages" /\ since' = up[2] /\ last' = up[2]
  /\ UNCHANGED <<busVars, feed, phase, authSeq, held, fired, outward, page>>

\* ByAccountSince: at most PageSize rows after last, in their order.
PageAfter(n, b) ==
  LET rest == {i \in Seen : aseq[i] > n} IN
  /\ Len(b) = IF Cardinality(rest) < PageSize THEN Cardinality(rest) ELSE PageSize
  /\ \A k \in 1..Len(b) : b[k] \in rest /\ Cardinality({i \in rest : aseq[i] < aseq[b[k]]}) = k - 1

ReplayPage ==
  /\ replay = "pages"
  /\ \E n \in 0..PageSize : \E b \in [1..n -> Seen] :
       /\ PageAfter(last, b)
       /\ SendAll(b, << >>)
       /\ last' = IF n = 0 THEN last ELSE aseq[b[n]]
       /\ replay' = IF n < PageSize THEN "done" ELSE "pages"
  /\ UNCHANGED <<busVars, feed, phase, authSeq, held, fired, since, up, page>>

\* goLive(&last), unless the timer's function came first; then the answer.
FinishResume ==
  /\ replay = "done" /\ replay' = "no" /\ last' = 0
  /\ phase' = "live" /\ held' = << >>
  /\ SendAll(IF phase = "held" THEN Released(last) ELSE << >>, <<<<"resumed">>>>)
  /\ UNCHANGED <<busVars, feed, authSeq, fired, since, up, page>>

-----------------------------------------------------------------------------
(* The feed: deliverEvent.                                                 *)

NextOf(s, p) ==
  /\ p \in (pos[s] + 1)..Len(log) /\ dom[log[p]] = s
  /\ \A q \in (pos[s] + 1)..(p - 1) : dom[log[q]] # s

\* Mutant of Hold: a frame too many is dropped, not the connection.
HoldWhatFits(i) ==
  /\ held' = IF Len(held) < MaxHeld THEN Append(held, i) ELSE held
  /\ UNCHANGED <<phase, authSeq, fired, replay, since, last, outward, up, client, carry>>

\* A frame for a connection that holds; one too many closes it.
Hold(i) ==
  IF Len(held) < MaxHeld
    THEN /\ held' = Append(held, i)
         /\ UNCHANGED <<phase, authSeq, fired, replay, since, last, outward, up, client, carry>>
    ELSE Closed

Deliver(s, p) ==
  /\ NextOf(s, p) /\ carry[s] = 0
  /\ pos' = [pos EXCEPT ![s] = p]
  /\ IF acct[log[p]] # Account \/ phase \in {"closed", "open"}
       THEN UNCHANGED <<phase, pv, outward, up, client, carry>>
       ELSE IF phase = "held" THEN Hold(log[p])
       ELSE /\ carry' = [carry EXCEPT ![s] = log[p]]
            /\ UNCHANGED <<phase, pv, outward, up, client>>
  /\ UNCHANGED <<busVars, lastSeq, got>>

\* The lock is released between the decision and the send.
Send(s) ==
  /\ carry[s] # 0 /\ carry' = [carry EXCEPT ![s] = 0]
  /\ SendAll(<<carry[s]>>, << >>)
  /\ UNCHANGED <<busVars, pos, phase, pv, up, page>>

\* The connection is lost, or the server with it: its feed starts from the end.
Drop ==
  /\ phase # "closed" /\ Fault /\ Closed
  /\ pos' \in {pos, [s \in Domains |-> Len(log)]}
  /\ UNCHANGED <<outbox, relay, server, lastSeq, got>>

-----------------------------------------------------------------------------
(* The client.                                                             *)

Connect ==
  /\ client = "away" /\ client' = "authenticating"
  /\ phase' = "open" /\ up' = <<"auth">>
  /\ UNCHANGED <<busVars, feed, pv, outward, lastSeq, got>>

Reads(kind) == wire # << >> /\ Head(wire)[1] = kind /\ wire' = Tail(wire)

\* The first connection: the lists are fetched, live frames follow.  Its ping
\* changes nothing: the server answers it before it looks at the hold.
OnFirstAuth ==
  /\ Reads("auth") /\ lastSeq = Null
  /\ lastSeq' = Head(wire)[2] /\ got' = got \cup Seen /\ client' = "live"
  /\ UNCHANGED <<busVars, feed, phase, pv, served, up>>

OnAuth ==
  /\ Reads("auth") /\ lastSeq # Null
  /\ up' = <<"resume", lastSeq>>
  /\ UNCHANGED <<busVars, feed, phase, pv, served, page>>

OnResumed ==
  /\ Reads("resumed") /\ client' = "live"
  /\ UNCHANGED <<busVars, feed, phase, pv, served, up, lastSeq, got>>

\* resume_too_late or resume_failed: the lists are fetched again.
OnError ==
  /\ Reads("error") /\ client' = "live" /\ lastSeq' = Null /\ got' = got \cup Seen
  /\ UNCHANGED <<busVars, feed, phase, pv, served, up>>

\* Every frame moves the resume point, before and during the replay too.
OnFrame ==
  /\ Reads("frame")
  /\ LET i == Head(wire)[2] IN
     /\ got' = got \cup {i}
     /\ lastSeq' = IF lastSeq = Null \/ aseq[i] > lastSeq THEN aseq[i] ELSE lastSeq
  /\ UNCHANGED <<busVars, feed, phase, pv, served, up, client>>

-----------------------------------------------------------------------------
Server ==
  \/ Bind \/ ReadSeq \/ Acknowledge \/ HoldExpires \/ ExpiredGoLive
  \/ ResumeRefused \/ Resume \/ ReplayPage \/ FinishResume
Feed == \E s \in Domains : (\E p \in 1..MaxLog : Deliver(s, p)) \/ Send(s)
Client == Connect \/ OnFirstAuth \/ OnAuth \/ OnResumed \/ OnError \/ OnFrame

Next == Bus \/ Server \/ Feed \/ Client \/ Drop

Spec == Init /\ [][Next]_vars

\* Every goroutine keeps running, and the client reconnects for ever.
Fairness == BusFairness /\ WF_vars(Server) /\ WF_vars(Feed) /\ WF_vars(Client)
FairSpec == Spec /\ Fairness

-----------------------------------------------------------------------------
(* Properties.                                                             *)

\* What can still reach this connection: sent on it, decided, held and not
\* below what was replayed, due in a page, or not yet met by its stream's consumer.
Coming(i) ==
  \/ i \in served \/ \E s \in Domains : carry[s] = i
  \/ phase = "held" /\ (\E k \in 1..Len(held) : held[k] = i) /\ (replay # "no" => aseq[i] > last)
  \/ replay = "pages" /\ aseq[i] > last
  \/ \A p \in 1..pos[dom[i]] : log[p] # i

\* "No frame is lost ... across the join" (docs/ws-api.md), of the server's part:
\* a connection with its acknowledgement is sent every event of the account
\* after the sequence it resumed from, or after the one in the acknowledgement
\* if it does not resume.  An event may be committed, relayed (twice) and
\* delivered by either stream's consumer before or after the binding, the reading
\* of the sequence, the hold, each page and the release, and the hold's timer may
\* run during the replay: none of this may drop it.
JoinIsComplete ==
  phase \in {"held", "live"} =>
    \A i \in Seen : aseq[i] > (IF since = Null THEN authSeq ELSE since) => Coming(i)

\* An event the client's resume point has passed without it, and that nothing
\* will bring any more: no later resume asks for it.
PassedOver(i) == lastSeq # Null /\ aseq[i] =< lastSeq /\ ~Coming(i)

\* An event that is committed reaches the client over the feed, the replay or its
\* lists, however often the connection is closed on it, unless the client itself
\* has moved its resume point beyond it.  This exception is a real loss (see
\* ResumeLosesNothing); a frame dropped by the server, which the resume point has
\* not passed, is not excepted.
CatchesUp ==
  \A i \in Rows : (state[i] = "committed" /\ acct[i] = Account) ~> i \in got \/ PassedOver(i)

\* docs/ws-api.md of the client and the server together: a live client has every
\* event up to its resume point.  Violated, with one stream and a lost connection
\* (a frame sent before the acknowledgement or during the replay moves the resume
\* point past what the replay was to send) and with two streams and none (the
\* frame of one overtakes an earlier one of the other).
ResumeLosesNothing ==
  client = "live" => \A i \in Seen : lastSeq # Null /\ aseq[i] =< lastSeq => i \in got
===============================================================================
