------------------------------ MODULE ShadowBook ------------------------------
(***************************************************************************)
(* internal/marketdata's book projector in internal/stream's feed: one     *)
(* market's shadow book, built from a snapshot of the open orders and the  *)
(* market's events, one delta per command, and a client's copy of it.      *)
(*                                                                         *)
(* Commands are Market's, each with the events the runner appends; events  *)
(* are delivered in order, after their commit and any time later, and a    *)
(* relay that starts over delivers the latest of them again.  What an      *)
(* event says of an order's side, price and type is read from its row,     *)
(* which never changes them.  The socket to the client is in order; the    *)
(* depth is not cut off, and tickers, candles and the cache are left out.  *)
(***************************************************************************)
EXTENDS Market

CONSTANTS
  MaxBuffer,   \* DefaultRebuildBuffer
  MaxRepeats   \* bound: relays that start over

ASSUME ShadowAssumption == MaxBuffer \in Nat /\ MaxRepeats \in Nat

VARIABLES
  stream,    \* the market's events in the order they were published
  delivered, \* how many of them the feed has handled
  proj,      \* the projector: [state, orders, seq, buffer, open]
  snap,      \* the rebuild goroutine's read of the open orders, or None
  client,    \* a subscriber's copy: [on, seq, levels]
  hist,      \* history: the engine's resting orders after each command
  early,     \* history: since the last rebuild a command was closed by the timer
  repeats

shadowVars == <<stream, delivered, proj, snap, client, hist, early, repeats>>
allVars == <<vars, shadowVars>>

None == << >>
Nothing == << >>  \* the empty function

-----------------------------------------------------------------------------
(* The events of a command.                                                *)

Event(s, type, id, maker, qty) == [seq |-> s, type |-> type, id |-> id, maker |-> maker, qty |-> qty]

\* The maker's own event after a fill; a command fills a maker at most once.
MakerEvent(s, maker) ==
  Event(s, IF maker.status = "filled" THEN "filled" ELSE "updated", maker.id, 0, maker.remaining)

TradeEvents(s, t, rows) == <<Event(s, "trade", t.taker, t.maker, t.qty), MakerEvent(s, rows[t.maker])>>

TakerEvent(s, o) ==
  IF o.status = "open" THEN << >>
  ELSE <<Event(s, IF o.status = "partially_filled" THEN "updated" ELSE o.status, o.id, 0, o.remaining)>>

\* walkPlace: a rejected order has its one event; an accepted one its own first
\* and, unless it rests untouched, last.
PlaceEvents(s, o, ts, rows) ==
  IF o.status = "rejected" THEN <<Event(s, "rejected", o.id, 0, 0)>>
  ELSE <<Event(s, "accepted", o.id, 0, o.qty)>>
         \o FlattenSeq([k \in DOMAIN ts |-> TradeEvents(s, ts[k], rows)])
         \o TakerEvent(s, o)

Place1 ==
  /\ \E a \in Accounts, in \in Inputs : Place(a, in)
  /\ stream' = IF seq' = seq THEN stream
               ELSE stream \o PlaceEvents(seq', orders'[Len(orders')], SubSeq(trades', Len(trades) + 1, Len(trades')), orders')

Cancel1 ==
  \E id \in DOMAIN orders :
    Cancel(id) /\ stream' = Append(stream, Event(seq', "cancelled", id, 0, orders[id].remaining))

EngineBook(b) == [i \in b.byID |-> (CHOOSE o \in Resting(b) : o.id = i).remaining]

Command ==
  /\ Place1 \/ Cancel1
  /\ hist' = IF seq' = seq THEN hist ELSE Append(hist, EngineBook(book'))
  /\ UNCHANGED <<delivered, proj, snap, client, early, repeats>>

-----------------------------------------------------------------------------
(* The shadow book: what it keeps of an order is what remains of it.       *)

Level(i) == <<orders[i].side, orders[i].price>>
Total(f, l) == MapThenSumSet(LAMBDA i : f[i], {i \in DOMAIN f : Level(i) = l})
LevelsOf(f) == [l \in {Level(i) : i \in DOMAIN f} |-> Total(f, l)]
Without(f, i) == [j \in DOMAIN f \ {i} |-> f[j]]
With(f, i, q) == [j \in DOMAIN f \cup {i} |-> IF j = i THEN q ELSE f[j]]

\* Book.reduce; at zero the order leaves.
Reduced(f, i, q) == IF f[i] = q THEN Without(f, i) ELSE With(f, i, f[i] - q)
CanReduce(f, i, q) == i \in DOMAIN f /\ q =< f[i]

Bad(x) == [x EXCEPT !.ok = FALSE]
Touch(x, i, f) == [x EXCEPT !.touched = @ \cup {Level(i)}, !.orders = f]

\* applyEvent, on x = [orders, touched, ok] for the command of taker.
ApplyEvent(x, taker, e) ==
  LET f == x.orders  i == e.id IN
  IF ~x.ok THEN x ELSE
  CASE e.type = "accepted" ->
         IF orders[i].type = "market" THEN x
         ELSE IF i \in DOMAIN f THEN Bad(x) ELSE Touch(x, i, With(f, i, e.qty))
    [] e.type = "trade" ->
         IF ~CanReduce(f, e.maker, e.qty) THEN Bad(x)
         ELSE LET y == Touch(x, e.maker, Reduced(f, e.maker, e.qty)) IN
              IF i \notin DOMAIN y.orders THEN y
              ELSE IF CanReduce(y.orders, i, e.qty) THEN Touch(y, i, Reduced(y.orders, i, e.qty)) ELSE Bad(y)
    [] e.type = "updated"   -> IF i \in DOMAIN f /\ f[i] = e.qty THEN x ELSE Bad(x)
    [] e.type = "filled"    -> IF i \in DOMAIN f THEN Bad(x) ELSE x
    [] e.type = "cancelled" ->
         IF i \notin DOMAIN f THEN (IF i = taker THEN x ELSE Bad(x))
         ELSE IF f[i] = e.qty THEN Touch(x, i, Without(f, i)) ELSE Bad(x)

\* close: the batch's events in order, and the touched levels that changed.
Close(p) ==
  LET x == FoldLeft(LAMBDA y, e : ApplyEvent(y, p.open.taker, e),
                    [orders |-> p.orders, touched |-> {}, ok |-> TRUE], p.open.events)
      changed == {l \in x.touched : Total(x.orders, l) # Total(p.orders, l)}
  IN  [p    |-> [p EXCEPT !.orders = x.orders, !.seq = p.open.seq, !.open = None],
       out  |-> <<[seq |-> p.open.seq, levels |-> [l \in changed |-> Total(x.orders, l)]]>>,
       err  |-> IF x.ok THEN "" ELSE "inconsistent"]

-----------------------------------------------------------------------------
(* Apply: which events open, extend and close a command.                   *)

Result(p, out, err) == [p |-> p, out |-> out, err |-> err]

BestOf(f, side) ==
  LET prices == {orders[i].price : i \in {j \in DOMAIN f : orders[j].side = side}} IN
  CHOOSE p \in prices : \A q \in prices : ~Better(side, q, p)

\* Mutants of ExpectsTakerEvent: equal prices do not trade; every order is
\* waited for.
ExpectsStrictly(f, o) ==
  \/ o.type # "limit" \/ o.tif # "gtc"
  \/ /\ \E i \in DOMAIN f : orders[i].side = Opposite(o.side)
     /\ CrossesStrictly(o.side, o.price, BestOf(f, Opposite(o.side)))
ExpectsAlways(f, o) == TRUE

\* expectsTakerEvent: only a GTC limit order that cannot cross rests untouched.
ExpectsTakerEvent(f, o) ==
  \/ o.type # "limit" \/ o.tif # "gtc"
  \/ /\ \E i \in DOMAIN f : orders[i].side = Opposite(o.side)
     /\ Crosses(o.side, o.price, BestOf(f, Opposite(o.side)))

Opened(p, s, taker, events) == [p EXCEPT !.open = [seq |-> s, taker |-> taker, events |-> events]]
Extended(p, e) == [p EXCEPT !.open.events = Append(@, e)]

\* What e makes of the open command, whether that closes it, and the error.
Step(p, closes, err) == [p |-> p, closes |-> closes, err |-> err]

Dispatch(p, e) ==
  CASE e.type = "accepted" /\ p.open = None ->
         Step(Opened(p, e.seq, e.id, <<e>>), ~ExpectsTakerEvent(p.orders, orders[e.id]), "")
    [] e.type = "rejected" /\ p.open = None -> Step(Opened(p, e.seq, 0, << >>), TRUE, "")
    [] e.type = "cancelled" /\ p.open = None -> Step(Opened(p, e.seq, 0, <<e>>), TRUE, "")
    [] e.type \notin {"accepted", "rejected"} /\ p.open # None ->
         Step(Extended(p, e), e.type # "trade" /\ e.id = p.open.taker, "")
    [] OTHER -> Step(p, FALSE, "inconsistent")

Continues(p, e) == p.open # None \/ e.seq = p.seq + 1

\* A late command is closed first.
Finish(d) == IF d.closes THEN Close(d.p) ELSE Result(d.p, << >>, d.err)
Next1(p, e) == Finish(IF Continues(p, e) THEN Dispatch(p, e) ELSE Step(p, FALSE, "gap"))
AfterLate(c, e) == IF c.err # "" THEN c ELSE LET r == Next1(c.p, e) IN Result(r.p, c.out \o r.out, r.err)
Apply(p, e) ==
  IF e.seq =< p.seq \/ (p.open # None /\ e.seq < p.open.seq) THEN Result(p, << >>, "")
  ELSE IF p.open # None /\ e.seq > p.open.seq THEN AfterLate(Close(p), e)
  ELSE Next1(p, e)

-----------------------------------------------------------------------------
(* The client: web/trade/src/components/OrderBook.tsx.                     *)

Snapshot(p) == [seq |-> p.seq, levels |-> LevelsOf(p.orders)]

\* Mutant of OnSnapshot: a rebuild is told to those waiting for a book only.
OnSnapshotWaiting(c, s) == IF c.on # "waiting" THEN c ELSE [on |-> "live", seq |-> s.seq, levels |-> s.levels]
OnSnapshot(c, s) == IF c.on = "off" THEN c ELSE [on |-> "live", seq |-> s.seq, levels |-> s.levels]

Override(m, d) ==
  LET all == [l \in DOMAIN m \cup DOMAIN d |-> IF l \in DOMAIN d THEN d[l] ELSE m[l]] IN
  [l \in {k \in DOMAIN all : all[k] # 0} |-> all[l]]

OnDelta(c, d) ==
  IF c.on # "live" \/ d.seq =< c.seq THEN c
  ELSE IF d.seq = c.seq + 1 THEN [c EXCEPT !.seq = d.seq, !.levels = Override(@, d.levels)]
  ELSE [c EXCEPT !.on = "resync"]

OnDeltas(c, ds) == FoldLeft(OnDelta, c, ds)

-----------------------------------------------------------------------------
(* The feed.                                                               *)

Rebuilding == [state |-> "rebuilding", orders |-> Nothing, seq |-> 0, buffer |-> << >>, open |-> None]

ShadowInit ==
  /\ Init
  /\ stream = << >> /\ delivered = 0
  /\ proj = Rebuilding /\ snap = None
  /\ client = [on |-> "off", seq |-> 0, levels |-> Nothing]
  /\ hist = << >> /\ early = FALSE /\ repeats = 0

\* handleMarket: deltas go out, an error starts a rebuild.
Handle(r) ==
  IF r.err = "" THEN proj' = r.p /\ client' = OnDeltas(client, r.out) /\ UNCHANGED snap
  ELSE proj' = Rebuilding /\ snap' = None /\ UNCHANGED client

Deliver ==
  /\ delivered < Len(stream) /\ delivered' = delivered + 1
  /\ \E e \in {stream[delivered + 1]} :
     IF proj.state = "live" THEN \E r \in {Apply(proj, e)} : Handle(r)
     ELSE IF Len(proj.buffer) < MaxBuffer
       THEN proj' = [proj EXCEPT !.buffer = Append(@, e)] /\ UNCHANGED <<snap, client>>
       ELSE proj' = Rebuilding /\ snap' = None /\ UNCHANGED client
  /\ UNCHANGED <<vars, stream, hist, early, repeats>>

\* The relay crashed before it marked what it published, and published it again
\* once the window had passed.
Repeat ==
  /\ repeats < MaxRepeats /\ repeats' = repeats + 1
  /\ delivered' \in 0..(delivered - 1)
  /\ UNCHANGED <<vars, stream, proj, snap, client, hist, early>>

\* OpenOrders, in one snapshot of the database.
ReadSnapshot ==
  /\ proj.state = "rebuilding" /\ snap = None
  /\ snap' = [seq |-> seq, orders |-> [i \in {o.id : o \in OpenOrders} |-> orders[i].remaining]]
  /\ UNCHANGED <<vars, stream, delivered, proj, client, hist, early, repeats>>

Replay(p, es) ==
  FoldLeft(LAMBDA r, e : IF r.err # "" THEN r
                         ELSE LET n == Apply(r.p, e) IN [n EXCEPT !.out = r.out \o @],
           Result(p, << >>, ""), es)

\* Restore and what rebuild does with it: the snapshot message already has the
\* replayed events, whose deltas follow it.
RestoreBook ==
  /\ snap # None /\ snap' = None
  /\ \E r \in {Replay([state |-> "live", orders |-> snap.orders, seq |-> snap.seq, buffer |-> << >>, open |-> None],
                       proj.buffer)} :
       IF r.err # "" THEN proj' = Rebuilding /\ UNCHANGED <<client, early>>
       ELSE /\ proj' = r.p /\ early' = FALSE
            /\ client' = OnDeltas(OnSnapshot(client, Snapshot(r.p)), r.out)
  /\ UNCHANGED <<vars, stream, delivered, hist, repeats>>

\* The timer: a command that stays open is closed with what has arrived of it.
Flush ==
  /\ proj.state = "live" /\ proj.open # None
  /\ Handle(Close(proj)) /\ early' = TRUE
  /\ UNCHANGED <<vars, stream, delivered, hist, repeats>>

\* A client subscribes, or subscribes again after a gap or a lost connection.
Subscribe ==
  /\ client' = IF proj.state = "live" THEN [on |-> "live"] @@ Snapshot(proj) ELSE [client EXCEPT !.on = "waiting"]
  /\ client' # client
  /\ UNCHANGED <<vars, stream, delivered, proj, snap, hist, early, repeats>>

ShadowNext ==
  \/ Command \/ Deliver \/ Repeat \/ ReadSnapshot \/ RestoreBook \/ Flush \/ Subscribe

ShadowSpec == ShadowInit /\ [][ShadowNext]_allVars

-----------------------------------------------------------------------------
(* Properties.                                                             *)

BookAt(s) == IF s = 0 THEN Nothing ELSE hist[s]

\* The shadow book is the engine's book after the command it says it is at, and
\* so is a client's copy, level by level: whatever the snapshot overlapped with
\* the events, whatever was buffered, repeated or started over.  (Not after the
\* timer closed a command half way: FlushIsHarmless.)  A client's copy is that of
\* a market with no more levels than DepthLevels, to which snapshots are cut off.
ShadowFaithful ==
  ~early => /\ proj.state = "live" => proj.orders = BookAt(proj.seq)
            /\ client.on = "live" => client.levels = LevelsOf(BookAt(client.seq))

\* "A command is closed only from the market's own events": when every event of
\* the commands up to s has been handled by a live book, it is at s, with no
\* command left open for a later one or the timer to close.
ClosedByItsOwn ==
  proj.state = "live" /\ ~early /\ repeats = 0 =>
    LET next == IF delivered < Len(stream) THEN stream[delivered + 1].seq ELSE seq + 1 IN
    proj.seq >= next - 1

\* "Deltas are therefore contiguous": a client that takes every message never
\* meets a gap, over rebuilds and replays too.
DeltasContiguous == client.on # "resync"

\* The timer's claim: it "degrades to a late delta rather than a stuck book", and
\* "an event for a command that was already closed is ErrInconsistent".  Violated:
\* a relay that pauses within a command has it closed without its fills, and
\* they are taken for duplicates.
FlushIsHarmless == proj.state = "live" => proj.orders = BookAt(proj.seq)
===============================================================================
