------------------------------ MODULE OrderBook ------------------------------
(***************************************************************************)
(* The price-time-priority book of internal/matching: one market, two      *)
(* sides, a FIFO of resting orders per price level.  The module is pure:   *)
(* a book is a value, and Apply(b, cmd) is the pair of the next book and   *)
(* what the command did, as Book.Apply is in the source.  Amounts are      *)
(* integers in the smallest unit of their asset, so price x qty is exact,  *)
(* which is what MarketConfig.Validate guarantees of the decimal scales.   *)
(***************************************************************************)
EXTENDS Integers, Sequences, FiniteSets, SequencesExt

CONSTANT NoLimit   \* the value of maxQty and maxSlippageBps when unset

\* MarketConfig, as far as the book reads it.  A book keeps the configuration
\* it was built with (b.cfg) until it is rebuilt.
ConfigOK(cfg) ==
  /\ cfg.priceTick \in Nat \ {0} /\ cfg.qtyStep \in Nat \ {0} /\ cfg.minNotional \in Nat
  /\ cfg.maxQty = NoLimit \/ cfg.maxQty \in Nat \ {0}
  /\ cfg.maxSlippageBps = NoLimit \/ cfg.maxSlippageBps \in 1..10000
  /\ cfg.selfTrade \in {"cancel_newest", "allow"}

Opposite(side) == IF side = "buy" THEN "sell" ELSE "buy"

-----------------------------------------------------------------------------
(* One side of the book.  `prices` is kept best first beside the map of    *)
(* levels, and every level caches the quantity it holds: three copies of   *)
(* one fact that every operation has to move together.                     *)

EmptySide == [prices |-> << >>, levels |-> << >>]

\* Price p is more aggressive than q on this side.
Better(side, p, q) == IF side = "buy" THEN p > q ELSE p < q

\* Mutant of InsertPrice: a new level goes last.
InsertPriceLast(side, prices, p) == Append(prices, p)

\* sort.Search: the first position of a worse price, or the one past the end.
Worse(side, prices, p) == {i \in DOMAIN prices : Better(side, p, prices[i])}
Search(side, prices, p) ==
  IF Worse(side, prices, p) = {} THEN Len(prices) + 1 ELSE Min(Worse(side, prices, p))

InsertPrice(side, prices, p) == InsertAt(prices, Search(side, prices, p), p)

DropLevel(s, p) ==
  [prices |-> RemoveFirst(s.prices, p),
   levels |-> [q \in DOMAIN s.levels \ {p} |-> s.levels[q]]]

InsertResting(s, o) ==
  LET new == o.price \notin DOMAIN s.levels
      lvl == IF new THEN [orders |-> << >>, qty |-> 0] ELSE s.levels[o.price]
  IN  [prices |-> IF new THEN InsertPrice(o.side, s.prices, o.price) ELSE s.prices,
       levels |-> [p \in DOMAIN s.levels \cup {o.price} |->
                     IF p = o.price THEN [orders |-> Append(lvl.orders, o),
                                          qty    |-> lvl.qty + o.remaining]
                                    ELSE s.levels[p]]]

RemoveResting(s, o) ==
  LET lvl  == s.levels[o.price]
      rest == RemoveFirst(lvl.orders, o)
  IN  IF rest = << >> THEN DropLevel(s, o.price)
      ELSE [s EXCEPT !.levels[o.price] = [orders |-> rest, qty |-> lvl.qty - o.remaining]]

\* The filled head leaves its level; the level's quantity already went down
\* with the fill.
PopHead(s, p) ==
  LET rest == Tail(s.levels[p].orders)
  IN  IF rest = << >> THEN DropLevel(s, p) ELSE [s EXCEPT !.levels[p].orders = rest]

\* Every resting order of a side.
OrdersOf(s) == UNION {ToSet(s.levels[p].orders) : p \in ToSet(s.prices)}

-----------------------------------------------------------------------------
EmptyBook(cfg) == [cfg |-> cfg, buy |-> EmptySide, sell |-> EmptySide, byID |-> {}, lastSeq |-> 0]

Resting(b)   == OrdersOf(b.buy) \cup OrdersOf(b.sell)
BestPrice(s) == Head(s.prices)

\* Mutant of Advance: only commands that reach the book count.
AdvanceNot(b, seq) == b

\* A command used up a sequence number without reaching the book.
Advance(b, seq) == [b EXCEPT !.lastSeq = seq]

InsertOrder(b, o) ==
  [b EXCEPT ![o.side] = InsertResting(@, o), !.byID = @ \cup {o.id}]

\* validateResting: an open order only fits a book of the same tick and step.
ValidResting(cfg, o) ==
  /\ o.price % cfg.priceTick = 0
  /\ o.remaining > 0 /\ o.remaining % cfg.qtyStep = 0
  /\ o.qty = o.remaining + o.filledQty

\* The orders by sequence.
BySeq(open) ==
  CHOOSE q \in [1..Cardinality(open) -> open] : \A i, j \in DOMAIN q : i < j => q[i].seq < q[j].seq

\* Mutant of Restore: the last sequence is the newest open order's.
RestoreForgetsSeq(cfg, lastSeq, open) ==
  LET bySeq == BySeq(open) IN
  [FoldLeft(InsertOrder, EmptyBook(cfg), bySeq)
     EXCEPT !.lastSeq = IF open = {} THEN 0 ELSE bySeq[Len(bySeq)].seq]

\* Book.Restore: an empty book filled with the open orders in seq order.
Restore(cfg, lastSeq, open) ==
  LET bySeq   == BySeq(open)
      highest == IF open = {} THEN 0 ELSE bySeq[Len(bySeq)].seq
  IN  [FoldLeft(InsertOrder, EmptyBook(cfg), bySeq)
         EXCEPT !.lastSeq = IF highest > lastSeq THEN highest ELSE lastSeq]

-----------------------------------------------------------------------------
(* ValidateNewOrder: the reason a well-typed order is refused, or "".      *)

ValidateBaseQty(cfg, qty) ==
  IF qty % cfg.qtyStep # 0 THEN "invalid_qty_step"
  ELSE IF cfg.maxQty # NoLimit /\ qty > cfg.maxQty THEN "above_max_qty" ELSE ""

ValidateNewOrder(cfg, o) ==
  LET badQty == ValidateBaseQty(cfg, o.qty) IN
  IF o.type = "limit"
    THEN IF o.price % cfg.priceTick # 0 THEN "invalid_price_tick"
         ELSE IF badQty # "" THEN badQty
         ELSE IF o.price * o.qty < cfg.minNotional THEN "below_min_notional" ELSE ""
    ELSE IF o.side = "sell" THEN badQty
         ELSE IF o.quoteQty < cfg.minNotional THEN "below_min_notional" ELSE ""

-----------------------------------------------------------------------------
(* Matching.  The taker in flight is a record; one MatchStep is one turn   *)
(* of the loop: stop, or trade with the head of the best level.            *)

MarketBuy(o) == o.type = "market" /\ o.side = "buy"

FloorToStep(x, step) == (x \div step) * step

\* Mutant of Crosses: equal prices do not trade.
CrossesStrictly(side, limit, price) == IF side = "buy" THEN price < limit ELSE price > limit

Crosses(side, limit, price) == IF side = "buy" THEN price =< limit ELSE price >= limit

\* Mutant of OutsideBand: no band.
OutsideBandNever(side, best, bps, price) == FALSE

\* best x (1 +- bps/10000), compared without the division.
OutsideBand(side, best, bps, price) ==
  /\ bps # NoLimit
  /\ IF side = "buy" THEN price * 10000 > best * (10000 + bps)
                     ELSE price * 10000 < best * (10000 - bps)

NewTaker(o) ==
  [o |-> o, remaining |-> o.qty, quoteRem |-> o.quoteQty,
   filledQty |-> 0, filledQuote |-> 0, stop |-> "", done |-> FALSE]

Exhausted(t) == IF MarketBuy(t.o) THEN t.quoteRem = 0 ELSE t.remaining = 0

\* The quantity the taker wants at this price: what it has left, or what its
\* budget still buys.
Wanted(st, price) ==
  IF MarketBuy(st.t.o) THEN FloorToStep(st.t.quoteRem \div price, st.cfg.qtyStep) ELSE st.t.remaining

Stop(st, reason) == [st EXCEPT !.t.done = TRUE, !.t.stop = reason]

\* Fill the taker against the head of level p.
Fill(st, p, maker) ==
  LET wanted == Wanted(st, p)
      qty    == IF maker.remaining < wanted THEN maker.remaining ELSE wanted
      quote  == p * qty
      m      == [maker EXCEPT !.remaining = @ - qty, !.filledQty = @ + qty,
                              !.filledQuote = @ + quote]
      hit    == [st.opp EXCEPT !.levels[p] =
                   [orders |-> <<m>> \o Tail(@.orders), qty |-> @.qty - qty]]
  IN  [st EXCEPT
         !.opp    = IF m.remaining = 0 THEN PopHead(hit, p) ELSE hit,
         !.byID   = IF m.remaining = 0 THEN @ \ {m.id} ELSE @,
         !.trades = Append(@, [maker |-> m, price |-> p, qty |-> qty, quote |-> quote]),
         !.t.filledQty   = @ + qty,
         !.t.filledQuote = @ + quote,
         !.t.quoteRem    = IF MarketBuy(st.t.o) THEN @ - quote ELSE @,
         !.t.remaining   = IF MarketBuy(st.t.o) THEN @ ELSE @ - qty]

\* Mutant of SelfTrade: the policy is ignored.
SelfTradeAllowed(st, maker) == FALSE

\* The taker meets its own resting order under cancel_newest.
SelfTrade(st, maker) == maker.acct = st.t.o.acct /\ st.cfg.selfTrade = "cancel_newest"

MatchStep(st) ==
  LET o     == st.t.o
      p     == BestPrice(st.opp)
      maker == Head(st.opp.levels[p].orders)
  IN  IF st.t.done \/ Exhausted(st.t) \/ st.opp.prices = << >> THEN st
      ELSE IF o.type = "limit" /\ ~Crosses(o.side, o.price, p) THEN Stop(st, "")
      ELSE IF o.type = "market" /\ OutsideBand(o.side, st.band, st.cfg.maxSlippageBps, p)
        THEN Stop(st, "price_protection")
      ELSE IF SelfTrade(st, maker) THEN Stop(st, "self_trade")
      ELSE IF Wanted(st, p) = 0 THEN Stop(st, "")
      ELSE Fill(st, p, maker)

MatchStart(b, o) ==
  LET opp == b[Opposite(o.side)] IN
  [cfg |-> b.cfg, opp |-> opp, byID |-> b.byID, trades |-> << >>, t |-> NewTaker(o),
   band |-> IF opp.prices = << >> THEN 0 ELSE BestPrice(opp)]

\* Mutant of Match: only the best order is tried.
MatchOnce(b, o) == MatchStep(MatchStart(b, o))

\* One turn per resting order suffices: a turn that is not the last one
\* empties a maker.
Match(b, o) ==
  FoldLeft(LAMBDA st, turn : MatchStep(st), MatchStart(b, o), [turn \in 1..Cardinality(b.byID) |-> turn])

-----------------------------------------------------------------------------
(* Apply.  `kind` is the taker's last event: rejected, filled, cancelled,  *)
(* updated (rests after a partial fill) or accepted (rests untouched).     *)

Rejected(b, seq, reason) ==
  [book |-> Advance(b, seq), kind |-> "rejected", reason |-> reason, trades |-> << >>]

\* A market order needs liquidity now.
MarketReject(b, o) ==
  LET opp == b[Opposite(o.side)] IN
  IF opp.prices = << >> THEN "empty_book"
  ELSE IF MarketBuy(o) /\ FloorToStep(o.quoteQty \div BestPrice(opp), b.cfg.qtyStep) = 0
    THEN "quote_qty_too_small" ELSE ""

ApplyNew(b, seq, o) ==
  LET invalid == ValidateNewOrder(b.cfg, o)
      st      == Match(b, o)
      t       == st.t
      matched == [b EXCEPT ![Opposite(o.side)] = st.opp, !.byID = st.byID, !.lastSeq = seq]
      rest    == [id |-> o.id, acct |-> o.acct, side |-> o.side, price |-> o.price,
                  qty |-> o.qty, remaining |-> t.remaining, filledQty |-> t.filledQty,
                  filledQuote |-> t.filledQuote, seq |-> seq]
      res(bk, kind, reason) ==
        [book |-> bk, kind |-> kind, reason |-> reason, trades |-> st.trades,
         filledQty |-> t.filledQty, filledQuote |-> t.filledQuote,
         remaining |-> IF MarketBuy(o) THEN 0 ELSE t.remaining]
  IN  IF invalid # "" THEN Rejected(b, seq, invalid)
      ELSE IF o.id \in b.byID THEN Rejected(b, seq, "duplicate_order_id")
      ELSE IF o.type = "market" /\ MarketReject(b, o) # "" THEN Rejected(b, seq, MarketReject(b, o))
      ELSE IF Exhausted(t) THEN res(matched, "filled", "")
      ELSE IF t.stop # "" THEN res(matched, "cancelled", t.stop)
      ELSE IF o.type = "limit" /\ o.tif = "gtc"
        THEN res(InsertOrder(matched, rest), IF t.filledQty > 0 THEN "updated" ELSE "accepted", "")
      ELSE res(matched, "cancelled", "ioc")

\* A cancel of a resting order by its owner; anything else is refused.
ApplyCancel(b, seq, id, acct) ==
  LET found == {o \in Resting(b) : o.id = id} IN
  IF id \notin b.byID THEN [book |-> Advance(b, seq), kind |-> "cancel_rejected", reason |-> "unknown_order"]
  ELSE LET o == CHOOSE x \in found : TRUE IN
       IF o.acct # acct
         THEN [book |-> Advance(b, seq), kind |-> "cancel_rejected", reason |-> "not_owner"]
         ELSE [book |-> [b EXCEPT ![o.side] = RemoveResting(@, o), !.byID = @ \ {id}, !.lastSeq = seq],
               kind |-> "cancelled", reason |-> "user"]

-----------------------------------------------------------------------------
(* What a well-formed book is: the redundant copies agree.                 *)

\* Sides are sorted best first without duplicates, levels are exactly the
\* listed prices, none is empty, and each level is FIFO by sequence.
SideSorted(side, s) ==
  /\ \A i, j \in DOMAIN s.prices : i < j => Better(side, s.prices[i], s.prices[j])
  /\ ToSet(s.prices) = DOMAIN s.levels
  /\ \A p \in DOMAIN s.levels : \A i, j \in DOMAIN s.levels[p].orders :
       i < j => s.levels[p].orders[i].seq < s.levels[p].orders[j].seq
  /\ \A p \in DOMAIN s.levels : s.levels[p].orders # << >>

LevelQty(lvl) == FoldLeft(LAMBDA acc, o : acc + o.remaining, 0, lvl.orders)

Crossed(b) ==
  /\ b.buy.prices # << >> /\ b.sell.prices # << >>
  /\ BestPrice(b.buy) >= BestPrice(b.sell)
=============================================================================
