-------------------------------- MODULE Market --------------------------------
(***************************************************************************)
(* One market: the trading runner of internal/trading executing commands   *)
(* one at a time on the book of OrderBook, with the ledger of              *)
(* internal/ledger behind it and the registry and account statuses it      *)
(* consults.  Every action is one committed transaction together with the  *)
(* runner's memory, so this module is about what a command does, not about *)
(* when it becomes durable: EngineRunner is about that.                    *)
(***************************************************************************)
EXTENDS OrderBook

CONSTANTS
  Accounts,        \* trading accounts
  Inputs,          \* the order shapes clients send (acct and id excluded)
  Funds,           \* Funds[a] = [base, quote]: the deposits before trading
  Configs,         \* the matcher configurations the registry may hold
  InitConfig,
  Statuses,        \* the market statuses an administrator moves between
  Freezable,       \* the accounts an administrator freezes and unfreezes
  MakerBps, TakerBps,
  MaxOrders,       \* bound: order rows written
  MaxSeq           \* bound: commands the market sequence counts

ASSUME MarketAssumption ==
  /\ InitConfig \in Configs /\ \A c \in Configs : ConfigOK(c)
  /\ MakerBps \in 0..10000 /\ TakerBps \in 0..10000
  /\ Statuses \subseteq {"active", "halted", "cancel_only", "delisted"}
  /\ MaxOrders \in Nat /\ MaxSeq \in Nat

Assets == {"base", "quote"}

ASSUME FundsAssumption == IsFiniteSet(Accounts) /\ Funds \in [Accounts -> [Assets -> Nat]]

\* The well-formed orders of ValidateNewOrder; the API lets no other through.
OrderShapes == [side : {"buy", "sell"}, type : {"limit", "market"}, tif : {"gtc", "ioc"},
           price : Nat, qty : Nat, quoteQty : Nat]

ASSUME InputsAssumption ==
  \A in \in Inputs :
    /\ in \in OrderShapes
    /\ in.type = "limit"  => in.price > 0 /\ in.qty > 0 /\ in.quoteQty = 0
    /\ in.type = "market" => in.price = 0 /\ in.tif = "ioc"
                             /\ IF in.side = "sell" THEN in.qty > 0 /\ in.quoteQty = 0
                                                    ELSE in.quoteQty > 0 /\ in.qty = 0

VARIABLES
  reg,       \* registry.markets: [cfg, status]
  cache,     \* the engine's copy of it, read for every command
  acctStatus,\* ledger.accounts.status
  runner,    \* "running", "dirty" (rebuild before the next command) or "down"
  book,      \* the runner's in-memory book
  seq,       \* trading.market_sequences.last_seq
  orders,    \* trading.orders, by id in order of insertion
  bal,       \* ledger.balances: bal[a][asset] = [avail, hold]
  revenue,   \* the fee_revenue house account, per asset
  trades,    \* trading.trades
  eventSeq   \* the largest seq an outbox event of this market carries

vars == <<reg, cache, acctStatus, runner, book, seq, orders, bal, revenue, trades, eventSeq>>
admin == <<reg, cache, acctStatus>>
money == <<bal, revenue, trades>>

OpenStatuses == {"open", "partially_filled"}
Open(o) == o.status \in OpenStatuses
OpenOrders == {o \in ToSet(orders) : Open(o)}

-----------------------------------------------------------------------------
(* Money.                                                                  *)

HoldAsset(o) == IF o.side = "buy" THEN "quote" ELSE "base"

\* holdFor: what a new order freezes.
HoldFor(o) ==
  IF o.side = "sell" THEN o.qty
  ELSE IF o.type = "market" THEN o.quoteQty ELSE o.price * o.qty

\* ComputeFee: ceil(amount x bps / 10000), in the exchange's favour.
ComputeFee(amount, bps) == (amount * bps + 9999) \div 10000

\* Mutant of Settlement: no price improvement.
SettlementNoRelease(t, taker, maker) ==
  [buyerFee  |-> ComputeFee(t.qty, IF taker.side = "buy" THEN TakerBps ELSE MakerBps),
   sellerFee |-> ComputeFee(t.quote, IF taker.side = "buy" THEN MakerBps ELSE TakerBps),
   release   |-> 0]

\* BuildSettleEntry: the fees of one fill and the price improvement given back.
Settlement(t, taker, maker) ==
  LET buyer     == IF taker.side = "buy" THEN taker ELSE maker
      buyerBps  == IF taker.side = "buy" THEN TakerBps ELSE MakerBps
      sellerBps == IF taker.side = "buy" THEN MakerBps ELSE TakerBps
  IN  [buyerFee  |-> ComputeFee(t.qty, buyerBps),
       sellerFee |-> ComputeFee(t.quote, sellerBps),
       release   |-> IF buyer.type = "limit" THEN (buyer.price - t.price) * t.qty ELSE 0]

\* "fee would consume the whole fill": the entry is refused.
FeeEatsFill(t, s) == s.buyerFee >= t.qty \/ s.sellerFee >= t.quote

Move(b, a, asset, dAvail, dHold) ==
  [b EXCEPT ![a][asset].avail = @ + dAvail, ![a][asset].hold = @ + dHold]

\* Mutant of Release: the hold bucket is not debited.
ReleaseTwice(b, o) == Move(b, o.acct, HoldAsset(o), o.holdRemaining, 0)

\* Release: an order's remaining hold goes back to available.
Release(b, o) == Move(b, o.acct, HoldAsset(o), o.holdRemaining, -o.holdRemaining)

-----------------------------------------------------------------------------
(* Rows.                                                                   *)

NewRow(a, in) ==
  [id |-> Len(orders) + 1, acct |-> a, side |-> in.side, type |-> in.type, tif |-> in.tif,
   price |-> in.price, qty |-> in.qty, quoteQty |-> in.quoteQty,
   status |-> "new", reason |-> "", remaining |-> in.qty, filledQty |-> 0, filledQuote |-> 0,
   holdAmount |-> 0, holdRemaining |-> 0, seq |-> 0]

RejectedRow(o, reason, s) ==
  [o EXCEPT !.status = "rejected", !.reason = reason, !.remaining = 0, !.seq = s]

\* The maker's row after a fill, with the book's view of the maker (t.maker).
MakerRow(row, t, s) ==
  LET spent == IF row.side = "buy" THEN t.quote + s.release ELSE t.qty IN
  [row EXCEPT !.filledQty = t.maker.filledQty, !.filledQuote = t.maker.filledQuote,
              !.remaining = t.maker.remaining, !.holdRemaining = @ - spent,
              !.status = IF t.maker.remaining = 0 THEN "filled" ELSE "partially_filled"]

\* A filled maker gives back whatever its hold still has.
Residue(row) == IF row.status = "filled" THEN [row EXCEPT !.holdRemaining = 0] ELSE row

\* One fill of the command in flight: x = [rows, bal, revenue, trades, taker, failed].
SettleTrade(x, t, s) ==
  LET row    == x.rows[t.maker.id]
      set    == Settlement(t, x.taker, row)
      maker  == MakerRow(row, t, set)
      buyer  == IF x.taker.side = "buy" THEN x.taker ELSE row
      seller == IF x.taker.side = "buy" THEN row ELSE x.taker
      b1     == Move(x.bal, buyer.acct, "quote", set.release, -(t.quote + set.release))
      b2     == Move(b1, seller.acct, "quote", t.quote - set.sellerFee, 0)
      b3     == Move(b2, seller.acct, "base", 0, -t.qty)
      b4     == Move(b3, buyer.acct, "base", t.qty - set.buyerFee, 0)
      spent  == IF x.taker.side = "buy" THEN t.quote + set.release ELSE t.qty
  IN  [rows    |-> [x.rows EXCEPT ![row.id] = Residue(maker)],
       bal     |-> IF maker.status = "filled" THEN Release(b4, maker) ELSE b4,
       revenue |-> [x.revenue EXCEPT !.base = @ + set.buyerFee, !.quote = @ + set.sellerFee],
       trades  |-> Append(x.trades, [maker |-> row.id, taker |-> x.taker.id, price |-> t.price,
                                     qty |-> t.qty, quote |-> t.quote, seq |-> s]),
       taker   |-> [x.taker EXCEPT !.holdRemaining = @ - spent],
       failed  |-> x.failed \/ FeeEatsFill(t, set)]

\* The taker's last event.
FinalTaker(taker, r) ==
  [taker EXCEPT !.filledQty = r.filledQty, !.filledQuote = r.filledQuote,
     !.remaining     = IF r.kind = "filled" THEN 0 ELSE r.remaining,
     !.status        = CASE r.kind = "accepted" -> "open"
                         [] r.kind = "updated"  -> "partially_filled"
                         [] OTHER               -> r.kind,
     !.reason        = r.reason]

-----------------------------------------------------------------------------
Init ==
  /\ reg = [cfg |-> InitConfig, status |-> "active"]
  /\ cache = reg
  /\ acctStatus = [a \in Accounts |-> "active"]
  /\ book = EmptyBook(InitConfig) /\ runner = "running"
  /\ seq = 0 /\ eventSeq = 0
  /\ orders = << >> /\ trades = << >>
  /\ bal = [a \in Accounts |-> [x \in Assets |-> [avail |-> Funds[a][x], hold |-> 0]]]
  /\ revenue = [base |-> 0, quote |-> 0]

\* Policy.NewOrder.
PolicyReason(a) ==
  IF cache.status # "active" THEN "market_not_active"
  ELSE IF acctStatus[a] # "active" THEN "account_frozen" ELSE ""

PolicyReject(a, in) ==
  /\ PolicyReason(a) # ""
  /\ orders' = Append(orders, RejectedRow(NewRow(a, in), PolicyReason(a), 0))
  /\ UNCHANGED <<admin, runner, book, seq, money, eventSeq>>

\* Too little available for the hold: the sequence is consumed, the book only
\* learns the number.
InsufficientReject(a, in) ==
  LET row == NewRow(a, in) IN
  /\ PolicyReason(a) = ""
  /\ HoldFor(row) > bal[a][HoldAsset(row)].avail
  /\ seq' = seq + 1 /\ eventSeq' = seq + 1
  /\ book' = Advance(book, seq + 1)
  /\ orders' = Append(orders, RejectedRow(row, "insufficient_balance", seq + 1))
  /\ UNCHANGED <<admin, runner, money>>

Funded(a, row) == PolicyReason(a) = "" /\ HoldFor(row) =< bal[a][HoldAsset(row)].avail

\* The book refuses: the hold is undone with the savepoint, the row is written
\* as rejected, the sequence is used.
BookReject(a, in) ==
  LET row == NewRow(a, in)
      r   == ApplyNew(book, seq + 1, row)
  IN  /\ Funded(a, row) /\ r.kind = "rejected"
      /\ seq' = seq + 1 /\ eventSeq' = seq + 1
      /\ book' = r.book
      /\ orders' = Append(orders, RejectedRow(row, r.reason, seq + 1))
      /\ UNCHANGED <<admin, runner, money>>

\* What an accepted command writes, fill by fill, then the taker's end.
Outcome(row, r) ==
  LET held  == [row EXCEPT !.seq = seq + 1, !.holdAmount = HoldFor(row), !.holdRemaining = HoldFor(row)]
      start == [rows |-> Append(orders, held), revenue |-> revenue, trades |-> trades, taker |-> held,
                bal |-> Move(bal, row.acct, HoldAsset(row), -HoldFor(row), HoldFor(row)), failed |-> FALSE]
      x     == FoldLeft(LAMBDA acc, t : SettleTrade(acc, t, seq + 1), start, r.trades)
      taker == FinalTaker(x.taker, r)
  IN  [rows    |-> [x.rows EXCEPT ![row.id] = IF Open(taker) THEN taker ELSE [taker EXCEPT !.holdRemaining = 0]],
       bal     |-> IF Open(taker) THEN x.bal ELSE Release(x.bal, taker),
       revenue |-> x.revenue, trades |-> x.trades, failed |-> x.failed]

Accept(a, in) ==
  LET row == NewRow(a, in)
      r   == ApplyNew(book, seq + 1, row)
      x   == Outcome(row, r)
  IN  /\ Funded(a, row) /\ r.kind # "rejected"
      /\ ~x.failed
      /\ seq' = seq + 1 /\ eventSeq' = seq + 1
      /\ book' = r.book /\ orders' = x.rows /\ bal' = x.bal
      /\ revenue' = x.revenue /\ trades' = x.trades
      /\ UNCHANGED <<admin, runner>>

\* A settlement entry was refused: the transaction rolls back, the caller gets
\* an error, and the book that already matched is thrown away.
SettleFails(a, in) ==
  LET row == NewRow(a, in)
      r   == ApplyNew(book, seq + 1, row)
  IN  /\ Funded(a, row) /\ r.kind # "rejected"
      /\ Outcome(row, r).failed
      /\ runner' = "dirty" /\ book' = r.book
      /\ UNCHANGED <<admin, seq, orders, money, eventSeq>>

Place(a, in) ==
  /\ runner = "running" /\ Len(orders) < MaxOrders /\ seq < MaxSeq
  /\ \/ PolicyReject(a, in)
     \/ InsufficientReject(a, in)
     \/ BookReject(a, in)
     \/ Accept(a, in)
     \/ SettleFails(a, in)

\* Mutant of Cancel: the row keeps its hold.
CancelKeepsHold(id) ==
  LET o == orders[id]
      r == ApplyCancel(book, seq + 1, id, o.acct)
  IN  /\ runner = "running" /\ seq < MaxSeq /\ Open(o) /\ r.kind = "cancelled"
      /\ seq' = seq + 1 /\ eventSeq' = seq + 1 /\ book' = r.book
      /\ orders' = [orders EXCEPT ![id].status = "cancelled"]
      /\ bal' = Release(bal, o)
      /\ UNCHANGED <<admin, runner, revenue, trades>>
\* A cancel of the owner's open order.  Unknown, foreign and terminal orders,
\* and any cancel on a delisted market, are answered without a write.
Cancel(id) ==
  LET o == orders[id]
      r == ApplyCancel(book, seq + 1, id, o.acct)
  IN  /\ runner = "running" /\ seq < MaxSeq
      /\ Open(o) /\ cache.status # "delisted"
      /\ r.kind = "cancelled"
      /\ seq' = seq + 1 /\ eventSeq' = seq + 1
      /\ book' = r.book
      /\ orders' = [orders EXCEPT ![id].status = "cancelled", ![id].reason = "user", ![id].holdRemaining = 0]
      /\ bal' = Release(bal, o)
      /\ UNCHANGED <<admin, runner, revenue, trades>>

Restorable(cfg) == \A o \in OpenOrders : ValidResting(cfg, o)

RestingRow(o) ==
  [id |-> o.id, acct |-> o.acct, side |-> o.side, price |-> o.price, qty |-> o.qty,
   remaining |-> o.remaining, filledQty |-> o.filledQty, filledQuote |-> o.filledQuote, seq |-> o.seq]

Rebuilt(cfg) == Restore(cfg, seq, {RestingRow(o) : o \in OpenOrders})

\* restoreOrFail, before the first command after a failed one.
Rebuild ==
  /\ runner = "dirty" /\ Restorable(cache.cfg)
  /\ book' = Rebuilt(cache.cfg) /\ runner' = "running"
  /\ UNCHANGED <<admin, seq, orders, money, eventSeq>>

\* Start and Reload: the registry is read again, and a tradable market that
\* has no runner gets one if its book can be rebuilt.  A running one is left
\* alone.
Reload ==
  /\ cache' = reg
  /\ IF runner = "down" /\ reg.status # "delisted" /\ Restorable(reg.cfg)
       THEN book' = Rebuilt(reg.cfg) /\ runner' = "running"
       ELSE UNCHANGED <<book, runner>>
  /\ UNCHANGED <<reg, acctStatus, seq, orders, money, eventSeq>>

\* The process dies between commands; memory is gone.
Crash ==
  /\ runner # "down"
  /\ runner' = "down" /\ book' = EmptyBook(InitConfig)
  /\ UNCHANGED <<admin, seq, orders, money, eventSeq>>

\* Administrator writes.
SetMarketStatus(s) ==
  /\ s # reg.status /\ reg' = [reg EXCEPT !.status = s]
  /\ UNCHANGED <<cache, acctStatus, runner, book, seq, orders, money, eventSeq>>

UpdateMarket(c) ==
  /\ c # reg.cfg /\ reg' = [reg EXCEPT !.cfg = c]
  /\ UNCHANGED <<cache, acctStatus, runner, book, seq, orders, money, eventSeq>>

SetAccountStatus(a) ==
  /\ acctStatus' = [acctStatus EXCEPT ![a] = IF @ = "active" THEN "frozen" ELSE "active"]
  /\ UNCHANGED <<reg, cache, runner, book, seq, orders, money, eventSeq>>

Next ==
  \/ \E a \in Accounts, in \in Inputs : Place(a, in)
  \/ \E id \in DOMAIN orders : Cancel(id)
  \/ Rebuild
  \/ Reload
  \/ Crash
  \/ \E s \in Statuses : SetMarketStatus(s)
  \/ \E c \in Configs : UpdateMarket(c)
  \/ \E a \in Freezable : SetAccountStatus(a)

Spec == Init /\ [][Next]_vars

-----------------------------------------------------------------------------
(* Properties.                                                             *)

Sum(S, f(_)) == MapThenSumSet(f, S)

\* Each account's hold is the sum of what its orders still hold: the settle,
\* release and residue writes of walkPlace and the release of walkCancel keep
\* ledger.balances and trading.orders in step, and no account overdraws.
HoldsExact ==
  \A a \in Accounts, x \in Assets :
    /\ bal[a][x].avail >= 0
    /\ bal[a][x].hold = Sum({o \in ToSet(orders) : o.acct = a /\ HoldAsset(o) = x},
                            LAMBDA o : o.holdRemaining)

\* An open order holds exactly what its unfilled part can cost at its limit,
\* an ended one holds nothing: the price improvement of every fill was given
\* back (BuildSettleEntry's release), and the rest with the order's end.
HoldCoversRemaining ==
  \A o \in ToSet(orders) :
    o.holdRemaining = IF ~Open(o) THEN 0
                      ELSE IF o.side = "buy" THEN o.price * o.remaining ELSE o.remaining

\* No asset is created or lost: what accounts own plus fee_revenue is what was
\* deposited, through fills, roundings, releases and failed commands.
Conserved ==
  \A x \in Assets :
    Sum(Accounts, LAMBDA a : bal[a][x].avail + bal[a][x].hold) + revenue[x]
      = Sum(Accounts, LAMBDA a : Funds[a][x])

\* The in-memory book is the book a restart would build from the rows: same
\* levels, same FIFO order, same cached level quantities, same last sequence.
RestoreFaithful == runner = "running" => book = Rebuilt(book.cfg)

\* Both sides keep their three copies of one fact in step: prices best first
\* and exactly the levels, levels FIFO and never empty, cached quantities
\* equal to what the orders add up to, and the id index equal to the orders;
\* and no buy order rests at or above a resting sell.
BookWellFormed ==
  /\ SideSorted("buy", book.buy) /\ SideSorted("sell", book.sell)
  /\ \A s \in {book.buy, book.sell} : \A p \in DOMAIN s.levels : s.levels[p].qty = LevelQty(s.levels[p])
  /\ book.byID = {o.id : o \in Resting(book)}
  /\ ~Crossed(book)

NewTrades == {trades'[i] : i \in Len(trades) + 1 .. Len(trades')}

\* A fill happens at the maker's price, within the taker's limit, and only
\* when every order of the maker's side with a better price, or the same
\* price and an earlier sequence, has been filled first; and never between two
\* orders of one account under cancel_newest.
PriceTimePriority ==
  [][\A t \in NewTrades :
       LET m     == orders[t.maker]
           taker == orders'[t.taker]
           ahead == {o \in OpenOrders : o.side = m.side /\
                       (Better(o.side, o.price, m.price) \/ (o.price = m.price /\ o.seq < m.seq))}
       IN  /\ t.price = m.price
           /\ book.cfg.selfTrade = "cancel_newest" => m.acct # taker.acct
           /\ taker.type = "limit" => Crosses(taker.side, taker.price, t.price)
           /\ \A o \in ahead : orders'[o.id].status = "filled"]_vars

\* A market order trades only within max_slippage_bps of the best price it
\* met on arrival, and never more than its budget.
WithinBand ==
  [][\A t \in NewTrades :
       LET taker == orders'[t.taker]
           best  == BestPrice(book[Opposite(taker.side)])
           worse == IF taker.side = "buy" THEN t.price - best ELSE best - t.price
           slip  == book.cfg.maxSlippageBps
       IN  taker.type = "market" =>
             /\ slip # NoLimit => 10000 * worse =< slip * best
             /\ MarketBuy(taker) => taker.filledQuote =< taker.quoteQty]_vars

\* A market order ends unfilled only when nothing more could trade: the side
\* is empty, or the budget left is below one step at the best price there.
MarketOrderUsesTheBook ==
  [][\A o \in ToSet(SubSeq(orders', Len(orders) + 1, Len(orders'))) :
       o.type = "market" /\ o.reason = "ioc" =>
         LET opp == book'[Opposite(o.side)] IN
         opp.prices # << >> => MarketBuy(o) /\ (o.quoteQty - o.filledQuote) \div BestPrice(opp) < book.cfg.qtyStep]_vars

\* The restart runbook: a crash needs no handling, a new instance rebuilds the
\* book of the last commit.
RestartRebuilds == reg.status # "delisted" => Restorable(reg.cfg)
===============================================================================
