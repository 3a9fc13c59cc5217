---------------------------- MODULE Market_proofs ----------------------------
(***************************************************************************)
(* Proofs about Market, for any accounts, orders, fees, configurations and *)
(* bounds.  The argument: while a runner runs, its book holds exactly the  *)
(* open rows (BookInv); every row that is open holds what its rest can     *)
(* cost, every account holds what its rows hold, and each asset adds up to *)
(* what was deposited (Kept).  Matching_proofs follows one command through *)
(* its match and settlement; here it starts, ends or is refused, an order  *)
(* is cancelled, and a runner rebuilds its book.  The properties that the  *)
(* runs check follow from the invariant, or from one step of it.           *)
(***************************************************************************)
EXTENDS Matching_proofs

-----------------------------------------------------------------------------
(* A command starts.                                                       *)

\* A side of rows that did not change.
LEMMA SideKeeps ==
  ASSUME NEW side, NEW s, NEW rows, NEW ids, NEW next, SideInv(side, s, rows, ids), IsFiniteSet(ids),
         \A i \in ids : next[i] = rows[i]
  PROVE  SideInv(side, s, next, ids)
<1>1. OfSide(next, ids, side) = OfSide(rows, ids, side) BY DEF OfSide
<1>2. \A i \in OfSide(rows, ids, side) : RestingRow(next[i]) = RestingRow(rows[i]) BY DEF OfSide
<1> QED BY <1>1, <1>2, SideStays

\* A row that is not open comes last.
RowsMore(rows, s, o, next) ==
  /\ RowsInv(next, s) /\ OpenIn(next) = OpenIn(rows) /\ Len(next) = o.id /\ Len(rows) + 1 = o.id
  /\ DOMAIN next = DOMAIN rows \cup {o.id} /\ o.id \notin DOMAIN rows /\ next[o.id] = o
  /\ \A i \in DOMAIN rows : next[i] = rows[i]

\* The rows with a refused or new order at their end.
LEMMA AppendRow ==
  ASSUME NEW rows, NEW s, RowsInv(rows, s), NEW o, o \in Row, ~Open(o), o.id = Len(rows) + 1,
         NEW next, next = Append(rows, o)
  PROVE  RowsMore(rows, s, o, next)
<1>1. /\ rows \in Seq(Row) /\ (\A j \in DOMAIN rows : rows[j].id = j)
      /\ (\A j \in OpenIn(rows) :
            rows[j].type = "limit" /\ rows[j].price > 0 /\ rows[j].remaining > 0 /\ rows[j].seq =< s)
      /\ (\A j, k \in OpenIn(rows) : rows[j].seq = rows[k].seq => j = k)
  BY DEF RowsInv
<1> DEFINE n == Len(rows)
<1>2. n \in Nat /\ DOMAIN rows = 1..n BY <1>1
<1>3. next \in Seq(Row) /\ Len(next) = n + 1 /\ next[n + 1] = o /\ (\A i \in 1..n : next[i] = rows[i])
  BY <1>1, AppendProperties
<1>4. o.id = n + 1 OBVIOUS
<1> HIDE DEF n
<1>5. DOMAIN next = 1..n + 1 /\ 1..n + 1 = (1..n) \cup {n + 1} /\ n + 1 \notin 1..n BY <1>2, <1>3
<1>6. DOMAIN next = DOMAIN rows \cup {o.id} /\ o.id \notin DOMAIN rows /\ next[o.id] = o
      /\ \A i \in DOMAIN rows : next[i] = rows[i]
  BY <1>2, <1>3, <1>4, <1>5
<1>7. OpenIn(next) = OpenIn(rows) BY <1>6 DEF OpenIn
<1>8. \A i \in OpenIn(next) : next[i] = rows[i] BY <1>6, <1>7 DEF OpenIn
<1>9. \A i \in DOMAIN next : next[i].id = i BY <1>1, <1>6
<1>10. RowsInv(next, s)
  <2>1. \A i \in OpenIn(next) : next[i].type = "limit" /\ next[i].price > 0 /\ next[i].remaining > 0 /\ next[i].seq =< s
    BY <1>1, <1>7, <1>8
  <2>2. \A i, j \in OpenIn(next) : next[i].seq = next[j].seq => i = j BY ZenonT(60), <1>1, <1>7, <1>8
  <2> QED BY <1>3, <1>9, <2>1, <2>2 DEF RowsInv
<1> QED BY <1>3, <1>4, <1>6, <1>7, <1>10 DEF RowsMore, n

\* What a client sends.
NewRowIs(row, a, in) ==
  /\ row \in Row /\ row.id = Len(orders) + 1 /\ row.acct = a /\ row.side = in.side /\ row.type = in.type
  /\ row.price = in.price /\ row.qty = in.qty /\ row.quoteQty = in.quoteQty /\ row.status = "new"
  /\ row.holdRemaining = 0 /\ (row.type = "limit" => row.price > 0) /\ ~Open(row)
  /\ HoldFor(row) \in Nat /\ HoldFor(row) = TakerHold(row, NewTaker(row))

\* What a new row is made of.
LEMMA NewRowParts ==
  ASSUME orders \in Seq(Row), NEW a \in Accounts, NEW in \in Inputs
  PROVE  NewRowIs(NewRow(a, in), a, in)
<1> DEFINE row == NewRow(a, in)
           n == Len(orders) + 1
<1>1. in \in OrderShapes /\ (in.type = "limit" => in.price > 0) BY InputsAssumption
<1>2. /\ in.side \in Sides /\ in.type \in {"limit", "market"} /\ in.tif \in {"gtc", "ioc"}
      /\ in.price \in Nat /\ in.qty \in Nat /\ in.quoteQty \in Nat
  BY <1>1 DEF OrderShapes, Sides
<1>3. n \in Nat OBVIOUS
<1> HIDE DEF n
<1>4. row = [id |-> n, acct |-> a, side |-> in.side, type |-> in.type, tif |-> in.tif,
             price |-> in.price, qty |-> in.qty, quoteQty |-> in.quoteQty,
             status |-> "new", reason |-> "", remaining |-> in.qty, filledQty |-> 0, filledQuote |-> 0,
             holdAmount |-> 0, holdRemaining |-> 0, seq |-> 0]
  BY DEF NewRow, n
<1>5. "new" \in RowStatuses /\ "" \in Reasons /\ 0 \in Int BY DEF RowStatuses, Reasons
<1> HIDE DEF row
<1>6. row \in Row BY <1>2, <1>3, <1>4, <1>5 DEF Row
<1>7. /\ row.id = n /\ row.acct = a /\ row.side = in.side /\ row.type = in.type /\ row.price = in.price
      /\ row.qty = in.qty /\ row.quoteQty = in.quoteQty /\ row.status = "new" /\ row.holdRemaining = 0
  BY <1>4
<1>8. ~Open(row) BY <1>7 DEF Open, OpenStatuses
<1>9. HoldFor(row) \in Nat
  <2>1. \A u \in Nat, v \in Nat : u * v \in Nat BY Z3
  <2> QED BY <1>2, <1>7, <2>1 DEF HoldFor
<1>10. HoldFor(row) = TakerHold(row, NewTaker(row))
  BY <1>2, <1>7 DEF HoldFor, TakerHold, NewTaker
<1> QED BY <1>1, <1>6, <1>7, <1>8, <1>9, <1>10 DEF NewRowIs, n, row

\* Money between a row's hold and its owner's available balance.
RowMoved(rows, next, i, h) ==
  /\ rows \in Seq(Row) /\ next \in Seq(Row) /\ DOMAIN next = DOMAIN rows /\ i \in DOMAIN rows /\ h \in Int
  /\ next[i].acct = rows[i].acct /\ next[i].side = rows[i].side
  /\ next[i].holdRemaining = rows[i].holdRemaining + h
  /\ \A j \in DOMAIN rows \ {i} : next[j] = rows[j]

\* A row gives to, or takes from, its account's available what it holds more or less.
LEMMA MoneyMoves ==
  ASSUME NEW rows, NEW next, NEW i, NEW h, RowMoved(rows, next, i, h), NEW v \in Int, v + h = 0,
         NEW b, NEW rev, MoneyInv(rows, b, rev),
         NEW a, NEW x, a = rows[i].acct, x = HoldAsset(rows[i])
  PROVE  MoneyInv(next, Move(b, a, x, v, h), rev)
<1>1. /\ rows \in Seq(Row) /\ next \in Seq(Row) /\ DOMAIN next = DOMAIN rows /\ i \in DOMAIN rows /\ h \in Int
      /\ next[i].acct = rows[i].acct /\ next[i].side = rows[i].side
      /\ next[i].holdRemaining = rows[i].holdRemaining + h
      /\ \A j \in DOMAIN rows \ {i} : next[j] = rows[j]
  BY DEF RowMoved
<1>2. /\ b \in Balances /\ rev \in Revenues /\ HoldsInv(rows, b) /\ \A z \in Assets : Total(b, rev, z) = Deposited(z)
  BY DEF MoneyInv
<1>3. rows[i] \in Row /\ a \in Accounts /\ x \in Assets
  <2>1. rows[i] \in Row BY <1>1
  <2> DEFINE o == rows[i]
  <2>2. o \in Row /\ a = o.acct /\ x = HoldAsset(o) BY <2>1
  <2> HIDE DEF o
  <2> QED BY <2>1, <2>2 DEF Row, HoldAsset, Assets
<1> DEFINE m == Move(b, a, x, v, h)
<1>4. HoldsInv(next, m)
  <2>1. \A j \in DOMAIN rows \ {i} : next[j].acct = rows[j].acct /\ next[j].side = rows[j].side
                                     /\ next[j].holdRemaining = rows[j].holdRemaining
    BY <1>1
  <2>2. HoldsInv(next, Move(b, rows[i].acct, HoldAsset(rows[i]), v, h)) BY <1>1, <1>2, <2>1, HoldsMove
  <2> QED BY <2>2
<1>5. m \in Balances BY <1>1, <1>2, <1>3, MoveAt
<1>6. ASSUME NEW z \in Assets PROVE Total(m, rev, z) = Deposited(z)
  <2>1. /\ Total(b, rev, z) \in Int
        /\ Total(m, rev, z) = Total(b, rev, z) + (IF z = x THEN v + h ELSE 0)
    BY <1>1, <1>2, <1>3, MoveTotal
  <2>2. (IF z = x THEN v + h ELSE 0) = 0 OBVIOUS
  <2>3. Total(m, rev, z) = Total(b, rev, z) BY <2>1, <2>2
  <2> QED BY <1>2, <2>3
<1> HIDE DEF m
<1> QED BY <1>2, <1>4, <1>5, <1>6 DEF MoneyInv, m

\* The row with its hold, and where the settlement starts.
Held(row) == [row EXCEPT !.seq = seq + 1, !.holdAmount = HoldFor(row), !.holdRemaining = HoldFor(row)]
Started(row) ==
  [rows |-> Append(orders, Held(row)), revenue |-> revenue, trades |-> trades, taker |-> Held(row),
   bal |-> Move(bal, row.acct, HoldAsset(row), -HoldFor(row), HoldFor(row)), failed |-> FALSE]

\* What the taker's row is once its hold is placed.
LEMMA HeldParts ==
  ASSUME NEW row \in Row, seq \in Nat, HoldFor(row) \in Nat
  PROVE  LET o == Held(row) IN
         /\ o \in Row /\ o.id = row.id /\ o.acct = row.acct /\ o.side = row.side /\ o.type = row.type
         /\ o.price = row.price /\ o.qty = row.qty /\ o.quoteQty = row.quoteQty /\ o.seq = seq + 1 /\ o.status = row.status
         /\ o.holdRemaining = HoldFor(row)
<1> DEFINE h == HoldFor(row)
           n == seq + 1
           o == [row EXCEPT !.seq = n, !.holdAmount = h, !.holdRemaining = h]
<1>1. n \in Nat /\ h \in Nat OBVIOUS
<1>2. Held(row) = o BY DEF Held
<1> HIDE DEF h, n
<1>4. h \in Int BY <1>1
<1>5. row \in Row OBVIOUS
<1>6. o \in Row BY ONLY <1>1, <1>4, <1>5 DEF Row
<1>7. /\ o.id = row.id /\ o.acct = row.acct /\ o.side = row.side /\ o.type = row.type
      /\ o.price = row.price /\ o.qty = row.qty /\ o.quoteQty = row.quoteQty /\ o.seq = n /\ o.status = row.status
      /\ o.holdRemaining = h
  BY ONLY <1>5 DEF Row
<1>3. /\ o \in Row /\ o.id = row.id /\ o.acct = row.acct /\ o.side = row.side /\ o.type = row.type
      /\ o.price = row.price /\ o.qty = row.qty /\ o.quoteQty = row.quoteQty /\ o.seq = n /\ o.status = row.status
      /\ o.holdRemaining = h
  BY <1>6, <1>7
<1> HIDE DEF o
<1> QED BY <1>2, <1>3 DEF h, n

\* Where a match starts.
LEMMA StartMatch ==
  ASSUME BookInv(book, orders, OpenIn(orders)), NEW row \in Row
  PROVE  LET st == MatchStart(book, row) IN
         /\ MatchState(st, book.cfg, row) /\ st.trades = << >> /\ st.byID = OpenIn(orders)
         /\ st.opp = book[Opposite(row.side)] /\ st.t = NewTaker(row)
         /\ st.band = IF st.opp.prices = << >> THEN 0 ELSE BestPrice(st.opp)
<1> DEFINE st == MatchStart(book, row)
           opp == book[Opposite(row.side)]
           cfg == book.cfg
           byID == book.byID
           band == IF opp.prices = << >> THEN 0 ELSE BestPrice(opp)
           t == NewTaker(row)
           none == << >>
<1>1. st = [cfg |-> cfg, opp |-> opp, byID |-> byID, trades |-> none, t |-> t, band |-> band] BY DEF MatchStart
<1>2. InFlight(t, row)
  <2>1. row.qty \in Nat /\ row.quoteQty \in Nat /\ "" \in Reasons BY DEF Row, Reasons
  <2> DEFINE qt == row.qty
             qq == row.quoteQty
             dn == FALSE
  <2>2. t = TakerRec(row, qt, qq, 0, 0, "", dn) BY DEF NewTaker, TakerRec
  <2> HIDE DEF qt, qq, t, dn
  <2>3. t.o = row /\ t.remaining = qt /\ t.quoteRem = qq /\ t.filledQty = 0 /\ t.filledQuote = 0 /\ t.stop = ""
        /\ t.done = dn
    BY <2>2 DEF TakerRec
  <2>4. qt \in Nat /\ qq \in Nat BY <2>1 DEF qt, qq
  <2> DEFINE sum == t.quoteRem + t.filledQuote
  <2>6. sum = qq
    <3>1. t.quoteRem = qq /\ t.filledQuote = 0 /\ qq \in Nat BY <2>3, <2>4
    <3>2. t.quoteRem + t.filledQuote = qq BY ONLY <3>1, Z3
    <3> QED BY <3>2
  <2> HIDE DEF sum
  <2>5. sum = row.quoteQty BY <2>6 DEF qq
  <2> QED BY <2>1, <2>2, <2>3, <2>4, <2>5 DEF InFlight, TakerRec, sum
<1>3. none \in Seq(Trade) OBVIOUS
<1>4. byID = OpenIn(orders)
  <2> DEFINE ids == OpenIn(orders)
  <2>1. book = [cfg |-> book.cfg, buy |-> book.buy, sell |-> book.sell, byID |-> ids, lastSeq |-> book.lastSeq]
    BY DEF BookInv
  <2> HIDE DEF ids
  <2>2. book.byID = ids BY <2>1
  <2> QED BY <2>2 DEF ids
<1>7. band = IF opp.prices = << >> THEN 0 ELSE BestPrice(opp) OBVIOUS
<1> HIDE DEF st, opp, cfg, byID, band, t, none
<1>5. st.opp = opp /\ st.byID = byID /\ st.trades = none /\ st.t = t /\ st.band = band BY <1>1
<1>6. MatchState(st, cfg, row) BY <1>1, <1>2, <1>3, <1>5 DEF MatchState
<1>8. st.band = IF st.opp.prices = << >> THEN 0 ELSE BestPrice(st.opp) BY <1>5, <1>7
<1> QED BY <1>4, <1>5, <1>6, <1>8 DEF st, opp, cfg, t, none

\* No open buy order meets an open sell order.
Uncrossed(rows) ==
  \A i, j \in OpenIn(rows) : rows[i].side = "buy" /\ rows[j].side = "sell" => rows[i].price < rows[j].price

\* What a command finds.
Ready ==
  /\ seq \in Nat /\ RowsInv(orders, seq) /\ (\A i \in DOMAIN orders : Covered(orders[i]))
  /\ MoneyInv(orders, bal, revenue) /\ Solvent(bal) /\ BookInv(book, orders, OpenIn(orders))
  /\ book.lastSeq = seq /\ trades \in Seq(TradeRow) /\ Uncrossed(orders)

\* A placed hold keeps the book, the rows and the money in step.
LEMMA StartFlight ==
  ASSUME Ready, NEW a \in Accounts, NEW in \in Inputs, NEW row, row = NewRow(a, in), Funded(a, row)
  PROVE  Flight(book, row, seq, MatchStart(book, row), Started(row))
<1> DEFINE h == HoldFor(row)
           held == Held(row)
           x == HoldAsset(row)
           rows0 == Append(orders, row)
           rows == Append(orders, held)
           st == MatchStart(book, row)
           start == Started(row)
           b == Move(bal, a, x, -h, h)
           ids == OpenIn(orders)
<1>1. /\ seq \in Nat /\ RowsInv(orders, seq) /\ (\A i \in DOMAIN orders : Covered(orders[i]))
      /\ MoneyInv(orders, bal, revenue) /\ Solvent(bal) /\ BookInv(book, orders, ids)
      /\ orders \in Seq(Row)
  BY DEF Ready, RowsInv
<1>2. NewRowIs(row, a, in) BY <1>1, NewRowParts
<1>3. /\ row \in Row /\ row.id = Len(orders) + 1 /\ row.acct = a /\ row.side = in.side /\ row.type = in.type
      /\ row.status = "new" /\ row.holdRemaining = 0 /\ ~Open(row)
      /\ h \in Nat /\ h = TakerHold(row, NewTaker(row))
  BY <1>2 DEF NewRowIs
<1>4. /\ held \in Row /\ held.id = row.id /\ held.acct = row.acct /\ held.side = row.side /\ held.type = row.type
      /\ held.price = row.price /\ held.qty = row.qty /\ held.quoteQty = row.quoteQty /\ held.seq = seq + 1 /\ held.status = row.status
      /\ held.holdRemaining = h
  BY <1>1, <1>3, HeldParts
<1> HIDE DEF held, h, x
<1>5. ~Open(held) BY <1>3, <1>4 DEF Open, OpenStatuses
<1>6. RowsMore(orders, seq, held, rows) BY <1>1, <1>3, <1>4, <1>5, AppendRow
<1>7. RowsMore(orders, seq, row, rows0) BY <1>1, <1>3, AppendRow
<1> HIDE DEF rows, rows0
<1>8. /\ RowsInv(rows, seq) /\ OpenIn(rows) = ids /\ Len(rows) = row.id
      /\ DOMAIN rows = DOMAIN orders \cup {row.id} /\ row.id \notin DOMAIN orders /\ rows[row.id] = held
      /\ (\A i \in DOMAIN orders : rows[i] = orders[i]) /\ rows \in Seq(Row)
  BY <1>4, <1>6 DEF RowsMore, RowsInv
<1>9. /\ DOMAIN rows0 = DOMAIN orders \cup {row.id} /\ rows0[row.id] = row
      /\ (\A i \in DOMAIN orders : rows0[i] = orders[i]) /\ rows0 \in Seq(Row)
  BY <1>7 DEF RowsMore, RowsInv
<1>10. start = [rows |-> rows, revenue |-> revenue, trades |-> trades, taker |-> held, bal |-> b, failed |-> FALSE]
  BY <1>3 DEF Started, rows, held, h, x
<1> HIDE DEF start, b
<1>11. start.rows = rows /\ start.revenue = revenue /\ start.taker = held /\ start.bal = b /\ start.failed = FALSE
  BY <1>10
<1>12. Live(start) = rows
  <2>1. rows = [rows EXCEPT ![row.id] = held] BY <1>8
  <2> QED BY <1>4, <1>11, <2>1 DEF Live
<1>13. MoneyInv(rows0, bal, revenue)
  <2>1. HoldsInv(rows0, bal) BY SMTT(60), <1>1, <1>3, HoldsAppend DEF MoneyInv, rows0
  <2> QED BY <1>1, <2>1 DEF MoneyInv
<1>14. MoneyInv(rows, b, revenue)
  <2>1. RowMoved(rows0, rows, row.id, h)
    <3>1. h \in Int /\ held.holdRemaining = row.holdRemaining + h BY <1>3, <1>4
    <3> QED BY <1>4, <1>8, <1>9, <3>1 DEF RowMoved
  <2> DEFINE v == -h
  <2>2. v \in Int /\ v + h = 0 BY <1>3
  <2>3. a = rows0[row.id].acct /\ x = HoldAsset(rows0[row.id]) BY <1>3, <1>9 DEF x
  <2>4. b = Move(bal, a, x, v, h) BY DEF b
  <2> HIDE DEF v
  <2> QED BY <1>13, <2>1, <2>2, <2>3, <2>4, MoneyMoves
<1>15. Solvent(b)
  <2> DEFINE v == -h
  <2>1. b = Move(bal, a, x, v, h) BY DEF b
  <2>2. bal \in Balances /\ x \in Assets /\ v \in Int /\ h \in Int
    BY <1>1, <1>3 DEF MoneyInv, x, HoldAsset, Assets
  <2>3. h =< bal[a][x].avail BY DEF Funded, h, x
  <2> HIDE DEF v
  <2>4. \A c \in Accounts, y \in Assets :
          b[c][y] = IF c = a /\ y = x THEN [avail |-> bal[a][x].avail + v, hold |-> bal[a][x].hold + h] ELSE bal[c][y]
    BY <2>1, <2>2, MoveAt
  <2>5. bal[a][x].avail + v >= 0
    <3>1. bal[a][x].avail \in Int BY <2>2 DEF Balances
    <3> QED BY <1>3, <2>3, <3>1 DEF v
  <2>6. \A c \in Accounts, y \in Assets : bal[c][y].avail >= 0 BY <1>1 DEF Solvent
  <2> QED BY <2>4, <2>5, <2>6 DEF Solvent
<1>16. RowsBehind(start, row, seq)
  <2>1. \A i \in DOMAIN rows \ {row.id} : Covered(rows[i]) BY <1>1, <1>8
  <2> QED BY <1>5, <1>8, <1>11, <2>1 DEF RowsBehind
<1>17. TakerIs(held, row, seq, h) BY <1>4 DEF TakerIs
<1>18. /\ MatchState(st, book.cfg, row) /\ st.byID = ids /\ st.opp = book[Opposite(row.side)] /\ st.t = NewTaker(row)
  BY <1>1, <1>3, StartMatch
<1> HIDE DEF st, ids
<1>19. \A i \in ids : rows[i] = orders[i] BY <1>8 DEF ids, OpenIn
<1>20. \A side \in Sides : SideInv(side, book[side], rows, ids)
  <2>1. SideInv("buy", book.buy, orders, ids) /\ SideInv("sell", book.sell, orders, ids) BY <1>1 DEF BookInv
  <2>4. IsFiniteSet(ids) BY <1>1, OpenRows DEF RowsAre, ids
  <2>2. SideInv("buy", book.buy, rows, ids) BY <1>19, <2>1, <2>4, SideKeeps
  <2>3. SideInv("sell", book.sell, rows, ids) BY <1>19, <2>1, <2>4, SideKeeps
  <2> QED BY <2>2, <2>3 DEF Sides
<1>21. row.side \in Sides /\ Opposite(row.side) \in Sides BY <1>3 DEF Row, Sides, Opposite
<1>22. TakerIs(start.taker, row, seq, TakerHold(row, st.t)) BY <1>3, <1>11, <1>17, <1>18
<1>23. st.byID = OpenIn(start.rows) BY <1>8, <1>11, <1>18
<1>24. SideInv(Opposite(row.side), st.opp, start.rows, OpenIn(start.rows))
       /\ SideInv(row.side, book[row.side], start.rows, OpenIn(start.rows))
  BY <1>8, <1>11, <1>18, <1>20, <1>21
<1> QED BY <1>11, <1>12, <1>14, <1>15, <1>16, <1>18, <1>22, <1>23, <1>24 DEF Flight, start, st

\* Before its first turn nothing has been traded.
LEMMA StartUnder ==
  ASSUME Ready, NEW row, row \in Row, Flight(book, row, seq, MatchStart(book, row), Started(row)),
         NEW N, N = Cardinality(book.byID)
  PROVE  Underway(book, row, seq, MatchStart(book, row).band, Started(row).rows, Len(trades), N,
                  MatchStart(book, row), Started(row))
<1> DEFINE st == MatchStart(book, row)
           start == Started(row)
           rows == start.rows
           n == Len(trades)
<1>1. /\ trades \in Seq(TradeRow) /\ seq \in Nat /\ orders \in Seq(Row) /\ RowsInv(orders, seq)
      /\ BookInv(book, orders, OpenIn(orders))
  BY DEF Ready, RowsInv
<1>2. start.trades = trades BY DEF Started
<1>3. st.t = NewTaker(row) BY <1>1, StartMatch
<1>4. st.t.stop = "" /\ ~st.t.done
  <2> DEFINE t == st.t
             no == FALSE
             none == ""
             zero == 0
  <2>1. t = [o |-> row, remaining |-> row.qty, quoteRem |-> row.quoteQty, filledQty |-> zero, filledQuote |-> zero,
             stop |-> none, done |-> no]
    BY <1>3 DEF NewTaker
  <2> HIDE DEF t, no, none
  <2>2. t.stop = none /\ t.done = no BY <2>1
  <2> QED BY <2>2 DEF t, no, none
<1> HIDE DEF start, st
<1>5. Since(rows, rows) BY DEF Since, Kin
<1>6. n \in Nat /\ n >= n /\ n + 1..n = {} BY <1>1
<1>7. Fair(row, book.cfg, st.band, rows, n, start)
  <2>1. Len(start.trades) = n BY <1>2
  <2> HIDE DEF n, rows
  <2> QED BY <1>1, <1>2, <1>5, <1>6, <2>1 DEF Fair, rows
<1>8. Cardinality(st.byID) =< N
  <2>1. st.byID = book.byID BY DEF st, MatchStart
  <2>2. st.byID = OpenIn(start.rows) /\ RowsInv(start.rows, seq) BY DEF st, start, Flight, RowsBehind
  <2>3. IsFiniteSet(st.byID) BY <2>2, OpenRows DEF RowsAre
  <2>4. Cardinality(st.byID) \in Nat BY <2>3, FS_CardinalityType
  <2> DEFINE c == Cardinality(st.byID)
  <2>5. c = N /\ c \in Nat BY <2>1, <2>4
  <2> HIDE DEF c
  <2>6. c =< N BY <2>5
  <2> QED BY <2>6 DEF c
<1>9. Progress(row, book.cfg, st, N) BY <1>4, <1>8 DEF Progress
<1>10. Flight(book, row, seq, st, start) BY DEF st, start
<1> HIDE DEF rows, n
<1>11. Underway(book, row, seq, st.band, rows, n, N, st, start) BY <1>7, <1>9, <1>10 DEF Underway
<1> QED BY <1>11 DEF st, start, rows, n

\* The match and its settlement, in flight to the end.
MatchOf(row) == Match(book, row)
SettledOf(row) == FoldLeft(LAMBDA acc, t : SettleTrade(acc, t, seq + 1), Started(row), MatchOf(row).trades)
BandOf(row) == MatchStart(book, row).band

\* A matched and settled command keeps them in step.
LEMMA EndFlight ==
  ASSUME Ready, NEW a \in Accounts, NEW in \in Inputs, NEW row, row = NewRow(a, in), Funded(a, row)
  PROVE  Ended(book, row, seq, BandOf(row), Started(row).rows, Len(trades), MatchOf(row), SettledOf(row))
<1> DEFINE st == MatchStart(book, row)
           start == Started(row)
           n == Cardinality(book.byID)
           h == Fold("match", 0, st, Turns(n))
           x == Fold("settle", seq + 1, start, h.trades)
           rows0 == start.rows
           l == Len(trades)
<1>1. seq \in Nat /\ orders \in Seq(Row) /\ BookInv(book, orders, OpenIn(orders)) BY DEF Ready, RowsInv
<1>2. row \in Row BY <1>1, NewRowParts DEF NewRowIs
<1>3. Flight(book, row, seq, st, start) BY StartFlight
<1>4. st.trades = << >> /\ st.byID = OpenIn(orders) BY <1>1, <1>2, StartMatch
<1>5. n \in Nat
  <2>1. book.byID = OpenIn(orders)
    <3> DEFINE ids == OpenIn(orders)
    <3>1. book = [cfg |-> book.cfg, buy |-> book.buy, sell |-> book.sell, byID |-> ids, lastSeq |-> book.lastSeq]
      BY <1>1 DEF BookInv
    <3> HIDE DEF ids
    <3> QED BY <3>1 DEF ids
  <2>2. OpenIn(orders) \subseteq 1..Len(orders) BY <1>1 DEF OpenIn
  <2>3. IsFiniteSet(1..Len(orders))
    <3>1. orders \in Seq(Row) BY <1>1
    <3>2. Len(orders) \in Nat BY ONLY <3>1
    <3>3. ASSUME NEW k \in Nat PROVE IsFiniteSet(1..k)
      <4>1. 1 \in Int /\ k \in Int BY ONLY SMTT(60), k \in Nat
      <4> QED BY ONLY <4>1, FS_Interval, Zenon
    <3> QED BY ONLY <3>2, <3>3
  <2> QED BY <2>1, <2>2, <2>3, FS_Subset, FS_CardinalityType
<1>6. book.cfg.qtyStep \in Nat \ {0}
  <2>1. book.cfg \in Configs BY SMTT(60), <1>1 DEF BookInv
  <2>2. ConfigOK(book.cfg) BY ONLY <2>1, MarketAssumption
  <2> QED BY ONLY <2>2, Zenon DEF ConfigOK
<1>10. l \in Nat BY DEF Ready
<1>11. Underway(book, row, seq, st.band, rows0, l, n, st, start)
  <2> HIDE DEF n
  <2>1. n = Cardinality(book.byID) BY DEF n
  <2> QED BY <1>2, <1>3, <2>1, StartUnder
<1> HIDE DEF st, start, n, rows0, l
<1>7. Ended(book, row, seq, st.band, rows0, l, h, x)
  BY ONLY <1>1, <1>2, <1>4, <1>5, <1>6, <1>10, <1>11, MatchFlight
<1>8. MatchOf(row) = h
  <2>1. DOMAIN Turns(n) = 1..n BY DEF Turns
  <2>2. MatchOf(row) = FoldLeft(LAMBDA v, turn : MatchStep(v), st, Turns(n)) BY DEF MatchOf, Match, st, n, Turns
  <2> QED BY <1>5, <2>1, <2>2, MatchFold
<1>9. SettledOf(row) = x
  <2> DEFINE q == h.trades
  <2>1. q \in Seq(Trade) BY <1>7 DEF Ended, Flight, MatchState
  <2>2. SettledOf(row) = FoldLeft(LAMBDA acc, t : SettleTrade(acc, t, seq + 1), start, q)
    <3> HIDE DEF h
    <3> QED BY <1>8 DEF SettledOf, start
  <2> HIDE DEF q
  <2>3. Len(q) \in Nat /\ DOMAIN q = 1..Len(q) BY <2>1
  <2> DEFINE c == seq + 1
  <2> HIDE DEF c
  <2>4. FoldLeft(LAMBDA acc, t : SettleTrade(acc, t, c), start, q) = Fold("settle", c, start, q) BY <2>3, SettleFold
  <2> QED BY <2>2, <2>4 DEF q, c
<1> HIDE DEF h, x
<1> QED BY <1>7, <1>8, <1>9 DEF BandOf, st, start, rows0, l

-----------------------------------------------------------------------------
(* A command ends.                                                         *)

\* What the book answers to a new order.
Matched(row) ==
  [book EXCEPT ![Opposite(row.side)] = MatchOf(row).opp, !.byID = MatchOf(row).byID, !.lastSeq = seq + 1]
RestOf(row) ==
  [id |-> row.id, acct |-> row.acct, side |-> row.side, price |-> row.price, qty |-> row.qty,
   remaining |-> MatchOf(row).t.remaining, filledQty |-> MatchOf(row).t.filledQty,
   filledQuote |-> MatchOf(row).t.filledQuote, seq |-> seq + 1]
Answered(row, r) ==
  /\ r.trades = MatchOf(row).trades
  /\ r.filledQty = MatchOf(row).t.filledQty /\ r.filledQuote = MatchOf(row).t.filledQuote
  /\ r.remaining = IF MarketBuy(row) THEN 0 ELSE MatchOf(row).t.remaining
AnswerIs(row, r) ==
  \/ r.kind = "rejected" /\ r.reason \in Reasons \ {"ioc"} /\ r.book = Advance(book, seq + 1)
  \/ /\ r.kind \in {"filled", "cancelled"} /\ r.reason \in Reasons /\ r.book = Matched(row) /\ Answered(row, r)
     /\ r.reason = "ioc" => ~Exhausted(MatchOf(row).t) /\ MatchOf(row).t.stop = ""
  \/ /\ r.kind \in {"updated", "accepted"} /\ r.reason \in Reasons /\ r.book = InsertOrder(Matched(row), RestOf(row))
     /\ Answered(row, r) /\ row.type = "limit" /\ ~Exhausted(MatchOf(row).t) /\ MatchOf(row).t.stop = ""
Stops == {"", "price_protection", "self_trade"}

\* ApplyNew answers in one of three ways.
LEMMA NewAnswer ==
  ASSUME NEW row, MatchOf(row).t.stop \in Stops
  PROVE  AnswerIs(row, ApplyNew(book, seq + 1, row))
<1> DEFINE n == seq + 1
           st == MatchOf(row)
           t == st.t
           r == ApplyNew(book, n, row)
           invalid == ValidateNewOrder(book.cfg, row)
           res(bk, kind, reason) ==
             [book |-> bk, kind |-> kind, reason |-> reason, trades |-> st.trades,
              filledQty |-> t.filledQty, filledQuote |-> t.filledQuote,
              remaining |-> IF MarketBuy(row) THEN 0 ELSE t.remaining]
           kind0 == IF t.filledQty > 0 THEN "updated" ELSE "accepted"
           dup == row.id \in book.byID
           mkt == MarketReject(book, row)
<1> HIDE DEF n
<1>1. r = IF invalid # "" THEN Rejected(book, n, invalid)
          ELSE IF dup THEN Rejected(book, n, "duplicate_order_id")
          ELSE IF row.type = "market" /\ mkt # "" THEN Rejected(book, n, mkt)
          ELSE IF Exhausted(t) THEN res(Matched(row), "filled", "")
          ELSE IF t.stop # "" THEN res(Matched(row), "cancelled", t.stop)
          ELSE IF row.type = "limit" /\ row.tif = "gtc" THEN res(InsertOrder(Matched(row), RestOf(row)), kind0, "")
          ELSE res(Matched(row), "cancelled", "ioc")
  BY DEF ApplyNew, Matched, RestOf, MatchOf, n
<1> DEFINE Others == Reasons \ {"ioc"}
<1>2. invalid \in Others BY DEF ValidateNewOrder, ValidateBaseQty, Reasons
<1>3. mkt \in Others BY DEF MarketReject, Reasons
<1>4. kind0 \in {"updated", "accepted"} OBVIOUS
<1> DEFINE rem == IF MarketBuy(row) THEN 0 ELSE t.remaining
<1>5. ASSUME NEW bk, NEW kind, NEW reason
      PROVE  LET q == res(bk, kind, reason) IN q.book = bk /\ q.kind = kind /\ q.reason = reason /\ Answered(row, q)
  <2> HIDE DEF rem
  <2> DEFINE q == [book |-> bk, kind |-> kind, reason |-> reason, trades |-> st.trades,
                   filledQty |-> t.filledQty, filledQuote |-> t.filledQuote, remaining |-> rem]
  <2>1. res(bk, kind, reason) = q BY DEF rem
  <2>2. q.book = bk /\ q.kind = kind /\ q.reason = reason /\ q.trades = st.trades /\ q.filledQty = t.filledQty
        /\ q.filledQuote = t.filledQuote /\ q.remaining = rem
    OBVIOUS
  <2> HIDE DEF q
  <2> QED BY <2>1, <2>2 DEF Answered, rem
<1>6. ASSUME NEW reason \in Others
      PROVE  LET q == Rejected(book, n, reason) IN
             q.kind = "rejected" /\ q.reason \in Others /\ q.book = Advance(book, seq + 1)
  BY DEF Rejected, n
<1>7. "duplicate_order_id" \in Others /\ "" \in Others /\ "ioc" \in Reasons /\ t.stop \in Others /\ Others \subseteq Reasons
  BY DEF Reasons, Stops
<1> HIDE DEF Others
<1> HIDE DEF r, invalid, dup, mkt, kind0, res
<1> DEFINE late == ~Exhausted(t) /\ t.stop = ""
<1>8. \/ \E reason \in Others : r = Rejected(book, n, reason)
      \/ \E kind \in {"filled", "cancelled"}, reason2 \in Others : r = res(Matched(row), kind, reason2)
      \/ late /\ r = res(Matched(row), "cancelled", "ioc")
      \/ row.type = "limit" /\ late /\ r = res(InsertOrder(Matched(row), RestOf(row)), kind0, "")
  BY ONLY <1>1, <1>2, <1>3, <1>7
<1> HIDE DEF late
<1>9. CASE \E reason \in Others : r = Rejected(book, n, reason)
  BY <1>6, <1>9 DEF AnswerIs, r, n, Others
<1>10. CASE \E kind \in {"filled", "cancelled"}, reason2 \in Others : r = res(Matched(row), kind, reason2)
  <2>1. PICK kind \in {"filled", "cancelled"}, reason2 \in Others : r = res(Matched(row), kind, reason2) BY <1>10
  <2>2. r.book = Matched(row) /\ r.kind = kind /\ r.reason = reason2 /\ Answered(row, r) BY ONLY <1>5, <2>1
  <2>4. reason2 \in Reasons /\ reason2 # "ioc" BY <1>7 DEF Others
  <2>3. AnswerIs(row, r) BY <2>2, <2>4 DEF AnswerIs
  <2> QED BY <2>3 DEF r, n
<1>12. CASE late /\ r = res(Matched(row), "cancelled", "ioc")
  <2> DEFINE bk2 == Matched(row)
             kind == "cancelled"
             why == "ioc"
  <2>1. r = res(bk2, kind, why) BY <1>12
  <2> HIDE DEF bk2, kind, why
  <2>2. r.book = bk2 /\ r.kind = kind /\ r.reason = why /\ Answered(row, r) BY ONLY <1>5, <2>1
  <2>3. AnswerIs(row, r) BY <1>7, <1>12, <2>2 DEF AnswerIs, bk2, kind, why, late
  <2> QED BY <2>3 DEF r, n
<1>11. CASE row.type = "limit" /\ late /\ r = res(InsertOrder(Matched(row), RestOf(row)), kind0, "")
  <2> DEFINE bk2 == InsertOrder(Matched(row), RestOf(row))
             none == ""
  <2>1. r = res(bk2, kind0, none) BY <1>11
  <2> HIDE DEF bk2, none
  <2>3. r.book = bk2 /\ r.kind = kind0 /\ r.reason = none /\ Answered(row, r) BY ONLY <1>5, <2>1
  <2>2. r.book = InsertOrder(Matched(row), RestOf(row)) /\ r.kind = kind0 /\ r.reason = "" /\ Answered(row, r)
    BY <2>3 DEF bk2, none
  <2>4. AnswerIs(row, r) BY <1>4, <1>7, <1>11, <2>2 DEF AnswerIs, late
  <2> QED BY <2>4 DEF r, n
<1> QED BY <1>8, <1>9, <1>10, <1>11, <1>12

\* The taker's row at its end.
EndOf(o, r) == LET f == FinalTaker(o, r) IN IF Open(f) THEN f ELSE [f EXCEPT !.holdRemaining = 0]
EndIs(o, r, e) ==
  /\ e \in Row /\ e.id = o.id /\ e.acct = o.acct /\ e.side = o.side /\ e.type = o.type /\ e.price = o.price
  /\ e.quoteQty = o.quoteQty /\ e.reason = r.reason
  /\ e.qty = o.qty /\ e.seq = o.seq /\ e.filledQty = r.filledQty /\ e.filledQuote = r.filledQuote
  /\ Open(e) <=> r.kind \in {"updated", "accepted"}
  /\ Open(e) => e.remaining = r.remaining
  /\ e.holdRemaining = IF Open(e) THEN o.holdRemaining ELSE 0
FinalIs(o, r) ==
  LET f == FinalTaker(o, r) IN
  f.acct = o.acct /\ f.side = o.side /\ f.holdRemaining = o.holdRemaining /\ (Open(f) <=> Open(EndOf(o, r)))

\* The taker's row at its end.
LEMMA EndRow ==
  ASSUME NEW o \in Row, NEW r, r.kind \in {"filled", "cancelled", "updated", "accepted"}, r.reason \in Reasons,
         r.filledQty \in Nat, r.filledQuote \in Nat, r.remaining \in Nat
  PROVE  EndIs(o, r, EndOf(o, r)) /\ FinalIs(o, r)
<1> DEFINE rem == IF r.kind = "filled" THEN 0 ELSE r.remaining
           stt == CASE r.kind = "accepted" -> "open"
                    [] r.kind = "updated"  -> "partially_filled"
                    [] OTHER               -> r.kind
           reason == r.reason
           fq == r.filledQty
           fv == r.filledQuote
           f == [o EXCEPT !.filledQty = fq, !.filledQuote = fv, !.remaining = rem, !.status = stt, !.reason = reason]
           g == [f EXCEPT !.holdRemaining = 0]
<1>1. FinalTaker(o, r) = f BY DEF FinalTaker
<1>2. /\ rem \in Nat /\ stt \in RowStatuses /\ reason \in Reasons /\ fq \in Nat /\ fv \in Nat
      /\ (stt \in OpenStatuses <=> r.kind \in {"updated", "accepted"})
      /\ (r.kind \in {"updated", "accepted"} => rem = r.remaining)
  <2>1. r.kind = "accepted" => stt = "open" OBVIOUS
  <2>2. r.kind = "updated" => stt = "partially_filled" OBVIOUS
  <2>3. r.kind \in {"filled", "cancelled"} => stt = r.kind OBVIOUS
  <2> HIDE DEF stt
  <2> QED BY <2>1, <2>2, <2>3 DEF RowStatuses, OpenStatuses
<1> HIDE DEF rem, stt, reason, fq, fv
<1>3. f \in Row BY ONLY o \in Row, <1>2 DEF Row
<1>4. /\ f.id = o.id /\ f.acct = o.acct /\ f.side = o.side /\ f.type = o.type /\ f.price = o.price /\ f.qty = o.qty
      /\ f.quoteQty = o.quoteQty /\ f.reason = reason
      /\ f.seq = o.seq /\ f.filledQty = fq /\ f.filledQuote = fv /\ f.remaining = rem /\ f.status = stt
      /\ f.holdRemaining = o.holdRemaining
  BY ONLY o \in Row DEF Row
<1> HIDE DEF f
<1>5. g \in Row /\ g.id = f.id /\ g.acct = f.acct /\ g.side = f.side /\ g.type = f.type /\ g.price = f.price
      /\ g.qty = f.qty /\ g.seq = f.seq /\ g.filledQty = f.filledQty /\ g.filledQuote = f.filledQuote
      /\ g.remaining = f.remaining /\ g.status = f.status /\ g.holdRemaining = 0
      /\ g.quoteQty = f.quoteQty /\ g.reason = f.reason
  <2>1. 0 \in Int OBVIOUS
  <2>2. g \in Row BY ONLY <1>3, <2>1 DEF Row
  <2> QED BY ONLY <1>3, <2>2 DEF Row
<1> HIDE DEF g
<1>6. EndOf(o, r) = IF Open(f) THEN f ELSE g BY <1>1 DEF EndOf, g
<1>7. (Open(f) <=> r.kind \in {"updated", "accepted"}) /\ (Open(g) <=> Open(f)) BY <1>2, <1>4, <1>5 DEF Open
<1>8. EndIs(o, r, EndOf(o, r))
  <2>1. CASE Open(f) BY <1>2, <1>3, <1>4, <1>6, <1>7, <2>1 DEF EndIs, fq, fv, reason
  <2>2. CASE ~Open(f) BY <1>2, <1>4, <1>5, <1>6, <1>7, <2>2 DEF EndIs, fq, fv, reason
  <2> QED BY <2>1, <2>2
<1> QED BY <1>1, <1>4, <1>6, <1>7, <1>8 DEF FinalIs

\* The rows a command starts from: those there are, and its own.
StartedIs(row, rows) ==
  /\ DOMAIN rows = DOMAIN orders \cup {row.id} /\ row.id \notin DOMAIN orders /\ OpenIn(rows) = OpenIn(orders)
  /\ \A i \in DOMAIN orders : rows[i] = orders[i]

\* The rows a command starts from are the rows and its own.
LEMMA StartedRows ==
  ASSUME Ready, NEW a \in Accounts, NEW in \in Inputs, NEW row, row = NewRow(a, in)
  PROVE  StartedIs(row, Started(row).rows)
<1> DEFINE held == Held(row)
           rows == Append(orders, held)
<1>1. seq \in Nat /\ RowsInv(orders, seq) /\ orders \in Seq(Row) BY DEF Ready, RowsInv
<1>2. NewRowIs(row, a, in) BY <1>1, NewRowParts
<1>3. row \in Row /\ row.id = Len(orders) + 1 /\ ~Open(row) /\ HoldFor(row) \in Nat BY <1>2 DEF NewRowIs
<1>4. held \in Row /\ held.id = row.id /\ held.status = row.status BY <1>1, <1>3, HeldParts
<1>5. Started(row).rows = rows BY DEF Started
<1> HIDE DEF held
<1>6. ~Open(held) BY <1>3, <1>4 DEF Open, OpenStatuses
<1>7. RowsMore(orders, seq, held, rows) BY <1>1, <1>3, <1>4, <1>6, AppendRow
<1>8. row.id \notin DOMAIN orders BY <1>1, <1>3
<1> HIDE DEF rows
<1> QED BY <1>4, <1>5, <1>7, <1>8 DEF RowsMore, StartedIs

\* What becomes of open orders does not cross them.
LEMMA StillUncrossed ==
  ASSUME NEW rows0, Uncrossed(rows0), NEW rows, Since(rows0, rows)
  PROVE  Uncrossed(rows)
<1>1. \A k \in OpenIn(rows) : k \in OpenIn(rows0) /\ rows[k].side = rows0[k].side /\ rows[k].price = rows0[k].price
  BY DEF Since, Kin
<1> QED BY <1>1 DEF Uncrossed

\* The best price of a side is no worse than any order's there.
LEMMA BestOfSide ==
  ASSUME NEW side, NEW s, NEW rows, NEW ids, SideInv(side, s, rows, ids), RowsAre(rows, ids),
         NEW j \in ids, rows[j].side = side
  PROVE  /\ s.prices # << >> /\ BestPrice(s) \in Nat /\ rows[j].price \in Nat
         /\ ~Better(side, rows[j].price, BestPrice(s))
<1>1. s.prices \in Seq(Nat) /\ ToSet(s.prices) = {rows[k].price : k \in OfSide(rows, ids, side)} BY DEF SideInv
<1> DEFINE pr == s.prices
<1>2. rows[j].price \in ToSet(pr) BY <1>1 DEF OfSide
<1>3. pr # << >> /\ ToSet(pr) \subseteq Nat
  <2> HIDE DEF pr
  <2>1. pr \in Seq(Nat) BY <1>1 DEF pr
  <2> QED BY <1>2, <2>1, SeqParts
<1>4. PICK i \in ids : HeadInv(side, s, rows, ids, i) BY <1>3, HeadOfSide
<1>5. ~Before(side, rows[j], rows[i]) BY <1>4, HeadIsFirst
<1>6. rows[i].price = BestPrice(s) /\ BestPrice(s) \in ToSet(pr) BY <1>4 DEF HeadInv
<1> QED BY <1>2, <1>3, <1>5, <1>6 DEF Before

\* A limit order that rests lies beyond every order it faces.
Beyond(row, rows) ==
  \A j \in OpenIn(rows) : rows[j].side = Opposite(row.side) => ~Crosses(row.side, row.price, rows[j].price)

\* The remainder of a limit order rests beyond all it faces: nothing better was left.
LEMMA RestsBeyond ==
  ASSUME NEW row \in Row, NEW opp, NEW rows, NEW s, RowsInv(rows, s),
         SideInv(Opposite(row.side), opp, rows, OpenIn(rows)),
         opp.prices = << >> \/ ~Crosses(row.side, row.price, BestPrice(opp))
  PROVE  Beyond(row, rows)
<1> DEFINE q == Opposite(row.side)
           ids == OpenIn(rows)
<1>1. RowsAre(rows, ids) BY OpenRows
<1>2. row.side \in {"buy", "sell"} /\ row.price \in Nat BY DEF Row, Sides
<1> SUFFICES ASSUME NEW j \in ids, rows[j].side = q PROVE ~Crosses(row.side, row.price, rows[j].price) BY DEF Beyond
<1> DEFINE p == rows[j].price
           best == BestPrice(opp)
<1>3. opp.prices # << >> /\ best \in Nat /\ p \in Nat /\ ~Better(q, p, best) BY <1>1, BestOfSide
<1>4. ~Crosses(row.side, row.price, best) BY <1>3
<1> HIDE DEF p, best
<1>5. CASE row.side = "buy"
  <2>1. q = "sell" BY <1>5 DEF Opposite
  <2> QED BY <1>2, <1>3, <1>4, <1>5, <2>1 DEF Better, Crosses, p
<1>6. CASE row.side = "sell"
  <2>1. q = "buy" BY <1>6 DEF Opposite
  <2> QED BY <1>2, <1>3, <1>4, <1>6, <2>1 DEF Better, Crosses, p
<1> QED BY <1>2, <1>5, <1>6

\* The rows and the balances agree.
Kept(s, rows, b, rev) ==
  /\ RowsInv(rows, s) /\ (\A i \in DOMAIN rows : Covered(rows[i])) /\ MoneyInv(rows, b, rev) /\ Solvent(b)
  /\ Uncrossed(rows)

\* The row that was not open gets its end.
RowEnded(rows, i, s, e, next) ==
  /\ RowsInv(next, s + 1) /\ next[i] = e /\ DOMAIN next = DOMAIN rows /\ i \notin OpenIn(rows)
  /\ \A j \in DOMAIN rows \ {i} : next[j] = rows[j]
  /\ OpenIn(next) = IF Open(e) THEN OpenIn(rows) \cup {i} ELSE OpenIn(rows)

\* The rows once the taker's row has its end.
LEMMA EndedRows ==
  ASSUME NEW s \in Nat, NEW rows, RowsInv(rows, s), NEW i \in DOMAIN rows, ~Open(rows[i]), NEW e \in Row, e.id = i,
         Open(e) => e.type = "limit" /\ e.price > 0 /\ e.remaining > 0 /\ e.seq = s + 1,
         NEW next, next = [rows EXCEPT ![i] = e]
  PROVE  RowEnded(rows, i, s, e, next)
<1>1. /\ rows \in Seq(Row) /\ (\A j \in DOMAIN rows : rows[j].id = j)
      /\ (\A j \in OpenIn(rows) :
            rows[j].type = "limit" /\ rows[j].price > 0 /\ rows[j].remaining > 0 /\ rows[j].seq =< s)
      /\ (\A j, k \in OpenIn(rows) : rows[j].seq = rows[k].seq => j = k)
  BY DEF RowsInv
<1>2. /\ next \in Seq(Row) /\ DOMAIN next = DOMAIN rows /\ next[i] = e
      /\ \A j \in DOMAIN rows \ {i} : next[j] = rows[j]
  BY <1>1, ReplaceRow
<1>3. i \notin OpenIn(rows) BY DEF OpenIn
<1>4. OpenIn(next) = IF Open(e) THEN OpenIn(rows) \cup {i} ELSE OpenIn(rows) BY <1>2, <1>3 DEF OpenIn
<1>5. \A j \in OpenIn(rows) : j # i /\ next[j] = rows[j] /\ rows[j].seq \in Nat
  <2>1. \A j \in OpenIn(rows) : j # i /\ j \in DOMAIN rows /\ rows[j] \in Row BY <1>1, <1>3 DEF OpenIn
  <2>2. \A o \in Row : o.seq \in Nat BY DEF Row
  <2> QED BY <1>2, <2>1, <2>2
<1>6. \A j \in OpenIn(next) : j \in OpenIn(rows) \/ (j = i /\ Open(e)) BY <1>4
<1>7. \A j \in DOMAIN next : next[j].id = j BY <1>1, <1>2
<1>8. \A j \in OpenIn(next) : next[j].type = "limit" /\ next[j].price > 0 /\ next[j].remaining > 0 /\ next[j].seq =< s + 1
  BY <1>1, <1>2, <1>5, <1>6
<1>9. \A j, k \in OpenIn(next) : next[j].seq = next[k].seq => j = k
  <2>1. \A j \in OpenIn(rows) : next[j].seq =< s /\ next[j].seq \in Nat BY <1>1, <1>5
  <2>2. \A j, k \in OpenIn(rows) : next[j].seq = next[k].seq => j = k BY <1>1, <1>5
  <2>3. Open(e) => next[i].seq = s + 1 BY <1>2
  <2> QED BY <1>6, <2>1, <2>2, <2>3
<1>10. RowsInv(next, s + 1) BY <1>2, <1>7, <1>8, <1>9 DEF RowsInv
<1> QED BY <1>2, <1>3, <1>4, <1>10 DEF RowEnded

\* The rows with the ended one do not cross.
LEMMA EndUncrossed ==
  ASSUME NEW s, NEW rows, RowsInv(rows, s), Uncrossed(rows), NEW i, NEW e \in Row, NEW next,
         RowEnded(rows, i, s, e, next), Open(e) => Beyond(e, rows)
  PROVE  Uncrossed(next)
<1>1. /\ next[i] = e /\ DOMAIN next = DOMAIN rows /\ i \notin OpenIn(rows)
      /\ (\A j \in DOMAIN rows \ {i} : next[j] = rows[j])
      /\ OpenIn(next) = IF Open(e) THEN OpenIn(rows) \cup {i} ELSE OpenIn(rows)
  BY DEF RowEnded
<1>2. \A j \in OpenIn(rows) : next[j] = rows[j] /\ rows[j].price \in Nat
  <2>1. \A j \in OpenIn(rows) : j \in DOMAIN rows /\ j # i /\ rows[j] \in Row BY <1>1 DEF OpenIn, RowsInv
  <2>2. \A o \in Row : o.price \in Nat BY DEF Row
  <2> QED BY <1>1, <2>1, <2>2
<1>3. e.side \in {"buy", "sell"} /\ e.price \in Nat BY DEF Row, Sides
<1> SUFFICES ASSUME NEW j \in OpenIn(next), NEW k \in OpenIn(next), next[j].side = "buy", next[k].side = "sell"
             PROVE  next[j].price < next[k].price
  BY DEF Uncrossed
<1>4. CASE j # i /\ k # i
  <2>1. j \in OpenIn(rows) /\ k \in OpenIn(rows) BY <1>1, <1>4
  <2> QED BY <1>2, <2>1 DEF Uncrossed
<1>5. CASE j = i /\ k # i
  <2>1. Open(e) /\ k \in OpenIn(rows) BY <1>1, <1>5
  <2>2. e.side = "buy" /\ rows[k].side = "sell" BY <1>1, <1>2, <1>5, <2>1
  <2>3. ~Crosses("buy", e.price, rows[k].price) BY <2>1, <2>2 DEF Beyond, Opposite
  <2> QED BY <1>1, <1>2, <1>3, <1>5, <2>1, <2>3 DEF Crosses
<1>6. CASE j # i /\ k = i
  <2>1. Open(e) /\ j \in OpenIn(rows) BY <1>1, <1>6
  <2>2. e.side = "sell" /\ rows[j].side = "buy" BY <1>1, <1>2, <1>6, <2>1
  <2>3. ~Crosses("sell", e.price, rows[j].price) BY <2>1, <2>2 DEF Beyond, Opposite
  <2> QED BY <1>1, <1>2, <1>3, <1>6, <2>1, <2>3 DEF Crosses
<1> QED BY <1>4, <1>5, <1>6

\* A row that still holds the same.
LEMMA MoneyStays ==
  ASSUME NEW rows, NEW next, NEW i, RowMoved(rows, next, i, 0), NEW b, NEW rev, MoneyInv(rows, b, rev)
  PROVE  MoneyInv(next, b, rev)
<1>1. /\ rows \in Seq(Row) /\ DOMAIN next = DOMAIN rows /\ i \in DOMAIN rows
      /\ next[i].acct = rows[i].acct /\ next[i].side = rows[i].side
      /\ next[i].holdRemaining = rows[i].holdRemaining + 0
      /\ \A j \in DOMAIN rows \ {i} : next[j] = rows[j]
  BY DEF RowMoved
<1>2. next[i].holdRemaining = rows[i].holdRemaining
  <2>2. rows[i] \in Row BY <1>1
  <2>1. rows[i].holdRemaining \in Int BY <2>2 DEF Row
  <2> QED BY <1>1, <2>1
<1>3. ASSUME NEW a \in Accounts, NEW x \in Assets PROVE HeldBy(next, a, x) = HeldBy(rows, a, x)
  BY <1>1, <1>2 DEF HeldBy, HoldAsset
<1> QED BY <1>1, <1>3 DEF MoneyInv, HoldsInv

\* What an accepted command writes.
LEMMA OutcomeIs ==
  ASSUME NEW row, NEW r, r.trades = MatchOf(row).trades
  PROVE  LET x == SettledOf(row)
             f == FinalTaker(x.taker, r)
         IN  Outcome(row, r) = [rows |-> [x.rows EXCEPT ![row.id] = EndOf(x.taker, r)],
                                bal |-> IF Open(f) THEN x.bal ELSE Release(x.bal, f),
                                revenue |-> x.revenue, trades |-> x.trades, failed |-> x.failed]
BY DEF Outcome, SettledOf, Started, Held, EndOf

\* What a hold covers is a natural number.
LEMMA HoldNat ==
  ASSUME NEW row \in Row, NEW t, InFlight(t, row)
  PROVE  TakerHold(row, t) \in Nat
<1>1. t.remaining \in Nat /\ t.quoteRem \in Nat /\ row.price \in Nat BY DEF InFlight, Row
<1>2. \A u \in Nat, v \in Nat : u * v \in Nat BY Z3
<1> QED BY <1>1, <1>2 DEF TakerHold

\* The rows and the money of an accepted command.
EndMoney(row, r, s, x, next) ==
  LET f == FinalTaker(x.taker, r)
      b == IF Open(f) THEN x.bal ELSE Release(x.bal, f)
  IN  MoneyInv(next, b, x.revenue) /\ Solvent(b)

\* The money once the taker's row has its end.
LEMMA AcceptMoney ==
  ASSUME NEW s \in Nat, NEW row \in Row, row.id > 0, NEW st, NEW x, NEW cfg, NEW next, NEW r,
         MatchState(st, cfg, row), RowsBehind(x, row, s), TakerIs(x.taker, row, s, TakerHold(row, st.t)),
         MoneyInv(Live(x), x.bal, x.revenue), Solvent(x.bal),
         EndIs(x.taker, r, EndOf(x.taker, r)), FinalIs(x.taker, r),
         next = [x.rows EXCEPT ![row.id] = EndOf(x.taker, r)]
  PROVE  EndMoney(row, r, s, x, next)
<1> DEFINE o == x.taker
           e == EndOf(o, r)
           f == FinalTaker(o, r)
           i == row.id
           h == o.holdRemaining
           rows == x.rows
           live == Live(x)
           b == x.bal
           rev == x.revenue
<1>1. rows \in Seq(Row) /\ i \in DOMAIN rows
  <2>1. rows \in Seq(Row) /\ Len(rows) = i BY DEF RowsBehind, RowsInv
  <2>2. i \in Nat BY DEF Row
  <2> QED BY <2>1, <2>2
<1>2. /\ o \in Row /\ o.id = i /\ h = TakerHold(row, st.t)
  BY DEF TakerIs
<1>3. h \in Nat BY <1>2, HoldNat DEF MatchState
<1>4. /\ e \in Row /\ e.acct = o.acct /\ e.side = o.side /\ e.holdRemaining = (IF Open(e) THEN h ELSE 0)
      /\ f.acct = o.acct /\ f.side = o.side /\ f.holdRemaining = h /\ (Open(f) <=> Open(e))
  BY DEF EndIs, FinalIs
<1>5. live = [rows EXCEPT ![i] = o] BY <1>2 DEF Live
<1>6. next = [rows EXCEPT ![i] = e] OBVIOUS
<1>7. MoneyInv(live, b, rev) /\ Solvent(b) OBVIOUS
<1> HIDE DEF o, e, f, i, h, rows, live, b, rev
<1>8. live \in Seq(Row) /\ DOMAIN live = DOMAIN rows /\ live[i] = o /\ \A j \in DOMAIN rows \ {i} : live[j] = rows[j]
  BY <1>1, <1>2, <1>5, ReplaceRow
<1>9. next \in Seq(Row) /\ DOMAIN next = DOMAIN rows /\ next[i] = e /\ \A j \in DOMAIN rows \ {i} : next[j] = rows[j]
  <2> DEFINE q == [rows EXCEPT ![i] = e]
  <2>1. q \in Seq(Row) /\ DOMAIN q = DOMAIN rows /\ q[i] = e /\ \A j \in DOMAIN rows \ {i} : q[j] = rows[j]
    BY <1>1, <1>4, ReplaceRow
  <2> QED BY <1>6, <2>1
<1>10. /\ live \in Seq(Row) /\ next \in Seq(Row) /\ DOMAIN next = DOMAIN live /\ i \in DOMAIN live
       /\ next[i].acct = live[i].acct /\ next[i].side = live[i].side
       /\ \A j \in DOMAIN live \ {i} : next[j] = live[j]
  BY <1>1, <1>4, <1>8, <1>9
<1>11. live[i].holdRemaining = h /\ live[i].acct = f.acct /\ live[i].side = f.side BY <1>4, <1>8 DEF h
<1>12. CASE Open(f)
  <2>1. next[i].holdRemaining = live[i].holdRemaining + 0 BY <1>3, <1>4, <1>9, <1>11, <1>12
  <2>2. RowMoved(live, next, i, 0) BY <1>10, <2>1 DEF RowMoved
  <2>3. MoneyInv(next, b, rev) BY <1>7, <2>2, MoneyStays
  <2> QED BY <1>7, <1>12, <2>3 DEF EndMoney, f, o, b, rev
<1>13. CASE ~Open(f)
  <2> DEFINE m == -h
             a == f.acct
             y == HoldAsset(f)
  <2>1. next[i].holdRemaining = live[i].holdRemaining + m BY <1>3, <1>4, <1>9, <1>11, <1>13
  <2>2. m \in Int /\ h \in Int /\ h >= 0 /\ h + m = 0 BY <1>3
  <2>3. a = live[i].acct /\ y = HoldAsset(live[i]) BY <1>11 DEF HoldAsset
  <2>4. Release(b, f) = Move(b, a, y, h, m) BY <1>4 DEF Release
  <2>5. a \in Accounts /\ y \in Assets BY <1>2, <1>4 DEF Row, HoldAsset, Assets
  <2> HIDE DEF m, a, y
  <2>6. RowMoved(live, next, i, m) BY <1>10, <2>1, <2>2 DEF RowMoved
  <2>7. MoneyInv(next, Move(b, a, y, h, m), rev) BY <1>7, <2>2, <2>3, <2>6, MoneyMoves
  <2>8. b \in Balances BY <1>7 DEF MoneyInv
  <2>9. Solvent(Move(b, a, y, h, m)) BY <1>7, <2>2, <2>5, <2>8, MoveSolvent
  <2> QED BY <1>13, <2>4, <2>7, <2>9 DEF EndMoney, f, o, b, rev
<1> QED BY <1>12, <1>13

\* One order more on a book.
LEMMA InsertBook ==
  ASSUME NEW b, NEW rows, NEW ids, BookInv(b, rows, ids), RowsAre(rows, ids), NEW i, i \notin ids,
         rows[i] \in Row, rows[i].id = i, \A k \in ids : rows[k].seq < rows[i].seq,
         NEW o, o = RestingRow(rows[i]), NEW c, c = InsertOrder(b, o)
  PROVE  BookInv(c, rows, ids \cup {i}) /\ c.cfg = b.cfg /\ c.lastSeq = b.lastSeq
<1> DEFINE side == o.side
           s == InsertResting(b[side], o)
           all == ids \cup {i}
           cfg == b.cfg
           u == b.buy
           v == b.sell
           l == b.lastSeq
<1>1. /\ b.cfg \in Configs
      /\ b = [cfg |-> cfg, buy |-> u, sell |-> v, byID |-> ids, lastSeq |-> l]
      /\ SideInv("buy", b.buy, rows, ids) /\ SideInv("sell", b.sell, rows, ids)
  BY DEF BookInv
<1>2. side = rows[i].side /\ o.id = i BY RestingParts
<1>3. side \in Sides BY <1>2 DEF Row
<1>4. \A q \in Sides : SideInv(q, b[q], rows, ids) BY <1>1 DEF Sides
<1>5. c = [b EXCEPT ![side] = s, !.byID = all]
  <2> HIDE DEF cfg, u, v, l
  <2>1. b.byID = ids BY ONLY <1>1
  <2>2. c = [b EXCEPT ![side] = InsertResting(b[side], o), !.byID = b.byID \cup {i}] BY <1>2 DEF InsertOrder
  <2> QED BY <2>1, <2>2
<1> HIDE DEF side, all
<1>6. SideInv(side, s, rows, all)
  <2>1. SideInv(side, b[side], rows, ids) BY <1>3, <1>4
  <2>2. rows[i].side = side BY <1>2
  <2> QED BY <2>1, <2>2, InsertSide DEF all
<1>7. \A q \in Sides \ {side} : SideInv(q, b[q], rows, all)
  <2> TAKE q \in Sides \ {side}
  <2>1. SideInv(q, b[q], rows, ids) BY <1>4
  <2>2. OfSide(rows, all, q) = OfSide(rows, ids, q) BY <1>2 DEF OfSide, all
  <2>3. IsFiniteSet(ids) BY DEF RowsAre
  <2> QED BY <2>1, <2>2, <2>3, SideStays
<1> HIDE DEF s
<1>8. CASE side = "buy"
  <2> HIDE DEF cfg, u, v, l
  <2>1. c = [cfg |-> cfg, buy |-> s, sell |-> v, byID |-> all, lastSeq |-> l] BY ONLY <1>1, <1>5, <1>8
  <2>2. SideInv("sell", b.sell, rows, all) BY <1>7, <1>8 DEF Sides
  <2>3. c.cfg = cfg /\ c.buy = s /\ c.sell = v /\ c.lastSeq = l BY ONLY <2>1
  <2>4. BookInv(c, rows, all) BY <1>1, <1>6, <1>8, <2>1, <2>2, <2>3 DEF BookInv, cfg, v
  <2> QED BY <2>3, <2>4 DEF all, cfg, l
<1>9. CASE side = "sell"
  <2> HIDE DEF cfg, u, v, l
  <2>1. c = [cfg |-> cfg, buy |-> u, sell |-> s, byID |-> all, lastSeq |-> l] BY ONLY <1>1, <1>5, <1>9
  <2>2. SideInv("buy", b.buy, rows, all) BY <1>7, <1>9 DEF Sides
  <2>3. c.cfg = cfg /\ c.buy = u /\ c.sell = s /\ c.lastSeq = l BY ONLY <2>1
  <2>4. BookInv(c, rows, all) BY <1>1, <1>6, <1>9, <2>1, <2>2, <2>3 DEF BookInv, cfg, u
  <2> QED BY <2>3, <2>4 DEF all, cfg, l
<1> QED BY <1>3, <1>8, <1>9 DEF Sides

\* The book of an accepted command.
LEMMA MatchedParts ==
  ASSUME BookInv(book, orders, OpenIn(orders)), NEW row \in Row
  PROVE  LET m == Matched(row)
             q == Opposite(row.side)
         IN  /\ m = [cfg |-> book.cfg, buy |-> m.buy, sell |-> m.sell, byID |-> m.byID, lastSeq |-> m.lastSeq]
             /\ m[q] = MatchOf(row).opp /\ m[row.side] = book[row.side] /\ m.byID = MatchOf(row).byID
             /\ m.cfg = book.cfg /\ m.lastSeq = seq + 1
<1> DEFINE n == seq + 1
           ids == OpenIn(orders)
           opp == MatchOf(row).opp
           own == MatchOf(row).byID
           m == Matched(row)
<1>1. book = [cfg |-> book.cfg, buy |-> book.buy, sell |-> book.sell, byID |-> ids, lastSeq |-> book.lastSeq]
  BY DEF BookInv
<1>2. m = [book EXCEPT ![Opposite(row.side)] = opp, !.byID = own, !.lastSeq = n] BY DEF Matched
<1> HIDE DEF n, ids, opp, own, m
<1>3. CASE row.side = "buy"
  <2>1. Opposite(row.side) = "sell" BY <1>3 DEF Opposite
  <2>2. m = [cfg |-> book.cfg, buy |-> book.buy, sell |-> opp, byID |-> own, lastSeq |-> n] BY <1>1, <1>2, <2>1
  <2> QED BY <1>3, <2>1, <2>2 DEF m, opp, own, n
<1>4. CASE row.side = "sell"
  <2>1. Opposite(row.side) = "buy" BY <1>4 DEF Opposite
  <2>2. m = [cfg |-> book.cfg, buy |-> opp, sell |-> book.sell, byID |-> own, lastSeq |-> n] BY <1>1, <1>2, <2>1
  <2> QED BY <1>4, <2>1, <2>2 DEF m, opp, own, n
<1>5. row.side \in Sides BY DEF Row
<1> QED BY <1>3, <1>4, <1>5 DEF Sides

\* The book of an accepted command holds the open rows.
LEMMA AcceptBook ==
  ASSUME BookInv(book, orders, OpenIn(orders)), seq \in Nat, NEW row \in Row, NEW x, NEW e, NEW next, NEW r,
         Flight(book, row, seq, MatchOf(row), x), RowEnded(x.rows, row.id, seq, e, next),
         e \in Row, e.id = row.id, e.side = row.side, e.seq = seq + 1,
         \/ ~Open(e) /\ r.book = Matched(row)
         \/ Open(e) /\ r.book = InsertOrder(Matched(row), RestingRow(e))
  PROVE  BookInv(r.book, next, OpenIn(next)) /\ r.book.lastSeq = seq + 1
<1> DEFINE m == Matched(row)
           q == Opposite(row.side)
           rows == x.rows
           ids == OpenIn(rows)
           i == row.id
<1>1. /\ m = [cfg |-> book.cfg, buy |-> m.buy, sell |-> m.sell, byID |-> m.byID, lastSeq |-> m.lastSeq]
      /\ m[q] = MatchOf(row).opp /\ m[row.side] = book[row.side] /\ m.byID = MatchOf(row).byID /\ m.cfg = book.cfg
      /\ m.lastSeq = seq + 1
  BY MatchedParts
<1>2. /\ MatchOf(row).byID = ids /\ SideInv(q, MatchOf(row).opp, rows, ids)
      /\ SideInv(row.side, book[row.side], rows, ids) /\ RowsInv(rows, seq)
  BY DEF Flight, RowsBehind
<1>3. /\ RowsInv(next, seq + 1) /\ next[i] = e /\ DOMAIN next = DOMAIN rows /\ i \notin ids
      /\ (\A j \in DOMAIN rows \ {i} : next[j] = rows[j])
      /\ OpenIn(next) = IF Open(e) THEN ids \cup {i} ELSE ids
  BY DEF RowEnded
<1>4. \A j \in ids : next[j] = rows[j] BY <1>3 DEF OpenIn
<1>5. row.side \in Sides /\ (\A side \in Sides : side = q \/ side = row.side) /\ q # row.side
  BY DEF Row, Sides, Opposite
<1>11. RowsAre(rows, ids) /\ IsFiniteSet(ids) BY <1>2, OpenRows DEF RowsAre
<1>6. \A side \in Sides : SideInv(side, m[side], next, ids)
  <2> HIDE DEF ids, rows, q, m
  <2>1. SideInv(q, m[q], next, ids) BY <1>1, <1>2, <1>4, <1>11, SideKeeps
  <2>2. SideInv(row.side, m[row.side], next, ids) BY <1>1, <1>2, <1>4, <1>11, SideKeeps
  <2> QED BY <1>5, <2>1, <2>2
<1>7. book.cfg \in Configs BY DEF BookInv
<1>8. m.byID = ids BY <1>1, <1>2
<1>9. CASE ~Open(e)
  <2>1. r.book = m /\ OpenIn(next) = ids BY <1>3, <1>9
  <2> HIDE DEF m, ids
  <2>2. SideInv("buy", m.buy, next, ids) /\ SideInv("sell", m.sell, next, ids) BY <1>6 DEF Sides
  <2> QED BY <1>1, <1>7, <1>8, <2>1, <2>2 DEF BookInv
<1>10. CASE Open(e)
  <2> DEFINE o == RestingRow(next[i])
             c == InsertOrder(m, o)
  <2>1. r.book = c /\ OpenIn(next) = ids \cup {i} BY <1>3, <1>10
  <2>2. RowsAre(next, ids) BY <1>4, <1>11 DEF RowsAre
  <2>3. next[i] \in Row /\ next[i].id = i /\ i \notin ids BY <1>3
  <2>7. \A k \in ids : next[k].seq < next[i].seq
    <3> TAKE k \in ids
    <3>1. rows[k] \in Row /\ rows[k].seq =< seq BY <1>2, <1>11 DEF RowsAre, RowsInv
    <3>2. rows[k].seq \in Nat BY <3>1 DEF Row
    <3>3. next[k].seq = rows[k].seq /\ next[i].seq = seq + 1 BY <1>3, <1>4
    <3> QED BY <3>1, <3>2, <3>3
  <2> HIDE DEF m, ids, i, c
  <2>4. SideInv("buy", m.buy, next, ids) /\ SideInv("sell", m.sell, next, ids) BY <1>6 DEF Sides
  <2>5. BookInv(m, next, ids) BY <1>1, <1>7, <1>8, <2>4 DEF BookInv
  <2>6. BookInv(c, next, ids \cup {i}) /\ c.lastSeq = m.lastSeq BY <2>2, <2>3, <2>5, <2>7, InsertBook DEF c
  <2> QED BY <1>1, <2>1, <2>6
<1> QED BY <1>9, <1>10

\* A command the book does not refuse: its match, its row's end, and what it
\* leaves of the rows, the book and, unless a settlement was refused, the money.
AnswerTo(row) == ApplyNew(book, seq + 1, row)
EndRowOf(row) == EndOf(SettledOf(row).taker, AnswerTo(row))
NextRows(row) == [SettledOf(row).rows EXCEPT ![row.id] = EndRowOf(row)]
NextBal(row) ==
  LET x == SettledOf(row)
      f == FinalTaker(x.taker, AnswerTo(row))
  IN  IF Open(f) THEN x.bal ELSE Release(x.bal, f)
TakerEnds(row, e) ==
  /\ e \in Row /\ e.id = row.id /\ e.acct = row.acct /\ e.side = row.side /\ e.type = row.type
  /\ e.price = row.price /\ e.quoteQty = row.quoteQty /\ e.filledQuote = MatchOf(row).t.filledQuote
  /\ e.reason = "ioc" => ~Exhausted(MatchOf(row).t) /\ MatchOf(row).t.stop = ""
  /\ Open(e) => row.type = "limit" /\ ~Exhausted(MatchOf(row).t) /\ MatchOf(row).t.stop = ""
  /\ ~Open(e) => AnswerTo(row).book = Matched(row)
Placed(row) ==
  LET x == SettledOf(row)
      next == NextRows(row)
  IN  /\ Ended(book, row, seq, BandOf(row), Started(row).rows, Len(trades), MatchOf(row), x)
      /\ Outcome(row, AnswerTo(row)) = [rows |-> next, bal |-> NextBal(row), revenue |-> x.revenue,
                                        trades |-> x.trades, failed |-> x.failed]
      /\ TakerEnds(row, EndRowOf(row)) /\ RowEnded(x.rows, row.id, seq, EndRowOf(row), next)
      /\ BookInv(AnswerTo(row).book, next, OpenIn(next)) /\ AnswerTo(row).book.lastSeq = seq + 1
      /\ Uncrossed(next) /\ (\A i \in DOMAIN next : Covered(next[i]))
      /\ x.failed \/ (MoneyInv(next, NextBal(row), x.revenue) /\ Solvent(NextBal(row)))

\* All an accepted or failing command did, before it is known which.
LEMMA PlacedParts ==
  ASSUME Ready, NEW a \in Accounts, NEW in \in Inputs, NEW row, row = NewRow(a, in), Funded(a, row),
         AnswerTo(row).kind # "rejected"
  PROVE  Placed(row)
<1> DEFINE r == AnswerTo(row)
           st == MatchOf(row)
           x == SettledOf(row)
           o == x.taker
           e == EndRowOf(row)
           next == NextRows(row)
           b == NextBal(row)
<1>2. /\ seq \in Nat /\ orders \in Seq(Row) /\ BookInv(book, orders, OpenIn(orders)) /\ Uncrossed(orders)
  BY DEF Ready, RowsInv
<1>3. NewRowIs(row, a, in) BY <1>2, NewRowParts
<1>4. row \in Row /\ row.id = Len(orders) + 1 /\ (row.type = "limit" => row.price > 0) BY <1>3 DEF NewRowIs
<1>26. Ended(book, row, seq, BandOf(row), Started(row).rows, Len(trades), st, x) BY EndFlight
<1>27. StartedIs(row, Started(row).rows) BY StartedRows
<1>28. e = EndOf(o, r) BY DEF EndRowOf
<1>29. next = [x.rows EXCEPT ![row.id] = e] BY DEF NextRows
<1>30. b = IF Open(FinalTaker(o, r)) THEN x.bal ELSE Release(x.bal, FinalTaker(o, r)) BY DEF NextBal
<1> HIDE DEF st, x, e, next, b
<1>6. /\ Flight(book, row, seq, st, x) /\ st.t.stop \in {"", "price_protection", "self_trade"}
      /\ Since(Started(row).rows, x.rows) /\ Over(row, book.cfg, st)
  BY <1>26 DEF Ended, Fair
<1>7. /\ MatchState(st, book.cfg, row) /\ RowsBehind(x, row, seq) /\ TakerIs(o, row, seq, TakerHold(row, st.t))
      /\ MoneyInv(Live(x), x.bal, x.revenue) /\ (x.failed \/ Solvent(x.bal))
      /\ SideInv(Opposite(row.side), st.opp, x.rows, OpenIn(x.rows))
  BY <1>6 DEF Flight
<1>8. /\ InFlight(st.t, row) /\ st.t.remaining \in Nat /\ st.t.filledQty \in Nat /\ st.t.filledQuote \in Nat
      /\ st.t.o = row
  BY <1>7 DEF MatchState, InFlight
<1>9. AnswerIs(row, r)
  <2>1. MatchOf(row).t.stop \in Stops BY <1>6 DEF st, Stops
  <2>2. AnswerIs(row, ApplyNew(book, seq + 1, row)) BY ONLY <2>1, NewAnswer, Zenon
  <2> QED BY <2>2 DEF AnswerTo
<1> HIDE DEF r
<1>10. /\ r.kind \in {"filled", "cancelled", "updated", "accepted"} /\ r.reason \in Reasons /\ Answered(row, r)
       /\ (r.kind \in {"filled", "cancelled"} => r.book = Matched(row)
                                                 /\ (r.reason = "ioc" => ~Exhausted(st.t) /\ st.t.stop = ""))
       /\ (r.kind \in {"updated", "accepted"} => r.book = InsertOrder(Matched(row), RestOf(row))
                                                 /\ row.type = "limit" /\ ~Exhausted(st.t) /\ st.t.stop = "")
  <2>1. r.kind # "rejected" BY DEF r
  <2> QED BY <1>9, <2>1 DEF AnswerIs, st
<1>11. /\ r.trades = st.trades /\ r.filledQty = st.t.filledQty /\ r.filledQuote = st.t.filledQuote
       /\ r.remaining = IF MarketBuy(row) THEN 0 ELSE st.t.remaining
  BY <1>10 DEF Answered, st
<1>12. r.filledQty \in Nat /\ r.filledQuote \in Nat /\ r.remaining \in Nat BY <1>8, <1>11
<1>13. /\ o \in Row /\ o.id = row.id /\ o.acct = row.acct /\ o.side = row.side /\ o.type = row.type
       /\ o.price = row.price /\ o.qty = row.qty /\ o.quoteQty = row.quoteQty /\ o.seq = seq + 1
       /\ o.holdRemaining = TakerHold(row, st.t)
  BY <1>7 DEF TakerIs
<1>14. EndIs(o, r, e) /\ FinalIs(o, r)
  <2> HIDE DEF o
  <2>1. o \in Row /\ r.kind \in {"filled", "cancelled", "updated", "accepted"} /\ r.reason \in Reasons BY <1>10, <1>13
  <2>2. EndIs(o, r, EndOf(o, r)) /\ FinalIs(o, r) BY ONLY <2>1, <1>12, EndRow
  <2> QED BY <1>28, <2>2
<1>15. Outcome(row, r) = [rows |-> next, bal |-> b, revenue |-> x.revenue, trades |-> x.trades, failed |-> x.failed]
  <2>1. r.trades = MatchOf(row).trades BY <1>11 DEF st
  <2> QED BY <2>1, <1>28, <1>29, <1>30, OutcomeIs DEF x
<1>17. x.failed \/ (MoneyInv(next, b, x.revenue) /\ Solvent(b))
  <2> SUFFICES ASSUME ~x.failed PROVE MoneyInv(next, b, x.revenue) /\ Solvent(b) OBVIOUS
  <2>1. row.id > 0 /\ Solvent(x.bal) BY <1>2, <1>4, <1>7
  <2>2. EndMoney(row, r, seq, x, next)
    <3>1. next = [x.rows EXCEPT ![row.id] = EndOf(x.taker, r)] /\ EndIs(x.taker, r, EndOf(x.taker, r)) /\ FinalIs(x.taker, r)
      BY <1>14, <1>28, <1>29
    <3> QED BY ONLY <1>2, <1>4, <1>7, <2>1, <3>1, AcceptMoney
  <2> QED BY <1>30, <2>2 DEF EndMoney
<1>18. /\ e \in Row /\ e.id = row.id /\ e.acct = row.acct /\ e.side = row.side /\ e.type = row.type
       /\ e.price = row.price /\ e.qty = row.qty /\ e.seq = seq + 1 /\ e.filledQty = r.filledQty
       /\ e.filledQuote = r.filledQuote /\ (Open(e) <=> r.kind \in {"updated", "accepted"})
       /\ (Open(e) => e.remaining = r.remaining) /\ e.quoteQty = row.quoteQty /\ e.reason = r.reason
       /\ e.holdRemaining = IF Open(e) THEN TakerHold(row, st.t) ELSE 0
  BY <1>13, <1>14 DEF EndIs
<1>19. Open(e) => row.type = "limit" /\ ~Exhausted(st.t) /\ st.t.stop = "" /\ e.remaining = st.t.remaining /\ e.remaining > 0
  <2>1. Open(e) => ~MarketBuy(row) /\ row.type = "limit" /\ ~Exhausted(st.t) /\ st.t.stop = "" BY <1>10, <1>18 DEF MarketBuy
  <2>2. Open(e) => st.t.remaining # 0 BY <1>8, <2>1 DEF Exhausted
  <2>3. st.t.remaining \in Nat /\ r.remaining = (IF MarketBuy(row) THEN 0 ELSE st.t.remaining) BY <1>8, <1>11
  <2>4. Open(e) => e.remaining = r.remaining BY <1>18
  <2>5. Open(e) => e.remaining = st.t.remaining BY <2>1, <2>3, <2>4
  <2>6. Open(e) => e.remaining > 0
    <3> DEFINE u == st.t.remaining
    <3>1. u \in Nat /\ (Open(e) => e.remaining = u /\ u # 0) BY <2>2, <2>3, <2>5
    <3> HIDE DEF u
    <3> QED BY ONLY <3>1
  <2> QED BY <2>1, <2>5, <2>6
<1>20. Covered(e)
  <2>1. ~Open(e) => e.holdRemaining = 0 BY <1>18
  <2>2. Open(e) => e.holdRemaining = IF e.side = "buy" THEN e.price * e.remaining ELSE e.remaining
    <3>1. row.side \in {"buy", "sell"} BY <1>4 DEF Row, Sides
    <3> QED BY <1>18, <1>19, <3>1 DEF TakerHold
  <2> QED BY <2>1, <2>2 DEF Covered
<1>21. /\ RowsInv(x.rows, seq) /\ ~Open(x.rows[row.id]) /\ Len(x.rows) = row.id
       /\ \A i \in DOMAIN x.rows \ {row.id} : Covered(x.rows[i])
  BY <1>7 DEF RowsBehind
<1>22. RowEnded(x.rows, row.id, seq, e, next)
  <2> DEFINE rows == x.rows
             i == row.id
  <2>1. i \in DOMAIN rows
    <3>1. rows \in Seq(Row) BY <1>21 DEF RowsInv
    <3> QED BY <1>2, <1>4, <1>21, <3>1
  <2>2. Open(e) => e.type = "limit" /\ e.price > 0 /\ e.remaining > 0 /\ e.seq = seq + 1 BY <1>4, <1>18, <1>19
  <2>3. e \in Row /\ e.id = i BY <1>18
  <2>4. next = [rows EXCEPT ![i] = e] BY <1>29
  <2>5. RowsInv(rows, seq) /\ ~Open(rows[i]) BY <1>21
  <2> HIDE DEF rows, i
  <2>6. RowEnded(rows, i, seq, e, next) BY <1>2, <2>1, <2>2, <2>3, <2>4, <2>5, EndedRows
  <2> QED BY <2>6 DEF rows, i
<1>31. ~Open(e) => r.book = Matched(row) BY <1>10, <1>18
<1>23. BookInv(r.book, next, OpenIn(next)) /\ r.book.lastSeq = seq + 1
  <2>1. Open(e) => RestingRow(e) = RestOf(row) BY <1>11, <1>18, <1>19 DEF RestingRow, RestOf, st
  <2>2. \/ ~Open(e) /\ r.book = Matched(row)
        \/ Open(e) /\ r.book = InsertOrder(Matched(row), RestingRow(e))
    BY <1>10, <1>18, <2>1
  <2>3. Flight(book, row, seq, MatchOf(row), x) BY <1>6 DEF st
  <2> QED BY <1>2, <1>4, <1>18, <1>22, <2>2, <2>3, AcceptBook
<1>24. \A i \in DOMAIN next : Covered(next[i])
  <2>1. /\ next[row.id] = e /\ DOMAIN next = DOMAIN x.rows
        /\ \A j \in DOMAIN x.rows \ {row.id} : next[j] = x.rows[j]
    BY <1>22 DEF RowEnded
  <2> QED BY <1>20, <1>21, <2>1
<1>25. Uncrossed(next)
  <2>1. \A i, j \in OpenIn(orders) :
          Started(row).rows[i] = orders[i] /\ OpenIn(Started(row).rows) = OpenIn(orders)
    BY <1>27 DEF StartedIs, OpenIn
  <2>2. Uncrossed(Started(row).rows)
    <3>1. OpenIn(Started(row).rows) = OpenIn(orders) BY <1>27 DEF StartedIs
    <3> QED BY <1>2, <2>1, <3>1 DEF Uncrossed
  <2>3. Uncrossed(x.rows) BY <1>6, <2>2, StillUncrossed
  <2>4. Open(e) => Beyond(e, x.rows)
    <3> SUFFICES ASSUME Open(e) PROVE Beyond(e, x.rows) OBVIOUS
    <3>1. row.type = "limit" /\ ~Exhausted(st.t) /\ st.t.stop = "" BY <1>19
    <3>2. st.opp.prices = << >> \/ ~Crosses(row.side, row.price, BestPrice(st.opp))
      BY <1>6, <3>1 DEF Over, MarketBuy
    <3>3. Beyond(row, x.rows) BY <1>4, <1>7, <1>21, <3>2, RestsBeyond
    <3> QED BY <1>18, <3>3 DEF Beyond
  <2>5. e \in Row BY <1>18
  <2> QED BY <1>21, <1>22, <2>3, <2>4, <2>5, EndUncrossed
<1>32. TakerEnds(row, e) BY <1>10, <1>11, <1>18, <1>19, <1>31 DEF TakerEnds, st, r
<1> QED BY <1>15, <1>17, <1>22, <1>23, <1>24, <1>25, <1>26, <1>32 DEF Placed, r, st, x, e, next, b

\* What a command leaves.
Done ==
  /\ seq' \in Nat /\ Kept(seq', orders', bal', revenue') /\ BookInv(book', orders', OpenIn(orders'))
  /\ book'.lastSeq = seq' /\ trades' \in Seq(TradeRow)

\* An accepted command keeps the book, the rows and the money in step.
LEMMA AcceptKeeps ==
  ASSUME Ready, NEW a \in Accounts, NEW in \in Inputs, Accept(a, in)
  PROVE  Done
<1> DEFINE row == NewRow(a, in)
           r == AnswerTo(row)
           x == SettledOf(row)
           next == NextRows(row)
           b == NextBal(row)
<1>1. /\ Funded(a, row) /\ r.kind # "rejected" /\ ~Outcome(row, r).failed /\ seq' = seq + 1 /\ book' = r.book
      /\ orders' = Outcome(row, r).rows /\ bal' = Outcome(row, r).bal /\ revenue' = Outcome(row, r).revenue
      /\ trades' = Outcome(row, r).trades
  BY DEF Accept, AnswerTo
<1>2. Placed(row) BY <1>1, PlacedParts
<1>3. seq \in Nat BY DEF Ready
<1> HIDE DEF row
<1>4. /\ Ended(book, row, seq, BandOf(row), Started(row).rows, Len(trades), MatchOf(row), x)
      /\ Outcome(row, r) = [rows |-> next, bal |-> b, revenue |-> x.revenue, trades |-> x.trades, failed |-> x.failed]
      /\ RowEnded(x.rows, row.id, seq, EndRowOf(row), next)
      /\ BookInv(r.book, next, OpenIn(next)) /\ r.book.lastSeq = seq + 1
      /\ Uncrossed(next) /\ (\A i \in DOMAIN next : Covered(next[i]))
      /\ x.failed \/ (MoneyInv(next, b, x.revenue) /\ Solvent(b))
  BY <1>2 DEF Placed
<1>5. RowsInv(next, seq + 1) BY <1>4 DEF RowEnded
<1>6. x.trades \in Seq(TradeRow) BY <1>4 DEF Ended, Fair
<1> HIDE DEF r, x, next, b
<1>7. orders' = next /\ bal' = b /\ revenue' = x.revenue /\ trades' = x.trades /\ ~x.failed BY <1>1, <1>4
<1>8. Kept(seq + 1, next, b, x.revenue) BY <1>4, <1>5, <1>7 DEF Kept
<1> QED BY <1>1, <1>3, <1>4, <1>6, <1>7, <1>8 DEF Done

\* A book that some rows explain.
Explained(b, rows, s) == RowsInv(rows, s) /\ Uncrossed(rows) /\ BookInv(b, rows, OpenIn(rows))
BookFine(b) == \E rows, s : Explained(b, rows, s)

\* The book a failed settlement leaves behind is that of some rows.
LEMMA FailKeeps ==
  ASSUME Ready, NEW a \in Accounts, NEW in \in Inputs, SettleFails(a, in)
  PROVE  BookFine(book')
<1> DEFINE row == NewRow(a, in)
           r == AnswerTo(row)
           next == NextRows(row)
           n == seq + 1
<1>1. Funded(a, row) /\ r.kind # "rejected" /\ book' = r.book BY DEF SettleFails, AnswerTo
<1>2. Placed(row) BY <1>1, PlacedParts
<1> HIDE DEF row
<1>3. RowsInv(next, n) /\ BookInv(r.book, next, OpenIn(next)) /\ Uncrossed(next) BY <1>2 DEF Placed, RowEnded
<1> HIDE DEF r, next, n
<1>4. Explained(book', next, n) BY <1>1, <1>3 DEF Explained
<1> QED BY <1>4 DEF BookFine

-----------------------------------------------------------------------------
(* A refused command.                                                      *)

\* A sequence number later, the rows and the book are the same.
LEMMA RowsLater ==
  ASSUME NEW rows, NEW s, s \in Nat, RowsInv(rows, s)
  PROVE  RowsInv(rows, s + 1)
<1>1. /\ rows \in Seq(Row) /\ (\A j \in DOMAIN rows : rows[j].id = j)
      /\ (\A j \in OpenIn(rows) :
            rows[j].type = "limit" /\ rows[j].price > 0 /\ rows[j].remaining > 0 /\ rows[j].seq =< s)
      /\ (\A j, k \in OpenIn(rows) : rows[j].seq = rows[k].seq => j = k)
  BY DEF RowsInv
<1>2. \A j \in OpenIn(rows) : rows[j].seq =< s + 1
  <2>1. \A j \in OpenIn(rows) : rows[j] \in Row BY <1>1 DEF OpenIn
  <2>2. \A o \in Row : o.seq \in Nat BY DEF Row
  <2> QED BY <1>1, <2>1, <2>2
<1> QED BY <1>1, <1>2 DEF RowsInv

\* A book whose rows stay, or that only learns a sequence number.
LEMMA BookStays ==
  ASSUME NEW b, NEW rows, NEW ids, BookInv(b, rows, ids), IsFiniteSet(ids), NEW next,
         \A i \in ids : next[i] = rows[i], NEW n
  PROVE  BookInv(b, next, ids) /\ BookInv(Advance(b, n), next, ids) /\ Advance(b, n).lastSeq = n
         /\ Advance(b, n).cfg = b.cfg
<1>1. /\ b.cfg \in Configs
      /\ b = [cfg |-> b.cfg, buy |-> b.buy, sell |-> b.sell, byID |-> ids, lastSeq |-> b.lastSeq]
      /\ SideInv("buy", b.buy, rows, ids) /\ SideInv("sell", b.sell, rows, ids)
  BY DEF BookInv
<1>2. SideInv("buy", b.buy, next, ids) BY <1>1, SideKeeps
<1>3. SideInv("sell", b.sell, next, ids) BY <1>1, SideKeeps
<1> DEFINE cfg == b.cfg
           u == b.buy
           v == b.sell
           l == b.lastSeq
           c == Advance(b, n)
<1>4. b = [cfg |-> cfg, buy |-> u, sell |-> v, byID |-> ids, lastSeq |-> l] BY <1>1
<1>5. c = [b EXCEPT !.lastSeq = n] BY DEF Advance
<1>6. BookInv(b, next, ids) BY <1>1, <1>2, <1>3 DEF BookInv
<1> HIDE DEF cfg, u, v, l, c
<1>7. c = [cfg |-> cfg, buy |-> u, sell |-> v, byID |-> ids, lastSeq |-> n] BY <1>4, <1>5
<1>8. c.cfg = cfg /\ c.buy = u /\ c.sell = v /\ c.lastSeq = n BY <1>7
<1>9. BookInv(c, next, ids) BY <1>1, <1>2, <1>3, <1>7, <1>8 DEF BookInv, cfg, u, v
<1> QED BY <1>6, <1>8, <1>9 DEF c, cfg

\* A refused order: a row that holds nothing, and no money moves.
RejectedIs(o, e) ==
  e \in Row /\ e.id = o.id /\ e.status = "rejected" /\ e.holdRemaining = o.holdRemaining /\ ~Open(e)

\* What a refused row is made of.
LEMMA RejectedParts ==
  ASSUME NEW o, o \in Row, NEW reason, reason \in Reasons, NEW k, k \in Nat
  PROVE  RejectedIs(o, RejectedRow(o, reason, k))
<1> DEFINE st == "rejected"
           z == 0
           e == [o EXCEPT !.status = st, !.reason = reason, !.remaining = z, !.seq = k]
<1>1. RejectedRow(o, reason, k) = e BY DEF RejectedRow
<1>2. st \in RowStatuses /\ z \in Nat BY DEF RowStatuses
<1> HIDE DEF st, z
<1>3. e \in Row BY ONLY <1>2, o \in Row, reason \in Reasons, k \in Nat DEF Row
<1>4. e.id = o.id /\ e.status = st /\ e.holdRemaining = o.holdRemaining BY ONLY o \in Row DEF Row
<1> HIDE DEF e
<1>5. ~Open(e) BY <1>4 DEF Open, OpenStatuses, st
<1> QED BY <1>1, <1>3, <1>4, <1>5 DEF RejectedIs, st

\* A refused command keeps the book, the rows and the money in step.
LEMMA RejectKeeps ==
  ASSUME Ready, NEW a \in Accounts, NEW in \in Inputs, NEW reason \in Reasons, NEW k \in Nat,
         orders' = Append(orders, RejectedRow(NewRow(a, in), reason, k)),
         (seq' = seq /\ book' = book) \/ (seq' = seq + 1 /\ book' = Advance(book, seq + 1)),
         bal' = bal, revenue' = revenue, trades' = trades
  PROVE  Done
<1> DEFINE row == NewRow(a, in)
           e == RejectedRow(row, reason, k)
           next == Append(orders, e)
           ids == OpenIn(orders)
<1>1. /\ seq \in Nat /\ RowsInv(orders, seq) /\ (\A i \in DOMAIN orders : Covered(orders[i])) /\ orders \in Seq(Row)
      /\ MoneyInv(orders, bal, revenue) /\ Solvent(bal) /\ BookInv(book, orders, ids) /\ book.lastSeq = seq
      /\ trades \in Seq(TradeRow) /\ Uncrossed(orders)
  BY DEF Ready, RowsInv
<1>2. NewRowIs(row, a, in) BY <1>1, NewRowParts
<1>3. row \in Row /\ row.id = Len(orders) + 1 /\ row.holdRemaining = 0 BY <1>2 DEF NewRowIs
<1> HIDE DEF row
<1>4. RejectedIs(row, e) BY <1>3, RejectedParts
<1>5. e \in Row /\ e.id = Len(orders) + 1 /\ e.holdRemaining = 0 /\ ~Open(e) BY <1>3, <1>4 DEF RejectedIs
<1>6. orders' = next BY DEF row
<1> HIDE DEF e
<1>7. RowsMore(orders, seq, e, next) BY <1>1, <1>5, AppendRow
<1>8. /\ RowsInv(next, seq) /\ OpenIn(next) = ids /\ DOMAIN next = DOMAIN orders \cup {e.id} /\ next[e.id] = e
      /\ \A i \in DOMAIN orders : next[i] = orders[i]
  BY <1>7 DEF RowsMore
<1>9. HoldsInv(next, bal) BY <1>1, <1>5, HoldsAppend DEF MoneyInv
<1>10. MoneyInv(next, bal, revenue) BY <1>1, <1>9 DEF MoneyInv
<1>11. \A i \in DOMAIN next : Covered(next[i])
  <2>1. Covered(e) BY <1>5 DEF Covered
  <2> QED BY <1>1, <1>8, <2>1
<1>12. RowsInv(next, seq + 1) BY <1>1, <1>8, RowsLater
<1>13. \A i \in ids : next[i] = orders[i] BY <1>8 DEF OpenIn
<1>19. IsFiniteSet(ids) BY <1>1, OpenRows DEF RowsAre
<1>20. Uncrossed(next) BY <1>1, <1>8, <1>13 DEF Uncrossed
<1> HIDE DEF next, ids
<1>14. BookInv(book, next, ids) /\ BookInv(Advance(book, seq + 1), next, ids) /\ Advance(book, seq + 1).lastSeq = seq + 1
  BY <1>1, <1>13, <1>19, BookStays
<1>15. seq' \in Nat /\ RowsInv(next, seq') /\ BookInv(book', next, ids) /\ book'.lastSeq = seq'
  BY <1>1, <1>8, <1>12, <1>14
<1>16. bal' = bal /\ revenue' = revenue /\ trades' = trades OBVIOUS
<1>17. Kept(seq', next, bal, revenue) BY <1>1, <1>10, <1>11, <1>15, <1>20 DEF Kept
<1>18. BookInv(book', next, OpenIn(next)) BY <1>8, <1>15
<1> QED BY <1>1, <1>6, <1>15, <1>16, <1>17, <1>18 DEF Done

\* The orders the market or the book refuses.
LEMMA PlaceRejects ==
  ASSUME Ready, NEW a \in Accounts, NEW in \in Inputs,
         PolicyReject(a, in) \/ InsufficientReject(a, in) \/ BookReject(a, in)
  PROVE  Done
<1>1. seq \in Nat BY DEF Ready
<1>2. CASE PolicyReject(a, in)
  <2>1. PolicyReason(a) \in Reasons BY DEF PolicyReason, Reasons
  <2> DEFINE reason == PolicyReason(a)
  <2> HIDE DEF reason
  <2> DEFINE z == 0
  <2>2. /\ orders' = Append(orders, RejectedRow(NewRow(a, in), reason, z)) /\ seq' = seq /\ book' = book
        /\ bal' = bal /\ revenue' = revenue /\ trades' = trades
    BY <1>2 DEF PolicyReject, money, reason
  <2>3. z \in Nat /\ reason \in Reasons BY <2>1 DEF reason
  <2> HIDE DEF z
  <2>4. (seq' = seq /\ book' = book) \/ (seq' = seq + 1 /\ book' = Advance(book, seq + 1)) BY <2>2
  <2> QED BY ONLY Ready, <2>2, <2>3, <2>4, RejectKeeps
<1>3. CASE InsufficientReject(a, in)
  <2> DEFINE reason == "insufficient_balance"
  <2>1. reason \in Reasons BY DEF Reasons
  <2>2. /\ orders' = Append(orders, RejectedRow(NewRow(a, in), reason, seq + 1)) /\ seq' = seq + 1
        /\ book' = Advance(book, seq + 1) /\ bal' = bal /\ revenue' = revenue /\ trades' = trades
    BY <1>3 DEF InsufficientReject, money
  <2> HIDE DEF reason
  <2>3. seq + 1 \in Nat BY <1>1
  <2> QED BY <2>1, <2>2, <2>3, RejectKeeps
<1>4. CASE BookReject(a, in)
  <2> DEFINE row == NewRow(a, in)
             r == ApplyNew(book, seq + 1, row)
             reason == r.reason
  <2>1. /\ Funded(a, row) /\ r.kind = "rejected" /\ book' = r.book /\ seq' = seq + 1
        /\ orders' = Append(orders, RejectedRow(row, reason, seq + 1)) /\ bal' = bal /\ revenue' = revenue
        /\ trades' = trades
    BY <1>4 DEF BookReject, money
  <2>2. Ended(book, row, seq, BandOf(row), Started(row).rows, Len(trades), MatchOf(row), SettledOf(row))
    BY <2>1, EndFlight
  <2>3. MatchOf(row).t.stop \in Stops BY <2>2 DEF Ended, Stops
  <2>4. AnswerIs(row, r) BY <2>3, NewAnswer
  <2> HIDE DEF r
  <2>5. reason \in Reasons /\ r.book = Advance(book, seq + 1) BY <2>1, <2>4 DEF AnswerIs
  <2> HIDE DEF reason
  <2>6. seq + 1 \in Nat BY <1>1
  <2> QED BY <2>1, <2>5, <2>6, RejectKeeps
<1> QED BY <1>2, <1>3, <1>4

-----------------------------------------------------------------------------
(* A cancel.                                                               *)

\* The orders of a side are those of its rows.
LEMMA SideOrders ==
  ASSUME NEW side, NEW s, NEW rows, NEW ids, SideInv(side, s, rows, ids)
  PROVE  OrdersOf(s) = {RestingRow(rows[i]) : i \in OfSide(rows, ids, side)}
<1> DEFINE P == ToSet(s.prices)
           all == {RestingRow(rows[i]) : i \in OfSide(rows, ids, side)}
<1>1. /\ P = {rows[i].price : i \in OfSide(rows, ids, side)}
      /\ \A p \in P : ToSet(s.levels[p].orders) = {RestingRow(rows[i]) : i \in At(rows, ids, side, p)}
  BY DEF SideInv, LevelInv
<1>2. OrdersOf(s) = UNION {ToSet(s.levels[p].orders) : p \in P} BY DEF OrdersOf
<1> HIDE DEF P
<1>3. ASSUME NEW o, o \in OrdersOf(s) PROVE o \in all
  <2>1. PICK p \in P : o \in ToSet(s.levels[p].orders) BY <1>2, <1>3
  <2>2. PICK i \in At(rows, ids, side, p) : o = RestingRow(rows[i]) BY SMTT(60), <1>1, <2>1
  <2> QED BY <2>2 DEF At, OfSide
<1>4. ASSUME NEW o, o \in all PROVE o \in OrdersOf(s)
  <2>1. PICK i \in OfSide(rows, ids, side) : o = RestingRow(rows[i]) BY <1>4
  <2>2. rows[i].price \in P BY <1>1
  <2>3. i \in At(rows, ids, side, rows[i].price) BY DEF At, OfSide
  <2>4. o \in ToSet(s.levels[rows[i].price].orders) BY <1>1, <2>1, <2>2, <2>3
  <2> QED BY <1>2, <2>2, <2>4
<1> HIDE DEF all
<1>5. OrdersOf(s) = all BY <1>3, <1>4
<1> QED BY SMTT(60), <1>5 DEF all

\* The book finds the order of an id.
LEMMA RestingFound ==
  ASSUME NEW b, NEW rows, NEW ids, BookInv(b, rows, ids), RowsAre(rows, ids), NEW i, i \in ids
  PROVE  \A r : r = (CHOOSE x \in {o \in Resting(b) : o.id = i} : TRUE) => r = RestingRow(rows[i])
<1> DEFINE found == {o \in Resting(b) : o.id = i}
           side == rows[i].side
<1>1. SideInv("buy", b.buy, rows, ids) /\ SideInv("sell", b.sell, rows, ids) BY DEF BookInv
<1>2. OrdersOf(b.buy) = {RestingRow(rows[j]) : j \in OfSide(rows, ids, "buy")} BY <1>1, SideOrders
<1>3. OrdersOf(b.sell) = {RestingRow(rows[j]) : j \in OfSide(rows, ids, "sell")} BY <1>1, SideOrders
<1>4. \A j \in ids : rows[j].side \in Sides /\ RestingRow(rows[j]).id = j
  <2> TAKE j \in ids
  <2>1. rows[j] \in Row /\ rows[j].id = j BY DEF RowsAre
  <2>2. RestingRow(rows[j]).id = rows[j].id BY RestingParts
  <2> QED BY <2>1, <2>2 DEF Row
<1>5. \A o \in Resting(b) : \E j \in ids : o = RestingRow(rows[j]) BY <1>2, <1>3 DEF Resting, OfSide
<1>6. \A j \in ids : RestingRow(rows[j]) \in Resting(b)
  BY <1>2, <1>3, <1>4 DEF Resting, OfSide, Sides
<1>7. \A o \in found : o = RestingRow(rows[i])
  <2> TAKE o \in found
  <2>1. o \in Resting(b) /\ o.id = i OBVIOUS
  <2>2. PICK j \in ids : o = RestingRow(rows[j]) BY <1>5, <2>1
  <2> QED BY <1>4, <2>1, <2>2
<1>8. RestingRow(rows[i]) \in found BY <1>4, <1>6
<1> HIDE DEF found
<1>9. (CHOOSE x \in found : TRUE) = RestingRow(rows[i]) BY <1>7, <1>8
<1> QED BY <1>9 DEF found

\* A resting order leaves its book, and its row is open no more.
LessBook(b, o, i, n) == [b EXCEPT ![o.side] = RemoveResting(@, o), !.byID = @ \ {i}, !.lastSeq = n]
LeftBook(c, rows, ids, n) == BookInv(c, rows, ids) /\ c.lastSeq = n

\* The book of a cancel holds the open rows that are left.
LEMMA CancelBook ==
  ASSUME NEW b, NEW rows, NEW ids, BookInv(b, rows, ids), RowsAre(rows, ids), NEW i, i \in ids,
         NEW next, \A j \in ids \ {i} : next[j] = rows[j], NEW n, NEW o, o = RestingRow(rows[i]),
         NEW c, c = LessBook(b, o, i, n), NEW less, less = ids \ {i}
  PROVE  LeftBook(c, next, less, n)
<1> DEFINE side == o.side
           s == RemoveResting(b[side], o)
<1>1. /\ b.cfg \in Configs
      /\ b = [cfg |-> b.cfg, buy |-> b.buy, sell |-> b.sell, byID |-> ids, lastSeq |-> b.lastSeq]
      /\ SideInv("buy", b.buy, rows, ids) /\ SideInv("sell", b.sell, rows, ids)
  BY DEF BookInv
<1>2. side = rows[i].side BY RestingParts
<1>3. side \in Sides
  <2>1. rows[i] \in Row BY DEF RowsAre
  <2> QED BY <1>2, <2>1 DEF Row
<1>4. \A q \in Sides : SideInv(q, b[q], rows, ids) BY <1>1 DEF Sides
<1> DEFINE cfg == b.cfg
           u == b.buy
           v == b.sell
           l == b.lastSeq
<1>5. c = [b EXCEPT ![side] = s, !.byID = less, !.lastSeq = n]
  <2>1. b = [cfg |-> cfg, buy |-> u, sell |-> v, byID |-> ids, lastSeq |-> l] BY <1>1
  <2> HIDE DEF cfg, u, v, l
  <2>2. b.byID = ids BY ONLY <2>1
  <2>3. c = [b EXCEPT ![o.side] = RemoveResting(@, o), !.byID = @ \ {i}, !.lastSeq = n] BY DEF LessBook
  <2> QED BY <2>2, <2>3
<1> HIDE DEF side
<1>6. SideInv(side, s, next, less)
  <2>1. SideInv(side, b[side], rows, ids) BY <1>3, <1>4
  <2> HIDE DEF s
  <2>2. SideInv(side, s, rows, less) BY <1>2, <2>1, RemoveSide DEF s
  <2>3. \A j \in less : next[j] = rows[j] OBVIOUS
  <2>4. IsFiniteSet(less)
    <3>1. IsFiniteSet(ids) /\ less \subseteq ids BY DEF RowsAre
    <3> QED BY <3>1, FS_Subset
  <2> QED BY <2>2, <2>3, <2>4, SideKeeps
<1>7. \A q \in Sides \ {side} : SideInv(q, b[q], next, less)
  <2> TAKE q \in Sides \ {side}
  <2>1. SideInv(q, b[q], rows, ids) BY <1>4
  <2>2. OfSide(next, less, q) = OfSide(rows, ids, q) BY <1>2 DEF OfSide
  <2>3. \A j \in OfSide(rows, ids, q) : RestingRow(next[j]) = RestingRow(rows[j]) BY <1>2 DEF OfSide
  <2>4. IsFiniteSet(ids) BY DEF RowsAre
  <2> QED BY <2>1, <2>2, <2>3, <2>4, SideStays
<1> HIDE DEF s
<1>8. b = [cfg |-> cfg, buy |-> u, sell |-> v, byID |-> ids, lastSeq |-> l] BY <1>1
<1>9. CASE side = "buy"
  <2> HIDE DEF cfg, u, v, l
  <2>1. c = [cfg |-> cfg, buy |-> s, sell |-> v, byID |-> less, lastSeq |-> n] BY ONLY <1>5, <1>8, <1>9
  <2>2. SideInv("sell", b.sell, next, less) BY <1>7, <1>9 DEF Sides
  <2>3. c.cfg = cfg /\ c.buy = s /\ c.sell = v /\ c.lastSeq = n BY ONLY <2>1
  <2>4. BookInv(c, next, less) BY <1>1, <1>6, <1>9, <2>1, <2>2, <2>3 DEF BookInv, cfg, v
  <2> QED BY <2>3, <2>4 DEF LeftBook
<1>10. CASE side = "sell"
  <2> HIDE DEF cfg, u, v, l
  <2>1. c = [cfg |-> cfg, buy |-> u, sell |-> s, byID |-> less, lastSeq |-> n] BY ONLY <1>5, <1>8, <1>10
  <2>2. SideInv("buy", b.buy, next, less) BY <1>7, <1>10 DEF Sides
  <2>3. c.cfg = cfg /\ c.buy = u /\ c.sell = s /\ c.lastSeq = n BY ONLY <2>1
  <2>4. BookInv(c, next, less) BY <1>1, <1>6, <1>10, <2>1, <2>2, <2>3 DEF BookInv, cfg, u
  <2> QED BY <2>3, <2>4 DEF LeftBook
<1> QED BY <1>3, <1>9, <1>10 DEF Sides

\* An open row that ends.
RowClosed(rows, i, s, next) ==
  /\ RowsInv(next, s + 1) /\ DOMAIN next = DOMAIN rows /\ OpenIn(next) = OpenIn(rows) \ {i}
  /\ \A j \in DOMAIN rows \ {i} : next[j] = rows[j]

\* The rows once an open one ended.
LEMMA ClosedRows ==
  ASSUME NEW s \in Nat, NEW rows, RowsInv(rows, s), NEW i \in DOMAIN rows, NEW e \in Row, e.id = i, ~Open(e),
         NEW next, next = [rows EXCEPT ![i] = e]
  PROVE  RowClosed(rows, i, s, next)
<1>1. /\ RowsInv(rows, s + 1) /\ rows \in Seq(Row) /\ (\A j \in DOMAIN rows : rows[j].id = j)
      /\ (\A j \in OpenIn(rows) :
            rows[j].type = "limit" /\ rows[j].price > 0 /\ rows[j].remaining > 0 /\ rows[j].seq =< s + 1)
      /\ (\A j, k \in OpenIn(rows) : rows[j].seq = rows[k].seq => j = k)
  <2>1. RowsInv(rows, s + 1) BY RowsLater
  <2> QED BY <2>1 DEF RowsInv
<1>2. /\ next \in Seq(Row) /\ DOMAIN next = DOMAIN rows /\ next[i] = e
      /\ \A j \in DOMAIN rows \ {i} : next[j] = rows[j]
  BY <1>1, ReplaceRow
<1>3. OpenIn(next) = OpenIn(rows) \ {i} BY <1>2 DEF OpenIn
<1>4. \A j \in OpenIn(next) : j \in OpenIn(rows) /\ next[j] = rows[j] BY <1>2, <1>3 DEF OpenIn
<1>5. \A j \in DOMAIN next : next[j].id = j BY <1>1, <1>2
<1>6. \A j \in OpenIn(next) :
        next[j].type = "limit" /\ next[j].price > 0 /\ next[j].remaining > 0 /\ next[j].seq =< s + 1
  BY <1>1, <1>4
<1>7. \A j, k \in OpenIn(next) : next[j].seq = next[k].seq => j = k BY <1>1, <1>4
<1>8. RowsInv(next, s + 1) BY <1>2, <1>5, <1>6, <1>7 DEF RowsInv
<1> QED BY <1>2, <1>3, <1>8 DEF RowClosed

\* The row of a cancelled order.
CancelledRow(o) == [[[o EXCEPT !.status = "cancelled"] EXCEPT !.reason = "user"] EXCEPT !.holdRemaining = 0]
CancelledIs(o, e) ==
  e \in Row /\ e.id = o.id /\ e.acct = o.acct /\ e.side = o.side /\ e.holdRemaining = 0 /\ ~Open(e)

\* What a cancelled row is made of.
LEMMA CancelledParts ==
  ASSUME NEW o, o \in Row
  PROVE  CancelledIs(o, CancelledRow(o))
<1> DEFINE st == "cancelled"
           why == "user"
           z == 0
           a == [o EXCEPT !.status = st]
           b == [a EXCEPT !.reason = why]
           e == [b EXCEPT !.holdRemaining = z]
<1>1. CancelledRow(o) = e BY DEF CancelledRow
<1>2. st \in RowStatuses /\ why \in Reasons /\ z \in Int /\ st \notin OpenStatuses
  BY DEF RowStatuses, Reasons, OpenStatuses
<1> HIDE DEF st, why, z
<1>3. a \in Row /\ a.id = o.id /\ a.acct = o.acct /\ a.side = o.side /\ a.status = st
  <2>1. a \in Row BY ONLY o \in Row, <1>2 DEF Row
  <2> QED BY ONLY o \in Row, <2>1 DEF Row
<1> HIDE DEF a
<1>4. b \in Row /\ b.id = a.id /\ b.acct = a.acct /\ b.side = a.side /\ b.status = a.status
  <2>1. b \in Row BY ONLY <1>3, <1>2 DEF Row
  <2> QED BY ONLY <1>3, <2>1 DEF Row
<1> HIDE DEF b
<1>5. e \in Row /\ e.id = b.id /\ e.acct = b.acct /\ e.side = b.side /\ e.status = b.status /\ e.holdRemaining = z
  <2>1. e \in Row BY ONLY <1>4, <1>2 DEF Row
  <2> QED BY ONLY <1>4, <2>1 DEF Row
<1> HIDE DEF e
<1> QED BY <1>1, <1>2, <1>3, <1>4, <1>5 DEF CancelledIs, Open, z

\* The write of a cancel replaces one row.
LEMMA CancelRows ==
  ASSUME NEW rows, rows \in Seq(Row), NEW i, i \in DOMAIN rows
  PROVE  [rows EXCEPT ![i].status = "cancelled", ![i].reason = "user", ![i].holdRemaining = 0]
           = [rows EXCEPT ![i] = CancelledRow(rows[i])]
<1> DEFINE st == "cancelled"
           why == "user"
           z == 0
           a == [rows EXCEPT ![i].status = st]
           b == [a EXCEPT ![i].reason = why]
           c == [b EXCEPT ![i].holdRemaining = z]
           o == rows[i]
           p == [o EXCEPT !.status = st]
           q == [p EXCEPT !.reason = why]
           e == [q EXCEPT !.holdRemaining = z]
<1>1. CancelledRow(rows[i]) = e BY DEF CancelledRow
<1>2. [rows EXCEPT ![i].status = "cancelled", ![i].reason = "user", ![i].holdRemaining = 0] = c OBVIOUS
<1> HIDE DEF st, why, z
<1>3. a = [rows EXCEPT ![i] = p] OBVIOUS
<1> DEFINE D == DOMAIN rows
<1>4. rows = [j \in D |-> rows[j]] OBVIOUS
<1> HIDE DEF a, p, D
<1>5. i \in D BY DEF D
<1>6. a = [j \in D |-> IF j = i THEN p ELSE rows[j]] BY ONLY <1>3, <1>4, <1>5
<1>7. b = [j \in D |-> IF j = i THEN q ELSE rows[j]] BY ONLY <1>5, <1>6
<1> HIDE DEF b, q
<1>8. c = [j \in D |-> IF j = i THEN e ELSE rows[j]] BY ONLY <1>5, <1>7
<1> HIDE DEF c, e
<1>9. c = [rows EXCEPT ![i] = e] BY ONLY <1>4, <1>5, <1>8
<1> QED BY <1>1, <1>2, <1>9

\* A cancel keeps the book, the rows and the money in step.
LEMMA CancelKeeps ==
  ASSUME Ready, NEW id \in DOMAIN orders, Cancel(id)
  PROVE  Done
<1> DEFINE o == orders[id]
           r == ApplyCancel(book, seq + 1, id, o.acct)
           ids == OpenIn(orders)
           e == CancelledRow(o)
           next == [orders EXCEPT ![id] = e]
<1>1. /\ seq \in Nat /\ RowsInv(orders, seq) /\ (\A i \in DOMAIN orders : Covered(orders[i]))
      /\ orders \in Seq(Row) /\ orders[id].id = id
      /\ MoneyInv(orders, bal, revenue) /\ Solvent(bal) /\ BookInv(book, orders, ids)
      /\ trades \in Seq(TradeRow) /\ Uncrossed(orders)
  BY DEF Ready, RowsInv
<1>2. /\ Open(o) /\ r.kind = "cancelled" /\ seq' = seq + 1 /\ book' = r.book /\ bal' = Release(bal, o)
      /\ revenue' = revenue /\ trades' = trades
      /\ orders' = [orders EXCEPT ![id].status = "cancelled", ![id].reason = "user", ![id].holdRemaining = 0]
  BY SMTT(60) DEF Cancel
<1>3. orders' = next BY <1>1, <1>2, CancelRows
<1>4. o \in Row BY <1>1
<1>5. CancelledIs(o, e) BY <1>4, CancelledParts
<1>6. id \in ids BY <1>2 DEF OpenIn
<1>7. RowClosed(orders, id, seq, next)
  <2> HIDE DEF e, o
  <2>1. e \in Row /\ e.id = id /\ ~Open(e) BY <1>1, <1>5 DEF CancelledIs, o
  <2> QED BY <1>1, <2>1, ClosedRows
<1>8. /\ RowsInv(next, seq + 1) /\ DOMAIN next = DOMAIN orders /\ OpenIn(next) = ids \ {id}
      /\ (\A j \in DOMAIN orders \ {id} : next[j] = orders[j]) /\ next \in Seq(Row)
  BY <1>7 DEF RowClosed, RowsInv
<1>29. Uncrossed(next)
  <2>1. \A j \in OpenIn(next) : j \in ids /\ next[j] = orders[j] BY <1>8 DEF OpenIn
  <2>2. Uncrossed(orders) BY <1>1
  <2> HIDE DEF next
  <2> QED BY <2>1, <2>2 DEF Uncrossed
<1>9. next[id] = e BY <1>1
<1>10. RowsAre(orders, ids) BY <1>1, OpenRows
<1> DEFINE k == RestingRow(o)
           found == CHOOSE x \in {y \in Resting(book) : y.id = id} : TRUE
<1>11. found = k BY <1>1, <1>6, <1>10, RestingFound
<1>12. k.acct = o.acct BY RestingParts
<1>13. book.byID = ids
  <2> DEFINE cfg == book.cfg
             u == book.buy
             v == book.sell
             l == book.lastSeq
  <2>1. book = [cfg |-> cfg, buy |-> u, sell |-> v, byID |-> ids, lastSeq |-> l] BY <1>1 DEF BookInv
  <2> HIDE DEF cfg, u, v, l, ids
  <2> QED BY ONLY <2>1
<1> HIDE DEF found, k
<1>14. r.book = [book EXCEPT ![k.side] = RemoveResting(@, k), !.byID = @ \ {id}, !.lastSeq = seq + 1]
  BY <1>6, <1>11, <1>12, <1>13 DEF ApplyCancel, found
<1> HIDE DEF r, e, next, ids
<1>15. BookInv(r.book, next, OpenIn(next)) /\ r.book.lastSeq = seq + 1
  <2>1. \A j \in ids \ {id} : next[j] = orders[j] BY <1>8 DEF ids, OpenIn
  <2>2. BookInv(r.book, next, ids \ {id}) /\ r.book.lastSeq = seq + 1
    <3> DEFINE c == r.book
    <3>1. c = [book EXCEPT ![k.side] = RemoveResting(@, k), !.byID = @ \ {id}, !.lastSeq = seq + 1] BY <1>14
    <3>2. k = RestingRow(orders[id]) BY DEF k
    <3> DEFINE n == seq + 1
    <3>4. c = LessBook(book, k, id, n) BY <3>1 DEF LessBook
    <3> HIDE DEF c, o, n
    <3>5. BookInv(book, orders, ids) BY <1>1
    <3> DEFINE less == ids \ {id}
    <3>6. less = ids \ {id} OBVIOUS
    <3> HIDE DEF k, less
    <3>3. LeftBook(c, next, less, n) BY ONLY <1>6, <1>10, <2>1, <3>2, <3>4, <3>5, <3>6, CancelBook
    <3> QED BY <3>3 DEF c, n, less, LeftBook
  <2> QED BY <1>8, <2>2
<1> DEFINE h == o.holdRemaining
           m == -h
           a == o.acct
           y == HoldAsset(o)
<1>16. h \in Int /\ h >= 0
  <2>1. Covered(o) BY <1>1
  <2>2. o.price \in Nat /\ o.remaining \in Nat BY <1>4 DEF Row
  <2>3. \A u \in Nat, v \in Nat : u * v \in Nat BY Z3
  <2>4. h = IF o.side = "buy" THEN o.price * o.remaining ELSE o.remaining BY <1>2, <2>1 DEF Covered
  <2> HIDE DEF h
  <2> QED BY <2>2, <2>3, <2>4
<1>17. m \in Int /\ h + m = 0 BY <1>16
<1>18. a \in Accounts /\ y \in Assets BY <1>4 DEF Row, HoldAsset, Assets
<1>19. bal' = Move(bal, a, y, h, m) BY <1>2 DEF Release
<1>20. next[id].acct = a /\ next[id].side = o.side /\ next[id].holdRemaining = 0
  BY <1>5, <1>9 DEF CancelledIs
<1>21. RowMoved(orders, next, id, m)
  <2>1. next[id].holdRemaining = orders[id].holdRemaining + m BY <1>16, <1>17, <1>20
  <2> HIDE DEF m
  <2> QED BY <1>1, <1>8, <1>17, <1>20, <2>1 DEF RowMoved
<1>22. bal \in Balances BY <1>1 DEF MoneyInv
<1>23. a = orders[id].acct /\ y = HoldAsset(orders[id]) OBVIOUS
<1> HIDE DEF h, m, a, y, o
<1>24. MoneyInv(next, Move(bal, a, y, h, m), revenue) BY <1>1, <1>16, <1>17, <1>21, <1>23, MoneyMoves
<1>25. Solvent(Move(bal, a, y, h, m)) BY <1>1, <1>16, <1>17, <1>18, <1>22, MoveSolvent
<1>26. \A i \in DOMAIN next : Covered(next[i])
  <2>1. Covered(e) BY <1>5 DEF Covered, CancelledIs
  <2> QED BY <1>1, <1>8, <1>9, <2>1
<1>27. Kept(seq + 1, next, Move(bal, a, y, h, m), revenue) BY <1>8, <1>24, <1>25, <1>26, <1>29 DEF Kept
<1>28. seq + 1 \in Nat BY <1>1
<1> QED BY <1>1, <1>2, <1>3, <1>15, <1>19, <1>27, <1>28 DEF Done

-----------------------------------------------------------------------------
(* A rebuild.                                                              *)

\* Orders of different sequences, and their order by sequence.
Sequenced(S) == (\A o \in S : o.seq \in Nat) /\ \A o, p \in S : o.seq = p.seq => o = p
Ascending(q) == \A i, j \in DOMAIN q : i < j => q[i].seq < q[j].seq

\* The newest order of a set.
LEMMA Newest ==
  ASSUME NEW S, IsFiniteSet(S), S # {}, Sequenced(S)
  PROVE  \E x \in S : \A y \in S \ {x} : y.seq < x.seq
<1> DEFINE above(x) == {y \in S : y.seq > x.seq}
           B == {above(x) : x \in S}
<1>1. B \subseteq SUBSET S /\ B # {} OBVIOUS
<1>2. PICK T \in B : \A U \in B : U \subseteq T => U = T
  <2>1. IsFiniteSet(S) OBVIOUS
  <2> HIDE DEF above, B
  <2> QED BY ONLY <1>1, <2>1, Minimal
<1>3. PICK x \in S : T = above(x) BY <1>2
<1>4. \A o \in S : o.seq \in Nat BY DEF Sequenced
<1>5. ASSUME NEW z \in S, z.seq > x.seq PROVE FALSE
  <2> DEFINE m == x.seq
             n == z.seq
  <2>1. m \in Nat /\ n \in Nat /\ n > m BY <1>4, <1>5
  <2> HIDE DEF m, n
  <2>2. \A k \in Nat : k > n => k > m BY <2>1
  <2>3. ~(n > n) BY <2>1
  <2>4. above(z) \subseteq above(x) BY <1>4, <2>2 DEF m, n
  <2>5. z \notin above(z) /\ z \in above(x) BY <1>5, <2>3 DEF n
  <2>6. above(z) \in B OBVIOUS
  <2> HIDE DEF above, B
  <2> QED BY <1>2, <1>3, <2>4, <2>5, <2>6
<1>6. \A y \in S \ {x} : y.seq < x.seq
  <2> TAKE y \in S \ {x}
  <2>1. y.seq \in Nat /\ x.seq \in Nat BY <1>4
  <2>2. ~(y.seq > x.seq) BY <1>5
  <2>3. y.seq # x.seq BY DEF Sequenced
  <2> QED BY <2>1, <2>2, <2>3
<1> QED BY <1>6

\* One order more, at the end.
LEMMA SortMore ==
  ASSUME NEW T, NEW x, x \in T, \A y \in T \ {x} : y.seq < x.seq, NEW n, n \in Nat,
         NEW q, q \in [1..n -> T \ {x}], Ascending(q)
  PROVE  \E r \in [1..n + 1 -> T] : Ascending(r)
<1> DEFINE r == [i \in 1..n + 1 |-> IF i = n + 1 THEN x ELSE q[i]]
<1>1. \A i \in 1..n + 1 : i = n + 1 \/ i \in 1..n OBVIOUS
<1>2. n + 1 \in 1..n + 1 /\ n + 1 \notin 1..n /\ \A i \in 1..n : i \in 1..n + 1 OBVIOUS
<1>3. \A i \in 1..n : q[i] \in T \ {x} OBVIOUS
<1>4. DOMAIN r = 1..n + 1 /\ r[n + 1] = x /\ \A i \in 1..n : r[i] = q[i] BY <1>2
<1>5. r \in [1..n + 1 -> T] BY <1>1, <1>3
<1> HIDE DEF r
<1>6. ASSUME NEW i \in 1..n + 1, NEW j \in 1..n + 1, i < j PROVE r[i].seq < r[j].seq
  <2>1. i \in 1..n BY <1>6
  <2>2. CASE j = n + 1 BY <1>3, <1>4, <2>1, <2>2
  <2>3. CASE j \in 1..n
    <3>1. DOMAIN q = 1..n OBVIOUS
    <3> QED BY <1>4, <1>6, <2>1, <2>3, <3>1 DEF Ascending
  <2> QED BY <1>1, <2>2, <2>3
<1>7. Ascending(r) BY <1>4, <1>6 DEF Ascending
<1> QED BY <1>5, <1>7

\* Any finite set of orders can be sorted.
LEMMA SortExists ==
  ASSUME NEW S, IsFiniteSet(S), Sequenced(S)
  PROVE  \E q \in [1..Cardinality(S) -> S] : Ascending(q)
<1> DEFINE B == {T \in SUBSET S : ~ \E q \in [1..Cardinality(T) -> T] : Ascending(q)}
<1>1. ASSUME B # {} PROVE FALSE
  <2>1. PICK T \in B : \A U \in B : U \subseteq T => U = T
    <3>1. B \subseteq SUBSET S /\ IsFiniteSet(S) OBVIOUS
    <3> HIDE DEF B
    <3> QED BY ONLY <1>1, <3>1, Minimal
  <2>2. T \subseteq S /\ ~ \E q \in [1..Cardinality(T) -> T] : Ascending(q) BY <2>1
  <2>3. IsFiniteSet(T) BY <2>2, FS_Subset
  <2>4. T # {}
    <3>1. SUFFICES ASSUME T = {} PROVE FALSE OBVIOUS
    <3>2. Cardinality(T) = 0 BY <3>1, FS_EmptySet
    <3> DEFINE q == [i \in 1..0 |-> i]
    <3>3. 1..0 = {} BY SMT
    <3>4. q \in [1..0 -> T] /\ DOMAIN q = {} BY <3>3
    <3>5. Ascending(q) BY <3>4 DEF Ascending
    <3> HIDE DEF q
    <3> QED BY <2>2, <3>2, <3>4, <3>5
  <2>5. Sequenced(T) BY <2>2 DEF Sequenced
  <2>6. PICK x \in T : \A y \in T \ {x} : y.seq < x.seq BY <2>3, <2>4, <2>5, Newest
  <2> DEFINE U == T \ {x}
             n == Cardinality(U)
  <2>7. U \notin B
    <3>1. U \subseteq T /\ U # T OBVIOUS
    <3> HIDE DEF B, U
    <3> QED BY <2>1, <3>1
  <2>8. PICK q \in [1..n -> U] : Ascending(q) BY <2>2, <2>7
  <2>9. n \in Nat /\ Cardinality(T) = n + 1
    <3>1. IsFiniteSet(U) /\ n = Cardinality(T) - 1 BY <2>3, FS_RemoveElement
    <3>2. n \in Nat /\ Cardinality(T) \in Nat BY <2>3, <3>1, FS_CardinalityType
    <3> HIDE DEF n
    <3> QED BY <3>1, <3>2
  <2> HIDE DEF n
  <2>10. \E r \in [1..n + 1 -> T] : Ascending(r) BY <2>6, <2>8, <2>9, SortMore
  <2> QED BY <2>2, <2>9, <2>10
<1> HIDE DEF B
<1>2. B = {} BY <1>1
<1> QED BY <1>2 DEF B

\* What BySeq of a set of orders is: each of them once.
BySeqIs(S, q, n) ==
  /\ n \in Nat /\ q \in [1..n -> S] /\ Ascending(q)
  /\ (\A o \in S : \E i \in 1..n : q[i] = o) /\ \A i, j \in 1..n : q[i] = q[j] => i = j

\* The order by sequence has every order once.
LEMMA BySeqParts ==
  ASSUME NEW S, IsFiniteSet(S), Sequenced(S)
  PROVE  BySeqIs(S, BySeq(S), Cardinality(S))
<1> DEFINE n == Cardinality(S)
           q == BySeq(S)
<1>1. n \in Nat BY FS_CardinalityType
<1>2. \E r \in [1..n -> S] : Ascending(r) BY SortExists
<1>3. q \in [1..n -> S] /\ Ascending(q)
  <2>1. q = CHOOSE r \in [1..n -> S] : \A i, j \in DOMAIN r : i < j => r[i].seq < r[j].seq BY DEF BySeq
  <2> HIDE DEF n, q
  <2> QED BY <1>2, <2>1 DEF Ascending
<1> HIDE DEF n, q
<1>4. \A i, j \in 1..n : q[i] = q[j] => i = j
  <2> TAKE i, j \in 1..n
  <2>1. DOMAIN q = 1..n /\ q[i] \in S /\ q[j] \in S BY <1>3
  <2>2. q[i].seq \in Nat /\ q[j].seq \in Nat BY <2>1 DEF Sequenced
  <2>3. CASE i < j
    <3>1. q[i].seq < q[j].seq BY <1>3, <2>1, <2>3 DEF Ascending
    <3> QED BY <2>2, <3>1
  <2>4. CASE j < i
    <3>1. q[j].seq < q[i].seq BY <1>3, <2>1, <2>4 DEF Ascending
    <3> QED BY <2>2, <3>1
  <2>5. i \in Int /\ j \in Int BY <1>1
  <2> QED BY <2>3, <2>4, <2>5
<1>5. q \in Injection(1..n, S) BY <1>3, <1>4 DEF Injection, IsInjective
<1>6. Cardinality(1..n) = n
  <2>1. Cardinality(1..n) = IF 1 > n THEN 0 ELSE n - 1 + 1 BY <1>1, FS_Interval
  <2> QED BY <1>1, <2>1
<1>7. q \in Surjection(1..n, S)
  <2>1. Cardinality(1..n) = Cardinality(S) <=> q \in Surjection(1..n, S) BY <1>5, FS_Injection
  <2> QED BY <1>6, <2>1 DEF n
<1>8. \A o \in S : \E i \in 1..n : q[i] = o BY <1>7 DEF Surjection
<1> QED BY <1>1, <1>3, <1>4, <1>8 DEF BySeqIs, n, q

\* An empty book.
LEMMA EmptyBookInv ==
  ASSUME NEW cfg \in Configs, NEW rows
  PROVE  BookInv(EmptyBook(cfg), rows, {}) /\ EmptyBook(cfg).cfg = cfg
<1> DEFINE b == EmptyBook(cfg)
           e == EmptySide
           z == 0
           none == {}
<1>1. b = [cfg |-> cfg, buy |-> e, sell |-> e, byID |-> none, lastSeq |-> z] BY DEF EmptyBook
<1>2. SideInv("buy", e, rows, none) /\ SideInv("sell", e, rows, none) BY EmptySideInv
<1> HIDE DEF b, e, z, none
<1>3. b.cfg = cfg /\ b.buy = e /\ b.sell = e /\ b.lastSeq = z BY ONLY <1>1
<1>4. BookInv(b, rows, none) BY <1>1, <1>2, <1>3 DEF BookInv
<1> QED BY <1>3, <1>4 DEF b, none

\* The first orders of a sequence of them, put on an empty book.
First(q, k) == [i \in 1..k |-> q[i]]
Ids(q, k) == {q[i].id : i \in 1..k}
InsertsTo(rows, cfg, q, k) ==
  LET b == Fold("insert", 0, EmptyBook(cfg), First(q, k)) IN BookInv(b, rows, Ids(q, k)) /\ b.cfg = cfg
\* A sequence of the open orders of the rows, each once.
OpenSeq(rows, q, n) ==
  /\ RowsAre(rows, OpenIn(rows))
  /\ (\A i \in 1..n : \E j \in OpenIn(rows) : q[i] = RestingRow(rows[j]))
  /\ (\A i, j \in 1..n : q[i] = q[j] => i = j)
  /\ \A i, j \in 1..n : i < j => q[i].seq < q[j].seq

\* One order more of a rebuild.
LEMMA InsertTurn ==
  ASSUME NEW rows, NEW cfg, NEW q, NEW n, n \in Nat, OpenSeq(rows, q, n), NEW k, k \in Nat, k < n,
         InsertsTo(rows, cfg, q, k)
  PROVE  InsertsTo(rows, cfg, q, k + 1)
<1> DEFINE base == EmptyBook(cfg)
           f == First(q, k)
           g == First(q, k + 1)
           b == Fold("insert", 0, base, f)
           c == Fold("insert", 0, base, g)
           ids == Ids(q, k)
           o == q[k + 1]
<1>1. k + 1 \in 1..n /\ (\A i \in 1..k : i \in 1..n /\ i # k + 1) OBVIOUS
<1>2. \A i \in 1..n : \E j \in OpenIn(rows) : q[i] = RestingRow(rows[j]) BY DEF OpenSeq
<1>3. \A j \in OpenIn(rows) : rows[j] \in Row /\ rows[j].id = j /\ RestingRow(rows[j]).id = j
  <2> TAKE j \in OpenIn(rows)
  <2>1. rows[j] \in Row /\ rows[j].id = j BY DEF OpenSeq, RowsAre
  <2>2. RestingRow(rows[j]).id = rows[j].id BY RestingParts
  <2> QED BY <2>1, <2>2
<1>4. PICK i \in OpenIn(rows) : o = RestingRow(rows[i]) BY <1>1, <1>2
<1>5. \A m \in 1..n : q[m].id \in OpenIn(rows) /\ q[m] = RestingRow(rows[q[m].id]) BY <1>2, <1>3
<1>6. i \notin ids
  <2>1. SUFFICES ASSUME i \in ids PROVE FALSE OBVIOUS
  <2>2. PICK m \in 1..k : i = q[m].id BY <2>1 DEF Ids
  <2>3. q[m] = o BY <1>1, <1>4, <1>5, <2>2
  <2> QED BY <1>1, <2>3 DEF OpenSeq
<1>7. RowsAre(rows, ids)
  <2>1. \A j \in ids : j \in OpenIn(rows) BY <1>1, <1>5 DEF Ids
  <2>2. IsFiniteSet(OpenIn(rows)) BY DEF OpenSeq, RowsAre
  <2>3. IsFiniteSet(ids) BY <2>1, <2>2, FS_Subset
  <2> QED BY <1>3, <2>1, <2>3 DEF RowsAre
<1>12. \A j \in ids : rows[j].seq < rows[i].seq
  <2> TAKE j \in ids
  <2>1. PICK m \in 1..k : j = q[m].id BY DEF Ids
  <2>2. m < k + 1 /\ m \in 1..n /\ k + 1 \in 1..n BY <1>1
  <2>3. q[m].seq < o.seq BY <2>2 DEF OpenSeq
  <2>4. q[m] = RestingRow(rows[j]) BY <1>5, <2>1, <2>2
  <2>5. o.seq = rows[i].seq /\ q[m].seq = rows[j].seq BY <1>4, <2>4, RestingParts
  <2> QED BY <2>3, <2>5
<1>8. Ids(q, k + 1) = ids \cup {i}
  <2>1. 1..k + 1 = (1..k) \cup {k + 1} OBVIOUS
  <2>2. o.id = i BY <1>3, <1>4
  <2> QED BY <2>1, <2>2 DEF Ids
<1>9. c = InsertOrder(b, o)
  <2> DEFINE kind == "insert"
             z == 0
  <2>1. DOMAIN g = 1..k + 1 /\ DOMAIN f = 1..k /\ (\A m \in 1..k : g[m] = f[m]) /\ g[k + 1] = o BY DEF First
  <2> HIDE DEF f, g, o, base, kind, z
  <2>2. Fold(kind, z, base, g) = Turn(kind, z, Fold(kind, z, base, f), g[k + 1]) BY <2>1, FoldLast
  <2>3. Turn(kind, z, Fold(kind, z, base, f), o) = InsertOrder(Fold(kind, z, base, f), o) BY DEF Turn, kind
  <2> QED BY <2>1, <2>2, <2>3 DEF kind, z
<1>10. BookInv(b, rows, ids) /\ b.cfg = cfg BY DEF InsertsTo
<1> HIDE DEF b, c, ids, o
<1>11. BookInv(c, rows, ids \cup {i}) /\ c.cfg = cfg
  BY <1>3, <1>4, <1>6, <1>7, <1>9, <1>10, <1>12, InsertBook
<1> QED BY <1>8, <1>11 DEF InsertsTo, c

\* All the orders of a rebuild.
LEMMA Inserts ==
  ASSUME NEW rows, NEW cfg \in Configs, NEW q, NEW n, n \in Nat, OpenSeq(rows, q, n)
  PROVE  InsertsTo(rows, cfg, q, n)
<1> DEFINE B == {k \in 0..n : ~InsertsTo(rows, cfg, q, k)}
<1>1. InsertsTo(rows, cfg, q, 0)
  <2> DEFINE f == First(q, 0)
             kind == "insert"
             z == 0
             base == EmptyBook(cfg)
             ids == Ids(q, 0)
  <2>1. DOMAIN f = {} /\ ids = {}
    <3>1. 1..0 = {} BY SMT
    <3> QED BY <3>1 DEF First, Ids
  <2>2. BookInv(base, rows, {}) /\ base.cfg = cfg BY EmptyBookInv
  <2> HIDE DEF f, kind, z, base, ids
  <2>3. Fold(kind, z, base, f) = base BY <2>1, FoldNone
  <2>4. BookInv(Fold(kind, z, base, f), rows, ids) /\ Fold(kind, z, base, f).cfg = cfg BY <2>1, <2>2, <2>3
  <2> QED BY <2>4 DEF InsertsTo, f, kind, z, base, ids
<1>2. B = {}
  <2> SUFFICES ASSUME B # {} PROVE FALSE OBVIOUS
  <2>1. B \subseteq Nat OBVIOUS
  <2>2. PICK k \in B : \A m \in B : k =< m
    <3> HIDE DEF B
    <3> QED BY <2>1, Least
  <2>3. k # 0 /\ k \in Nat /\ k =< n BY <1>1
  <2> DEFINE m == k - 1
  <2>4. m \in 0..n /\ m \in Nat /\ m < k /\ m + 1 = k /\ m < n BY <2>3
  <2> HIDE DEF m
  <2>5. m \notin B
    <3> HIDE DEF B
    <3> QED BY <2>2, <2>3, <2>4
  <2>6. InsertsTo(rows, cfg, q, m) BY <2>4, <2>5
  <2>7. InsertsTo(rows, cfg, q, m + 1) BY <2>4, <2>6, InsertTurn
  <2> QED BY <2>2, <2>4, <2>7
<1> QED BY <1>2

\* The rows that a restart reads.
LEMMA OpenSet ==
  ASSUME NEW s, RowsInv(orders, s)
  PROVE  LET open == {RestingRow(o) : o \in OpenOrders} IN
         /\ open = {RestingRow(orders[i]) : i \in OpenIn(orders)}
         /\ IsFiniteSet(open) /\ Sequenced(open)
<1> DEFINE open == {RestingRow(o) : o \in OpenOrders}
           ids == OpenIn(orders)
           n == Len(orders)
           f == [i \in ids |-> RestingRow(orders[i])]
<1>1. orders \in Seq(Row) /\ n \in Nat /\ DOMAIN orders = 1..n BY DEF RowsInv
<1>2. OpenOrders = {orders[i] : i \in ids}
  <2>1. ToSet(orders) = {orders[i] : i \in DOMAIN orders} BY DEF ToSet
  <2> QED BY <2>1 DEF OpenOrders, OpenIn
<1>3. open = {RestingRow(orders[i]) : i \in ids} BY <1>2
<1> HIDE DEF open, n
<1>4. IsFiniteSet(open)
  <2>1. ids \subseteq 1..n BY <1>1 DEF OpenIn
  <2>2. IsFiniteSet(1..n) BY <1>1, FS_Interval
  <2>3. IsFiniteSet(ids) BY <2>1, <2>2, FS_Subset
  <2>4. f \in Surjection(ids, open) BY <1>3 DEF Surjection
  <2> HIDE DEF f, ids
  <2> QED BY <2>3, <2>4, FS_Surjection
<1>5. \A i \in ids : RestingRow(orders[i]).seq = orders[i].seq /\ orders[i].seq \in Nat
  <2> TAKE i \in ids
  <2>1. orders[i] \in Row BY <1>1 DEF OpenIn
  <2>2. orders[i].seq \in Nat BY <2>1 DEF Row
  <2> QED BY <2>2, RestingParts
<1>6. \A i, j \in ids : orders[i].seq = orders[j].seq => i = j BY DEF RowsInv
<1>7. Sequenced(open) BY <1>3, <1>5, <1>6 DEF Sequenced
<1> QED BY <1>3, <1>4, <1>7 DEF open

\* A rebuilt book holds the open rows.
LEMMA RebuiltBook ==
  ASSUME seq \in Nat, RowsInv(orders, seq), NEW cfg \in Configs
  PROVE  /\ BookInv(Rebuilt(cfg), orders, OpenIn(orders))
         /\ Rebuilt(cfg).cfg = cfg /\ Rebuilt(cfg).lastSeq = seq
<1> DEFINE open == {RestingRow(o) : o \in OpenOrders}
           ids == OpenIn(orders)
           n == Cardinality(open)
           q == BySeq(open)
           base == EmptyBook(cfg)
           b == FoldLeft(InsertOrder, base, q)
<1>1. open = {RestingRow(orders[i]) : i \in ids} /\ IsFiniteSet(open) /\ Sequenced(open) BY OpenSet
<1> DEFINE highest == IF open = {} THEN 0 ELSE q[Len(q)].seq
<1>2. Rebuilt(cfg) = Advance(b, IF highest > seq THEN highest ELSE seq)
  <2> DEFINE k == IF highest > seq THEN highest ELSE seq
  <2>1. Rebuilt(cfg) = [b EXCEPT !.lastSeq = k] BY DEF Rebuilt, Restore
  <2> HIDE DEF k, b
  <2>2. Rebuilt(cfg) = Advance(b, k) BY <2>1 DEF Advance
  <2> QED BY <2>2 DEF k
<1> HIDE DEF open
<1>3. BySeqIs(open, q, n) BY <1>1, BySeqParts
<1> HIDE DEF q, n, ids, base
<1>4. n \in Nat /\ q \in [1..n -> open] /\ (\A o \in open : \E i \in 1..n : q[i] = o)
      /\ (\A i, j \in 1..n : q[i] = q[j] => i = j) /\ DOMAIN q = 1..n
      /\ (\A i, j \in 1..n : i < j => q[i].seq < q[j].seq)
  BY <1>3 DEF BySeqIs, Ascending
<1>14. highest \in Nat /\ highest =< seq
  <2>1. CASE open = {} BY <2>1
  <2>2. CASE open # {}
    <3>1. n > 0
      <4>1. PICK i \in 1..n : TRUE BY <1>4, <2>2
      <4> QED BY <1>4, <4>1
    <3>2. q \in Seq(open) /\ Len(q) = n BY <1>4
    <3>3. q[n] \in open BY <1>4, <3>1
    <3>4. PICK i \in ids : q[n] = RestingRow(orders[i]) BY <1>1, <3>3 DEF ids
    <3>5. orders[i] \in Row /\ orders[i].seq =< seq BY DEF RowsInv, OpenIn, ids
    <3>6. orders[i].seq \in Nat BY <3>5 DEF Row
    <3>7. q[n].seq = orders[i].seq BY <3>4, RestingParts
    <3> QED BY <2>2, <3>2, <3>5, <3>6, <3>7
  <2> QED BY <2>1, <2>2
<1>15. Rebuilt(cfg) = Advance(b, seq)
  <2> HIDE DEF highest, b
  <2>1. ~(highest > seq) BY <1>14
  <2> QED BY <1>2, <2>1
<1>5. RowsAre(orders, ids) BY OpenRows DEF ids
<1>6. OpenSeq(orders, q, n)
  <2>1. \A i \in 1..n : \E j \in ids : q[i] = RestingRow(orders[j])
    <3>1. \A i \in 1..n : q[i] \in open BY <1>4
    <3> QED BY <1>1, <3>1
  <2> QED BY <1>4, <1>5, <2>1 DEF OpenSeq, ids
<1>7. InsertsTo(orders, cfg, q, n) BY <1>4, <1>6, Inserts
<1>8. b = Fold("insert", 0, base, q) BY <1>4, InsertFold
<1>9. First(q, n) = q BY <1>4 DEF First
<1>10. Ids(q, n) = ids
  <2>1. \A j \in ids : RestingRow(orders[j]).id = j
    <3> TAKE j \in ids
    <3>1. RestingRow(orders[j]).id = orders[j].id BY RestingParts
    <3> QED BY <1>5, <3>1 DEF RowsAre
  <2>2. \A i \in 1..n : \E j \in ids : q[i].id = j
    <3> TAKE i \in 1..n
    <3>1. q[i] \in open BY <1>4
    <3> QED BY <1>1, <2>1, <3>1
  <2>3. \A j \in ids : \E i \in 1..n : q[i].id = j
    <3> TAKE j \in ids
    <3>1. RestingRow(orders[j]) \in open BY <1>1
    <3> QED BY <1>4, <2>1, <3>1
  <2> DEFINE A == Ids(q, n)
  <2>4. A = {q[i].id : i \in 1..n} BY DEF Ids
  <2> HIDE DEF A
  <2>5. \A j : j \in A <=> j \in ids BY <2>2, <2>3, <2>4
  <2>6. A = ids BY ONLY <2>5
  <2> QED BY <2>6 DEF A
<1> HIDE DEF b
<1>11. BookInv(b, orders, ids) /\ b.cfg = cfg BY <1>7, <1>8, <1>9, <1>10 DEF InsertsTo, base
<1>13. BookInv(Advance(b, seq), orders, ids) /\ Advance(b, seq).lastSeq = seq /\ Advance(b, seq).cfg = cfg
  <2>1. \A i \in ids : orders[i] = orders[i] OBVIOUS
  <2>2. IsFiniteSet(ids) BY <1>5 DEF RowsAre
  <2> QED BY <1>11, <2>1, <2>2, BookStays
<1> QED BY <1>13, <1>15 DEF ids, b

-----------------------------------------------------------------------------
(* The inductive invariant.                                                *)

\* What the registry knows of the market.
Entry(r) == r = [cfg |-> r.cfg, status |-> r.status] /\ r.cfg \in Configs

IInv ==
  /\ seq \in Nat
  /\ Entry(reg) /\ Entry(cache)
  /\ Kept(seq, orders, bal, revenue)
  /\ runner = "running" => BookInv(book, orders, OpenIn(orders)) /\ book.lastSeq = seq
  /\ trades \in Seq(TradeRow) /\ BookFine(book)

\* An empty book is one that no rows explain.
LEMMA EmptyFine == BookFine(EmptyBook(InitConfig))
<1> DEFINE none == << >>
           b == EmptyBook(InitConfig)
<1>1. none \in Seq(Row) /\ DOMAIN none = {} OBVIOUS
<1>2. OpenIn(none) = {}
  <2> HIDE DEF none
  <2> QED BY <1>1 DEF OpenIn
<1>3. BookInv(b, none, OpenIn(none))
  <2>1. InitConfig \in Configs BY MarketAssumption
  <2> QED BY <1>2, <2>1, EmptyBookInv
<1> HIDE DEF none, b
<1>4. RowsInv(none, 0) /\ Uncrossed(none) BY <1>1, <1>2 DEF RowsInv, Uncrossed
<1>5. Explained(b, none, 0) BY <1>3, <1>4 DEF Explained
<1> QED BY <1>5 DEF BookFine, b

\* A new market: nothing held, nothing earned.
LEMMA InitKept ==
  ASSUME Init
  PROVE  IInv
<1> DEFINE none == << >>
           z == 0
           deposits(a) == [x \in Assets |-> [avail |-> Funds[a][x], hold |-> z]]
<1>1. /\ orders = none /\ seq = z /\ bal = [a \in Accounts |-> deposits(a)]
      /\ revenue = [base |-> z, quote |-> z] /\ reg = [cfg |-> InitConfig, status |-> "active"] /\ cache = reg
      /\ book = EmptyBook(InitConfig) /\ trades = none
  BY DEF Init
<1>2. none \in Seq(Row) /\ none \in Seq(TradeRow) /\ DOMAIN none = {} BY SMTT(60)
<1>3. InitConfig \in Configs BY MarketAssumption
<1>4. Entry(reg) /\ Entry(cache)
  <2> DEFINE c == InitConfig
             s == "active"
  <2>1. reg = [cfg |-> c, status |-> s] /\ cache = reg /\ c \in Configs BY <1>1, <1>3
  <2> HIDE DEF c, s
  <2> QED BY ONLY <2>1 DEF Entry
<1>5. z \in Nat OBVIOUS
<1> HIDE DEF none, z
<1>6. OpenIn(orders) = {} BY <1>1, <1>2 DEF OpenIn
<1>7. RowsInv(orders, seq) BY <1>1, <1>2, <1>6 DEF RowsInv
<1>8. BookInv(book, orders, OpenIn(orders)) /\ book.lastSeq = seq
  <2>1. EmptyBook(InitConfig).lastSeq = 0 BY DEF EmptyBook
  <2> QED BY <1>1, <1>3, <1>6, <2>1, EmptyBookInv DEF z
<1>9. \A i \in DOMAIN orders : Covered(orders[i]) BY <1>1, <1>2
<1>10. \A a \in Accounts, x \in Assets : bal[a][x] = [avail |-> Funds[a][x], hold |-> z] /\ Funds[a][x] \in Nat
  BY <1>1, FundsAssumption
<1>11. \A a \in Accounts, x \in Assets :
         bal[a][x].avail = Funds[a][x] /\ bal[a][x].hold = z /\ bal[a][x].avail \in Nat
  <2> TAKE a \in Accounts, x \in Assets
  <2> DEFINE d == Funds[a][x]
             m == bal[a][x]
  <2>1. m = [avail |-> d, hold |-> z] /\ d \in Nat BY <1>10
  <2> HIDE DEF d, m
  <2>2. m.avail = d /\ m.hold = z BY ONLY <2>1
  <2> QED BY <2>1, <2>2 DEF d, m
<1>12. bal \in Balances
  <2>1. \A a \in Accounts, x \in Assets : [avail |-> Funds[a][x], hold |-> z] \in [avail : Int, hold : Int]
    <3> TAKE a \in Accounts, x \in Assets
    <3> DEFINE d == Funds[a][x]
    <3>1. d \in Int
      <4>1. d \in Nat BY FundsAssumption
      <4> HIDE DEF d
      <4> QED BY <4>1
    <3> HIDE DEF d
    <3>2. [avail |-> d, hold |-> z] \in [avail : Int, hold : Int] BY <1>5, <3>1
    <3> QED BY <3>2 DEF d
  <2>2. \A a \in Accounts : deposits(a) \in [Assets -> [avail : Int, hold : Int]] BY <2>1
  <2> HIDE DEF deposits
  <2> QED BY <1>1, <2>2 DEF Balances
<1>13. revenue \in Revenues BY <1>1, <1>5 DEF Revenues
<1>14. HoldsInv(orders, bal)
  <2> SUFFICES ASSUME NEW a \in Accounts, NEW x \in Assets
               PROVE  bal[a][x].hold = SumOf(HeldBy(orders, a, x), DOMAIN orders)
    BY DEF HoldsInv
  <2>1. SumOf(HeldBy(orders, a, x), {}) = 0 BY FS_EmptySet, SumRec
  <2> QED BY <1>1, <1>2, <1>11, <2>1 DEF z
<1>15. Solvent(bal)
  <2>1. \A v \in Nat : v >= 0 OBVIOUS
  <2> QED BY ONLY <1>11, <2>1 DEF Solvent
<1>16. \A x \in Assets : Total(bal, revenue, x) = Deposited(x)
  <2> TAKE x \in Assets
  <2> DEFINE g == Owned(bal, x)
             h == [a \in Accounts |-> Funds[a][x]]
  <2>1. IsFiniteSet(Accounts) BY FundsAssumption
  <2>2. \A a \in Accounts : g[a] = h[a] /\ h[a] \in Int
    <3> TAKE a \in Accounts
    <3>1. g[a] = bal[a][x].avail + bal[a][x].hold BY DEF Owned
    <3>2. h[a] = Funds[a][x] OBVIOUS
    <3>3. Funds[a][x] \in Nat /\ bal[a][x].avail = Funds[a][x] /\ bal[a][x].hold = 0 BY <1>10, <1>11 DEF z
    <3> HIDE DEF g, h
    <3> QED BY <3>1, <3>2, <3>3
  <2>3. revenue[x] = 0
    <3>1. revenue.base = z /\ revenue.quote = z BY ONLY <1>1
    <3> QED BY <3>1 DEF Assets, z
  <2> HIDE DEF g, h
  <2>4. SumOf(g, Accounts) = SumOf(h, Accounts) BY <2>1, <2>2, SumSame
  <2>5. SumOf(h, Accounts) \in Int BY <2>1, <2>2, SumInt
  <2>6. SumOf(g, Accounts) + revenue[x] = SumOf(h, Accounts) BY <2>3, <2>4, <2>5
  <2> QED BY <2>6 DEF Total, Deposited, g, h
<1>17. MoneyInv(orders, bal, revenue) BY <1>12, <1>13, <1>14, <1>16 DEF MoneyInv
<1>19. Uncrossed(orders) BY <1>6 DEF Uncrossed
<1>18. Kept(seq, orders, bal, revenue) BY <1>7, <1>9, <1>15, <1>17, <1>19 DEF Kept
<1>20. trades \in Seq(TradeRow) /\ BookFine(book) BY <1>1, <1>2, EmptyFine
<1> QED BY <1>1, <1>4, <1>5, <1>8, <1>18, <1>20 DEF IInv

-----------------------------------------------------------------------------
(* Every step.                                                             *)

\* What a placed order leaves: all in step, or a book to rebuild and nothing written.
LEMMA PlaceKeeps ==
  ASSUME IInv, NEW a \in Accounts, NEW in \in Inputs, Place(a, in)
  PROVE  \/ runner' = "dirty" /\ BookFine(book') /\ UNCHANGED <<admin, seq, orders, money>>
         \/ UNCHANGED <<admin, runner>> /\ Done
<1>1. Ready BY DEF IInv, Kept, Ready, Place
<1>2. CASE PolicyReject(a, in) \/ InsufficientReject(a, in) \/ BookReject(a, in)
  <2>1. Done BY <1>1, <1>2, PlaceRejects
  <2>2. UNCHANGED <<admin, runner>> BY <1>2 DEF PolicyReject, InsufficientReject, BookReject
  <2> QED BY <2>1, <2>2
<1>3. CASE Accept(a, in)
  <2>1. Done BY <1>1, <1>3, AcceptKeeps
  <2>2. UNCHANGED <<admin, runner>> BY <1>3 DEF Accept
  <2> QED BY <2>1, <2>2
<1>4. CASE SettleFails(a, in)
  <2>1. BookFine(book') BY <1>1, <1>4, FailKeeps
  <2>2. runner' = "dirty" /\ UNCHANGED <<admin, seq, orders, money>> BY <1>4 DEF SettleFails
  <2> QED BY <2>1, <2>2
<1> QED BY <1>2, <1>3, <1>4 DEF Place

\* A command that is done leaves the invariant.
LEMMA DoneKeeps ==
  ASSUME IInv, Done, UNCHANGED <<admin, runner>>
  PROVE  IInv'
<1>1. RowsInv(orders', seq') /\ Uncrossed(orders') /\ BookInv(book', orders', OpenIn(orders')) BY DEF Done, Kept
<1>2. BookFine(book')
  <2>1. Explained(book', orders', seq') BY <1>1 DEF Explained
  <2> QED BY <2>1 DEF BookFine
<1> QED BY <1>2 DEF IInv, Done, admin, Entry

\* The rows, the balances and the sequence as they are.
LEMMA RestKeeps ==
  ASSUME IInv, Entry(reg'), Entry(cache'), UNCHANGED <<seq, orders, money>>, BookFine(book'),
         runner' = "running" => BookInv(book', orders', OpenIn(orders')) /\ book'.lastSeq = seq'
  PROVE  IInv'
BY DEF IInv, money, Entry

\* Every step keeps the invariant.
LEMMA StepKeeps ==
  ASSUME IInv, [Next]_vars
  PROVE  IInv'
<1>1. /\ seq \in Nat /\ Entry(reg) /\ Entry(cache) /\ RowsInv(orders, seq)
      /\ (runner = "running" => BookInv(book, orders, OpenIn(orders)) /\ book.lastSeq = seq)
  BY DEF IInv, Kept
<1>2. reg.cfg \in Configs /\ cache.cfg \in Configs BY <1>1 DEF Entry
<1>12. BookFine(book) BY DEF IInv
<1>13. ASSUME NEW cfg \in Configs PROVE BookFine(Rebuilt(cfg))
  <2>1. BookInv(Rebuilt(cfg), orders, OpenIn(orders)) BY <1>1, RebuiltBook
  <2>2. Uncrossed(orders) BY DEF IInv, Kept
  <2> DEFINE b == Rebuilt(cfg)
  <2> HIDE DEF b
  <2>3. Explained(b, orders, seq) BY <1>1, <2>1, <2>2 DEF Explained, b
  <2> QED BY <2>3 DEF BookFine, b
<1>3. ASSUME NEW a \in Accounts, NEW in \in Inputs, Place(a, in) PROVE IInv'
  <2>1. CASE runner' = "dirty" /\ BookFine(book') /\ UNCHANGED <<admin, seq, orders, money>>
    <3>1. Entry(reg') /\ Entry(cache') BY <1>1, <2>1 DEF admin, Entry
    <3> QED BY <2>1, <3>1, RestKeeps
  <2>2. CASE UNCHANGED <<admin, runner>> /\ Done BY <2>2, DoneKeeps
  <2> QED BY <1>3, <2>1, <2>2, PlaceKeeps
<1>4. ASSUME NEW id \in DOMAIN orders, Cancel(id) PROVE IInv'
  <2>1. Ready BY <1>4 DEF IInv, Kept, Ready, Cancel
  <2>2. Done BY <1>4, <2>1, CancelKeeps
  <2>3. UNCHANGED <<admin, runner>> BY <1>4 DEF Cancel
  <2> QED BY <2>2, <2>3, DoneKeeps
<1>5. CASE Rebuild
  <2>1. book' = Rebuilt(cache.cfg) /\ UNCHANGED <<admin, seq, orders, money>> BY <1>5 DEF Rebuild
  <2>2. BookInv(Rebuilt(cache.cfg), orders, OpenIn(orders)) /\ Rebuilt(cache.cfg).lastSeq = seq
    BY <1>1, <1>2, RebuiltBook
  <2>3. Entry(reg') /\ Entry(cache') BY <1>1, <2>1 DEF admin, Entry
  <2>4. BookFine(book') BY <1>2, <1>13, <2>1
  <2> QED BY <2>1, <2>2, <2>3, <2>4, RestKeeps
<1>6. CASE Reload
  <2>1. /\ cache' = reg /\ reg' = reg /\ UNCHANGED <<seq, orders, money>>
        /\ \/ book' = Rebuilt(reg.cfg)
           \/ UNCHANGED <<book, runner>>
    BY <1>6 DEF Reload
  <2>2. BookInv(Rebuilt(reg.cfg), orders, OpenIn(orders)) /\ Rebuilt(reg.cfg).lastSeq = seq
    BY <1>1, <1>2, RebuiltBook
  <2>3. runner' = "running" => BookInv(book', orders', OpenIn(orders')) /\ book'.lastSeq = seq' BY <1>1, <2>1, <2>2
  <2>4. Entry(reg') /\ Entry(cache') BY <1>1, <2>1 DEF Entry
  <2>5. BookFine(book') BY <1>2, <1>12, <1>13, <2>1
  <2> QED BY <2>1, <2>3, <2>4, <2>5, RestKeeps
<1>7. CASE Crash
  <2>1. runner' = "down" /\ book' = EmptyBook(InitConfig) /\ UNCHANGED <<admin, seq, orders, money>>
    BY <1>7 DEF Crash
  <2>2. Entry(reg') /\ Entry(cache') BY <1>1, <2>1 DEF admin, Entry
  <2>3. BookFine(book') BY <2>1, EmptyFine
  <2> QED BY <2>1, <2>2, <2>3, RestKeeps
<1>8. ASSUME NEW s \in Statuses, SetMarketStatus(s) PROVE IInv'
  <2>1. reg' = [reg EXCEPT !.status = s] /\ UNCHANGED <<cache, runner, book, seq, orders, money>>
    BY <1>8 DEF SetMarketStatus
  <2>2. Entry(reg')
    <3> DEFINE r == reg
               c == r.cfg
               t == r.status
    <3>1. r = [cfg |-> c, status |-> t] /\ c \in Configs BY <1>1 DEF Entry
    <3> HIDE DEF r, c, t
    <3>2. [r EXCEPT !.status = s] = [cfg |-> c, status |-> s] BY ONLY <3>1
    <3>3. Entry([r EXCEPT !.status = s]) BY ONLY <3>1, <3>2 DEF Entry
    <3> QED BY <2>1, <3>3 DEF r
  <2>3. Entry(cache') BY <1>1, <2>1 DEF Entry
  <2> QED BY <1>1, <1>12, <2>1, <2>2, <2>3, RestKeeps
<1>9. ASSUME NEW d \in Configs, UpdateMarket(d) PROVE IInv'
  <2>1. reg' = [reg EXCEPT !.cfg = d] /\ UNCHANGED <<cache, runner, book, seq, orders, money>>
    BY <1>9 DEF UpdateMarket
  <2>2. Entry(reg')
    <3> DEFINE r == reg
               c == r.cfg
               t == r.status
    <3>1. r = [cfg |-> c, status |-> t] BY <1>1 DEF Entry
    <3> HIDE DEF r, c, t
    <3>2. [r EXCEPT !.cfg = d] = [cfg |-> d, status |-> t] BY ONLY <3>1
    <3>3. d \in Configs OBVIOUS
    <3>4. Entry([r EXCEPT !.cfg = d]) BY ONLY <3>2, <3>3 DEF Entry
    <3> QED BY <2>1, <3>4 DEF r
  <2>3. Entry(cache') BY <1>1, <2>1 DEF Entry
  <2> QED BY <1>1, <1>12, <2>1, <2>2, <2>3, RestKeeps
<1>10. ASSUME NEW a \in Freezable, SetAccountStatus(a) PROVE IInv'
  <2>1. UNCHANGED <<reg, cache, runner, book, seq, orders, money>> BY <1>10 DEF SetAccountStatus
  <2>2. Entry(reg') /\ Entry(cache') BY <1>1, <2>1 DEF Entry
  <2> QED BY <1>1, <1>12, <2>1, <2>2, RestKeeps
<1>11. CASE UNCHANGED vars
  <2>1. UNCHANGED <<reg, cache, runner, book, seq, orders, money>> BY <1>11 DEF vars, money
  <2>2. Entry(reg') /\ Entry(cache') BY <1>1, <2>1 DEF Entry
  <2> QED BY <1>1, <1>12, <2>1, <2>2, RestKeeps
<1> QED BY SMTT(60), <1>3, <1>4, <1>5, <1>6, <1>7, <1>8, <1>9, <1>10, <1>11 DEF Next

\* The invariant holds in every state: the rows, the balances and the fees agree,
\* and so does the book of a running market with the open rows, over any sequence of
\* orders, cancels, failed settlements, reloads, crashes and administrator writes.
THEOREM Inductive == Spec => []IInv
<1>1. Init => IInv BY InitKept
<1>2. IInv /\ [Next]_vars => IInv' BY StepKeeps
<1> QED BY <1>1, <1>2, PTL DEF Spec

-----------------------------------------------------------------------------
(* What the invariant says of the rows and the money.                      *)

\* The sum of HoldsExact is one over a function.
LEMMA HeldSum ==
  ASSUME NEW T, IsFiniteSet(T)
  PROVE  Sum(T, LAMBDA o : o.holdRemaining) = SumOf([o \in T |-> o.holdRemaining], T)
<1> DEFINE g == [o \in T |-> o.holdRemaining]
           P(it) == it = [s \in SUBSET T |-> IF s = {} THEN 0 ELSE Pick(s).holdRemaining + it[s \ {Pick(s)}]]
<1>1. \A s \in SUBSET T : s # {} => g[Pick(s)] = Pick(s).holdRemaining BY PickIn
<1>2. ASSUME NEW it PROVE P(it) <=> Sums(g, T, it)
  <2>1. [s \in SUBSET T |-> IF s = {} THEN 0 ELSE Pick(s).holdRemaining + it[s \ {Pick(s)}]]
        = [s \in SUBSET T |-> IF s = {} THEN 0 ELSE g[Pick(s)] + it[s \ {Pick(s)}]]
    <3> HIDE DEF g
    <3> QED BY <1>1
  <2> HIDE DEF g
  <2> QED BY <2>1, Zenon DEF Sums
<1>3. Sum(T, LAMBDA o : o.holdRemaining) = (CHOOSE it : P(it))[T]
  BY Zenon DEF Sum, MapThenSumSet, MapThenFoldSet, Pick
<1>4. SumOf(g, T) = (CHOOSE it : Sums(g, T, it))[T] BY SumDef
<1> HIDE DEF P
<1>5. \E it : Sums(g, T, it) BY SumsExist
<1>6. P(CHOOSE it : P(it)) BY <1>2, <1>5, Zenon
<1>7. Sums(g, T, CHOOSE it : P(it)) BY <1>2, <1>6, Zenon
<1>8. Sums(g, T, CHOOSE it : Sums(g, T, it)) BY <1>5, Zenon
<1>9. (CHOOSE it : P(it)) = (CHOOSE it : Sums(g, T, it)) BY <1>7, <1>8, SumsUnique
<1> QED BY <1>3, <1>4, <1>9 DEF g

\* So is what the accounts own.
LEMMA OwnedSum ==
  ASSUME NEW T, IsFiniteSet(T), T = Accounts, NEW x
  PROVE  Sum(T, LAMBDA a : bal[a][x].avail + bal[a][x].hold) = SumOf(Owned(bal, x), T)
<1> DEFINE g == Owned(bal, x)
           v(a) == bal[a][x].avail + bal[a][x].hold
           P(it) == it = [s \in SUBSET T |-> IF s = {} THEN 0 ELSE v(Pick(s)) + it[s \ {Pick(s)}]]
<1>1. \A s \in SUBSET T : s # {} => g[Pick(s)] = v(Pick(s)) BY PickIn DEF Owned
<1>2. ASSUME NEW it PROVE P(it) <=> Sums(g, T, it)
  <2>1. [s \in SUBSET T |-> IF s = {} THEN 0 ELSE v(Pick(s)) + it[s \ {Pick(s)}]]
        = [s \in SUBSET T |-> IF s = {} THEN 0 ELSE g[Pick(s)] + it[s \ {Pick(s)}]]
    <3> HIDE DEF g, v
    <3> QED BY <1>1
  <2> HIDE DEF g, v
  <2> QED BY <2>1, Zenon DEF Sums
<1>3. Sum(T, LAMBDA a : bal[a][x].avail + bal[a][x].hold) = (CHOOSE it : P(it))[T]
  BY Zenon DEF Sum, MapThenSumSet, MapThenFoldSet, Pick
<1> HIDE DEF g
<1>4. SumOf(g, T) = (CHOOSE it : Sums(g, T, it))[T] BY SumDef
<1> HIDE DEF P
<1>5. \E it : Sums(g, T, it) BY SumsExist
<1>6. P(CHOOSE it : P(it)) BY <1>2, <1>5, Zenon
<1>7. Sums(g, T, CHOOSE it : P(it)) BY <1>2, <1>6, Zenon
<1>8. Sums(g, T, CHOOSE it : Sums(g, T, it)) BY <1>5, Zenon
<1>9. (CHOOSE it : P(it)) = (CHOOSE it : Sums(g, T, it)) BY <1>7, <1>8, SumsUnique
<1> QED BY <1>3, <1>4, <1>9 DEF g

\* And what was deposited.
LEMMA DepositSum ==
  ASSUME NEW T, IsFiniteSet(T), T = Accounts, NEW x
  PROVE  Sum(T, LAMBDA a : Funds[a][x]) = SumOf([a \in T |-> Funds[a][x]], T)
<1> DEFINE g == [a \in T |-> Funds[a][x]]
           P(it) == it = [s \in SUBSET T |-> IF s = {} THEN 0 ELSE Funds[Pick(s)][x] + it[s \ {Pick(s)}]]
<1>1. \A s \in SUBSET T : s # {} => g[Pick(s)] = Funds[Pick(s)][x] BY PickIn
<1>2. ASSUME NEW it PROVE P(it) <=> Sums(g, T, it)
  <2>1. [s \in SUBSET T |-> IF s = {} THEN 0 ELSE Funds[Pick(s)][x] + it[s \ {Pick(s)}]]
        = [s \in SUBSET T |-> IF s = {} THEN 0 ELSE g[Pick(s)] + it[s \ {Pick(s)}]]
    <3> HIDE DEF g
    <3> QED BY <1>1
  <2> HIDE DEF g
  <2> QED BY <2>1, Zenon DEF Sums
<1>3. Sum(T, LAMBDA a : Funds[a][x]) = (CHOOSE it : P(it))[T]
  BY Zenon DEF Sum, MapThenSumSet, MapThenFoldSet, Pick
<1> HIDE DEF g
<1>4. SumOf(g, T) = (CHOOSE it : Sums(g, T, it))[T] BY SumDef
<1> HIDE DEF P
<1>5. \E it : Sums(g, T, it) BY SumsExist
<1>6. P(CHOOSE it : P(it)) BY <1>2, <1>5, Zenon
<1>7. Sums(g, T, CHOOSE it : P(it)) BY <1>2, <1>6, Zenon
<1>8. Sums(g, T, CHOOSE it : Sums(g, T, it)) BY <1>5, Zenon
<1>9. (CHOOSE it : P(it)) = (CHOOSE it : Sums(g, T, it)) BY <1>7, <1>8, SumsUnique
<1> QED BY <1>3, <1>4, <1>9 DEF g

\* A sum over the images of a set.
LEMMA SumImage ==
  ASSUME NEW S, IsFiniteSet(S), NEW f, \A i, j \in S : f[i] = f[j] => i = j, NEW g, NEW h,
         \A i \in S : h[i] = g[f[i]] /\ h[i] \in Int
  PROVE  LET I == {f[i] : i \in S} IN IsFiniteSet(I) /\ SumOf(g, I) = SumOf(h, S)
<1> DEFINE img(T) == {f[i] : i \in T}
           B == {T \in SUBSET S : ~(IsFiniteSet(img(T)) /\ SumOf(g, img(T)) = SumOf(h, T))}
<1>1. ASSUME B # {} PROVE FALSE
  <2>1. PICK T \in B : \A U \in B : U \subseteq T => U = T
    <3>1. B \subseteq SUBSET S /\ IsFiniteSet(S) OBVIOUS
    <3> HIDE DEF B
    <3> QED BY ONLY <1>1, <3>1, Minimal
  <2>2. T \subseteq S /\ ~(IsFiniteSet(img(T)) /\ SumOf(g, img(T)) = SumOf(h, T)) BY <2>1
  <2>3. IsFiniteSet(T) BY <2>2, FS_Subset
  <2>4. T # {}
    <3>1. SUFFICES ASSUME T = {} PROVE FALSE OBVIOUS
    <3>2. img(T) = {} BY <3>1
    <3>3. SumOf(g, {}) = 0 /\ SumOf(h, {}) = 0 /\ IsFiniteSet({}) BY FS_EmptySet, SumRec
    <3> HIDE DEF img
    <3> QED BY <2>2, <3>1, <3>2, <3>3
  <2>5. PICK x \in T : TRUE BY <2>4
  <2> DEFINE U == T \ {x}
             y == f[x]
  <2>6. U \notin B
    <3>1. U \subseteq T /\ U # T OBVIOUS
    <3> HIDE DEF B, U
    <3> QED BY <2>1, <3>1
  <2>7. IsFiniteSet(img(U)) /\ SumOf(g, img(U)) = SumOf(h, U) BY <2>2, <2>6
  <2>8. img(T) = img(U) \cup {y} /\ y \notin img(U) BY <2>2
  <2>9. SumOf(h, T) = h[x] + SumOf(h, U) BY <2>2, <2>3, SumSplit
  <2>10. \A z \in img(T) : g[z] \in Int BY <2>2
  <2>11. h[x] = g[y] BY <2>2
  <2> DEFINE I == img(U)
  <2> HIDE DEF img, y, U
  <2>12. IsFiniteSet(I) /\ y \notin I /\ img(T) = I \cup {y} /\ \A z \in I \cup {y} : g[z] \in Int
    BY <2>7, <2>8, <2>10
  <2> HIDE DEF I
  <2>13. SumOf(g, I \cup {y}) = g[y] + SumOf(g, I) BY ONLY <2>12, SumAdd
  <2>14. IsFiniteSet(I \cup {y}) BY <2>12, FS_AddElement
  <2>15. SumOf(g, I) = SumOf(h, U) BY <2>7 DEF I
  <2> HIDE DEF B
  <2> QED BY ONLY <2>2, <2>9, <2>11, <2>12, <2>13, <2>14, <2>15
<1> HIDE DEF B
<1>2. B = {} BY <1>1
<1> QED BY <1>2 DEF B

\* An account's hold in an asset, by orders instead of by row numbers.
LEMMA HeldByRows ==
  ASSUME IInv, NEW a \in Accounts, NEW x \in Assets
  PROVE  SumOf(HeldBy(orders, a, x), DOMAIN orders)
           = Sum({o \in ToSet(orders) : o.acct = a /\ HoldAsset(o) = x}, LAMBDA o : o.holdRemaining)
<1> DEFINE D == DOMAIN orders
           h == HeldBy(orders, a, x)
           I == {i \in D : orders[i].acct = a /\ HoldAsset(orders[i]) = x}
           J == D \ I
           S == {o \in ToSet(orders) : o.acct = a /\ HoldAsset(o) = x}
           g == [o \in S |-> o.holdRemaining]
<1>1. orders \in Seq(Row) /\ \A i \in DOMAIN orders : orders[i].id = i BY DEF IInv, Kept, RowsInv
<1>2. /\ IsFiniteSet(D)
      /\ \A i \in D : h[i] = (IF i \in I THEN orders[i].holdRemaining ELSE 0) /\ h[i] \in Int
  BY <1>1, HeldInt
<1>3. D = I \cup J /\ I \cap J = {} /\ I \subseteq D /\ J \subseteq D OBVIOUS
<1>4. IsFiniteSet(I) /\ IsFiniteSet(J) BY <1>2, <1>3, FS_Subset
<1>5. S = {orders[i] : i \in I} BY DEF ToSet
<1>6. \A i, j \in I : orders[i] = orders[j] => i = j BY <1>1
<1>7. \A i \in I : h[i] = g[orders[i]] /\ h[i] \in Int
  <2>1. \A i \in I : orders[i] \in S BY <1>5
  <2>2. \A o \in S : g[o] = o.holdRemaining OBVIOUS
  <2> HIDE DEF g, S, h
  <2> QED BY <1>2, <2>1, <2>2
<1> HIDE DEF g, h, D
<1>8. SumOf(h, D) = SumOf(h, I) + SumOf(h, J)
  <2> HIDE DEF I, J
  <2>1. \A i \in I \cup J : h[i] \in Int BY <1>2, <1>3
  <2>2. SumOf(h, I \cup J) = SumOf(h, I) + SumOf(h, J) BY <1>3, <1>4, <2>1, SumDisjoint
  <2> QED BY <1>3, <2>2
<1>9. SumOf(h, J) = 0
  <2>1. \A i \in J : h[i] = 0 BY <1>2
  <2> HIDE DEF J
  <2> QED BY <1>4, <2>1, SumZero
<1> HIDE DEF I, S
<1>10. SumOf(h, I) \in Int BY <1>4, <1>7, SumInt
<1>11. IsFiniteSet(S) /\ SumOf(g, S) = SumOf(h, I) BY <1>4, <1>5, <1>6, <1>7, SumImage
<1>12. Sum(S, LAMBDA o : o.holdRemaining) = SumOf(g, S) BY <1>11, HeldSum DEF g
<1>13. SumOf(h, D) = Sum(S, LAMBDA o : o.holdRemaining) BY <1>8, <1>9, <1>10, <1>11, <1>12
<1> QED BY <1>13 DEF h, D, S

\* HoldsExact: in every state an account's hold is the sum of what its rows hold,
\* and no account overdraws (walkPlace, walkCancel).
THEOREM HoldsAlwaysExact == Spec => []HoldsExact
<1>1. IInv => HoldsExact
  <2> SUFFICES ASSUME IInv, NEW a \in Accounts, NEW x \in Assets
               PROVE  /\ bal[a][x].avail >= 0
                      /\ bal[a][x].hold = Sum({o \in ToSet(orders) : o.acct = a /\ HoldAsset(o) = x},
                                              LAMBDA o : o.holdRemaining)
    BY DEF HoldsExact
  <2>1. bal[a][x].avail >= 0 BY DEF IInv, Kept, Solvent
  <2>2. bal[a][x].hold = SumOf(HeldBy(orders, a, x), DOMAIN orders) BY DEF IInv, Kept, MoneyInv, HoldsInv
  <2> QED BY <2>1, <2>2, HeldByRows
<1> QED BY <1>1, Inductive, PTL

\* HoldCoversRemaining: in every state an open order holds what its rest can cost
\* at its limit, and an ended one nothing (BuildSettleEntry, walkPlace, walkCancel).
THEOREM HoldAlwaysCovers == Spec => []HoldCoversRemaining
<1>1. IInv => HoldCoversRemaining
  <2>1. ToSet(orders) = {orders[i] : i \in DOMAIN orders} BY DEF ToSet
  <2>2. IInv => \A i \in DOMAIN orders : Covered(orders[i]) BY DEF IInv, Kept
  <2> QED BY <2>1, <2>2 DEF HoldCoversRemaining, Covered
<1> QED BY <1>1, Inductive, PTL

\* Conserved: in every state what accounts own and the fees add up to what was
\* deposited (BuildSettleEntry, walkPlace).
THEOREM AlwaysConserved == Spec => []Conserved
<1>1. IInv => Conserved
  <2> SUFFICES ASSUME IInv, NEW x \in Assets
               PROVE  Sum(Accounts, LAMBDA a : bal[a][x].avail + bal[a][x].hold) + revenue[x]
                        = Sum(Accounts, LAMBDA a : Funds[a][x])
    BY DEF Conserved
  <2>1. Total(bal, revenue, x) = Deposited(x) BY DEF IInv, Kept, MoneyInv
  <2>2. IsFiniteSet(Accounts) BY FundsAssumption
  <2>3. Sum(Accounts, LAMBDA a : bal[a][x].avail + bal[a][x].hold) = SumOf(Owned(bal, x), Accounts)
    BY <2>2, OwnedSum
  <2>4. Sum(Accounts, LAMBDA a : Funds[a][x]) = SumOf([a \in Accounts |-> Funds[a][x]], Accounts)
    BY <2>2, DepositSum
  <2> QED BY <2>1, <2>3, <2>4 DEF Total, Deposited
<1> QED BY <1>1, Inductive, PTL

-----------------------------------------------------------------------------
(* What it says of the book.                                               *)

\* No order is older than one that is older than it.
LEMMA OlderAsymmetric == Asymmetric(RestRow, Older)
<1> SUFFICES ASSUME NEW x \in RestRow, NEW y \in RestRow, <<x, y>> \in Older PROVE <<y, x>> \notin Older
  BY DEF Asymmetric
<1>1. x.seq \in Nat /\ y.seq \in Nat BY DEF RestRow
<1>2. x.seq < y.seq BY DEF Older
<1>3. ~(y.seq < x.seq) BY <1>1, <1>2
<1> QED BY <1>3 DEF Older

\* Rows determine a level, a side and a book.
LEMMA LevelSame ==
  ASSUME NEW side, NEW p, NEW l, NEW k, NEW rows, NEW ids,
         LevelInv(side, p, l, rows, ids), LevelInv(side, p, k, rows, ids)
  PROVE  l = k
<1> DEFINE f == l.orders
           g == k.orders
           u == l.qty
           v == k.qty
<1>1. l = [orders |-> f, qty |-> u] /\ k = [orders |-> g, qty |-> v] /\ u = v BY DEF LevelInv
<1>2. f \in Seq(RestRow) /\ g \in Seq(RestRow) /\ InOrder(Older, f) /\ InOrder(Older, g) /\ ToSet(f) = ToSet(g)
  BY DEF LevelInv
<1> HIDE DEF f, g, u, v
<1>3. f = g BY <1>2, OlderAsymmetric, SameOrder
<1> QED BY ONLY <1>1, <1>3

\* Two sides of the same rows are one.
LEMMA SideSame ==
  ASSUME NEW side, NEW s, NEW t, NEW rows, NEW ids, SideInv(side, s, rows, ids), SideInv(side, t, rows, ids)
  PROVE  s = t
<1> DEFINE f == s.prices
           g == t.prices
           u == s.levels
           v == t.levels
           P == ToSet(f)
<1>1. s = [prices |-> f, levels |-> u] /\ t = [prices |-> g, levels |-> v] BY DEF SideInv
<1>2. /\ f \in Seq(Nat) /\ g \in Seq(Nat) /\ InOrder(Ahead(side), f) /\ InOrder(Ahead(side), g)
      /\ ToSet(f) = ToSet(g)
  BY DEF SideInv
<1>3. /\ u = [p \in P |-> u[p]] /\ v = [p \in ToSet(g) |-> v[p]]
      /\ (\A p \in P : LevelInv(side, p, u[p], rows, ids))
      /\ (\A p \in ToSet(g) : LevelInv(side, p, v[p], rows, ids))
  BY DEF SideInv
<1> HIDE DEF f, g, u, v
<1>4. f = g BY <1>2, AheadAsymmetric, SameOrder
<1>5. \A p \in P : u[p] = v[p] BY <1>2, <1>3, LevelSame
<1>6. u = v BY <1>2, <1>3, <1>5
<1> QED BY ONLY SMTT(60), <1>1, <1>4, <1>6

\* Two books of the same rows, configuration and sequence are one.
LEMMA BookSame ==
  ASSUME NEW b, NEW c, NEW rows, NEW ids, BookInv(b, rows, ids), BookInv(c, rows, ids),
         b.cfg = c.cfg, b.lastSeq = c.lastSeq
  PROVE  b = c
<1> DEFINE n == b.lastSeq
           f == b.cfg
           u == b.buy
           v == b.sell
           y == c.buy
           z == c.sell
<1>1. /\ b = [cfg |-> f, buy |-> u, sell |-> v, byID |-> ids, lastSeq |-> n]
      /\ c = [cfg |-> c.cfg, buy |-> y, sell |-> z, byID |-> ids, lastSeq |-> c.lastSeq]
      /\ c.cfg = f /\ c.lastSeq = n
  BY DEF BookInv
<1>2. u = y /\ v = z BY SideSame DEF BookInv
<1> HIDE DEF n, f, u, v, y, z
<1> QED BY ONLY <1>1, <1>2

\* RestoreFaithful: while a runner runs, its book is the one a restart would build
\* from the rows, to the last queue position (Book.Apply, Book.Restore).
THEOREM RestoreAlwaysFaithful == Spec => []RestoreFaithful
<1>1. IInv => RestoreFaithful
  <2> SUFFICES ASSUME IInv, runner = "running" PROVE book = Rebuilt(book.cfg) BY DEF RestoreFaithful
  <2>1. /\ seq \in Nat /\ RowsInv(orders, seq) /\ BookInv(book, orders, OpenIn(orders)) /\ book.lastSeq = seq
        /\ book.cfg \in Configs
    BY DEF IInv, Kept, BookInv
  <2> DEFINE c == Rebuilt(book.cfg)
  <2>2. BookInv(c, orders, OpenIn(orders)) /\ c.cfg = book.cfg /\ c.lastSeq = seq BY <2>1, RebuiltBook
  <2> HIDE DEF c
  <2>3. book = c BY <2>1, <2>2, BookSame
  <2> QED BY <2>3 DEF c
<1> QED BY <1>1, Inductive, PTL

\* The quantities of a sequence of orders, added from the first to the last.
LeftIn(q) == [j \in DOMAIN q |-> q[j].remaining]
AddsTo(q, k) == Fold("add", 0, 0, First(q, k)) = SumOf(LeftIn(q), 1..k)

\* One order more of a level.
LEMMA AddTurn ==
  ASSUME NEW q, NEW n, n \in Nat, DOMAIN q = 1..n, \A j \in 1..n : q[j].remaining \in Nat,
         NEW k, k \in Nat, k < n, AddsTo(q, k)
  PROVE  AddsTo(q, k + 1)
<1> DEFINE f == First(q, k)
           g == First(q, k + 1)
           w == LeftIn(q)
           kind == "add"
           z == 0
           m == k + 1
<1>1. m \in 1..n /\ k + 1 = m /\ (\A i \in 1..k : i \in 1..n /\ i # m) /\ 1..m = (1..k) \cup {m} OBVIOUS
<1>2. DOMAIN g = 1..k + 1 /\ DOMAIN f = 1..k /\ (\A i \in 1..k : g[i] = f[i]) /\ g[k + 1] = q[m] BY DEF First
<1>3. \A i \in 1..n : w[i] = q[i].remaining /\ w[i] \in Int BY DEF LeftIn
<1>4. IsFiniteSet(1..k)
  <2>1. 1 \in Int /\ k \in Int OBVIOUS
  <2> QED BY ONLY <2>1, FS_Interval, Zenon
<1> HIDE DEF f, g, w, kind, z
<1>5. Fold(kind, z, z, g) = Turn(kind, z, Fold(kind, z, z, f), g[k + 1]) BY <1>2, FoldLast
<1>6. Turn(kind, z, Fold(kind, z, z, f), q[m]) = Fold(kind, z, z, f) + q[m].remaining BY DEF Turn, kind
<1>7. Fold(kind, z, z, f) = SumOf(w, 1..k) BY DEF AddsTo, f, w, kind, z
<1>8. m \notin 1..k /\ (\A y \in (1..k) \cup {m} : w[y] \in Int) BY <1>1, <1>3
<1> DEFINE S == 1..k
<1>9. SumOf(w, 1..m) = w[m] + SumOf(w, 1..k)
  <2>1. IsFiniteSet(S) /\ m \notin S /\ (\A y \in S \cup {m} : w[y] \in Int) /\ 1..m = S \cup {m}
    BY <1>1, <1>4, <1>8
  <2> HIDE DEF S, m
  <2>2. SumOf(w, S \cup {m}) = w[m] + SumOf(w, S) BY ONLY <2>1, SumAdd
  <2> QED BY ONLY <2>1, <2>2 DEF S
<1>10. SumOf(w, 1..k) \in Int
  <2>1. \A y \in S : w[y] \in Int BY <1>8
  <2> HIDE DEF S
  <2> QED BY <1>4, <2>1, SumInt DEF S
<1>11. Fold(kind, z, z, g) = SumOf(w, 1..m)
  <2>1. w[m] = q[m].remaining /\ w[m] \in Int BY <1>1, <1>3
  <2> DEFINE a == SumOf(w, 1..k)
             c == Fold(kind, z, z, g)
             d == SumOf(w, 1..m)
             e == w[m]
  <2>2. c = a + q[m].remaining BY <1>2, <1>5, <1>6, <1>7
  <2>3. d = e + a /\ a \in Int /\ e = q[m].remaining /\ e \in Int BY <1>9, <1>10, <2>1
  <2> HIDE DEF a, c, d, e
  <2>4. c = d BY ONLY <2>2, <2>3
  <2> QED BY <2>4 DEF c, d
<1> QED BY <1>11 DEF AddsTo, g, w, kind, z

\* All the orders of a level.
LEMMA Adds ==
  ASSUME NEW q, NEW n, n \in Nat, DOMAIN q = 1..n, \A j \in 1..n : q[j].remaining \in Nat
  PROVE  AddsTo(q, n)
<1> DEFINE B == {k \in 0..n : ~AddsTo(q, k)}
<1>1. AddsTo(q, 0)
  <2> DEFINE f == First(q, 0)
             kind == "add"
             z == 0
             w == LeftIn(q)
             none == 1..0
  <2>1. DOMAIN f = {} /\ none = {}
    <3>1. 1..0 = {} BY SMT
    <3> QED BY <3>1 DEF First
  <2>2. SumOf(w, {}) = 0 BY FS_EmptySet, SumRec
  <2> HIDE DEF f, kind, z, none, w
  <2>3. Fold(kind, z, z, f) = z BY <2>1, FoldNone
  <2>4. SumOf(w, none) = z BY <2>1, <2>2 DEF z
  <2> QED BY <2>3, <2>4 DEF AddsTo, f, kind, z, none, w
<1>2. B = {}
  <2> SUFFICES ASSUME B # {} PROVE FALSE OBVIOUS
  <2>1. B \subseteq Nat OBVIOUS
  <2>2. PICK k \in B : \A m \in B : k =< m
    <3> HIDE DEF B
    <3> QED BY <2>1, Least
  <2>3. k # 0 /\ k \in Nat /\ k =< n BY <1>1
  <2> DEFINE m == k - 1
  <2>4. m \in 0..n /\ m \in Nat /\ m < k /\ m + 1 = k /\ m < n BY <2>3
  <2> HIDE DEF m
  <2>5. m \notin B
    <3> HIDE DEF B
    <3> QED BY <2>2, <2>3, <2>4
  <2>6. AddsTo(q, m) BY <2>4, <2>5
  <2>7. AddsTo(q, m + 1) BY <2>4, <2>6, AddTurn
  <2> QED BY <2>2, <2>4, <2>7
<1> QED BY <1>2

\* A level knows what its orders add up to.
LEMMA LevelAdds ==
  ASSUME NEW side, NEW p, NEW lvl, NEW rows, NEW ids, LevelInv(side, p, lvl, rows, ids), RowsAre(rows, ids)
  PROVE  lvl.qty = LevelQty(lvl)
<1> DEFINE q == lvl.orders
           n == Len(q)
           A == At(rows, ids, side, p)
           w == LeftIn(q)
           f == [j \in 1..n |-> q[j].id]
           g == [i \in A |-> rows[i].remaining]
<1>1. q \in Seq(RestRow) /\ Distinct(q) /\ ToSet(q) = {RestingRow(rows[i]) : i \in A} /\ lvl.qty = SumOf(g, A)
  BY DEF LevelInv, Left
<1>2. n \in Nat /\ DOMAIN q = 1..n /\ (\A j \in 1..n : q[j] \in RestRow) BY <1>1
<1>3. \A j \in 1..n : q[j].remaining \in Nat BY <1>2 DEF RestRow
<1>4. \A i \in A : RestingRow(rows[i]).id = i /\ RestingRow(rows[i]).remaining = rows[i].remaining
  <2> TAKE i \in A
  <2>1. rows[i].id = i BY DEF RowsAre, At
  <2> QED BY <2>1, RestingParts
<1>5. \A j \in 1..n : \E i \in A : q[j] = RestingRow(rows[i])
  <2> TAKE j \in 1..n
  <2>1. q[j] \in ToSet(q) BY <1>2 DEF ToSet
  <2> QED BY <1>1, <2>1
<1>6. \A i \in A : \E j \in 1..n : q[j] = RestingRow(rows[i])
  <2> TAKE i \in A
  <2>1. RestingRow(rows[i]) \in ToSet(q) BY <1>1
  <2> QED BY <1>2, <2>1 DEF ToSet
<1> HIDE DEF q, n, A
<1>7. \A j \in 1..n : f[j] \in A /\ q[j] = RestingRow(rows[f[j]]) BY <1>4, <1>5
<1>8. {f[j] : j \in 1..n} = A
  <2>1. \A i \in A : \E j \in 1..n : f[j] = i
    <3> TAKE i \in A
    <3>1. PICK j \in 1..n : q[j] = RestingRow(rows[i]) BY <1>6
    <3>2. f[j] = i BY <1>4, <3>1
    <3> QED BY <3>2
  <2> HIDE DEF f
  <2> QED BY <1>7, <2>1
<1>9. \A i, j \in 1..n : f[i] = f[j] => i = j
  <2> TAKE i, j \in 1..n
  <2> HAVE f[i] = f[j]
  <2>1. q[i] = q[j] BY <1>7
  <2> QED BY <1>1, <1>2, <2>1 DEF Distinct
<1>10. \A j \in 1..n : w[j] = g[f[j]] /\ w[j] \in Int
  <2> TAKE j \in 1..n
  <2>1. w[j] = q[j].remaining BY <1>2 DEF LeftIn
  <2>2. f[j] \in A /\ q[j].remaining = rows[f[j]].remaining BY <1>4, <1>7
  <2> QED BY <1>3, <2>1, <2>2
<1>11. IsFiniteSet(1..n)
  <2>1. 1 \in Int /\ n \in Int BY <1>2
  <2> QED BY ONLY <2>1, FS_Interval, Zenon
<1>12. SumOf(g, A) = SumOf(w, 1..n)
  <2> DEFINE S == 1..n
  <2>1. IsFiniteSet(S) /\ (\A i, j \in S : f[i] = f[j] => i = j) /\ (\A j \in S : w[j] = g[f[j]] /\ w[j] \in Int)
        /\ {f[j] : j \in S} = A
    BY <1>8, <1>9, <1>10, <1>11
  <2> HIDE DEF S, f, g, w
  <2>2. LET I == {f[j] : j \in S} IN IsFiniteSet(I) /\ SumOf(g, I) = SumOf(w, S) BY ONLY <2>1, SumImage
  <2> QED BY <2>1, <2>2 DEF S
<1>13. AddsTo(q, n) BY <1>2, <1>3, Adds
<1>14. First(q, n) = q BY <1>1, <1>2 DEF First
<1>15. LevelQty(lvl) = Fold("add", 0, 0, q)
  <2> DEFINE z == 0
  <2> HIDE DEF z
  <2>1. FoldLeft(LAMBDA acc, o : acc + o.remaining, z, q) = Fold("add", 0, z, q) BY <1>2, AddFold
  <2> QED BY <2>1 DEF LevelQty, q, z
<1> QED BY <1>1, <1>12, <1>13, <1>14, <1>15 DEF AddsTo

\* A side in order, whose levels know what they hold.
SideFine(side, s) == SideSorted(side, s) /\ \A p \in DOMAIN s.levels : s.levels[p].qty = LevelQty(s.levels[p])

\* The side of some rows is in order.
LEMMA SideIsFine ==
  ASSUME NEW side, NEW s, NEW rows, NEW ids, SideInv(side, s, rows, ids), RowsAre(rows, ids)
  PROVE  SideFine(side, s)
<1> DEFINE P == ToSet(s.prices)
<1>1. /\ s.prices \in Seq(Nat) /\ InOrder(Ahead(side), s.prices)
      /\ P = {rows[i].price : i \in OfSide(rows, ids, side)}
      /\ s.levels = [p \in P |-> s.levels[p]]
      /\ \A p \in P : LevelInv(side, p, s.levels[p], rows, ids)
  BY DEF SideInv
<1>2. DOMAIN s.levels = P
  <2> DEFINE lv == s.levels
  <2>1. lv = [p \in P |-> lv[p]] BY <1>1
  <2> HIDE DEF lv, P
  <2> QED BY <2>1 DEF lv
<1>3. \A i, j \in DOMAIN s.prices : i < j => Better(side, s.prices[i], s.prices[j]) BY <1>1 DEF InOrder, Ahead
<1>4. ASSUME NEW p \in P PROVE /\ s.levels[p].qty = LevelQty(s.levels[p]) /\ s.levels[p].orders # << >>
                               /\ \A i, j \in DOMAIN s.levels[p].orders :
                                    i < j => s.levels[p].orders[i].seq < s.levels[p].orders[j].seq
  <2> DEFINE lvl == s.levels[p]
             q == lvl.orders
  <2>1. LevelInv(side, p, lvl, rows, ids) BY <1>1, <1>4
  <2>2. q \in Seq(RestRow) /\ InOrder(Older, q) /\ ToSet(q) = {RestingRow(rows[i]) : i \in At(rows, ids, side, p)}
    BY <2>1 DEF LevelInv
  <2>3. At(rows, ids, side, p) # {} BY <1>1, <1>4 DEF At, OfSide
  <2>4. lvl.qty = LevelQty(lvl) BY <2>1, LevelAdds
  <2> HIDE DEF lvl, q
  <2>5. q # << >> BY <2>2, <2>3, SeqParts
  <2>6. \A i, j \in DOMAIN q : i < j => q[i].seq < q[j].seq BY <2>2 DEF InOrder, Older
  <2> QED BY <2>4, <2>5, <2>6 DEF lvl, q
<1>5. ToSet(s.prices) = DOMAIN s.levels BY <1>2
<1> HIDE DEF P
<1>6. SideSorted(side, s) BY <1>2, <1>3, <1>4, <1>5 DEF SideSorted
<1> QED BY <1>2, <1>4, <1>6 DEF SideFine

\* A book that rows explain is in order.
LEMMA FineBook ==
  ASSUME NEW b, BookFine(b)
  PROVE  /\ SideFine("buy", b.buy) /\ SideFine("sell", b.sell)
         /\ b.byID = {o.id : o \in Resting(b)} /\ ~Crossed(b)
<1>1. PICK rows, s : Explained(b, rows, s) BY DEF BookFine
<1> DEFINE ids == OpenIn(rows)
<1>2. RowsInv(rows, s) /\ Uncrossed(rows) /\ BookInv(b, rows, ids) BY <1>1 DEF Explained
<1>3. RowsAre(rows, ids) BY <1>2, OpenRows
<1>4. SideInv("buy", b.buy, rows, ids) /\ SideInv("sell", b.sell, rows, ids) BY <1>2 DEF BookInv
<1>5. b.byID = ids
  <2> DEFINE u == b.buy
             v == b.sell
             c == b.cfg
             n == b.lastSeq
  <2>1. b = [cfg |-> c, buy |-> u, sell |-> v, byID |-> ids, lastSeq |-> n] BY <1>2 DEF BookInv
  <2> HIDE DEF u, v, c, n, ids
  <2> QED BY <2>1
<1> HIDE DEF ids
<1>6. SideFine("buy", b.buy) BY <1>3, <1>4, SideIsFine
<1>7. SideFine("sell", b.sell) BY SMTT(60), <1>3, <1>4, SideIsFine
<1>8. OrdersOf(b.buy) = {RestingRow(rows[j]) : j \in OfSide(rows, ids, "buy")} BY <1>4, SideOrders
<1>9. OrdersOf(b.sell) = {RestingRow(rows[j]) : j \in OfSide(rows, ids, "sell")} BY <1>4, SideOrders
<1>10. \A j \in ids : rows[j].side \in Sides /\ RestingRow(rows[j]).id = j
  <2> TAKE j \in ids
  <2>1. rows[j] \in Row /\ rows[j].id = j BY <1>3 DEF RowsAre
  <2>2. RestingRow(rows[j]).id = rows[j].id BY RestingParts
  <2> QED BY <2>1, <2>2 DEF Row
<1>11. Resting(b) = {RestingRow(rows[j]) : j \in ids}
  <2>1. \A o \in Resting(b) : \E j \in ids : o = RestingRow(rows[j]) BY <1>8, <1>9 DEF Resting, OfSide
  <2>2. \A j \in ids : RestingRow(rows[j]) \in Resting(b) BY <1>8, <1>9, <1>10 DEF Resting, OfSide, Sides
  <2> QED BY <2>1, <2>2
<1>12. b.byID = {o.id : o \in Resting(b)} BY <1>5, <1>10, <1>11
<1>13. ~Crossed(b)
  <2> SUFFICES ASSUME b.buy.prices # << >>, b.sell.prices # << >> PROVE ~(BestPrice(b.buy) >= BestPrice(b.sell))
    BY DEF Crossed
  <2> DEFINE B == b.buy
             S == b.sell
             buy == "buy"
             sell == "sell"
  <2>1. B.prices # << >> /\ S.prices # << >> /\ SideInv(buy, B, rows, ids) /\ SideInv(sell, S, rows, ids) BY <1>4
  <2> HIDE DEF B, S, buy, sell
  <2>2. PICK i \in ids : HeadInv(buy, B, rows, ids, i) BY <2>1, HeadOfSide
  <2>3. PICK j \in ids : HeadInv(sell, S, rows, ids, j) BY <2>1, HeadOfSide
  <2>4. rows[i].side = "buy" /\ rows[j].side = "sell" /\ rows[i].price = BestPrice(B) /\ rows[j].price = BestPrice(S)
    BY <2>2, <2>3 DEF HeadInv, buy, sell
  <2>5. rows[i].price < rows[j].price BY <1>2, <2>4 DEF Uncrossed, ids
  <2>6. rows[i].price \in Nat /\ rows[j].price \in Nat BY <1>3 DEF RowsAre, Row
  <2> QED BY <2>4, <2>5, <2>6 DEF B, S
<1> QED BY <1>6, <1>7, <1>12, <1>13

\* BookWellFormed: the book is in order in every state, also the one a failed
\* command leaves behind; no change to it moves prices, levels, quantities or the
\* id index without the others (bookSide.insert, remove, popHead, dropLevel).
THEOREM BookAlwaysWellFormed == Spec => []BookWellFormed
<1>1. IInv => BookWellFormed
  <2> SUFFICES ASSUME IInv PROVE BookWellFormed OBVIOUS
  <2>1. BookFine(book) BY DEF IInv
  <2>2. /\ SideFine("buy", book.buy) /\ SideFine("sell", book.sell)
        /\ book.byID = {o.id : o \in Resting(book)} /\ ~Crossed(book)
    BY <2>1, FineBook
  <2> QED BY <2>2 DEF SideFine, BookWellFormed
<1> QED BY <1>1, Inductive, PTL

-----------------------------------------------------------------------------
(* What it says of a step.                                                 *)

\* What an accepted command did: the match, its row's end and what it wrote.
AcceptedIs(row) ==
  /\ row \in Row /\ row.id = Len(orders) + 1 /\ StartedIs(row, Started(row).rows)
  /\ orders' = NextRows(row) /\ book' = AnswerTo(row).book /\ trades' = SettledOf(row).trades
  /\ Ended(book, row, seq, BandOf(row), Started(row).rows, Len(trades), MatchOf(row), SettledOf(row))
  /\ TakerEnds(row, EndRowOf(row))
  /\ RowEnded(SettledOf(row).rows, row.id, seq, EndRowOf(row), NextRows(row))

\* Accept does what AcceptedIs says.
LEMMA AcceptedParts ==
  ASSUME Ready, NEW a \in Accounts, NEW in \in Inputs, Accept(a, in)
  PROVE  AcceptedIs(NewRow(a, in))
<1> DEFINE row == NewRow(a, in)
           r == AnswerTo(row)
           x == SettledOf(row)
           next == NextRows(row)
           b == NextBal(row)
<1>1. /\ Funded(a, row) /\ r.kind # "rejected" /\ book' = r.book
      /\ orders' = Outcome(row, r).rows /\ trades' = Outcome(row, r).trades
  BY DEF Accept, AnswerTo
<1>2. Placed(row) BY <1>1, PlacedParts
<1>3. orders \in Seq(Row) BY DEF Ready, RowsInv
<1>4. NewRowIs(row, a, in) BY <1>3, NewRowParts
<1>5. StartedIs(row, Started(row).rows) BY StartedRows
<1> HIDE DEF row
<1>6. /\ Ended(book, row, seq, BandOf(row), Started(row).rows, Len(trades), MatchOf(row), x)
      /\ Outcome(row, r) = [rows |-> next, bal |-> b, revenue |-> x.revenue, trades |-> x.trades, failed |-> x.failed]
      /\ TakerEnds(row, EndRowOf(row)) /\ RowEnded(x.rows, row.id, seq, EndRowOf(row), next)
  BY <1>2 DEF Placed
<1>7. row \in Row /\ row.id = Len(orders) + 1 BY <1>4 DEF NewRowIs
<1> HIDE DEF r, x, next, b
<1>8. orders' = next /\ trades' = x.trades BY <1>1, <1>6
<1>9. AcceptedIs(row) BY <1>1, <1>5, <1>6, <1>7, <1>8 DEF AcceptedIs, r, x, next
<1> QED BY <1>9 DEF row

\* Only an accepted command trades.
LEMMA TradeStep ==
  ASSUME IInv, [Next]_vars, NewTrades # {}
  PROVE  Ready /\ \E a \in Accounts, in \in Inputs : AcceptedIs(NewRow(a, in))
<1>1. trades \in Seq(TradeRow) BY DEF IInv
<1>2. trades' # trades
  <2> SUFFICES ASSUME trades' = trades PROVE FALSE OBVIOUS
  <2> DEFINE n == Len(trades)
  <2>1. n \in Nat BY <1>1
  <2>2. n + 1..n = {} BY SMTT(60), <2>1
  <2> QED BY <2>2 DEF NewTrades
<1>3. \E a \in Accounts, in \in Inputs : Place(a, in)
  BY <1>2 DEF Next, vars, Cancel, Rebuild, Reload, Crash, SetMarketStatus, UpdateMarket, SetAccountStatus, money
<1>4. PICK a \in Accounts, in \in Inputs : Place(a, in) BY <1>3
<1>5. Ready BY <1>4 DEF IInv, Kept, Ready, Place
<1>6. Accept(a, in) BY <1>2, <1>4 DEF Place, PolicyReject, InsufficientReject, BookReject, SettleFails, money
<1>7. AcceptedIs(NewRow(a, in)) BY <1>5, <1>6, AcceptedParts
<1> QED BY <1>5, <1>7

\* What a new trade is of.
NewTradeIs(row, t) ==
  /\ AcceptedIs(row) /\ FairTrade(row, book.cfg, BandOf(row), Started(row).rows, SettledOf(row).rows, t)
  /\ t.maker \in OpenIn(orders) /\ orders[t.maker] = Started(row).rows[t.maker] /\ t.taker = row.id
  /\ orders'[row.id] = EndRowOf(row) /\ TakerEnds(row, EndRowOf(row))

\* A new trade is a fill of the accepted command.
LEMMA NewTradeOf ==
  ASSUME IInv, [Next]_vars, NEW t \in NewTrades
  PROVE  \E row : NewTradeIs(row, t)
<1>1. Ready /\ \E a \in Accounts, in \in Inputs : AcceptedIs(NewRow(a, in)) BY TradeStep
<1>2. PICK row : AcceptedIs(row) BY <1>1
<1> DEFINE x == SettledOf(row)
           rows == Started(row).rows
           n == Len(trades)
<1>3. /\ Fair(row, book.cfg, BandOf(row), rows, n, x) /\ trades' = x.trades /\ StartedIs(row, rows)
      /\ RowEnded(x.rows, row.id, seq, EndRowOf(row), NextRows(row)) /\ orders' = NextRows(row)
      /\ TakerEnds(row, EndRowOf(row))
  BY <1>2 DEF AcceptedIs, Ended
<1>4. PICK j \in n + 1..Len(trades') : t = trades'[j] BY DEF NewTrades
<1>5. FairTrade(row, book.cfg, BandOf(row), rows, x.rows, t) BY <1>3, <1>4 DEF Fair
<1>6. t.maker \in OpenIn(rows) /\ t.taker = row.id BY <1>5 DEF FairTrade
<1>7. t.maker \in OpenIn(orders) /\ orders[t.maker] = rows[t.maker] BY <1>3, <1>6 DEF StartedIs, OpenIn
<1>8. orders'[row.id] = EndRowOf(row) BY <1>3 DEF RowEnded
<1>9. NewTradeIs(row, t) BY SMTT(60), <1>2, <1>3, <1>5, <1>6, <1>7, <1>8 DEF NewTradeIs
<1> QED BY <1>9

\* Whose turn it was.
LEMMA TradeInOrder ==
  ASSUME IInv, NEW row, NEW t, NewTradeIs(row, t), NEW o, o \in OpenOrders, o.side = orders[t.maker].side,
         Better(o.side, o.price, orders[t.maker].price)
         \/ (o.price = orders[t.maker].price /\ o.seq < orders[t.maker].seq)
  PROVE  orders'[o.id].status = "filled"
<1> DEFINE x == SettledOf(row)
           rows == Started(row).rows
           m == rows[t.maker]
<1>1. /\ AcceptedIs(row) /\ FairTrade(row, book.cfg, BandOf(row), rows, x.rows, t) /\ orders[t.maker] = m
  BY DEF NewTradeIs
<1>2. /\ StartedIs(row, rows) /\ RowEnded(x.rows, row.id, seq, EndRowOf(row), NextRows(row)) /\ orders' = NextRows(row)
      /\ Since(rows, x.rows)
  BY <1>1 DEF AcceptedIs, Ended, Fair
<1>3. RowsInv(orders, seq) BY DEF IInv, Kept
<1>4. PICK k \in DOMAIN orders : o = orders[k] BY DEF OpenOrders, ToSet
<1>5. k \in OpenIn(orders) /\ o.id = k
  <2>1. Open(o) BY DEF OpenOrders
  <2> QED BY <1>3, <1>4, <2>1 DEF OpenIn, RowsInv
<1>6. k \in OpenIn(rows) /\ rows[k] = o /\ k # row.id BY <1>2, <1>4, <1>5 DEF StartedIs
<1>7. rows[k].side = m.side /\ Before(m.side, rows[k], m) BY SMTT(60), <1>1, <1>6 DEF Before
<1>8. \A i \in OpenIn(rows) : rows[i].side = m.side /\ Before(m.side, rows[i], m) => x.rows[i].status = "filled"
  BY <1>1 DEF FairTrade
<1> HIDE DEF m, rows, x
<1>9. x.rows[k].status = "filled" BY <1>6, <1>7, <1>8
<1>10. k \in DOMAIN x.rows BY <1>2, <1>6 DEF Since, OpenIn
<1>11. orders'[k] = x.rows[k] BY SMTT(60), <1>2, <1>6, <1>10 DEF RowEnded
<1> QED BY <1>5, <1>9, <1>11

\* Price-time priority, the maker's price and the taker's limit, and no trade
\* between orders of one account where the market forbids it.
TradeFair(t) ==
  LET m     == orders[t.maker]
      taker == orders'[t.taker]
      ahead == {o \in OpenOrders : o.side = m.side /\
                  (Better(o.side, o.price, m.price) \/ (o.price = m.price /\ o.seq < m.seq))}
  IN  /\ t.price = m.price
      /\ book.cfg.selfTrade = "cancel_newest" => m.acct # taker.acct
      /\ taker.type = "limit" => Crosses(taker.side, taker.price, t.price)
      /\ \A o \in ahead : orders'[o.id].status = "filled"

\* Every new trade is fair.
LEMMA TradesFair ==
  ASSUME IInv, [Next]_vars, NEW t \in NewTrades
  PROVE  TradeFair(t)
<1>1. PICK row : NewTradeIs(row, t) BY NewTradeOf
<1> DEFINE m == orders[t.maker]
           taker == orders'[t.taker]
           e == EndRowOf(row)
<1>2. /\ FairTrade(row, book.cfg, BandOf(row), Started(row).rows, SettledOf(row).rows, t)
      /\ m = Started(row).rows[t.maker] /\ taker = e /\ TakerEnds(row, e)
  BY <1>1 DEF NewTradeIs
<1>3. \A o \in OpenOrders : o.side = m.side /\
        (Better(o.side, o.price, m.price) \/ (o.price = m.price /\ o.seq < m.seq)) => orders'[o.id].status = "filled"
  BY <1>1, TradeInOrder
<1>4. e.acct = row.acct /\ e.side = row.side /\ e.type = row.type /\ e.price = row.price BY <1>2 DEF TakerEnds
<1>5. /\ t.price = m.price /\ (book.cfg.selfTrade = "cancel_newest" => m.acct # row.acct)
      /\ (row.type = "limit" => Crosses(row.side, row.price, t.price))
  BY <1>2 DEF FairTrade
<1> QED BY SMTT(60), <1>2, <1>3, <1>4, <1>5 DEF TradeFair

\* PriceTimePriority: fills come in price-time order, at the maker's price and within
\* the taker's limit, whatever commands, failures and restarts came before
\* (Book.match).
THEOREM AlwaysPriceTimePriority == Spec => PriceTimePriority
<1>1. IInv /\ [Next]_vars => [\A t \in NewTrades : TradeFair(t)]_vars BY TradesFair
<1>2. Spec => [][\A t \in NewTrades : TradeFair(t)]_vars BY <1>1, Inductive, PTL DEF Spec
<1> QED BY <1>2, PTL DEF PriceTimePriority, TradeFair

\* The band, without the division.
LEMMA BandSpread ==
  ASSUME NEW side \in {"buy", "sell"}, NEW best \in Nat, NEW bps \in Nat, NEW price \in Nat, bps # NoLimit,
         ~OutsideBand(side, best, bps, price)
  PROVE  10000 * (IF side = "buy" THEN price - best ELSE best - price) =< bps * best
<1> DEFINE v == bps * best
<1>1. v \in Nat /\ best * (10000 + bps) = best * 10000 + v /\ best * (10000 - bps) = best * 10000 - v BY Z3
<1> HIDE DEF v
<1>2. CASE side = "buy"
  <2>1. ~(price * 10000 > best * 10000 + v) BY <1>1, <1>2 DEF OutsideBand
  <2>2. 10000 * (price - best) =< v BY <1>1, <2>1
  <2> QED BY <1>2, <2>2 DEF v
<1>3. CASE side = "sell"
  <2>1. ~(price * 10000 < best * 10000 - v) BY <1>1, <1>3 DEF OutsideBand
  <2>2. 10000 * (best - price) =< v BY <1>1, <2>1
  <2> QED BY <1>3, <2>2 DEF v
<1> QED BY <1>2, <1>3

\* A slippage cap is a number of basis points.
LEMMA SlippageNat ==
  ASSUME NEW cfg, ConfigOK(cfg) PROVE cfg.maxSlippageBps = NoLimit \/ cfg.maxSlippageBps \in Nat
<1> DEFINE m == cfg.maxSlippageBps
           n == 10000
<1>1. m = NoLimit \/ m \in 1..n BY SMT DEF ConfigOK
<1>2. n \in Nat OBVIOUS
<1> HIDE DEF m, n
<1>3. m = NoLimit \/ m \in Nat BY ONLY <1>1, <1>2
<1> QED BY ONLY SMTT(60), <1>3 DEF m

\* A market order's trades stay within the band and its budget.
TradeBanded(t) ==
  LET taker == orders'[t.taker]
      best  == BestPrice(book[Opposite(taker.side)])
      worse == IF taker.side = "buy" THEN t.price - best ELSE best - t.price
      slip  == book.cfg.maxSlippageBps
  IN  taker.type = "market" =>
        /\ slip # NoLimit => 10000 * worse =< slip * best
        /\ MarketBuy(taker) => taker.filledQuote =< taker.quoteQty

\* Every new trade is in the band.
LEMMA TradesBanded ==
  ASSUME IInv, [Next]_vars, NEW t \in NewTrades
  PROVE  TradeBanded(t)
<1>1. PICK row : NewTradeIs(row, t) BY NewTradeOf
<1>2. Ready BY TradeStep
<1> DEFINE rows == Started(row).rows
           e == EndRowOf(row)
           st == MatchOf(row)
           q == Opposite(row.side)
           opp == book[q]
           best == BestPrice(opp)
           ids == OpenIn(orders)
           i == t.maker
           slip == book.cfg.maxSlippageBps
<1>3. /\ AcceptedIs(row) /\ FairTrade(row, book.cfg, BandOf(row), rows, SettledOf(row).rows, t)
      /\ i \in ids /\ orders[i] = rows[i] /\ orders'[t.taker] = e /\ TakerEnds(row, e)
  BY <1>1 DEF NewTradeIs
<1>4. /\ RowsInv(orders, seq) /\ BookInv(book, orders, ids) /\ row \in Row BY <1>2, <1>3 DEF Ready, AcceptedIs
<1>5. /\ orders[i].side = q /\ t.price = orders[i].price
      /\ (row.type = "market" => ~OutsideBand(row.side, BandOf(row), slip, t.price))
  BY <1>3 DEF FairTrade
<1>6. row.side \in {"buy", "sell"} /\ q \in {"buy", "sell"} BY <1>4 DEF Row, Sides, Opposite
<1>7. SideInv(q, opp, orders, ids) BY <1>4, <1>6 DEF BookInv
<1>8. RowsAre(orders, ids) BY <1>4, OpenRows
<1>9. opp.prices # << >> /\ best \in Nat /\ orders[i].price \in Nat
  <2> HIDE DEF opp, ids, i, q
  <2>1. opp.prices # << >> /\ BestPrice(opp) \in Nat /\ orders[i].price \in Nat BY <1>3, <1>5, <1>7, <1>8, BestOfSide
  <2> QED BY <2>1
<1>10. BandOf(row) = best
  <2>1. BandOf(row) = IF opp.prices = << >> THEN 0 ELSE best
    <3> DEFINE byid == book.byID
               none == << >>
               t0 == NewTaker(row)
               band == IF opp.prices = << >> THEN 0 ELSE best
               cfg == book.cfg
    <3>1. MatchStart(book, row) = [cfg |-> cfg, opp |-> opp, byID |-> byid, trades |-> none, t |-> t0, band |-> band]
      BY DEF MatchStart
    <3> HIDE DEF byid, none, t0, band, cfg, opp
    <3>2. MatchStart(book, row).band = band BY <3>1
    <3> QED BY <3>2 DEF BandOf, band
  <2> QED BY <1>9, <2>1
<1>11. slip = NoLimit \/ slip \in Nat
  <2>1. book.cfg \in Configs BY SMTT(60), <1>4 DEF BookInv
  <2>2. ConfigOK(book.cfg) BY ONLY <2>1, MarketAssumption
  <2> HIDE DEF slip
  <2>3. book.cfg.maxSlippageBps = NoLimit \/ book.cfg.maxSlippageBps \in Nat BY ONLY <2>2, SlippageNat
  <2> QED BY ONLY <2>3 DEF slip
<1>12. e.side = row.side /\ e.type = row.type /\ e.quoteQty = row.quoteQty /\ e.filledQuote = st.t.filledQuote
  BY <1>3 DEF TakerEnds
<1>13. InFlight(st.t, row) BY <1>3 DEF AcceptedIs, Ended, Flight, MatchState
<1>14. row.quoteQty \in Nat BY <1>4 DEF Row
<1> HIDE DEF best, slip, e, st, q, opp, i, ids, rows
<1>15. MarketBuy(e) => e.filledQuote =< e.quoteQty
  <2> SUFFICES ASSUME MarketBuy(e) PROVE e.filledQuote =< e.quoteQty OBVIOUS
  <2>1. MarketBuy(row) BY <1>12 DEF MarketBuy
  <2>2. st.t.quoteRem \in Nat /\ st.t.filledQuote \in Nat /\ st.t.quoteRem + st.t.filledQuote = row.quoteQty
    BY <1>13, <2>1 DEF InFlight
  <2>3. st.t.filledQuote =< row.quoteQty BY <1>14, <2>2
  <2> QED BY <1>12, <2>3
<1>16. row.type = "market" /\ slip # NoLimit =>
         10000 * (IF row.side = "buy" THEN t.price - best ELSE best - t.price) =< slip * best
  <2> SUFFICES ASSUME row.type = "market", slip # NoLimit
               PROVE 10000 * (IF row.side = "buy" THEN t.price - best ELSE best - t.price) =< slip * best
    OBVIOUS
  <2>1. ~OutsideBand(row.side, best, slip, t.price) /\ slip \in Nat /\ t.price \in Nat BY <1>5, <1>9, <1>10, <1>11
  <2> QED BY SMTT(60), <1>6, <1>9, <2>1, BandSpread
<1>17. best = BestPrice(book[Opposite(row.side)]) /\ slip = book.cfg.maxSlippageBps BY DEF best, slip, opp, q
<1> QED BY <1>3, <1>12, <1>15, <1>16, <1>17 DEF TradeBanded, e

\* WithinBand: no fill of a market order leaves the slippage band of its arrival,
\* and no market buy spends more than its budget (outsideBand, quotient).
THEOREM AlwaysWithinBand == Spec => WithinBand
<1>1. IInv /\ [Next]_vars => [\A t \in NewTrades : TradeBanded(t)]_vars BY TradesBanded
<1>2. Spec => [][\A t \in NewTrades : TradeBanded(t)]_vars BY <1>1, Inductive, PTL DEF Spec
<1> QED BY <1>2, PTL DEF WithinBand, TradeBanded

\* Why an order was refused.
RefusedFor(a, in, reason, k) == reason # "ioc" /\ orders' = Append(orders, RejectedRow(NewRow(a, in), reason, k))

\* No refusal is called "ioc".
LEMMA Refusals ==
  ASSUME Ready, NEW a \in Accounts, NEW in \in Inputs,
         PolicyReject(a, in) \/ InsufficientReject(a, in) \/ BookReject(a, in)
  PROVE  \E reason, k : RefusedFor(a, in, reason, k)
<1>1. CASE PolicyReject(a, in)
  <2>1. PolicyReason(a) # "ioc" BY DEF PolicyReason
  <2> DEFINE reason == PolicyReason(a)
             z == 0
  <2>2. orders' = Append(orders, RejectedRow(NewRow(a, in), reason, z)) BY <1>1 DEF PolicyReject
  <2> HIDE DEF reason, z
  <2>3. RefusedFor(a, in, reason, z) BY <2>1, <2>2 DEF RefusedFor, reason
  <2> QED BY <2>3
<1>2. CASE InsufficientReject(a, in)
  <2> DEFINE reason == "insufficient_balance"
             z == seq + 1
  <2>1. reason # "ioc" OBVIOUS
  <2>2. orders' = Append(orders, RejectedRow(NewRow(a, in), reason, z)) BY <1>2 DEF InsufficientReject
  <2> HIDE DEF reason, z
  <2>3. RefusedFor(a, in, reason, z) BY <2>1, <2>2 DEF RefusedFor
  <2> QED BY <2>3
<1>3. CASE BookReject(a, in)
  <2> DEFINE row == NewRow(a, in)
             r == ApplyNew(book, seq + 1, row)
             reason == r.reason
             z == seq + 1
  <2>1. Funded(a, row) /\ r.kind = "rejected" /\ orders' = Append(orders, RejectedRow(NewRow(a, in), reason, z))
    BY <1>3 DEF BookReject
  <2>2. MatchOf(row).t.stop \in Stops BY <2>1, EndFlight DEF Ended, Stops
  <2> HIDE DEF row
  <2>3. AnswerIs(row, r) BY <2>2, NewAnswer
  <2> HIDE DEF r, z
  <2>4. reason # "ioc"
    <3>1. r.kind \notin {"filled", "cancelled", "updated", "accepted"} BY <2>1
    <3> QED BY <2>3, <3>1 DEF AnswerIs
  <2> HIDE DEF reason
  <2>5. RefusedFor(a, in, reason, z) BY <2>1, <2>4 DEF RefusedFor
  <2> QED BY <2>5
<1> QED BY <1>1, <1>2, <1>3

\* The rows a step adds.
Added == ToSet(SubSeq(orders', Len(orders) + 1, Len(orders')))

\* The rows after the first n.
LEMMA AddedOne ==
  ASSUME NEW q, q \in Seq(Row), NEW n, n \in Nat, NEW o, o \in ToSet(SubSeq(q, n + 1, Len(q)))
  PROVE  \E i \in n + 1..Len(q) : o = q[i]
<1> DEFINE l == Len(q)
           m == n + 1
           s == SubSeq(q, m, l)
<1>1. l \in Nat /\ m \in Int /\ n + 1 = m OBVIOUS
<1>2. DOMAIN s = 1..l - m + 1 /\ \A i \in 1..l - m + 1 : s[i] = q[i + m - 1]
  <2> HIDE DEF m, l
  <2> QED BY <1>1, SubSeqProperties
<1>3. PICK i \in 1..l - m + 1 : o = q[i + m - 1] BY <1>2 DEF ToSet
<1>4. i + m - 1 \in m..l BY <1>1, <1>3
<1> QED BY <1>3, <1>4

\* An order that ended unfilled found nothing more to trade with.
BookUsed(o) ==
  o.type = "market" /\ o.reason = "ioc" =>
    LET opp == book'[Opposite(o.side)] IN
    opp.prices # << >> => MarketBuy(o) /\ (o.quoteQty - o.filledQuote) \div BestPrice(opp) < book.cfg.qtyStep

\* The row of an accepted command.
LEMMA AcceptedUses ==
  ASSUME Ready, NEW row, AcceptedIs(row)
  PROVE  BookUsed(EndRowOf(row))
<1> DEFINE e == EndRowOf(row)
           st == MatchOf(row)
           q == Opposite(row.side)
           opp == book'[q]
<1>1. /\ row \in Row /\ book' = AnswerTo(row).book /\ TakerEnds(row, e)
      /\ Ended(book, row, seq, BandOf(row), Started(row).rows, Len(trades), st, SettledOf(row))
      /\ BookInv(book, orders, OpenIn(orders))
  BY DEF AcceptedIs, Ready
<1>2. Over(row, book.cfg, st) /\ InFlight(st.t, row) BY <1>1 DEF Ended, Flight, MatchState
<1>3. /\ e.side = row.side /\ e.type = row.type /\ e.quoteQty = row.quoteQty /\ e.filledQuote = st.t.filledQuote
      /\ (e.reason = "ioc" => ~Exhausted(st.t) /\ st.t.stop = "")
      /\ (Open(e) => row.type = "limit") /\ (~Open(e) => AnswerTo(row).book = Matched(row))
  BY <1>1 DEF TakerEnds
<1>4. Matched(row)[q] = st.opp BY <1>1, MatchedParts
<1> HIDE DEF e, st, q
<1> SUFFICES ASSUME e.type = "market", e.reason = "ioc", opp.prices # << >>
             PROVE  MarketBuy(e) /\ (e.quoteQty - e.filledQuote) \div BestPrice(opp) < book.cfg.qtyStep
  BY <1>3 DEF BookUsed, e, q
<1>5. row.type = "market" /\ row.type # "limit" BY <1>3
<1>6. opp = st.opp BY <1>1, <1>3, <1>4, <1>5
<1>7. MarketBuy(row) /\ st.t.quoteRem \div BestPrice(st.opp) < book.cfg.qtyStep BY ZenonT(60), <1>2, <1>3, <1>5, <1>6 DEF Over
<1>8. MarketBuy(e) BY <1>3, <1>7 DEF MarketBuy
<1>9. row.quoteQty - st.t.filledQuote = st.t.quoteRem
  <2>1. st.t.quoteRem \in Nat /\ st.t.filledQuote \in Nat /\ st.t.quoteRem + st.t.filledQuote = row.quoteQty
    BY <1>2, <1>7 DEF InFlight
  <2> QED BY <2>1
<1> QED BY <1>3, <1>6, <1>7, <1>8, <1>9

\* Any row a step adds.
LEMMA AddedUses ==
  ASSUME IInv, [Next]_vars, NEW o \in Added
  PROVE  BookUsed(o)
<1> DEFINE n == Len(orders)
<1>1. orders \in Seq(Row) /\ orders' \in Seq(Row) /\ n \in Nat
  <2>1. IInv' BY StepKeeps
  <2> QED BY <2>1 DEF IInv, Kept, RowsInv
<1>2. PICK i \in n + 1..Len(orders') : o = orders'[i] BY SMTT(60), <1>1, AddedOne DEF Added
<1>3. Len(orders') # n BY <1>1, <1>2
<1>4. ~(\E id \in DOMAIN orders : Cancel(id))
  <2> SUFFICES ASSUME NEW id \in DOMAIN orders, Cancel(id) PROVE FALSE OBVIOUS
  <2> DEFINE next == [orders EXCEPT ![id].status = "cancelled", ![id].reason = "user", ![id].holdRemaining = 0]
  <2>3. orders' = next BY DEF Cancel
  <2>1. DOMAIN next = DOMAIN orders OBVIOUS
  <2> HIDE DEF next
  <2>2. DOMAIN orders' = 1..Len(orders') /\ DOMAIN orders = 1..n /\ Len(orders') \in Nat BY <1>1
  <2> QED BY <1>1, <1>3, <2>1, <2>2, <2>3
<1>5. \E a \in Accounts, in \in Inputs : Place(a, in)
  BY <1>3, <1>4 DEF Next, vars, Rebuild, Reload, Crash, SetMarketStatus, UpdateMarket, SetAccountStatus
<1>6. PICK a \in Accounts, in \in Inputs : Place(a, in) BY <1>5
<1> DEFINE row == NewRow(a, in)
<1>7. Ready BY <1>6 DEF IInv, Kept, Ready, Place
<1>8. row \in Row /\ row.id = n + 1 BY <1>1, NewRowParts DEF NewRowIs
<1>9. CASE PolicyReject(a, in) \/ InsufficientReject(a, in) \/ BookReject(a, in)
  <2>1. PICK reason, k : RefusedFor(a, in, reason, k) BY <1>7, <1>9, Refusals
  <2> DEFINE e == RejectedRow(row, reason, k)
  <2>2. reason # "ioc" /\ orders' = Append(orders, e) BY <2>1 DEF RefusedFor
  <2>3. e.reason = reason
    <3> HIDE DEF row
    <3>1. e = [row EXCEPT !.status = "rejected", !.reason = reason, !.remaining = 0, !.seq = k] BY DEF RejectedRow
    <3> QED BY <1>8, <3>1 DEF Row
  <2> HIDE DEF e, row
  <2>4. Len(orders') = n + 1 /\ orders'[n + 1] = e BY <1>1, <2>2
  <2>5. i = n + 1 BY <1>1, <1>2, <2>4
  <2> QED BY <1>2, <2>2, <2>3, <2>4, <2>5 DEF BookUsed
<1>10. CASE Accept(a, in)
  <2>1. AcceptedIs(row) BY <1>7, <1>10, AcceptedParts
  <2> HIDE DEF row
  <2>2. orders' = NextRows(row) /\ RowEnded(SettledOf(row).rows, row.id, seq, EndRowOf(row), NextRows(row))
        /\ Flight(book, row, seq, MatchOf(row), SettledOf(row))
    BY <2>1 DEF AcceptedIs, Ended
  <2>3. orders'[row.id] = EndRowOf(row) /\ DOMAIN orders' = DOMAIN SettledOf(row).rows BY <2>2 DEF RowEnded
  <2>4. Len(SettledOf(row).rows) = row.id /\ SettledOf(row).rows \in Seq(Row) BY <2>2 DEF Flight, RowsBehind, RowsInv
  <2>5. Len(orders') = n + 1
    <3>1. DOMAIN orders' = 1..n + 1 BY <1>8, <2>3, <2>4
    <3>2. DOMAIN orders' = 1..Len(orders') /\ Len(orders') \in Nat BY <1>1
    <3> QED BY <1>1, <3>1, <3>2
  <2>6. i = row.id BY <1>1, <1>2, <1>8, <2>5
  <2>7. BookUsed(EndRowOf(row)) BY <1>7, <2>1, AcceptedUses
  <2> QED BY <1>2, <2>3, <2>6, <2>7
<1>11. CASE SettleFails(a, in)
  <2>1. orders' = orders BY <1>11 DEF SettleFails
  <2> QED BY <1>3, <2>1
<1> QED BY SMTT(60), <1>6, <1>9, <1>10, <1>11 DEF Place

\* MarketOrderUsesTheBook: a market order that ends unfilled, and was not stopped by
\* its band or an own order, has used up what it could trade with (Book.match).
THEOREM AlwaysUsesTheBook == Spec => MarketOrderUsesTheBook
<1>1. IInv /\ [Next]_vars => [\A o \in Added : BookUsed(o)]_vars BY AddedUses
<1>2. Spec => [][\A o \in Added : BookUsed(o)]_vars BY <1>1, Inductive, PTL DEF Spec
<1> QED BY <1>2, PTL DEF MarketOrderUsesTheBook, Added, BookUsed
=============================================================================
