------------------------------ MODULE MCMarket ------------------------------
(* Instances of Market for TLC. *)
EXTENDS Market

Symmetry == Permutations(Accounts)

MCFunds == [a \in Accounts |-> [base |-> 40, quote |-> 100]]

Cfg(tick, step, notional, slip, stp) ==
  [priceTick |-> tick, qtyStep |-> step, minNotional |-> notional,
   maxQty |-> 40, maxSlippageBps |-> slip, selfTrade |-> stp]

Limit(side, tif, price, qty) ==
  [side |-> side, type |-> "limit", tif |-> tif, price |-> price, qty |-> qty, quoteQty |-> 0]
MarketOrder(side, qty, quote) ==
  [side |-> side, type |-> "market", tif |-> "ioc", price |-> 0, qty |-> qty, quoteQty |-> quote]

Plain == Cfg(1, 10, 20, NoLimit, "cancel_newest")
\* From an ask of 2 the band ends below 3; from a bid of 3 it reaches 2.
Banded == Cfg(1, 10, 20, 4000, "cancel_newest")
BandedOnly == {Banded}
BookInputs ==
  {Limit(s, "gtc", p, 10) : s \in {"buy", "sell"}, p \in {2, 3}}
    \cup {Limit("buy", "gtc", 3, 20), Limit("buy", "ioc", 3, 20), MarketOrder("sell", 20, 0), MarketOrder("buy", 0, 65)}

\* A coarser tick with a finer step: rows placed under Plain may not fit it,
\* and its one-unit fills are eaten by their fee.
Dust == Cfg(2, 1, 0, NoLimit, "cancel_newest")
TwoConfigs == {Plain, Dust}
AdminInputs == {Limit(s, "gtc", p, 10) : s \in {"buy", "sell"}, p \in {2, 3}}
                 \cup {Limit(s, "gtc", 2, 1) : s \in {"buy", "sell"}}
=============================================================================
