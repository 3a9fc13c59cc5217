----------------------------- MODULE MCShadowBook -----------------------------
(* Instances of ShadowBook for TLC. *)
EXTENDS ShadowBook

Symmetry == Permutations(Accounts)

MCFunds == [a \in Accounts |-> [base |-> 30, quote |-> 60]]

Limit(side, tif, price, qty) ==
  [side |-> side, type |-> "limit", tif |-> tif, price |-> price, qty |-> qty, quoteQty |-> 0]

Plain == [priceTick |-> 1, qtyStep |-> 10, minNotional |-> 20, maxQty |-> 40,
          maxSlippageBps |-> NoLimit, selfTrade |-> "cancel_newest"]
PlainOnly == {Plain}
Shapes ==
  {Limit("sell", "gtc", 2, 10), Limit("sell", "gtc", 3, 10), Limit("buy", "gtc", 3, 20), Limit("buy", "ioc", 2, 20),
   [side |-> "sell", type |-> "market", tif |-> "ioc", price |-> 0, qty |-> 20, quoteQty |-> 0]}
===============================================================================
