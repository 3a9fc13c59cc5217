------------------------------ MODULE MCReconcile ------------------------------
(* Instances of Reconcile for model checking. *)
EXTENDS Reconcile

CONSTANTS d1, w1, s1, f1, x1

MCAsset == [i \in Items |-> IF i = w1 THEN "usdc" ELSE "eth"]
MCAmount == [i \in Items |-> CASE i = d1 -> 100 [] i = w1 -> 200 [] i = s1 -> 50 [] i = x1 -> -400 [] OTHER -> 0]
MCGas == [i \in Items |-> CASE i = w1 -> 1 [] i = s1 -> 2 [] i = f1 -> 4 [] OTHER -> 0]
MCRequired == [a \in Assets |-> IF a = "eth" THEN 2 ELSE 1]
NoCancel == [i \in Withdrawals |-> "none"]
Cancel == [i \in Withdrawals |-> f1]

================================================================================
