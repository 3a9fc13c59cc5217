---------------------------- MODULE MCEngineRunner ----------------------------
(* Instances of EngineRunner for TLC. *)
EXTENDS EngineRunner, TLC
CONSTANTS e1, e2, p1, p2, p3, c1

OneSide  == p1 :> "sell" @@ p2 :> "buy" @@ p3 :> "buy"
TwoSides == p1 :> "sell" @@ p2 :> "buy"
CancelP1 == c1 :> p1
EngineSymmetry == Permutations(Engines)
SecondTwice == [c \in Cmds |-> IF c = p2 THEN 2 ELSE 1]
===============================================================================
