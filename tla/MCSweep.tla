-------------------------------- MODULE MCSweep --------------------------------
(* Instances of Sweep for model checking. *)
EXTENDS Sweep

MCDepositAmount == [a \in Assets |-> IF a = "eth" THEN 2 ELSE 1]
MCDeposits == [a \in Assets |-> 1]
MCThreshold == [a \in Assets |-> 1]

===============================================================================
