------------------------------- MODULE MCDeposit -------------------------------
(* Instances of Deposit for TLC. *)
EXTENDS Deposit
================================================================================
