----------------------------- MODULE MCWithdrawal -----------------------------
(* Instances of Withdrawal for TLC. *)
EXTENDS Withdrawal, TLC

TwoSymmetry == Permutations(Withdrawals)
===============================================================================
