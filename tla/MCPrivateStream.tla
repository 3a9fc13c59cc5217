---------------------------- MODULE MCPrivateStream ----------------------------
(* Instances of PrivateStream for model checking. *)
EXTENDS PrivateStream, TLC

===============================================================================
