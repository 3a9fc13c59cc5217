------------------------------- MODULE MCWebhook -------------------------------
(* Instances of Webhook for model checking. *)
EXTENDS Webhook, TLC

WorkerSymmetry == Permutations(Workers)

===============================================================================
