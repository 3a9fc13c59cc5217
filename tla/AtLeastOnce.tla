------------------------------ MODULE AtLeastOnce ------------------------------
(***************************************************************************)
(* What docs/webhooks.md promises about deliveries: once something has     *)
(* happened, the exchange owes it to whoever subscribed until they have    *)
(* been told or there is a recorded reason to stop; it may be owed, and    *)
(* told, again.  Nothing else takes it off the books, and nobody is told   *)
(* what never happened.                                                    *)
(***************************************************************************)
CONSTANT Duties  \* one event for one endpoint

VARIABLES
  happened,  \* duties whose event is committed
  owed,      \* duties somebody in the exchange still has to act on
  told,      \* duties the endpoint acknowledged at least once
  excused    \* duties with a reason to stop: dead, dropped, not wanted, undeliverable

vars == <<happened, owed, told, excused>>

Init == happened = {} /\ owed = {} /\ told = {} /\ excused = {}

\* A transaction with its event commits.
Happen(S) ==
  /\ S \cap happened = {}
  /\ happened' = happened \cup S /\ owed' = owed \cup S
  /\ UNCHANGED <<told, excused>>

\* Published twice, delivered again by the server, or replayed by an operator.
Again(S) ==
  /\ S \subseteq happened /\ owed' = owed \cup S
  /\ UNCHANGED <<happened, told, excused>>

Tell(d) ==
  /\ d \in happened /\ told' = told \cup {d}
  /\ UNCHANGED <<happened, owed, excused>>

\* Duties end, with nothing more owed for some of them.
Close(S) ==
  /\ excused \subseteq excused' /\ excused' \subseteq happened
  /\ S \subseteq owed /\ S \subseteq told \cup excused'
  /\ owed' = owed \ S
  /\ UNCHANGED <<happened, told>>

Next ==
  \/ \E S \in SUBSET Duties : Happen(S) \/ Again(S) \/ Close(S)
  \/ \E d \in Duties : Tell(d)

Spec == Init /\ [][Next]_vars
===============================================================================
