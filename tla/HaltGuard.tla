------------------------------- MODULE HaltGuard -------------------------------
(***************************************************************************)
(* What the kill switch promises its callers, with no carrier, mutex or     *)
(* transaction in sight: a gate that may close at any time, and that is     *)
(* open only while no halt is durable and none is owed.  What is durable    *)
(* changes behind a closed gate alone, and a crash forgets what was owed    *)
(* but not what is durable.                                                 *)
(***************************************************************************)

VARIABLES
  phase,   \* the durable halt
  owed,    \* a halt that has been decided and not cleared
  open     \* new exposure may be submitted

Init == phase = "none" /\ owed = FALSE /\ open = FALSE

Shut == open = FALSE /\ open' = FALSE

Close == open' = FALSE /\ UNCHANGED <<phase, owed>>
Open == phase = "none" /\ ~owed /\ open' = TRUE /\ UNCHANGED <<phase, owed>>
Persist == Shut /\ phase' \in {"pending", "halted"} /\ UNCHANGED owed
Owe == Shut /\ owed' = TRUE /\ UNCHANGED phase
Clear == Shut /\ phase' = "none" /\ owed' = FALSE
Restart == open' = FALSE /\ owed' = (phase # "none") /\ UNCHANGED phase

Next == Close \/ Open \/ Persist \/ Owe \/ Clear \/ Restart

Spec == Init /\ [][Next]_<<phase, owed, open>>

\* The gate is never open over a halt.
OpenMeansClear == open => phase = "none" /\ ~owed
=============================================================================
