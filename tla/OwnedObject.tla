----------------------------- MODULE OwnedObject -----------------------------
(***************************************************************************)
(* What becomes of an object that a preparation task allocates and may     *)
(* hand to the engine: a detached carrier or the output of a composition   *)
(* (docs/ARCHITECTURE.md, "retained for process lifetime after             *)
(* submission").  The task frees it or hands it over, once.                *)
(*                                                                         *)
(* It may also abandon it, freeing it never, and this is weaker than the   *)
(* same document is about carriers ("A failed or duplicate unpublished     *)
(* source is destroyed immediately").  It abandons one only when `alarm`   *)
(* is raised, by which the user of this module says what excuses it.       *)
(***************************************************************************)

VARIABLES
  owner, \* who has to free the object
  alarm  \* something has happened that excuses an abandoned object

vars == <<owner, alarm>>

Init == owner = "nobody" /\ alarm = FALSE

\* The alarm may be raised at any step and is never lowered.
Alarm == alarm' \in BOOLEAN /\ (alarm => alarm')

Create   == owner = "nobody" /\ owner' = "task" /\ Alarm

\* An object that is not as it should be never gets to the task.
Refuse   == owner = "nobody" /\ owner' = "freed" /\ Alarm

Free     == owner = "task" /\ owner' = "freed" /\ Alarm
HandOver == owner = "task" /\ owner' = "engine" /\ Alarm
Abandon  == owner \in {"nobody", "task"} /\ owner' = "abandoned" /\ alarm'  = TRUE
Notice   == UNCHANGED owner /\ Alarm

Next == Create \/ Refuse \/ Free \/ HandOver \/ Abandon \/ Notice

Spec == Init /\ [][Next]_vars
=============================================================================
