----------------------- MODULE RenderSourceLifecycle ------------------------
(***************************************************************************)
(* What OSF Identity promises about the render sources of a process, with  *)
(* threads, tasks and statuses abstracted away: sources are staged one at  *)
(* a time, served to 3D builds only after staging, withdrawn for good, and *)
(* never served once appearance injection is disabled.                     *)
(***************************************************************************)
CONSTANTS Bases, Refs, BaseOf

VARIABLES
  enabled,  \* appearance injection has not been disabled for the process
  phase,    \* "none", "staged", "served" or "withdrawn", per base
  built     \* "unloaded", or what the 3D of a reference shows

vars == <<enabled, phase, built>>

Init ==
  /\ enabled = TRUE
  /\ phase = [b \in Bases |-> "none"]
  /\ built = [r \in Refs |-> "unloaded"]

\* One base at a time is between its staging and its activation.
Stage(b) ==
  /\ phase[b] = "none"
  /\ \A c \in Bases : phase[c] # "staged"
  /\ phase' = [phase EXCEPT ![b] = "staged"]
  /\ UNCHANGED <<enabled, built>>

Serve(b) ==
  /\ phase[b] = "staged"
  /\ phase' = [phase EXCEPT ![b] = "served"]
  /\ UNCHANGED <<enabled, built>>

Withdraw(b) ==
  /\ phase[b] = "served"
  /\ phase' = [phase EXCEPT ![b] = "withdrawn"]
  /\ UNCHANGED <<enabled, built>>

Disable ==
  /\ enabled
  /\ enabled' = FALSE
  /\ UNCHANGED <<phase, built>>

\* What a 3D build of a reference of b shows.
Shown(b) == IF enabled /\ phase[b] = "served" THEN "custom" ELSE "vanilla"

Build(r) ==
  /\ built' = [built EXCEPT ![r] = Shown(BaseOf[r])]
  /\ UNCHANGED <<enabled, phase>>

Unload(r) ==
  /\ built' = [built EXCEPT ![r] = "unloaded"]
  /\ UNCHANGED <<enabled, phase>>

Next ==
  \/ \E b \in Bases : Stage(b) \/ Serve(b) \/ Withdraw(b)
  \/ \E r \in Refs : Build(r) \/ Unload(r)
  \/ Disable

Spec == Init /\ [][Next]_vars
=============================================================================
