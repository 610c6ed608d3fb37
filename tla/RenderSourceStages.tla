------------------------- MODULE RenderSourceStages --------------------------
(***************************************************************************)
(* The stages of one base on its way to a custom appearance, which is what *)
(* the coordinator and the preparation of a render source rely on from     *)
(* each other: nothing is served that has not been published and, with     *)
(* layers, composed and finalized behind a barrier; a base falls back to   *)
(* vanilla only before publication and for good; a published source that   *)
(* cannot go on stops the whole runtime.                                   *)
(***************************************************************************)

VARIABLES
  operational, \* appearance injection has not been disabled for the process
  tinted,      \* the published source has layers that the engine composites
  stage        \* "nothing", "vanilla", "staged", "composing", "finalized", "armed",
               \* "served", "withdrawn" or "abandoned"

vars == <<operational, tinted, stage>>

Init == operational = TRUE /\ tinted = FALSE /\ stage = "nothing"

\* Any step may disable the process; none enables it again.
MayStop == operational' \in BOOLEAN /\ (operational' => operational)

Advance(from, to) == stage = from /\ stage' = to /\ UNCHANGED tinted

FallBack == Advance("nothing", "vanilla") /\ MayStop

Publish ==
  /\ stage = "nothing" /\ stage' = "staged"
  /\ tinted' \in BOOLEAN
  /\ UNCHANGED operational

\* Nothing is given to the engine's compositor, or taken from it, once the
\* process is disabled.
Submit   == tinted /\ operational /\ Advance("staged", "composing") /\ UNCHANGED operational
Finalize == operational /\ Advance("composing", "finalized") /\ UNCHANGED operational
Arm      == operational /\ Advance("finalized", "armed") /\ MayStop

\* A store that nobody sees if the process has been disabled in the meantime.
Serve ==
  /\ Advance(IF tinted THEN "armed" ELSE "staged", "served")
  /\ UNCHANGED operational

Withdraw == Advance("served", "withdrawn") /\ UNCHANGED operational

\* A base stays where it is when the process is disabled.
Abandon ==
  /\ stage \notin {"vanilla", "served", "withdrawn"}
  /\ stage' = "abandoned" /\ operational' = FALSE
  /\ UNCHANGED tinted

Stop == MayStop /\ UNCHANGED <<tinted, stage>>

Next ==
  \/ FallBack \/ Publish \/ Submit \/ Finalize \/ Arm \/ Serve \/ Withdraw \/ Abandon \/ Stop

Spec == Init /\ [][Next]_vars
=============================================================================
