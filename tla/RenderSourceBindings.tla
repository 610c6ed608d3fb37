------------------------ MODULE RenderSourceBindings ------------------------
(***************************************************************************)
(* What the render-source registry promises: a map from runtime FormIDs to *)
(* sources that is written atomically, only ever extended, and binds a     *)
(* source once.  A lookup takes time; it answers with something the map    *)
(* held at some moment of the lookup, and with the canonical base when it  *)
(* begins after the kill.                                                  *)
(***************************************************************************)
CONSTANTS Bases, Sources, Readers, Null

VARIABLES
  operational, \* appearance injection is enabled
  binding,     \* per base, Null or its source and whether it is active
  lookup       \* per reader, the lookup in progress and what it may answer

vars == <<operational, binding, lookup>>

NoLookup == [stage |-> "none", base |-> Null, live |-> FALSE, may |-> {}]

\* What a lookup of b that takes no time answers: a source, or b itself.
Resolve(bind, b) == IF bind[b] # Null /\ bind[b].active THEN bind[b].source ELSE b

Init ==
  /\ operational = TRUE
  /\ binding = [b \in Bases |-> Null]
  /\ lookup = [r \in Readers |-> NoLookup]

\* A lookup that began before the kill may answer from the new map as well.
Write(bind) ==
  /\ binding' = bind
  /\ lookup' = [r \in Readers |->
       IF lookup[r].stage = "running" /\ lookup[r].live
       THEN [lookup[r] EXCEPT !.may = @ \cup {Resolve(bind, lookup[r].base)}]
       ELSE lookup[r]]
  /\ UNCHANGED operational

Bind(b, s) ==
  /\ binding[b] = Null
  /\ \A c \in Bases : binding[c] # Null => binding[c].source # s
  /\ Write([binding EXCEPT ![b] = [source |-> s, active |-> FALSE]])

SetActive(b, a) ==
  /\ binding[b] # Null
  /\ Write([binding EXCEPT ![b].active = a])

Kill == operational' = FALSE /\ UNCHANGED <<binding, lookup>>

Begin(r, b) ==
  /\ lookup[r].stage = "none"
  /\ lookup' = [lookup EXCEPT ![r] =
       [stage |-> "running", base |-> b, live |-> operational,
        may   |-> {IF operational THEN Resolve(binding, b) ELSE b}]]
  /\ UNCHANGED <<operational, binding>>

Answer(r) ==
  /\ lookup[r].stage = "running"
  /\ \E v \in lookup[r].may :
       lookup' = [lookup EXCEPT ![r] =
         [stage |-> "answered", base |-> @.base, live |-> @.live, may |-> {v}]]
  /\ UNCHANGED <<operational, binding>>

Forget(r) ==
  /\ lookup' = [lookup EXCEPT ![r] = NoLookup]
  /\ UNCHANGED <<operational, binding>>

Next ==
  \/ \E b \in Bases, s \in Sources : Bind(b, s)
  \/ \E b \in Bases, a \in BOOLEAN : SetActive(b, a)
  \/ Kill
  \/ \E r \in Readers, b \in Bases : Begin(r, b)
  \/ \E r \in Readers : Answer(r) \/ Forget(r)

Spec == Init /\ [][Next]_vars
=============================================================================
