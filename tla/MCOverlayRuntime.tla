-------------------------- MODULE MCOverlayRuntime --------------------------
(* Instances of OverlayRuntime for TLC: one plain base whose source has    *)
(* AVM layers, and one generated base that inherits its assignment through *)
(* leveled extra data.                                                     *)
EXTENDS OverlayRuntime

CONSTANTS Actor, Crowd, ActorRef, CrowdRef, CrowdRef2, Main, Worker

MCBases      == {Actor, Crowd}
MCConfigured == {Actor}
MCGenerated  == {Crowd}
MCTinted     == {Actor}
MCExtras     == [b \in {Actor, Crowd} |-> IF b = Crowd THEN {Actor, None} ELSE {None}]

\* Which references exist: one of each base, two of the generated one, all three.
OneEach   == [r \in {ActorRef, CrowdRef} |-> IF r = ActorRef THEN Actor ELSE Crowd]
CrowdOnly == [r \in {CrowdRef, CrowdRef2} |-> Crowd]
AllRefs   == [r \in {ActorRef, CrowdRef, CrowdRef2} |-> IF r = ActorRef THEN Actor ELSE Crowd]
OneEachRefs   == DOMAIN OneEach
CrowdOnlyRefs == DOMAIN CrowdOnly
AllRefsRefs   == DOMAIN AllRefs

MainOnly   == {Main}
TwoThreads == {Main, Worker}

NoFaults  == {}
AllFaults == FaultKinds
Delays    == {"expire"}
=============================================================================
