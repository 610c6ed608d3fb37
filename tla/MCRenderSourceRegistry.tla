----------------------- MODULE MCRenderSourceRegistry -----------------------
(* An instance of RenderSourceRegistry for TLC: a table of four slots that *)
(* takes two sources, three FormIDs of which two collide at its last slot, *)
(* so that the walk wraps around, and two sources that collide as well.    *)
EXTENDS RenderSourceRegistry

CONSTANTS Crowd1, Crowd2, Actor, SourceA, SourceB, SourceC

MCBases   == {Crowd1, Crowd2, Actor}
MCSources == {SourceA, SourceB, SourceC}
TwoSources == {SourceA, SourceB}
MCStartIndex == [b \in MCBases |-> IF b = Actor THEN 0 ELSE 3]
MCSourceStartIndex == [s \in MCSources |-> IF s = SourceC THEN 0 ELSE 3]
TwoSourceStarts == [s \in TwoSources |-> 3]
MCIdentityOf == [b \in MCBases |-> Actor]
=============================================================================
