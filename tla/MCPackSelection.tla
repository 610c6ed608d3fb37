--------------------------- MODULE MCPackSelection --------------------------
(* An instance of PackSelection for TLC: three packs, two of which differ  *)
(* only in case, a full plugin spelled in two ways, a small plugin, and a  *)
(* full plugin whose index is not one a FormID can carry.                  *)
EXTENDS PackSelection

PackA  == <<1, 1>>
PackB  == <<2, 1>>
PackB2 == <<2, 2>>
Full     == <<1, 1>>
Full2    == <<1, 2>>
Small    == <<2, 1>>
Uncompiled == <<3, 1>>

Preset(pack, plugin, file, local) ==
  [pack |-> pack, plugin |-> plugin, file |-> file, preset |-> TRUE, local |-> local,
   readable |-> TRUE, loads |-> TRUE]

MCFiles ==
  {Preset(PackA, Full, <<1, 1>>, 5),    \* 5.npc
   Preset(PackA, Full, <<2, 1>>, 5),    \* 05.json
   Preset(PackA, Full2, <<1, 1>>, 5),
   Preset(PackB, Full, <<1, 1>>, 5),
   Preset(PackB, Full, <<1, 2>>, 5),    \* 5.NPC
   Preset(PackB2, Full, <<1, 1>>, 5),
   Preset(PackA, Small, <<3, 1>>, 1),
   [Preset(PackB, Small, <<3, 1>>, 1) EXCEPT !.loads = FALSE],
   Preset(PackB2, Small, <<4, 1>>, 4096), \* beyond the small tier
   Preset(PackB2, Uncompiled, <<5, 1>>, 7)}

MCLoaded ==
  [full   |-> <<[name |-> 1, compileIndex |-> 0], [name |-> 3, compileIndex |-> 255]>>,
   medium |-> <<>>,
   small  |-> <<[name |-> 4, compileIndex |-> 0], [name |-> 2, compileIndex |-> 0]>>]

MCUniqueHumans ==
  {[top |-> 0, low |-> 5], [top |-> 254, low |-> 4097], [top |-> 254, low |-> 8192],
   [top |-> 255, low |-> 7]}
=============================================================================
