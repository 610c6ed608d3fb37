--------------------------- MODULE RuntimeFormID ----------------------------
(***************************************************************************)
(* How a plugin-local FormID becomes a runtime FormID (src/Config/         *)
(* RuntimeFormID.cpp), and how a plugin name becomes the tier and index    *)
(* that it needs (src/Config/PluginLookup.cpp).                            *)
(*                                                                         *)
(* A 32-bit FormID is a record of its top byte and its low 24 bits, which  *)
(* keeps the numbers within the range of the model checker.                *)
(***************************************************************************)
EXTENDS Integers, Sequences

Tiers == {"full", "medium", "small"}

Byte   == 0 .. 255
Low24  == 0 .. 16777215
FormID == [top : Byte, low : Low24]
NoFormID == [top |-> -1, low |-> 0]

\* What EncodeRuntimeFormID accepts: local FormIDs and indices per tier.
MaxLocal == [full |-> 16777215, medium |-> 65535, small |-> 4095]
MaxIndex == [full |-> 252,      medium |-> 255,   small |-> 4095]

\* mutant: the index of a full plugin may be any byte
InRange_AnyByte(local, tier, index) ==
  local <= MaxLocal[tier] /\ index <= IF tier = "full" THEN 255 ELSE MaxIndex[tier]

InRange(local, tier, index) == local <= MaxLocal[tier] /\ index <= MaxIndex[tier]

\* Small plugins share the top byte FE, medium ones FD; the index of a full
\* plugin is its top byte.
EncodeRuntimeFormID(local, tier, index) ==
  IF ~InRange(local, tier, index) THEN NoFormID
  ELSE IF tier = "small"          THEN [top |-> 254, low |-> index * 4096 + local]
  ELSE IF tier = "medium"         THEN [top |-> 253, low |-> index * 65536 + local]
  ELSE [top |-> index, low |-> local]

\* The position of a name, folded, in a list of plugins: the first that matches.
IsFirst(files, i, name) ==
  files[i].name = name /\ \A j \in 1 .. i - 1 : files[j].name # name

\* FindLoadedPlugin: the full plugins are searched first, then the medium and
\* the small ones.  A full plugin knows its index; the others count.
FindLoadedPlugin(loaded, name) ==
  LET found(tier) == {i \in DOMAIN loaded[tier] : IsFirst(loaded[tier], i, name)}
      position(tier) == CHOOSE i \in found(tier) : TRUE
  IN  IF found("full") # {}
      THEN {[tier |-> "full", index |-> loaded["full"][position("full")].compileIndex]}
      ELSE IF found("medium") # {} THEN {[tier |-> "medium", index |-> position("medium") - 1]}
      ELSE IF found("small") # {}  THEN {[tier |-> "small", index |-> position("small") - 1]}
      ELSE {}
=============================================================================
