----------------------- MODULE AppearanceDependencies ------------------------
(***************************************************************************)
(* How a preset is resolved against the game's data (src/Config/           *)
(* Resolver.cpp).  Any issue makes the dependencies incomplete and the     *)
(* preset unusable, so which issues are reported, and in which order, is   *)
(* left out: `complete` is their absence.  What is resolved is the form of *)
(* each head part and the AVM entry of each tint layer.                    *)
(*                                                                         *)
(* The game's data are constants.  The chargen catalogs of a race are      *)
(* taken to be those of the only race that targets have.                   *)
(***************************************************************************)
EXTENDS AppearancePreset, RuntimeFormID

CONSTANTS
  Loaded,      \* the compiled file collections, a sequence of plugins per tier
  Forms,       \* the form that a runtime FormID names, as a partial function
  EditorIDs,   \* the form that an editor ID names, likewise
  Races,
  HeadParts,
  PartType,    \* the type of each head part
  PartRaces,   \* the races a head part is offered to
  Descriptors, \* shape descriptors, per sex
  BoneGroups,  \* bone group names, per sex
  BoneSliders, \* bone slider IDs, per sex
  Avm,         \* [complex, values, modulations] of each FaceDB category
  Palette,     \* the hair colors of each head part
  EyeColors

\* Head part types: misc parts have no slot of their own; 1 .. 8 have one each.
Misc == 0
HairSlot == 3
UniqueSlots == 1 .. 8
CkSlots == 9

ASSUME HeadPartAssumption ==
  /\ PartType \in [HeadParts -> Nat]
  /\ PartRaces \in [HeadParts -> SUBSET Races]
  /\ NoName \notin HeadParts /\ NoName \notin Races

-----------------------------------------------------------------------------
(* Head parts.                                                             *)

\* The form of a kind that a key names in a table.
FormOf(table, key, kind) == IF key \in DOMAIN table /\ table[key] \in kind THEN table[key] ELSE NoName

\* The runtime FormID of a reference; a plugin that is not loaded owns none.
ResolveFormID(reference) ==
  LET found == FindLoadedPlugin(Loaded, Fold(reference.plugin))
  IN  IF found = {} THEN NoFormID
      ELSE LET plugin == CHOOSE p \in found : TRUE
           IN  EncodeRuntimeFormID(reference.local, plugin.tier, plugin.index)

PartByID(reference)   == FormOf(Forms, ResolveFormID(reference), HeadParts)
PartByEditorID(name)  == FormOf(EditorIDs, name, HeadParts)

\* mutant: the parts of a preset may repeat
HeadPartsValid_Repeated(parts, race) ==
  \A i \in DOMAIN parts : parts[i] # NoName /\ race \in PartRaces[parts[i]]

\* ValidateHeadPart for all parts a preset names, in one set of seen parts.
HeadPartsValid(parts, race) ==
  /\ \A i \in DOMAIN parts : parts[i] # NoName /\ race \in PartRaces[parts[i]]
  /\ NoRepetition(parts)

\* ResolveCkHeadParts: positional slots, each of its own type, and misc parts.
\* A slot may be empty.
CkNames(p)  == p.unique \o p.misc
CkNamed(p)  == {i \in DOMAIN CkNames(p) : i \in DOMAIN p.unique => p.unique[i] # NoName}
CkParts(p)  == [i \in CkNamed(p) |-> PartByEditorID(CkNames(p)[i])]
CkSlot(p, type) ==
  IF type + 1 \in DOMAIN p.unique /\ p.unique[type + 1] # NoName
  THEN PartByEditorID(p.unique[type + 1]) ELSE NoName
CkHeadPartsOK(p, race) ==
  /\ Len(p.unique) = CkSlots
  /\ HeadPartsValid(CkParts(p), race)
  /\ \A i \in DOMAIN p.unique : p.unique[i] # NoName => PartType[PartByEditorID(p.unique[i])] = i - 1

\* ResolveCharGenHeadParts: the type of a part is its slot.
JsonParts(p) == [i \in DOMAIN p.forms |-> PartByID(p.forms[i])]
JsonHeadPartsOK(p, race) ==
  LET parts == JsonParts(p)
  IN  /\ HeadPartsValid(parts, race)
      /\ \A i \in DOMAIN parts : PartType[parts[i]] \in UniqueSlots \cup {Misc}
      /\ \A i, j \in DOMAIN parts :
           i # j /\ PartType[parts[i]] = PartType[parts[j]] => PartType[parts[i]] = Misc
JsonSlot(p, type) ==
  LET own == {i \in DOMAIN p.forms : PartType[JsonParts(p)[i]] = type}
  IN  IF own = {} THEN NoName ELSE JsonParts(p)[CHOOSE i \in own : TRUE]

HeadPartsOK(p, race) == IF p.format = "ck" THEN CkHeadPartsOK(p, race) ELSE JsonHeadPartsOK(p, race)
SlotPart(p, type)    == IF p.format = "ck" THEN CkSlot(p, type) ELSE JsonSlot(p, type)
MiscParts(p) ==
  IF p.format = "ck" THEN ({CkSlot(p, Misc)} \ {NoName}) \cup {PartByEditorID(p.misc[i]) : i \in DOMAIN p.misc}
  ELSE {JsonParts(p)[i] : i \in {j \in DOMAIN p.forms : PartType[JsonParts(p)[j]] = Misc}}

-----------------------------------------------------------------------------
(* Morphs, tint layers and colors.                                         *)

\* A shape is a descriptor of either sex and a bone group of the preset's own.
ShapesOK(p) ==
  \A i \in DOMAIN p.shapes :
    /\ p.shapes[i].name.descriptor \in Descriptors["Male"] \cup Descriptors["Female"]
    /\ p.shapes[i].name.group \in BoneGroups[p.sex]

BonesOK(p) ==
  \A r \in DOMAIN p.regions :
    \A s \in DOMAIN p.regions[r].sliders :
      LET slider == p.regions[r].sliders[s]
      IN  /\ slider.group # NoName => slider.group \in BoneGroups[p.sex]
          /\ slider.id # 0 => slider.id \in BoneSliders[p.sex]

\* A layer of CharGen JSON says what its entry is; any other layer has its
\* value, and its modulation unless it brings a color, looked up in FaceDB.
\* The catalog of a category and the store that materializes from it are one.
LayerOK(layer) ==
  \/ layer.material # 0
  \/ /\ layer.name \in DOMAIN Avm
     /\ layer.value \in Avm[layer.name].values
     /\ layer.color = NoColor /\ layer.modulation # NoName =>
          layer.modulation \in Avm[layer.name].modulations

AvmEntry(layer) ==
  [category  |-> layer.name,
   type      |-> IF layer.material # 0 THEN layer.material
                 ELSE IF Avm[layer.name].complex THEN 2 ELSE 1,
   value     |-> layer.value,
   texture   |-> layer.texture,
   color     |-> IF layer.color # NoColor THEN layer.color ELSE <<layer.modulation>>,
   intensity |-> layer.intensity]

\* A hair color is looked up only for the hair it colors: without hair it is inert.
ColorsOK(p) ==
  /\ p.colors.hair # NoName /\ SlotPart(p, HairSlot) # NoName =>
       p.colors.hair \in Palette[SlotPart(p, HairSlot)]
  /\ p.colors.eye # NoName => p.colors.eye \in EyeColors

-----------------------------------------------------------------------------
(* ResolveAppearanceDependencies.                                          *)

RaceOf(p) ==
  IF p.format = "ck" THEN FormOf(EditorIDs, p.race, Races)
  ELSE FormOf(Forms, ResolveFormID(p.race), Races)

\* Complete(): no issue with plugins, race, sex, head parts, morphs, AVM or colors.
Complete(p, race, sex) ==
  /\ \A i \in DOMAIN p.plugins : FindLoadedPlugin(Loaded, Fold(p.plugins[i])) # {}
  /\ RaceOf(p) # NoName /\ RaceOf(p) = race
  /\ p.sex = sex
  /\ HeadPartsOK(p, RaceOf(p))
  /\ ShapesOK(p) /\ BonesOK(p)
  /\ \A i \in DOMAIN p.layers : LayerOK(p.layers[i])
  /\ ColorsOK(p)

\* What the preset resolves to, once it does.
Dependencies(p) ==
  [race   |-> RaceOf(p),
   unique |-> [type \in UniqueSlots |-> SlotPart(p, type)],
   misc   |-> MiscParts(p),
   avm    |-> [i \in DOMAIN p.layers |-> AvmEntry(p.layers[i])]]

ResolveAppearanceDependencies(p, race, sex) ==
  IF Complete(p, race, sex) THEN {Dependencies(p)} ELSE {}
=============================================================================
