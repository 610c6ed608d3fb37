-------------------------- MODULE AppearancePreset ---------------------------
(***************************************************************************)
(* What the parsers of src/Config/Preset.cpp accept and what they make of  *)
(* it: a preset exported by the Creation Kit or by CharGenMenu (.npc), and *)
(* a CharGen JSON preset (.json).                                          *)
(*                                                                         *)
(* A document is a record of what the JSON schema has read.  `wellFormed`  *)
(* stands for everything about its text: its size, its JSON, no unknown or *)
(* missing key, no control character in a string, plugin names that are    *)
(* plugin names and references of the form plugin|hex.  Fractions count in *)
(* units of 1/256, so that a tint intensity may miss the grid of 1/128.    *)
(* The result of a parser is a set: empty, or the one preset.              *)
(***************************************************************************)
EXTENDS Integers, Sequences

CONSTANTS
  MaxID,   \* the greatest runtime ID: 2^32 - 1 in the program
  MaxByte, \* the greatest byte
  NoName   \* an empty string, or an absent reference

ASSUME WidthAssumption ==
  MaxByte \in Nat /\ MaxID \in Nat /\ MaxID % (MaxByte + 1) = MaxByte

One == 256
BodyMorphRegionCount == 5
Sexes == {"Male", "Female"}
NoColor == <<>>

\* A name is its rank when folded to lower case, and its spelling.
Fold(name) == name[1]

NoRepetition(s) == \A i, j \in DOMAIN s : s[i] = s[j] => i = j

-----------------------------------------------------------------------------
(* The validator.                                                          *)

Bounded(v, low, high) == low <= v /\ v <= high
AllBounded(s, low, high) == \A i \in DOMAIN s : Bounded(s[i], low, high)
Index(v, high) == Bounded(v, 0, high)

\* A serialized ID is a 32-bit pattern, written as a signed or an unsigned number.
RuntimeID(v) == Bounded(v, -((MaxID + 1) \div 2), MaxID)

\* mutant: the sign bit is dropped instead of reinterpreted
DecodeRuntimeID_Magnitude(v) == IF v < 0 THEN -v ELSE v

DecodeRuntimeID(v) == IF v < 0 THEN v + MaxID + 1 ELSE v

BodyMorphsAccepted(values) ==
  Len(values) \in {0, BodyMorphRegionCount} /\ AllBounded(values, 0, One)

MorphsAccepted(shapes) ==
  \A i \in DOMAIN shapes : shapes[i].name # NoName /\ Bounded(shapes[i].value, 0, One)

\* CharGenMenu and CharGen JSON store the packed intensity, 0 .. 128, as a
\* fraction; the Creation Kit's fraction is scaled to 0 .. 64.
OnTintGrid(intensity)     == (intensity * 128) % One = 0
PackCharGen(intensity)    == (intensity * 128) \div One
PackCk(intensity)         == (intensity * 64) \div One
ColorAccepted(color)      == \A i \in DOMAIN color : Index(color[i], MaxByte)

-----------------------------------------------------------------------------
(* .npc                                                                    *)

BoneRegionsAccepted(regions) ==
  \A r \in DOMAIN regions :
    /\ RuntimeID(regions[r].region)
    /\ \A s \in DOMAIN regions[r].sliders :
         LET slider == regions[r].sliders[s]
         IN  RuntimeID(slider.id) /\ Bounded(slider.value, -One, One)

ReadBoneRegions(regions) ==
  [r \in DOMAIN regions |->
    [region  |-> DecodeRuntimeID(regions[r].region),
     sliders |-> [s \in DOMAIN regions[r].sliders |->
                   [regions[r].sliders[s] EXCEPT !.id = DecodeRuntimeID(@)]]]]

TintLayersAccepted(layers, charGenMenu) ==
  \A i \in DOMAIN layers :
    /\ layers[i].name # NoName
    /\ Bounded(layers[i].intensity, 0, One)
    /\ ColorAccepted(layers[i].color)
    /\ charGenMenu => OnTintGrid(layers[i].intensity)

ReadTintLayers(layers, charGenMenu) ==
  [i \in DOMAIN layers |->
    [layers[i] EXCEPT !.intensity = IF charGenMenu THEN PackCharGen(@) ELSE PackCk(@)]]

\* Only a preset of CharGenMenu has no NPC editor ID; its skin tone is a word
\* whose upper bytes are padding.
IsCharGenMenu(d) == d.editorID = NoName

CkAccepted(d) ==
  /\ d.wellFormed
  /\ d.race # NoName
  /\ Index(d.skinTone, IF IsCharGenMenu(d) THEN MaxID ELSE MaxByte)
  /\ d.sex \in Sexes
  /\ BodyMorphsAccepted(d.body)
  /\ Bounded(d.weight, 0, One)
  /\ MorphsAccepted(d.shapes)
  /\ BoneRegionsAccepted(d.regions)
  /\ TintLayersAccepted(d.layers, IsCharGenMenu(d))

ParseCkPreset(d) ==
  IF ~CkAccepted(d) THEN {}
  ELSE {[format   |-> "ck",
         race     |-> d.race,
         plugins  |-> <<>>,
         sex      |-> d.sex,
         skinTone |-> d.skinTone % (MaxByte + 1),
         body     |-> d.body,
         weight   |-> d.weight,
         unique   |-> d.unique,
         misc     |-> d.misc,
         forms    |-> <<>>,
         shapes   |-> d.shapes,
         regions  |-> ReadBoneRegions(d.regions),
         layers   |-> ReadTintLayers(d.layers, IsCharGenMenu(d)),
         colors   |-> d.colors]}

-----------------------------------------------------------------------------
(* .json: the maps of the document are sequences sorted by key.            *)

FormKey(reference) == <<Fold(reference.plugin), reference.local>>

ReferencesAccepted(d) ==
  LET plugins == {Fold(d.plugins[i]) : i \in DOMAIN d.plugins}
  IN  /\ d.plugins # <<>>
      /\ NoRepetition([i \in DOMAIN d.plugins |-> Fold(d.plugins[i])])
      /\ Fold(d.race.plugin) \in plugins
      /\ \A i \in DOMAIN d.forms : Fold(d.forms[i].plugin) \in plugins
      /\ NoRepetition([i \in DOMAIN d.forms |-> FormKey(d.forms[i])])

\* The region of the additional sliders keeps the region ID of a new record, 0.
JsonRegions(d) ==
  [r \in DOMAIN d.morphs |->
    [region  |-> d.morphs[r].region,
     sliders |-> [s \in DOMAIN d.morphs[r].sliders |->
                   [group |-> d.morphs[r].sliders[s].group, id |-> 0,
                    value |-> d.morphs[r].sliders[s].value]]]]
  \o IF d.additional = <<>> THEN <<>>
     ELSE <<[region  |-> 0,
             sliders |-> [s \in DOMAIN d.additional |->
                           [group |-> NoName, id |-> d.additional[s].id,
                            value |-> d.additional[s].value]]]>>

JsonLayersAccepted(layers) ==
  \A i \in DOMAIN layers :
    /\ layers[i].name # NoName /\ layers[i].value # NoName /\ layers[i].texture # NoName
    /\ Bounded(layers[i].intensity, 0, One) /\ OnTintGrid(layers[i].intensity)
    /\ layers[i].material \in {1, 2}
    /\ layers[i].color # NoColor /\ ColorAccepted(layers[i].color)

JsonAccepted(d) ==
  /\ d.wellFormed /\ d.version = 2
  /\ Index(d.skinTone, MaxByte)
  /\ d.sex \in Sexes
  /\ ReferencesAccepted(d)
  /\ BodyMorphsAccepted(d.body)
  /\ Bounded(d.weight, 0, One)
  /\ MorphsAccepted(d.shapes)
  /\ \A r \in DOMAIN d.morphs :
       /\ Index(d.morphs[r].region, MaxID)
       /\ \A s \in DOMAIN d.morphs[r].sliders :
            /\ d.morphs[r].sliders[s].group # NoName
            /\ Bounded(d.morphs[r].sliders[s].value, -One, One)
  /\ \A s \in DOMAIN d.additional :
       /\ Index(d.additional[s].id, MaxID) /\ d.additional[s].id # 0
       /\ Bounded(d.additional[s].value, -One, One)
  /\ JsonLayersAccepted(d.layers)

ParseCharGenJsonPreset(d) ==
  IF ~JsonAccepted(d) THEN {}
  ELSE {[format   |-> "json",
         race     |-> d.race,
         plugins  |-> d.plugins,
         sex      |-> d.sex,
         skinTone |-> d.skinTone,
         body     |-> d.body,
         weight   |-> d.weight,
         unique   |-> <<>>,
         misc     |-> <<>>,
         forms    |-> d.forms,
         shapes   |-> d.shapes,
         regions  |-> JsonRegions(d),
         layers   |-> [i \in DOMAIN d.layers |-> [d.layers[i] EXCEPT !.intensity = PackCharGen(@)]],
         colors   |-> d.colors]}

LoadPreset(d) == IF d.format = "ck" THEN ParseCkPreset(d) ELSE ParseCharGenJsonPreset(d)
=============================================================================
