-------------------------- MODULE PresetApplication --------------------------
(***************************************************************************)
(* How a preset is written onto a detached copy of an NPC and how the      *)
(* result is validated (src/Runtime/NPCPresetApplicator.cpp).              *)
(*                                                                         *)
(* An appearance is what the engine keeps of an NPC's looks: maps from     *)
(* keys to values, and an array of head parts, in which a type and even a  *)
(* part may occur more than once.  An absent container is an empty one.    *)
(* Setters are engine code: `lost` is the set of setters that have no      *)
(* effect on this carrier, which is what the validation is for.            *)
(***************************************************************************)
EXTENDS AppearanceDependencies, SequencesExt

Setters == {"body", "shape", "bone", "group", "removePart", "changePart", "removeTint", "setTint"}

Empty == [k \in {} |-> 0]
Override(f, g) == [k \in DOMAIN f \cup DOMAIN g |-> IF k \in DOMAIN g THEN g[k] ELSE f[k]]

-----------------------------------------------------------------------------
(* The values a preset names.  A later one replaces an earlier one.        *)

ShapeValues(p) ==
  LET names == {p.shapes[i].name : i \in DOMAIN p.shapes}
      last(n) == CHOOSE i \in DOMAIN p.shapes :
                   p.shapes[i].name = n /\ \A j \in DOMAIN p.shapes : p.shapes[j].name = n => j <= i
  IN  [n \in names |-> p.shapes[last(n)].value]

\* The positions of the sliders of all regions, in the order they are applied.
Positions(p) == UNION {{r} \X DOMAIN p.regions[r].sliders : r \in DOMAIN p.regions}
Slider(p, at) == p.regions[at[1]].sliders[at[2]]
NotAfter(a, b) == a[1] < b[1] \/ (a[1] = b[1] /\ a[2] <= b[2])

\* A slider with an ID moves a bone; one without an ID moves a group of its region.
BonePositions(p)  == {at \in Positions(p) : Slider(p, at).id # 0}
GroupPositions(p) == Positions(p) \ BonePositions(p)
BoneKey(p, at)    == Slider(p, at).id
GroupKey(p, at)   == <<p.regions[at[1]].region, Slider(p, at).group>>

LastValues(p, positions, Key(_, _)) ==
  [k \in {Key(p, at) : at \in positions} |->
    Slider(p, CHOOSE at \in positions :
                Key(p, at) = k /\ \A b \in positions : Key(p, b) = k => NotAfter(b, at)).value]

BoneValues(p)  == LastValues(p, BonePositions(p), BoneKey)
GroupValues(p) == LastValues(p, GroupPositions(p), GroupKey)

\* The entries of FaceDB by category.
TintOf(deps) ==
  LET categories == {deps.avm[i].category : i \in DOMAIN deps.avm}
      last(c) == CHOOSE i \in DOMAIN deps.avm :
                   deps.avm[i].category = c
                   /\ \A j \in DOMAIN deps.avm : deps.avm[j].category = c => j <= i
  IN  [c \in categories |-> deps.avm[last(c)]]

-----------------------------------------------------------------------------
(* ApplyMorphs and ApplyVisuals.                                           *)

Unless(setter, lost, values) == IF setter \in lost THEN Empty ELSE values

\* mutant: the groups of inherited regions are not cleared
ApplyMorphs_KeepGroups(look, p, lost) ==
  [look EXCEPT !.shapes = Unless("shape", lost, ShapeValues(p)),
               !.bones  = Unless("bone", lost, BoneValues(p)),
               !.groups = Override(look.groups, Unless("group", lost, GroupValues(p))),
               !.weight = p.weight,
               !.body   = IF p.body = <<>> \/ "body" \in lost THEN @ ELSE p.body]

\* Inherited shapes, bones and groups are cleared first.  Body morphs are set
\* only if the preset has any.
ApplyMorphs(look, p, lost) ==
  [look EXCEPT !.shapes = Unless("shape", lost, ShapeValues(p)),
               !.bones  = Unless("bone", lost, BoneValues(p)),
               !.groups = Unless("group", lost, GroupValues(p)),
               !.weight = p.weight,
               !.body   = IF p.body = <<>> \/ "body" \in lost THEN @ ELSE p.body]

UniqueParts(deps) == {deps.unique[type] : type \in UniqueSlots} \ {NoName}

\* The parts of an array.  Where a part was removed, NoName is left.
PartsOf(parts) == {parts[i] : i \in DOMAIN parts} \ {NoName}
Without(parts, gone) == [i \in DOMAIN parts |-> IF parts[i] \in gone THEN NoName ELSE parts[i]]

\* The parts that occupy a slot with something else than the preset's part.
Replaced(parts, deps) ==
  {part \in PartsOf(parts) : PartType[part] \in UniqueSlots /\ part # deps.unique[PartType[part]]}

\* ChangeHeadPart: a part takes the place of those with its type, misc parts
\* add up.  Of several new parts of a type one remains, here any one: another is
\* missing then, whichever it is.
OneOfEachType(new) ==
  {n \in new : PartType[n] = Misc \/ n = CHOOSE m \in new : PartType[m] = PartType[n]}
Displaced(parts, new) ==
  {part \in PartsOf(parts) : \E n \in new : PartType[n] = PartType[part] /\ PartType[n] # Misc}
ChangeHeadParts(parts, new) ==
  Without(parts, Displaced(parts, new)) \o SetToSeq(OneOfEachType(new))

ApplyHeadParts(parts, deps, lost) ==
  LET left == IF "removePart" \in lost THEN parts ELSE Without(parts, Replaced(parts, deps))
      new  == (UniqueParts(deps) \cup deps.misc) \ PartsOf(left)
  IN  IF "changePart" \in lost THEN left ELSE ChangeHeadParts(left, new)

\* Undesired categories are removed, the others set.
ApplyTints(tints, deps, lost) ==
  LET wanted == TintOf(deps)
      left   == IF "removeTint" \in lost THEN tints
                ELSE [c \in DOMAIN tints \cap DOMAIN wanted |-> tints[c]]
  IN  Override(left, Unless("setTint", lost, wanted))

ApplyVisuals(look, p, deps, lost) ==
  [look EXCEPT !.parts    = ApplyHeadParts(@, deps, lost),
               !.skinTone = p.skinTone,
               !.colors   = p.colors,
               !.tints    = ApplyTints(@, deps, lost),
               !.inherits = FALSE]

-----------------------------------------------------------------------------
(* ValidateMorphs and ValidateVisuals.                                     *)

\* What is found under a key has the value asked for; zero may be absent.
Agrees(found, key, value) == IF key \in DOMAIN found THEN found[key] = value ELSE value = 0

\* Shape names are compared without case, although the engine keeps them apart.
SameShape(a, b) == [a EXCEPT !.spelling = 0] = [b EXCEPT !.spelling = 0]

ShapesValid(shapes, p) ==
  /\ \A i \in DOMAIN p.shapes :
       LET same == {n \in DOMAIN shapes : SameShape(n, p.shapes[i].name)}
       IN  IF same = {} THEN p.shapes[i].value = 0
           ELSE \A n \in same : shapes[n] = p.shapes[i].value
  /\ \A n \in DOMAIN shapes : \E i \in DOMAIN p.shapes : SameShape(n, p.shapes[i].name)

\* Every slider is found with its value.  Nothing else is there, where a group
\* is looked for in the first region with its ID only.
SlidersValid(look, p) ==
  /\ \A at \in BonePositions(p) : Agrees(look.bones, BoneKey(p, at), Slider(p, at).value)
  /\ \A at \in GroupPositions(p) : Agrees(look.groups, GroupKey(p, at), Slider(p, at).value)
  /\ DOMAIN look.bones \subseteq DOMAIN BoneValues(p)
  /\ \A key \in DOMAIN look.groups :
       \E at \in GroupPositions(p) :
         /\ GroupKey(p, at) = key
         /\ \A r \in 1 .. at[1] - 1 : p.regions[r].region # key[1]

ValidateMorphs(look, p) ==
  /\ look.weight = p.weight
  /\ p.body # <<>> => look.body = p.body
  /\ ShapesValid(look.shapes, p)
  /\ SlidersValid(look, p)

\* The first part of a type, if there is one.
IsOfType(part, type) == part # NoName /\ PartType[part] = type
FirstOfType(parts, type) ==
  {parts[i] : i \in {k \in DOMAIN parts : /\ IsOfType(parts[k], type)
                                        /\ \A j \in 1 .. k - 1 : ~IsOfType(parts[j], type)}}

\* mutant: a slot that the preset leaves empty is not looked at
HeadPartsMatch_Wanted(parts, deps) == UniqueParts(deps) \cup deps.misc \subseteq PartsOf(parts)

\* The first part of each slot's type is the preset's, or there is none; misc
\* parts are present.
HeadPartsMatch(parts, deps) ==
  /\ \A type \in UniqueSlots : FirstOfType(parts, type) = {deps.unique[type]} \ {NoName}
  /\ deps.misc \subseteq PartsOf(parts)

\* As many entries as layers, and one with the values of each layer.
TintsMatch(tints, deps) ==
  /\ Cardinality(DOMAIN tints) = Len(deps.avm)
  /\ \A i \in DOMAIN deps.avm :
       deps.avm[i].category \in DOMAIN tints /\ tints[deps.avm[i].category] = deps.avm[i]

ValidateVisuals(look, p, deps) ==
  /\ HeadPartsMatch(look.parts, deps)
  /\ look.skinTone = p.skinTone
  /\ look.colors = p.colors
  /\ TintsMatch(look.tints, deps)
  /\ ~look.inherits

-----------------------------------------------------------------------------
(* What validation is for, said without looking at how it is done.         *)

NonZero(f) == {<<k, f[k]>> : k \in {x \in DOMAIN f : f[x] # 0}}
Plain(n)   == [n EXCEPT !.spelling = 0]

\* In the slots of a head the preset's parts come before all others of their type,
\* and the slots it leaves empty are empty.
LeadsItsType(parts, part) ==
  \E i \in DOMAIN parts :
    parts[i] = part /\ \A j \in 1 .. i - 1 : parts[j] # NoName => PartType[parts[j]] # PartType[part]
SlotsShow(parts, deps) ==
  /\ \A part \in UniqueParts(deps) : LeadsItsType(parts, part)
  /\ \A part \in PartsOf(parts) :
       PartType[part] \in UniqueSlots => deps.unique[PartType[part]] # NoName

\* And no part is behind one of them.
NoneBehind(parts, deps) ==
  {part \in PartsOf(parts) : PartType[part] \in UniqueSlots} = UniqueParts(deps)

\* A look shows a preset: these values, and no others that move or paint anything.
ShowsPreset(look, p, deps) ==
  /\ look.weight = p.weight /\ look.skinTone = p.skinTone /\ look.colors = p.colors
  /\ p.body # <<>> => look.body = p.body
  /\ {<<Plain(nv[1]), nv[2]>> : nv \in NonZero(look.shapes)} =
       {<<Plain(p.shapes[i].name), p.shapes[i].value>> : i \in {j \in DOMAIN p.shapes : p.shapes[j].value # 0}}
  /\ NonZero(look.bones) =
       {<<BoneKey(p, at), Slider(p, at).value>> : at \in {b \in BonePositions(p) : Slider(p, b).value # 0}}
  /\ NonZero(look.groups) =
       {<<GroupKey(p, at), Slider(p, at).value>> : at \in {b \in GroupPositions(p) : Slider(p, b).value # 0}}
  /\ SlotsShow(look.parts, deps)
  /\ deps.misc \subseteq PartsOf(look.parts)
  /\ {look.tints[c] : c \in DOMAIN look.tints} = {deps.avm[i] : i \in DOMAIN deps.avm}
  /\ ~look.inherits

\* No two layers are of one category.
OneLayerEach(deps) == NoRepetition([i \in DOMAIN deps.avm |-> deps.avm[i].category])

\* A preset contradicts itself when two of its values are for one thing, when it
\* names a group in a region that it has listed before, or a misc part for a slot
\* or for the place of another one.
Conflicting(p, deps) ==
  \/ \E i, j \in DOMAIN p.shapes :
       SameShape(p.shapes[i].name, p.shapes[j].name) /\ p.shapes[i].value # p.shapes[j].value
  \/ \E a, b \in BonePositions(p) :
       BoneKey(p, a) = BoneKey(p, b) /\ Slider(p, a).value # Slider(p, b).value
  \/ \E a, b \in GroupPositions(p) :
       GroupKey(p, a) = GroupKey(p, b) /\ Slider(p, a).value # Slider(p, b).value
  \/ \E at \in GroupPositions(p) :
       \E r \in 1 .. at[1] - 1 : p.regions[r].region = p.regions[at[1]].region
  \/ \E part \in deps.misc : PartType[part] \in UniqueSlots
  \/ \E a, b \in deps.misc : a # b /\ PartType[a] = PartType[b] /\ PartType[a] # Misc
  \/ ~OneLayerEach(deps)
=============================================================================
