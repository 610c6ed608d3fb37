----------------------- MODULE PresetApplicationProofs -----------------------
(***************************************************************************)
(* Proofs about PresetApplication: a look that passes ValidateMorphs and   *)
(* ValidateVisuals shows the preset, however it came about; and where      *)
(* head parts can be removed, it shows no others.                          *)
(***************************************************************************)
EXTENDS PresetApplication, TLAPS, FiniteSetTheorems, WellFoundedInduction

Categories(deps) == {deps.avm[i].category : i \in DOMAIN deps.avm}

-----------------------------------------------------------------------------
(* Morphs.                                                                 *)

LEMMA SameIsPlain ==
  ASSUME NEW a, NEW b
  PROVE  SameShape(a, b) <=> Plain(a) = Plain(b)
BY DEF SameShape, Plain

LEMMA ShapesShown ==
  ASSUME NEW shapes, NEW p, ShapesValid(shapes, p)
  PROVE  {<<Plain(nv[1]), nv[2]>> : nv \in NonZero(shapes)} =
           {<<Plain(p.shapes[i].name), p.shapes[i].value>> : i \in {j \in DOMAIN p.shapes : p.shapes[j].value # 0}}
<1>1. ASSUME NEW n \in DOMAIN shapes, shapes[n] # 0
      PROVE  \E i \in DOMAIN p.shapes :
               p.shapes[i].value # 0 /\ <<Plain(n), shapes[n]>> = <<Plain(p.shapes[i].name), p.shapes[i].value>>
  <2>1. PICK i \in DOMAIN p.shapes : SameShape(n, p.shapes[i].name)
    BY <1>1 DEF ShapesValid
  <2>2. n \in {m \in DOMAIN shapes : SameShape(m, p.shapes[i].name)}
    BY <1>1, <2>1
  <2>3. shapes[n] = p.shapes[i].value
    BY <2>2 DEF ShapesValid
  <2>4. QED BY <1>1, <2>1, <2>3, SameIsPlain
<1>2. ASSUME NEW i \in DOMAIN p.shapes, p.shapes[i].value # 0
      PROVE  \E n \in DOMAIN shapes :
               shapes[n] # 0 /\ <<Plain(n), shapes[n]>> = <<Plain(p.shapes[i].name), p.shapes[i].value>>
  <2>1. PICK n \in DOMAIN shapes : SameShape(n, p.shapes[i].name) /\ shapes[n] = p.shapes[i].value
    <3>1. {m \in DOMAIN shapes : SameShape(m, p.shapes[i].name)} # {}
      BY <1>2 DEF ShapesValid
    <3>2. QED BY <3>1 DEF ShapesValid
  <2>2. QED BY <1>2, <2>1, SameIsPlain
<1>3. {<<Plain(nv[1]), nv[2]>> : nv \in NonZero(shapes)} =
        {<<Plain(n), shapes[n]>> : n \in {x \in DOMAIN shapes : shapes[x] # 0}}
  <2> DEFINE found == {x \in DOMAIN shapes : shapes[x] # 0}
  <2>1. ASSUME NEW nv \in NonZero(shapes)
        PROVE  \E n \in found : <<Plain(nv[1]), nv[2]>> = <<Plain(n), shapes[n]>>
    <3>1. PICK n \in found : nv = <<n, shapes[n]>>
      BY <2>1 DEF NonZero
    <3>2. nv[1] = n /\ nv[2] = shapes[n]
      BY <3>1
    <3>3. QED BY <3>1, <3>2
  <2>2. ASSUME NEW n \in found
        PROVE  \E nv \in NonZero(shapes) : <<Plain(nv[1]), nv[2]>> = <<Plain(n), shapes[n]>>
    <3>1. <<n, shapes[n]>> \in NonZero(shapes)
      BY <2>2 DEF NonZero
    <3>2. <<n, shapes[n]>>[1] = n /\ <<n, shapes[n]>>[2] = shapes[n]
      OBVIOUS
    <3>3. QED BY <3>1, <3>2
  <2>3. QED BY <2>1, <2>2
<1>4. {<<Plain(n), shapes[n]>> : n \in {x \in DOMAIN shapes : shapes[x] # 0}} =
        {<<Plain(p.shapes[i].name), p.shapes[i].value>> : i \in {j \in DOMAIN p.shapes : p.shapes[j].value # 0}}
  BY <1>1, <1>2
<1>5. QED BY <1>3, <1>4

LEMMA BonesShown ==
  ASSUME NEW look, NEW p, SlidersValid(look, p)
  PROVE  NonZero(look.bones) =
           {<<BoneKey(p, at), Slider(p, at).value>> : at \in {b \in BonePositions(p) : Slider(p, b).value # 0}}
<1>1. \A at \in BonePositions(p) : Agrees(look.bones, BoneKey(p, at), Slider(p, at).value)
  BY DEF SlidersValid
<1>2. DOMAIN BoneValues(p) = {BoneKey(p, at) : at \in BonePositions(p)}
  BY DEF BoneValues, LastValues
<1>3. \A k \in DOMAIN look.bones : \E at \in BonePositions(p) : BoneKey(p, at) = k
  BY <1>2 DEF SlidersValid
<1>4. QED BY <1>1, <1>3 DEF NonZero, Agrees

LEMMA GroupsShown ==
  ASSUME NEW look, NEW p, SlidersValid(look, p)
  PROVE  NonZero(look.groups) =
           {<<GroupKey(p, at), Slider(p, at).value>> : at \in {b \in GroupPositions(p) : Slider(p, b).value # 0}}
<1>1. \A at \in GroupPositions(p) : Agrees(look.groups, GroupKey(p, at), Slider(p, at).value)
  BY DEF SlidersValid
<1>2. \A k \in DOMAIN look.groups : \E at \in GroupPositions(p) : GroupKey(p, at) = k
  BY DEF SlidersValid
<1>3. QED BY <1>1, <1>2 DEF NonZero, Agrees

-----------------------------------------------------------------------------
(* Head parts and tints.                                                   *)

\* Every nonempty set of naturals has a least element.
LEMMA LeastNat ==
  ASSUME NEW S \in SUBSET Nat, S # {}
  PROVE  \E n \in S : \A m \in S : n <= m
<1>1. PICK n \in S : \A m \in S : ~(<<m, n>> \in OpToRel(<, Nat))
  BY NatLessThanWellFounded, WFMin
<1>2. \A m \in S : m < n => <<m, n>> \in OpToRel(<, Nat)
  BY DEF OpToRel
<1>3. \A m \in S : ~(m < n)
  BY <1>1, <1>2, Zenon
<1>4. QED BY <1>3

\* A type that occurs in an array has a first part.
LEMMA FirstExists ==
  ASSUME NEW T, NEW parts \in Seq(T), NEW type, NEW part \in PartsOf(parts), PartType[part] = type
  PROVE  FirstOfType(parts, type) # {}
<1> DEFINE S == {k \in DOMAIN parts : IsOfType(parts[k], type)}
<1>1. DOMAIN parts = 1 .. Len(parts) /\ Len(parts) \in Nat
  OBVIOUS
<1>2. S \in SUBSET Nat /\ S # {}
  BY <1>1 DEF PartsOf, IsOfType
<1>3. PICK k \in S : \A j \in S : k <= j
  <2> HIDE DEF S
  <2>1. QED BY <1>2, LeastNat
<1>4. \A j \in 1 .. k - 1 : ~IsOfType(parts[j], type)
  BY <1>1, <1>3
<1>5. parts[k] \in FirstOfType(parts, type)
  BY <1>3, <1>4 DEF FirstOfType
<1>6. QED BY <1>5

\* The first part of a type is in the array and of that type.
LEMMA FirstFits ==
  ASSUME NEW parts, NEW type, NEW part \in FirstOfType(parts, type)
  PROVE  part \in PartsOf(parts) /\ PartType[part] = type
BY DEF FirstOfType, PartsOf, IsOfType

LEMMA PartsShown ==
  ASSUME NEW T, NEW parts \in Seq(T), NEW deps, HeadPartsMatch(parts, deps)
  PROVE  SlotsShow(parts, deps)
<1>1. \A type \in UniqueSlots : FirstOfType(parts, type) = {deps.unique[type]} \ {NoName}
  BY DEF HeadPartsMatch
<1>2. ASSUME NEW part \in UniqueParts(deps) PROVE LeadsItsType(parts, part)
  <2>1. PICK type \in UniqueSlots : part = deps.unique[type] /\ part # NoName
    BY <1>2 DEF UniqueParts
  <2>2. part \in FirstOfType(parts, type)
    BY <1>1, <2>1
  <2>3. QED BY <2>2 DEF FirstOfType, IsOfType, LeadsItsType
<1>3. ASSUME NEW part \in PartsOf(parts), PartType[part] \in UniqueSlots
      PROVE  deps.unique[PartType[part]] # NoName
  BY <1>1, <1>3, FirstExists
<1>4. QED BY <1>2, <1>3 DEF SlotsShow

-----------------------------------------------------------------------------
(* What the application leaves in the array of head parts.                 *)

\* SetToSeq lists a set.
LEMMA SetListed ==
  ASSUME NEW S, IsFiniteSet(S)
  PROVE  /\ SetToSeq(S) \in Seq(S)
         /\ {SetToSeq(S)[i] : i \in DOMAIN SetToSeq(S)} = S
<1> DEFINE n == Cardinality(S)
<1>1. n \in Nat /\ IsFiniteSet(1 .. n) /\ Cardinality(1 .. n) = n
  BY FS_CardinalityType, FS_Interval
<1>2. ExistsBijection(1 .. n, S)
  BY <1>1, FS_SameCardinalityBij
<1>3. PICK f \in [1 .. n -> S] : IsInjective(f)
  BY <1>2 DEF ExistsBijection, Bijection, Injection
<1>4. SetToSeq(S) \in [1 .. n -> S] /\ IsInjective(SetToSeq(S))
  BY <1>3 DEF SetToSeq
<1>5. SetToSeq(S) \in Injection(1 .. n, S)
  BY <1>4 DEF Injection
<1>6. SetToSeq(S) \in Surjection(1 .. n, S)
  BY <1>1, <1>5, FS_Injection
<1>7. \A x \in S : \E i \in 1 .. n : SetToSeq(S)[i] = x
  BY <1>6 DEF Surjection
<1>8. QED BY <1>1, <1>4, <1>7

LEMMA WithoutParts ==
  ASSUME NEW T, NEW parts \in Seq(T), NEW gone
  PROVE  /\ Without(parts, gone) \in Seq(T \cup {NoName})
         /\ PartsOf(Without(parts, gone)) = PartsOf(parts) \ gone
<1> DEFINE w == Without(parts, gone)
<1>1. DOMAIN parts = 1 .. Len(parts) /\ Len(parts) \in Nat /\ \A i \in DOMAIN parts : parts[i] \in T
  OBVIOUS
<1>2. DOMAIN w = DOMAIN parts
      /\ \A i \in DOMAIN parts : w[i] = IF parts[i] \in gone THEN NoName ELSE parts[i]
  BY DEF Without
<1>3. w \in [1 .. Len(parts) -> T \cup {NoName}]
  BY <1>1 DEF Without
<1>4. w \in Seq(T \cup {NoName})
  BY <1>1, <1>3
<1>5. PartsOf(w) = PartsOf(parts) \ gone
  BY <1>2 DEF PartsOf
<1>6. QED BY <1>4, <1>5

LEMMA JoinedParts ==
  ASSUME NEW T, NEW s \in Seq(T), NEW t \in Seq(T)
  PROVE  PartsOf(s \o t) = PartsOf(s) \cup PartsOf(t)
<1>1. /\ Len(s) \in Nat /\ Len(t) \in Nat
      /\ DOMAIN s = 1 .. Len(s) /\ DOMAIN t = 1 .. Len(t)
      /\ DOMAIN (s \o t) = 1 .. Len(s) + Len(t)
      /\ \A i \in 1 .. Len(s) + Len(t) : (s \o t)[i] = IF i <= Len(s) THEN s[i] ELSE t[i - Len(s)]
  OBVIOUS
<1>2. \A i \in DOMAIN s : i \in DOMAIN (s \o t) /\ (s \o t)[i] = s[i]
  BY <1>1
<1>3. \A i \in DOMAIN t : Len(s) + i \in DOMAIN (s \o t) /\ (s \o t)[Len(s) + i] = t[i]
  BY <1>1
<1>4. \A i \in DOMAIN (s \o t) :
        \/ i \in DOMAIN s /\ (s \o t)[i] = s[i]
        \/ i - Len(s) \in DOMAIN t /\ (s \o t)[i] = t[i - Len(s)]
  BY <1>1
<1>5. ASSUME NEW part \in PartsOf(s \o t) PROVE part \in PartsOf(s) \cup PartsOf(t)
  <2>1. PICK i \in DOMAIN (s \o t) : part = (s \o t)[i] /\ part # NoName
    BY <1>5 DEF PartsOf
  <2>2. CASE i \in DOMAIN s /\ (s \o t)[i] = s[i]
    BY <2>1, <2>2 DEF PartsOf
  <2>3. CASE i - Len(s) \in DOMAIN t /\ (s \o t)[i] = t[i - Len(s)]
    BY <2>1, <2>3 DEF PartsOf
  <2>4. QED BY <1>4, <2>2, <2>3
<1>6. ASSUME NEW part \in PartsOf(s) PROVE part \in PartsOf(s \o t)
  <2>1. PICK i \in DOMAIN s : part = s[i] /\ part # NoName
    BY <1>6 DEF PartsOf
  <2>2. QED BY <1>2, <2>1 DEF PartsOf
<1>7. ASSUME NEW part \in PartsOf(t) PROVE part \in PartsOf(s \o t)
  <2>1. PICK i \in DOMAIN t : part = t[i] /\ part # NoName
    BY <1>7 DEF PartsOf
  <2>2. QED BY <1>3, <2>1 DEF PartsOf
<1>8. QED BY <1>5, <1>6, <1>7

\* What new parts leave of an array, and that they are in it.
LEMMA ChangedParts ==
  ASSUME NEW T, NEW parts \in Seq(T), NEW new \in SUBSET T, IsFiniteSet(new)
  PROVE  /\ ChangeHeadParts(parts, new) \in Seq(T \cup {NoName})
         /\ PartsOf(ChangeHeadParts(parts, new)) =
              (PartsOf(parts) \ Displaced(parts, new)) \cup (OneOfEachType(new) \ {NoName})
<1> DEFINE kept  == Without(parts, Displaced(parts, new))
           added == SetToSeq(OneOfEachType(new))
<1>1. kept \in Seq(T \cup {NoName}) /\ PartsOf(kept) = PartsOf(parts) \ Displaced(parts, new)
  BY WithoutParts
<1>2. OneOfEachType(new) \subseteq new
  BY DEF OneOfEachType
<1>3. IsFiniteSet(OneOfEachType(new))
  BY <1>2, FS_Subset
<1>4. added \in Seq(OneOfEachType(new)) /\ {added[i] : i \in DOMAIN added} = OneOfEachType(new)
  BY <1>3, SetListed
<1>5. added \in Seq(T \cup {NoName}) /\ PartsOf(added) = OneOfEachType(new) \ {NoName}
  <2>1. OneOfEachType(new) \subseteq T \cup {NoName}
    BY <1>2
  <2> HIDE DEF added
  <2>2. DOMAIN added = 1 .. Len(added) /\ Len(added) \in Nat /\ added = [i \in 1 .. Len(added) |-> added[i]]
    BY <1>4
  <2>3. \A i \in 1 .. Len(added) : added[i] \in T \cup {NoName}
    BY <1>4, <2>1, <2>2
  <2>4. added \in Seq(T \cup {NoName})
    BY <2>2, <2>3
  <2>5. PartsOf(added) = OneOfEachType(new) \ {NoName}
    BY <1>4 DEF PartsOf
  <2>6. QED BY <2>4, <2>5
<1>6. ChangeHeadParts(parts, new) = kept \o added
  BY DEF ChangeHeadParts
<1> HIDE DEF kept, added
<1>7. QED BY <1>1, <1>5, <1>6, JoinedParts

\* Where parts can be removed, none is behind the preset's in an array that the
\* validation lets pass.
LEMMA SweptClean ==
  ASSUME NEW T, NEW parts \in Seq(T), NEW deps, NEW lost, "removePart" \notin lost,
         UniqueParts(deps) \cup deps.misc \subseteq T, IsFiniteSet(UniqueParts(deps) \cup deps.misc),
         HeadPartsMatch(ApplyHeadParts(parts, deps, lost), deps)
  PROVE  NoneBehind(ApplyHeadParts(parts, deps, lost), deps)
<1> DEFINE left == Without(parts, Replaced(parts, deps))
           new  == (UniqueParts(deps) \cup deps.misc) \ PartsOf(left)
           all  == ApplyHeadParts(parts, deps, lost)
<1>1. /\ left \in Seq(T \cup {NoName})
      /\ PartsOf(left) = PartsOf(parts) \ Replaced(parts, deps)
  BY WithoutParts
<1>2. ASSUME NEW part \in PartsOf(left), PartType[part] \in UniqueSlots
      PROVE  part = deps.unique[PartType[part]]
  BY <1>1, <1>2 DEF Replaced
<1>3. new \in SUBSET (T \cup {NoName}) /\ IsFiniteSet(new)
  BY FS_Subset
<1>4. all = IF "changePart" \in lost THEN left ELSE ChangeHeadParts(left, new)
  BY DEF ApplyHeadParts
<1> HIDE DEF left, new, all
<1>5. /\ ChangeHeadParts(left, new) \in Seq(T \cup {NoName})
      /\ PartsOf(ChangeHeadParts(left, new)) =
           (PartsOf(left) \ Displaced(left, new)) \cup (OneOfEachType(new) \ {NoName})
  <2>1. (T \cup {NoName}) \cup {NoName} = T \cup {NoName}
    OBVIOUS
  <2>2. QED BY <1>1, <1>3, <2>1, ChangedParts
<1>6. all \in Seq(T \cup {NoName}) /\ HeadPartsMatch(all, deps)
  BY <1>1, <1>4, <1>5 DEF all
<1>7. ASSUME NEW part \in PartsOf(all), PartType[part] \in UniqueSlots
      PROVE  part = deps.unique[PartType[part]]
  <2> DEFINE type  == PartType[part]
             first == deps.unique[type]
  <2>1. first # NoName /\ first \in FirstOfType(all, type)
    <3>1. FirstOfType(all, type) # {}
      BY <1>6, <1>7, FirstExists
    <3>2. QED BY <1>6, <1>7, <3>1 DEF HeadPartsMatch
  <2>2. first \in PartsOf(all) /\ PartType[first] = type
    BY <2>1, FirstFits
  <2>3. CASE part \in PartsOf(left)
    BY <1>2, <1>7, <2>3
  <2>4. CASE part \notin PartsOf(left)
    <3>1. all = ChangeHeadParts(left, new) /\ part \in OneOfEachType(new)
      BY <1>4, <1>5, <1>7, <2>4
    <3>2. part \in new /\ type # Misc
      BY <1>7, <3>1 DEF OneOfEachType, UniqueSlots, Misc
    <3>3. part = CHOOSE m \in new : PartType[m] = type
      BY <3>1, <3>2 DEF OneOfEachType
    <3>4. first \notin PartsOf(left) \/ first \in Displaced(left, new)
      BY <2>2, <3>2 DEF Displaced
    <3>5. first \in OneOfEachType(new)
      BY <1>5, <2>2, <3>1, <3>4
    <3>6. first = CHOOSE m \in new : PartType[m] = type
      BY <2>2, <3>2, <3>5 DEF OneOfEachType
    <3>7. QED BY <3>3, <3>6
  <2>5. QED BY <2>3, <2>4
<1>8. SlotsShow(all, deps)
  BY <1>6, PartsShown
<1>9. ASSUME NEW part \in PartsOf(all), PartType[part] \in UniqueSlots
      PROVE  part \in UniqueParts(deps)
  BY <1>7, <1>9 DEF UniqueParts, PartsOf
<1>10. ASSUME NEW part \in UniqueParts(deps)
       PROVE  part \in PartsOf(all) /\ PartType[part] \in UniqueSlots
  <2>1. PICK type \in UniqueSlots : part = deps.unique[type] /\ part # NoName
    BY <1>10 DEF UniqueParts
  <2>2. part \in FirstOfType(all, type)
    BY <1>6, <2>1 DEF HeadPartsMatch
  <2>3. QED BY <2>1, <2>2, FirstFits
<1>11. NoneBehind(all, deps)
  BY <1>9, <1>10 DEF NoneBehind
<1>12. QED BY <1>11 DEF all

\* As many entries as layers are no others than theirs, if no two layers are of
\* one category.
LEMMA CountedTints ==
  ASSUME NEW tints, NEW deps, NEW S, deps.avm \in Seq(S),
         IsFiniteSet(DOMAIN tints), OneLayerEach(deps), TintsMatch(tints, deps)
  PROVE  DOMAIN tints = Categories(deps)
<1> DEFINE n == Len(deps.avm)
           category == [i \in 1 .. n |-> deps.avm[i].category]
<1>1. n \in Nat /\ DOMAIN deps.avm = 1 .. n
  OBVIOUS
<1>2. category \in Injection(1 .. n, Categories(deps))
  <2>1. category \in [1 .. n -> Categories(deps)]
    BY <1>1 DEF Categories
  <2>2. \A i, j \in 1 .. n : category[i] = category[j] => i = j
    BY <1>1 DEF OneLayerEach, NoRepetition
  <2>3. QED BY <2>1, <2>2 DEF Injection, IsInjective
<1>3. Categories(deps) \subseteq DOMAIN tints
  BY DEF TintsMatch, Categories
<1>4. IsFiniteSet(Categories(deps))
  BY <1>3, FS_Subset
<1>5. Cardinality(1 .. n) <= Cardinality(Categories(deps))
  BY <1>2, <1>4, FS_Injection
<1>6. Cardinality(1 .. n) = n
  BY <1>1, FS_Interval
<1>7. Cardinality(Categories(deps)) <= Cardinality(DOMAIN tints)
  BY <1>3, FS_Subset
<1>8. Cardinality(DOMAIN tints) = n
  BY DEF TintsMatch
<1>9. Cardinality(Categories(deps)) = Cardinality(DOMAIN tints)
  BY <1>1, <1>4, <1>5, <1>6, <1>7, <1>8, FS_CardinalityType
<1>10. QED BY <1>3, <1>9, FS_Subset

-----------------------------------------------------------------------------

\* What ValidateMorphs and ValidateVisuals let pass shows the preset: its shapes,
\* bones, groups and tints with their values, and no others that move or paint
\* anything; and its head parts, each before all others of its type, with none
\* of the types it leaves empty.  That no other part of a type is behind is not
\* in it: the code looks at the first.  Tints are only counted, so that this needs
\* layers of different categories, or to know that none was left over.
THEOREM ValidationIsSound ==
  ASSUME NEW look, NEW p, NEW deps, NEW S, deps.avm \in Seq(S), IsFiniteSet(DOMAIN look.tints),
         NEW T, look.parts \in Seq(T),
         ValidateMorphs(look, p), ValidateVisuals(look, p, deps),
         OneLayerEach(deps) \/ DOMAIN look.tints = Categories(deps)
  PROVE  ShowsPreset(look, p, deps)
<1>1. DOMAIN look.tints = Categories(deps)
  <2>1. TintsMatch(look.tints, deps)
    BY DEF ValidateVisuals
  <2>2. OneLayerEach(deps) => DOMAIN look.tints = Categories(deps)
    BY <2>1, CountedTints
  <2>3. QED BY <2>2
<1>2. {look.tints[c] : c \in DOMAIN look.tints} = {deps.avm[i] : i \in DOMAIN deps.avm}
  <2>1. TintsMatch(look.tints, deps)
    BY DEF ValidateVisuals
  <2>2. QED BY <1>1, <2>1 DEF TintsMatch, Categories
<1>3. SlotsShow(look.parts, deps)
  BY PartsShown DEF ValidateVisuals
<1>4. /\ look.weight = p.weight /\ look.skinTone = p.skinTone /\ look.colors = p.colors
      /\ p.body # <<>> => look.body = p.body
      /\ deps.misc \subseteq PartsOf(look.parts)
      /\ ~look.inherits
      /\ ShapesValid(look.shapes, p) /\ SlidersValid(look, p)
  BY DEF ValidateMorphs, ValidateVisuals, HeadPartsMatch
<1>5. {<<Plain(nv[1]), nv[2]>> : nv \in NonZero(look.shapes)} =
        {<<Plain(p.shapes[i].name), p.shapes[i].value>> : i \in {j \in DOMAIN p.shapes : p.shapes[j].value # 0}}
  BY <1>4, ShapesShown
<1>6. NonZero(look.bones) =
        {<<BoneKey(p, at), Slider(p, at).value>> : at \in {b \in BonePositions(p) : Slider(p, b).value # 0}}
  BY <1>4, BonesShown
<1>7. NonZero(look.groups) =
        {<<GroupKey(p, at), Slider(p, at).value>> : at \in {b \in GroupPositions(p) : Slider(p, b).value # 0}}
  BY <1>4, GroupsShown
<1>8. QED BY <1>2, <1>3, <1>4, <1>5, <1>6, <1>7 DEF ShowsPreset
=============================================================================
