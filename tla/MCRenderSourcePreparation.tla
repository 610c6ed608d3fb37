---------------------- MODULE MCRenderSourcePreparation ----------------------
(* An instance of RenderSourcePreparation for TLC.  Its presets differ in   *)
(* what they name, and in the ways a preset may contradict itself or the    *)
(* game's data; its NPCs in what the copy inherits from them.               *)
EXTENDS RenderSourcePreparation

MCLoaded ==
  [full   |-> <<[name |-> 1, compileIndex |-> 0]>>,
   medium |-> <<>>,
   small  |-> <<[name |-> 2, compileIndex |-> 0]>>]

Esm   == <<1, 1>>
Small == <<2, 1>>
Absent == <<3, 1>>
Ref(plugin, local) == [plugin |-> plugin, local |-> local]

\* Head parts by type.  The parts of type 9 and above come with others: "cap"
\* brings its hair along, and each of the chain brings the next.
Types ==
  [face |-> 1, eyes |-> 2, hair |-> 3, bald |-> 3, beard |-> 4, scar |-> 0, mark |-> 0,
   null |-> 3, stray |-> 3, crown |-> 3, many |-> 3, deep |-> 3, wide |-> 3,
   cap |-> 9, lash |-> 9, wings |-> 10, odd |-> 12, ghost |-> 9, a |-> 9, b |-> 9, c |-> 9]
Chain == <<"p1", "p2", "p3", "p4", "p5", "p6", "p7">>
MCHeadParts == DOMAIN Types \cup {Chain[i] : i \in DOMAIN Chain}
MCPartType  == [p \in MCHeadParts |-> IF p \in DOMAIN Types THEN Types[p] ELSE 9]
MCPartRaces == [p \in MCHeadParts |-> IF p = "beard" THEN {"Alien"} ELSE {"Human"}]
MCExtras ==
  [[p \in MCHeadParts |->
     IF \E i \in 1 .. Len(Chain) - 1 : Chain[i] = p
     THEN <<Chain[1 + CHOOSE i \in 1 .. Len(Chain) - 1 : Chain[i] = p]>> ELSE <<>>] EXCEPT
     !["hair"] = <<"cap", "lash">>, !["cap"] = <<"hair">>, !["eyes"] = <<"lash">>,
     !["null"] = <<NoName>>, !["stray"] = <<"ghost">>, !["crown"] = <<"odd">>,
     !["many"] = <<"cap", "lash", "lash", "lash">>, !["deep"] = <<"p1">>,
     !["wide"] = <<"a", "b", "c">>,
     !["a"] = <<"b", "c", "a">>, !["b"] = <<"c", "a", "b">>, !["c"] = <<"a", "b", "c">>]
MCSound == MCHeadParts \ {"ghost"}

MCForms ==
  [f \in {[top |-> 0, low |-> 1], [top |-> 0, low |-> 3], [top |-> 0, low |-> 4],
          [top |-> 254, low |-> 5], [top |-> 0, low |-> 6]} |->
     CASE f.low = 1 -> "Human" [] f.low = 3 -> "hair" [] f.low = 4 -> "scar"
       [] f.low = 5 -> "face"  [] OTHER -> "bald"]
MCEditorIDs == [n \in MCHeadParts \cup {"Human", "Alien"} |-> n]

Shape(descriptor, spelling) == [descriptor |-> descriptor, group |-> "G", spelling |-> spelling]
Morph(name, value) == [name |-> name, value |-> value]
Bone(id, value)    == [group |-> NoName, id |-> id, value |-> value]
Group(name, value) == [group |-> name, id |-> 0, value |-> value]
Region(id, sliders) == [region |-> id, sliders |-> sliders]
Layer(name, value, modulation, color, intensity) ==
  [name |-> name, value |-> value, modulation |-> modulation, color |-> color, material |-> 0,
   texture |-> NoName, intensity |-> intensity]
Red == <<255, 0, 0, 0>>

MCAvm ==
  [makeup |-> [complex |-> FALSE, values |-> {"v"}, modulations |-> {"m"}],
   scars  |-> [complex |-> TRUE, values |-> {"v"}, modulations |-> {}]]
MCPalette == [p \in MCHeadParts |-> IF p = "hair" THEN {"black"} ELSE {}]

Slots(face, eyes, hair, misc) ==
  <<misc, face, eyes, hair, NoName, NoName, NoName, NoName, NoName>>

\* A preset of the Creation Kit that names nothing but a face.
Plainest ==
  [format |-> "ck", wellFormed |-> TRUE, race |-> "Human", editorID |-> "Npc", sex |-> "Male",
   skinTone |-> 3, body |-> <<>>, weight |-> 128, unique |-> Slots("face", NoName, NoName, NoName),
   misc |-> <<>>, shapes |-> <<>>, regions |-> <<>>, layers |-> <<>>,
   colors |-> [hair |-> "red", eye |-> NoName]]

Full ==
  [Plainest EXCEPT
     !.body = <<0, 64, 128, 192, 256>>,
     !.unique = Slots("face", "eyes", "hair", "mark"),
     !.misc = <<"scar">>,
     !.shapes = <<Morph(Shape("nose", 1), 64), Morph(Shape("chin", 1), 0)>>,
     !.regions = <<Region(7, <<Group("G", 128), Bone(-5, 32)>>), Region(-1, <<Bone(9, 0)>>)>>,
     !.layers = <<Layer("makeup", "v", "m", NoColor, 100), Layer("scars", "v", NoName, Red, 256)>>,
     !.colors = [hair |-> "black", eye |-> "blue"]]

\* The same from CharGenMenu, with padding above the skin tone.
Menu == [Full EXCEPT !.editorID = NoName, !.skinTone = 4 * 256 + 7,
                     !.layers = <<Layer("makeup", "v", "m", NoColor, 2)>>]

Hair(part) == [Plainest EXCEPT !.unique = Slots("face", NoName, part, NoName), !.colors.hair = NoName]

CharGen ==
  [format |-> "json", wellFormed |-> TRUE, version |-> 2, race |-> Ref(Esm, 1),
   plugins |-> <<Esm, Small>>, sex |-> "Male", skinTone |-> 9,
   forms |-> <<Ref(Esm, 3), Ref(Esm, 4), Ref(Small, 5)>>, body |-> <<1, 1, 1, 1, 1>>, weight |-> 10,
   shapes |-> <<Morph(Shape("nose", 1), 64)>>,
   morphs |-> <<Region(0, <<Group("G", -128)>>), Region(7, <<Group("G", 128)>>)>>,
   additional |-> <<Bone(9, 32)>>,
   layers |-> <<[Layer("own", "x", NoName, Red, 64) EXCEPT !.material = 2, !.texture = "t"]>>,
   colors |-> [hair |-> NoName, eye |-> NoName]]

MCDocuments ==
  {Plainest, Full, Menu, CharGen}
  \cup {Hair(p) : p \in {"null", "stray", "crown", "many", "deep", "wide"}}
  \cup \* contradicting itself
  {[Plainest EXCEPT !.shapes = <<Morph(Shape("nose", 1), 64), Morph(Shape("nose", 2), 65)>>],
   [Plainest EXCEPT !.regions = <<Region(7, <<Group("G", 1)>>), Region(7, <<Group("H", 1)>>)>>],
   [Plainest EXCEPT !.misc = <<"hair">>], [Plainest EXCEPT !.misc = <<"cap", "lash">>],
   [Full EXCEPT !.layers = <<@[1], @[1]>>]}
  \cup \* rejected by a parser
  {[Plainest EXCEPT !.wellFormed = FALSE],
   [Menu EXCEPT !.layers[1].intensity = 1],
   [CharGen EXCEPT !.forms = <<Ref(Esm, 3), Ref(<<1, 2>>, 3)>>]}
  \cup \* or by the resolver
  {[Full EXCEPT !.misc = <<"mark">>],
   [Full EXCEPT !.colors.hair = "red"],
   [Full EXCEPT !.unique = Slots("face", "eyes", "hair", "beard")],
   [CharGen EXCEPT !.forms = <<Ref(Esm, 3), Ref(Esm, 6)>>],
   [CharGen EXCEPT !.plugins = <<Esm, Small, Absent>>]}

Bare ==
  [weight |-> 1, body |-> <<>>, shapes |-> Empty, bones |-> Empty, groups |-> Empty, parts |-> <<>>,
   skinTone |-> 0, colors |-> [hair |-> NoName, eye |-> NoName], tints |-> Empty, inherits |-> FALSE]

\* Another complete appearance.
Worn ==
  [weight |-> 2, body |-> <<9, 9, 9, 9, 9>>, shapes |-> [n \in {Shape("brow", 1)} |-> 7],
   bones |-> [k \in {9} |-> 7], groups |-> [k \in {<<7, "G">>, <<8, "H">>} |-> 7],
   parts |-> <<"bald", "eyes", "mark", "wings">>, skinTone |-> 1,
   colors |-> [hair |-> "red", eye |-> NoName],
   tints |-> [c \in {"makeup", "dirt"} |->
               [category |-> c, type |-> 1, value |-> "v", texture |-> NoName, color |-> Red,
                intensity |-> 1]],
   inherits |-> TRUE]

\* Two parts of a type, in either order.
Doubled(first, second) == [Bare EXCEPT !.parts = <<first, second>>]

Npc(l, r, inherited, generated) ==
  [look |-> l, race |-> r, inherited |-> inherited, generated |-> generated, configured |-> "Human",
   sex |-> "Male"]

MCTargets ==
  {Npc(Bare, "Human", NoName, FALSE), Npc(Worn, "Human", "Human", FALSE),
   Npc(Worn, NoName, "Human", TRUE), Npc(Bare, NoName, "Alien", TRUE), Npc(Bare, NoName, NoName, FALSE),
   Npc(Doubled("hair", "bald"), "Human", NoName, FALSE),
   Npc(Doubled("bald", "hair"), "Human", NoName, FALSE)}

MCSexed(s) == [sex \in Sexes |-> s]
MCDescriptors == MCSexed({"nose", "chin"})
MCBoneGroups  == MCSexed({"G", "H"})
MCBoneSliders == MCSexed({5, 9, 65531})

MCLosses == {{}, Setters} \cup {{s} : s \in Setters}
=============================================================================
