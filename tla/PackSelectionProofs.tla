------------------------ MODULE PackSelectionProofs -------------------------
(***************************************************************************)
(* Proofs about RuntimeFormID and PackSelection for every set of files and *)
(* plugins.  FormIDs are injective within their limits; a folded plugin    *)
(* name determines tier and index and is determined by them; so a pack     *)
(* that has one assignment per target has one candidate per base.          *)
(***************************************************************************)
EXTENDS PackSelection, SequenceTheorems, WellFoundedInduction, FiniteSetTheorems, TLAPS

\* EncodeRuntimeFormID never aliases: two local FormIDs of two plugins get the
\* same runtime FormID only when tier, index and local FormID are the same.
THEOREM EncodeInjective ==
  ASSUME NEW l1 \in Nat, NEW l2 \in Nat, NEW t1 \in Tiers, NEW t2 \in Tiers,
         NEW i1 \in Nat, NEW i2 \in Nat,
         InRange(l1, t1, i1), InRange(l2, t2, i2),
         EncodeRuntimeFormID(l1, t1, i1) = EncodeRuntimeFormID(l2, t2, i2)
  PROVE  t1 = t2 /\ i1 = i2 /\ l1 = l2
<1> DEFINE e1 == EncodeRuntimeFormID(l1, t1, i1)
           e2 == EncodeRuntimeFormID(l2, t2, i2)
<1>1. /\ e1.top = (IF t1 = "small" THEN 254 ELSE IF t1 = "medium" THEN 253 ELSE i1)
      /\ e1.low = (IF t1 = "small" THEN i1 * 4096 + l1
                   ELSE IF t1 = "medium" THEN i1 * 65536 + l1 ELSE l1)
  BY DEF EncodeRuntimeFormID, Tiers
<1>2. /\ e2.top = (IF t2 = "small" THEN 254 ELSE IF t2 = "medium" THEN 253 ELSE i2)
      /\ e2.low = (IF t2 = "small" THEN i2 * 4096 + l2
                   ELSE IF t2 = "medium" THEN i2 * 65536 + l2 ELSE l2)
  BY DEF EncodeRuntimeFormID, Tiers
<1>3. /\ t1 = "small" => l1 <= 4095
      /\ t1 = "medium" => l1 <= 65535
      /\ t1 = "full" => i1 <= 252
  BY DEF InRange, MaxLocal, MaxIndex
<1>4. /\ t2 = "small" => l2 <= 4095
      /\ t2 = "medium" => l2 <= 65535
      /\ t2 = "full" => i2 <= 252
  BY DEF InRange, MaxLocal, MaxIndex
<1>5. e1.top = e2.top /\ e1.low = e2.low
  OBVIOUS
<1>6. t1 = t2
  BY <1>1, <1>2, <1>3, <1>4, <1>5 DEF Tiers
<1>7. CASE t1 = "small"
  BY <1>1, <1>2, <1>3, <1>4, <1>5, <1>6, <1>7
<1>8. CASE t1 = "medium"
  BY <1>1, <1>2, <1>3, <1>4, <1>5, <1>6, <1>8
<1>9. CASE t1 = "full"
  BY <1>1, <1>2, <1>5, <1>6, <1>9
<1> QED BY <1>7, <1>8, <1>9 DEF Tiers

\* No target of a plugin gets an FF FormID, whatever its tier and index: those
\* stay with the bases that the game generates.
THEOREM EncodeOwned ==
  ASSUME NEW l \in Nat, NEW t \in Tiers, NEW i \in Nat
  PROVE  EncodeRuntimeFormID(l, t, i).top # 255
<1>1. CASE ~InRange(l, t, i)
  BY <1>1 DEF EncodeRuntimeFormID, NoFormID
<1>2. CASE InRange(l, t, i)
  BY <1>2 DEF EncodeRuntimeFormID, InRange, MaxIndex, Tiers
<1> QED BY <1>1, <1>2

-----------------------------------------------------------------------------
(* Plugins.                                                                *)

\* The i-th plugin of a tier has this folded name and this index.
EntryOf(tier, index, name, i) ==
  /\ tier \in Tiers /\ i \in DOMAIN Loaded[tier]
  /\ Loaded[tier][i].name = name
  /\ index = IF tier = "full" THEN Loaded["full"][i].compileIndex ELSE i - 1

\* FindLoadedPlugin returns an entry of that name.
LEMMA PluginFound ==
  ASSUME NEW name, NEW plugin \in FindLoadedPlugin(Loaded, name)
  PROVE  \E i : EntryOf(plugin.tier, plugin.index, name, i)
<1> DEFINE found(tier) == {i \in DOMAIN Loaded[tier] : IsFirst(Loaded[tier], i, name)}
           position(tier) == CHOOSE i \in found(tier) : TRUE
<1>1. ASSUME NEW tier, found(tier) # {}
      PROVE  position(tier) \in DOMAIN Loaded[tier] /\ Loaded[tier][position(tier)].name = name
  <2>1. position(tier) \in found(tier)
    BY <1>1
  <2> QED BY <2>1 DEF IsFirst
<1>2. \/ /\ found("full") # {}
         /\ plugin = [tier |-> "full", index |-> Loaded["full"][position("full")].compileIndex]
      \/ /\ found("medium") # {}
         /\ plugin = [tier |-> "medium", index |-> position("medium") - 1]
      \/ /\ found("small") # {}
         /\ plugin = [tier |-> "small", index |-> position("small") - 1]
  BY DEF FindLoadedPlugin
<1> HIDE DEF found, position
<1>3. \E tier \in Tiers : EntryOf(plugin.tier, plugin.index, name, position(tier))
  BY <1>1, <1>2 DEF EntryOf, Tiers
<1> QED BY <1>3

\* The index of a plugin is a number, and so is its position.
LEMMA EntryTyped ==
  ASSUME NEW tier, NEW index, NEW name, NEW i, EntryOf(tier, index, name, i)
  PROVE  index \in Nat /\ i \in Int
<1> DEFINE S == [name : Nat, compileIndex : Nat]
           plugins == Loaded[tier]
<1>1. tier \in Tiers /\ plugins \in Seq(S)
  BY LoadedAssumption DEF EntryOf
<1>2. i \in DOMAIN plugins /\ index = IF tier = "full" THEN plugins[i].compileIndex ELSE i - 1
  BY DEF EntryOf
<1> HIDE DEF plugins
<1>3. i \in 1 .. Len(plugins) /\ Len(plugins) \in Nat
  BY <1>1, <1>2, LenProperties
<1>4. plugins[i] \in S
  BY <1>1, <1>3, ElementOfSeq
<1>5. plugins[i].compileIndex \in Nat
  BY <1>4
<1> QED BY <1>2, <1>3, <1>5

\* Tier and index determine the folded name, as compile indices are unique.
LEMMA EntryInjective ==
  ASSUME NEW tier, NEW index, NEW m, NEW n, NEW i, NEW j,
         EntryOf(tier, index, m, i), EntryOf(tier, index, n, j)
  PROVE  m = n
<1>1. CASE tier = "full"
  BY <1>1, CompileIndexAssumption DEF EntryOf
<1>2. CASE tier # "full"
  <2>1. i \in Int /\ j \in Int
    BY EntryTyped
  <2>2. i - 1 = j - 1
    BY <1>2 DEF EntryOf
  <2>3. i = j
    BY <2>1, <2>2
  <2> QED BY <2>3 DEF EntryOf
<1> QED BY <1>1, <1>2

\* What the resolution of a target says of its plugin.
LEMMA TargetResolved ==
  ASSUME NEW f, NEW b \in ResolveTarget(f)
  PROVE  \E tier \in Tiers, index \in Nat :
           /\ \E i : EntryOf(tier, index, Fold(f.plugin), i)
           /\ InRange(f.local, tier, index)
           /\ b = EncodeRuntimeFormID(f.local, tier, index)
<1>1. PICK plugin \in FindLoadedPlugin(Loaded, Fold(f.plugin)) :
        b = EncodeRuntimeFormID(f.local, plugin.tier, plugin.index)
  BY DEF ResolveTarget
<1>2. PICK i : EntryOf(plugin.tier, plugin.index, Fold(f.plugin), i)
  BY PluginFound
<1>3. plugin.tier \in Tiers /\ plugin.index \in Nat
  BY <1>2, EntryTyped DEF EntryOf
<1>4. b \in UniqueHumans
  BY DEF ResolveTarget
<1>5. b # NoFormID
  <2>1. b.top \in Byte
    BY <1>4, HumansAssumption DEF FormID
  <2> QED BY <2>1 DEF Byte, NoFormID
<1>6. InRange(f.local, plugin.tier, plugin.index)
  BY <1>1, <1>5 DEF EncodeRuntimeFormID
<1> QED BY <1>1, <1>2, <1>3, <1>6

\* Two targets resolve to one base only when they are one target: the same
\* local FormID of the same plugin, whatever the case of its name.
THEOREM ResolveInjective ==
  ASSUME NEW f, NEW g, f.local \in Nat, g.local \in Nat,
         NEW b, b \in ResolveTarget(f), b \in ResolveTarget(g)
  PROVE  TargetKey(f) = TargetKey(g)
<1>1. PICK t \in Tiers, x \in Nat :
        /\ \E i : EntryOf(t, x, Fold(f.plugin), i)
        /\ InRange(f.local, t, x) /\ b = EncodeRuntimeFormID(f.local, t, x)
  BY TargetResolved
<1>2. PICK u \in Tiers, y \in Nat :
        /\ \E i : EntryOf(u, y, Fold(g.plugin), i)
        /\ InRange(g.local, u, y) /\ b = EncodeRuntimeFormID(g.local, u, y)
  BY TargetResolved
<1>3. t = u /\ x = y /\ f.local = g.local
  BY <1>1, <1>2, EncodeInjective
<1>4. Fold(f.plugin) = Fold(g.plugin)
  BY <1>1, <1>2, <1>3, EntryInjective
<1> QED BY <1>3, <1>4 DEF TargetKey

-----------------------------------------------------------------------------
(* The scan.                                                               *)

\* The candidate that an assignment yields for a base.
CandidateOf(f, b) == [base |-> b, pack |-> f.pack, plugin |-> f.plugin, local |-> f.local]

\* What has been scanned is unambiguous, and what has been resolved comes from
\* what has been scanned.
IInv ==
  /\ disk \subseteq Files /\ assigned \subseteq disk
  /\ \A f \in assigned : f.local \in Nat /\ f.pack \notin unscanned
  /\ stage = "root" => assigned = {}
  /\ stage # "done" => DOMAIN selected = {}
  /\ \A f, g \in assigned : f.pack = g.pack /\ TargetKey(f) = TargetKey(g) => f = g
  /\ \A c \in candidates : \E f \in assigned : \E b \in ResolveTarget(f) : c = CandidateOf(f, b)
  /\ \A b \in DOMAIN selected : \E c \in candidates : c.base = b

\* The assignments of a pack name different targets.
LEMMA PackUnambiguous ==
  ASSUME NEW files \in SUBSET Files, NEW f \in AssignmentsOf(files), NEW g \in AssignmentsOf(files)
  PROVE  /\ f \in files /\ f.local \in Nat
         /\ TargetKey(f) = TargetKey(g) => f = g
<1>1. f \in files /\ f.local # NoLocal
  BY DEF AssignmentsOf, IsCandidate
<1>2. f.local \in Nat \cup {NoLocal}
  BY <1>1, FilesAssumption DEF File
<1>3. TargetKey(f) = TargetKey(g) => f = g
  BY DEF AssignmentsOf
<1> QED BY <1>1, <1>2, <1>3

\* A scanned pack had no assignments before, so its own are all it has.
LEMMA ScanStep ==
  ASSUME IInv, ScanPackDirectory
  PROVE  IInv'
<1>1. PICK p, files :
        /\ p \in unscanned /\ files \subseteq {h \in disk : h.pack = p}
        /\ assigned' = assigned \cup AssignmentsOf(files)
        /\ unscanned' = unscanned \ {p}
  <2>1. PICK p \in unscanned :
          LET all == {f \in disk : f.pack = p}
          IN  \E unlisted \in SUBSET {DirectoryOf(f) : f \in all} :
                LET gone == {f \in all : DirectoryOf(f) \in unlisted}
                IN  assigned' = assigned \cup AssignmentsOf(all \ gone) /\ unscanned' = unscanned \ {p}
    BY DEF ScanPackDirectory
  <2> DEFINE all == {f \in disk : f.pack = p}
  <2>2. PICK unlisted :
          assigned' = assigned \cup AssignmentsOf(all \ {f \in all : DirectoryOf(f) \in unlisted})
    BY <2>1
  <2>3. all \ {f \in all : DirectoryOf(f) \in unlisted} \subseteq {h \in disk : h.pack = p}
    OBVIOUS
  <2> QED BY <2>1, <2>2, <2>3
<1>2. UNCHANGED <<disk, stage, candidates, selected>> /\ stage = "scan"
  BY DEF ScanPackDirectory
<1>3. files \subseteq Files /\ \A f \in files : f \in disk /\ f.pack = p
  BY <1>1 DEF IInv
<1>4. \A f, g \in AssignmentsOf(files) :
        f \in files /\ f.local \in Nat /\ (TargetKey(f) = TargetKey(g) => f = g)
  BY <1>3, PackUnambiguous
<1>5. \A f \in assigned : f.pack # p
  BY <1>1 DEF IInv
<1>6. disk' \subseteq Files /\ assigned' \subseteq disk'
  BY <1>1, <1>2, <1>3, <1>4 DEF IInv
<1>7. \A f \in assigned' : f.local \in Nat /\ f.pack \notin unscanned'
  BY <1>1, <1>3, <1>4 DEF IInv
<1>8. \A f, g \in assigned' : f.pack = g.pack /\ TargetKey(f) = TargetKey(g) => f = g
  BY <1>1, <1>3, <1>4, <1>5 DEF IInv
<1>9. \A c \in candidates' : \E f \in assigned' : \E b \in ResolveTarget(f) : c = CandidateOf(f, b)
  BY <1>1, <1>2 DEF IInv
<1>10. \A b \in DOMAIN selected' : \E c \in candidates' : c.base = b
  BY <1>2 DEF IInv
<1> QED BY <1>2, <1>6, <1>7, <1>8, <1>9, <1>10 DEF IInv

\* The candidates come from the assignments, and nothing is selected yet.
LEMMA ResolveStep ==
  ASSUME IInv, ResolveAssignments
  PROVE  IInv'
<1>1. \A c \in candidates' : \E f \in assigned : \E b \in ResolveTarget(f) : c = CandidateOf(f, b)
  BY DEF ResolveAssignments, CandidateOf
<1>2. UNCHANGED <<disk, unscanned, assigned, selected>> /\ stage' = "select"
  BY DEF ResolveAssignments
<1>3. DOMAIN selected = {}
  BY DEF IInv, ResolveAssignments
<1> QED BY <1>1, <1>2, <1>3 DEF IInv

\* Only bases that have a candidate are selected.
LEMMA SelectStep ==
  ASSUME IInv, Select
  PROVE  IInv'
<1>1. DOMAIN selected' = {c.base : c \in candidates}
  BY DEF Select, SelectAlphabeticalAssignments
<1>2. UNCHANGED <<disk, unscanned, assigned, candidates>> /\ stage' = "done"
  BY DEF Select
<1>3. \A b \in DOMAIN selected' : \E c \in candidates : c.base = b
  BY <1>1
<1> QED BY <1>2, <1>3 DEF IInv

\* The invariant is inductive.
LEMMA Initially == Init => IInv
BY DEF Init, IInv

\* Discovery and the end without a data handler change nothing it is about.
LEMMA Step == IInv /\ [Next]_vars => IInv'
<1> SUFFICES ASSUME IInv, [Next]_vars PROVE IInv'
  OBVIOUS
<1>1. CASE DiscoverPacks
  BY <1>1 DEF IInv, DiscoverPacks
<1>2. CASE BeginResolve
  BY <1>2 DEF IInv, BeginResolve
<1>3. CASE UNCHANGED vars
  BY <1>3 DEF IInv, vars
<1> QED BY <1>1, <1>2, <1>3, ScanStep, ResolveStep, SelectStep DEF Next

\* So it is an invariant.
LEMMA Invariant == Spec => []IInv
BY Initially, Step, PTL DEF Spec

-----------------------------------------------------------------------------
(* The theorems.                                                           *)

\* One pack never has two candidates for one base, however many files it has
\* and however their plugins are spelled.
THEOREM PacksDecide == Spec => []OnePresetPerPack
<1>1. IInv => OnePresetPerPack
  <2> SUFFICES ASSUME IInv, NEW c \in candidates, NEW d \in candidates,
                      c.pack = d.pack, c.base = d.base
               PROVE  c = d
    BY DEF OnePresetPerPack
  <2>1. PICK f, a : f \in assigned /\ a \in ResolveTarget(f) /\ c = CandidateOf(f, a)
    BY DEF IInv
  <2>2. PICK g, b : g \in assigned /\ b \in ResolveTarget(g) /\ d = CandidateOf(g, b)
    BY DEF IInv
  <2>3. a = b /\ f.pack = g.pack
    BY <2>1, <2>2 DEF CandidateOf
  <2>4. f \in Files /\ g \in Files /\ f.local \in Nat /\ g.local \in Nat
    BY <2>1, <2>2 DEF IInv
  <2>5. TargetKey(f) = TargetKey(g)
    BY <2>1, <2>2, <2>3, <2>4, ResolveInjective
  <2>6. f = g
    BY <2>1, <2>2, <2>3, <2>5 DEF IInv
  <2> QED BY <2>1, <2>2, <2>3, <2>6
<1> QED BY <1>1, Invariant, PTL

\* No configured base has an FF FormID, whatever plugins are loaded: what the
\* game generates is never taken for a configured base.
THEOREM ConfiguredStaysOwned == Spec => []ConfiguredIsOwned
<1>1. IInv => ConfiguredIsOwned
  <2> SUFFICES ASSUME IInv, NEW b \in DOMAIN selected
               PROVE  b.top # 255
    BY DEF ConfiguredIsOwned
  <2>1. PICK c \in candidates : c.base = b
    BY DEF IInv
  <2>2. PICK f, a : f \in assigned /\ a \in ResolveTarget(f) /\ c = CandidateOf(f, a)
    BY DEF IInv
  <2>3. a = b /\ f \in Files /\ f.local \in Nat
    BY <2>1, <2>2 DEF CandidateOf, IInv
  <2>4. PICK tier \in Tiers, index \in Nat : a = EncodeRuntimeFormID(f.local, tier, index)
    BY <2>2, TargetResolved
  <2> QED BY <2>3, <2>4, EncodeOwned
<1> QED BY <1>1, Invariant, PTL
-----------------------------------------------------------------------------
(* The scan, pack by pack.                                                 *)

\* What has been assigned of a scanned pack is what its listed files assign.
Scanned ==
  /\ lost \subseteq disk /\ assigned \subseteq disk \ lost
  /\ unscanned \subseteq {f.pack : f \in Files}
  /\ \A f \in lost : f.pack \notin unscanned
  /\ IF stage = "root" THEN lost = {}
     ELSE \A p : p \notin unscanned =>
            {f \in assigned : f.pack = p} = AssignmentsOf({g \in disk \ lost : g.pack = p})

\* Candidates are typed and come with the resolution, winners with the selection.
Chosen ==
  /\ stage \in {"root", "scan", "resolve", "select", "done"}
  /\ stage \notin {"select", "done"} => candidates = {}
  /\ candidates \subseteq Candidate
  /\ \/ stage = "done" /\ selected = SelectAlphabeticalAssignments(candidates)
     \/ (stage = "done" => candidates = {}) /\ DOMAIN selected = {}

ScanInv == IInv /\ Scanned /\ Chosen

\* Nothing is assigned of no files.
LEMMA NoFiles == AssignmentsOf({}) = {}
BY DEF AssignmentsOf

\* The assignments of a pack are files of it.
LEMMA AssignedListed ==
  ASSUME NEW files, NEW f \in AssignmentsOf(files)
  PROVE  f \in files
BY DEF AssignmentsOf

\* Discovery: only packs with a file on disk are left to scan.
LEMMA DiscoverScans ==
  ASSUME ScanInv, DiscoverPacks
  PROVE  Scanned'
<1>1. assigned = {} /\ lost = {} /\ disk \subseteq Files /\ UNCHANGED <<disk, assigned>> /\ stage' = "scan"
  BY DEF ScanInv, IInv, Scanned, DiscoverPacks
<1>2. \/ unscanned' = {f.pack : f \in disk} /\ lost' = {}
      \/ unscanned' = {} /\ lost' = disk
  BY <1>1 DEF DiscoverPacks
<1>3. \A p : p \notin unscanned' => {g \in disk' \ lost' : g.pack = p} = {}
  BY <1>1, <1>2
<1>4. \A p : p \notin unscanned' => {f \in assigned' : f.pack = p} = AssignmentsOf({g \in disk' \ lost' : g.pack = p})
  BY <1>1, <1>3, NoFiles
<1> QED BY <1>1, <1>2, <1>4 DEF Scanned

\* The scan of a pack adds its assignments, and leaves those of the others.
LEMMA ScanScans ==
  ASSUME ScanInv, ScanPackDirectory
  PROVE  Scanned'
<1>1. PICK p \in unscanned :
        LET all == {f \in disk : f.pack = p}
        IN  \E unlisted \in SUBSET {DirectoryOf(f) : f \in all} :
              LET gone == {f \in all : DirectoryOf(f) \in unlisted}
              IN  /\ lost' = lost \cup gone
                  /\ assigned' = assigned \cup AssignmentsOf(all \ gone)
                  /\ unscanned' = unscanned \ {p}
  BY DEF ScanPackDirectory
<1> DEFINE all == {f \in disk : f.pack = p}
<1>2. PICK gone \in SUBSET all :
        /\ lost' = lost \cup gone
        /\ assigned' = assigned \cup AssignmentsOf(all \ gone)
        /\ unscanned' = unscanned \ {p}
  <2>1. PICK unlisted :
          LET gone == {f \in all : DirectoryOf(f) \in unlisted}
          IN  /\ lost' = lost \cup gone
              /\ assigned' = assigned \cup AssignmentsOf(all \ gone)
              /\ unscanned' = unscanned \ {p}
    BY <1>1
  <2> QED BY <2>1
<1>3. UNCHANGED <<disk, stage>> /\ stage = "scan" /\ disk \subseteq Files
  BY DEF ScanPackDirectory, ScanInv, IInv
<1> DEFINE new == AssignmentsOf(all \ gone)
<1>4. /\ lost \subseteq disk /\ assigned \subseteq disk \ lost
      /\ \A f \in lost : f.pack \notin unscanned
      /\ \A f \in assigned : f.pack \notin unscanned
      /\ \A q : q \notin unscanned =>
           {f \in assigned : f.pack = q} = AssignmentsOf({g \in disk \ lost : g.pack = q})
      /\ unscanned \subseteq {f.pack : f \in Files}
  BY <1>3 DEF ScanInv, IInv, Scanned
<1>5. new \subseteq all \ gone
  BY AssignedListed
<1>6. gone \subseteq all /\ \A f \in all : f \in disk /\ f.pack = p
  OBVIOUS
<1> HIDE DEF new
<1>7. lost' \subseteq disk' /\ assigned' \subseteq disk' \ lost'
  <2>1. assigned \cap gone = {} /\ new \cap lost = {}
    BY <1>4, <1>5, <1>6
  <2>2. assigned \subseteq disk \ lost /\ new \subseteq disk \ gone /\ gone \subseteq disk /\ lost \subseteq disk
    BY <1>4, <1>5, <1>6
  <2>3. \A f \in assigned' : f \in disk /\ f \notin lost'
    BY <1>2, <2>1, <2>2 DEF new
  <2> QED BY <1>2, <1>3, <2>2, <2>3
<1>8. \A f \in lost' : f.pack \notin unscanned'
  BY <1>2, <1>4, <1>6
<1>9. ASSUME NEW q, q \notin unscanned'
      PROVE  {f \in assigned' : f.pack = q} = AssignmentsOf({g \in disk' \ lost' : g.pack = q})
  <2>1. CASE q = p
    <3>1. {g \in disk' \ lost' : g.pack = q} = all \ gone
      BY <1>2, <1>3, <1>4, <2>1
    <3>2. {f \in assigned' : f.pack = q} = new
      BY <1>2, <1>4, <1>5, <1>6, <2>1 DEF new
    <3> QED BY <3>1, <3>2 DEF new
  <2>2. CASE q # p
    <3>1. q \notin unscanned
      BY <1>2, <1>9, <2>2
    <3>2. {g \in disk' \ lost' : g.pack = q} = {g \in disk \ lost : g.pack = q}
      BY <1>2, <1>3, <1>6, <2>2
    <3>3. {f \in assigned' : f.pack = q} = {f \in assigned : f.pack = q}
      BY <1>2, <1>5, <1>6, <2>2 DEF new
    <3> QED BY <1>4, <3>1, <3>2, <3>3
  <2> QED BY <2>1, <2>2
<1> QED BY <1>2, <1>3, <1>4, <1>7, <1>8, <1>9 DEF Scanned

\* The candidates of typed files are typed.
LEMMA ResolveChooses ==
  ASSUME ScanInv, ResolveAssignments
  PROVE  Chosen'
<1>1. ASSUME NEW c \in candidates' PROVE c \in Candidate
  <2>1. PICK f, b : /\ f \in assigned /\ b \in ResolveTarget(f)
                    /\ c = [base |-> b, pack |-> f.pack, plugin |-> f.plugin, local |-> f.local]
    BY DEF ResolveAssignments
  <2>2. b \in FormID
    BY <2>1, HumansAssumption DEF ResolveTarget
  <2>3. f \in File /\ f.local \in Nat
    BY <2>1, FilesAssumption DEF ScanInv, IInv
  <2> QED BY <2>1, <2>2, <2>3 DEF Candidate, File
<1>2. stage' = "select" /\ UNCHANGED selected
  BY DEF ResolveAssignments
<1>3. DOMAIN selected = {}
  BY DEF ScanInv, IInv, ResolveAssignments
<1> QED BY <1>1, <1>2, <1>3 DEF Chosen

\* The invariant of the scan and the selection.
LEMMA ScanInvHolds == Spec => []ScanInv
<1>1. Init => Scanned /\ Chosen
  BY DEF Init, Scanned, Chosen
<1>2. ScanInv /\ [Next]_vars => Scanned' /\ Chosen'
  <2> SUFFICES ASSUME ScanInv, [Next]_vars PROVE Scanned' /\ Chosen'
    OBVIOUS
  <2>1. CASE DiscoverPacks
    <3>1. Chosen'
      BY <2>1 DEF DiscoverPacks, ScanInv, Chosen
    <3> QED BY <2>1, <3>1, DiscoverScans
  <2>2. CASE ScanPackDirectory
    <3>1. Chosen'
      BY <2>2 DEF ScanPackDirectory, ScanInv, Chosen
    <3> QED BY <2>2, <3>1, ScanScans
  <2>3. CASE BeginResolve
    BY <2>3 DEF BeginResolve, ScanInv, Scanned, Chosen
  <2>4. CASE ResolveAssignments
    <3>1. Scanned'
      BY <2>4 DEF ResolveAssignments, ScanInv, Scanned
    <3> QED BY <2>4, <3>1, ResolveChooses
  <2>5. CASE Select
    BY <2>5 DEF Select, ScanInv, Scanned, Chosen
  <2>6. CASE UNCHANGED vars
    BY <2>6 DEF vars, ScanInv, Scanned, Chosen
  <2> QED BY <2>1, <2>2, <2>3, <2>4, <2>5, <2>6 DEF Next
<1>3. ScanInv <=> IInv /\ Scanned /\ Chosen
  BY DEF ScanInv
<1> QED BY <1>1, <1>2, <1>3, Invariant, PTL DEF Spec

-----------------------------------------------------------------------------
(* The selection.                                                          *)

\* Numbers have a least element: the induction that the library's theorem
\* about the order of the numbers allows.
LEMMA LeastNat ==
  ASSUME NEW S \in SUBSET Nat, S # {}
  PROVE  \E n \in S : \A m \in S : n <= m
<1>1. PICK n \in S : \A m \in S : ~(<<m, n>> \in OpToRel(<, Nat))
  BY NatLessThanWellFounded, WFMin
<1>2. \A m \in S : m < n => <<m, n>> \in OpToRel(<, Nat)
  BY DEF OpToRel
<1>3. \A m \in S : ~(m < n)
  BY <1>1, <1>2, Zenon
<1> QED BY <1>3

\* So a set has an element with the least rank.
LEMMA LeastRank ==
  ASSUME NEW S, S # {}, NEW rank \in [S -> Nat]
  PROVE  \E c \in S : \A d \in S : rank[c] <= rank[d]
<1>1. PICK n \in {rank[c] : c \in S} : \A m \in {rank[c] : c \in S} : n <= m
  <2>1. {rank[c] : c \in S} \in SUBSET Nat /\ {rank[c] : c \in S} # {}
    OBVIOUS
  <2> QED BY <2>1, LeastNat
<1> QED BY <1>1

\* The order of the identities picks a first candidate of every set of them.
LEMMA FirstCandidate ==
  ASSUME NEW cs \in SUBSET Candidate, cs # {}
  PROVE  \E c \in cs : \A d \in cs : ~IdentityLess(d, c)
<1>1. \A c \in cs : /\ c.pack[1] \in Nat /\ c.pack[2] \in Nat /\ c.pack = <<c.pack[1], c.pack[2]>>
                    /\ c.plugin[1] \in Nat /\ c.plugin[2] \in Nat
                    /\ c.plugin = <<c.plugin[1], c.plugin[2]>> /\ c.local \in Nat
  BY DEF Candidate, Name
<1>2. PICK c1 \in cs : \A d \in cs : c1.pack[1] <= d.pack[1]
  <2> DEFINE rank == [c \in cs |-> c.pack[1]]
  <2>1. PICK c \in cs : \A d \in cs : rank[c] <= rank[d]
    <3>1. rank \in [cs -> Nat]
      BY <1>1
    <3> HIDE DEF rank
    <3> QED BY <3>1, LeastRank
  <2> QED BY <2>1
<1> DEFINE cs1 == {c \in cs : c.pack[1] = c1.pack[1]}
<1>3. PICK c2 \in cs1 : \A d \in cs1 : c2.pack[2] <= d.pack[2]
  <2> DEFINE rank == [c \in cs1 |-> c.pack[2]]
  <2>1. PICK c \in cs1 : \A d \in cs1 : rank[c] <= rank[d]
    <3>1. rank \in [cs1 -> Nat] /\ cs1 # {}
      BY <1>1
    <3> HIDE DEF rank, cs1
    <3> QED BY <3>1, LeastRank
  <2> QED BY <2>1
<1> DEFINE cs2 == {c \in cs1 : c.pack[2] = c2.pack[2]}
<1>4. PICK c3 \in cs2 : \A d \in cs2 : c3.plugin[1] <= d.plugin[1]
  <2> DEFINE rank == [c \in cs2 |-> c.plugin[1]]
  <2>1. PICK c \in cs2 : \A d \in cs2 : rank[c] <= rank[d]
    <3>1. rank \in [cs2 -> Nat] /\ cs2 # {}
      BY <1>1
    <3> HIDE DEF rank, cs2
    <3> QED BY <3>1, LeastRank
  <2> QED BY <2>1
<1> DEFINE cs3 == {c \in cs2 : c.plugin[1] = c3.plugin[1]}
<1>5. PICK c4 \in cs3 : \A d \in cs3 : c4.plugin[2] <= d.plugin[2]
  <2> DEFINE rank == [c \in cs3 |-> c.plugin[2]]
  <2>1. PICK c \in cs3 : \A d \in cs3 : rank[c] <= rank[d]
    <3>1. rank \in [cs3 -> Nat] /\ cs3 # {}
      BY <1>1
    <3> HIDE DEF rank, cs3
    <3> QED BY <3>1, LeastRank
  <2> QED BY <2>1
<1> DEFINE cs4 == {c \in cs3 : c.plugin[2] = c4.plugin[2]}
<1>6. PICK c5 \in cs4 : \A d \in cs4 : c5.local <= d.local
  <2> DEFINE rank == [c \in cs4 |-> c.local]
  <2>1. PICK c \in cs4 : \A d \in cs4 : rank[c] <= rank[d]
    <3>1. rank \in [cs4 -> Nat] /\ cs4 # {}
      BY <1>1
    <3> HIDE DEF rank, cs4
    <3> QED BY <3>1, LeastRank
  <2> QED BY <2>1
<1>7. ASSUME NEW d \in cs, IdentityLess(d, c5) PROVE FALSE
  <2>1. c5 \in cs /\ c5.pack = <<c1.pack[1], c2.pack[2]>> /\ c5.plugin = <<c3.plugin[1], c4.plugin[2]>>
    BY <1>1, <1>6
  <2>2. CASE d.pack # c5.pack
    BY <1>1, <1>2, <1>3, <1>7, <2>1, <2>2 DEF IdentityLess, NameLess
  <2>3. CASE d.pack = c5.pack /\ d.plugin # c5.plugin
    <3>1. d \in cs2
      BY <1>1, <2>1, <2>3
    <3> QED BY <1>1, <1>4, <1>5, <1>7, <2>1, <2>3, <3>1 DEF IdentityLess, NameLess
  <2>4. CASE d.pack = c5.pack /\ d.plugin = c5.plugin
    <3>1. d \in cs4
      BY <1>1, <2>1, <2>4
    <3>2. d.local < c5.local
      BY <1>7, <2>4 DEF IdentityLess
    <3> QED BY <1>1, <1>6, <2>1, <3>1, <3>2
  <2> QED BY <2>2, <2>3, <2>4
<1> QED BY <1>6, <1>7

\* Every base with a candidate has a winner: one that no other precedes.
LEMMA Winner ==
  ASSUME NEW cs \in SUBSET Candidate, NEW b \in {c.base : c \in cs}
  PROVE  LET w == SelectAlphabeticalAssignments(cs)[b]
         IN  w \in cs /\ w.base = b /\ \A d \in cs : d.base = b => ~IdentityLess(d, w)
<1> DEFINE own == {c \in cs : c.base = b}
<1>1. \E c \in own : \A d \in own : ~IdentityLess(d, c)
  BY FirstCandidate
<1>2. \E c \in cs : c.base = b /\ \A d \in cs : d.base = b => ~IdentityLess(d, c)
  BY <1>1
<1> QED BY <1>2 DEF SelectAlphabeticalAssignments

-----------------------------------------------------------------------------
(* The theorems about the scan.                                            *)

\* Every variable stays in its domain, and a winner is a candidate for its base:
\* no file in a directory that could not be listed is ever assigned.
THEOREM TypeCorrect == Spec => []TypeOK
<1>1. ScanInv => TypeOK
  <2> SUFFICES ASSUME ScanInv, NEW b \in DOMAIN selected
               PROVE  selected[b] \in candidates /\ selected[b].base = b
    BY DEF TypeOK, ScanInv, IInv, Scanned, Chosen
  <2>1. selected = SelectAlphabeticalAssignments(candidates) /\ candidates \in SUBSET Candidate
    BY DEF ScanInv, Chosen
  <2>2. b \in {c.base : c \in candidates}
    BY <2>1 DEF SelectAlphabeticalAssignments
  <2> QED BY <2>1, <2>2, Winner
<1> QED BY <1>1, ScanInvHolds, PTL

\* The alphabetically earliest pack with a candidate for a base wins it: the
\* order of the identities has a first one in every set of candidates.
THEOREM EarliestWins == Spec => []EarliestPackWins
<1>1. ScanInv => EarliestPackWins
  <2> SUFFICES ASSUME ScanInv, stage = "done", NEW c \in candidates
               PROVE  c.base \in DOMAIN selected /\ ~NameLess(c.pack, selected[c.base].pack)
    BY DEF EarliestPackWins
  <2>1. selected = SelectAlphabeticalAssignments(candidates) /\ candidates \in SUBSET Candidate
    BY DEF ScanInv, Chosen
  <2>2. c.base \in {d.base : d \in candidates}
    OBVIOUS
  <2>3. c.base \in DOMAIN selected
    BY <2>1, <2>2 DEF SelectAlphabeticalAssignments
  <2> DEFINE w == selected[c.base]
  <2>4. w \in candidates /\ ~IdentityLess(c, w)
    BY <2>1, <2>2, Winner
  <2>5. w.pack[1] \in Nat /\ w.pack[2] \in Nat
    BY <2>1, <2>4 DEF Candidate, Name
  <2>6. c.pack # w.pack \/ ~NameLess(c.pack, w.pack)
    BY <2>5 DEF NameLess
  <2> QED BY <2>3, <2>4, <2>6 DEF IdentityLess
<1> QED BY <1>1, ScanInvHolds, PTL

\* A plugin name has one entry at most, so a target has one base at most.
LEMMA OneTarget ==
  ASSUME NEW f, NEW b \in ResolveTarget(f)
  PROVE  ResolveTarget(f) = {b}
<1>1. \A p, q \in FindLoadedPlugin(Loaded, Fold(f.plugin)) : p = q
  BY DEF FindLoadedPlugin
<1> QED BY <1>1 DEF ResolveTarget

\* A winner is the only usable preset of its pack for its base: two spellings
\* of a target, or two files, refuse it for the whole pack.
THEOREM NeverAmbiguous == Spec => []NothingAmbiguous
<1>1. ScanInv => NothingAmbiguous
  <2> DEFINE files == disk \ lost
             usable == {f \in files : IsCandidate(files, f)}
  <2> SUFFICES ASSUME ScanInv, NEW b \in DOMAIN selected
               PROVE  Cardinality({f \in usable : /\ f.pack = selected[b].pack
                                                  /\ ResolveTarget(f) = {b}}) = 1
    BY DEF NothingAmbiguous
  <2>1. selected = SelectAlphabeticalAssignments(candidates) /\ candidates \in SUBSET Candidate
    BY DEF ScanInv, Chosen
  <2>2. selected[b] \in candidates /\ selected[b].base = b
    <3>1. b \in {c.base : c \in candidates}
      BY <2>1 DEF SelectAlphabeticalAssignments
    <3> QED BY <2>1, <3>1, Winner
  <2>3. PICK f \in assigned : \E a \in ResolveTarget(f) : selected[b] = CandidateOf(f, a)
    BY <2>2 DEF ScanInv, IInv
  <2>4. b \in ResolveTarget(f) /\ f.pack = selected[b].pack
    BY <2>2, <2>3 DEF CandidateOf
  <2> DEFINE own == {g \in files : g.pack = f.pack}
  <2>5. f \in AssignmentsOf(own) /\ f.local \in Nat
    <3>1. f.pack \notin unscanned /\ stage # "root"
      BY DEF ScanInv, IInv
    <3> QED BY <3>1 DEF ScanInv, IInv, Scanned
  <2>6. \A g \in own : IsCandidate(files, g) <=> IsCandidate(own, g)
    <3>1. \A g, h : DirectoryOf(g) = DirectoryOf(h) => g.pack = h.pack
      BY DEF DirectoryOf
    <3> QED BY <3>1 DEF IsCandidate
  <2>7. /\ f \in own /\ IsCandidate(own, f)
        /\ \A g \in own : IsCandidate(own, g) /\ TargetKey(g) = TargetKey(f) => g = f
    BY <2>5 DEF AssignmentsOf
  <2>8. f \in usable /\ ResolveTarget(f) = {b}
    BY <2>4, <2>6, <2>7, OneTarget
  <2>9. ASSUME NEW g \in usable, g.pack = f.pack, ResolveTarget(g) = {b}
        PROVE  g = f
    <3>1. g \in own /\ IsCandidate(own, g) /\ g.local # NoLocal
      BY <2>6, <2>9 DEF IsCandidate
    <3>2. g.local \in Nat
      BY <3>1, FilesAssumption DEF ScanInv, IInv, File
    <3>3. TargetKey(g) = TargetKey(f)
      BY <2>4, <2>5, <2>9, <3>2, ResolveInjective
    <3> QED BY <2>7, <3>1, <3>3
  <2> HIDE DEF usable
  <2>10. {g \in usable : g.pack = selected[b].pack /\ ResolveTarget(g) = {b}} = {f}
    BY <2>4, <2>8, <2>9
  <2> QED BY <2>10, FS_Singleton
<1> QED BY <1>1, ScanInvHolds, PTL
=============================================================================
