--------------------------- MODULE PackSelection ----------------------------
(***************************************************************************)
(* The startup scan: packs are discovered (src/Config/PackDiscovery.cpp),  *)
(* their targets resolved (PackScanner.cpp) and one preset is selected per *)
(* NPC base (AssignmentSelection.cpp).                                     *)
(*                                                                         *)
(* A name is a pair of numbers: its rank when folded to lower case, and    *)
(* its rank among the spellings that fold to the same.  A directory that   *)
(* cannot be listed is a choice of the step that lists it.                 *)
(***************************************************************************)
EXTENDS RuntimeFormID, FiniteSets

CONSTANTS
  Files,        \* the files that may be on disk
  PluginFolds,  \* the folded names that are ESM, ESP or ESL filenames
  Loaded,       \* the compiled file collections, a sequence of plugins per tier
  UniqueHumans, \* the runtime FormIDs of the unique human TESNPCs
  NoLocal       \* a stem that is not a local FormID

Name == Nat \X Nat
File == [pack : Name, plugin : Name, file : Name,
         preset   : BOOLEAN,              \* the extension is .npc or .json
         local    : Nat \cup {NoLocal},   \* ParseLocalFormID of the stem
         readable : BOOLEAN,              \* ResolvePresetPath accepts it
         loads    : BOOLEAN]              \* LoadPreset and its dependencies succeed

ASSUME NoLocalAssumption == NoLocal \notin Nat
ASSUME FilesAssumption == Files \subseteq File /\ PluginFolds \subseteq Nat
ASSUME LoadedAssumption == Loaded \in [Tiers -> Seq([name : Nat, compileIndex : Nat])]
ASSUME CompileIndexAssumption ==
  \A i, j \in DOMAIN Loaded["full"] :
    Loaded["full"][i].compileIndex = Loaded["full"][j].compileIndex =>
      Loaded["full"][i].name = Loaded["full"][j].name
ASSUME HumansAssumption == UniqueHumans \subseteq FormID

VARIABLES
  disk,       \* the files that are on disk
  lost,       \* the files whose directory could not be listed
  stage,      \* "root", "scan", "resolve", "select", "done"
  unscanned,  \* the pack directories still to scan
  assigned,   \* the assignments discovered, as the files they come from
  candidates, \* the identities of the candidates
  selected    \* the winning candidate of each base

vars == <<disk, lost, stage, unscanned, assigned, candidates, selected>>

Candidate == [base : FormID, pack : Name, plugin : Name, local : Nat]

-----------------------------------------------------------------------------
(* Names.                                                                  *)

Fold(name) == name[1]
NameLess(a, b) == a[1] < b[1] \/ (a[1] = b[1] /\ a[2] < b[2])

\* mutant: the plugin is compared before the pack
IdentityLess_PluginFirst(a, b) ==
  IF a.plugin # b.plugin  THEN NameLess(a.plugin, b.plugin)
  ELSE IF a.pack # b.pack THEN NameLess(a.pack, b.pack)
  ELSE a.local < b.local

\* The order of candidates for one base: pack, then plugin, then local FormID.
IdentityLess(a, b) ==
  IF a.pack # b.pack          THEN NameLess(a.pack, b.pack)
  ELSE IF a.plugin # b.plugin THEN NameLess(a.plugin, b.plugin)
  ELSE a.local < b.local

-----------------------------------------------------------------------------
(* PackDiscovery.                                                          *)

DirectoryOf(f) == <<f.pack, f.plugin>>
TargetKey(f)   == <<Fold(f.plugin), f.local>>

\* The files of a listed directory that are presets named after a FormID.  A
\* filename that occurs twice in it, whatever its case, is refused.
IsCandidate(files, f) ==
  /\ Fold(f.plugin) \in PluginFolds
  /\ f.preset /\ f.local # NoLocal /\ f.readable
  /\ \A g \in files \ {f} : DirectoryOf(g) = DirectoryOf(f) => Fold(g.file) # Fold(f.file)

\* mutant: the first of several presets for one target is kept
AssignmentsOf_First(files) ==
  LET found == {f \in files : IsCandidate(files, f)}
  IN  {f \in found : \A g \in found \ {f} : TargetKey(g) = TargetKey(f) => NameLess(f.file, g.file)}

\* mutant: plugin names are compared as they are spelled
AssignmentsOf_Spelled(files) ==
  LET found == {f \in files : IsCandidate(files, f)}
  IN  {f \in found : \A g \in found \ {f} : g.plugin # f.plugin \/ g.local # f.local}

\* The assignments of a pack: every copy of an ambiguous target is refused.
AssignmentsOf(files) ==
  LET found == {f \in files : IsCandidate(files, f)}
  IN  {f \in found : \A g \in found \ {f} : TargetKey(g) # TargetKey(f)}

Init ==
  /\ disk \in SUBSET Files
  /\ lost = {}
  /\ stage = "root"
  /\ unscanned = {}
  /\ assigned = {}
  /\ candidates = {}
  /\ selected = [b \in {} |-> {}]

\* The packs root is listed, or it is missing or cannot be listed.
DiscoverPacks ==
  /\ stage = "root"
  /\ \/ unscanned' = {f.pack : f \in disk} /\ UNCHANGED lost
     \/ unscanned' = {} /\ lost' = disk
  /\ stage' = "scan"
  /\ UNCHANGED <<disk, assigned, candidates, selected>>

\* mutant: the files read before a listing failed are kept
ScanPackDirectory_Unlisted ==
  /\ stage = "scan"
  /\ \E p \in unscanned :
       LET files == {f \in disk : f.pack = p}
       IN  /\ \A q \in unscanned \ {p} : NameLess(p, q)
           /\ \E unlisted \in SUBSET {DirectoryOf(f) : f \in files} :
                /\ lost' = lost \cup {f \in files : DirectoryOf(f) \in unlisted}
                /\ assigned' = assigned \cup AssignmentsOf(files)
           /\ unscanned' = unscanned \ {p}
  /\ UNCHANGED <<disk, stage, candidates, selected>>

\* The next pack in alphabetical order.  A pack whose root cannot be listed is
\* dropped; a plugin directory that cannot be listed is skipped.
ScanPackDirectory ==
  /\ stage = "scan"
  /\ \E p \in unscanned :
       LET files == {f \in disk : f.pack = p}
       IN  /\ \A q \in unscanned \ {p} : NameLess(p, q)
           /\ \E unlisted \in SUBSET {DirectoryOf(f) : f \in files} :
                LET gone == {f \in files : DirectoryOf(f) \in unlisted}
                IN  /\ lost' = lost \cup gone
                    /\ assigned' = assigned \cup AssignmentsOf(files \ gone)
           /\ unscanned' = unscanned \ {p}
  /\ UNCHANGED <<disk, stage, candidates, selected>>

\* Without the data handler or the human race nothing is assigned.
BeginResolve ==
  /\ stage = "scan" /\ unscanned = {}
  /\ stage' \in {"resolve", "done"}
  /\ UNCHANGED <<disk, lost, unscanned, assigned, candidates, selected>>

-----------------------------------------------------------------------------
(* PackScanner.                                                            *)

\* ResolveTarget: the runtime FormID of a target, if a plugin owns it and it
\* names a unique human.
ResolveTarget(f) ==
  {EncodeRuntimeFormID(f.local, plugin.tier, plugin.index) :
     plugin \in FindLoadedPlugin(Loaded, Fold(f.plugin))} \cap UniqueHumans

ResolveAssignments ==
  /\ stage = "resolve"
  /\ candidates' = UNION {{[base |-> b, pack |-> f.pack, plugin |-> f.plugin, local |-> f.local] :
                             b \in ResolveTarget(f)} : f \in {g \in assigned : g.loads}}
  /\ stage' = "select"
  /\ UNCHANGED <<disk, lost, unscanned, assigned, selected>>

\* The candidate no other candidate for its base precedes.  Identities are
\* pairwise different, so the code's tie-break by position never applies.
SelectAlphabeticalAssignments(cs) ==
  [b \in {c.base : c \in cs} |->
     CHOOSE c \in cs : c.base = b /\ \A d \in cs : d.base = b => ~IdentityLess(d, c)]

Select ==
  /\ stage = "select"
  /\ selected' = SelectAlphabeticalAssignments(candidates)
  /\ stage' = "done"
  /\ UNCHANGED <<disk, lost, unscanned, assigned, candidates>>

Next == DiscoverPacks \/ ScanPackDirectory \/ BeginResolve \/ ResolveAssignments \/ Select

Spec == Init /\ [][Next]_vars

-----------------------------------------------------------------------------
(* Properties.                                                             *)

\* Every variable stays in its domain: an assignment comes from a file whose
\* directory was listed, and a winner is a candidate for its base.
TypeOK ==
  /\ disk \subseteq Files /\ lost \subseteq disk
  /\ stage \in {"root", "scan", "resolve", "select", "done"}
  /\ unscanned \subseteq {f.pack : f \in Files}
  /\ assigned \subseteq disk \ lost
  /\ candidates \subseteq Candidate
  /\ \A b \in DOMAIN selected : selected[b] \in candidates /\ selected[b].base = b

\* Of all packs with a valid preset for a base the alphabetically earliest
\* wins, whatever else is on disk and whatever could not be listed.
EarliestPackWins ==
  stage = "done" =>
    \A c \in candidates : /\ c.base \in DOMAIN selected
                          /\ ~NameLess(c.pack, selected[c.base].pack)

\* One pack never has two candidates for one base, however the plugin is
\* spelled: the pack alone decides a selection.
OnePresetPerPack ==
  \A c, d \in candidates : c.pack = d.pack /\ c.base = d.base => c = d

\* A winner is the only usable preset of its pack for its target: an ambiguous
\* pack loses the base to the next pack, it does not pick a file.
NothingAmbiguous ==
  \A b \in DOMAIN selected :
    LET usable == {f \in disk \ lost : IsCandidate(disk \ lost, f)}
    IN  Cardinality({f \in usable : f.pack = selected[b].pack /\ ResolveTarget(f) = {b}}) = 1

\* A configured base belongs to a plugin: its FormID is never one of the FF
\* FormIDs that the game generates, which the coordinator treats differently.
ConfiguredIsOwned == \A b \in DOMAIN selected : b.top # 255
=============================================================================
