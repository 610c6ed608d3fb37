----------------------- MODULE RenderSourcePreparation -----------------------
(***************************************************************************)
(* How one assignment becomes a render source: the preset is loaded and    *)
(* resolved (src/Config/PackScanner.cpp), a detached carrier is created,   *)
(* copied from the canonical NPC, given the preset and validated           *)
(* (NPCPresetApplicator.cpp, RenderSourceNPC.cpp), its head parts are      *)
(* captured (NPCSnapshot.cpp), and it is published, composed and activated *)
(* (OverlayRuntime.cpp, FaceTextureCompositor.cpp).                        *)
(*                                                                         *)
(* The task runs on the main thread, inside the drain of the native queue. *)
(* Around it the engine may hold on to what it was given, other callers    *)
(* may throw the kill switch, and the canonical NPC may change.  What the  *)
(* engine calls return is a fault that the constant Faults allows.  The    *)
(* single-flight ownership of the task, its retries and the resumption of  *)
(* a published base are those of OverlayRuntime.                           *)
(***************************************************************************)
EXTENDS PresetApplication

CONSTANTS
  Documents,  \* the preset files
  Targets,    \* the canonical NPCs
  Losses,     \* the sets of setters that may be lost
  Faults,     \* what may go wrong
  Extras,     \* the extra parts of each head part, a sequence
  Sound,      \* head parts registered under their FormID, with a well-formed array
  MaxType,    \* the greatest head part type
  MaxRoots, MaxExtras, MaxReachable,
  MaxHeld,    \* bound: references the engine takes
  MaxRevision \* bound: changes of the canonical NPC

ASSUME BoundAssumption ==
  /\ MaxHeld \in Nat \ {0} /\ MaxRevision \in Nat
  /\ MaxReachable \in Nat /\ MaxExtras \in Nat
  /\ MaxRoots \in 0 .. MaxReachable

ASSUME GraphAssumption ==
  /\ IsFiniteSet(HeadParts)
  /\ Extras \in [HeadParts -> Seq(HeadParts \cup {NoName})]
  /\ Sound \subseteq HeadParts

NoLook == [weight |-> 0, body |-> <<>>, shapes |-> Empty, bones |-> Empty, groups |-> Empty,
           parts |-> <<>>, skinTone |-> 0, colors |-> <<>>, tints |-> Empty, inherits |-> FALSE]

\* What the schema guarantees of a document it has read.
IsSequence(s) == s \in Seq({s[i] : i \in DOMAIN s})
Numbered(record, field) == field \in DOMAIN record /\ record[field] \in Int

ASSUME DocumentAssumption ==
  \A d \in Documents :
    /\ d.skinTone \in Int
    /\ IsSequence(d.shapes)
    /\ IsSequence(d.layers) /\ \A i \in DOMAIN d.layers : Numbered(d.layers[i], "intensity")
    /\ d.format = "ck" =>
         /\ IsSequence(d.unique) /\ IsSequence(d.misc) /\ IsSequence(d.regions)
         /\ \A r \in DOMAIN d.regions :
              /\ Numbered(d.regions[r], "region") /\ IsSequence(d.regions[r].sliders)
              /\ \A s \in DOMAIN d.regions[r].sliders : Numbered(d.regions[r].sliders[s], "id")
    /\ d.format # "ck" =>
         /\ IsSequence(d.forms) /\ IsSequence(d.morphs) /\ IsSequence(d.additional)
         /\ \A r \in DOMAIN d.morphs :
              d.morphs[r].region \in Int /\ IsSequence(d.morphs[r].sliders)

ASSUME TargetAssumption ==
  \A t \in Targets :
    /\ t.race \in Races \cup {NoName}
    /\ DOMAIN t.look = DOMAIN NoLook
    /\ t.look.parts \in Seq(HeadParts)
    /\ IsFiniteSet(DOMAIN t.look.tints)

VARIABLES
  pc,        \* where the task is
  document,
  npc,       \* the canonical NPC: look, race, inherited race, sex, what was configured
  revision,  \* counts the changes of its other state and of its storage
  preset, deps,
  snapshot,  \* the revision the task saw first
  carrier,   \* [state, formID, held, shared]
  look, race, \* of the carrier
  lost,      \* the setters that had no effect on it
  pending, graph, edges, \* the traversal of its head parts
  output,    \* [state, ready] of its face-texture composite
  engine,    \* [expired, idle, intact]: the deadline, the publication, the head parts
  active,    \* the registry has activated the carrier
  disabled,  \* the base renders vanilla
  killed,    \* the kill switch
  exhausted  \* an allocation of the task's own failed

source   == <<carrier, look, race, lost, snapshot>>
capture  == <<pending, graph, edges>>
assigned == <<document, preset, deps>>
vars == <<pc, assigned, npc, revision, source, capture, output, engine, active,
          disabled, killed, exhausted>>

CarrierStates == {"none", "owned", "registered", "freed", "leaked"}
OutputStates  == {"none", "owned", "submitted", "freed", "leaked"}
HeldCounts    == 0 .. MaxHeld

Places ==
  {"scan", "create", "copy", "apply", "validate", "roots", "visit", "output", "publish", "start",
   "poll", "finalized", "armed", "done"}

Init ==
  /\ pc = "scan"
  /\ document \in Documents
  /\ npc \in Targets
  /\ revision = 0 /\ snapshot = 0
  /\ preset = <<>> /\ deps = <<>>
  /\ carrier = [state |-> "none", formID |-> FALSE, held |-> 0, shared |-> FALSE]
  /\ look = NoLook /\ race = NoName /\ lost = {}
  /\ pending = {} /\ graph = {} /\ edges = 0
  /\ output = [state |-> "none", ready |-> FALSE]
  /\ engine = [expired |-> FALSE, idle |-> FALSE, intact |-> TRUE]
  /\ active = FALSE /\ disabled = FALSE /\ killed = FALSE /\ exhausted = FALSE

Published == carrier.state = "registered"

-----------------------------------------------------------------------------
(* Ending the task.                                                        *)

\* FormID and reference count of a carrier must be 0 until it is published.
Touched(c) == c.formID \/ c.held # 0

\* mutant: whatever refers to the carrier, it is deleted
Destroyed_Anyway(c) == [c EXCEPT !.state = "freed"]

\* DestroyUnpublishedRenderSource: a carrier that something refers to is leaked.
Destroyed(c) == [c EXCEPT !.state = IF Touched(c) THEN "leaked" ELSE "freed"]

\* mutant: the base is disabled and the carrier forgotten
Reject_Forgotten(c, alarm) ==
  /\ carrier'  = c
  /\ killed'   = (killed \/ alarm)
  /\ disabled' = TRUE
  /\ pc' = "done"

\* The carrier is destroyed and the base disabled.  `alarm` is a reason to kill.
Reject(c, alarm) ==
  /\ carrier'  = Destroyed(c)
  /\ killed'   = (killed \/ alarm \/ Touched(c))
  /\ disabled' = TRUE
  /\ pc' = "done"

\* DisableBaseBeforePublication without a carrier.
Disable ==
  /\ disabled' = TRUE
  /\ pc' = "done"

Kill ==
  /\ killed' = TRUE
  /\ pc' = "done"

-----------------------------------------------------------------------------
(* Loading and resolving.                                                  *)

Prepare(p, d) ==
  /\ preset' = p /\ deps' = d
  /\ pc' = "create"

Skip ==
  /\ pc' = "done"
  /\ UNCHANGED <<preset, deps>>

ScanAssignment ==
  /\ pc = "scan"
  /\ \/ \E p \in LoadPreset(document) :
          \/ \E d \in ResolveAppearanceDependencies(p, npc.configured, npc.sex) : Prepare(p, d)
          \/ ResolveAppearanceDependencies(p, npc.configured, npc.sex) = {} /\ Skip
     \/ LoadPreset(document) = {} /\ Skip
  /\ UNCHANGED <<document, npc, revision, source, capture, output, engine, active, disabled,
                 killed, exhausted>>

-----------------------------------------------------------------------------
(* PrepareRenderSource.                                                    *)

\* The NPC has the race the preset is for, or it is generated from a leveled
\* list, has no race of its own yet, and inherits that race or none.
RaceAccepted ==
  \/ npc.race = deps.race
  \/ npc.generated /\ npc.race = NoName /\ npc.inherited \in {NoName, deps.race}

\* CreateRenderSourceNPC: the engine returns nothing, or an NPC that is
\* already known, or a new one.
NoAllocation == "allocation" \in Faults /\ Disable /\ UNCHANGED <<carrier, killed>>

\* DestroyRejectedConstructedNPC: a FormID alone does not keep it.
RefuseConstructed ==
  /\ "constructor" \in Faults
  /\ \E formID, held \in BOOLEAN, left \in BOOLEAN :
       /\ formID \/ held
       /\ carrier' = [carrier EXCEPT !.state  = IF held THEN "leaked" ELSE "freed",
                                     !.formID = formID /\ (held \/ left),
                                     !.held   = IF held THEN 1 ELSE 0]
  /\ killed' = TRUE
  /\ Disable

Construct ==
  /\ carrier' = [carrier EXCEPT !.state = "owned"]
  /\ pc' = "copy"
  /\ UNCHANGED <<killed, disabled>>

CreateRenderSource ==
  /\ pc = "create"
  /\ snapshot' = revision
  /\ \/ (killed \/ ~RaceAccepted) /\ Disable /\ UNCHANGED <<carrier, killed>>
     \/ ~killed /\ RaceAccepted /\ (NoAllocation \/ RefuseConstructed \/ Construct)
  /\ UNCHANGED <<assigned, npc, revision, look, race, lost, capture, output, engine, active,
                 exhausted>>

\* mutant: the storage of the copy is not compared with the NPC's
BaselineAccepted_Shared(exact, shared) == exact /\ revision = snapshot

BaselineAccepted(exact, shared) == exact /\ ~shared /\ revision = snapshot

\* The copy takes its race from the preset where the NPC has none, and no
\* longer inherits its face from another NPC.
CopyBaseline ==
  /\ pc = "copy"
  /\ look' = [npc.look EXCEPT !.inherits = FALSE]
  /\ race' = IF npc.race = NoName THEN deps.race ELSE npc.race
  /\ \E exact, shared \in BOOLEAN :
       /\ exact \/ "inexact" \in Faults
       /\ shared => "shared" \in Faults
       /\ IF BaselineAccepted(exact, shared)
          THEN /\ carrier' = [carrier EXCEPT !.shared = shared]
               /\ pc' = "apply"
               /\ UNCHANGED <<killed, disabled>>
          ELSE Reject([carrier EXCEPT !.shared = shared], FALSE)
  /\ UNCHANGED <<assigned, npc, revision, lost, snapshot, capture, output, engine, active,
                 exhausted>>

\* Containers that the carrier shares with the NPC are the NPC's, too.
ApplyPreset ==
  /\ pc = "apply"
  /\ \/ \E l \in Losses :
          LET applied == ApplyVisuals(ApplyMorphs(look, preset, l), preset, deps, l)
          IN  /\ lost' = l
              /\ look' = applied
              /\ npc'  = IF carrier.shared THEN [npc EXCEPT !.look = applied] ELSE npc
              /\ pc'   = "validate"
              /\ UNCHANGED <<carrier, killed, disabled>>
     \/ "exception" \in Faults /\ Reject(carrier, FALSE) /\ UNCHANGED <<lost, look, npc>>
  /\ UNCHANGED <<assigned, revision, race, snapshot, capture, output, engine, active, exhausted>>

\* The carrier shows the preset, nothing refers to it, and the NPC is as it was.
ValidateCarrier ==
  /\ pc = "validate"
  /\ IF /\ ValidateMorphs(look, preset) /\ ValidateVisuals(look, preset, deps)
        /\ ~Touched(carrier) /\ race = deps.race
        /\ revision = snapshot
     THEN pc' = "roots" /\ UNCHANGED <<carrier, killed, disabled>>
     ELSE Reject(carrier, FALSE)
  /\ UNCHANGED <<assigned, npc, revision, look, race, lost, snapshot, capture, output, engine,
                 active, exhausted>>

-----------------------------------------------------------------------------
(* CaptureRenderSourceStructure.  The order of the traversal decides only  *)
(* which of several reasons to reject is found first, so it is any order.  *)

RootCount(parts) == Cardinality({i \in DOMAIN parts : parts[i] # NoName})

CaptureRoots ==
  /\ pc = "roots"
  /\ IF carrier.formID \/ RootCount(look.parts) > MaxRoots
     THEN Reject(carrier, FALSE) /\ UNCHANGED <<pending, edges>>
     ELSE /\ pending' = PartsOf(look.parts)
          /\ edges'   = RootCount(look.parts)
          /\ pc' = "visit"
          /\ UNCHANGED <<carrier, killed, disabled>>
  /\ UNCHANGED <<assigned, npc, revision, look, race, lost, snapshot, graph, output, engine,
                 active, exhausted>>

\* The extra parts of a head part that are not yet in the graph.
ExtrasOf(part) == {Extras[part][i] : i \in DOMAIN Extras[part]}

\* mutant: what an extra part brings with it is not looked at
Unvisited_Roots(part) == pending \ {part}

Unvisited(part) == (pending \cup ExtrasOf(part)) \ (graph \cup {part})

\* mutant: the edges of the graph are not counted
PartAccepted_Unlimited(part) ==
  /\ part # NoName
  /\ Cardinality(graph) < MaxReachable
  /\ part \in Sound /\ PartType[part] <= MaxType
  /\ Len(Extras[part]) <= MaxExtras

PartAccepted(part) ==
  /\ part # NoName
  /\ Cardinality(graph) < MaxReachable
  /\ part \in Sound /\ PartType[part] <= MaxType
  /\ Len(Extras[part]) <= MaxExtras
  /\ edges + Len(Extras[part]) <= MaxReachable + MaxExtras

VisitHeadPart ==
  /\ pc = "visit" /\ pending # {}
  /\ LET part == CHOOSE n \in pending : TRUE
     IN  IF PartAccepted(part)
         THEN /\ graph'   = graph \cup {part}
              /\ pending' = Unvisited(part)
              /\ edges'   = edges + Len(Extras[part])
              /\ UNCHANGED <<pc, carrier, killed, disabled>>
         ELSE Reject(carrier, FALSE) /\ UNCHANGED capture
  /\ UNCHANGED <<assigned, npc, revision, look, race, lost, snapshot, output, engine, active,
                 exhausted>>

\* All head parts are captured; storing the result may fail, and then the
\* carrier is not destroyed: nothing but the task knows of it.
KeepStructure ==
  /\ pc = "visit" /\ pending = {}
  /\ \/ pc' = "output" /\ UNCHANGED <<carrier, disabled, exhausted>>
     \/ /\ "memory" \in Faults
        /\ carrier' = [carrier EXCEPT !.state = "leaked"]
        /\ exhausted' = TRUE
        /\ Disable
  /\ UNCHANGED <<assigned, npc, revision, look, race, lost, snapshot, capture, output, engine,
                 active, killed>>

-----------------------------------------------------------------------------
(* Publication.                                                            *)

NeedsFaceTextureComposite == DOMAIN look.tints # {}

\* CreateFaceTextureComposite: without an output, or with one that the engine
\* did not leave empty, there is no carrier either.
CreateOutput ==
  /\ pc = "output"
  /\ \/ ~NeedsFaceTextureComposite /\ pc' = "publish"
        /\ UNCHANGED <<carrier, output, disabled, killed>>
     \/ /\ NeedsFaceTextureComposite /\ ~killed
        /\ output' = [output EXCEPT !.state = "owned"]
        /\ pc' = "publish"
        /\ UNCHANGED <<carrier, disabled, killed>>
     \/ /\ NeedsFaceTextureComposite /\ (killed \/ "output" \in Faults)
        /\ Reject(carrier, FALSE)
        /\ UNCHANGED output
     \/ /\ NeedsFaceTextureComposite /\ ~killed /\ "outputContract" \in Faults
        /\ output' = [output EXCEPT !.state = "freed"]
        /\ Reject(carrier, TRUE)
  /\ UNCHANGED <<assigned, npc, revision, look, race, lost, snapshot, capture, engine, active,
                 exhausted>>

\* DestroyUnstartedFaceTextureComposite, which does nothing without an output.
DestroyOutput == output' = IF output.state = "owned" THEN [output EXCEPT !.state = "freed"] ELSE output

\* The configured NPC is gone, the registry is full, or something refers to the
\* carrier: both are destroyed.
RefusePublication ==
  /\ DestroyOutput
  /\ Reject(carrier, TRUE)

\* The registry has a carrier for this NPC: this one is destroyed.
FindExisting ==
  /\ carrier' = Destroyed(carrier)
  /\ output'  = IF output.state = "owned" THEN [output EXCEPT !.state = "leaked"] ELSE output
  /\ Kill
  /\ UNCHANGED disabled

Adopt ==
  /\ carrier' = [carrier EXCEPT !.state = "registered"]
  /\ pc' = "start"
  /\ UNCHANGED <<output, disabled, killed>>

PublishRenderSource ==
  /\ pc = "publish"
  /\ \/ ("refused" \in Faults \/ Touched(carrier)) /\ RefusePublication
     \/ "existing" \in Faults /\ ~Touched(carrier) /\ FindExisting
     \/ ~Touched(carrier) /\ Adopt
  /\ UNCHANGED <<assigned, npc, revision, look, race, lost, snapshot, capture, engine, active,
                 exhausted>>

-----------------------------------------------------------------------------
(* Composition and activation.                                             *)

\* ValidateRenderSourceForActivation: the registry's own reference is there.
ActivationValid == ~carrier.formID /\ engine.intact

\* The registry refuses a carrier that it does not have for this NPC.
Activate ==
  \/ ActivationValid /\ active' = TRUE /\ pc' = "done" /\ UNCHANGED killed
  \/ (~ActivationValid \/ "activate" \in Faults) /\ Kill /\ UNCHANGED active

\* mutant: a rejected submission leaves the runtime operational
RefuseSubmission_Quiet == DestroyOutput /\ pc' = "done" /\ UNCHANGED killed

RefuseSubmission == DestroyOutput /\ Kill

\* StartFaceTextureComposite; without layers the carrier is activated at once.
StartComposite ==
  /\ pc = "start"
  /\ \/ /\ NeedsFaceTextureComposite
        /\ carrier.formID \/ killed \/ "noRequests" \in Faults
        /\ RefuseSubmission
        /\ UNCHANGED active
     \/ /\ NeedsFaceTextureComposite /\ ~carrier.formID /\ ~killed
        /\ output' = [output EXCEPT !.state = "submitted"]
        /\ pc' = "poll"
        /\ UNCHANGED <<active, killed>>
     \/ /\ ~NeedsFaceTextureComposite
        /\ Activate
        /\ UNCHANGED output
  /\ UNCHANGED <<assigned, npc, revision, source, capture, engine, disabled, exhausted>>

\* mutant: a composite that is not ready is waited for, however long it takes
PollComposite_Patient ==
  /\ pc = "poll" /\ ~killed
  /\ output.ready /\ pc' = "finalized" /\ UNCHANGED killed
  /\ UNCHANGED <<assigned, npc, revision, source, capture, output, engine, active, disabled,
                 exhausted>>

\* PollPendingComposite.  A composite that is not ready is polled again, which
\* changes nothing here; one that is may still fail to be finalized.  Once the
\* runtime is killed no poll is dispatched.
PollComposite ==
  /\ pc = "poll" /\ ~killed
  /\ \/ (engine.expired \/ (output.ready /\ "finalize" \in Faults)) /\ Kill
     \/ ~engine.expired /\ output.ready /\ pc' = "finalized" /\ UNCHANGED killed
  /\ UNCHANGED <<assigned, npc, revision, source, capture, output, engine, active, disabled,
                 exhausted>>

\* mutant: the first poll already looks whether the engine is idle
PollCompositeActivation_Unarmed ==
  /\ pc = "finalized" /\ ~killed
  /\ \/ engine.expired /\ Kill /\ UNCHANGED active
     \/ ~engine.expired /\ engine.idle /\ Activate
  /\ UNCHANGED <<assigned, npc, revision, source, capture, output, engine, disabled, exhausted>>

\* PollCompositeActivation: the first poll waits for the next drain, the later
\* ones until the engine publishes no face textures.
PollCompositeActivation ==
  /\ pc \in {"finalized", "armed"} /\ ~killed
  /\ \/ engine.expired /\ Kill /\ UNCHANGED active
     \/ ~engine.expired /\ pc = "finalized" /\ pc' = "armed" /\ UNCHANGED <<active, killed>>
     \/ ~engine.expired /\ pc = "armed" /\ engine.idle /\ Activate
  /\ UNCHANGED <<assigned, npc, revision, source, capture, output, engine, disabled, exhausted>>

-----------------------------------------------------------------------------
(* The rest of the program and of the engine.                              *)

task    == <<pc, assigned, look, race, lost, snapshot, capture, active, disabled, exhausted>>

OtherKill ==
  /\ "kill" \in Faults /\ ~killed
  /\ killed' = TRUE
  /\ UNCHANGED <<task, npc, revision, carrier, output, engine>>

\* What the engine was given it may refer to for a while, or register.
EngineRetains ==
  /\ "touch" \in Faults /\ carrier.state \in {"owned", "registered"}
  /\ \/ carrier.held < MaxHeld /\ carrier' = [carrier EXCEPT !.held = @ + 1]
     \/ carrier.held > 0 /\ carrier' = [carrier EXCEPT !.held = @ - 1]
     \/ ~carrier.formID /\ carrier' = [carrier EXCEPT !.formID = TRUE]
  /\ UNCHANGED <<task, npc, revision, output, engine, killed>>

CanonicalChanges ==
  /\ revision < MaxRevision
  /\ revision' = revision + 1
  /\ UNCHANGED <<task, npc, carrier, output, engine, killed>>

StructureChanges ==
  /\ "structure" \in Faults /\ Published /\ engine.intact
  /\ engine' = [engine EXCEPT !.intact = FALSE]
  /\ UNCHANGED <<task, npc, revision, carrier, output, killed>>

EngineComposes ==
  /\ output.state = "submitted" /\ ~output.ready
  /\ output' = [output EXCEPT !.ready = TRUE]
  /\ UNCHANGED <<task, npc, revision, carrier, engine, killed>>

EngineIdles ==
  /\ pc \in {"finalized", "armed"}
  /\ engine' = [engine EXCEPT !.idle = ~@]
  /\ UNCHANGED <<task, npc, revision, carrier, output, killed>>

\* Thirty seconds after the submission.
Expire ==
  /\ output.state = "submitted" /\ ~engine.expired
  /\ engine' = [engine EXCEPT !.expired = TRUE]
  /\ UNCHANGED <<task, npc, revision, carrier, output, killed>>

-----------------------------------------------------------------------------

Task ==
  \/ ScanAssignment \/ CreateRenderSource \/ CopyBaseline \/ ApplyPreset \/ ValidateCarrier
  \/ CaptureRoots \/ VisitHeadPart \/ KeepStructure
  \/ CreateOutput \/ PublishRenderSource \/ StartComposite
  \/ PollComposite \/ PollCompositeActivation

Environment ==
  \/ OtherKill \/ EngineRetains \/ CanonicalChanges \/ StructureChanges
  \/ EngineComposes \/ EngineIdles \/ Expire

Next == Task \/ Environment

Spec == Init /\ [][Next]_vars

\* The drain runs the task to its end and the pump dispatches the polls; a
\* clock needs no scheduler.  The engine owes nothing.
FairSpec == Spec /\ WF_vars(Task) /\ WF_vars(Expire)

-----------------------------------------------------------------------------
(* Properties.                                                             *)

Prepared == preset # <<>>

\* Every state is of its type; the traversal of the head parts stays within its
\* limits, whatever the parts refer to (NPCSnapshot.cpp).
TypeOK ==
  /\ pc \in Places
  /\ carrier \in [state : CarrierStates, formID : BOOLEAN, held : HeldCounts, shared : BOOLEAN]
  /\ output \in [state : OutputStates, ready : BOOLEAN]
  /\ engine \in [expired : BOOLEAN, idle : BOOLEAN, intact : BOOLEAN]
  /\ revision \in 0 .. MaxRevision /\ snapshot \in 0 .. revision
  /\ race \in Races \cup {NoName}
  /\ lost \in Losses \cup {{}}
  /\ graph \subseteq HeadParts
  /\ pending \subseteq HeadParts \cup {NoName}
  /\ edges \in 0 .. MaxReachable + MaxExtras
  /\ {active, disabled, killed, exhausted} \subseteq BOOLEAN

\* What the parsers make of a document says what the document says: an ID
\* stands for the same bits, a skin tone for the same low byte, a tint for the
\* same fraction of its scale, and nothing is beyond its field (Preset.cpp).
PresetIsSound ==
  Prepared =>
    /\ preset.skinTone \in 0 .. MaxByte
    /\ (preset.skinTone - document.skinTone) % (MaxByte + 1) = 0
    /\ \A r \in DOMAIN preset.regions : preset.regions[r].region \in 0 .. MaxID
    /\ document.format = "ck" =>
         \A r \in DOMAIN preset.regions :
           \A s \in DOMAIN preset.regions[r].sliders :
             LET id == preset.regions[r].sliders[s].id
             IN  /\ id \in 0 .. MaxID
                 /\ (id - document.regions[r].sliders[s].id) % (MaxID + 1) = 0
    /\ \A i \in DOMAIN preset.layers :
         LET scale == IF document.format = "ck" /\ ~IsCharGenMenu(document) THEN 64 ELSE 128
             exact == document.layers[i].intensity * scale
         IN  exact - One < preset.layers[i].intensity * One /\ preset.layers[i].intensity * One <= exact

\* The head parts a preset resolves to are all offered to its race, each is the
\* only one in the slot of its type, and no part is there twice: a part for
\* every name of the preset (Resolver.cpp).
DependenciesAgree ==
  Prepared =>
    /\ deps.race = npc.configured
    /\ \A type \in UniqueSlots :
         deps.unique[type] # NoName =>
           PartType[deps.unique[type]] = type /\ deps.race \in PartRaces[deps.unique[type]]
    /\ \A part \in deps.misc : deps.race \in PartRaces[part]
    /\ Cardinality(UniqueParts(deps) \cup deps.misc) =
         IF preset.format = "ck" THEN Cardinality(CkNamed(preset)) ELSE Len(preset.forms)

\* A published carrier shows the preset, whichever setters of the engine had no
\* effect, and has the race the preset is for (PrepareRenderSource).  Two things
\* the validation lets pass are excepted.  It looks at the first head part of a
\* type: where RemoveHeadPart had no effect, others of the NPC may come behind.
\* It counts tint entries against layers: two layers of one category leave room
\* for one that the engine did not remove.
PublishedShowsPreset ==
  Published =>
    /\ lost = {} \/ OneLayerEach(deps) => ShowsPreset(look, preset, deps)
    /\ "removePart" \notin lost => NoneBehind(look.parts, deps)
    /\ race = deps.race

\* Where the setters work, validation finds no fault with a preset that does not
\* contradict itself, whatever the NPC looked like before.
CleanPresetAccepted ==
  pc = "validate" /\ lost = {} /\ ~Conflicting(preset, deps) =>
    ValidateMorphs(look, preset) /\ ValidateVisuals(look, preset, deps)

\* No carrier is freed while anything refers to it (RenderSourceNPC.cpp).  One
\* that the engine registered under a FormID while constructing it may be, and
\* then the runtime is killed.
NeverFreedInUse ==
  carrier.state = "freed" => carrier.held = 0 /\ (carrier.formID => killed)

\* The structure of a published carrier is whole: every part it shows, and every
\* part that one of these brings with it, is registered and of a known type
\* (CaptureRenderSourceStructure).
StructureIsClosed ==
  Published =>
    /\ PartsOf(look.parts) \subseteq graph
    /\ \A part \in graph :
         part \in Sound /\ PartType[part] <= MaxType /\ ExtrasOf(part) \subseteq graph

\* A task that fails before publication disables its base and no more than that
\* can be seen of it; one that fails after it kills the runtime.
FailureIsContained ==
  /\ disabled => ~Published /\ ~active
  /\ active => Published /\ race = deps.race
  /\ pc = "done" /\ Published => active \/ killed
  /\ pc = "done" /\ Prepared => active \/ disabled \/ killed

\* The canonical NPC is only read: no step gives it another appearance.
CanonicalIsRead == [][npc' = npc]_vars

\* What the task owns at its end it has abandoned.
OwnerOf(state) ==
  IF state = "none" THEN "nobody"
  ELSE IF state \in {"registered", "submitted"} THEN "engine"
  ELSE IF state = "freed" THEN "freed"
  ELSE IF state = "owned" /\ pc # "done" THEN "task"
  ELSE "abandoned"

Carrier == INSTANCE OwnedObject WITH owner <- OwnerOf(carrier.state), alarm <- killed \/ exhausted
Output  == INSTANCE OwnedObject WITH owner <- OwnerOf(output.state), alarm <- killed \/ exhausted

\* Carrier and composite are freed once, or the engine's for good, or abandoned.
\* The code abandons a carrier that something refers to when it is to be
\* destroyed, and an output for which another carrier was found, and kills the
\* runtime then; and a carrier whose structure it has no memory to keep, without
\* killing the runtime (FailedSourceIsDestroyed).  It abandons no other.
ObjectsAreOwned == Carrier!Spec /\ Output!Spec

\* The stage of the base.  A task that has been stopped leaves it where it is.
StageOf ==
  IF active THEN "served"
  ELSE IF disabled THEN "vanilla"
  ELSE IF pc = "done" /\ killed THEN "abandoned"
  ELSE IF ~Published THEN "nothing"
  ELSE IF output.state # "submitted" THEN "staged"
  ELSE IF pc = "poll" THEN "composing"
  ELSE pc

Progress == INSTANCE RenderSourceStages
  WITH operational <- ~killed, tinted <- Published /\ NeedsFaceTextureComposite, stage <- StageOf

\* The task takes its base through the stages that the coordinator expects, in
\* their order, and stops the runtime wherever it cannot go on after publication.
ImplementsStages == Progress!Spec

\* The task ends or the runtime is killed, although the engine may never compose.
PreparationEnds == <>(pc = "done" \/ killed)

\* docs/ARCHITECTURE.md: "A failed or duplicate unpublished source is destroyed
\* immediately."  A task that has ended without publishing its carrier has freed it.
FailedSourceIsDestroyed ==
  pc = "done" /\ ~Published => carrier.state \in {"none", "freed"}
=============================================================================
