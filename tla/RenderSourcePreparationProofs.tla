-------------------- MODULE RenderSourcePreparationProofs --------------------
(***************************************************************************)
(* Proofs about RenderSourcePreparation, for every set of presets, NPCs    *)
(* and head parts, whatever fails and whichever setters are lost.          *)
(***************************************************************************)
EXTENDS RenderSourcePreparation, PresetApplicationProofs

-----------------------------------------------------------------------------
(* Where the task is, and what it owns there.                              *)

Early == {"scan", "create"}
Building == {"copy", "apply", "validate", "roots", "visit", "output", "publish"}
Staged == {"start", "poll", "finalized", "armed"}

\* The carrier belongs to the task from its construction to its publication.
CarrierPhase ==
  /\ pc \in Early => carrier.state = "none"
  /\ pc \in Building => carrier.state = "owned"
  /\ pc \in Staged => carrier.state = "registered"
  /\ pc = "done" => carrier.state # "owned"

\* The output belongs to it until it is submitted, and there is one for a
\* carrier with tint layers only.
OutputPhase ==
  /\ pc \in {"publish", "start"} =>
       output.state = IF NeedsFaceTextureComposite THEN "owned" ELSE "none"
  /\ pc \in (Early \cup Building) \ {"publish"} => output.state = "none"
  /\ pc \in Staged \ {"start"} => output.state = "submitted"
  /\ pc = "done" => output.state # "owned"

\* What the proofs need of types.
Typed ==
  /\ pc \in Places
  /\ carrier \in [state : CarrierStates, formID : BOOLEAN, held : HeldCounts, shared : BOOLEAN]
  /\ output \in [state : OutputStates, ready : BOOLEAN]
  /\ killed \in BOOLEAN /\ disabled \in BOOLEAN /\ active \in BOOLEAN /\ exhausted \in BOOLEAN

Phases == Typed /\ CarrierPhase /\ OutputPhase

\* One lemma per action, because each touches carrier, output and place at once.
LEMMA ScanPhases ==
  ASSUME Phases, ScanAssignment
  PROVE  Phases'
BY DEF Phases, Typed, CarrierPhase, OutputPhase, ScanAssignment, Prepare, Skip, Early, Building,
       Staged, Places, source, capture, NeedsFaceTextureComposite

LEMMA CreatePhases ==
  ASSUME Phases, CreateRenderSource
  PROVE  Phases'
<1>1. /\ pc = "create" /\ carrier.state = "none" /\ output.state = "none"
      /\ carrier \in [state : CarrierStates, formID : BOOLEAN, held : HeldCounts, shared : BOOLEAN]
      /\ UNCHANGED <<output, look, active, exhausted>>
  BY DEF Phases, Typed, CarrierPhase, OutputPhase, CreateRenderSource, Early, Building
<1>2. CASE Construct
  <2>1. /\ carrier' = [carrier EXCEPT !.state = "owned"] /\ pc' = "copy"
        /\ UNCHANGED <<killed, disabled>>
    BY <1>2 DEF Construct
  <2>2. QED BY <1>1, <2>1 DEF Phases, Typed, CarrierPhase, OutputPhase, Early, Building, Staged,
                             Places, CarrierStates, NeedsFaceTextureComposite
<1>3. CASE Disable /\ UNCHANGED <<carrier, killed>>
  BY <1>1, <1>3 DEF Disable, Phases, Typed, CarrierPhase, OutputPhase, Early, Building, Staged,
                    Places
<1>4. CASE RefuseConstructed
  <2>1. /\ carrier'.state \in {"leaked", "freed"}
        /\ carrier' \in [state : CarrierStates, formID : BOOLEAN, held : HeldCounts, shared : BOOLEAN]
    <3>1. 0 \in HeldCounts /\ 1 \in HeldCounts
      BY BoundAssumption DEF HeldCounts
    <3>2. PICK formID, held \in BOOLEAN, left \in BOOLEAN :
            carrier' = [carrier EXCEPT !.state  = IF held THEN "leaked" ELSE "freed",
                                       !.formID = formID /\ (held \/ left),
                                       !.held   = IF held THEN 1 ELSE 0]
      BY <1>4 DEF RefuseConstructed
    <3>3. (formID /\ (held \/ left)) \in BOOLEAN
      OBVIOUS
    <3>4. QED BY <1>1, <3>1, <3>2, <3>3 DEF CarrierStates
  <2>2. QED BY <1>1, <1>4, <2>1 DEF RefuseConstructed, Disable, Phases, Typed, CarrierPhase,
                                   OutputPhase, Early, Building, Staged, Places
<1>5. QED BY <1>2, <1>3, <1>4 DEF CreateRenderSource, NoAllocation

\* Copying, applying, validating and the roots of the capture either go on with
\* the carrier they have or reject it.
LEMMA RejectPhases ==
  ASSUME Phases, NEW c, NEW alarm \in BOOLEAN, Reject(c, alarm),
         c \in [state : CarrierStates, formID : BOOLEAN, held : HeldCounts, shared : BOOLEAN],
         output' \in [state : OutputStates, ready : BOOLEAN], output'.state # "owned",
         UNCHANGED <<active, exhausted>>
  PROVE  Phases'
<1>1. /\ Destroyed(c).state \in {"leaked", "freed"}
      /\ Destroyed(c) \in [state : CarrierStates, formID : BOOLEAN, held : HeldCounts, shared : BOOLEAN]
  BY DEF Destroyed, CarrierStates
<1>2. killed' \in BOOLEAN
  BY DEF Reject, Touched, Phases, Typed
<1>3. QED BY <1>1, <1>2 DEF Reject, Phases, Typed, CarrierPhase, OutputPhase, Early, Building,
                            Staged, Places

\* A step from one place of the construction to the next.
LEMMA GoOnPhases ==
  ASSUME Phases, pc \in Building \ {"publish"}, pc' \in Building \ {"publish"},
         carrier'.state = carrier.state,
         carrier' \in [state : CarrierStates, formID : BOOLEAN, held : HeldCounts, shared : BOOLEAN],
         UNCHANGED <<output, killed, disabled, active, exhausted>>
  PROVE  Phases'
BY DEF Phases, Typed, CarrierPhase, OutputPhase, Early, Building, Staged, Places

LEMMA BuildPhases ==
  ASSUME Phases, CopyBaseline \/ ApplyPreset \/ ValidateCarrier \/ CaptureRoots \/ VisitHeadPart
  PROVE  Phases'
<1>1. /\ pc \in Building \ {"publish"} /\ output.state = "none"
      /\ carrier \in [state : CarrierStates, formID : BOOLEAN, held : HeldCounts, shared : BOOLEAN]
      /\ output \in [state : OutputStates, ready : BOOLEAN]
      /\ UNCHANGED <<output, active, exhausted>>
  BY DEF Phases, Typed, OutputPhase, Building, Early, CopyBaseline, ApplyPreset, ValidateCarrier,
         CaptureRoots, VisitHeadPart
<1>2. CASE CopyBaseline
  <2>1. PICK shared \in BOOLEAN :
          \/ /\ carrier' = [carrier EXCEPT !.shared = shared]
             /\ pc' = "apply"
             /\ UNCHANGED <<killed, disabled>>
          \/ Reject([carrier EXCEPT !.shared = shared], FALSE)
    BY <1>2 DEF CopyBaseline
  <2>2. [carrier EXCEPT !.shared = shared]
          \in [state : CarrierStates, formID : BOOLEAN, held : HeldCounts, shared : BOOLEAN]
    BY <1>1
  <2>3. CASE Reject([carrier EXCEPT !.shared = shared], FALSE)
    BY <1>1, <2>2, <2>3, RejectPhases
  <2>4. CASE carrier' = [carrier EXCEPT !.shared = shared] /\ pc' = "apply" /\ UNCHANGED <<killed, disabled>>
    BY <1>1, <2>2, <2>4, GoOnPhases DEF Building
  <2>5. QED BY <2>1, <2>3, <2>4
<1>3. ASSUME ~CopyBaseline PROVE Phases'
  <2>1. \/ pc' \in Building \ {"publish"} /\ UNCHANGED <<carrier, killed, disabled>>
        \/ Reject(carrier, FALSE)
    BY <1>1, <1>3 DEF ApplyPreset, ValidateCarrier, CaptureRoots, VisitHeadPart, Building
  <2>2. QED BY <1>1, <2>1, RejectPhases, GoOnPhases
<1>4. QED BY <1>2, <1>3

LEMMA KeepPhases ==
  ASSUME Phases, KeepStructure
  PROVE  Phases'
<1>1. /\ pc = "visit" /\ carrier.state = "owned" /\ output.state = "none"
      /\ carrier \in [state : CarrierStates, formID : BOOLEAN, held : HeldCounts, shared : BOOLEAN]
      /\ UNCHANGED <<output, active, killed>>
  BY DEF Phases, Typed, CarrierPhase, OutputPhase, KeepStructure, Early, Building
<1>2. CASE pc' = "output" /\ UNCHANGED <<carrier, disabled, exhausted>>
  BY <1>1, <1>2, GoOnPhases DEF Building
<1>3. CASE carrier' = [carrier EXCEPT !.state = "leaked"] /\ exhausted' = TRUE /\ Disable
  BY <1>1, <1>3 DEF Disable, CarrierStates, Phases, Typed, CarrierPhase, OutputPhase, Early,
                    Building, Staged, Places
<1>4. QED BY <1>2, <1>3 DEF KeepStructure

LEMMA OutputPhases ==
  ASSUME Phases, CreateOutput
  PROVE  Phases'
<1>1. /\ pc = "output" /\ carrier.state = "owned" /\ output.state = "none"
      /\ carrier \in [state : CarrierStates, formID : BOOLEAN, held : HeldCounts, shared : BOOLEAN]
      /\ output \in [state : OutputStates, ready : BOOLEAN]
      /\ UNCHANGED <<look, active, exhausted>>
  BY DEF Phases, Typed, CarrierPhase, OutputPhase, CreateOutput, Early, Building
<1>2. CASE Reject(carrier, FALSE) /\ UNCHANGED output
  BY <1>1, <1>2, RejectPhases
<1>3. CASE output' = [output EXCEPT !.state = "freed"] /\ Reject(carrier, TRUE)
  BY <1>1, <1>3, RejectPhases DEF OutputStates
<1>4. CASE /\ pc' = "publish"
           /\ UNCHANGED <<carrier, disabled, killed>>
           /\ IF NeedsFaceTextureComposite THEN output' = [output EXCEPT !.state = "owned"]
              ELSE UNCHANGED output
  BY <1>1, <1>4 DEF OutputStates, Phases, Typed, CarrierPhase, OutputPhase, Early, Building,
                    Staged, Places, NeedsFaceTextureComposite
<1>5. QED BY <1>2, <1>3, <1>4 DEF CreateOutput

LEMMA DestroyOutputTyped ==
  ASSUME DestroyOutput, output \in [state : OutputStates, ready : BOOLEAN]
  PROVE  /\ output' \in [state : OutputStates, ready : BOOLEAN]
         /\ output'.state # "owned"
BY DEF DestroyOutput, OutputStates

LEMMA PublishPhases ==
  ASSUME Phases, PublishRenderSource
  PROVE  Phases'
<1>1. /\ pc = "publish" /\ carrier.state = "owned"
      /\ output.state = IF NeedsFaceTextureComposite THEN "owned" ELSE "none"
      /\ carrier \in [state : CarrierStates, formID : BOOLEAN, held : HeldCounts, shared : BOOLEAN]
      /\ output \in [state : OutputStates, ready : BOOLEAN]
      /\ UNCHANGED <<look, active, exhausted>>
  BY DEF Phases, Typed, CarrierPhase, OutputPhase, PublishRenderSource, Early, Building
<1>2. CASE RefusePublication
  BY <1>1, <1>2, DestroyOutputTyped, RejectPhases DEF RefusePublication
<1>3. CASE FindExisting
  <2>1. /\ Destroyed(carrier).state \in {"leaked", "freed"}
        /\ Destroyed(carrier) \in [state : CarrierStates, formID : BOOLEAN, held : HeldCounts, shared : BOOLEAN]
    BY <1>1 DEF Destroyed, CarrierStates
  <2>2. output' \in [state : OutputStates, ready : BOOLEAN] /\ output'.state # "owned"
    BY <1>1, <1>3 DEF FindExisting, OutputStates
  <2>3. QED BY <1>1, <1>3, <2>1, <2>2 DEF FindExisting, Kill, Phases, Typed, CarrierPhase,
                                         OutputPhase, Early, Building, Staged, Places
<1>4. CASE Adopt
  BY <1>1, <1>4 DEF Adopt, CarrierStates, Phases, Typed, CarrierPhase, OutputPhase, Early,
                    Building, Staged, Places, NeedsFaceTextureComposite
<1>5. QED BY <1>2, <1>3, <1>4 DEF PublishRenderSource

LEMMA StagedPhases ==
  ASSUME Phases, StartComposite \/ PollComposite \/ PollCompositeActivation
  PROVE  Phases'
<1>1. /\ pc \in Staged /\ carrier.state = "registered"
      /\ output \in [state : OutputStates, ready : BOOLEAN]
      /\ UNCHANGED <<carrier, look, disabled, exhausted>>
  BY DEF Phases, Typed, CarrierPhase, StartComposite, PollComposite, PollCompositeActivation,
         Staged, source
<1>2. ASSUME pc' = "done", output'.state # "owned", output' \in [state : OutputStates, ready : BOOLEAN],
             killed' \in BOOLEAN, active' \in BOOLEAN
      PROVE  Phases'
  BY <1>1, <1>2 DEF Phases, Typed, CarrierPhase, OutputPhase, Early, Building, Staged, Places
<1>3. killed' \in BOOLEAN /\ active' \in BOOLEAN
  BY DEF Phases, Typed, StartComposite, PollComposite, PollCompositeActivation, Activate, Kill,
         RefuseSubmission
<1>4. CASE StartComposite
  <2>1. CASE RefuseSubmission
    BY <1>1, <1>2, <1>3, <2>1, DestroyOutputTyped DEF RefuseSubmission, Kill
  <2>2. CASE output' = [output EXCEPT !.state = "submitted"] /\ pc' = "poll"
    BY <1>1, <1>3, <2>2 DEF OutputStates, Phases, Typed, CarrierPhase, OutputPhase, Early, Building,
                            Staged, Places
  <2>3. CASE ~NeedsFaceTextureComposite /\ Activate /\ UNCHANGED output
    BY <1>1, <1>2, <1>3, <1>4, <2>3 DEF StartComposite, Activate, Kill, Phases, OutputPhase
  <2>4. QED BY <1>4, <2>1, <2>2, <2>3 DEF StartComposite
<1>5. CASE PollComposite \/ PollCompositeActivation
  <2>1. output' = output /\ output.state = "submitted" /\ pc # "start"
    BY <1>5 DEF PollComposite, PollCompositeActivation, Phases, OutputPhase, Staged
  <2>2. CASE pc' \in {"finalized", "armed"}
    BY <1>1, <1>3, <2>1, <2>2 DEF Phases, Typed, CarrierPhase, OutputPhase, Early, Building, Staged,
                                  Places
  <2>3. CASE pc' = "done"
    BY <1>1, <1>2, <1>3, <2>1, <2>3
  <2>4. QED BY <1>5, <2>2, <2>3 DEF PollComposite, PollCompositeActivation, Activate, Kill
<1>6. QED BY <1>4, <1>5

\* What happens around the task changes neither its place nor who owns what.
LEMMA EnvironmentKeeps ==
  ASSUME Phases, Environment
  PROVE  /\ UNCHANGED task
         /\ carrier'.state = carrier.state /\ output'.state = output.state
         /\ carrier' \in [state : CarrierStates, formID : BOOLEAN, held : HeldCounts, shared : BOOLEAN]
         /\ output' \in [state : OutputStates, ready : BOOLEAN]
         /\ killed' \in BOOLEAN /\ (killed => killed')
<1>1. /\ carrier \in [state : CarrierStates, formID : BOOLEAN, held : HeldCounts, shared : BOOLEAN]
      /\ output \in [state : OutputStates, ready : BOOLEAN]
      /\ killed \in BOOLEAN
  BY DEF Phases, Typed
<1>2. CASE EngineRetains
  <2>1. PICK held \in HeldCounts, formID \in BOOLEAN :
          carrier' = [carrier EXCEPT !.held = held, !.formID = formID]
    <3>1. CASE carrier.held < MaxHeld /\ carrier' = [carrier EXCEPT !.held = @ + 1]
      <4>1. carrier.held + 1 \in HeldCounts
        BY <1>1, <3>1, BoundAssumption DEF HeldCounts
      <4>2. carrier' = [carrier EXCEPT !.held = carrier.held + 1, !.formID = carrier.formID]
        BY <1>1, <3>1
      <4>3. QED BY <1>1, <4>1, <4>2
    <3>2. CASE carrier.held > 0 /\ carrier' = [carrier EXCEPT !.held = @ - 1]
      <4>1. carrier.held - 1 \in HeldCounts
        BY <1>1, <3>2, BoundAssumption DEF HeldCounts
      <4>2. carrier' = [carrier EXCEPT !.held = carrier.held - 1, !.formID = carrier.formID]
        BY <1>1, <3>2
      <4>3. QED BY <1>1, <4>1, <4>2
    <3>3. CASE carrier' = [carrier EXCEPT !.formID = TRUE]
      <4>1. carrier' = [carrier EXCEPT !.held = carrier.held, !.formID = TRUE]
        BY <1>1, <3>3
      <4>2. QED BY <1>1, <4>1
    <3>4. QED BY <1>2, <3>1, <3>2, <3>3 DEF EngineRetains
  <2>2. QED BY <1>1, <1>2, <2>1 DEF EngineRetains
<1>3. CASE OtherKill \/ CanonicalChanges \/ StructureChanges \/ EngineIdles \/ Expire
  BY <1>1, <1>3 DEF OtherKill, CanonicalChanges, StructureChanges, EngineIdles, Expire
<1>4. CASE EngineComposes
  BY <1>1, <1>4 DEF EngineComposes
<1>5. QED BY <1>2, <1>3, <1>4 DEF Environment

LEMMA EnvironmentPhases ==
  ASSUME Phases, Environment
  PROVE  Phases'
BY EnvironmentKeeps DEF task, Phases, Typed, CarrierPhase, OutputPhase, NeedsFaceTextureComposite

LEMMA StutterPhases ==
  ASSUME Phases, UNCHANGED vars
  PROVE  Phases'
BY DEF vars, source, Phases, Typed, CarrierPhase, OutputPhase, NeedsFaceTextureComposite

LEMMA PhasesInit == Init => Phases
<1>1. 0 \in HeldCounts
  BY BoundAssumption DEF HeldCounts
<1>2. SUFFICES ASSUME Init PROVE Phases
  OBVIOUS
<1>3. carrier \in [state : CarrierStates, formID : BOOLEAN, held : HeldCounts, shared : BOOLEAN]
  BY <1>1, <1>2 DEF Init, CarrierStates
<1>4. QED BY <1>2, <1>3 DEF Init, Phases, Typed, CarrierPhase, OutputPhase, Places, OutputStates, Early,
                     Building, Staged

LEMMA PhasesStep ==
  ASSUME Phases, [Next]_vars
  PROVE  Phases'
BY ScanPhases, CreatePhases, BuildPhases, KeepPhases, OutputPhases, PublishPhases, StagedPhases,
   EnvironmentPhases, StutterPhases DEF Next, Task

LEMMA PhasesHold == Spec => []Phases
BY PhasesInit, PhasesStep, PTL DEF Spec

-----------------------------------------------------------------------------
(* No carrier is freed while it is referred to.                            *)

LEMMA FreedByDestroy ==
  ASSUME NEW c, Destroyed(c).state = "freed",
         c \in [state : CarrierStates, formID : BOOLEAN, held : HeldCounts, shared : BOOLEAN]
  PROVE  Destroyed(c).held = 0 /\ ~Destroyed(c).formID
BY DEF Destroyed, Touched

\* A freed carrier stays as it is; the steps that free one are those that find
\* nothing referring to it, and the rejection of one that the engine constructed.
LEMMA NeverFreedStep ==
  ASSUME Phases, NeverFreedInUse, [Next]_vars
  PROVE  NeverFreedInUse'
<1>1. /\ carrier \in [state : CarrierStates, formID : BOOLEAN, held : HeldCounts, shared : BOOLEAN]
      /\ pc \in Early => carrier.state = "none"
      /\ pc \in Building => carrier.state = "owned"
      /\ pc \in Staged => carrier.state = "registered"
  BY DEF Phases, Typed, CarrierPhase
<1>2. ASSUME NEW c, NEW alarm, Reject(c, alarm),
             c \in [state : CarrierStates, formID : BOOLEAN, held : HeldCounts, shared : BOOLEAN]
      PROVE  NeverFreedInUse'
  BY <1>2, FreedByDestroy DEF Reject, NeverFreedInUse
<1>3. ASSUME carrier' = carrier, killed => killed' PROVE NeverFreedInUse'
  BY <1>3 DEF NeverFreedInUse
<1>4. CASE ScanAssignment \/ StartComposite \/ PollComposite \/ PollCompositeActivation
  BY <1>3, <1>4 DEF ScanAssignment, source, StartComposite, PollComposite, PollCompositeActivation,
                    Activate, Kill, RefuseSubmission
<1>5. CASE CreateRenderSource
  <2>1. CASE RefuseConstructed
    <3>1. PICK formID, held \in BOOLEAN, left \in BOOLEAN :
            carrier' = [carrier EXCEPT !.state  = IF held THEN "leaked" ELSE "freed",
                                       !.formID = formID /\ (held \/ left),
                                       !.held   = IF held THEN 1 ELSE 0]
      BY <2>1 DEF RefuseConstructed
    <3>2. carrier'.state = "freed" => carrier'.held = 0
      BY <1>1, <3>1
    <3>3. QED BY <2>1, <3>2 DEF RefuseConstructed, NeverFreedInUse
  <2>2. CASE Construct
    <3>1. carrier'.state = "owned"
      BY <1>1, <2>2 DEF Construct
    <3>2. QED BY <3>1 DEF NeverFreedInUse
  <2>3. QED BY <1>3, <1>5, <2>1, <2>2 DEF CreateRenderSource, NoAllocation
<1>6. CASE CopyBaseline
  <2>1. PICK shared \in BOOLEAN :
          \/ carrier' = [carrier EXCEPT !.shared = shared]
          \/ Reject([carrier EXCEPT !.shared = shared], FALSE)
    BY <1>6 DEF CopyBaseline
  <2>2. CASE carrier' = [carrier EXCEPT !.shared = shared]
    <3>1. carrier'.state = "owned"
      BY <1>1, <1>6, <2>2 DEF CopyBaseline, Building
    <3>2. QED BY <3>1 DEF NeverFreedInUse
  <2>3. CASE Reject([carrier EXCEPT !.shared = shared], FALSE)
    <3>1. [carrier EXCEPT !.shared = shared]
            \in [state : CarrierStates, formID : BOOLEAN, held : HeldCounts, shared : BOOLEAN]
      BY <1>1
    <3>2. QED BY <1>2, <2>3, <3>1
  <2>4. QED BY <2>1, <2>2, <2>3
<1>7. CASE ApplyPreset \/ ValidateCarrier \/ CaptureRoots \/ VisitHeadPart
  <2>1. UNCHANGED <<carrier, killed>> \/ Reject(carrier, FALSE)
    BY <1>7 DEF ApplyPreset, ValidateCarrier, CaptureRoots, VisitHeadPart
  <2>2. QED BY <1>1, <1>2, <1>3, <2>1
<1>8. CASE KeepStructure
  <2>1. UNCHANGED <<carrier, killed>> \/ carrier'.state = "leaked"
    BY <1>1, <1>8 DEF KeepStructure
  <2>2. QED BY <1>3, <2>1 DEF NeverFreedInUse
<1>9. CASE CreateOutput
  <2>1. UNCHANGED <<carrier, killed>> \/ (\E alarm \in BOOLEAN : Reject(carrier, alarm))
    BY <1>9 DEF CreateOutput
  <2>2. QED BY <1>1, <1>2, <1>3, <2>1
<1>10. CASE PublishRenderSource
  <2>1. CASE RefusePublication
    BY <1>1, <1>2, <2>1 DEF RefusePublication
  <2>2. CASE FindExisting
    BY <1>1, <2>2, FreedByDestroy DEF FindExisting, NeverFreedInUse
  <2>3. CASE Adopt
    <3>1. carrier'.state = "registered"
      BY <1>1, <2>3 DEF Adopt
    <3>2. QED BY <3>1 DEF NeverFreedInUse
  <2>4. QED BY <1>10, <2>1, <2>2, <2>3 DEF PublishRenderSource
<1>11. CASE Environment
  <2>1. CASE EngineRetains
    <3>1. carrier'.state = carrier.state /\ carrier.state # "freed"
      BY <1>11, <2>1, EnvironmentKeeps DEF EngineRetains
    <3>2. QED BY <3>1 DEF NeverFreedInUse
  <2>2. CASE UNCHANGED carrier
    BY <1>3, <1>11, <2>2, EnvironmentKeeps
  <2>3. QED BY <1>11, <2>1, <2>2 DEF Environment, OtherKill, CanonicalChanges, StructureChanges,
                                  EngineComposes, EngineIdles, Expire
<1>12. CASE UNCHANGED vars
  BY <1>3, <1>12 DEF vars, source
<1>13. QED BY <1>4, <1>5, <1>6, <1>7, <1>8, <1>9, <1>10, <1>11, <1>12 DEF Next, Task

\* Whatever the engine holds on to and whenever the task fails, no carrier is
\* freed while it is referred to, except one that the constructor registered
\* under a FormID, after which the runtime is killed (RenderSourceNPC.cpp).
THEOREM NeverFreedInUseHolds == Spec => []NeverFreedInUse
<1>1. Init => NeverFreedInUse
  BY DEF Init, NeverFreedInUse
<1>2. QED BY <1>1, PhasesHold, NeverFreedStep, PTL DEF Spec

-----------------------------------------------------------------------------
(* The canonical NPC is only read.                                         *)

\* A carrier gets the preset only when it shares nothing with the NPC.
Unshared == pc = "apply" => ~carrier.shared

LEMMA UnsharedStep ==
  ASSUME Phases, Unshared, [Next]_vars
  PROVE  Unshared'
<1>1. carrier \in [state : CarrierStates, formID : BOOLEAN, held : HeldCounts, shared : BOOLEAN]
  BY DEF Phases, Typed
<1>2. CASE CopyBaseline
  <2>1. PICK exact, shared \in BOOLEAN :
          IF BaselineAccepted(exact, shared)
          THEN carrier' = [carrier EXCEPT !.shared = shared]
          ELSE pc' = "done"
    BY <1>2 DEF CopyBaseline, Reject
  <2>2. QED BY <1>1, <2>1 DEF BaselineAccepted, Unshared
<1>3. CASE EngineRetains
  BY <1>1, <1>3 DEF EngineRetains, task, Unshared
<1>4. CASE Environment /\ ~EngineRetains
  BY <1>4 DEF Environment, OtherKill, CanonicalChanges, StructureChanges, EngineComposes,
              EngineIdles, Expire, task, Unshared
<1>5. CASE Task /\ ~CopyBaseline
  <2>1. pc' # "apply"
    BY <1>5 DEF Task, ScanAssignment, Prepare, Skip, CreateRenderSource, NoAllocation,
                RefuseConstructed, Construct, Disable, ApplyPreset, Reject, ValidateCarrier,
                CaptureRoots, VisitHeadPart, KeepStructure, CreateOutput, PublishRenderSource,
                RefusePublication, FindExisting, Kill, Adopt, StartComposite, RefuseSubmission,
                Activate, PollComposite, PollCompositeActivation
  <2>2. QED BY <2>1 DEF Unshared
<1>6. CASE UNCHANGED vars
  BY <1>6 DEF vars, source, Unshared
<1>7. QED BY <1>2, <1>3, <1>4, <1>5, <1>6 DEF Next

\* Every step reads the NPC or leaves it alone; the preset is written to a
\* carrier whose containers have been compared with it.
LEMMA OnlyRead ==
  ASSUME Unshared, [Next]_vars
  PROVE  UNCHANGED npc
<1>1. CASE ApplyPreset
  BY <1>1 DEF ApplyPreset, Unshared
<1>2. CASE Task /\ ~ApplyPreset
  BY <1>2 DEF Task, ScanAssignment, CreateRenderSource, CopyBaseline, ValidateCarrier, CaptureRoots,
              VisitHeadPart, KeepStructure, CreateOutput, PublishRenderSource, StartComposite,
              PollComposite, PollCompositeActivation
<1>3. CASE Environment
  BY <1>3 DEF Environment, OtherKill, EngineRetains, CanonicalChanges, StructureChanges,
              EngineComposes, EngineIdles, Expire
<1>4. CASE UNCHANGED vars
  BY <1>4 DEF vars
<1>5. QED BY <1>1, <1>2, <1>3, <1>4 DEF Next

\* No step of a preparation gives the canonical NPC another appearance, even
\* where the engine's copy shares containers with it (NPCSnapshot.cpp).
THEOREM CanonicalIsReadHolds == Spec => CanonicalIsRead
<1>1. Init => Unshared
  BY DEF Init, Unshared
<1>2. Unshared /\ [Next]_vars => [npc' = npc]_vars
  BY OnlyRead
<1>3. QED BY <1>1, <1>2, PhasesHold, UnsharedStep, PTL DEF Spec, CanonicalIsRead

-----------------------------------------------------------------------------
(* Carrier and composite are owned as OwnedObject says.                    *)

LEMMA AlarmStays ==
  ASSUME Phases, [Next]_vars
  PROVE  (killed => killed') /\ (exhausted => exhausted')
<1>1. killed \in BOOLEAN /\ exhausted \in BOOLEAN
  BY DEF Phases, Typed
<1>2. CASE ScanAssignment \/ CopyBaseline \/ ApplyPreset \/ ValidateCarrier \/ CaptureRoots \/ VisitHeadPart
  BY <1>1, <1>2 DEF ScanAssignment, CopyBaseline, ApplyPreset, ValidateCarrier, CaptureRoots,
              VisitHeadPart, Reject
<1>3. CASE CreateRenderSource
  BY <1>1, <1>3 DEF CreateRenderSource, NoAllocation, RefuseConstructed, Construct
<1>4. CASE KeepStructure \/ CreateOutput \/ PublishRenderSource
  BY <1>1, <1>4 DEF KeepStructure, CreateOutput, PublishRenderSource, RefusePublication, FindExisting,
              Adopt, Reject, Kill
<1>5. CASE StartComposite \/ PollComposite \/ PollCompositeActivation
  BY <1>1, <1>5 DEF StartComposite, RefuseSubmission, Activate, Kill, PollComposite,
              PollCompositeActivation
<1>6. CASE Environment
  BY <1>6, EnvironmentKeeps DEF task
<1>7. CASE UNCHANGED vars
  BY <1>7 DEF vars
<1>8. QED BY <1>2, <1>3, <1>4, <1>5, <1>6, <1>7 DEF Next, Task

CarrierMoves ==
  \/ carrier'.state = carrier.state
  \/ carrier.state = "none" /\ carrier'.state \in {"owned", "freed"}
  \/ carrier.state = "owned" /\ carrier'.state \in {"freed", "registered"}
  \/ carrier.state \in {"none", "owned"} /\ carrier'.state = "leaked" /\ (killed' \/ exhausted')

LEMMA CarrierStep ==
  ASSUME Phases, [Next]_vars
  PROVE  CarrierMoves
<1>1. /\ carrier \in [state : CarrierStates, formID : BOOLEAN, held : HeldCounts, shared : BOOLEAN]
      /\ pc \in Early => carrier.state = "none"
      /\ pc \in Building => carrier.state = "owned"
  BY DEF Phases, Typed, CarrierPhase
<1>2. ASSUME NEW c, NEW alarm, Reject(c, alarm), carrier.state = "owned",
             c \in [state : CarrierStates, formID : BOOLEAN, held : HeldCounts, shared : BOOLEAN]
      PROVE  CarrierMoves
  BY <1>2 DEF Reject, Destroyed, CarrierMoves
<1>3. CASE ScanAssignment \/ StartComposite \/ PollComposite \/ PollCompositeActivation
  BY <1>3 DEF ScanAssignment, StartComposite, PollComposite, PollCompositeActivation, source,
              CarrierMoves
<1>4. CASE CreateRenderSource
  <2>1. CASE RefuseConstructed
    <3>1. PICK formID, held \in BOOLEAN, left \in BOOLEAN :
            carrier' = [carrier EXCEPT !.state  = IF held THEN "leaked" ELSE "freed",
                                       !.formID = formID /\ (held \/ left),
                                       !.held   = IF held THEN 1 ELSE 0]
      BY <2>1 DEF RefuseConstructed
    <3>2. carrier'.state \in {"leaked", "freed"}
      BY <1>1, <3>1
    <3>3. QED BY <1>1, <1>4, <2>1, <3>2 DEF CreateRenderSource, RefuseConstructed, Early, CarrierMoves
  <2>2. CASE Construct
    BY <1>1, <1>4, <2>2 DEF CreateRenderSource, Construct, Early, CarrierMoves
  <2>3. QED BY <1>4, <2>1, <2>2 DEF CreateRenderSource, NoAllocation, CarrierMoves
<1>5. CASE CopyBaseline
  <2>1. PICK shared \in BOOLEAN :
          \/ carrier' = [carrier EXCEPT !.shared = shared]
          \/ Reject([carrier EXCEPT !.shared = shared], FALSE)
    BY <1>5 DEF CopyBaseline
  <2>2. [carrier EXCEPT !.shared = shared]
          \in [state : CarrierStates, formID : BOOLEAN, held : HeldCounts, shared : BOOLEAN]
    BY <1>1
  <2>3. carrier.state = "owned" /\ [carrier EXCEPT !.shared = shared].state = carrier.state
    BY <1>1, <1>5 DEF CopyBaseline, Building
  <2>4. QED BY <1>2, <2>1, <2>2, <2>3 DEF CarrierMoves
<1>6. CASE ApplyPreset \/ ValidateCarrier \/ CaptureRoots \/ VisitHeadPart \/ CreateOutput
  <2>1. carrier' = carrier \/ (\E alarm \in BOOLEAN : Reject(carrier, alarm))
    BY <1>6 DEF ApplyPreset, ValidateCarrier, CaptureRoots, VisitHeadPart, CreateOutput
  <2>2. carrier.state = "owned"
    BY <1>1, <1>6 DEF ApplyPreset, ValidateCarrier, CaptureRoots, VisitHeadPart, CreateOutput,
                      Building
  <2>3. QED BY <1>1, <1>2, <2>1, <2>2 DEF CarrierMoves
<1>7. CASE KeepStructure
  BY <1>1, <1>7 DEF KeepStructure, Building, CarrierMoves
<1>8. CASE PublishRenderSource
  <2>1. carrier.state = "owned"
    BY <1>1, <1>8 DEF PublishRenderSource, Building
  <2>2. CASE RefusePublication
    BY <1>1, <1>2, <2>1, <2>2 DEF RefusePublication
  <2>3. CASE FindExisting
    BY <1>1, <2>1, <2>3 DEF FindExisting, Kill, Destroyed, CarrierMoves
  <2>4. CASE Adopt
    BY <1>1, <2>1, <2>4 DEF Adopt, CarrierMoves
  <2>5. QED BY <1>8, <2>2, <2>3, <2>4 DEF PublishRenderSource
<1>9. CASE Environment
  BY <1>9, EnvironmentKeeps DEF CarrierMoves
<1>10. CASE UNCHANGED vars
  BY <1>10 DEF vars, source, CarrierMoves
<1>11. QED BY <1>3, <1>4, <1>5, <1>6, <1>7, <1>8, <1>9, <1>10 DEF Next, Task

OutputMoves ==
  \/ output'.state = output.state
  \/ output.state = "none" /\ output'.state \in {"owned", "freed"}
  \/ output.state = "owned" /\ output'.state \in {"freed", "submitted"}
  \/ output.state = "owned" /\ output'.state = "leaked" /\ killed'

LEMMA OutputStep ==
  ASSUME Phases, [Next]_vars
  PROVE  OutputMoves
<1>1. /\ output \in [state : OutputStates, ready : BOOLEAN]
      /\ pc = "output" => output.state = "none"
      /\ pc \in {"publish", "start"} =>
           output.state = IF NeedsFaceTextureComposite THEN "owned" ELSE "none"
  BY DEF Phases, Typed, OutputPhase, Early, Building
<1>2. ASSUME DestroyOutput PROVE OutputMoves
  BY <1>1, <1>2 DEF DestroyOutput, OutputMoves
<1>3. CASE CreateOutput
  BY <1>1, <1>3 DEF CreateOutput, OutputMoves
<1>4. CASE PublishRenderSource
  BY <1>1, <1>2, <1>4 DEF PublishRenderSource, RefusePublication, FindExisting, Kill, Adopt,
                          OutputMoves
<1>5. CASE StartComposite
  BY <1>1, <1>2, <1>5 DEF StartComposite, RefuseSubmission, OutputMoves
<1>6. CASE Task /\ ~CreateOutput /\ ~PublishRenderSource /\ ~StartComposite
  BY <1>6 DEF Task, ScanAssignment, CreateRenderSource, CopyBaseline, ApplyPreset, ValidateCarrier,
              CaptureRoots, VisitHeadPart, KeepStructure, PollComposite, PollCompositeActivation,
              OutputMoves
<1>7. CASE Environment
  BY <1>7, EnvironmentKeeps DEF OutputMoves
<1>8. CASE UNCHANGED vars
  BY <1>8 DEF vars, OutputMoves
<1>9. QED BY <1>3, <1>4, <1>5, <1>6, <1>7, <1>8 DEF Next

\* At its end the task owns nothing, so that the owner follows from the state.
OwnerInState(state) ==
  IF state = "none" THEN "nobody"
  ELSE IF state \in {"registered", "submitted"} THEN "engine"
  ELSE IF state = "freed" THEN "freed"
  ELSE IF state = "owned" THEN "task"
  ELSE "abandoned"

LEMMA OwnersFollow ==
  ASSUME Phases
  PROVE  /\ OwnerOf(carrier.state) = OwnerInState(carrier.state)
         /\ OwnerOf(output.state) = OwnerInState(output.state)
BY DEF Phases, CarrierPhase, OutputPhase, OwnerOf, OwnerInState

LEMMA CarrierImplements ==
  ASSUME Phases, Phases', [Next]_vars
  PROVE  [Carrier!Next]_(Carrier!vars)
<1>1. /\ OwnerOf(carrier.state) = OwnerInState(carrier.state)
      /\ OwnerOf(carrier.state)' = OwnerInState(carrier'.state)
  <2>1. OwnerOf(carrier.state) = OwnerInState(carrier.state)
    BY OwnersFollow
  <2>2. OwnerOf(carrier.state)' = OwnerInState(carrier'.state)
    BY DEF Phases, CarrierPhase, OwnerOf, OwnerInState
  <2>3. QED BY <2>1, <2>2
<1>2. /\ (killed \/ exhausted) \in BOOLEAN /\ (killed' \/ exhausted') \in BOOLEAN
      /\ killed \/ exhausted => killed' \/ exhausted'
  BY AlarmStays
<1>3. CarrierMoves
  BY CarrierStep
<1>4. QED
  BY <1>1, <1>2, <1>3
     DEF CarrierMoves, OwnerInState, Carrier!Next, Carrier!vars, Carrier!Create, Carrier!Refuse,
         Carrier!Free, Carrier!HandOver, Carrier!Abandon, Carrier!Notice, Carrier!Alarm

LEMMA OutputImplements ==
  ASSUME Phases, Phases', [Next]_vars
  PROVE  [Output!Next]_(Output!vars)
<1>1. /\ OwnerOf(output.state) = OwnerInState(output.state)
      /\ OwnerOf(output.state)' = OwnerInState(output'.state)
  <2>1. OwnerOf(output.state) = OwnerInState(output.state)
    BY OwnersFollow
  <2>2. OwnerOf(output.state)' = OwnerInState(output'.state)
    BY DEF Phases, OutputPhase, OwnerOf, OwnerInState
  <2>3. QED BY <2>1, <2>2
<1>2. /\ (killed \/ exhausted) \in BOOLEAN /\ (killed' \/ exhausted') \in BOOLEAN
      /\ killed \/ exhausted => killed' \/ exhausted'
  BY AlarmStays
<1>3. OutputMoves
  BY OutputStep
<1>4. QED
  BY <1>1, <1>2, <1>3
     DEF OutputMoves, OwnerInState, Output!Next, Output!vars, Output!Create, Output!Refuse,
         Output!Free, Output!HandOver, Output!Abandon, Output!Notice, Output!Alarm

\* Carrier and composite are each freed or handed to the engine once, or given
\* up with the runtime killed or out of memory, wherever the preparation fails
\* (PreparePendingBase, PollPendingComposite).
THEOREM ObjectsAreOwnedHolds == Spec => ObjectsAreOwned
<1>1. Init => Carrier!Init /\ Output!Init
  BY DEF Init, Carrier!Init, Output!Init, OwnerOf
<1>2. Phases /\ Phases' /\ [Next]_vars => [Carrier!Next]_(Carrier!vars)
  BY CarrierImplements
<1>3. Phases /\ Phases' /\ [Next]_vars => [Output!Next]_(Output!vars)
  BY OutputImplements
<1>4. QED BY <1>1, <1>2, <1>3, PhasesHold, PTL DEF Spec, ObjectsAreOwned, Carrier!Spec, Output!Spec

-----------------------------------------------------------------------------
(* What a published carrier looks like.                                    *)

\* Publication is the only step that makes a carrier a published one.
LEMMA OnlyAdopted ==
  ASSUME Phases, [Next]_vars
  PROVE  Published' => Published \/ pc = "publish"
<1>1. SUFFICES ASSUME Published', ~Published, pc # "publish" PROVE FALSE
  BY DEF Published
<1>2. /\ carrier \in [state : CarrierStates, formID : BOOLEAN, held : HeldCounts, shared : BOOLEAN]
      /\ carrier.state # "registered" /\ carrier'.state = "registered"
  BY <1>1 DEF Phases, Typed, Published
<1>3. ASSUME NEW c, NEW alarm, Reject(c, alarm),
             c \in [state : CarrierStates, formID : BOOLEAN, held : HeldCounts, shared : BOOLEAN]
      PROVE  FALSE
  BY <1>2, <1>3 DEF Reject, Destroyed
<1>4. ~(ScanAssignment \/ StartComposite \/ PollComposite \/ PollCompositeActivation)
  BY <1>2 DEF ScanAssignment, StartComposite, PollComposite, PollCompositeActivation, source
<1>5. ~CreateRenderSource
  BY <1>2 DEF CreateRenderSource, NoAllocation, RefuseConstructed, Construct
<1>6. ~CopyBaseline
  <2>1. ASSUME CopyBaseline PROVE FALSE
    <3>1. PICK shared \in BOOLEAN :
            \/ carrier' = [carrier EXCEPT !.shared = shared]
            \/ Reject([carrier EXCEPT !.shared = shared], FALSE)
      BY <2>1 DEF CopyBaseline
    <3>2. [carrier EXCEPT !.shared = shared]
            \in [state : CarrierStates, formID : BOOLEAN, held : HeldCounts, shared : BOOLEAN]
      BY <1>2
    <3>3. QED BY <1>2, <1>3, <3>1, <3>2
  <2>2. QED BY <2>1
<1>7. ~(ApplyPreset \/ ValidateCarrier \/ CaptureRoots \/ VisitHeadPart \/ CreateOutput)
  BY <1>2, <1>3 DEF ApplyPreset, ValidateCarrier, CaptureRoots, VisitHeadPart, CreateOutput
<1>8. ~KeepStructure
  BY <1>2 DEF KeepStructure
<1>9. ~Environment
  BY <1>2, EnvironmentKeeps
<1>10. vars' # vars
  BY <1>2 DEF vars, source
<1>11. ~PublishRenderSource
  BY <1>1 DEF PublishRenderSource
<1>12. QED BY <1>4, <1>5, <1>6, <1>7, <1>8, <1>9, <1>10, <1>11 DEF Next, Task

LEMMA PublishedPlace ==
  ASSUME Phases
  PROVE  Published => pc \in Staged \cup {"done"}
BY DEF Phases, Typed, CarrierPhase, Published, Places, Early, Building, Staged

Fresh == {"scan", "create", "copy", "apply", "validate", "roots"}
Capturing == {"visit", "output", "publish"}

\* Between visits, a part that the carrier shows, or that a captured part brings
\* with it, is captured or waits; once all are visited none waits.
Captured ==
  /\ pc \in Fresh => graph = {}
  /\ pc \in Capturing \/ Published =>
       /\ PartsOf(look.parts) \subseteq graph \cup pending
       /\ \A part \in graph :
            part \in Sound /\ PartType[part] <= MaxType /\ ExtrasOf(part) \subseteq graph \cup pending
  /\ pc \in {"output", "publish"} \/ Published => pending = {}

LEMMA VisitCaptures ==
  ASSUME Captured, VisitHeadPart, pc' = pc, ~Published'
  PROVE  Captured'
<1>1. pc = "visit" /\ pc' = "visit" /\ UNCHANGED look
  BY DEF VisitHeadPart
<1>2. PICK part \in pending :
        /\ PartAccepted(part)
        /\ graph' = graph \cup {part}
        /\ pending' = (pending \cup ExtrasOf(part)) \ (graph \cup {part})
  BY <1>1 DEF VisitHeadPart, Reject, Unvisited
<1>3. graph' \cup pending' = graph \cup pending \cup ExtrasOf(part)
  BY <1>2
<1>4. /\ PartsOf(look.parts) \subseteq graph \cup pending
      /\ \A n \in graph :
           n \in Sound /\ PartType[n] <= MaxType /\ ExtrasOf(n) \subseteq graph \cup pending
  BY <1>1 DEF Captured, Capturing
<1>5. \A n \in graph' :
        n \in Sound /\ PartType[n] <= MaxType /\ ExtrasOf(n) \subseteq graph' \cup pending'
  BY <1>2, <1>3, <1>4 DEF PartAccepted
<1>6. PartsOf(look.parts)' \subseteq graph' \cup pending'
  <2>1. PartsOf(look.parts)' = PartsOf(look.parts)
    BY <1>1 DEF PartsOf
  <2>2. QED BY <1>3, <1>4, <2>1
<1>7. QED BY <1>1, <1>5, <1>6 DEF Captured, Capturing, ExtrasOf, Fresh

\* Neither the parts nor what was captured of them changes after the capture.
LEMMA CapturedStep ==
  ASSUME Phases, Captured, [Next]_vars
  PROVE  Captured'
<1>1. Published' => Published \/ pc = "publish"
  BY OnlyAdopted
<1>2. Published => pc \in Staged \cup {"done"}
  BY PublishedPlace
<1>3. ASSUME pc' = "done", ~Published' PROVE Captured'
  BY <1>3 DEF Captured, Capturing, Fresh
<1>4. CASE ScanAssignment \/ CreateRenderSource \/ CopyBaseline \/ ApplyPreset \/ ValidateCarrier
  <2>1. graph' = graph /\ pc \in Fresh
    BY <1>4 DEF ScanAssignment, CreateRenderSource, CopyBaseline, ApplyPreset, ValidateCarrier,
                capture, Fresh
  <2>2. graph = {}
    BY <2>1 DEF Captured
  <2>3. ~Published'
    BY <1>1, <1>2, <2>1 DEF Fresh, Staged
  <2>4. pc' \in Fresh \cup {"done"}
    BY <1>4 DEF ScanAssignment, Prepare, Skip, CreateRenderSource, NoAllocation, RefuseConstructed,
                Construct, Disable, CopyBaseline, ApplyPreset, ValidateCarrier, Reject, Fresh
  <2>5. QED BY <2>1, <2>2, <2>3, <2>4 DEF Captured, Capturing, Fresh
<1>5. CASE CaptureRoots
  <2>1. ~Published'
    BY <1>1, <1>2, <1>5 DEF CaptureRoots, Staged
  <2>2. CASE pc' = "done"
    BY <1>3, <2>1, <2>2
  <2>3. CASE pc' # "done"
    <3>1. pc' = "visit" /\ graph' = {} /\ pending' = PartsOf(look.parts) /\ look' = look
      BY <1>5, <2>3 DEF CaptureRoots, Reject, Captured, Fresh
    <3>2. PartsOf(look.parts)' = pending'
      BY <3>1 DEF PartsOf
    <3>3. QED BY <2>1, <3>1, <3>2 DEF Captured, Capturing, Fresh
  <2>4. QED BY <2>2, <2>3
<1>6. CASE VisitHeadPart
  <2>1. ~Published'
    BY <1>1, <1>2, <1>6 DEF VisitHeadPart, Staged
  <2>2. CASE pc' = "done"
    BY <1>3, <2>1, <2>2
  <2>3. CASE pc' # "done"
    BY <1>6, <2>1, <2>3, VisitCaptures DEF VisitHeadPart, Reject
  <2>4. QED BY <2>2, <2>3
<1>7. CASE KeepStructure
  <2>1. ~Published'
    BY <1>1, <1>2, <1>7 DEF KeepStructure, Staged
  <2>2. CASE pc' = "done"
    BY <1>3, <2>1, <2>2
  <2>3. CASE pc' # "done"
    <3>1. pc = "visit" /\ pc' = "output" /\ pending = {} /\ UNCHANGED <<look, graph, pending>>
      BY <1>7, <2>3 DEF KeepStructure, Disable, capture
    <3>2. PartsOf(look.parts)' = PartsOf(look.parts)
      BY <3>1 DEF PartsOf
    <3>3. QED BY <2>1, <3>1, <3>2 DEF Captured, Capturing, Fresh, ExtrasOf
  <2>4. QED BY <2>2, <2>3
<1>8. ASSUME UNCHANGED <<look, graph, pending>>,
             pc' \in Fresh => pc \in Fresh,
             pc' \in Capturing => pc' = pc \/ pc \in {"output", "publish"},
             Published' => Published \/ pc = "publish"
      PROVE  Captured'
  <2>1. PartsOf(look.parts)' = PartsOf(look.parts)
    BY <1>8 DEF PartsOf
  <2>2. QED BY <1>8, <2>1 DEF Captured, Capturing, ExtrasOf
<1>9. CASE CreateOutput \/ PublishRenderSource
  <2>1. UNCHANGED <<look, graph, pending>> /\ pc \in {"output", "publish"}
        /\ pc' \in {"publish", "start", "done"}
    BY <1>9 DEF CreateOutput, PublishRenderSource, RefusePublication, FindExisting, Adopt, Reject,
                Kill, capture
  <2>2. Published' => Published \/ pc = "publish"
    BY <1>1
  <2>3. QED BY <1>8, <2>1, <2>2 DEF Fresh
<1>10. CASE StartComposite \/ PollComposite \/ PollCompositeActivation
  <2>1. UNCHANGED <<look, graph, pending, carrier>> /\ pc' \in Staged \cup {"done"}
    BY <1>10 DEF StartComposite, PollComposite, PollCompositeActivation, Activate, Kill,
                 RefuseSubmission, source, capture, Staged
  <2>2. QED BY <1>8, <2>1 DEF Published, Fresh, Capturing, Staged
<1>11. CASE Environment \/ UNCHANGED vars
  <2>1. UNCHANGED <<look, graph, pending, pc>> /\ carrier'.state = carrier.state
    BY <1>11, EnvironmentKeeps DEF task, capture, vars, source
  <2>2. QED BY <1>8, <2>1 DEF Published
<1>12. QED BY <1>4, <1>5, <1>6, <1>7, <1>9, <1>10, <1>11 DEF Next, Task

\* Every head part that a published carrier shows is captured with all that it
\* brings with it, through cycles and shared parts, and each captured part is
\* registered and of a known type (CaptureRenderSourceStructure).
THEOREM StructureIsClosedHolds == Spec => []StructureIsClosed
<1>1. Init => Captured
  BY DEF Init, Captured, Capturing, Published
<1>2. Captured => StructureIsClosed
  BY DEF Captured, StructureIsClosed
<1>3. QED BY <1>1, <1>2, PhasesHold, CapturedStep, PTL DEF Spec

-----------------------------------------------------------------------------
(* Failures are contained; what is published has been validated.           *)

Accepted == Capturing \cup {"roots"}

\* The carrier has the race it was validated with.
RaceValidated ==
  pc \in Accepted \/ Published => race = deps.race

LEMMA RaceValidatedStep ==
  ASSUME Phases, RaceValidated, [Next]_vars
  PROVE  RaceValidated'
<1>1. Published' => Published \/ pc = "publish"
  BY OnlyAdopted
<1>2. Published => pc \in Staged \cup {"done"}
  BY PublishedPlace
<1>3. CASE ScanAssignment \/ CreateRenderSource \/ CopyBaseline \/ ApplyPreset
  <2>1. pc \in {"scan", "create", "copy", "apply"} /\ pc' \in {"create", "copy", "apply", "validate", "done"}
    BY <1>3 DEF ScanAssignment, Prepare, Skip, CreateRenderSource, NoAllocation, RefuseConstructed,
                Construct, Disable, CopyBaseline, ApplyPreset, Reject
  <2>2. QED BY <1>1, <1>2, <2>1 DEF RaceValidated, Accepted, Capturing, Staged
<1>4. CASE ValidateCarrier
  <2>1. ~Published' /\ UNCHANGED <<race, deps>>
    BY <1>1, <1>2, <1>4 DEF ValidateCarrier, Staged, assigned
  <2>2. CASE pc' = "done"
    BY <2>1, <2>2 DEF RaceValidated, Accepted, Capturing
  <2>3. CASE pc' # "done"
    <3>1. race = deps.race
      BY <1>4, <2>3 DEF ValidateCarrier, Reject
    <3>2. QED BY <2>1, <3>1 DEF RaceValidated
  <2>4. QED BY <2>2, <2>3
<1>5. ASSUME UNCHANGED <<race, deps>>,
             pc' \in Accepted => pc \in Accepted,
             Published' => Published \/ pc = "publish"
      PROVE  RaceValidated'
  BY <1>5 DEF RaceValidated, Accepted, Capturing
<1>6. CASE \/ CaptureRoots \/ VisitHeadPart \/ KeepStructure \/ CreateOutput \/ PublishRenderSource
           \/ StartComposite \/ PollComposite \/ PollCompositeActivation
  <2>1. UNCHANGED <<race, deps>>
    BY <1>6 DEF CaptureRoots, VisitHeadPart, KeepStructure, CreateOutput, PublishRenderSource,
                StartComposite, PollComposite, PollCompositeActivation, source, assigned
  <2>2. CASE StartComposite \/ PollComposite \/ PollCompositeActivation
    <3>1. pc' \in Staged \cup {"done"}
      BY <2>2 DEF StartComposite, PollComposite, PollCompositeActivation, Activate, Kill,
                  RefuseSubmission, Staged
    <3>2. QED BY <1>1, <1>5, <2>1, <3>1 DEF Accepted, Capturing, Staged
  <2>3. CASE ~(StartComposite \/ PollComposite \/ PollCompositeActivation)
    <3>1. pc \in Accepted
      BY <1>6, <2>3 DEF CaptureRoots, VisitHeadPart, KeepStructure, CreateOutput,
                        PublishRenderSource, Accepted, Capturing
    <3>2. QED BY <1>1, <1>5, <2>1, <3>1
  <2>4. QED BY <2>2, <2>3
<1>7. CASE Environment \/ UNCHANGED vars
  <2>1. UNCHANGED <<race, deps, pc>>
    BY <1>7, EnvironmentKeeps DEF task, assigned, vars, source
  <2>2. QED BY <1>1, <1>5, <2>1
<1>8. QED BY <1>3, <1>4, <1>6, <1>7 DEF Next, Task

LEMMA RaceValidatedHolds == Spec => []RaceValidated
<1>1. Init => RaceValidated
  BY DEF Init, RaceValidated, Accepted, Capturing, Published
<1>2. QED BY <1>1, PhasesHold, RaceValidatedStep, PTL DEF Spec

\* A preparation that ends without a composite rendering has disabled its base,
\* or has killed the runtime.
Contained ==
  /\ pc = "scan" => preset = <<>>
  /\ disabled => pc = "done" /\ ~Published
  /\ active => pc = "done" /\ Published
  /\ pc = "done" /\ Published => active \/ killed
  /\ pc = "done" /\ preset # <<>> => active \/ disabled \/ killed

LEMMA ContainedStep ==
  ASSUME Phases, Contained, [Next]_vars
  PROVE  Contained'
<1>1. /\ Published' => Published \/ pc = "publish"
      /\ Published => pc \in Staged \cup {"done"}
      /\ pc \in Staged => Published
      /\ killed \in BOOLEAN /\ disabled \in BOOLEAN /\ active \in BOOLEAN
  BY OnlyAdopted, PublishedPlace DEF Phases, Typed, CarrierPhase, Published
<1>2. pc # "done" => ~disabled /\ ~active
  BY DEF Contained
<1>3. ASSUME pc \in Early \cup Building, pc # "publish", UNCHANGED active,
             \/ pc' # "done" /\ pc' # "scan" /\ UNCHANGED disabled
             \/ pc' = "done" /\ disabled' = TRUE
      PROVE  Contained'
  <2>1. ~Published' /\ ~active'
    BY <1>1, <1>2, <1>3 DEF Early, Building, Staged
  <2>2. QED BY <1>2, <1>3, <2>1 DEF Contained, Early, Building
<1>4. CASE ScanAssignment
  <2>1. pc = "scan" /\ preset = <<>> /\ UNCHANGED <<active, disabled, carrier>>
    BY <1>4 DEF ScanAssignment, source, Contained
  <2>2. pc' = "create" \/ (pc' = "done" /\ preset' = <<>>)
    BY <1>4, <2>1 DEF ScanAssignment, Prepare, Skip
  <2>3. ~Published' /\ ~active' /\ ~disabled'
    BY <1>1, <1>2, <2>1 DEF Published, Staged
  <2>4. QED BY <2>2, <2>3 DEF Contained
<1>5. CASE \/ CreateRenderSource \/ CopyBaseline \/ ApplyPreset \/ ValidateCarrier \/ CaptureRoots
           \/ VisitHeadPart \/ KeepStructure \/ CreateOutput
  <2>1. pc \in Early \cup Building /\ pc # "publish" /\ UNCHANGED active
    BY <1>5 DEF CreateRenderSource, CopyBaseline, ApplyPreset, ValidateCarrier, CaptureRoots,
                VisitHeadPart, KeepStructure, CreateOutput, Early, Building
  <2>2. \/ pc' # "done" /\ pc' # "scan" /\ UNCHANGED disabled
        \/ pc' = "done" /\ disabled' = TRUE
    BY <1>5 DEF CreateRenderSource, NoAllocation, RefuseConstructed, Construct, Disable,
                CopyBaseline, ApplyPreset, ValidateCarrier, CaptureRoots, VisitHeadPart,
                KeepStructure, CreateOutput, Reject
  <2>3. QED BY <1>3, <2>1, <2>2
<1>6. CASE PublishRenderSource
  <2>1. pc = "publish" /\ UNCHANGED <<active, preset>>
    BY <1>6 DEF PublishRenderSource, assigned
  <2>2. CASE RefusePublication
    <3>1. ~Published'
      BY <2>2 DEF RefusePublication, Reject, Destroyed, Published, Phases, Typed
    <3>2. QED BY <1>2, <2>1, <2>2, <3>1 DEF RefusePublication, Reject, Contained
  <2>3. CASE FindExisting
    <3>1. ~Published'
      BY <2>3 DEF FindExisting, Destroyed, Published, Phases, Typed
    <3>2. QED BY <1>2, <2>1, <2>3, <3>1 DEF FindExisting, Kill, Contained
  <2>4. CASE Adopt
    BY <1>2, <2>1, <2>4 DEF Adopt, Contained
  <2>5. QED BY <1>6, <2>2, <2>3, <2>4 DEF PublishRenderSource
<1>7. CASE StartComposite \/ PollComposite \/ PollCompositeActivation
  <2>1. pc \in Staged /\ Published /\ Published' /\ UNCHANGED <<disabled, preset>>
    BY <1>1, <1>7 DEF StartComposite, PollComposite, PollCompositeActivation, Staged, source,
                      assigned, Published
  <2>2. \/ pc' \in Staged /\ UNCHANGED active
        \/ pc' = "done" /\ active' = TRUE
        \/ pc' = "done" /\ killed' = TRUE /\ UNCHANGED active
    BY <1>7 DEF StartComposite, PollComposite, PollCompositeActivation, Activate, Kill,
                RefuseSubmission, Staged
  <2>3. QED BY <1>2, <2>1, <2>2 DEF Contained, Staged
<1>8. CASE Environment \/ UNCHANGED vars
  <2>1. UNCHANGED <<pc, preset, disabled, active>> /\ carrier'.state = carrier.state /\ (killed => killed')
    BY <1>8, EnvironmentKeeps DEF task, assigned, vars, source
  <2>2. QED BY <2>1 DEF Contained, Published
<1>9. QED BY <1>4, <1>5, <1>6, <1>7, <1>8 DEF Next, Task

\* Wherever a preparation fails, it leaves no half-published carrier: before
\* publication only its base is disabled, after it the runtime is killed
\* (PreparePendingBase, PollCompositeActivation).
THEOREM FailureIsContainedHolds == Spec => []FailureIsContained
<1>1. Init => Contained
  BY DEF Init, Contained, Published
<1>2. Contained /\ RaceValidated => FailureIsContained
  BY DEF Contained, RaceValidated, FailureIsContained, Prepared
<1>3. QED BY <1>1, <1>2, PhasesHold, ContainedStep, RaceValidatedHolds, PTL DEF Spec

-----------------------------------------------------------------------------
(* The stages of the base.                                                 *)

\* Where the task is, the carrier, the output and what became of the base tell
\* its stage.
LEMMA StageAt ==
  ASSUME Phases, Contained
  PROVE  /\ pc \in Early \cup Building => StageOf = "nothing" /\ ~Published
         /\ pc = "start" => StageOf = "staged"
         /\ pc = "poll" => StageOf = "composing"
         /\ pc \in {"finalized", "armed"} => StageOf = pc
         /\ pc \in Staged => Published /\ ~active /\ ~disabled
         /\ pc = "done" =>
              /\ active => StageOf = "served" /\ Published
              /\ disabled => StageOf = "vanilla" /\ ~Published
              /\ ~active /\ ~disabled /\ killed => StageOf = "abandoned"
              /\ ~active /\ ~disabled /\ ~killed => StageOf = "nothing" /\ ~Published
<1>1. /\ pc \in Early \cup Building => ~Published
      /\ pc \in Staged => Published
      /\ pc \notin {"done"} => ~active /\ ~disabled
      /\ active => Published
      /\ disabled => ~Published
      /\ pc = "done" /\ Published => active \/ killed
  BY DEF Phases, Contained, CarrierPhase, Published, Early, Building, Staged
<1>2. /\ pc = "start" => output.state # "submitted"
      /\ pc \in {"poll", "finalized", "armed"} => output.state = "submitted"
  BY DEF Phases, OutputPhase, Staged
<1>3. QED BY <1>1, <1>2 DEF StageOf, Early, Building, Staged

\* Only a carrier with layers is submitted.
LayersSubmitted == pc \in {"poll", "finalized", "armed"} => NeedsFaceTextureComposite

LEMMA LayersStep ==
  ASSUME Phases, LayersSubmitted, [Next]_vars
  PROVE  LayersSubmitted'
<1>1. CASE StartComposite \/ PollComposite \/ PollCompositeActivation
  <2>1. UNCHANGED look /\ pc \in Staged
    BY <1>1 DEF StartComposite, PollComposite, PollCompositeActivation, source, Staged
  <2>2. pc' = "poll" => NeedsFaceTextureComposite
    BY <1>1 DEF StartComposite, PollComposite, PollCompositeActivation, Activate, Kill,
                RefuseSubmission
  <2>3. pc' \in {"finalized", "armed"} => pc \in {"poll", "finalized"}
    BY <1>1 DEF StartComposite, PollComposite, PollCompositeActivation, Activate, Kill,
                RefuseSubmission
  <2>4. QED BY <2>1, <2>2, <2>3 DEF LayersSubmitted, NeedsFaceTextureComposite
<1>2. CASE \/ ScanAssignment \/ CreateRenderSource \/ CopyBaseline \/ ApplyPreset
           \/ ValidateCarrier \/ CaptureRoots \/ VisitHeadPart \/ KeepStructure \/ CreateOutput
           \/ PublishRenderSource
  <2>1. pc' \notin {"poll", "finalized", "armed"}
    BY <1>2 DEF ScanAssignment, Prepare, Skip, CreateRenderSource, NoAllocation, RefuseConstructed,
                Construct, Disable, CopyBaseline, ApplyPreset, ValidateCarrier, CaptureRoots,
                VisitHeadPart, KeepStructure, CreateOutput, Reject, PublishRenderSource,
                RefusePublication, FindExisting, Adopt, Kill
  <2>2. QED BY <2>1 DEF LayersSubmitted
<1>3. CASE Environment \/ UNCHANGED vars
  <2>1. UNCHANGED <<pc, look>>
    BY <1>3, EnvironmentKeeps DEF task, vars, source
  <2>2. QED BY <2>1 DEF LayersSubmitted, NeedsFaceTextureComposite
<1>4. QED BY <1>1, <1>2, <1>3 DEF Next, Task

\* Before publication the task goes on, or its base falls back to vanilla.
LEMMA ProgressBefore ==
  ASSUME Phases, Phases', Contained, Contained', pc \in Early \cup Building,
         killed => killed', ~active',
         \/ pc' \in Early \cup Building
         \/ pc' = "done" /\ ~Published'
  PROVE  [Progress!Next]_(Progress!vars)
<1>1. StageOf = "nothing" /\ ~Published
  BY StageAt
<1>2. killed \in BOOLEAN /\ killed' \in BOOLEAN /\ disabled' \in BOOLEAN
  BY DEF Phases, Typed
<1>3. ~Published' /\ StageOf' \in {"nothing", "vanilla", "abandoned"}
  BY DEF StageOf, Phases, Typed, CarrierPhase, Published, Early, Building
<1>4. StageOf' = "abandoned" => killed'
  BY <1>3 DEF StageOf
<1>5. QED BY <1>1, <1>2, <1>3, <1>4
          DEF Progress!Next, Progress!FallBack, Progress!Advance, Progress!MayStop, Progress!Abandon,
              Progress!Stop, Progress!vars

LEMMA ProgressPublish ==
  ASSUME Phases, Phases', Contained, Contained', PublishRenderSource
  PROVE  [Progress!Next]_(Progress!vars)
<1>1. /\ pc = "publish" /\ UNCHANGED <<active, look>>
      /\ carrier \in [state : CarrierStates, formID : BOOLEAN, held : HeldCounts, shared : BOOLEAN]
      /\ killed \in BOOLEAN
  BY DEF PublishRenderSource, Phases, Typed
<1>2. ~active /\ ~disabled
  BY <1>1 DEF Contained
<1>3. CASE RefusePublication
  <2>1. ~Published'
    BY <1>1, <1>3 DEF RefusePublication, Reject, Destroyed, Published
  <2>2. pc' = "done" /\ (killed => killed')
    BY <1>3 DEF RefusePublication, Reject
  <2>3. QED BY <1>1, <1>2, <2>1, <2>2, ProgressBefore DEF Building
<1>4. CASE FindExisting
  <2>1. ~Published'
    BY <1>1, <1>4 DEF FindExisting, Destroyed, Published
  <2>2. pc' = "done" /\ (killed => killed')
    BY <1>4 DEF FindExisting, Kill
  <2>3. QED BY <1>1, <1>2, <2>1, <2>2, ProgressBefore DEF Building
<1>5. CASE Adopt
  <2>1. pc' = "start" /\ killed' = killed
    BY <1>5 DEF Adopt
  <2>2. StageOf = "nothing" /\ StageOf' = "staged"
    <3>1. StageOf = "nothing"
      BY <1>1, StageAt DEF Building
    <3>2. QED BY <2>1, <3>1 DEF StageOf, Contained, Phases, CarrierPhase, OutputPhase, Published, Staged
  <2>3. (Published /\ NeedsFaceTextureComposite)' \in BOOLEAN
    BY DEF Published, NeedsFaceTextureComposite
  <2>4. QED BY <2>1, <2>2, <2>3 DEF Progress!Next, Progress!Publish
<1>6. QED BY <1>3, <1>4, <1>5 DEF PublishRenderSource

\* A step of a published base: what it composites stays the same.
LEMMA ProgressAfter ==
  ASSUME Phases, Phases', Contained, Contained', LayersSubmitted,
         StartComposite \/ PollComposite \/ PollCompositeActivation
  PROVE  [Progress!Next]_(Progress!vars)
<1>1. /\ pc \in Staged /\ Published /\ Published' /\ ~active /\ ~disabled /\ ~disabled'
      /\ UNCHANGED look
      /\ killed \in BOOLEAN /\ killed' \in BOOLEAN
  <2>1. pc \in Staged /\ UNCHANGED <<carrier, look, disabled>>
    BY DEF StartComposite, PollComposite, PollCompositeActivation, Staged, source
  <2>2. QED BY <2>1, StageAt DEF Published, Phases, Typed
<1>2. (Published /\ NeedsFaceTextureComposite)' = (Published /\ NeedsFaceTextureComposite)
  BY <1>1 DEF NeedsFaceTextureComposite
<1>3. ASSUME Kill, UNCHANGED active PROVE [Progress!Next]_(Progress!vars)
  <2>1. StageOf' = "abandoned" /\ killed' = TRUE
    BY <1>1, <1>3, StageAt DEF Kill, StageOf
  <2>2. StageOf \notin {"vanilla", "served", "withdrawn"}
    BY <1>1, StageAt DEF Staged
  <2>3. QED BY <1>2, <2>1, <2>2 DEF Progress!Next, Progress!Abandon
<1>4. CASE StartComposite
  <2>1. pc = "start" /\ StageOf = "staged"
    BY <1>4, StageAt DEF StartComposite
  <2>2. CASE RefuseSubmission /\ UNCHANGED active
    BY <1>3, <2>2 DEF RefuseSubmission
  <2>3. CASE NeedsFaceTextureComposite /\ ~killed /\ pc' = "poll" /\ UNCHANGED <<active, killed>>
    <3>1. StageOf' = "composing"
      BY <2>3 DEF StageOf, Contained, Phases, CarrierPhase, OutputPhase, Published, Staged
    <3>2. QED BY <1>1, <1>2, <2>1, <2>3, <3>1
              DEF Progress!Next, Progress!Submit, Progress!Advance
  <2>4. CASE ~NeedsFaceTextureComposite /\ Activate
    <3>1. CASE active' = TRUE /\ UNCHANGED killed
      <4>1. StageOf' = "served"
        BY <3>1 DEF StageOf
      <4>2. QED BY <1>1, <1>2, <2>1, <2>4, <3>1, <4>1
                DEF Progress!Next, Progress!Serve, Progress!Advance
    <3>2. QED BY <1>3, <2>4, <3>1 DEF Activate
  <2>5. QED BY <1>4, <2>2, <2>3, <2>4 DEF StartComposite
<1>5. CASE PollComposite
  <2>1. pc = "poll" /\ ~killed /\ UNCHANGED active /\ StageOf = "composing"
    BY <1>5, StageAt DEF PollComposite
  <2>2. CASE pc' = "finalized" /\ UNCHANGED killed
    <3>1. StageOf' = "finalized"
      BY <2>2 DEF StageOf, Contained, Phases, CarrierPhase, OutputPhase, Published, Staged
    <3>2. QED BY <1>2, <2>1, <2>2, <3>1 DEF Progress!Next, Progress!Finalize, Progress!Advance
  <2>3. QED BY <1>3, <1>5, <2>1, <2>2 DEF PollComposite
<1>6. CASE PollCompositeActivation
  <2>1. pc \in {"finalized", "armed"} /\ ~killed /\ StageOf = pc
    BY <1>6, StageAt DEF PollCompositeActivation
  <2>2. CASE pc = "finalized" /\ pc' = "armed" /\ UNCHANGED <<active, killed>>
    <3>1. StageOf' = "armed"
      BY <2>2 DEF StageOf, Contained, Phases, CarrierPhase, OutputPhase, Published, Staged
    <3>2. QED BY <1>1, <1>2, <2>1, <2>2, <3>1
              DEF Progress!Next, Progress!Arm, Progress!Advance, Progress!MayStop
  <2>3. CASE pc = "armed" /\ Activate
    <3>1. CASE active' = TRUE /\ UNCHANGED killed
      <4>1. StageOf' = "served"
        BY <3>1 DEF StageOf
      <4>2. NeedsFaceTextureComposite
        BY <2>3 DEF LayersSubmitted
      <4>3. QED BY <1>1, <1>2, <2>1, <2>3, <3>1, <4>1, <4>2
                DEF Progress!Next, Progress!Serve, Progress!Advance
    <3>2. QED BY <1>3, <2>3, <3>1 DEF Activate
  <2>4. QED BY <1>3, <1>6, <2>2, <2>3 DEF PollCompositeActivation
<1>7. QED BY <1>4, <1>5, <1>6

LEMMA ProgressAround ==
  ASSUME Phases, Phases', Contained, Contained', Environment \/ UNCHANGED vars
  PROVE  [Progress!Next]_(Progress!vars)
<1>1. /\ UNCHANGED <<pc, look, active, disabled>>
      /\ carrier'.state = carrier.state /\ output'.state = output.state
      /\ killed \in BOOLEAN /\ killed' \in BOOLEAN /\ (killed => killed')
  BY EnvironmentKeeps DEF task, vars, source, Phases, Typed
<1>2. (Published /\ NeedsFaceTextureComposite)' = (Published /\ NeedsFaceTextureComposite)
  BY <1>1 DEF Published, NeedsFaceTextureComposite
<1>3. StageOf' = StageOf \/ (StageOf' = "abandoned" /\ killed' /\ StageOf = "nothing")
  <2>1. CASE pc = "done"
    BY <1>1, <2>1, StageAt DEF StageOf, Published
  <2>2. CASE pc # "done"
    BY <1>1, <2>2 DEF StageOf, Published
  <2>3. QED BY <2>1, <2>2
<1>4. CASE StageOf' = StageOf
  BY <1>1, <1>2, <1>4 DEF Progress!Next, Progress!Stop, Progress!MayStop
<1>5. CASE StageOf' = "abandoned" /\ killed' /\ StageOf = "nothing"
  BY <1>1, <1>2, <1>5 DEF Progress!Next, Progress!Abandon
<1>6. QED BY <1>3, <1>4, <1>5

LEMMA ProgressStep ==
  ASSUME Phases, Phases', Contained, Contained', LayersSubmitted, [Next]_vars
  PROVE  [Progress!Next]_(Progress!vars)
<1>1. CASE ScanAssignment
  <2>1. pc = "scan" /\ pc' \in {"create", "done"} /\ UNCHANGED <<active, killed, carrier>>
    BY <1>1 DEF ScanAssignment, Prepare, Skip, source
  <2>2. ~active' /\ ~Published'
    BY <2>1, StageAt DEF Contained, Published, Early
  <2>3. QED BY <2>1, <2>2, ProgressBefore DEF Early
<1>2. CASE \/ CreateRenderSource \/ CopyBaseline \/ ApplyPreset \/ ValidateCarrier \/ CaptureRoots
           \/ VisitHeadPart \/ KeepStructure \/ CreateOutput
  <2>1. pc \in Early \cup Building /\ pc # "publish" /\ UNCHANGED active
    BY <1>2 DEF CreateRenderSource, CopyBaseline, ApplyPreset, ValidateCarrier, CaptureRoots,
                VisitHeadPart, KeepStructure, CreateOutput, Early, Building
  <2>2. pc' \in Early \cup Building \/ pc' = "done"
    BY <1>2 DEF CreateRenderSource, NoAllocation, RefuseConstructed, Construct, Disable,
                CopyBaseline, ApplyPreset, ValidateCarrier, CaptureRoots, VisitHeadPart,
                KeepStructure, CreateOutput, Reject, Early, Building
  <2>3. ~Published' /\ ~active'
    BY <2>1, OnlyAdopted, StageAt DEF Contained, Early, Building
  <2>4. killed => killed'
    BY <1>2 DEF CreateRenderSource, NoAllocation, RefuseConstructed, Construct, CopyBaseline,
                ApplyPreset, ValidateCarrier, CaptureRoots, VisitHeadPart, KeepStructure,
                CreateOutput, Reject
  <2>5. QED BY <2>1, <2>2, <2>3, <2>4, ProgressBefore
<1>3. QED BY <1>1, <1>2, ProgressPublish, ProgressAfter, ProgressAround DEF Next, Task

\* A task takes its base through the stages of RenderSourceStages, in their
\* order: what it publishes is composited and finalized before it is served,
\* a base falls back to vanilla only before publication, and a task that cannot
\* go on after it stops the runtime.
THEOREM ImplementsStagesHolds == Spec => ImplementsStages
<1>1. Init => Progress!Init /\ Contained /\ LayersSubmitted
  BY DEF Init, Progress!Init, StageOf, Published, Contained, LayersSubmitted
<1>2. QED BY <1>1, PhasesHold, ContainedStep, LayersStep, ProgressStep, PTL
          DEF Spec, ImplementsStages, Progress!Spec

-----------------------------------------------------------------------------
(* Types, and the limits of the traversal.                                 *)

Parts == HeadParts \cup {NoName}

\* What a preset resolves to are forms of the kinds asked for.
Resolved(d) == d.race \in Races /\ UniqueParts(d) \cup d.misc \subseteq Parts

LEMMA FormsFit ==
  ASSUME NEW table, NEW key, NEW kind
  PROVE  FormOf(table, key, kind) \in kind \cup {NoName}
BY DEF FormOf

LEMMA SlotsFit ==
  ASSUME NEW p, NEW type
  PROVE  SlotPart(p, type) \in Parts
<1>1. CASE p.format = "ck"
  BY <1>1, FormsFit DEF SlotPart, CkSlot, PartByEditorID, Parts
<1>2. CASE p.format # "ck"
  <2> DEFINE own == {i \in DOMAIN p.forms : PartType[JsonParts(p)[i]] = type}
  <2>1. CASE own = {}
    BY <1>2, <2>1 DEF SlotPart, JsonSlot, Parts
  <2>2. CASE own # {}
    <3>1. (CHOOSE i \in own : TRUE) \in DOMAIN p.forms
      BY <2>2
    <3>2. JsonParts(p)[CHOOSE i \in own : TRUE] \in Parts
      BY <3>1, FormsFit DEF JsonParts, PartByID, Parts
    <3>3. QED BY <1>2, <2>2, <3>2 DEF SlotPart, JsonSlot
  <2>3. QED BY <2>1, <2>2
<1>3. QED BY <1>1, <1>2

LEMMA MiscFit ==
  ASSUME NEW p
  PROVE  MiscParts(p) \subseteq Parts
<1>1. CASE p.format = "ck"
  BY <1>1, FormsFit DEF MiscParts, CkSlot, PartByEditorID, Parts
<1>2. CASE p.format # "ck"
  BY <1>2, FormsFit DEF MiscParts, JsonParts, PartByID, Parts
<1>3. QED BY <1>1, <1>2

LEMMA DependenciesFit ==
  ASSUME NEW p, NEW wanted, NEW sex, NEW d \in ResolveAppearanceDependencies(p, wanted, sex)
  PROVE  Resolved(d)
<1>1. Complete(p, wanted, sex) /\ d = Dependencies(p)
  BY DEF ResolveAppearanceDependencies
<1>2. RaceOf(p) \in Races
  BY <1>1, FormsFit DEF Complete, RaceOf
<1>3. d.race = RaceOf(p) /\ d.misc = MiscParts(p)
      /\ \A type \in UniqueSlots : d.unique[type] = SlotPart(p, type)
  BY <1>1 DEF Dependencies
<1>4. UniqueParts(d) \subseteq Parts
  BY <1>3, SlotsFit DEF UniqueParts
<1>5. QED BY <1>2, <1>3, <1>4, MiscFit DEF Resolved

LEMMA PartsFinite == IsFiniteSet(Parts) /\ Parts \cup {NoName} = Parts
BY GraphAssumption, FS_EmptySet, FS_AddElement DEF Parts

\* Whatever is lost, the parts after application are old ones or the preset's.
LEMMA PartsFit ==
  ASSUME NEW parts \in Seq(Parts), NEW d, NEW l, UniqueParts(d) \cup d.misc \subseteq Parts
  PROVE  ApplyHeadParts(parts, d, l) \in Seq(Parts)
<1> DEFINE left == IF "removePart" \in l THEN parts ELSE Without(parts, Replaced(parts, d))
           new  == (UniqueParts(d) \cup d.misc) \ PartsOf(left)
<1>1. left \in Seq(Parts)
  BY WithoutParts, PartsFinite
<1>2. new \in SUBSET Parts /\ IsFiniteSet(new)
  BY PartsFinite, FS_Subset
<1>3. ApplyHeadParts(parts, d, l) = IF "changePart" \in l THEN left ELSE ChangeHeadParts(left, new)
  BY DEF ApplyHeadParts
<1> HIDE DEF left, new
<1>4. ChangeHeadParts(left, new) \in Seq(Parts)
  BY <1>1, <1>2, ChangedParts, PartsFinite
<1>5. QED BY <1>1, <1>3, <1>4

LEMMA LookFits ==
  ASSUME NEW l, NEW p, NEW d, NEW s, l.parts \in Seq(Parts), UniqueParts(d) \cup d.misc \subseteq Parts,
         "parts" \in DOMAIN l
  PROVE  /\ ApplyVisuals(ApplyMorphs(l, p, s), p, d, s).parts = ApplyHeadParts(l.parts, d, s)
         /\ ApplyHeadParts(l.parts, d, s) \in Seq(Parts)
<1>1. ApplyMorphs(l, p, s).parts = l.parts /\ "parts" \in DOMAIN ApplyMorphs(l, p, s)
  BY DEF ApplyMorphs
<1>2. ApplyVisuals(ApplyMorphs(l, p, s), p, d, s).parts = ApplyHeadParts(l.parts, d, s)
  BY <1>1 DEF ApplyVisuals
<1>3. QED BY <1>2, PartsFit

\* What the task has read and resolved is of its kind, and what it copied with it.
Sane ==
  /\ npc \in Targets
  /\ pc \in Places \ {"scan", "done"} => Resolved(deps)
  /\ look.parts \in Seq(Parts) /\ DOMAIN look = DOMAIN NoLook
  /\ race \in Races \cup {NoName}
  /\ lost \in Losses \cup {{}}

LEMMA SaneStep ==
  ASSUME Phases, Unshared, Sane, [Next]_vars
  PROVE  Sane'
<1>1. npc' \in Targets
  BY OnlyRead DEF Sane
<1>2. pc \in Places /\ pc' \in Places
  BY PhasesStep DEF Phases, Typed
<1>3. ASSUME UNCHANGED <<deps, look, race, lost>>, pc # "scan", pc = "done" => pc' = "done" PROVE Sane'
  BY <1>1, <1>2, <1>3 DEF Sane
<1>4. CASE ScanAssignment
  <2>1. UNCHANGED <<look, race, lost>>
    BY <1>4 DEF ScanAssignment, source
  <2>2. pc' \in Places \ {"scan", "done"} => Resolved(deps')
    <3>1. CASE Skip
      BY <3>1 DEF Skip
    <3>2. CASE ~Skip
      <4>1. PICK p \in LoadPreset(document) :
              \E d \in ResolveAppearanceDependencies(p, npc.configured, npc.sex) : Prepare(p, d)
        BY <1>4, <3>2 DEF ScanAssignment
      <4>2. PICK d \in ResolveAppearanceDependencies(p, npc.configured, npc.sex) : Prepare(p, d)
        BY <4>1
      <4>3. Resolved(d)
        BY <4>2, DependenciesFit
      <4>4. deps' = d
        BY <4>2 DEF Prepare
      <4>5. QED BY <4>3, <4>4
    <3>3. QED BY <3>1, <3>2
  <2>3. Resolved(deps)' = Resolved(deps')
    BY DEF Resolved, UniqueParts
  <2>4. QED BY <1>1, <2>1, <2>2, <2>3 DEF Sane
<1>5. CASE CopyBaseline
  <2>1. look' = [npc.look EXCEPT !.inherits = FALSE] /\ UNCHANGED <<deps, lost>> /\ npc \in Targets
        /\ race' = (IF npc.race = NoName THEN deps.race ELSE npc.race)
        /\ Resolved(deps)
    BY <1>5 DEF CopyBaseline, Sane, Places, assigned
  <2>2. look'.parts = npc.look.parts /\ DOMAIN look' = DOMAIN NoLook
    BY <2>1, TargetAssumption DEF NoLook
  <2>3. look'.parts \in Seq(Parts)
    BY <2>1, <2>2, TargetAssumption DEF Parts
  <2>4. race' \in Races \cup {NoName}
    BY <2>1, TargetAssumption DEF Resolved
  <2>5. Resolved(deps)'
    BY <2>1 DEF Resolved, UniqueParts
  <2>6. QED BY <1>1, <2>1, <2>2, <2>3, <2>4, <2>5 DEF Sane
<1>6. CASE ApplyPreset
  <2>1. Resolved(deps) /\ UNCHANGED <<deps, race>> /\ pc # "scan" /\ pc # "done"
    BY <1>6 DEF ApplyPreset, Sane, Places, assigned
  <2>2. CASE UNCHANGED <<look, lost>>
    BY <1>3, <2>1, <2>2
  <2>3. CASE \E l \in Losses :
               lost' = l /\ look' = ApplyVisuals(ApplyMorphs(look, preset, l), preset, deps, l)
    <3>1. PICK l \in Losses :
            lost' = l /\ look' = ApplyVisuals(ApplyMorphs(look, preset, l), preset, deps, l)
      BY <2>3
    <3>2. look'.parts \in Seq(Parts)
      BY <2>1, <3>1, LookFits DEF Sane, NoLook, Resolved
    <3>3. DOMAIN look' = DOMAIN NoLook
      BY <3>1 DEF Sane, ApplyVisuals, ApplyMorphs
    <3>4. Resolved(deps)'
      BY <2>1 DEF Resolved, UniqueParts
    <3>5. QED BY <1>1, <2>1, <3>1, <3>2, <3>3, <3>4 DEF Sane
  <2>4. QED BY <1>6, <2>2, <2>3 DEF ApplyPreset
<1>7. CASE Task /\ ~ScanAssignment /\ ~CopyBaseline /\ ~ApplyPreset
  <2>1. UNCHANGED <<deps, look, race, lost>> /\ pc # "scan" /\ pc # "done"
    BY <1>7 DEF Task, CreateRenderSource, ValidateCarrier, CaptureRoots, VisitHeadPart,
                KeepStructure, CreateOutput, PublishRenderSource, StartComposite, PollComposite,
                PollCompositeActivation, source, assigned
  <2>2. QED BY <1>3, <2>1
<1>8. CASE Environment \/ UNCHANGED vars
  <2>1. UNCHANGED <<deps, look, race, lost, pc>>
    BY <1>8, EnvironmentKeeps DEF task, assigned, vars, source
  <2>2. QED BY <1>1, <2>1 DEF Sane, Resolved, UniqueParts
<1>9. QED BY <1>4, <1>5, <1>6, <1>7, <1>8 DEF Next

LEMMA SaneHolds == Spec => []Sane
<1>1. Init => Sane /\ Unshared
  BY DEF Init, Sane, NoLook, Unshared
<1>2. QED BY <1>1, PhasesHold, UnsharedStep, SaneStep, PTL DEF Spec

\* The traversal starts with no more parts than it may reach, and counts every
\* edge before it takes it.
Limited ==
  /\ graph \subseteq HeadParts /\ pending \subseteq Parts
  /\ edges \in 0 .. MaxReachable + MaxExtras
  /\ revision \in 0 .. MaxRevision /\ snapshot \in 0 .. revision
  /\ engine \in [expired : BOOLEAN, idle : BOOLEAN, intact : BOOLEAN]

LEMMA VisitLimited ==
  ASSUME Limited, VisitHeadPart
  PROVE  /\ graph' \subseteq HeadParts /\ pending' \subseteq Parts
         /\ edges' \in 0 .. MaxReachable + MaxExtras
<1>1. CASE UNCHANGED capture
  BY <1>1 DEF capture, Limited
<1>2. CASE ~UNCHANGED capture
  <2>1. PICK part \in pending :
          /\ PartAccepted(part)
          /\ graph' = graph \cup {part} /\ pending' = Unvisited(part)
          /\ edges' = edges + Len(Extras[part])
    BY <1>2 DEF VisitHeadPart
  <2>2. part \in HeadParts
    BY <2>1 DEF Limited, Parts, PartAccepted
  <2>3. Extras[part] \in Seq(Parts)
    BY <2>2, GraphAssumption DEF Parts
  <2>4. ExtrasOf(part) \subseteq Parts
    BY <2>3 DEF ExtrasOf
  <2>5. Len(Extras[part]) \in Nat
    BY <2>3
  <2>6. edges' \in 0 .. MaxReachable + MaxExtras
    BY <2>1, <2>5, BoundAssumption DEF Limited, PartAccepted
  <2>7. QED BY <2>1, <2>2, <2>4, <2>6 DEF Limited, Unvisited
<1>3. QED BY <1>1, <1>2

LEMMA LimitedStep ==
  ASSUME Sane, Limited, [Next]_vars
  PROVE  Limited'
<1>1. CASE VisitHeadPart
  BY <1>1, VisitLimited DEF VisitHeadPart, Limited
<1>2. CASE CaptureRoots
  <2>1. UNCHANGED <<graph, revision, snapshot, engine>>
    BY <1>2 DEF CaptureRoots
  <2>2. CASE UNCHANGED <<pending, edges>>
    BY <2>1, <2>2 DEF Limited
  <2>3. CASE /\ pending' = PartsOf(look.parts) /\ edges' = RootCount(look.parts)
             /\ ~(RootCount(look.parts) > MaxRoots)
    <3>1. /\ Len(look.parts) \in Nat /\ DOMAIN look.parts = 1 .. Len(look.parts)
          /\ \A i \in DOMAIN look.parts : look.parts[i] \in Parts
      BY DEF Sane
    <3>2. RootCount(look.parts) \in Nat
      <4> DEFINE own == {i \in DOMAIN look.parts : look.parts[i] # NoName}
      <4>1. own \in SUBSET (1 .. Len(look.parts)) /\ IsFiniteSet(1 .. Len(look.parts))
        BY <3>1, FS_Interval
      <4>2. IsFiniteSet(own)
        BY <4>1, FS_Subset
      <4>3. Cardinality(own) \in Nat
        BY <4>2, FS_CardinalityType
      <4>4. QED BY <4>3 DEF RootCount
    <3>3. edges' \in 0 .. MaxReachable + MaxExtras
      BY <2>3, <3>2, BoundAssumption
    <3>4. PartsOf(look.parts) \subseteq Parts
      BY <3>1 DEF PartsOf
    <3>5. QED BY <2>1, <2>3, <3>3, <3>4 DEF Limited
  <2>4. QED BY <1>2, <2>2, <2>3 DEF CaptureRoots
<1>3. CASE CreateRenderSource
  <2>1. UNCHANGED <<graph, pending, edges, revision, engine>> /\ snapshot' = revision
    BY <1>3 DEF CreateRenderSource, capture
  <2>2. QED BY <2>1 DEF Limited
<1>4. CASE CanonicalChanges
  <2>1. UNCHANGED <<graph, pending, edges, snapshot, engine>> /\ revision' = revision + 1 /\ revision < MaxRevision
    BY <1>4 DEF CanonicalChanges, task, capture
  <2>2. QED BY <2>1, BoundAssumption DEF Limited
<1>5. CASE StructureChanges \/ EngineIdles \/ Expire
  <2>1. UNCHANGED <<graph, pending, edges, snapshot, revision>>
    BY <1>5 DEF StructureChanges, EngineIdles, Expire, task, capture
  <2>2. engine' \in [expired : BOOLEAN, idle : BOOLEAN, intact : BOOLEAN]
    BY <1>5 DEF StructureChanges, EngineIdles, Expire, Limited
  <2>3. QED BY <2>1, <2>2 DEF Limited
<1>6. ASSUME UNCHANGED <<graph, pending, edges, snapshot, revision, engine>> PROVE Limited'
  BY <1>6 DEF Limited
<1>7. CASE OtherKill \/ EngineRetains \/ EngineComposes
  BY <1>6, <1>7 DEF OtherKill, EngineRetains, EngineComposes, task, capture
<1>8. CASE Task /\ ~VisitHeadPart /\ ~CaptureRoots /\ ~CreateRenderSource
  BY <1>6, <1>8 DEF Task, ScanAssignment, CopyBaseline, ApplyPreset, ValidateCarrier, KeepStructure,
                    CreateOutput, PublishRenderSource, StartComposite, PollComposite,
                    PollCompositeActivation, source, capture
<1>9. CASE UNCHANGED vars
  BY <1>6, <1>9 DEF vars, source, capture
<1>10. QED BY <1>1, <1>2, <1>3, <1>4, <1>5, <1>7, <1>8, <1>9 DEF Next, Environment

\* Every state is of its type: the traversal of any graph of head parts, cyclic
\* or not, stays within its limits (CaptureRenderSourceStructure).
THEOREM TypeOKHolds == Spec => []TypeOK
<1>1. Init => Limited
  BY BoundAssumption DEF Init, Limited
<1>2. Phases /\ Sane /\ Limited => TypeOK
  BY DEF Phases, Typed, Sane, Limited, TypeOK, Parts
<1>3. QED BY <1>1, <1>2, PhasesHold, SaneHolds, LimitedStep, PTL DEF Spec

-----------------------------------------------------------------------------
(* What is published shows the preset.                                     *)

LEMMA LayersFit ==
  ASSUME NEW d \in Documents, NEW p \in LoadPreset(d)
  PROVE  Len(d.layers) \in Nat /\ DOMAIN p.layers = 1 .. Len(d.layers)
<1>1. Len(d.layers) \in Nat /\ DOMAIN d.layers = 1 .. Len(d.layers)
  BY DocumentAssumption DEF IsSequence
<1>2. DOMAIN p.layers = DOMAIN d.layers
  BY DEF LoadPreset, ParseCkPreset, ParseCharGenJsonPreset, ReadTintLayers
<1>3. QED BY <1>1, <1>2

LEMMA AvmFits ==
  ASSUME NEW d \in Documents, NEW p \in LoadPreset(d), NEW wanted, NEW sex,
         NEW r \in ResolveAppearanceDependencies(p, wanted, sex)
  PROVE  IsSequence(r.avm)
<1> DEFINE n == Len(d.layers)
           entry == [i \in 1 .. n |-> AvmEntry(p.layers[i])]
<1>1. r = Dependencies(p)
  BY DEF ResolveAppearanceDependencies
<1>2. n \in Nat /\ DOMAIN p.layers = 1 .. n
  BY LayersFit
<1>3. r.avm = entry
  BY <1>1, <1>2 DEF Dependencies
<1>4. entry \in Seq({entry[i] : i \in DOMAIN entry})
  <2>1. entry \in [1 .. n -> {entry[i] : i \in DOMAIN entry}]
    OBVIOUS
  <2>2. QED BY <1>2, <2>1
<1>5. QED BY <1>3, <1>4 DEF IsSequence

LEMMA CategoriesFinite ==
  ASSUME NEW d, IsSequence(d.avm)
  PROVE  IsFiniteSet(Categories(d))
<1> DEFINE n == Len(d.avm)
           category == [i \in 1 .. n |-> d.avm[i].category]
<1>1. n \in Nat /\ DOMAIN d.avm = 1 .. n
  BY DEF IsSequence
<1>2. category \in Surjection(1 .. n, Categories(d))
  <2>1. category \in [1 .. n -> Categories(d)]
    BY <1>1 DEF Categories
  <2>2. \A c \in Categories(d) : \E i \in 1 .. n : category[i] = c
    BY <1>1 DEF Categories
  <2>3. QED BY <2>1, <2>2 DEF Surjection
<1>3. IsFiniteSet(1 .. n)
  BY <1>1, FS_Interval
<1>4. QED BY <1>2, <1>3, FS_Surjection

\* Where tints can be removed and set, those of the preset remain; in any case
\* there are finitely many.
LEMMA TintsApplied ==
  ASSUME NEW tints, NEW d, NEW l, IsFiniteSet(DOMAIN tints), IsSequence(d.avm)
  PROVE  /\ IsFiniteSet(DOMAIN ApplyTints(tints, d, l))
         /\ l = {} => DOMAIN ApplyTints(tints, d, l) = Categories(d)
<1> DEFINE wanted == TintOf(d)
           left   == IF "removeTint" \in l THEN tints
                     ELSE [c \in DOMAIN tints \cap DOMAIN wanted |-> tints[c]]
           set    == Unless("setTint", l, wanted)
<1>1. DOMAIN wanted = Categories(d)
  BY DEF TintOf, Categories
<1>2. DOMAIN ApplyTints(tints, d, l) = DOMAIN left \cup DOMAIN set
  BY DEF ApplyTints, Override
<1>3. DOMAIN left \subseteq DOMAIN tints
  OBVIOUS
<1>4. DOMAIN set \subseteq Categories(d)
  BY <1>1 DEF Unless, Empty
<1>5. IsFiniteSet(DOMAIN left) /\ IsFiniteSet(DOMAIN set)
  BY <1>3, <1>4, CategoriesFinite, FS_Subset
<1>6. IsFiniteSet(DOMAIN left \cup DOMAIN set)
  BY <1>5, FS_Union
<1>7. l = {} => DOMAIN left \cup DOMAIN set = Categories(d)
  BY <1>1 DEF Unless
<1>8. QED BY <1>2, <1>6, <1>7

\* What the count of tints in the validation rests on.
Counted ==
  /\ document \in Documents
  /\ pc \in {"create", "copy", "apply", "validate"} => IsSequence(deps.avm)
  /\ IsFiniteSet(DOMAIN look.tints)
  /\ pc = "validate" /\ lost = {} => DOMAIN look.tints = Categories(deps)

LEMMA CountedStep ==
  ASSUME Phases, Unshared, Sane, Counted, [Next]_vars
  PROVE  Counted'
<1>1. document' = document
  BY DEF Next, Task, Environment, ScanAssignment, CreateRenderSource, CopyBaseline, ApplyPreset,
         ValidateCarrier, CaptureRoots, VisitHeadPart, KeepStructure, CreateOutput,
         PublishRenderSource, StartComposite, PollComposite, PollCompositeActivation, OtherKill,
         EngineRetains, CanonicalChanges, StructureChanges, EngineComposes, EngineIdles, Expire,
         task, assigned, vars
<1>2. CASE ScanAssignment
  <2>1. pc' # "validate" /\ UNCHANGED look
    BY <1>2 DEF ScanAssignment, Prepare, Skip, source
  <2>3. pc' # "done" => IsSequence(deps'.avm)
    <3>1. CASE Skip
      BY <3>1 DEF Skip
    <3>2. CASE ~Skip
      <4>1. PICK p \in LoadPreset(document) :
              \E d \in ResolveAppearanceDependencies(p, npc.configured, npc.sex) : Prepare(p, d)
        BY <1>2, <3>2 DEF ScanAssignment
      <4>2. PICK d \in ResolveAppearanceDependencies(p, npc.configured, npc.sex) : Prepare(p, d)
        BY <4>1
      <4>3. IsSequence(d.avm)
        BY <4>1, <4>2, AvmFits DEF Counted
      <4>4. QED BY <4>2, <4>3 DEF Prepare
    <3>3. QED BY <3>1, <3>2
  <2>4. QED BY <1>1, <2>1, <2>3 DEF Counted, IsSequence
<1>3. ASSUME UNCHANGED deps, pc' \in {"create", "copy", "apply", "validate"} => pc \in {"create", "copy", "apply", "validate"}
      PROVE  pc' \in {"create", "copy", "apply", "validate"} => IsSequence(deps.avm)'
  BY <1>3 DEF Counted, IsSequence
<1>4. CASE CopyBaseline
  <2>1. UNCHANGED deps /\ pc = "copy" /\ pc' # "validate"
        /\ look' = [npc.look EXCEPT !.inherits = FALSE] /\ npc \in Targets
    BY <1>4 DEF CopyBaseline, assigned, Reject, Sane
  <2>2. IsFiniteSet(DOMAIN look'.tints)
    BY <2>1, TargetAssumption DEF NoLook
  <2>3. QED BY <1>1, <1>3, <2>1, <2>2 DEF Counted
<1>5. CASE ApplyPreset
  <2>1. UNCHANGED deps /\ pc = "apply" /\ IsSequence(deps.avm) /\ IsFiniteSet(DOMAIN look.tints)
    BY <1>5 DEF ApplyPreset, assigned, Counted
  <2>2. CASE pc' = "done" /\ UNCHANGED look
    BY <1>1, <2>1, <2>2 DEF Counted
  <2>3. CASE \E l \in Losses :
               lost' = l /\ look' = ApplyVisuals(ApplyMorphs(look, preset, l), preset, deps, l)
    <3>1. PICK l \in Losses :
            lost' = l /\ look' = ApplyVisuals(ApplyMorphs(look, preset, l), preset, deps, l)
      BY <2>3
    <3>2. look'.tints = ApplyTints(look.tints, deps, l)
      <4>1. ApplyMorphs(look, preset, l).tints = look.tints
            /\ DOMAIN ApplyMorphs(look, preset, l) = DOMAIN NoLook
        BY DEF ApplyMorphs, Sane, NoLook
      <4>2. QED BY <3>1, <4>1 DEF ApplyVisuals, NoLook
    <3>3. /\ IsFiniteSet(DOMAIN look'.tints)
          /\ lost' = {} => DOMAIN look'.tints = Categories(deps)
      BY <2>1, <3>1, <3>2, TintsApplied
    <3>4. Categories(deps)' = Categories(deps)
      BY <2>1 DEF Categories
    <3>5. QED BY <1>1, <1>3, <2>1, <3>3, <3>4 DEF Counted
  <2>4. QED BY <1>5, <2>2, <2>3 DEF ApplyPreset, Reject
<1>6. CASE Task /\ ~ScanAssignment /\ ~CopyBaseline /\ ~ApplyPreset
  <2>1. UNCHANGED <<deps, look>> /\ pc' # "validate"
    BY <1>6 DEF Task, CreateRenderSource, NoAllocation, RefuseConstructed, Construct, Disable,
                ValidateCarrier, CaptureRoots, VisitHeadPart, KeepStructure, CreateOutput,
                PublishRenderSource, RefusePublication, FindExisting, Adopt, StartComposite,
                RefuseSubmission, Activate, PollComposite, PollCompositeActivation, Kill, Reject,
                source, assigned
  <2>2. pc' \in {"create", "copy", "apply", "validate"} => pc \in {"create", "copy", "apply", "validate"}
    BY <1>6 DEF Task, CreateRenderSource, NoAllocation, RefuseConstructed, Construct, Disable,
                ValidateCarrier, CaptureRoots, VisitHeadPart, KeepStructure, CreateOutput,
                PublishRenderSource, RefusePublication, FindExisting, Adopt, StartComposite,
                RefuseSubmission, Activate, PollComposite, PollCompositeActivation, Kill, Reject
  <2>3. QED BY <1>1, <1>3, <2>1, <2>2 DEF Counted
<1>7. CASE Environment \/ UNCHANGED vars
  <2>1. UNCHANGED <<deps, look, lost, pc>>
    BY <1>7, EnvironmentKeeps DEF task, assigned, vars, source
  <2>2. QED BY <1>1, <1>3, <2>1 DEF Counted, Categories
<1>8. QED BY <1>2, <1>4, <1>5, <1>6, <1>7 DEF Next

\* What the validation does not look for, the application has removed: where parts
\* can be removed, none remains behind the preset's.
Swept ==
  pc = "validate" /\ "removePart" \notin lost /\ HeadPartsMatch(look.parts, deps) =>
    NoneBehind(look.parts, deps)

LEMMA SweptStep ==
  ASSUME Phases, Unshared, Sane, Swept, [Next]_vars
  PROVE  Swept'
<1>1. CASE ApplyPreset
  <2>1. pc = "apply" /\ UNCHANGED deps /\ Resolved(deps)
    BY <1>1 DEF ApplyPreset, assigned, Sane, Places
  <2>2. CASE pc' = "done"
    BY <2>2 DEF Swept
  <2>3. CASE \E l \in Losses :
               lost' = l /\ look' = ApplyVisuals(ApplyMorphs(look, preset, l), preset, deps, l)
    <3> SUFFICES ASSUME "removePart" \notin lost', HeadPartsMatch(look'.parts, deps)
        PROVE  NoneBehind(look'.parts, deps)
      BY <2>1 DEF Swept, HeadPartsMatch, NoneBehind, UniqueParts
    <3>1. look'.parts = ApplyHeadParts(look.parts, deps, lost')
      BY <2>1, <2>3, LookFits DEF Sane, NoLook, Resolved
    <3>2. IsFiniteSet(UniqueParts(deps) \cup deps.misc)
      BY <2>1, PartsFinite, FS_Subset DEF Resolved
    <3>3. look.parts \in Seq(Parts)
      BY DEF Sane
    <3>4. QED BY <2>1, <3>1, <3>2, <3>3, SweptClean DEF Resolved
  <2>4. QED BY <1>1, <2>2, <2>3 DEF ApplyPreset, Reject
<1>2. CASE Task /\ ~ApplyPreset
  <2>1. pc' # "validate"
    BY <1>2 DEF Task, ScanAssignment, Prepare, Skip, CreateRenderSource, NoAllocation,
                RefuseConstructed, Construct, Disable, CopyBaseline, ValidateCarrier, CaptureRoots,
                VisitHeadPart, KeepStructure, CreateOutput, PublishRenderSource, RefusePublication,
                FindExisting, Adopt, StartComposite, RefuseSubmission, Activate, PollComposite,
                PollCompositeActivation, Kill, Reject
  <2>2. QED BY <2>1 DEF Swept
<1>3. CASE Environment \/ UNCHANGED vars
  <2>1. UNCHANGED <<deps, look, lost, pc>>
    BY <1>3, EnvironmentKeeps DEF task, assigned, vars, source
  <2>2. QED BY <2>1 DEF Swept
<1>4. QED BY <1>1, <1>2, <1>3 DEF Next

\* The application and its validation are what makes the carrier show the preset;
\* nothing changes either of them afterwards.
Shown ==
  pc \in Accepted \/ Published =>
    /\ lost = {} \/ OneLayerEach(deps) => ShowsPreset(look, preset, deps)
    /\ "removePart" \notin lost => NoneBehind(look.parts, deps)

LEMMA ShownStep ==
  ASSUME Phases, Sane, Counted, Swept, Shown, [Next]_vars
  PROVE  Shown'
<1>1. Published' => Published \/ pc = "publish"
  BY OnlyAdopted
<1>2. Published => pc \in Staged \cup {"done"}
  BY PublishedPlace
<1>3. CASE ScanAssignment \/ CreateRenderSource \/ CopyBaseline \/ ApplyPreset
  <2>1. pc \in {"scan", "create", "copy", "apply"} /\ pc' \in {"create", "copy", "apply", "validate", "done"}
    BY <1>3 DEF ScanAssignment, Prepare, Skip, CreateRenderSource, NoAllocation, RefuseConstructed,
                Construct, Disable, CopyBaseline, ApplyPreset, Reject
  <2>2. QED BY <1>1, <1>2, <2>1 DEF Shown, Accepted, Capturing, Staged
<1>4. CASE ValidateCarrier
  <2>1. ~Published' /\ UNCHANGED <<look, preset, deps, lost>> /\ pc = "validate"
    BY <1>1, <1>2, <1>4 DEF ValidateCarrier, Staged, assigned
  <2>2. CASE pc' = "done"
    BY <2>1, <2>2 DEF Shown, Accepted, Capturing
  <2>3. CASE pc' # "done"
    <3>1. ValidateMorphs(look, preset) /\ ValidateVisuals(look, preset, deps)
      BY <1>4, <2>3 DEF ValidateCarrier, Reject
    <3>2. /\ deps.avm \in Seq({deps.avm[i] : i \in DOMAIN deps.avm})
          /\ IsFiniteSet(DOMAIN look.tints)
          /\ lost = {} => DOMAIN look.tints = Categories(deps)
          /\ look.parts \in Seq(Parts)
      BY <2>1 DEF Counted, IsSequence, Sane
    <3>3. lost = {} \/ OneLayerEach(deps) => ShowsPreset(look, preset, deps)
      BY <3>1, <3>2, ValidationIsSound
    <3>4. "removePart" \notin lost => NoneBehind(look.parts, deps)
      BY <2>1, <3>1 DEF Swept, ValidateVisuals
    <3>5. QED BY <2>1, <3>3, <3>4 DEF Shown
  <2>4. QED BY <2>2, <2>3
<1>5. ASSUME UNCHANGED <<look, lost, preset, deps>>,
             pc' \in Accepted => pc \in Accepted,
             Published' => Published \/ pc = "publish"
      PROVE  Shown'
  BY <1>5 DEF Shown, Accepted, Capturing
<1>6. CASE \/ CaptureRoots \/ VisitHeadPart \/ KeepStructure \/ CreateOutput \/ PublishRenderSource
           \/ StartComposite \/ PollComposite \/ PollCompositeActivation
  <2>1. UNCHANGED <<look, lost, preset, deps>>
    BY <1>6 DEF CaptureRoots, VisitHeadPart, KeepStructure, CreateOutput, PublishRenderSource,
                StartComposite, PollComposite, PollCompositeActivation, source, assigned
  <2>2. CASE StartComposite \/ PollComposite \/ PollCompositeActivation
    <3>1. pc' \in Staged \cup {"done"}
      BY <2>2 DEF StartComposite, PollComposite, PollCompositeActivation, Activate, Kill,
                  RefuseSubmission, Staged
    <3>2. QED BY <1>1, <1>5, <2>1, <3>1 DEF Accepted, Capturing, Staged
  <2>3. CASE ~(StartComposite \/ PollComposite \/ PollCompositeActivation)
    <3>1. pc \in Accepted
      BY <1>6, <2>3 DEF CaptureRoots, VisitHeadPart, KeepStructure, CreateOutput,
                        PublishRenderSource, Accepted, Capturing
    <3>2. QED BY <1>1, <1>5, <2>1, <3>1
  <2>4. QED BY <2>2, <2>3
<1>7. CASE Environment \/ UNCHANGED vars
  <2>1. UNCHANGED <<look, lost, preset, deps, pc>>
    BY <1>7, EnvironmentKeeps DEF task, assigned, vars, source
  <2>2. QED BY <1>1, <1>5, <2>1
<1>8. QED BY <1>3, <1>4, <1>6, <1>7 DEF Next, Task

\* A published carrier shows its preset and has its race, whichever of the
\* engine's setters had no effect and whatever the NPC looked like, except for
\* what the validation does not look for: other parts behind the first of their
\* type, which remain only where RemoveHeadPart had no effect, and tint entries
\* beside two layers of one category (PrepareRenderSource).
THEOREM PublishedShowsPresetHolds == Spec => []PublishedShowsPreset
<1>1. Init => Unshared /\ Sane /\ Counted /\ Swept /\ Shown
  <2>1. ASSUME Init PROVE IsFiniteSet(DOMAIN look.tints)
    BY <2>1, FS_EmptySet DEF Init, NoLook, Empty
  <2>2. Init => Counted
    BY <2>1 DEF Init, Counted
  <2>3. Init => Unshared /\ Sane
    BY DEF Init, Unshared, Sane, NoLook
  <2>4. Init => Swept /\ Shown
    BY DEF Init, Swept, Shown, Accepted, Capturing, Published
  <2>5. QED BY <2>2, <2>3, <2>4
<1>2. RaceValidated /\ Shown => PublishedShowsPreset
  BY DEF RaceValidated, Shown, PublishedShowsPreset
<1>3. QED BY <1>1, <1>2, PhasesHold, UnsharedStep, SaneHolds, RaceValidatedHolds, CountedStep,
             SweptStep, ShownStep, PTL DEF Spec

-----------------------------------------------------------------------------
(* What is prepared was loaded and resolved.                               *)

\* Neither the document nor the NPC changes, so that the preset remains the one
\* the document holds and its dependencies those of this NPC's race and sex.
Derived ==
  /\ document \in Documents
  /\ Prepared \/ pc \notin {"scan", "done"} =>
       /\ preset \in LoadPreset(document)
       /\ deps \in ResolveAppearanceDependencies(preset, npc.configured, npc.sex)

LEMMA DerivedStep ==
  ASSUME Unshared, Derived, [Next]_vars
  PROVE  Derived'
<1>1. npc' = npc /\ document' = document
  <2>1. npc' = npc
    BY OnlyRead
  <2>2. document' = document
    BY DEF Next, Task, Environment, ScanAssignment, CreateRenderSource, CopyBaseline, ApplyPreset,
           ValidateCarrier, CaptureRoots, VisitHeadPart, KeepStructure, CreateOutput,
           PublishRenderSource, StartComposite, PollComposite, PollCompositeActivation, OtherKill,
           EngineRetains, CanonicalChanges, StructureChanges, EngineComposes, EngineIdles, Expire,
           task, assigned, vars
  <2>3. QED BY <2>1, <2>2
<1>2. CASE ScanAssignment /\ ~Skip
  <2>1. PICK p \in LoadPreset(document) :
          \E d \in ResolveAppearanceDependencies(p, npc.configured, npc.sex) : Prepare(p, d)
    BY <1>2 DEF ScanAssignment
  <2>2. PICK d \in ResolveAppearanceDependencies(p, npc.configured, npc.sex) : Prepare(p, d)
    BY <2>1
  <2>3. preset' = p /\ deps' = d
    BY <2>2 DEF Prepare
  <2>4. QED BY <1>1, <2>1, <2>2, <2>3 DEF Derived
<1>3. ASSUME UNCHANGED <<preset, deps>>, pc' \notin {"scan", "done"} => pc \notin {"scan", "done"}
      PROVE  Derived'
  BY <1>1, <1>3 DEF Derived, Prepared
<1>4. CASE Skip
  BY <1>3, <1>4 DEF Skip
<1>5. CASE (Task /\ ~ScanAssignment) \/ Environment \/ UNCHANGED vars
  <2>1. UNCHANGED <<preset, deps>>
    BY <1>5 DEF Task, Environment, CreateRenderSource, CopyBaseline, ApplyPreset,
           ValidateCarrier, CaptureRoots, VisitHeadPart, KeepStructure, CreateOutput,
           PublishRenderSource, StartComposite, PollComposite, PollCompositeActivation, OtherKill,
           EngineRetains, CanonicalChanges, StructureChanges, EngineComposes, EngineIdles, Expire,
           task, assigned, vars
  <2>2. pc' \notin {"scan", "done"} => pc \notin {"scan", "done"}
    BY <1>5 DEF Task, Environment, CreateRenderSource, CopyBaseline, ApplyPreset,
           ValidateCarrier, CaptureRoots, VisitHeadPart, KeepStructure, CreateOutput,
           PublishRenderSource, StartComposite, PollComposite, PollCompositeActivation, OtherKill,
           EngineRetains, CanonicalChanges, StructureChanges, EngineComposes, EngineIdles, Expire,
           task, vars
  <2>3. QED BY <1>3, <2>1, <2>2
<1>6. QED BY <1>2, <1>4, <1>5 DEF Next

LEMMA DerivedHolds == Spec => []Derived
<1>1. Init => Unshared /\ Derived
  BY DEF Init, Unshared, Derived, Prepared
<1>2. QED BY <1>1, PhasesHold, UnsharedStep, DerivedStep, PTL DEF Spec

-----------------------------------------------------------------------------
(* Presets say what their documents say.                                   *)

\* A number and its remainder differ by a multiple.
LEMMA MultipleHasNoRemainder ==
  ASSUME NEW m \in Nat \ {0}, NEW k \in Int
  PROVE  (m * k) % m = 0
BY SMT

LEMMA RemainderIsCongruent ==
  ASSUME NEW m \in Nat \ {0}, NEW x \in Int
  PROVE  ((x % m) - x) % m = 0
<1> DEFINE q == x \div m
<1>1. q \in Int /\ x % m \in Int /\ x = m * q + (x % m)
  BY SMT
<1> HIDE DEF q
<1>2. (x % m) - x = m * (-q)
  BY <1>1
<1>3. \A k \in Int : (m * k) % m = 0
  BY MultipleHasNoRemainder, Zenon
<1>4. -q \in Int
  BY <1>1
<1>5. (m * (-q)) % m = 0
  BY <1>3, <1>4, Zenon
<1>6. QED BY <1>2, <1>5, Zenon

\* A serialized ID and the ID it stands for have the same bits.
LEMMA IDDecoded ==
  ASSUME NEW v \in Int, RuntimeID(v)
  PROVE  DecodeRuntimeID(v) \in 0 .. MaxID /\ (DecodeRuntimeID(v) - v) % (MaxID + 1) = 0
<1>1. MaxID \in Nat
  BY WidthAssumption
<1>2. DecodeRuntimeID(v) \in 0 .. MaxID
  BY <1>1 DEF RuntimeID, Bounded, DecodeRuntimeID
<1>3. DecodeRuntimeID(v) - v \in {0, MaxID + 1}
  BY <1>1 DEF DecodeRuntimeID
<1>4. 0 % (MaxID + 1) = 0 /\ (MaxID + 1) % (MaxID + 1) = 0
  <2>1. MaxID + 1 \in Nat \ {0}
    BY <1>1
  <2>2. \A k \in Int : ((MaxID + 1) * k) % (MaxID + 1) = 0
    BY <2>1, MultipleHasNoRemainder, Zenon
  <2>3. (MaxID + 1) * 0 = 0 /\ (MaxID + 1) * 1 = MaxID + 1
    BY <1>1
  <2>4. 0 \in Int /\ 1 \in Int
    OBVIOUS
  <2>5. QED BY <2>2, <2>3, <2>4, Zenon
<1>5. QED BY <1>2, <1>3, <1>4

\* A fraction is rounded down on the scale it is stored on.
LEMMA Rounded ==
  ASSUME NEW v \in Int
  PROVE  /\ v * 128 - One < PackCharGen(v) * One /\ PackCharGen(v) * One <= v * 128
         /\ v * 64 - One < PackCk(v) * One /\ PackCk(v) * One <= v * 64
BY DEF PackCharGen, PackCk, One

\* What ParseCkPreset keeps.
LEMMA CkIsSound ==
  ASSUME NEW d \in Documents, d.format = "ck", NEW p \in LoadPreset(d)
  PROVE  /\ p.skinTone \in 0 .. MaxByte
         /\ (p.skinTone - d.skinTone) % (MaxByte + 1) = 0
         /\ \A r \in DOMAIN p.regions : p.regions[r].region \in 0 .. MaxID
         /\ \A r \in DOMAIN p.regions :
              \A s \in DOMAIN p.regions[r].sliders :
                /\ p.regions[r].sliders[s].id \in 0 .. MaxID
                /\ (p.regions[r].sliders[s].id - d.regions[r].sliders[s].id) % (MaxID + 1) = 0
         /\ \A i \in DOMAIN p.layers :
              p.layers[i].intensity =
                IF IsCharGenMenu(d) THEN PackCharGen(d.layers[i].intensity) ELSE PackCk(d.layers[i].intensity)
<1>1. /\ CkAccepted(d)
      /\ p.skinTone = d.skinTone % (MaxByte + 1)
      /\ p.regions = ReadBoneRegions(d.regions)
      /\ p.layers = ReadTintLayers(d.layers, IsCharGenMenu(d))
  BY DEF LoadPreset, ParseCkPreset
<1>2. MaxByte \in Nat /\ MaxByte + 1 \in Nat \ {0} /\ d.skinTone \in Int
  BY WidthAssumption, DocumentAssumption
<1>3. p.skinTone \in 0 .. MaxByte
  BY <1>1, <1>2
<1>4. (p.skinTone - d.skinTone) % (MaxByte + 1) = 0
  <2>1. \A m \in Nat \ {0} : \A x \in Int : ((x % m) - x) % m = 0
    BY RemainderIsCongruent, Zenon
  <2>2. QED BY <1>1, <1>2, <2>1, Zenon
<1>5. ASSUME NEW r \in DOMAIN p.regions
      PROVE  /\ p.regions[r].region \in 0 .. MaxID
             /\ \A s \in DOMAIN p.regions[r].sliders :
                  /\ p.regions[r].sliders[s].id \in 0 .. MaxID
                  /\ (p.regions[r].sliders[s].id - d.regions[r].sliders[s].id) % (MaxID + 1) = 0
  <2>1. /\ r \in DOMAIN d.regions
        /\ p.regions[r].region = DecodeRuntimeID(d.regions[r].region)
        /\ DOMAIN p.regions[r].sliders = DOMAIN d.regions[r].sliders
        /\ \A s \in DOMAIN d.regions[r].sliders :
             p.regions[r].sliders[s] = [d.regions[r].sliders[s] EXCEPT !.id = DecodeRuntimeID(@)]
    BY <1>1 DEF ReadBoneRegions
  <2>2. d.regions[r].region \in Int /\ RuntimeID(d.regions[r].region)
    BY <1>1, <2>1, DocumentAssumption DEF CkAccepted, BoneRegionsAccepted, Numbered
  <2>3. ASSUME NEW s \in DOMAIN d.regions[r].sliders
        PROVE  /\ d.regions[r].sliders[s].id \in Int /\ RuntimeID(d.regions[r].sliders[s].id)
               /\ p.regions[r].sliders[s].id = DecodeRuntimeID(d.regions[r].sliders[s].id)
    <3>1. Numbered(d.regions[r].sliders[s], "id")
      BY <2>1, <2>3, DocumentAssumption
    <3>2. RuntimeID(d.regions[r].sliders[s].id)
      BY <1>1, <2>1, <2>3 DEF CkAccepted, BoneRegionsAccepted
    <3>3. QED BY <2>1, <3>1, <3>2 DEF Numbered
  <2>4. QED BY <2>1, <2>2, <2>3, IDDecoded
<1>6. ASSUME NEW i \in DOMAIN p.layers
      PROVE  p.layers[i].intensity =
               IF IsCharGenMenu(d) THEN PackCharGen(d.layers[i].intensity) ELSE PackCk(d.layers[i].intensity)
  <2>1. i \in DOMAIN d.layers
    BY <1>1 DEF ReadTintLayers
  <2>2. Numbered(d.layers[i], "intensity")
    BY <2>1, DocumentAssumption
  <2>3. QED BY <1>1, <2>1, <2>2 DEF ReadTintLayers, Numbered
<1>7. QED BY <1>3, <1>4, <1>5, <1>6

\* A function on 1 .. n is a sequence.
LEMMA ListIsSequence ==
  ASSUME NEW n \in Nat, NEW f, f = [i \in 1 .. n |-> f[i]]
  PROVE  f \in Seq({f[i] : i \in DOMAIN f})
<1>1. f \in [1 .. n -> {f[i] : i \in DOMAIN f}]
  OBVIOUS
<1>2. QED BY <1>1

\* What ParseCharGenJsonPreset keeps; the sliders of its extra region have no range
\* of their own there.
LEMMA JsonIsSound ==
  ASSUME NEW d \in Documents, d.format # "ck", NEW p \in LoadPreset(d)
  PROVE  /\ p.skinTone \in 0 .. MaxByte
         /\ (p.skinTone - d.skinTone) % (MaxByte + 1) = 0
         /\ \A r \in DOMAIN p.regions : p.regions[r].region \in 0 .. MaxID
         /\ \A i \in DOMAIN p.layers : p.layers[i].intensity = PackCharGen(d.layers[i].intensity)
<1>1. /\ JsonAccepted(d)
      /\ p.skinTone = d.skinTone
      /\ p.regions = JsonRegions(d)
      /\ p.layers = [i \in DOMAIN d.layers |-> [d.layers[i] EXCEPT !.intensity = PackCharGen(@)]]
  BY DEF LoadPreset, ParseCharGenJsonPreset
<1>2. MaxByte \in Nat /\ MaxID \in Nat /\ d.skinTone \in Int /\ Index(d.skinTone, MaxByte)
  BY <1>1, WidthAssumption, DocumentAssumption DEF JsonAccepted
<1>3. p.skinTone \in 0 .. MaxByte
  BY <1>1, <1>2 DEF Index, Bounded
<1>4. (p.skinTone - d.skinTone) % (MaxByte + 1) = 0
  <2>1. p.skinTone - d.skinTone = (MaxByte + 1) * 0 /\ MaxByte + 1 \in Nat \ {0} /\ 0 \in Int
    BY <1>1, <1>2
  <2>2. \A m \in Nat \ {0} : \A k \in Int : (m * k) % m = 0
    BY MultipleHasNoRemainder, Zenon
  <2>3. QED BY <2>1, <2>2, Zenon
<1>5. ASSUME NEW r \in DOMAIN p.regions
      PROVE  p.regions[r].region \in 0 .. MaxID
  <2> DEFINE own == [q \in DOMAIN d.morphs |->
                      [region  |-> d.morphs[q].region,
                       sliders |-> [s \in DOMAIN d.morphs[q].sliders |->
                                     [group |-> d.morphs[q].sliders[s].group, id |-> 0,
                                      value |-> d.morphs[q].sliders[s].value]]]]
             more == IF d.additional = <<>> THEN <<>>
                     ELSE <<[region  |-> 0,
                             sliders |-> [s \in DOMAIN d.additional |->
                                           [group |-> NoName, id |-> d.additional[s].id,
                                            value |-> d.additional[s].value]]]>>
             RegionsInRange(list) == \A q \in DOMAIN list : list[q].region \in 0 .. MaxID
  <2>1. p.regions = own \o more
    BY <1>1 DEF JsonRegions
  <2>2. Len(d.morphs) \in Nat /\ DOMAIN d.morphs = 1 .. Len(d.morphs)
    BY DocumentAssumption DEF IsSequence
  <2>3. own \in Seq({own[q] : q \in DOMAIN own}) /\ RegionsInRange(own)
    <3>1. own \in Seq({own[q] : q \in DOMAIN own})
      <4>1. own = [q \in 1 .. Len(d.morphs) |-> own[q]]
        BY <2>2
      <4> HIDE DEF own
      <4>2. QED BY <2>2, <4>1, ListIsSequence
    <3>2. \A q \in DOMAIN d.morphs : d.morphs[q].region \in Int /\ Index(d.morphs[q].region, MaxID)
      BY <1>1, DocumentAssumption DEF JsonAccepted
    <3>3. DOMAIN own = DOMAIN d.morphs /\ \A q \in DOMAIN own : own[q].region = d.morphs[q].region
      OBVIOUS
    <3> HIDE DEF own
    <3>4. RegionsInRange(own)
      BY <1>2, <3>2, <3>3 DEF Index, Bounded
    <3>5. QED BY <3>1, <3>4
  <2>4. more \in Seq({more[q] : q \in DOMAIN more}) /\ RegionsInRange(more)
    <3>1. CASE d.additional = <<>>
      BY <3>1
    <3>2. CASE d.additional # <<>>
      <4> DEFINE region == [region  |-> 0,
                            sliders |-> [s \in DOMAIN d.additional |->
                                          [group |-> NoName, id |-> d.additional[s].id,
                                           value |-> d.additional[s].value]]]
      <4>1. more = <<region>> /\ region.region = 0
        BY <3>2
      <4> HIDE DEF region, more
      <4>2. QED BY <1>2, <4>1
    <3>3. QED BY <3>1, <3>2
  <2> HIDE DEF own, more
  <2>5. r \in DOMAIN own \/ (r - Len(own) \in DOMAIN more /\ r \notin DOMAIN own)
    BY <2>1, <2>3, <2>4
  <2>6. p.regions[r] = IF r \in DOMAIN own THEN own[r] ELSE more[r - Len(own)]
    BY <2>1, <2>3, <2>4, <2>5
  <2>7. QED BY <2>3, <2>4, <2>5, <2>6
<1>6. ASSUME NEW i \in DOMAIN p.layers PROVE p.layers[i].intensity = PackCharGen(d.layers[i].intensity)
  <2>1. i \in DOMAIN d.layers
    BY <1>1
  <2>2. Numbered(d.layers[i], "intensity")
    BY <2>1, DocumentAssumption
  <2>3. QED BY <1>1, <2>1, <2>2 DEF Numbered
<1>7. QED BY <1>3, <1>4, <1>5, <1>6

\* A parser keeps the bits of every ID, the low byte of the skin tone and the
\* fraction of every tint, and leaves nothing beyond its field, whatever the
\* document says (ParseCkPreset, ParseCharGenJsonPreset).
THEOREM PresetIsSoundHolds == Spec => []PresetIsSound
<1>1. Derived => PresetIsSound
  <2> SUFFICES ASSUME Derived, Prepared PROVE PresetIsSound
    BY DEF PresetIsSound
  <2>1. document \in Documents /\ preset \in LoadPreset(document)
    BY DEF Derived
  <2>2. \A i \in DOMAIN preset.layers : document.layers[i].intensity \in Int
    <3>1. DOMAIN preset.layers = DOMAIN document.layers
      BY <2>1 DEF LoadPreset, ParseCkPreset, ParseCharGenJsonPreset, ReadTintLayers
    <3>2. QED BY <2>1, <3>1, DocumentAssumption DEF Numbered
  <2>3. CASE document.format = "ck"
    <3>1. \A i \in DOMAIN preset.layers :
            LET scale == IF document.format = "ck" /\ ~IsCharGenMenu(document) THEN 64 ELSE 128
                exact == document.layers[i].intensity * scale
            IN  exact - One < preset.layers[i].intensity * One /\ preset.layers[i].intensity * One <= exact
      BY <2>1, <2>2, <2>3, CkIsSound, Rounded
    <3>2. QED BY <2>1, <2>3, <3>1, CkIsSound DEF PresetIsSound
  <2>4. CASE document.format # "ck"
    <3>1. \A i \in DOMAIN preset.layers :
            LET scale == IF document.format = "ck" /\ ~IsCharGenMenu(document) THEN 64 ELSE 128
                exact == document.layers[i].intensity * scale
            IN  exact - One < preset.layers[i].intensity * One /\ preset.layers[i].intensity * One <= exact
      BY <2>1, <2>2, <2>4, JsonIsSound, Rounded
    <3>2. QED BY <2>1, <2>4, <3>1, JsonIsSound DEF PresetIsSound
  <2>5. QED BY <2>3, <2>4
<1>2. QED BY <1>1, DerivedHolds, PTL

-----------------------------------------------------------------------------
(* A part for every name.                                                  *)

\* What a parser keeps of a document's names of head parts.
LEMMA NamesKept ==
  ASSUME NEW d \in Documents, NEW p \in LoadPreset(d)
  PROVE  /\ p.format \in {"ck", "json"} /\ (p.format = "ck" <=> d.format = "ck")
         /\ p.format = "ck" => IsSequence(p.unique) /\ IsSequence(p.misc)
         /\ p.format # "ck" => IsSequence(p.forms)
<1>1. CASE d.format = "ck"
  <2>1. p.format = "ck" /\ p.unique = d.unique /\ p.misc = d.misc
    BY <1>1 DEF LoadPreset, ParseCkPreset
  <2>2. QED BY <1>1, <2>1, DocumentAssumption
<1>2. CASE d.format # "ck"
  <2>1. p.format = "json" /\ p.forms = d.forms
    BY <1>2 DEF LoadPreset, ParseCharGenJsonPreset
  <2>2. QED BY <1>2, <2>1, DocumentAssumption
<1>3. QED BY <1>1, <1>2

\* Without a repetition there are as many parts as places.
LEMMA PartsCounted ==
  ASSUME NEW parts, NoRepetition(parts), IsFiniteSet(DOMAIN parts)
  PROVE  Cardinality({parts[i] : i \in DOMAIN parts}) = Cardinality(DOMAIN parts)
<1> DEFINE range == {parts[i] : i \in DOMAIN parts}
           f == [i \in DOMAIN parts |-> parts[i]]
<1>1. f \in Bijection(DOMAIN parts, range)
  BY DEF NoRepetition, Bijection, Injection, IsInjective, Surjection
<1>2. ExistsBijection(DOMAIN parts, range)
  BY <1>1 DEF ExistsBijection
<1>3. QED BY <1>2, FS_Bijection

\* A concatenation of lists, place by place.
LEMMA Joined ==
  ASSUME NEW s, NEW t, IsSequence(s), IsSequence(t)
  PROVE  /\ Len(s) \in Nat /\ Len(t) \in Nat
         /\ DOMAIN (s \o t) = 1 .. Len(s) + Len(t)
         /\ \A i \in 1 .. Len(s) + Len(t) : (s \o t)[i] = IF i <= Len(s) THEN s[i] ELSE t[i - Len(s)]
<1> DEFINE T == {s[i] : i \in DOMAIN s} \cup {t[i] : i \in DOMAIN t}
<1>1. s \in Seq(T) /\ t \in Seq(T)
  BY DEF IsSequence
<1> HIDE DEF T
<1>2. s \o t \in Seq(T) /\ Len(s \o t) = Len(s) + Len(t)
  BY <1>1
<1>3. Len(s) \in Nat /\ Len(t) \in Nat
  BY <1>1
<1>4. \A i \in 1 .. Len(s) + Len(t) : (s \o t)[i] = IF i <= Len(s) THEN s[i] ELSE t[i - Len(s)]
  BY <1>1
<1>5. QED BY <1>2, <1>3, <1>4

\* The resolver's unique and misc parts are those of a Creation Kit preset's names.
LEMMA CkPartsResolved ==
  ASSUME NEW p, NEW wanted, p.format = "ck", IsSequence(p.unique), IsSequence(p.misc),
         HeadPartsOK(p, wanted)
  PROVE  /\ UniqueParts(Dependencies(p)) \cup Dependencies(p).misc = {CkParts(p)[i] : i \in CkNamed(p)}
         /\ IsFiniteSet(CkNamed(p))
         /\ \A type \in UniqueSlots :
              SlotPart(p, type) # NoName =>
                PartType[SlotPart(p, type)] = type /\ wanted \in PartRaces[SlotPart(p, type)]
         /\ \A part \in MiscParts(p) : part # NoName /\ wanted \in PartRaces[part]
<1> DEFINE n == Len(p.misc)
           u(i) == PartByEditorID(p.unique[i])
           m(i) == PartByEditorID(p.misc[i])
<1>1. n \in Nat /\ DOMAIN p.misc = 1 .. n /\ Len(p.unique) = 9 /\ DOMAIN p.unique = 1 .. 9
  BY DEF IsSequence, HeadPartsOK, CkHeadPartsOK, CkSlots
<1>2. /\ DOMAIN CkNames(p) = 1 .. 9 + n
      /\ \A i \in 1 .. 9 : CkNames(p)[i] = p.unique[i]
      /\ \A i \in 1 .. n : CkNames(p)[9 + i] = p.misc[i]
  <2>1. DOMAIN CkNames(p) = 1 .. 9 + n
    <3>1. DOMAIN (p.unique \o p.misc) = 1 .. Len(p.unique) + Len(p.misc)
      BY Joined
    <3>2. QED BY <1>1, <3>1 DEF CkNames
  <2>2. \A i \in 1 .. 9 + n : CkNames(p)[i] = IF i <= 9 THEN p.unique[i] ELSE p.misc[i - 9]
    <3>1. \A i \in 1 .. Len(p.unique) + Len(p.misc) :
            (p.unique \o p.misc)[i] = IF i <= Len(p.unique) THEN p.unique[i] ELSE p.misc[i - Len(p.unique)]
      BY Joined
    <3>2. QED BY <1>1, <3>1 DEF CkNames
  <2>3. \A i \in 1 .. n : 9 + i \in 1 .. 9 + n /\ ~(9 + i <= 9) /\ (9 + i) - 9 = i
    BY <1>1
  <2>4. \A i \in 1 .. 9 : i \in 1 .. 9 + n /\ i <= 9
    BY <1>1
  <2> HIDE DEF n
  <2>5. QED BY <2>1, <2>2, <2>3, <2>4
<1>3. /\ CkNamed(p) = {i \in 1 .. 9 + n : i \in 1 .. 9 => p.unique[i] # NoName}
      /\ DOMAIN CkParts(p) = CkNamed(p)
      /\ \A i \in 1 .. 9 : p.unique[i] # NoName => i \in CkNamed(p) /\ CkParts(p)[i] = u(i)
      /\ \A i \in 1 .. n : 9 + i \in CkNamed(p) /\ CkParts(p)[9 + i] = m(i)
  BY <1>1, <1>2 DEF CkNamed, CkParts
<1>4. /\ \A i \in CkNamed(p) : CkParts(p)[i] # NoName /\ wanted \in PartRaces[CkParts(p)[i]]
      /\ \A i \in 1 .. 9 : p.unique[i] # NoName => PartType[u(i)] = i - 1
  BY <1>1, <1>3 DEF HeadPartsOK, CkHeadPartsOK, HeadPartsValid
<1>5. \A type \in 0 .. 8 :
        CkSlot(p, type) = IF p.unique[type + 1] # NoName THEN u(type + 1) ELSE NoName
  BY <1>1 DEF CkSlot
<1>6. /\ MiscParts(p) = ({CkSlot(p, 0)} \ {NoName}) \cup {m(i) : i \in 1 .. n}
      /\ \A type : SlotPart(p, type) = CkSlot(p, type)
      /\ Dependencies(p).misc = MiscParts(p)
      /\ UniqueParts(Dependencies(p)) = {CkSlot(p, type) : type \in 1 .. 8} \ {NoName}
  BY <1>1 DEF MiscParts, SlotPart, Dependencies, UniqueParts, Misc, UniqueSlots
<1>7. ASSUME NEW part \in UniqueParts(Dependencies(p)) \cup MiscParts(p)
      PROVE  \E i \in CkNamed(p) : part = CkParts(p)[i]
  <2>1. (\E type \in 0 .. 8 : part = CkSlot(p, type) /\ part # NoName) \/ \E i \in 1 .. n : part = m(i)
    BY <1>6
  <2>2. CASE \E type \in 0 .. 8 : part = CkSlot(p, type) /\ part # NoName
    <3>1. PICK type \in 0 .. 8 : part = CkSlot(p, type) /\ part # NoName
      BY <2>2
    <3>2. p.unique[type + 1] # NoName /\ part = u(type + 1) /\ type + 1 \in 1 .. 9
      BY <1>5, <3>1
    <3>3. QED BY <1>3, <3>2
  <2>3. CASE \E i \in 1 .. n : part = m(i)
    BY <1>3, <2>3
  <2>4. QED BY <2>1, <2>2, <2>3
<1>8. ASSUME NEW i \in CkNamed(p) PROVE CkParts(p)[i] \in UniqueParts(Dependencies(p)) \cup MiscParts(p)
  <2>1. CASE i \in 1 .. 9
    <3>1. p.unique[i] # NoName /\ CkParts(p)[i] = u(i) /\ CkParts(p)[i] # NoName
      BY <1>3, <1>4, <2>1
    <3>2. i - 1 \in 0 .. 8 /\ (i - 1) + 1 = i
      BY <2>1
    <3>3. CkSlot(p, i - 1) = u(i)
      BY <1>5, <3>1, <3>2
    <3>4. QED BY <1>6, <3>1, <3>2, <3>3
  <2>2. CASE i \notin 1 .. 9
    <3>1. i - 9 \in 1 .. n /\ 9 + (i - 9) = i
      BY <1>1, <1>3, <2>2
    <3>2. CkParts(p)[i] = m(i - 9)
      BY <1>3, <3>1
    <3>3. QED BY <1>6, <3>1, <3>2
  <2>3. QED BY <2>1, <2>2
<1>9. UniqueParts(Dependencies(p)) \cup Dependencies(p).misc = {CkParts(p)[i] : i \in CkNamed(p)}
  BY <1>6, <1>7, <1>8
<1>10. IsFiniteSet(CkNamed(p))
  <2>1. CkNamed(p) \in SUBSET (1 .. 9 + n) /\ IsFiniteSet(1 .. 9 + n)
    <3>1. CkNamed(p) \in SUBSET (1 .. 9 + n)
      BY <1>3
    <3>2. 9 + n \in Nat
      BY <1>1
    <3>3. IsFiniteSet(1 .. 9 + n)
      BY <3>2, FS_Interval
    <3>4. QED BY <3>1, <3>3
  <2>2. QED BY <2>1, FS_Subset
<1>11. ASSUME NEW type \in UniqueSlots, SlotPart(p, type) # NoName
       PROVE  PartType[SlotPart(p, type)] = type /\ wanted \in PartRaces[SlotPart(p, type)]
  <2>1. type \in 0 .. 8 /\ type + 1 \in 1 .. 9 /\ (type + 1) - 1 = type
    BY DEF UniqueSlots
  <2>2. p.unique[type + 1] # NoName /\ SlotPart(p, type) = u(type + 1)
    BY <1>5, <1>6, <1>11, <2>1
  <2>3. QED BY <1>3, <1>4, <2>1, <2>2
<1>12. \A part \in MiscParts(p) : part # NoName /\ wanted \in PartRaces[part]
  BY <1>4, <1>7
<1>13. QED BY <1>9, <1>10, <1>11, <1>12

\* Those of a CharGen preset are the forms it refers to, whose types tell the slots.
LEMMA JsonPartsResolved ==
  ASSUME NEW p, NEW wanted, p.format # "ck", HeadPartsOK(p, wanted)
  PROVE  /\ UniqueParts(Dependencies(p)) \cup Dependencies(p).misc = {JsonParts(p)[i] : i \in DOMAIN p.forms}
         /\ \A type \in UniqueSlots :
              SlotPart(p, type) # NoName =>
                PartType[SlotPart(p, type)] = type /\ wanted \in PartRaces[SlotPart(p, type)]
         /\ \A part \in MiscParts(p) : part # NoName /\ wanted \in PartRaces[part]
<1> DEFINE parts == JsonParts(p)
           own(type) == {i \in DOMAIN p.forms : PartType[parts[i]] = type}
<1>1. DOMAIN parts = DOMAIN p.forms
  BY DEF JsonParts
<1>2. /\ \A i \in DOMAIN p.forms : parts[i] # NoName /\ wanted \in PartRaces[parts[i]]
      /\ \A i \in DOMAIN p.forms : PartType[parts[i]] \in 0 .. 8
      /\ \A i, j \in DOMAIN p.forms :
           PartType[parts[i]] = PartType[parts[j]] /\ PartType[parts[i]] # 0 => i = j
  BY <1>1 DEF HeadPartsOK, JsonHeadPartsOK, HeadPartsValid, UniqueSlots, Misc
<1>3. /\ MiscParts(p) = {parts[i] : i \in own(0)}
      /\ Dependencies(p).misc = MiscParts(p)
      /\ UniqueParts(Dependencies(p)) = {SlotPart(p, type) : type \in 1 .. 8} \ {NoName}
      /\ \A type : SlotPart(p, type) =
           IF own(type) = {} THEN NoName ELSE parts[CHOOSE i \in own(type) : TRUE]
  BY DEF MiscParts, Dependencies, UniqueParts, SlotPart, JsonSlot, Misc, UniqueSlots
<1>4. ASSUME NEW type \in 1 .. 8, SlotPart(p, type) # NoName
      PROVE  \E i \in own(type) : SlotPart(p, type) = parts[i]
  BY <1>3, <1>4
<1>5. ASSUME NEW type \in 1 .. 8, NEW i \in own(type)
      PROVE  SlotPart(p, type) = parts[i]
  <2>1. (CHOOSE j \in own(type) : TRUE) \in own(type)
    BY <1>5
  <2>2. (CHOOSE j \in own(type) : TRUE) = i
    BY <1>2, <2>1
  <2>3. QED BY <1>3, <2>2
<1> HIDE DEF parts
<1>6. ASSUME NEW part \in UniqueParts(Dependencies(p)) \cup MiscParts(p)
      PROVE  \E i \in DOMAIN p.forms : part = parts[i]
  BY <1>3, <1>4
<1>7. ASSUME NEW i \in DOMAIN p.forms PROVE parts[i] \in UniqueParts(Dependencies(p)) \cup MiscParts(p)
  <2>1. CASE PartType[parts[i]] = 0
    BY <1>3, <2>1
  <2>2. CASE PartType[parts[i]] # 0
    <3>1. PartType[parts[i]] \in 1 .. 8 /\ i \in own(PartType[parts[i]])
      BY <1>2, <2>2
    <3>2. parts[i] = SlotPart(p, PartType[parts[i]]) /\ parts[i] # NoName
      BY <1>2, <1>5, <3>1
    <3>3. QED BY <1>3, <3>1, <3>2
  <2>3. QED BY <2>1, <2>2
<1>8. UniqueParts(Dependencies(p)) \cup Dependencies(p).misc = {parts[i] : i \in DOMAIN p.forms}
  BY <1>3, <1>6, <1>7
<1>9. ASSUME NEW type \in UniqueSlots, SlotPart(p, type) # NoName
      PROVE  PartType[SlotPart(p, type)] = type /\ wanted \in PartRaces[SlotPart(p, type)]
  <2>1. PICK i \in own(type) : SlotPart(p, type) = parts[i]
    BY <1>4, <1>9 DEF UniqueSlots
  <2>2. QED BY <1>2, <2>1
<1>10. \A part \in MiscParts(p) : part # NoName /\ wanted \in PartRaces[part]
  BY <1>2, <1>6
<1>11. QED BY <1>8, <1>9, <1>10 DEF parts

\* What a preset resolves to agrees with its names.
LEMMA PartsAgree ==
  ASSUME NEW d \in Documents, NEW p \in LoadPreset(d), NEW wanted, NEW sex,
         NEW r \in ResolveAppearanceDependencies(p, wanted, sex)
  PROVE  /\ r.race = wanted
         /\ \A type \in UniqueSlots :
              r.unique[type] # NoName =>
                PartType[r.unique[type]] = type /\ r.race \in PartRaces[r.unique[type]]
         /\ \A part \in r.misc : part # NoName /\ r.race \in PartRaces[part]
         /\ Cardinality(UniqueParts(r) \cup r.misc) =
              IF p.format = "ck" THEN Cardinality(CkNamed(p)) ELSE Len(p.forms)
<1>1. Complete(p, wanted, sex) /\ r = Dependencies(p)
  BY DEF ResolveAppearanceDependencies
<1>2. /\ r.race = wanted /\ r.race = RaceOf(p)
      /\ HeadPartsOK(p, r.race)
  BY <1>1 DEF Complete, Dependencies
<1>3. /\ \A type \in UniqueSlots : r.unique[type] = SlotPart(p, type)
      /\ r.misc = MiscParts(p)
  BY <1>1 DEF Dependencies
<1>4. CASE p.format = "ck"
  <2>1. IsSequence(p.unique) /\ IsSequence(p.misc)
    BY <1>4, NamesKept
  <2>2. /\ UniqueParts(r) \cup r.misc = {CkParts(p)[i] : i \in CkNamed(p)}
        /\ IsFiniteSet(CkNamed(p))
        /\ \A type \in UniqueSlots :
             SlotPart(p, type) # NoName =>
               PartType[SlotPart(p, type)] = type /\ r.race \in PartRaces[SlotPart(p, type)]
        /\ \A part \in MiscParts(p) : part # NoName /\ r.race \in PartRaces[part]
    BY <1>1, <1>2, <1>4, <2>1, CkPartsResolved
  <2>3. DOMAIN CkParts(p) = CkNamed(p) /\ NoRepetition(CkParts(p))
    BY <1>2, <1>4 DEF CkParts, HeadPartsOK, CkHeadPartsOK, HeadPartsValid
  <2>4. Cardinality(UniqueParts(r) \cup r.misc) = Cardinality(CkNamed(p))
    BY <2>2, <2>3, PartsCounted
  <2>5. \A type \in UniqueSlots :
          r.unique[type] # NoName =>
            PartType[r.unique[type]] = type /\ r.race \in PartRaces[r.unique[type]]
    BY <1>3, <2>2
  <2>6. \A part \in r.misc : part # NoName /\ r.race \in PartRaces[part]
    BY <1>3, <2>2
  <2>7. QED BY <1>2, <1>4, <2>4, <2>5, <2>6
<1>5. CASE p.format # "ck"
  <2>1. IsSequence(p.forms)
    BY <1>5, NamesKept
  <2>2. /\ UniqueParts(r) \cup r.misc = {JsonParts(p)[i] : i \in DOMAIN p.forms}
        /\ \A type \in UniqueSlots :
             SlotPart(p, type) # NoName =>
               PartType[SlotPart(p, type)] = type /\ r.race \in PartRaces[SlotPart(p, type)]
        /\ \A part \in MiscParts(p) : part # NoName /\ r.race \in PartRaces[part]
    BY <1>1, <1>2, <1>5, JsonPartsResolved
  <2>3. DOMAIN JsonParts(p) = DOMAIN p.forms /\ NoRepetition(JsonParts(p))
    BY <1>2, <1>5 DEF JsonParts, HeadPartsOK, JsonHeadPartsOK, HeadPartsValid
  <2>4. /\ Len(p.forms) \in Nat /\ DOMAIN p.forms = 1 .. Len(p.forms)
    BY <2>1 DEF IsSequence
  <2>5. IsFiniteSet(DOMAIN p.forms) /\ Cardinality(DOMAIN p.forms) = Len(p.forms)
    <3>1. \A n \in Nat : IsFiniteSet(1 .. n) /\ Cardinality(1 .. n) = n
      BY FS_Interval
    <3>2. QED BY <2>4, <3>1, Zenon
  <2>6. Cardinality(UniqueParts(r) \cup r.misc) = Len(p.forms)
    <3>1. {JsonParts(p)[i] : i \in DOMAIN p.forms} = {JsonParts(p)[i] : i \in DOMAIN JsonParts(p)}
      BY <2>3
    <3>2. Cardinality({JsonParts(p)[i] : i \in DOMAIN JsonParts(p)}) = Cardinality(DOMAIN JsonParts(p))
      BY <2>3, <2>5, PartsCounted
    <3>3. UniqueParts(r) \cup r.misc = {JsonParts(p)[i] : i \in DOMAIN p.forms}
      BY <1>1, <2>2
    <3>4. QED BY <2>3, <2>5, <3>1, <3>2, <3>3, Zenon
  <2>7. \A type \in UniqueSlots :
          r.unique[type] # NoName =>
            PartType[r.unique[type]] = type /\ r.race \in PartRaces[r.unique[type]]
    BY <1>3, <2>2
  <2>8. \A part \in r.misc : part # NoName /\ r.race \in PartRaces[part]
    BY <1>3, <2>2
  <2>9. QED BY <1>2, <1>5, <2>6, <2>7, <2>8
<1>6. QED BY <1>4, <1>5

\* The parts a preset resolves to are offered to its race, each is the one of its
\* slot, and none is missing or there twice, whatever the game's tables hold
\* (ResolveCkHeadParts, ResolveCharGenHeadParts).
THEOREM DependenciesAgreeHolds == Spec => []DependenciesAgree
<1>1. ASSUME Derived, Prepared PROVE DependenciesAgree
  <2>1. /\ document \in Documents /\ preset \in LoadPreset(document)
        /\ deps \in ResolveAppearanceDependencies(preset, npc.configured, npc.sex)
    BY <1>1 DEF Derived
  <2>2. deps.race = npc.configured
    <3>1. Complete(preset, npc.configured, npc.sex) /\ deps = Dependencies(preset)
      BY <2>1 DEF ResolveAppearanceDependencies
    <3>2. QED BY <3>1 DEF Complete, Dependencies
  <2>3. /\ \A type \in UniqueSlots :
             deps.unique[type] # NoName =>
               PartType[deps.unique[type]] = type /\ deps.race \in PartRaces[deps.unique[type]]
        /\ \A part \in deps.misc : part # NoName /\ deps.race \in PartRaces[part]
    BY <2>1, PartsAgree
  <2>4. Cardinality(UniqueParts(deps) \cup deps.misc) =
          IF preset.format = "ck" THEN Cardinality(CkNamed(preset)) ELSE Len(preset.forms)
    BY <2>1, PartsAgree
  <2>5. QED BY <2>2, <2>3, <2>4 DEF DependenciesAgree
<1>2. Derived => DependenciesAgree
  BY <1>1 DEF DependenciesAgree
<1>3. QED BY <1>2, DerivedHolds, PTL

-----------------------------------------------------------------------------
(* The last of several values.                                             *)

\* Every nonempty set of indices has a greatest element.
LEMMA GreatestIndex ==
  ASSUME NEW n \in Nat, NEW S \in SUBSET (1 .. n), S # {}
  PROVE  \E k \in S : \A m \in S : m <= k
<1> DEFINE T == {n - k : k \in S}
<1>1. T \in SUBSET Nat /\ T # {}
  <2>1. \A k \in S : n - k \in Nat
    OBVIOUS
  <2>2. \A t \in T : t \in Nat
    BY <2>1
  <2>3. T # {}
    OBVIOUS
  <2>4. QED BY <2>2, <2>3
<1>2. PICK t \in T : \A u \in T : t <= u
  <2> HIDE DEF T
  <2>1. QED BY <1>1, LeastNat
<1>3. PICK k \in S : t = n - k
  BY <1>2
<1>4. \A m \in S : n - m \in T
  OBVIOUS
<1>5. \A m \in S : n - k <= n - m
  BY <1>2, <1>3, <1>4
<1>6. \A m \in S : m <= k
  <2> SUFFICES ASSUME NEW m \in S PROVE m <= k
    OBVIOUS
  <2>1. m \in Nat /\ k \in Nat
    OBVIOUS
  <2>2. n - k <= n - m
    BY <1>5
  <2> HIDE DEF T
  <2>3. QED BY <2>1, <2>2
<1>7. QED
  <2> HIDE DEF T
  <2>1. QED BY <1>6

\* Shapes, regions and sliders come in lists.
Listed(p) ==
  /\ \E n \in Nat : DOMAIN p.shapes = 1 .. n
  /\ \E n \in Nat : DOMAIN p.regions = 1 .. n
  /\ \A r \in DOMAIN p.regions : \E n \in Nat : DOMAIN p.regions[r].sliders = 1 .. n

\* Some position of every nonempty set is after all others of it.
LEMMA LastPosition ==
  ASSUME NEW p, Listed(p), NEW S \in SUBSET Positions(p), S # {}
  PROVE  \E a \in S : \A b \in S : NotAfter(b, a)
<1>1. \A at \in S : /\ at[1] \in DOMAIN p.regions /\ at[2] \in DOMAIN p.regions[at[1]].sliders
                    /\ at = <<at[1], at[2]>>
  BY DEF Positions
<1>2. PICK n \in Nat : DOMAIN p.regions = 1 .. n
  BY DEF Listed
<1> DEFINE rows == {at[1] : at \in S}
<1>3. rows \in SUBSET (1 .. n) /\ rows # {}
  BY <1>1, <1>2
<1>4. PICK r \in rows : \A q \in rows : q <= r
  <2> HIDE DEF rows
  <2>1. QED BY <1>2, <1>3, GreatestIndex
<1> DEFINE cols == {at[2] : at \in {x \in S : x[1] = r}}
<1>5. PICK k \in Nat : DOMAIN p.regions[r].sliders = 1 .. k
  BY <1>1, <1>4 DEF Listed
<1>6. cols \in SUBSET (1 .. k) /\ cols # {}
  BY <1>1, <1>4, <1>5
<1>7. PICK c \in cols : \A d \in cols : d <= c
  <2> HIDE DEF cols
  <2>1. QED BY <1>5, <1>6, GreatestIndex
<1>8. PICK a \in S : a[1] = r /\ a[2] = c
  BY <1>7
<1>9. ASSUME NEW b \in S PROVE NotAfter(b, a)
  <2>1. b[1] \in rows /\ b[1] \in 1 .. n /\ r \in 1 .. n /\ b[1] <= r
    BY <1>1, <1>2, <1>3, <1>4
  <2>2. CASE b[1] < r
    BY <1>8, <2>2 DEF NotAfter
  <2>3. CASE b[1] = r
    <3>1. b[2] \in cols
      BY <2>3
    <3>2. b[2] <= c
      BY <1>7, <3>1
    <3>3. QED BY <1>8, <2>3, <3>2 DEF NotAfter
  <2>4. QED BY <2>1, <2>2, <2>3
<1>10. QED BY <1>9

\* Where all values for a thing are equal, the one that is kept is each of them.
LEMMA BoneValueKept ==
  ASSUME NEW p, NEW d, Listed(p), ~Conflicting(p, d), NEW at \in BonePositions(p)
  PROVE  BoneKey(p, at) \in DOMAIN BoneValues(p) /\ BoneValues(p)[BoneKey(p, at)] = Slider(p, at).value
<1> DEFINE S == {b \in BonePositions(p) : BoneKey(p, b) = BoneKey(p, at)}
           c == CHOOSE a \in BonePositions(p) :
                  BoneKey(p, a) = BoneKey(p, at)
                  /\ \A b \in BonePositions(p) : BoneKey(p, b) = BoneKey(p, at) => NotAfter(b, a)
<1>1. S \in SUBSET Positions(p) /\ S # {}
  BY DEF BonePositions
<1>2. PICK a \in S : \A b \in S : NotAfter(b, a)
  <2> HIDE DEF S
  <2>1. QED BY <1>1, LastPosition
<1>3. c \in BonePositions(p) /\ BoneKey(p, c) = BoneKey(p, at)
  BY <1>2
<1> HIDE DEF S, c
<1>4. Slider(p, c).value = Slider(p, at).value
  BY <1>3 DEF Conflicting
<1>5. BoneKey(p, at) \in DOMAIN BoneValues(p) /\ BoneValues(p)[BoneKey(p, at)] = Slider(p, c).value
  BY DEF BoneValues, LastValues, c
<1>6. QED BY <1>4, <1>5

LEMMA GroupValueKept ==
  ASSUME NEW p, NEW d, Listed(p), ~Conflicting(p, d), NEW at \in GroupPositions(p)
  PROVE  GroupKey(p, at) \in DOMAIN GroupValues(p) /\ GroupValues(p)[GroupKey(p, at)] = Slider(p, at).value
<1> DEFINE S == {b \in GroupPositions(p) : GroupKey(p, b) = GroupKey(p, at)}
           c == CHOOSE a \in GroupPositions(p) :
                  GroupKey(p, a) = GroupKey(p, at)
                  /\ \A b \in GroupPositions(p) : GroupKey(p, b) = GroupKey(p, at) => NotAfter(b, a)
<1>1. S \in SUBSET Positions(p) /\ S # {}
  BY DEF GroupPositions
<1>2. PICK a \in S : \A b \in S : NotAfter(b, a)
  <2> HIDE DEF S
  <2>1. QED BY <1>1, LastPosition
<1>3. c \in GroupPositions(p) /\ GroupKey(p, c) = GroupKey(p, at)
  BY <1>2
<1> HIDE DEF S, c
<1>4. Slider(p, c).value = Slider(p, at).value
  BY <1>3 DEF Conflicting
<1>5. GroupKey(p, at) \in DOMAIN GroupValues(p) /\ GroupValues(p)[GroupKey(p, at)] = Slider(p, c).value
  BY DEF GroupValues, LastValues, c
<1>6. QED BY <1>4, <1>5

\* Every slider is where the validation looks, and the first region with a group's
\* ID is the one that gave its value.
LEMMA SlidersClean ==
  ASSUME NEW p, NEW d, Listed(p), ~Conflicting(p, d),
         NEW l, l.bones = BoneValues(p), l.groups = GroupValues(p)
  PROVE  SlidersValid(l, p)
<1>1. \A at \in BonePositions(p) : Agrees(l.bones, BoneKey(p, at), Slider(p, at).value)
  BY BoneValueKept DEF Agrees
<1>2. \A at \in GroupPositions(p) : Agrees(l.groups, GroupKey(p, at), Slider(p, at).value)
  BY GroupValueKept DEF Agrees
<1>3. ASSUME NEW key \in DOMAIN l.groups
      PROVE  \E at \in GroupPositions(p) :
               /\ GroupKey(p, at) = key
               /\ \A r \in 1 .. at[1] - 1 : p.regions[r].region # key[1]
  <2>1. PICK at \in GroupPositions(p) : GroupKey(p, at) = key
    BY <1>3 DEF GroupValues, LastValues
  <2>2. key[1] = p.regions[at[1]].region
    BY <2>1 DEF GroupKey
  <2>3. \A r \in 1 .. at[1] - 1 : p.regions[r].region # p.regions[at[1]].region
    BY DEF Conflicting
  <2>4. QED BY <2>1, <2>2, <2>3
<1>4. QED BY <1>1, <1>2, <1>3 DEF SlidersValid

\* Names of shapes are compared without case, and those that are the same have the
\* same value.
LEMMA ShapesClean ==
  ASSUME NEW p, NEW d, Listed(p), ~Conflicting(p, d)
  PROVE  ShapesValid(ShapeValues(p), p)
<1> DEFINE names == {p.shapes[i].name : i \in DOMAIN p.shapes}
           last(n) == CHOOSE i \in DOMAIN p.shapes :
                        p.shapes[i].name = n /\ \A j \in DOMAIN p.shapes : p.shapes[j].name = n => j <= i
<1>1. ShapeValues(p) = [n \in names |-> p.shapes[last(n)].value]
  BY DEF ShapeValues
<1>2. ASSUME NEW n \in names PROVE last(n) \in DOMAIN p.shapes /\ p.shapes[last(n)].name = n
  <2> DEFINE S == {i \in DOMAIN p.shapes : p.shapes[i].name = n}
  <2>1. PICK k \in Nat : DOMAIN p.shapes = 1 .. k
    BY DEF Listed
  <2>2. S \in SUBSET (1 .. k) /\ S # {}
    BY <2>1
  <2>3. PICK i \in S : \A j \in S : j <= i
    <3> HIDE DEF S
    <3>1. QED BY <2>1, <2>2, GreatestIndex
  <2>4. QED BY <2>3
<1> HIDE DEF last
<1>3. ASSUME NEW i \in DOMAIN p.shapes, NEW n \in names, SameShape(n, p.shapes[i].name)
      PROVE  ShapeValues(p)[n] = p.shapes[i].value
  <2>1. SameShape(p.shapes[last(n)].name, p.shapes[i].name) /\ last(n) \in DOMAIN p.shapes
    BY <1>2, <1>3
  <2>2. p.shapes[last(n)].value = p.shapes[i].value
    BY <2>1 DEF Conflicting
  <2>3. QED BY <1>1, <2>2
<1>4. \A n : SameShape(n, n)
  BY DEF SameShape
<1>5. DOMAIN ShapeValues(p) = names
  BY <1>1
<1>6. ASSUME NEW i \in DOMAIN p.shapes
      PROVE  {n \in DOMAIN ShapeValues(p) : SameShape(n, p.shapes[i].name)} # {}
  <2>1. p.shapes[i].name \in names
    OBVIOUS
  <2>2. QED BY <1>4, <1>5, <2>1
<1>7. \A n \in names : \E i \in DOMAIN p.shapes : SameShape(n, p.shapes[i].name)
  BY <1>4
<1>8. QED BY <1>3, <1>5, <1>6, <1>7 DEF ShapesValid

-----------------------------------------------------------------------------
(* What ApplyMorphs and ApplyVisuals make of a look when no setter is lost. *)

\* Head parts: in every slot the preset's part, and every misc part.
LEMMA PartsClean ==
  ASSUME NEW parts \in Seq(Parts), NEW p, NEW d, ~Conflicting(p, d),
         UniqueParts(d) \cup d.misc \subseteq Parts, NoName \notin d.misc,
         \A type \in UniqueSlots : d.unique[type] # NoName => PartType[d.unique[type]] = type
  PROVE  HeadPartsMatch(ApplyHeadParts(parts, d, {}), d)
<1> DEFINE array == Without(parts, Replaced(parts, d))
           left  == PartsOf(parts) \ Replaced(parts, d)
           new   == (UniqueParts(d) \cup d.misc) \ left
           kept  == {part \in left : \A n \in new : PartType[n] = PartType[part] => PartType[n] = Misc}
           after == ApplyHeadParts(parts, d, {})
<1>1. PartsOf(after) = kept \cup OneOfEachType(new)
  <2>1. array \in Seq(Parts) /\ PartsOf(array) = left
    BY WithoutParts, PartsFinite
  <2>2. after = ChangeHeadParts(array, new)
    BY <2>1 DEF ApplyHeadParts
  <2>3. new \in SUBSET Parts /\ IsFiniteSet(new)
    BY PartsFinite, FS_Subset
  <2>4. left \ Displaced(array, new) = kept
    BY <2>1 DEF Displaced
  <2>5. NoName \notin OneOfEachType(new)
    BY DEF OneOfEachType, UniqueParts
  <2> HIDE DEF array, left, new, kept, after
  <2>6. PartsOf(after) = (PartsOf(array) \ Displaced(array, new)) \cup (OneOfEachType(new) \ {NoName})
    BY <2>1, <2>2, <2>3, ChangedParts
  <2>7. QED BY <2>1, <2>4, <2>5, <2>6
<1>2. \A part \in left : part # NoName /\ (PartType[part] \in UniqueSlots => part = d.unique[PartType[part]])
  BY DEF Replaced, PartsOf
<1>3. \A part \in UniqueParts(d) : PartType[part] \in UniqueSlots /\ part = d.unique[PartType[part]] /\ part # NoName
  BY DEF UniqueParts
<1>4. \A part \in d.misc : PartType[part] \notin UniqueSlots
  BY DEF Conflicting
<1>5. \A a, b \in d.misc : PartType[a] = PartType[b] /\ PartType[a] # Misc => a = b
  BY DEF Conflicting
<1>6. \A part \in new : part \in UniqueParts(d) \/ part \in d.misc
  OBVIOUS
<1>7. \A a, b \in UniqueParts(d) \cup d.misc :
        PartType[a] = PartType[b] /\ PartType[a] # Misc => a = b
  BY <1>3, <1>4, <1>5
<1>8. UniqueParts(d) \cup d.misc \subseteq kept \cup OneOfEachType(new)
  <2> SUFFICES ASSUME NEW part \in UniqueParts(d) \cup d.misc PROVE part \in kept \cup OneOfEachType(new)
    OBVIOUS
  <2>1. CASE part \in left
    <3>1. \A n \in new : n # part /\ n \in UniqueParts(d) \cup d.misc
      BY <2>1
    <3>2. \A n \in new : PartType[n] = PartType[part] => PartType[n] = Misc
      BY <1>7, <3>1
    <3>3. QED BY <2>1, <3>2
  <2>2. CASE part \notin left
    <3>1. part \in new
      BY <2>2
    <3>2. CASE PartType[part] = Misc
      BY <3>1, <3>2 DEF OneOfEachType
    <3>3. CASE PartType[part] # Misc
      <4> DEFINE c == CHOOSE m \in new : PartType[m] = PartType[part]
      <4>1. c \in new /\ PartType[c] = PartType[part]
        BY <3>1
      <4>2. c = part
        BY <1>6, <1>7, <3>1, <3>3, <4>1
      <4>3. QED BY <3>1, <4>2 DEF OneOfEachType
    <3>4. QED BY <3>2, <3>3
  <2>3. QED BY <2>1, <2>2
<1>9. ASSUME NEW part \in kept \cup OneOfEachType(new), PartType[part] \in UniqueSlots
      PROVE  part = d.unique[PartType[part]] /\ part # NoName
  <2>1. part \in left \/ part \in new
    BY DEF OneOfEachType
  <2>2. CASE part \in left
    BY <1>2, <1>9, <2>2
  <2>3. CASE part \in new
    BY <1>3, <1>4, <1>6, <1>9, <2>3
  <2>4. QED BY <2>1, <2>2, <2>3
<1> DEFINE all == kept \cup OneOfEachType(new)
<1>10. all = PartsOf(after) /\ after \in Seq(Parts)
  BY <1>1, PartsFit
<1> HIDE DEF all, kept, left, new, after
<1>11. ASSUME NEW type \in UniqueSlots
       PROVE  FirstOfType(after, type) = {d.unique[type]} \ {NoName}
  <2>1. \A part \in all : PartType[part] = type => part = d.unique[type] /\ part # NoName
    BY <1>9, <1>11 DEF all
  <2>2. d.unique[type] # NoName => d.unique[type] \in all /\ PartType[d.unique[type]] = type
    <3>1. d.unique[type] # NoName => d.unique[type] \in UniqueParts(d)
      BY DEF UniqueParts
    <3>2. QED BY <1>8, <3>1 DEF all
  <2>3. \A part \in FirstOfType(after, type) : part \in all /\ PartType[part] = type
    BY <1>10, FirstFits
  <2>4. d.unique[type] # NoName => FirstOfType(after, type) # {}
    BY <1>10, <2>2, FirstExists
  <2>5. QED BY <2>1, <2>2, <2>3, <2>4
<1>12. d.misc \subseteq PartsOf(after)
  BY <1>8, <1>10 DEF all
<1>13. QED BY <1>11, <1>12 DEF HeadPartsMatch, after

\* Tints: the layer of each category, and as many entries as layers.
LEMMA TintsClean ==
  ASSUME NEW tints, NEW p, NEW d, IsSequence(d.avm), ~Conflicting(p, d)
  PROVE  TintsMatch(ApplyTints(tints, d, {}), d)
<1> DEFINE wanted == TintOf(d)
           all == ApplyTints(tints, d, {})
           last(c) == CHOOSE i \in DOMAIN d.avm :
                        d.avm[i].category = c
                        /\ \A j \in DOMAIN d.avm : d.avm[j].category = c => j <= i
<1>1. OneLayerEach(d)
  BY DEF Conflicting
<1>2. /\ Len(d.avm) \in Nat /\ DOMAIN d.avm = 1 .. Len(d.avm)
  BY DEF IsSequence
<1>3. \A i, j \in DOMAIN d.avm : d.avm[i].category = d.avm[j].category => i = j
  BY <1>1 DEF OneLayerEach, NoRepetition
<1>4. wanted = [c \in Categories(d) |-> d.avm[last(c)]]
  BY DEF TintOf, Categories
<1>5. ASSUME NEW i \in DOMAIN d.avm
      PROVE  d.avm[i].category \in Categories(d) /\ wanted[d.avm[i].category] = d.avm[i]
  <2>1. \A j \in DOMAIN d.avm : d.avm[j].category = d.avm[i].category => j <= i
    BY <1>2, <1>3
  <2>2. last(d.avm[i].category) = i
    BY <1>3, <2>1
  <2>3. d.avm[i].category \in Categories(d)
    BY DEF Categories
  <2> HIDE DEF last, wanted
  <2>4. QED BY <1>4, <2>2, <2>3
<1>6. DOMAIN all = Categories(d)
  <2>1. IsFiniteSet({}) /\ DOMAIN wanted = Categories(d)
    BY <1>4, FS_EmptySet
  <2>2. DOMAIN all = (DOMAIN tints \cap DOMAIN wanted) \cup DOMAIN wanted
    BY DEF ApplyTints, Override, Unless
  <2>3. QED BY <2>1, <2>2
<1>7. \A c \in Categories(d) : all[c] = wanted[c]
  <2>1. DOMAIN wanted = Categories(d)
    BY <1>4
  <2> HIDE DEF wanted
  <2>2. QED BY <1>6, <2>1 DEF ApplyTints, Override, Unless, wanted
<1>8. Cardinality(Categories(d)) = Len(d.avm)
  <2> DEFINE category == [i \in DOMAIN d.avm |-> d.avm[i].category]
  <2>1. NoRepetition(category) /\ DOMAIN category = 1 .. Len(d.avm)
    BY <1>2, <1>3 DEF NoRepetition
  <2>2. {category[i] : i \in DOMAIN category} = Categories(d)
    BY DEF Categories
  <2>3. IsFiniteSet(1 .. Len(d.avm)) /\ Cardinality(1 .. Len(d.avm)) = Len(d.avm)
    BY <1>2, FS_Interval
  <2> HIDE DEF category
  <2>4. Cardinality({category[i] : i \in DOMAIN category}) = Cardinality(DOMAIN category)
    BY <2>1, <2>3, PartsCounted
  <2>5. QED BY <2>1, <2>2, <2>3, <2>4
<1> HIDE DEF all, wanted, last
<1>9. QED BY <1>5, <1>6, <1>7, <1>8 DEF TintsMatch, all

\* The converse of ValidationIsSound: what was applied in full is found to be so.
LEMMA ApplicationIsValid ==
  ASSUME NEW l, DOMAIN l = DOMAIN NoLook, l.parts \in Seq(Parts),
         NEW p, NEW d, Listed(p), IsSequence(d.avm), ~Conflicting(p, d),
         UniqueParts(d) \cup d.misc \subseteq Parts, NoName \notin d.misc,
         \A type \in UniqueSlots : d.unique[type] # NoName => PartType[d.unique[type]] = type
  PROVE  LET applied == ApplyVisuals(ApplyMorphs(l, p, {}), p, d, {})
         IN  ValidateMorphs(applied, p) /\ ValidateVisuals(applied, p, d)
<1> DEFINE morphed == ApplyMorphs(l, p, {})
           applied == ApplyVisuals(morphed, p, d, {})
<1>1. /\ DOMAIN morphed = DOMAIN NoLook
      /\ morphed.weight = p.weight
      /\ p.body # <<>> => morphed.body = p.body
      /\ morphed.shapes = ShapeValues(p)
      /\ morphed.bones = BoneValues(p)
      /\ morphed.groups = GroupValues(p)
      /\ morphed.parts = l.parts /\ morphed.tints = l.tints
  BY DEF ApplyMorphs, Unless, NoLook
<1> HIDE DEF morphed
<1>2. /\ applied.weight = morphed.weight /\ applied.body = morphed.body
      /\ applied.shapes = morphed.shapes /\ applied.bones = morphed.bones
      /\ applied.groups = morphed.groups
      /\ applied.parts = ApplyHeadParts(morphed.parts, d, {})
      /\ applied.tints = ApplyTints(morphed.tints, d, {})
      /\ applied.skinTone = p.skinTone /\ applied.colors = p.colors /\ applied.inherits = FALSE
  BY <1>1 DEF ApplyVisuals, NoLook
<1> HIDE DEF applied
<1>3. ShapesValid(applied.shapes, p)
  BY <1>1, <1>2, ShapesClean
<1>4. SlidersValid(applied, p)
  BY <1>1, <1>2, SlidersClean
<1>5. HeadPartsMatch(applied.parts, d)
  BY <1>1, <1>2, PartsClean
<1>6. TintsMatch(applied.tints, d)
  BY <1>1, <1>2, TintsClean
<1>7. ValidateMorphs(applied, p)
  BY <1>1, <1>2, <1>3, <1>4 DEF ValidateMorphs
<1>8. ValidateVisuals(applied, p, d)
  BY <1>2, <1>5, <1>6 DEF ValidateVisuals
<1>9. QED BY <1>7, <1>8 DEF applied, morphed

-----------------------------------------------------------------------------
(* A preset without contradictions is accepted.                            *)

LEMMA SequenceDomain ==
  ASSUME NEW s, IsSequence(s)
  PROVE  \E n \in Nat : DOMAIN s = 1 .. n
BY DEF IsSequence

\* A parser makes lists of lists.
LEMMA PresetListed ==
  ASSUME NEW d \in Documents, NEW p \in LoadPreset(d)
  PROVE  Listed(p)
<1>1. p.shapes = d.shapes /\ IsSequence(d.shapes)
  BY DocumentAssumption DEF LoadPreset, ParseCkPreset, ParseCharGenJsonPreset
<1>2. \E n \in Nat : DOMAIN p.shapes = 1 .. n
  BY <1>1 DEF IsSequence
<1>3. CASE d.format = "ck"
  <2>1. p.regions = ReadBoneRegions(d.regions) /\ IsSequence(d.regions)
        /\ \A r \in DOMAIN d.regions : IsSequence(d.regions[r].sliders)
    BY <1>3, DocumentAssumption DEF LoadPreset, ParseCkPreset
  <2>2. DOMAIN p.regions = DOMAIN d.regions
        /\ \A r \in DOMAIN d.regions : DOMAIN p.regions[r].sliders = DOMAIN d.regions[r].sliders
    BY <2>1 DEF ReadBoneRegions
  <2>3. \A r \in DOMAIN p.regions : \E n \in Nat : DOMAIN p.regions[r].sliders = 1 .. n
    BY <2>1, <2>2, SequenceDomain
  <2>4. \E n \in Nat : DOMAIN p.regions = 1 .. n
    BY <2>1, <2>2, SequenceDomain
  <2>5. QED BY <1>2, <2>3, <2>4 DEF Listed
<1>4. CASE d.format # "ck"
  <2> DEFINE own == [q \in DOMAIN d.morphs |->
                      [region  |-> d.morphs[q].region,
                       sliders |-> [s \in DOMAIN d.morphs[q].sliders |->
                                     [group |-> d.morphs[q].sliders[s].group, id |-> 0,
                                      value |-> d.morphs[q].sliders[s].value]]]]
             sliders == [s \in DOMAIN d.additional |->
                          [group |-> NoName, id |-> d.additional[s].id,
                           value |-> d.additional[s].value]]
             more == IF d.additional = <<>> THEN <<>> ELSE <<[region |-> 0, sliders |-> sliders]>>
             InLists(list) == \A q \in DOMAIN list : \E n \in Nat : DOMAIN list[q].sliders = 1 .. n
  <2>1. p.regions = own \o more
    <3>1. p.regions = JsonRegions(d)
      BY <1>4 DEF LoadPreset, ParseCharGenJsonPreset
    <3>2. QED BY <3>1 DEF JsonRegions
  <2>2. IsSequence(d.morphs) /\ IsSequence(d.additional)
        /\ \A q \in DOMAIN d.morphs : IsSequence(d.morphs[q].sliders)
    BY <1>4, DocumentAssumption
  <2>3. IsSequence(own) /\ InLists(own)
    <3>1. DOMAIN own = DOMAIN d.morphs
          /\ \A q \in DOMAIN own : DOMAIN own[q].sliders = DOMAIN d.morphs[q].sliders
      OBVIOUS
    <3>2. Len(d.morphs) \in Nat /\ DOMAIN d.morphs = 1 .. Len(d.morphs)
      BY <2>2 DEF IsSequence
    <3>3. own = [q \in 1 .. Len(d.morphs) |-> own[q]]
      BY <3>2
    <3> HIDE DEF own
    <3>4. IsSequence(own)
      BY <3>2, <3>3, ListIsSequence DEF IsSequence
    <3>5. InLists(own)
      BY <2>2, <3>1, SequenceDomain
    <3>6. QED BY <3>4, <3>5
  <2>4. IsSequence(more) /\ InLists(more)
    <3>1. CASE d.additional = <<>>
      BY <3>1 DEF IsSequence
    <3>2. CASE d.additional # <<>>
      <4> DEFINE region == [region |-> 0, sliders |-> sliders]
      <4>1. more = <<region>> /\ DOMAIN region.sliders = DOMAIN d.additional
        BY <3>2
      <4> HIDE DEF region, more
      <4>2. \E n \in Nat : DOMAIN region.sliders = 1 .. n
        BY <2>2, <4>1, SequenceDomain
      <4>3. QED BY <4>1, <4>2 DEF IsSequence
    <3>3. QED BY <3>1, <3>2
  <2> HIDE DEF own, more
  <2>5. /\ Len(own) \in Nat /\ Len(more) \in Nat
        /\ DOMAIN (own \o more) = 1 .. Len(own) + Len(more)
        /\ \A i \in 1 .. Len(own) + Len(more) :
             (own \o more)[i] = IF i <= Len(own) THEN own[i] ELSE more[i - Len(own)]
    BY <2>3, <2>4, Joined
  <2>6. DOMAIN own = 1 .. Len(own) /\ DOMAIN more = 1 .. Len(more)
    BY <2>3, <2>4 DEF IsSequence
  <2>7. ASSUME NEW r \in DOMAIN p.regions
        PROVE  \E n \in Nat : DOMAIN p.regions[r].sliders = 1 .. n
    <3>1. CASE r <= Len(own)
      <4>1. r \in DOMAIN own /\ p.regions[r] = own[r]
        BY <2>1, <2>5, <2>6, <3>1
      <4>2. QED BY <2>3, <4>1
    <3>2. CASE ~(r <= Len(own))
      <4>1. r - Len(own) \in DOMAIN more /\ p.regions[r] = more[r - Len(own)]
        BY <2>1, <2>5, <2>6, <3>2
      <4>2. QED BY <2>4, <4>1
    <3>3. QED BY <3>1, <3>2
  <2>8. \E n \in Nat : DOMAIN p.regions = 1 .. n
    BY <2>1, <2>5
  <2>9. QED BY <1>2, <2>7, <2>8 DEF Listed
<1>5. QED BY <1>3, <1>4

\* Only ApplyPreset leads to the validation.
LEMMA CleanStep ==
  ASSUME Phases, Sane, Counted, Derived, CleanPresetAccepted, [Next]_vars
  PROVE  CleanPresetAccepted'
<1>1. CASE ApplyPreset
  <2>1. pc = "apply" /\ UNCHANGED <<preset, deps>>
    BY <1>1 DEF ApplyPreset, assigned
  <2>2. CASE pc' = "done"
    BY <2>2 DEF CleanPresetAccepted
  <2>3. CASE \E l \in Losses :
               lost' = l /\ look' = ApplyVisuals(ApplyMorphs(look, preset, l), preset, deps, l)
    <3> SUFFICES ASSUME lost' = {}, ~Conflicting(preset, deps)
        PROVE  ValidateMorphs(look', preset) /\ ValidateVisuals(look', preset, deps)
      BY <2>1 DEF CleanPresetAccepted, Conflicting, ValidateVisuals
    <3>1. look' = ApplyVisuals(ApplyMorphs(look, preset, {}), preset, deps, {})
      BY <2>3
    <3>2. Listed(preset)
      BY <2>1, PresetListed DEF Derived
    <3>3. /\ \A type \in UniqueSlots : deps.unique[type] # NoName => PartType[deps.unique[type]] = type
          /\ NoName \notin deps.misc
      <4>1. /\ document \in Documents /\ preset \in LoadPreset(document)
            /\ deps \in ResolveAppearanceDependencies(preset, npc.configured, npc.sex)
        BY <2>1 DEF Derived
      <4>2. /\ \A type \in UniqueSlots :
                 deps.unique[type] # NoName =>
                   PartType[deps.unique[type]] = type /\ deps.race \in PartRaces[deps.unique[type]]
            /\ \A part \in deps.misc : part # NoName /\ deps.race \in PartRaces[part]
        BY <4>1, PartsAgree
      <4>3. QED BY <4>2
    <3>4. /\ DOMAIN look = DOMAIN NoLook /\ look.parts \in Seq(Parts) /\ IsSequence(deps.avm)
          /\ UniqueParts(deps) \cup deps.misc \subseteq Parts
      BY <2>1 DEF Sane, Resolved, Counted, Places
    <3>5. QED BY <3>1, <3>2, <3>3, <3>4, ApplicationIsValid
  <2>4. QED BY <1>1, <2>2, <2>3 DEF ApplyPreset, Reject
<1>2. CASE Task /\ ~ApplyPreset
  <2>1. pc' # "validate"
    BY <1>2 DEF Task, ScanAssignment, Prepare, Skip, CreateRenderSource, NoAllocation,
                RefuseConstructed, Construct, Disable, CopyBaseline, ValidateCarrier, CaptureRoots,
                VisitHeadPart, KeepStructure, CreateOutput, PublishRenderSource, RefusePublication,
                FindExisting, Adopt, StartComposite, RefuseSubmission, Activate, PollComposite,
                PollCompositeActivation, Kill, Reject
  <2>2. QED BY <2>1 DEF CleanPresetAccepted
<1>3. CASE Environment \/ UNCHANGED vars
  <2>1. UNCHANGED <<preset, deps, look, lost, pc>>
    BY <1>3, EnvironmentKeeps DEF task, assigned, vars, source
  <2>2. QED BY <2>1 DEF CleanPresetAccepted
<1>4. QED BY <1>1, <1>2, <1>3 DEF Next

\* A preset that does not contradict itself is never rejected by the validation
\* when the engine's setters work, whatever the NPC looked like: the applicator
\* leaves nothing of the NPC where the validation looks, and the validation does
\* not look for what the applicator cannot do (NPCPresetApplicator.cpp).
THEOREM CleanPresetAcceptedHolds == Spec => []CleanPresetAccepted
<1>1. Init => Unshared /\ Sane /\ Counted /\ CleanPresetAccepted
  <2>1. ASSUME Init PROVE IsFiniteSet(DOMAIN look.tints)
    BY <2>1, FS_EmptySet DEF Init, NoLook, Empty
  <2>2. Init => Counted
    BY <2>1 DEF Init, Counted
  <2>3. Init => Unshared /\ Sane /\ CleanPresetAccepted
    BY DEF Init, Unshared, Sane, NoLook, CleanPresetAccepted
  <2>4. QED BY <2>2, <2>3
<1>2. QED BY <1>1, PhasesHold, UnsharedStep, SaneHolds, CountedStep, DerivedHolds, CleanStep,
             PTL DEF Spec
=============================================================================
