--------------------------- MODULE OverlayRuntime ---------------------------
(***************************************************************************)
(* The coordinator of OSF Identity (src/Runtime/OverlayRuntime.cpp) with   *)
(* the parts it drives: the process-wide kill switch, the base -> render   *)
(* source binding of the registry, the native main-thread task queue and   *)
(* the face-texture composite.                                             *)
(*                                                                         *)
(* Every thread that enters the plugin is a process with a program         *)
(* counter.  One step is one critical section of m_stateMutex, or one      *)
(* access to state that is shared without it (the registry slot, the kill  *)
(* flag, the engine queue).  A value the code reads before taking the lock *)
(* is a field of the thread's record, so it can be stale when it is used.  *)
(* KillRuntime, always the last thing a failing path does, belongs to the  *)
(* step that decides it.                                                   *)
(***************************************************************************)
EXTENDS Naturals, FiniteSets

CONSTANTS
  Bases,        \* runtime FormIDs of TESNPC bases
  Refs,         \* references (actors)
  Threads,      \* engine threads that can enter the plugin
  Drainer,      \* the thread that owns the native queue's drain lock
  Pumper,       \* the thread SFSE runs the permanent task on
  Configured,   \* the bases the packs assign a preset to
  Generated,    \* the ownerless FF... bases (TESNPC::IsCreated)
  BaseOf,       \* the base of each reference
  Extras,       \* per base, the configured bases its references' leveled extra data may name
  Tinted,       \* the bases whose render source has AVM layers to composite
  Faults,       \* the failures the environment may produce in this instance
  None          \* FormID 0, the null pointer

FaultKinds == {"early", "drop", "lookup", "prepare", "publish", "structure", "submit",
               "finalize", "expire", "refresh", "canonical", "throw"}

ASSUME ThreadsAssumption == Drainer \in Threads /\ Pumper \in Threads
ASSUME BasesAssumption ==
  /\ None \notin Bases /\ None \notin Refs
  /\ Configured \subseteq Bases
  /\ Generated \subseteq Bases
  /\ Tinted \subseteq Bases
  /\ BaseOf \in [Refs -> Bases]
  /\ Extras \in [Bases -> SUBSET (Bases \cup {None})]
  /\ \A b \in Bases : Extras[b] # {}
ASSUME FaultsAssumption == Faults \subseteq FaultKinds

VARIABLES
  killed,       \* "no", or why the first KillRuntime of the process was called
  armed,        \* progress of Arm: "unarmed", "pumping", "armed"
  bases,        \* m_bases
  owner,        \* m_preparationOwnerBaseID
  flag,         \* m_hasDispatchableBases
  slot,         \* the registry's binding of each base
  queued,       \* tasks in the engine's queue, counted per kind and base
  queueEnabled, \* whether the engine's queue accepts tasks
  built,        \* what each reference's 3D shows
  extra,        \* the configured base that leveled extra data names for each base
  th            \* the threads inside the plugin

runtimeVars == <<bases, owner, flag>>
engineVars  == <<queueEnabled, built, extra>>
vars == <<killed, armed, bases, owner, flag, slot, queued, queueEnabled, built, extra, th>>

-----------------------------------------------------------------------------
(* Kinds of native task, and the status of a base whose task is parked     *)
(* (waiting for the pump) or posted (handed to the native queue).          *)

Kinds == {"prepare", "poll", "activate", "vanilla"}

Parked == [prepare  |-> "Pending",            poll    |-> "CompositePending",
           activate |-> "CompositeFinalized", vanilla |-> "VanillaRefreshPending"]
Posted == [prepare  |-> "Queued",
           poll     |-> "CompositeQueued",
           activate |-> "CompositeActivationQueued",
           vanilla  |-> "VanillaRefreshQueued"]

\* "absent" stands for a base that has no entry in m_bases.
BaseStatus == {"absent", "Dormant", "Pending", "Queued", "CompositePending",
               "CompositeQueued", "CompositeFinalized", "CompositeActivationQueued",
               "VanillaRefreshPending", "VanillaRefreshQueued", "Ready", "Disabled"}

BaseState == [status     : BaseStatus,
              assignment : Bases \cup {None},  \* the configured base of the shared assignment
              configured : Bases \cup {None},
              waiting    : SUBSET Refs,
              composite  : {"none", "submitted", "finalized"},
              expired    : BOOLEAN,            \* 30 seconds since compositionStarted
              structure  : BOOLEAN,            \* renderSourceStructure is set
              barrier    : BOOLEAN]            \* publicationBarrierArmed

NoEntry == [status |-> "absent", assignment |-> None, configured |-> None,
            waiting |-> {}, composite |-> "none", expired |-> FALSE,
            structure |-> FALSE, barrier |-> FALSE]

\* A state record as Arm and the leveled inheritance construct it.
Dormant(c) == [NoEntry EXCEPT !.status = "Dormant", !.assignment = c, !.configured = c]

\* A composing or publishing base: the statuses that need preparation ownership.
InFlight == {"Queued", "CompositePending", "CompositeQueued",
             "CompositeFinalized", "CompositeActivationQueued"}

Labels == {"idle", "arm", "set3d", "set3d_lock", "deactivate", "pump", "dispatch", "post",
           "requeue", "run", "disable", "disable_kill", "build", "structure",
           "submit", "submitted", "polled", "validate", "complete",
           "refresh", "release", "vanilla"}

ThreadState == [pc    : Labels,
                base  : Bases \cup {None},
                ref   : Refs \cup {None},
                owned : BOOLEAN,              \* ownedSource # nullptr, read before the lock
                extra : Bases \cup {None},    \* configuredBaseID, read before the lock
                kind  : Kinds,
                todo  : SUBSET Refs,          \* waitingRefs taken from the base
                drain : BOOLEAN]              \* InsideDrain() of this thread

Idle == [pc |-> "idle", base |-> None, ref |-> None, owned |-> FALSE, extra |-> None,
         kind |-> "prepare", todo |-> {}, drain |-> FALSE]

At(t, label)     == th[t].pc = label
Goto(t, label)   == th' = [th EXCEPT ![t].pc = label]
Enter(t, record) == th' = [th EXCEPT ![t] = record]
Return(t)        == Enter(t, Idle)
Dispatch(t, b, k) ==
  Enter(t, [Idle EXCEPT !.pc = "dispatch", !.base = b, !.kind = k, !.drain = th[t].drain])

\* Only the drain owner can find itself inside a drain.
MayBeInDrain(t) == IF t = Drainer THEN BOOLEAN ELSE {FALSE}

-----------------------------------------------------------------------------
(* RuntimeSafety and the registry, as the coordinator uses them.           *)

\* What KillRuntime is called for.
KillReasons ==
  {"unowned source", "identity changed in flight", "ready without binding", "deactivate",
   "invalid owner", "composite dispatched without ownership", "requeued without ownership",
   "prepared without ownership", "staged structure", "published twice", "structure",
   "publication failed", "disablement", "submission rejected", "submission state",
   "target lost", "poll state", "composite timeout", "finalization", "finalization state",
   "publication poll state", "barrier timeout", "structure changed", "completion",
   "canonical changed", "threw after publication", "release", "vanilla state"}

IsRuntimeOperational == killed = "no"

KillRuntime(why) == killed' = IF killed = "no" THEN why ELSE killed

FindOwnedRenderSource(b) == IsRuntimeOperational /\ slot[b] # "empty"

\* mutant: the hooks do not look at the kill switch
ResolveRenderSource_Unsafe(b) == IF slot[b] = "active" THEN "custom" ELSE "vanilla"

\* What a 3D build of a reference of b reads through the hooks now.
ResolveRenderSource(b) ==
  IF IsRuntimeOperational /\ slot[b] = "active" THEN "custom" ELSE "vanilla"

-----------------------------------------------------------------------------
(* The lock-protected part of the state.                                   *)

PendingWork(bs, own) ==
  \/ own # None /\ bs[own].status \in {"Pending", "CompositePending", "CompositeFinalized"}
  \/ own = None /\ \E b \in Bases : bs[b].status \in {"Pending", "VanillaRefreshPending"}

\* A critical section that ends with UpdatePendingWorkFlagLocked.
UpdatePendingWorkFlagLocked(bs, own) ==
  /\ bases' = bs
  /\ owner' = own
  /\ flag'  = PendingWork(bs, own)

SetStatus(b, s) == [bases EXCEPT ![b].status = s]

\* The test every critical section of a task makes of its base.
OwnsAs(b, s) == owner = b /\ bases[b].status = s /\ bases[b].assignment # None

-----------------------------------------------------------------------------
(* Startup: RunStartupScan registers the event sink, then calls Arm.       *)

Init ==
  /\ killed = "no"
  /\ armed = "unarmed"
  /\ bases = [b \in Bases |-> NoEntry]
  /\ owner = None
  /\ flag = FALSE
  /\ slot = [b \in Bases |-> "empty"]
  /\ queued = [k \in Kinds |-> [b \in Bases |-> 0]]
  /\ queueEnabled \in BOOLEAN
  /\ built = [r \in Refs |-> "unloaded"]
  /\ extra \in [Bases -> Bases \cup {None}]
  /\ \A b \in Bases : extra[b] \in Extras[b]
  /\ th = [t \in Threads |-> Idle]

\* The permanent task exists before the assignments do.
StartPreparationPump(t) ==
  /\ armed = "unarmed"
  /\ At(t, "idle")
  /\ Configured # {}
  /\ IsRuntimeOperational
  /\ armed' = "pumping"
  /\ Goto(t, "arm")
  /\ UNCHANGED <<killed, runtimeVars, slot, queued, engineVars>>

Arm(t) ==
  /\ At(t, "arm")
  /\ armed' = "armed"
  /\ bases' = [b \in Bases |-> IF b \in Configured THEN Dormant(b) ELSE NoEntry]
  /\ Return(t)
  /\ UNCHANGED <<killed, owner, flag, slot, queued, engineVars>>

IsArmed == armed = "armed" /\ IsRuntimeOperational

-----------------------------------------------------------------------------
(* The engine.                                                             *)

\* Thread t builds the 3D of a reference, reading the redirected base, and
\* will deliver the ReferenceSet3d event for it.  The startup scan runs when
\* the game data has loaded, so only an "early" reference has 3D before its end.
BuildReference(t, r) ==
  /\ armed = "armed" \/ (armed = "pumping" /\ "early" \in Faults)
  /\ At(t, "idle")
  /\ built[r] = "unloaded"
  /\ built' = [built EXCEPT ![r] = ResolveRenderSource(BaseOf[r])]
  /\ \E d \in MayBeInDrain(t) :
       Enter(t, [Idle EXCEPT !.pc = "set3d", !.base = BaseOf[r], !.ref = r, !.drain = d])
  /\ UNCHANGED <<killed, armed, runtimeVars, slot, queued, queueEnabled, extra>>

UnloadReference(r) ==
  /\ built[r] # "unloaded"
  /\ built' = [built EXCEPT ![r] = "unloaded"]
  /\ UNCHANGED <<killed, armed, runtimeVars, slot, queued, queueEnabled, extra, th>>

\* Another save gives the FormID of a generated base to a different actor.
\* No event of the base is being handled while a save is loaded.
ReuseFormID(b) ==
  /\ \A t \in Threads : th[t].ref # None => BaseOf[th[t].ref] # b
  /\ \A r \in Refs : BaseOf[r] = b => built[r] = "unloaded"
  /\ \E c \in Extras[b] \ {extra[b]} : extra' = [extra EXCEPT ![b] = c]
  /\ UNCHANGED <<killed, armed, runtimeVars, slot, queued, queueEnabled, built, th>>

\* The engine opens and closes its queue around loading.
ToggleQueue ==
  /\ queueEnabled' = ~queueEnabled
  /\ UNCHANGED <<killed, armed, runtimeVars, slot, queued, built, extra, th>>

\* 30 seconds pass since the composite was submitted.
Expire(b) ==
  /\ "expire" \in Faults
  /\ bases[b].composite # "none" /\ ~bases[b].expired
  /\ bases' = [bases EXCEPT ![b].expired = TRUE]
  /\ UNCHANGED <<killed, armed, owner, flag, slot, queued, engineVars, th>>

-----------------------------------------------------------------------------
(* OnReferenceSet3d: read the binding, take the lock, act on the decision. *)

\* The reads before the lock.
OnReferenceSet3d(t) ==
  /\ At(t, "set3d")
  /\ IF IsArmed
     THEN Enter(t, [th[t] EXCEPT !.pc = "set3d_lock",
                                 !.owned = FindOwnedRenderSource(th[t].base),
                                 !.extra = extra[th[t].base]])
     ELSE Return(t)
  /\ UNCHANGED <<killed, armed, runtimeVars, slot, queued, engineVars>>

\* The entry the event finds: its own, or one inherited from the configured
\* base of a leveled actor.
FindOrInherit(b, configured) ==
  IF bases[b].status = "absent" /\ configured \in Configured /\ configured # b
  THEN Dormant(configured)
  ELSE bases[b]

\* observedConfiguredBaseID
Observed(b, configured) == IF b \in Generated THEN configured ELSE b

\* state.configuredBaseID differs from what the reference shows
Misidentified(t, entry) == entry.configured # Observed(th[t].base, th[t].extra)

KeepEntry(t, entry) ==
  /\ bases' = [bases EXCEPT ![th[t].base] = entry]
  /\ Return(t)
  /\ UNCHANGED <<owner, flag>>

\* Nothing to do: an untracked or disabled base, or a ready one whose 3D was
\* built from its source.
IgnoreReference(t, entry) ==
  /\ \/ entry.status = "absent" /\ ~th[t].owned
     \/ entry.status = "Disabled"
     \/ entry.status = "Ready" /\ th[t].owned /\ ~Misidentified(t, entry)
  /\ KeepEntry(t, entry)
  /\ UNCHANGED killed

\* A published source without an entry, an identity that changes before
\* publication, or a ready base for which no binding was read.
RejectReference(t, entry) ==
  /\ \/ /\ entry.status = "absent" /\ th[t].owned
        /\ KillRuntime("unowned source")
     \/ /\ Misidentified(t, entry)
        /\ entry.status \notin {"absent", "Disabled", "VanillaRefreshPending",
                                "VanillaRefreshQueued"}
        /\ entry.status = "Ready" => ~th[t].owned
        /\ KillRuntime("identity changed in flight")
     \/ /\ entry.status = "Ready" /\ ~th[t].owned /\ ~Misidentified(t, entry)
        /\ KillRuntime("ready without binding")
  /\ KeepEntry(t, entry)

\* A ready base whose FormID now belongs to somebody else.
StartVanillaFallback(t, entry) ==
  /\ Misidentified(t, entry) /\ entry.status = "Ready" /\ th[t].owned
  /\ bases' = [bases EXCEPT ![th[t].base] =
       [entry EXCEPT !.status = "VanillaRefreshPending", !.waiting = {th[t].ref},
                     !.assignment = None]]
  /\ flag' = TRUE
  /\ Goto(t, "deactivate")
  /\ UNCHANGED <<killed, owner>>

\* mutant: only the reference that starts the base is remembered
JoinWaiters_FirstOnly(t, entry) ==
  LET starts == entry.status = "Dormant"
  IN  /\ entry.status \notin {"absent", "Disabled", "Ready"}
      /\ Misidentified(t, entry) =>
           entry.status \in {"VanillaRefreshPending", "VanillaRefreshQueued"}
      /\ bases' = [bases EXCEPT ![th[t].base] =
           IF starts THEN [entry EXCEPT !.waiting = {th[t].ref}, !.status = "Pending"]
                     ELSE entry]
      /\ flag' = (flag \/ starts)
      /\ IF starts THEN Dispatch(t, th[t].base, "prepare") ELSE Return(t)
      /\ UNCHANGED <<killed, owner>>

\* The reference waits for the vanilla fallback, whoever it belongs to, or
\* for the publication; the first reference of a dormant base starts it.
JoinWaiters(t, entry) ==
  LET starts == entry.status = "Dormant"
  IN  /\ entry.status \notin {"absent", "Disabled", "Ready"}
      /\ Misidentified(t, entry) =>
           entry.status \in {"VanillaRefreshPending", "VanillaRefreshQueued"}
      /\ bases' = [bases EXCEPT ![th[t].base] =
           [entry EXCEPT !.waiting = @ \cup {th[t].ref},
                         !.status = IF starts THEN "Pending" ELSE entry.status]]
      /\ flag' = (flag \/ starts)
      /\ IF starts THEN Dispatch(t, th[t].base, "prepare") ELSE Return(t)
      /\ UNCHANGED <<killed, owner>>

\* The decision under the lock.
ObserveReference(t) ==
  LET entry == FindOrInherit(th[t].base, th[t].extra)
  IN  /\ At(t, "set3d_lock")
      /\ \/ IgnoreReference(t, entry)
         \/ RejectReference(t, entry)
         \/ StartVanillaFallback(t, entry)
         \/ JoinWaiters(t, entry)
      /\ UNCHANGED <<armed, slot, queued, engineVars>>

\* mutant: the stale binding is left to the refresh
DeactivateRenderSource_Skipped(t) ==
  /\ At(t, "deactivate")
  /\ Dispatch(t, th[t].base, "vanilla")
  /\ UNCHANGED <<killed, armed, runtimeVars, slot, queued, engineVars>>

\* After the unlock: DeactivateRenderSource, a compare-and-swap of the slot.
DeactivateRenderSource(t) ==
  /\ At(t, "deactivate")
  /\ IF slot[th[t].base] = "active"
     THEN /\ slot' = [slot EXCEPT ![th[t].base] = "inactive"]
          /\ Dispatch(t, th[t].base, "vanilla")
          /\ UNCHANGED killed
     ELSE KillRuntime("deactivate") /\ Return(t) /\ UNCHANGED slot
  /\ UNCHANGED <<armed, runtimeVars, queued, engineVars>>

-----------------------------------------------------------------------------
(* The permanent task: it picks what to dispatch next.                     *)

\* The lock-free guard: the flag, the kill switch, the queue's availability.
PumpPendingBases ==
  /\ armed # "unarmed"
  /\ At(Pumper, "idle")
  /\ flag /\ IsArmed
  /\ \E d \in MayBeInDrain(Pumper) :
       /\ d \/ queueEnabled
       /\ Enter(Pumper, [Idle EXCEPT !.pc = "pump", !.drain = d])
  /\ UNCHANGED <<killed, armed, runtimeVars, slot, queued, engineVars>>

\* The task the owner waits for, if it is parked.
OwnerTasks == {k \in {"prepare", "poll", "activate"} : bases[owner].status = Parked[k]}

\* What may be dispatched: the owner's next task or, when nobody owns the
\* preparation, a vanilla refresh before any pending base.
Dispatchable ==
  LET parked(k) == {b \in Bases : bases[b].status = Parked[k]}
  IN  IF owner # None                  THEN {owner} \X OwnerTasks
      ELSE IF parked("vanilla") # {}   THEN parked("vanilla") \X {"vanilla"}
      ELSE parked("prepare") \X {"prepare"}

OwnerIsConsistent ==
  owner # None => bases[owner].status \in InFlight \cup {"Pending"}

\* The selection under the lock.
SelectBase(t) ==
  /\ At(t, "pump")
  /\ IF Dispatchable # {}
     THEN /\ \E c \in Dispatchable : Dispatch(t, c[1], c[2])
          /\ UNCHANGED <<killed, runtimeVars>>
     ELSE /\ UpdatePendingWorkFlagLocked(bases, owner)
          /\ Return(t)
          /\ IF OwnerIsConsistent THEN UNCHANGED killed ELSE KillRuntime("invalid owner")
  /\ UNCHANGED <<armed, slot, queued, engineVars>>

-----------------------------------------------------------------------------
(* Dispatch: move a parked base to posted and hand its task to the queue.  *)

\* A dispatch that finds the base already taken by somebody else.
DispatchLost(t) ==
  Return(t) /\ UNCHANGED <<killed, runtimeVars>>

\* Nobody may prepare while another base owns the preparation.
DispatchBlocked(t) ==
  UpdatePendingWorkFlagLocked(bases, owner) /\ Return(t) /\ UNCHANGED killed

\* mutant: the base is not marked as posted
PostPosted_Unmarked(t, own) ==
  /\ UpdatePendingWorkFlagLocked(bases, own)
  /\ Goto(t, "post")
  /\ UNCHANGED killed

PostPosted(t, own) ==
  /\ UpdatePendingWorkFlagLocked(SetStatus(th[t].base, Posted[th[t].kind]), own)
  /\ Goto(t, "post")
  /\ UNCHANGED killed

\* mutant: another owner is not noticed
TryDispatchPendingBase_Greedy(t) ==
  LET b == th[t].base
  IN  /\ At(t, "dispatch") /\ th[t].kind = "prepare"
      /\ IF bases[b].status # "Pending" \/ bases[b].assignment = None THEN DispatchLost(t)
         ELSE PostPosted(t, b)
      /\ UNCHANGED <<armed, slot, queued, engineVars>>

TryDispatchPendingBase(t) ==
  LET b == th[t].base
  IN  /\ At(t, "dispatch") /\ th[t].kind = "prepare"
      /\ IF bases[b].status # "Pending" \/ bases[b].assignment = None THEN DispatchLost(t)
         ELSE IF owner \notin {None, b} THEN DispatchBlocked(t)
         ELSE PostPosted(t, b)
      /\ UNCHANGED <<armed, slot, queued, engineVars>>

DispatchComposite(t) ==
  LET b == th[t].base
  IN  /\ At(t, "dispatch")
      /\ IF \/ bases[b].status # Parked[th[t].kind]
            \/ bases[b].assignment = None \/ bases[b].composite = "none"
         THEN DispatchLost(t)
         ELSE IF owner # b
         THEN /\ UpdatePendingWorkFlagLocked(bases, owner)
              /\ KillRuntime("composite dispatched without ownership")
              /\ Return(t)
         ELSE PostPosted(t, owner)
      /\ UNCHANGED <<armed, slot, queued, engineVars>>

TryDispatchCompositePoll(t)       == th[t].kind = "poll" /\ DispatchComposite(t)
TryDispatchCompositeActivation(t) == th[t].kind = "activate" /\ DispatchComposite(t)

TryDispatchVanillaRefresh(t) ==
  LET b == th[t].base
  IN  /\ At(t, "dispatch") /\ th[t].kind = "vanilla"
      /\ IF bases[b].status # "VanillaRefreshPending" THEN DispatchLost(t)
         ELSE IF owner # None THEN DispatchBlocked(t)
         ELSE PostPosted(t, None)
      /\ UNCHANGED <<armed, slot, queued, engineVars>>

-----------------------------------------------------------------------------
(* The native queue: Post, and the engine's drain of the queue.            *)

\* mutant: a refused task is forgotten
Post_Forgetful(t) ==
  LET b == th[t].base
      k == th[t].kind
  IN  /\ At(t, "post")
      /\ IF th[t].drain
         THEN Goto(t, "run") /\ UNCHANGED queued
         ELSE Return(t) /\ queued' = IF queueEnabled THEN [queued EXCEPT ![k][b] = @ + 1] ELSE queued
      /\ UNCHANGED <<killed, armed, runtimeVars, slot, engineVars>>

\* Inside the drain the task runs at once; otherwise the engine's queue
\* takes it, or refuses it and the caller parks the base again.
Post(t) ==
  LET b == th[t].base
      k == th[t].kind
  IN  /\ At(t, "post")
      /\ IF th[t].drain
         THEN Goto(t, "run") /\ UNCHANGED queued
         ELSE IF queueEnabled
         THEN Return(t) /\ queued' = [queued EXCEPT ![k][b] = @ + 1]
         ELSE Goto(t, "requeue") /\ UNCHANGED queued
      /\ UNCHANGED <<killed, armed, runtimeVars, slot, engineVars>>

\* mutant: the engine runs a task it has already run
RunTask_Twice(k, b) ==
  /\ bases[b].status = Posted[k]
  /\ At(Drainer, "idle")
  /\ queued' = [queued EXCEPT ![k][b] = @ - 1]
  /\ Enter(Drainer, [Idle EXCEPT !.pc = "run", !.base = b, !.kind = k, !.drain = TRUE])
  /\ UNCHANGED <<killed, armed, runtimeVars, slot, engineVars>>

\* GuardedTask::Run on the thread that owns the drain.
RunTask(k, b) ==
  /\ queued[k][b] > 0
  /\ At(Drainer, "idle")
  /\ queued' = [queued EXCEPT ![k][b] = @ - 1]
  /\ Enter(Drainer, [Idle EXCEPT !.pc = "run", !.base = b, !.kind = k, !.drain = TRUE])
  /\ UNCHANGED <<killed, armed, runtimeVars, slot, engineVars>>

\* GuardedTask::Run on any other thread: the payload is not run.
DropTask(t, k, b) ==
  /\ "drop" \in Faults
  /\ t # Drainer
  /\ queued[k][b] > 0
  /\ At(t, "idle")
  /\ queued' = [queued EXCEPT ![k][b] = @ - 1]
  /\ Enter(t, [Idle EXCEPT !.pc = "requeue", !.base = b, !.kind = k])
  /\ UNCHANGED <<killed, armed, runtimeVars, slot, engineVars>>

\* The base of a refused, dropped or unfinished task becomes parked again.
\* Only the vanilla refresh needs no ownership.
Requeue(t) ==
  LET b == th[t].base
      k == th[t].kind
      mine == k = "vanilla" \/ owner = b
  IN  /\ At(t, "requeue")
      /\ IF bases[b].status = Posted[k] /\ mine
         THEN UpdatePendingWorkFlagLocked(SetStatus(b, Parked[k]), owner)
         ELSE UpdatePendingWorkFlagLocked(bases, owner)
      /\ IF bases[b].status = Posted[k] /\ ~mine
         THEN KillRuntime("requeued without ownership") ELSE UNCHANGED killed
      /\ Return(t)
      /\ UNCHANGED <<armed, slot, queued, engineVars>>

RequeueBase(t)                == th[t].kind = "prepare" /\ Requeue(t)
RequeueComposite(t)           == th[t].kind = "poll" /\ Requeue(t)
RequeueCompositeActivation(t) == th[t].kind = "activate" /\ Requeue(t)
RequeueVanillaRefresh(t)      == th[t].kind = "vanilla" /\ Requeue(t)

-----------------------------------------------------------------------------
(* PreparePendingBase, a task on the drain thread.                         *)

Fault(f) == f \in Faults

\* A base with AVM layers goes through the compositor first.
AfterStaging(b) == IF b \in Tinted THEN "submit" ELSE "validate"

\* ValidateRenderSourceForActivation
StructureHolds(b) == bases[b].structure

\* Ownership is checked, the target looked up, and its binding read; a source
\* that is already staged is only validated again.
BeginPreparation(t) ==
  LET b == th[t].base
  IN  /\ At(t, "run") /\ th[t].kind = "prepare"
      /\ IF ~IsRuntimeOperational THEN Goto(t, "disable") /\ UNCHANGED killed
         ELSE IF ~OwnsAs(b, "Queued")
         THEN KillRuntime("prepared without ownership") /\ Return(t)
         ELSE \/ Fault("lookup") /\ Goto(t, "disable") /\ UNCHANGED killed
              \/ IF ~FindOwnedRenderSource(b) THEN Goto(t, "build") /\ UNCHANGED killed
                 ELSE IF StructureHolds(b) THEN Goto(t, AfterStaging(b)) /\ UNCHANGED killed
                 ELSE KillRuntime("staged structure") /\ Return(t)
      /\ UNCHANGED <<armed, runtimeVars, slot, queued, engineVars>>

\* The carrier is built and validated, then staged in the registry.  Before
\* publication every failure, an exception included, only disables the base.
BuildRenderSource(t) ==
  LET b == th[t].base
  IN  /\ At(t, "build")
      /\ \/ /\ Fault("prepare") \/ ~IsRuntimeOperational
            /\ Goto(t, "disable") /\ UNCHANGED <<killed, slot>>
         \/ /\ Fault("publish")
            /\ Goto(t, "disable_kill") /\ UNCHANGED <<killed, slot>>
         \/ IF slot[b] = "empty"
            THEN /\ slot' = [slot EXCEPT ![b] = "staged"]
                 /\ Goto(t, "structure") /\ UNCHANGED killed
            ELSE KillRuntime("published twice") /\ Return(t) /\ UNCHANGED slot
      /\ UNCHANGED <<armed, runtimeVars, queued, engineVars>>

StoreStructure(t) ==
  LET b == th[t].base
  IN  /\ At(t, "structure")
      /\ IF OwnsAs(b, "Queued") /\ ~bases[b].structure
         THEN /\ bases' = [bases EXCEPT ![b].structure = TRUE]
              /\ Goto(t, AfterStaging(b)) /\ UNCHANGED killed
         ELSE KillRuntime("structure") /\ Return(t) /\ UNCHANGED bases
      /\ UNCHANGED <<armed, owner, flag, slot, queued, engineVars>>

\* StartFaceTextureComposite submits the staged source to the engine.
SubmitComposite(t) ==
  /\ At(t, "submit")
  /\ \/ IsRuntimeOperational /\ Goto(t, "submitted") /\ UNCHANGED killed
     \/ /\ IsRuntimeOperational => Fault("submit")
        /\ KillRuntime("submission rejected") /\ Return(t)
  /\ UNCHANGED <<armed, runtimeVars, slot, queued, engineVars>>

RecordComposite(t) ==
  LET b == th[t].base
  IN  /\ At(t, "submitted")
      /\ IF OwnsAs(b, "Queued") /\ bases[b].composite = "none"
         THEN /\ UpdatePendingWorkFlagLocked(
                   [bases EXCEPT ![b].composite = "submitted",
                                 ![b].status = "CompositePending"], owner)
              /\ UNCHANGED killed
         ELSE /\ UpdatePendingWorkFlagLocked(bases, owner)
              /\ KillRuntime("submission state")
      /\ Return(t)
      /\ UNCHANGED <<armed, slot, queued, engineVars>>

\* DisableBaseBeforePublication; a failed publication also stops the process.
DisableBaseBeforePublication(t) ==
  LET b == th[t].base
      legal == owner = b /\ bases[b].status \notin {"absent", "Ready"}
  IN  /\ At(t, "disable") \/ At(t, "disable_kill")
      /\ IF legal
         THEN UpdatePendingWorkFlagLocked(
                [bases EXCEPT ![b].status = "Disabled", ![b].waiting = {},
                              ![b].assignment = None], None)
         ELSE UpdatePendingWorkFlagLocked(bases, owner)
      /\ IF legal /\ At(t, "disable") THEN UNCHANGED killed
         ELSE KillRuntime(IF legal THEN "publication failed" ELSE "disablement")
      /\ Return(t)
      /\ UNCHANGED <<armed, slot, queued, engineVars>>

-----------------------------------------------------------------------------
(* PollPendingComposite and PollCompositeActivation.                       *)

\* A poll looks its target and the staged source up again.
LostSource(b) == ~FindOwnedRenderSource(b)

LookupFails(t) ==
  Fault("lookup") /\ KillRuntime("target lost") /\ Return(t) /\ UNCHANGED runtimeVars

PollPendingComposite(t) ==
  LET b == th[t].base
  IN  /\ At(t, "run") /\ th[t].kind = "poll"
      /\ IF LostSource(b) \/ ~OwnsAs(b, "CompositeQueued")
         THEN KillRuntime("poll state") /\ Return(t) /\ UNCHANGED bases
         ELSE IF bases[b].expired
         THEN KillRuntime("composite timeout") /\ Return(t) /\ UNCHANGED bases
         ELSE \/ Goto(t, "requeue") /\ UNCHANGED <<killed, bases>>  \* not ready
              \/ /\ bases' = [bases EXCEPT ![b].composite = "finalized"]
                 /\ Goto(t, "polled") /\ UNCHANGED killed
              \/ /\ Fault("finalize")
                 /\ KillRuntime("finalization") /\ Return(t) /\ UNCHANGED bases
              \/ LookupFails(t)
      /\ UNCHANGED <<armed, owner, flag, slot, queued, engineVars>>

RecordFinalization(t) ==
  LET b == th[t].base
  IN  /\ At(t, "polled")
      /\ IF OwnsAs(b, "CompositeQueued")
         THEN /\ UpdatePendingWorkFlagLocked(SetStatus(b, "CompositeFinalized"), owner)
              /\ UNCHANGED killed
         ELSE UpdatePendingWorkFlagLocked(bases, owner) /\ KillRuntime("finalization state")
      /\ Return(t)
      /\ UNCHANGED <<armed, slot, queued, engineVars>>

\* The first poll only arms the barrier; a later drain finds it clear.
ArmBarrier(t) ==
  LET b == th[t].base
  IN  /\ UpdatePendingWorkFlagLocked(
           [bases EXCEPT ![b].barrier = TRUE, ![b].status = "CompositeFinalized"], owner)
      /\ IF bases[b].expired THEN KillRuntime("barrier timeout") ELSE UNCHANGED killed
      /\ Return(t)

\* mutant: a busy publication is not polled again
AwaitPublicationIdle_Once(t) ==
  /\ UpdatePendingWorkFlagLocked(bases, owner)
  /\ IF bases[th[t].base].expired
     THEN KillRuntime("barrier timeout") /\ Return(t)
     ELSE (Return(t) \/ Goto(t, "validate")) /\ UNCHANGED killed

\* The publication-busy byte is clear, or the poll is repeated.
AwaitPublicationIdle(t) ==
  /\ UpdatePendingWorkFlagLocked(bases, owner)
  /\ IF bases[th[t].base].expired
     THEN KillRuntime("barrier timeout") /\ Return(t)
     ELSE /\ \/ Goto(t, "requeue")
             \/ IsRuntimeOperational /\ Goto(t, "validate")
          /\ UNCHANGED killed

\* mutant: activation does not wait for the next drain
PollCompositeActivation_NoBarrier(t) ==
  LET b == th[t].base
  IN  /\ At(t, "run") /\ th[t].kind = "activate"
      /\ IF LostSource(b) \/ ~OwnsAs(b, "CompositeActivationQueued")
         THEN KillRuntime("publication poll state") /\ Return(t) /\ UNCHANGED runtimeVars
         ELSE AwaitPublicationIdle(t)
      /\ UNCHANGED <<armed, slot, queued, engineVars>>

PollCompositeActivation(t) ==
  LET b == th[t].base
  IN  /\ At(t, "run") /\ th[t].kind = "activate"
      /\ IF LostSource(b) \/ ~OwnsAs(b, "CompositeActivationQueued")
         THEN KillRuntime("publication poll state") /\ Return(t) /\ UNCHANGED runtimeVars
         ELSE \/ LookupFails(t)
              \/ bases[b].barrier /\ AwaitPublicationIdle(t)
              \/ ~bases[b].barrier /\ ArmBarrier(t)
      /\ UNCHANGED <<armed, slot, queued, engineVars>>

-----------------------------------------------------------------------------
(* Activation, completion and the catch-up refreshes.                      *)

\* ActivateRenderSource is a plain store of the slot.
ActivateRenderSource(t) ==
  LET b == th[t].base
  IN  /\ At(t, "validate")
      /\ \/ /\ StructureHolds(b) /\ slot[b] # "empty"
            /\ slot' = [slot EXCEPT ![b] = "active"]
            /\ Goto(t, "complete") /\ UNCHANGED killed
         \/ /\ ~StructureHolds(b) \/ slot[b] = "empty" \/ Fault("structure")
            /\ KillRuntime("structure changed") /\ Return(t) /\ UNCHANGED slot
      /\ UNCHANGED <<armed, runtimeVars, queued, engineVars>>

ExpectedStatus(b) ==
  IF bases[b].composite # "none" THEN "CompositeActivationQueued" ELSE "Queued"

\* mutant: the waiters are cleared before they are taken
CompletePublication_Cleared(t) ==
  LET b == th[t].base
  IN  /\ At(t, "complete")
      /\ UpdatePendingWorkFlagLocked(
           [bases EXCEPT ![b].status = "Ready", ![b].waiting = {}, ![b].assignment = None], owner)
      /\ Goto(t, "refresh")
      /\ UNCHANGED <<killed, armed, slot, queued, engineVars>>

CompletePublication(t) ==
  LET b == th[t].base
      legal == /\ OwnsAs(b, ExpectedStatus(b))
               /\ bases[b].configured = bases[b].assignment
               /\ FindOwnedRenderSource(b)
  IN  /\ At(t, "complete")
      /\ IF legal
         THEN /\ UpdatePendingWorkFlagLocked(
                   [bases EXCEPT ![b].status = "Ready", ![b].waiting = {},
                                 ![b].assignment = None], owner)
              /\ Enter(t, [th[t] EXCEPT !.pc = "refresh", !.todo = bases[b].waiting])
              /\ UNCHANGED killed
         ELSE /\ UpdatePendingWorkFlagLocked(bases, owner)
              /\ KillRuntime("completion") /\ Return(t)
      /\ UNCHANGED <<armed, slot, queued, engineVars>>

\* RefreshAppearance rebuilds a reference that still has 3D.
Rebuild(r) == built' = [built EXCEPT ![r] = ResolveRenderSource(BaseOf[r])]

Refreshed(t, r) == Enter(t, [th[t] EXCEPT !.todo = @ \ {r}])

\* RefreshWaitingReference for one of the taken waiters.  An exception is
\* caught by the preparation's lambda, and by GuardedTask for the others.
RefreshWaitingReference(t, r) ==
  /\ At(t, "refresh") /\ IsRuntimeOperational
  /\ r \in th[t].todo
  /\ \/ built[r] # "unloaded" /\ Rebuild(r) /\ Refreshed(t, r) /\ UNCHANGED killed
     \/ /\ built[r] = "unloaded" \/ Fault("refresh")
        /\ Refreshed(t, r) /\ UNCHANGED <<built, killed>>
     \/ /\ built[r] # "unloaded" /\ Fault("canonical")
        /\ KillRuntime("canonical changed") /\ Refreshed(t, r) /\ UNCHANGED built
     \/ /\ built[r] # "unloaded" /\ Fault("throw")
        /\ IF th[t].kind = "prepare" THEN KillRuntime("threw after publication")
                                     ELSE UNCHANGED killed
        /\ Return(t) /\ UNCHANGED built
  /\ UNCHANGED <<armed, runtimeVars, slot, queued, queueEnabled, extra>>

\* The waiters are served, or the runtime was killed and the loop stops.
EndRefresh(t) ==
  /\ At(t, "refresh")
  /\ IF IsRuntimeOperational THEN th[t].todo = {} /\ Goto(t, "release") ELSE Return(t)
  /\ UNCHANGED <<killed, armed, runtimeVars, slot, queued, engineVars>>

\* mutant: the flag is not recomputed when the ownership is released
ReleasePreparationOwner_Silent(t) ==
  LET b == th[t].base
      legal == owner = b /\ bases[b].status = "Ready"
  IN  /\ At(t, "release")
      /\ owner' = (IF legal THEN None ELSE owner)
      /\ IF legal THEN UNCHANGED killed ELSE KillRuntime("release")
      /\ Return(t)
      /\ UNCHANGED <<armed, bases, flag, slot, queued, engineVars>>

ReleasePreparationOwner(t) ==
  LET b == th[t].base
      legal == owner = b /\ bases[b].status = "Ready"
  IN  /\ At(t, "release")
      /\ UpdatePendingWorkFlagLocked(bases, IF legal THEN None ELSE owner)
      /\ IF legal THEN UNCHANGED killed ELSE KillRuntime("release")
      /\ Return(t)
      /\ UNCHANGED <<armed, slot, queued, engineVars>>

-----------------------------------------------------------------------------
(* RefreshVanillaAfterIdentityMismatch                                     *)

BeginVanillaRefresh(t) ==
  LET b == th[t].base
  IN  /\ At(t, "run") /\ th[t].kind = "vanilla"
      /\ IF bases[b].status = "VanillaRefreshQueued"
         THEN /\ UpdatePendingWorkFlagLocked(
                   [bases EXCEPT ![b].status = "Disabled", ![b].waiting = {}], owner)
              /\ Enter(t, [th[t] EXCEPT !.pc = "vanilla", !.todo = bases[b].waiting])
              /\ UNCHANGED killed
         ELSE KillRuntime("vanilla state") /\ Return(t) /\ UNCHANGED runtimeVars
      /\ UNCHANGED <<armed, slot, queued, engineVars>>

RefreshVanillaReference(t, r) ==
  /\ At(t, "vanilla")
  /\ r \in th[t].todo
  /\ \/ built[r] # "unloaded" /\ Rebuild(r) /\ Refreshed(t, r) /\ UNCHANGED killed
     \/ /\ built[r] = "unloaded" \/ Fault("refresh") \/ Fault("lookup")
        /\ Refreshed(t, r) /\ UNCHANGED <<built, killed>>
     \/ /\ built[r] # "unloaded" /\ Fault("canonical")
        /\ KillRuntime("canonical changed") /\ Return(t) /\ UNCHANGED built
     \/ built[r] # "unloaded" /\ Fault("throw") /\ Return(t) /\ UNCHANGED <<built, killed>>
  /\ UNCHANGED <<armed, runtimeVars, slot, queued, queueEnabled, extra>>

EndVanillaRefresh(t) ==
  /\ At(t, "vanilla") /\ th[t].todo = {}
  /\ Return(t)
  /\ UNCHANGED <<killed, armed, runtimeVars, slot, queued, engineVars>>

-----------------------------------------------------------------------------

Event(t) == OnReferenceSet3d(t) \/ ObserveReference(t) \/ DeactivateRenderSource(t)

DispatchStep(t) ==
  \/ TryDispatchPendingBase(t) \/ TryDispatchCompositePoll(t)
  \/ TryDispatchCompositeActivation(t) \/ TryDispatchVanillaRefresh(t)
  \/ Post(t)
  \/ RequeueBase(t) \/ RequeueComposite(t)
  \/ RequeueCompositeActivation(t) \/ RequeueVanillaRefresh(t)

Preparation(t) ==
  \/ BeginPreparation(t) \/ BuildRenderSource(t) \/ StoreStructure(t)
  \/ SubmitComposite(t) \/ RecordComposite(t) \/ DisableBaseBeforePublication(t)

Composition(t) ==
  \/ PollPendingComposite(t) \/ RecordFinalization(t) \/ PollCompositeActivation(t)

Publication(t) ==
  \/ ActivateRenderSource(t) \/ CompletePublication(t)
  \/ \E r \in Refs : RefreshWaitingReference(t, r)
  \/ EndRefresh(t) \/ ReleasePreparationOwner(t)

VanillaFallback(t) ==
  \/ BeginVanillaRefresh(t)
  \/ \E r \in Refs : RefreshVanillaReference(t, r)
  \/ EndVanillaRefresh(t)

\* A step of a thread that is inside the plugin.
ThreadStep(t) ==
  \/ Event(t) \/ SelectBase(t) \/ DispatchStep(t) \/ Preparation(t)
  \/ Composition(t) \/ Publication(t) \/ VanillaFallback(t)

Startup == StartPreparationPump(Drainer) \/ Arm(Drainer)

Engine ==
  \/ \E t \in Threads, r \in Refs : BuildReference(t, r)
  \/ \E r \in Refs : UnloadReference(r)
  \/ \E b \in Bases : ReuseFormID(b)
  \/ \E b \in Bases : Expire(b)
  \/ ToggleQueue

Drain ==
  \/ \E k \in Kinds, b \in Bases : RunTask(k, b)
  \/ \E t \in Threads, k \in Kinds, b \in Bases : DropTask(t, k, b)

Next ==
  \/ Startup \/ Engine \/ Drain \/ PumpPendingBases
  \/ \E t \in Threads : ThreadStep(t)

Spec == Init /\ [][Next]_vars

-----------------------------------------------------------------------------
(* Properties.                                                             *)

\* Where a thread works on no base, and where it handles an event.
Baseless == {"idle", "arm", "pump"}
Handling == {"set3d", "set3d_lock", "deactivate"}

ThreadsTyped ==
  /\ th \in [Threads -> ThreadState]
  /\ \A t \in Threads : /\ th[t].pc \notin Baseless => th[t].base \in Bases
                        /\ th[t].pc \in Handling => th[t].ref \in Refs

\* Every variable stays in its domain; a thread that handles a task or an
\* event has a base, and a thread that handles an event has a reference.
TypeOK ==
  /\ killed \in {"no"} \cup KillReasons
  /\ armed \in {"unarmed", "pumping", "armed"}
  /\ bases \in [Bases -> BaseState]
  /\ owner \in Bases \cup {None}
  /\ flag \in BOOLEAN
  /\ slot \in [Bases -> {"empty", "staged", "active", "inactive"}]
  /\ queued \in [Kinds -> [Bases -> Nat]]
  /\ queueEnabled \in BOOLEAN
  /\ built \in [Refs -> {"unloaded", "vanilla", "custom"}]
  /\ extra \in [Bases -> Bases \cup {None}]
  /\ ThreadsTyped

\* One base at a time is being prepared, composed or published: whatever
\* tasks, drops and events interleave, a base that is in flight owns the
\* preparation, so two bases are never in the engine's compositor together.
SingleFlight == \A b \in Bases : bases[b].status \in InFlight => owner = b

\* A thread carries the task (k, b) from its dispatch to its end.
CarrierLabels ==
  [prepare  |-> {"post", "requeue", "run", "build", "structure", "submit", "submitted",
                 "disable", "disable_kill", "validate", "complete"},
   poll     |-> {"post", "requeue", "run", "polled"},
   activate |-> {"post", "requeue", "run", "validate", "complete"},
   vanilla  |-> {"post", "requeue", "run"}]

Carriers(k, b) ==
  queued[k][b] + Cardinality({t \in Threads : /\ th[t].base = b /\ th[t].kind = k
                                              /\ th[t].pc \in CarrierLabels[k]})

\* A posted base has exactly one task on its way, in the engine's queue or in
\* a thread, and a task on its way belongs to a posted base: no task is run
\* twice after a refused post or a drop, and none is lost.
ExactlyOneTask ==
  \A k \in Kinds, b \in Bases :
    /\ Carriers(k, b) <= 1
    /\ Carriers(k, b) = 1 => bases[b].status = Posted[k]
    /\ IsRuntimeOperational /\ bases[b].status = Posted[k] => Carriers(k, b) = 1

\* The pump's lock-free guard never hides work: whenever a base could be
\* dispatched, m_hasDispatchableBases is set.
NoLostWakeup == PendingWork(bases, owner) => flag

\* A ready base is bound and its preset complete: the hooks serve it, and they
\* serve a render source only when its structure was captured and, for a source
\* with AVM layers, its composite was finalized and a separate drain armed the
\* publication barrier.
ReadyIsComposed ==
  \A b \in Bases :
    /\ bases[b].status = "Ready" => slot[b] = "active"
    /\ slot[b] \in {"active", "inactive"} =>
         /\ bases[b].structure
         /\ b \in Tinted => bases[b].composite = "finalized" /\ bases[b].barrier

\* A waiter leaves its base's waiting set only to be refreshed by a thread,
\* or because the base was disabled before publication.
WaitersAreServed ==
  [][\A b \in Bases : \A r \in bases[b].waiting \ bases'[b].waiting :
       \/ \E t \in Threads : th'[t].base = b /\ r \in th'[t].todo
       \/ bases'[b].status = "Disabled" /\ slot[b] = "empty"]_vars

\* A thread that rebuilds the references of a reused FormID works on a
\* binding that is no longer served.
FallbackReadsVanilla ==
  IsRuntimeOperational =>
    \A t \in Threads : th[t].pc = "vanilla" => slot[th[t].base] # "active"

\* Nobody is between the 3D build of r and the end of its catch-up.
Quiet(r) == \A t \in Threads : th[t].ref # r /\ r \notin th[t].todo

\* Once a base is ready and its catch-up is over, every loaded reference of
\* it shows the preset, those included that were built before activation.
CaughtUp ==
  \A r \in Refs :
    LET b == BaseOf[r]
    IN  /\ IsRuntimeOperational /\ bases[b].status = "Ready"
        /\ built[r] # "unloaded" /\ Quiet(r)
        => built[r] = "custom"

\* Without a failure of the engine the process is disabled only for a reused
\* FormID whose base was still in flight, or for a composite that timed out.
DocumentedKills ==
  {"no", "identity changed in flight", "composite timeout", "barrier timeout"}
OnlyDocumentedKills == killed \in DocumentedKills

\* The checks of the coordinator's own transitions that test what nobody but the
\* task at hand can change.
SoundChecks ==
  {"unowned source", "composite dispatched without ownership", "requeued without ownership",
   "prepared without ownership", "staged structure", "published twice", "submission state",
   "poll state", "finalization state", "publication poll state", "completion", "vanilla state",
   "deactivate", "structure", "disablement"}

\* A thread serves the waiters of b and has not given up the preparation yet.
InCatchUp(b) == \E t \in Threads : th[t].base = b /\ th[t].pc \in {"refresh", "release"}

\* The owner is done with its publication, its FormID reused meanwhile or not.
OwnerPublished == owner # None /\ bases[owner].status \in {"Ready", "VanillaRefreshPending"}

\* The first kill of the process, for the reason why.
FirstKill(why) == killed = "no" /\ killed' = why

\* A check stops the process only when another thread has overtaken its own.
TripsOvertaken ==
  /\ \A why \in SoundChecks : ~FirstKill(why)
  /\ FirstKill("ready without binding") =>
       \E t \in Threads : /\ At(t, "set3d_lock") /\ ~th[t].owned
                         /\ bases[th[t].base].status = "Ready"
                         /\ slot[th[t].base] = "active"
  /\ FirstKill("release") =>
       /\ OwnerPublished /\ bases[owner].status # "Ready"
       /\ \E t \in Threads : At(t, "release") /\ th[t].base = owner
  /\ FirstKill("invalid owner") =>
       OwnerPublished /\ (InCatchUp(owner) \/ "throw" \in Faults)

\* A check of the coordinator's own transitions stops the process only when another
\* thread has overtaken the one that makes it, in one of three ways: an event
\* on a ready base read the binding before it was served; a thread that ends a
\* catch-up finds its FormID reused meanwhile; the pump, which the flag sends to look
\* for work, meets an owner in its catch-up, or left in it by an exception.
\* Every other check holds, whatever fails, is dropped or comes on another thread.
ChecksTripOnlyOvertaken == [][TripsOvertaken]_vars

\* The coordinator implements the lifecycle of render sources it promises.
PhaseOf == [empty |-> "none", staged |-> "staged", active |-> "served", inactive |-> "withdrawn"]
Lifecycle == INSTANCE RenderSourceLifecycle
  WITH enabled <- IsRuntimeOperational, phase <- [b \in Bases |-> PhaseOf[slot[b]]]
ImplementsLifecycle == Lifecycle!Spec

\* The stage of a base, as its slot, its composite and its status say.
Submitted(b) ==
  bases[b].composite # "none" \/ \E t \in Threads : At(t, "submitted") /\ th[t].base = b

StageOf(b) ==
  CASE slot[b] = "empty"    -> IF bases[b].status = "Disabled" THEN "vanilla" ELSE "nothing"
    [] slot[b] = "active"   -> "served"
    [] slot[b] = "inactive" -> "withdrawn"
    [] OTHER ->
         IF bases[b].barrier THEN "armed"
         ELSE IF bases[b].composite = "finalized" THEN "finalized"
         ELSE IF Submitted(b) THEN "composing" ELSE "staged"

Progress(b) == INSTANCE RenderSourceStages
  WITH operational <- IsRuntimeOperational, tinted <- slot[b] # "empty" /\ b \in Tinted,
       stage <- StageOf(b)

\* The coordinator takes each base through the same stages as the preparation
\* does, whatever tasks are dropped, repeated or overtaken by events on the way:
\* for every base, RenderSourceStages is implemented.
ImplementsStages ==
  /\ \A b \in Bases : Progress(b)!Init
  /\ [][\A b \in Bases : Progress(b)!Next \/ UNCHANGED Progress(b)!vars]_vars

-----------------------------------------------------------------------------
(* Liveness.                                                               *)

\* A thread inside the plugin goes on, time passes, and the main loop runs
\* the permanent task and the queue's tasks again and again.
Fairness ==
  /\ \A t \in Threads : WF_vars(ThreadStep(t))
  /\ WF_vars(\E b \in Bases : Expire(b))
  /\ SF_vars(PumpPendingBases)
  /\ SF_vars(\E k \in Kinds, b \in Bases : RunTask(k, b))

FairSpec == Spec /\ Fairness

\* Neither parked nor in flight.
Settled(b) == bases[b].status \in {"Ready", "Disabled"} /\ owner # b

\* Once the engine keeps its queue open, every base that was started settles:
\* it becomes ready and releases the preparation to the next base, or it is
\* disabled, or the process is.
StartedBasesSettle ==
  <>[]queueEnabled =>
    \A b \in Bases :
      bases[b].status \notin {"absent", "Dormant"} ~> (Settled(b) \/ ~IsRuntimeOperational)

=============================================================================
