------------------------ MODULE OverlayRuntimeProofs ------------------------
(***************************************************************************)
(* Proofs about OverlayRuntime for every value of its constants: type      *)
(* correctness, then two safety invariants that are inductive on top of    *)
(* it.  A lemma per group of actions shows that the group preserves an     *)
(* invariant; the theorem splits Next into the groups.                     *)
(***************************************************************************)
EXTENDS OverlayRuntime, TLAPS

\* A thread that is given a well-formed record stays well typed.
LEMMA EnterTyped ==
  ASSUME ThreadsTyped, NEW t \in Threads, NEW r \in ThreadState,
         r.pc \in Baseless \/ r.base \in Bases,
         r.pc \in Handling => r.ref \in Refs, Enter(t, r)
  PROVE  ThreadsTyped'
BY DEF ThreadsTyped, Enter

\* A thread that leaves the plugin is idle, and typed.
LEMMA ReturnTyped ==
  ASSUME ThreadsTyped, NEW t \in Threads, Return(t)
  PROVE  ThreadsTyped'
<1>1. Idle \in ThreadState
  BY DEF Idle, ThreadState, Labels, Kinds
<1> QED BY <1>1, EnterTyped DEF Return, Baseless, Handling, Idle

\* A thread that only moves on keeps its base and its reference.
LEMMA GotoTyped ==
  ASSUME ThreadsTyped, NEW t \in Threads, NEW l \in Labels, th[t].base \in Bases,
         l \in Handling => th[t].ref \in Refs, Goto(t, l)
  PROVE  ThreadsTyped'
<1>1. [th[t] EXCEPT !.pc = l] \in ThreadState
  BY DEF ThreadsTyped, ThreadState
<1>2. th' = [th EXCEPT ![t] = [th[t] EXCEPT !.pc = l]]
  BY DEF Goto
<1> QED BY <1>1, <1>2, EnterTyped DEF Enter, ThreadsTyped, ThreadState

\* A dispatch turns a thread to a task of a base.
LEMMA DispatchTyped ==
  ASSUME ThreadsTyped, NEW t \in Threads, NEW b \in Bases, NEW k \in Kinds, Dispatch(t, b, k)
  PROVE  ThreadsTyped'
<1> DEFINE r == [Idle EXCEPT !.pc = "dispatch", !.base = b, !.kind = k, !.drain = th[t].drain]
<1>1. r \in ThreadState /\ r.base \in Bases /\ r.pc \notin Handling
  BY DEF Handling, Idle, ThreadState, Labels, Kinds, ThreadsTyped
<1> HIDE DEF r
<1>2. Enter(t, r) BY DEF Dispatch, r
<1> QED BY <1>1, <1>2, EnterTyped

\* KillRuntime records one of the reasons it is called for.
LEMMA KillTyped ==
  ASSUME killed \in {"no"} \cup KillReasons, NEW why \in KillReasons, KillRuntime(why)
  PROVE  killed' \in {"no"} \cup KillReasons
BY DEF KillRuntime

\* A critical section that recomputes m_hasDispatchableBases is typed when
\* what it writes to m_bases and to the owner is.
LEMMA FlagTyped ==
  ASSUME NEW bs \in [Bases -> BaseState], NEW own \in Bases \cup {None},
         UpdatePendingWorkFlagLocked(bs, own)
  PROVE  /\ bases' \in [Bases -> BaseState]
         /\ owner' \in Bases \cup {None}
         /\ flag' \in BOOLEAN
<1>1. PendingWork(bs, own) \in BOOLEAN
  BY DEF PendingWork
<1> QED BY <1>1 DEF UpdatePendingWorkFlagLocked

\* Writing a status keeps m_bases typed.
LEMMA SetStatusTyped ==
  ASSUME bases \in [Bases -> BaseState], NEW b \in Bases, NEW s \in BaseStatus
  PROVE  SetStatus(b, s) \in [Bases -> BaseState]
BY DEF SetStatus, BaseState

\* The field updates that the tasks make of a BaseState.
LEMMA BaseStateUpdate ==
  ASSUME NEW s \in BaseState
  PROVE  /\ [s EXCEPT !.expired = TRUE] \in BaseState
         /\ [s EXCEPT !.structure = TRUE] \in BaseState
         /\ [s EXCEPT !.composite = "finalized"] \in BaseState
         /\ [s EXCEPT !.composite = "submitted", !.status = "CompositePending"] \in BaseState
         /\ [s EXCEPT !.barrier = TRUE, !.status = "CompositeFinalized"] \in BaseState
         /\ [s EXCEPT !.status = "Ready", !.waiting = {}, !.assignment = None] \in BaseState
         /\ [s EXCEPT !.status = "Disabled", !.waiting = {}, !.assignment = None] \in BaseState
         /\ [s EXCEPT !.status = "Disabled", !.waiting = {}] \in BaseState
         /\ \A r \in Refs :
              [s EXCEPT !.status = "VanillaRefreshPending", !.waiting = {r},
                        !.assignment = None] \in BaseState
         /\ \A r \in Refs, x \in BaseStatus :
              [s EXCEPT !.waiting = @ \cup {r}, !.status = x] \in BaseState
BY DEF BaseState, BaseStatus

\* Replacing one entry of m_bases keeps it typed.
LEMMA EntryTyped ==
  ASSUME TypeOK, NEW b \in Bases, NEW c \in Bases \cup {None}
  PROVE  FindOrInherit(b, c) \in BaseState
BY BasesAssumption DEF FindOrInherit, Dormant, NoEntry, BaseState, BaseStatus, TypeOK

\* Parked and Posted are statuses of m_bases.
LEMMA StatusesTyped ==
  ASSUME NEW k \in Kinds
  PROVE  Parked[k] \in BaseStatus /\ Posted[k] \in BaseStatus
BY DEF Kinds, Parked, Posted, BaseStatus

\* A process starts well typed.
LEMMA InitTyped == Init => TypeOK
<1> SUFFICES ASSUME Init PROVE TypeOK
  OBVIOUS
<1>1. NoEntry \in BaseState
  BY DEF NoEntry, BaseState, BaseStatus
<1>2. Idle \in ThreadState
  BY DEF Idle, ThreadState, Labels, Kinds
<1>3. ThreadsTyped
  BY <1>2 DEF Init, ThreadsTyped, Baseless, Handling, Idle
<1>4. bases \in [Bases -> BaseState]
  BY <1>1 DEF Init
<1>5. queued \in [Kinds -> [Bases -> Nat]]
  BY DEF Init
<1>6. extra \in [Bases -> Bases \cup {None}]
  BY DEF Init
<1>7. slot \in [Bases -> {"empty", "staged", "active", "inactive"}]
  BY DEF Init
<1>8. built \in [Refs -> {"unloaded", "vanilla", "custom"}]
  BY DEF Init
<1>9. killed \in {"no"} \cup KillReasons
  BY DEF Init
<1>11. armed \in {"unarmed", "pumping", "armed"}
  BY DEF Init
<1>10. owner \in Bases \cup {None} /\ flag \in BOOLEAN /\ queueEnabled \in BOOLEAN
  BY DEF Init
<1> QED BY <1>3, <1>4, <1>5, <1>6, <1>7, <1>8, <1>9, <1>10, <1>11 DEF TypeOK

\* The startup scan, Arm included.
LEMMA StartupTyped == ASSUME TypeOK, Startup PROVE TypeOK'
<1> USE DEF TypeOK, runtimeVars, engineVars
<1>0. Drainer \in Threads
  BY ThreadsAssumption
<1>1. CASE StartPreparationPump(Drainer)
  <2>1. ThreadsTyped'
    <3>1. [th[Drainer] EXCEPT !.pc = "arm"] \in ThreadState
      <4>1. "arm" \in Labels
        BY DEF Labels
      <4> QED BY <1>0, <4>1 DEF ThreadsTyped, ThreadState
    <3> QED BY <1>0, <1>1, <3>1, EnterTyped DEF StartPreparationPump, Goto, Enter, ThreadsTyped, ThreadState, Baseless, Handling
  <2> QED BY <1>1, <2>1 DEF StartPreparationPump
<1>2. CASE Arm(Drainer)
  <2>1. ThreadsTyped'
    BY <1>0, <1>2, ReturnTyped DEF Arm
  <2>2. bases' \in [Bases -> BaseState]
    BY <1>2, BasesAssumption DEF Arm, Dormant, NoEntry, BaseState, BaseStatus
  <2> QED BY <1>2, <2>1, <2>2 DEF Arm
<1> QED BY <1>1, <1>2 DEF Startup

\* What the engine does by itself: builds, unloads, reuse, time, its queue.
LEMMA EngineTyped == ASSUME TypeOK, Engine PROVE TypeOK'
<1> USE BasesAssumption DEF TypeOK, runtimeVars, engineVars
<1>1. ASSUME NEW t \in Threads, NEW r \in Refs, BuildReference(t, r) PROVE TypeOK'
  <2>1. PICK d \in BOOLEAN : Enter(t, [Idle EXCEPT !.pc = "set3d", !.base = BaseOf[r], !.ref = r, !.drain = d])
    BY <1>1 DEF BuildReference, MayBeInDrain
  <2>2. [Idle EXCEPT !.pc = "set3d", !.base = BaseOf[r], !.ref = r, !.drain = d] \in ThreadState
    BY DEF Idle, ThreadState, Labels, Kinds
  <2>3. ThreadsTyped'
    BY <2>1, <2>2, EnterTyped DEF Idle
  <2>4. built' \in [Refs -> {"unloaded", "vanilla", "custom"}]
    BY <1>1 DEF BuildReference, ResolveRenderSource
  <2> QED BY <1>1, <2>3, <2>4 DEF BuildReference
<1>2. ASSUME NEW r \in Refs, UnloadReference(r) PROVE TypeOK'
  BY <1>2 DEF UnloadReference, ThreadsTyped
<1>3. ASSUME NEW b \in Bases, ReuseFormID(b) PROVE TypeOK'
  BY <1>3 DEF ReuseFormID, ThreadsTyped
<1>4. ASSUME NEW b \in Bases, Expire(b) PROVE TypeOK'
  <2>1. bases' \in [Bases -> BaseState]
    <3>1. [bases[b] EXCEPT !.expired = TRUE] \in BaseState
      BY BaseStateUpdate
    <3>2. bases' = [bases EXCEPT ![b] = [bases[b] EXCEPT !.expired = TRUE]]
      BY <1>4 DEF Expire
    <3> QED BY <3>1, <3>2
  <2> QED BY <1>4, <2>1 DEF Expire, ThreadsTyped
<1>5. CASE ToggleQueue
  BY <1>5 DEF ToggleQueue, ThreadsTyped
<1> QED BY <1>1, <1>2, <1>3, <1>4, <1>5 DEF Engine

\* The drain, and the drops outside of it.
LEMMA DrainTyped == ASSUME TypeOK, Drain PROVE TypeOK'
<1> USE DEF TypeOK, runtimeVars, engineVars
<1>1. ASSUME NEW k \in Kinds, NEW b \in Bases, RunTask(k, b) PROVE TypeOK'
  <2>1. queued' \in [Kinds -> [Bases -> Nat]]
    BY <1>1 DEF RunTask
  <2>2. [Idle EXCEPT !.pc = "run", !.base = b, !.kind = k, !.drain = TRUE] \in ThreadState
    BY DEF Idle, ThreadState, Labels, Kinds
  <2>3. ThreadsTyped'
    BY <1>1, <2>2, EnterTyped, ThreadsAssumption DEF RunTask, Idle, Handling
  <2> QED BY <1>1, <2>1, <2>3 DEF RunTask
<1>2. ASSUME NEW t \in Threads, NEW k \in Kinds, NEW b \in Bases, DropTask(t, k, b) PROVE TypeOK'
  <2>1. queued' \in [Kinds -> [Bases -> Nat]]
    BY <1>2 DEF DropTask
  <2>2. [Idle EXCEPT !.pc = "requeue", !.base = b, !.kind = k] \in ThreadState
    BY DEF Idle, ThreadState, Labels, Kinds
  <2>3. ThreadsTyped'
    BY <1>2, <2>2, EnterTyped DEF DropTask, Idle, Handling
  <2> QED BY <1>2, <2>1, <2>3 DEF DropTask
<1> QED BY <1>1, <1>2 DEF Drain

\* The decision OnReferenceSet3d takes under the lock.
LEMMA ObserveTyped == ASSUME TypeOK, NEW t \in Threads, ObserveReference(t) PROVE TypeOK'
<1> DEFINE b == th[t].base
           entry == FindOrInherit(b, th[t].extra)
<1> USE DEF TypeOK, runtimeVars, engineVars
<1>1. b \in Bases /\ th[t].extra \in Bases \cup {None} /\ th[t].ref \in Refs
  BY DEF ObserveReference, At, ThreadsTyped, ThreadState, Baseless, Handling
<1>2. entry \in BaseState
  BY <1>1, EntryTyped
<1> HIDE DEF entry
<1>3. /\ \/ IgnoreReference(t, entry) \/ RejectReference(t, entry)
         \/ StartVanillaFallback(t, entry) \/ JoinWaiters(t, entry)
      /\ UNCHANGED <<armed, slot, queued, engineVars>>
  BY DEF ObserveReference, entry
<1>4. CASE KeepEntry(t, entry)
  <2>1. ThreadsTyped' /\ bases' \in [Bases -> BaseState] /\ owner' = owner /\ flag' = flag
    BY <1>2, <1>4, ReturnTyped DEF KeepEntry
  <2>2. killed' \in {"no"} \cup KillReasons
    BY <1>3, KillTyped DEF IgnoreReference, RejectReference, StartVanillaFallback,
                           JoinWaiters, KillReasons
  <2> QED BY <1>3, <2>1, <2>2
<1>5. CASE StartVanillaFallback(t, entry)
  <2>1. ThreadsTyped'
    <3>1. "deactivate" \in Labels
      BY DEF Labels
    <3> QED BY <1>1, <1>5, <3>1, GotoTyped DEF StartVanillaFallback
  <2>2. bases' \in [Bases -> BaseState]
    <3> QED BY <1>1, <1>2, <1>5, BaseStateUpdate DEF StartVanillaFallback
  <2> QED BY <1>3, <1>5, <2>1, <2>2 DEF StartVanillaFallback
<1>6. CASE JoinWaiters(t, entry)
  <2>1. ThreadsTyped'
    BY <1>1, <1>6, ReturnTyped, DispatchTyped DEF JoinWaiters, Kinds
  <2>2. bases' \in [Bases -> BaseState]
    <3> DEFINE s == IF entry.status = "Dormant" THEN "Pending" ELSE entry.status
    <3>1. s \in BaseStatus
      BY <1>2 DEF BaseState, BaseStatus
    <3>2. bases' = [bases EXCEPT ![b] = [entry EXCEPT !.waiting = @ \cup {th[t].ref}, !.status = s]]
      BY <1>6 DEF JoinWaiters
    <3> HIDE DEF s
    <3>3. [entry EXCEPT !.waiting = @ \cup {th[t].ref}, !.status = s] \in BaseState
      BY <1>1, <1>2, <3>1, BaseStateUpdate
    <3> QED BY <3>2, <3>3
  <2> QED BY <1>3, <1>6, <2>1, <2>2 DEF JoinWaiters
<1> QED BY <1>3, <1>4, <1>5, <1>6 DEF IgnoreReference, RejectReference

\* A thread inside the plugin has a base; one that handles an event has a
\* reference too.
LEMMA InsideTyped ==
  ASSUME TypeOK, NEW t \in Threads, th[t].pc \notin Baseless
  PROVE  /\ th[t].base \in Bases /\ th[t].kind \in Kinds
         /\ th[t].todo \subseteq Refs /\ th[t].drain \in BOOLEAN
         /\ th[t] \in ThreadState
         /\ th[t].pc \in Handling => th[t].ref \in Refs
BY DEF TypeOK, ThreadsTyped, ThreadState

\* Where a thread that works on a base goes next.
LEMMA MoveTyped ==
  ASSUME TypeOK, NEW t \in Threads, th[t].pc \notin Baseless,
         NEW l \in Labels \ Handling, Goto(t, l)
  PROVE  ThreadsTyped'
BY InsideTyped, GotoTyped DEF TypeOK

\* Taking the waiters of a base.
LEMMA TodoTyped ==
  ASSUME TypeOK, NEW t \in Threads, th[t].pc \notin Baseless,
         NEW l \in Labels \ Handling, NEW todo \in SUBSET Refs,
         Enter(t, [th[t] EXCEPT !.pc = l, !.todo = todo])
  PROVE  ThreadsTyped'
<1>1. [th[t] EXCEPT !.pc = l, !.todo = todo] \in ThreadState
  BY InsideTyped DEF ThreadState
<1> QED BY <1>1, InsideTyped, EnterTyped DEF TypeOK, ThreadState

\* All of OnReferenceSet3d.
LEMMA EventTyped == ASSUME TypeOK, NEW t \in Threads, Event(t) PROVE TypeOK'
<1> USE DEF TypeOK, runtimeVars, engineVars
<1>1. CASE OnReferenceSet3d(t)
  <2> DEFINE owned == FindOwnedRenderSource(th[t].base)
             r == [th[t] EXCEPT !.pc = "set3d_lock", !.owned = owned, !.extra = extra[th[t].base]]
  <2>1. th[t].pc \notin Baseless /\ th[t].pc \in Handling
    BY <1>1 DEF OnReferenceSet3d, At, Baseless, Handling
  <2>2. owned \in BOOLEAN
    BY DEF FindOwnedRenderSource
  <2>3. Enter(t, r) \/ Return(t)
    BY <1>1 DEF OnReferenceSet3d
  <2> HIDE DEF owned
  <2>4. r \in ThreadState /\ r.base \in Bases /\ r.ref \in Refs
    <3>1. /\ th[t] \in ThreadState /\ th[t].base \in Bases /\ th[t].ref \in Refs
          /\ extra[th[t].base] \in Bases \cup {None}
      BY <2>1, InsideTyped
    <3>2. "set3d_lock" \in Labels
      BY DEF Labels
    <3> HIDE DEF TypeOK
    <3> QED BY <2>2, <3>1, <3>2 DEF ThreadState
  <2>5. ThreadsTyped'
    BY <2>3, <2>4, EnterTyped, ReturnTyped
  <2> QED BY <1>1, <2>5 DEF OnReferenceSet3d
<1>2. CASE ObserveReference(t)
  BY <1>2, ObserveTyped
<1>3. CASE DeactivateRenderSource(t)
  <2>1. th[t].base \in Bases
    BY <1>3, InsideTyped DEF DeactivateRenderSource, At, Baseless
  <2>2. ThreadsTyped'
    BY <1>3, <2>1, ReturnTyped, DispatchTyped DEF DeactivateRenderSource, Kinds
  <2>3. killed' \in {"no"} \cup KillReasons
    BY <1>3 DEF DeactivateRenderSource, KillRuntime, KillReasons
  <2>4. slot' \in [Bases -> {"empty", "staged", "active", "inactive"}]
    BY <1>3 DEF DeactivateRenderSource
  <2> QED BY <1>3, <2>2, <2>3, <2>4 DEF DeactivateRenderSource
<1> QED BY <1>1, <1>2, <1>3 DEF Event

\* The lock-free guard of PumpPendingBases.
LEMMA PumpTyped == ASSUME TypeOK, PumpPendingBases PROVE TypeOK'
<1>1. PICK d \in BOOLEAN : Enter(Pumper, [Idle EXCEPT !.pc = "pump", !.drain = d])
  BY DEF PumpPendingBases, MayBeInDrain
<1>2. [Idle EXCEPT !.pc = "pump", !.drain = d] \in ThreadState
  BY DEF Idle, ThreadState, Labels, Kinds
<1>3. ThreadsTyped'
  BY <1>1, <1>2, EnterTyped, ThreadsAssumption DEF TypeOK, Idle, Baseless, Handling
<1> QED BY <1>3 DEF PumpPendingBases, TypeOK, runtimeVars, engineVars

\* The selection of PumpPendingBases under the lock.
LEMMA SelectTyped == ASSUME TypeOK, NEW t \in Threads, SelectBase(t) PROVE TypeOK'
<1> USE DEF TypeOK, runtimeVars, engineVars
<1>1. CASE Dispatchable # {}
  <2>1. PICK c \in Dispatchable : Dispatch(t, c[1], c[2])
    BY <1>1 DEF SelectBase
  <2>2. c[1] \in Bases /\ c[2] \in Kinds
    BY DEF Dispatchable, OwnerTasks, Kinds
  <2>3. ThreadsTyped'
    BY <2>1, <2>2, DispatchTyped
  <2> QED BY <1>1, <2>3 DEF SelectBase
<1>2. CASE Dispatchable = {}
  <2>1. UpdatePendingWorkFlagLocked(bases, owner) /\ Return(t)
    BY <1>2 DEF SelectBase
  <2>2. killed' \in {"no"} \cup KillReasons
    BY <1>2 DEF SelectBase, KillRuntime, KillReasons
  <2> QED BY <1>2, <2>1, <2>2, FlagTyped, ReturnTyped DEF SelectBase
<1> QED BY <1>1, <1>2

\* The four dispatches, Post, and the four requeues.
LEMMA DispatchStepTyped == ASSUME TypeOK, NEW t \in Threads, DispatchStep(t) PROVE TypeOK'
<1> USE DEF runtimeVars, engineVars
<1> DEFINE b == th[t].base
           k == th[t].kind
<1>1. th[t].pc \notin Baseless
  BY DEF DispatchStep, TryDispatchPendingBase, TryDispatchCompositePoll,
         TryDispatchCompositeActivation, TryDispatchVanillaRefresh, DispatchComposite, Post,
         RequeueBase, RequeueComposite, RequeueCompositeActivation, RequeueVanillaRefresh,
         Requeue, At, Baseless
<1>2. b \in Bases /\ k \in Kinds
  BY <1>1, InsideTyped
<1>3. Parked[k] \in BaseStatus /\ Posted[k] \in BaseStatus
  BY <1>2, StatusesTyped
<1>4. "post" \in Labels \ Handling /\ "requeue" \in Labels \ Handling /\ "run" \in Labels \ Handling
  BY DEF Labels, Handling
<1>5. ASSUME NEW own \in Bases \cup {None}, PostPosted(t, own)
      PROVE  ThreadsTyped' /\ bases' \in [Bases -> BaseState] /\ owner' \in Bases \cup {None}
             /\ flag' \in BOOLEAN /\ killed' = killed
  <2>1. SetStatus(b, Posted[k]) \in [Bases -> BaseState]
    BY <1>2, <1>3, SetStatusTyped DEF TypeOK
  <2>2. Goto(t, "post") /\ UpdatePendingWorkFlagLocked(SetStatus(b, Posted[k]), own) /\ killed' = killed
    BY <1>5 DEF PostPosted
  <2> QED BY <1>1, <1>4, <2>1, <2>2, FlagTyped, MoveTyped
<1>6. ASSUME DispatchLost(t) \/ DispatchBlocked(t)
      PROVE  ThreadsTyped' /\ bases' \in [Bases -> BaseState] /\ owner' \in Bases \cup {None}
             /\ flag' \in BOOLEAN /\ killed' = killed
  BY <1>6, ReturnTyped, FlagTyped DEF DispatchLost, DispatchBlocked, TypeOK
<1>7. CASE TryDispatchPendingBase(t)
  BY <1>2, <1>5, <1>6, <1>7 DEF TryDispatchPendingBase, TypeOK
<1>8. CASE TryDispatchVanillaRefresh(t)
  BY <1>5, <1>6, <1>8 DEF TryDispatchVanillaRefresh, TypeOK
<1>9. CASE DispatchComposite(t)
  <2>1. ASSUME UpdatePendingWorkFlagLocked(bases, owner),
               KillRuntime("composite dispatched without ownership"), Return(t)
        PROVE  ThreadsTyped' /\ bases' \in [Bases -> BaseState] /\ owner' \in Bases \cup {None}
               /\ flag' \in BOOLEAN /\ killed' \in {"no"} \cup KillReasons
    BY <2>1, ReturnTyped, FlagTyped DEF TypeOK, KillRuntime, KillReasons
  <2> QED BY <1>2, <1>5, <1>6, <1>9, <2>1 DEF DispatchComposite, TypeOK
<1>10. CASE Post(t)
  <2>1. queued' \in [Kinds -> [Bases -> Nat]]
    BY <1>2, <1>10 DEF Post, TypeOK
  <2>2. ThreadsTyped'
    BY <1>1, <1>4, <1>10, MoveTyped, ReturnTyped DEF Post, TypeOK
  <2> QED BY <1>10, <2>1, <2>2 DEF Post, TypeOK
<1>11. CASE Requeue(t)
  <2>1. SetStatus(b, Parked[k]) \in [Bases -> BaseState]
    BY <1>2, <1>3, SetStatusTyped DEF TypeOK
  <2>2. bases' \in [Bases -> BaseState] /\ owner' \in Bases \cup {None} /\ flag' \in BOOLEAN
    BY <1>11, <2>1, FlagTyped DEF Requeue, TypeOK
  <2>3. killed' \in {"no"} \cup KillReasons
    BY <1>11 DEF Requeue, TypeOK, KillRuntime, KillReasons
  <2>4. ThreadsTyped'
    BY <1>11, ReturnTyped DEF Requeue, TypeOK
  <2> QED BY <1>11, <2>2, <2>3, <2>4 DEF Requeue, TypeOK
<1> QED BY <1>7, <1>8, <1>9, <1>10, <1>11
        DEF DispatchStep, TryDispatchCompositePoll, TryDispatchCompositeActivation,
            RequeueBase, RequeueComposite, RequeueCompositeActivation, RequeueVanillaRefresh

\* PreparePendingBase up to the submission or the failure.
LEMMA PreparationTyped == ASSUME TypeOK, NEW t \in Threads, Preparation(t) PROVE TypeOK'
<1> USE DEF runtimeVars, engineVars, TypeOK
<1> DEFINE b == th[t].base
<1>1. th[t].pc \notin Baseless
  BY DEF Preparation, BeginPreparation, BuildRenderSource, StoreStructure, SubmitComposite,
         RecordComposite, DisableBaseBeforePublication, At, Baseless
<1>2. b \in Bases
  BY <1>1, InsideTyped
<1>3. {"disable", "disable_kill", "build", "structure", "submit", "submitted", "validate"}
        \subseteq Labels \ Handling /\ AfterStaging(b) \in Labels \ Handling
  BY DEF Labels, Handling, AfterStaging
<1>4. CASE BeginPreparation(t)
  <2>1. ThreadsTyped'
    BY <1>1, <1>3, <1>4, MoveTyped, ReturnTyped DEF BeginPreparation
  <2>2. killed' \in {"no"} \cup KillReasons
    BY <1>4 DEF BeginPreparation, KillRuntime, KillReasons
  <2> QED BY <1>4, <2>1, <2>2 DEF BeginPreparation
<1>5. CASE BuildRenderSource(t)
  <2>1. ThreadsTyped'
    BY <1>1, <1>3, <1>5, MoveTyped, ReturnTyped DEF BuildRenderSource
  <2>2. killed' \in {"no"} \cup KillReasons
    BY <1>5 DEF BuildRenderSource, KillRuntime, KillReasons
  <2>3. slot' \in [Bases -> {"empty", "staged", "active", "inactive"}]
    BY <1>5 DEF BuildRenderSource
  <2> QED BY <1>5, <2>1, <2>2, <2>3 DEF BuildRenderSource
<1>6. CASE StoreStructure(t)
  <2>1. ThreadsTyped'
    BY <1>1, <1>3, <1>6, MoveTyped, ReturnTyped DEF StoreStructure
  <2>2. killed' \in {"no"} \cup KillReasons
    BY <1>6 DEF StoreStructure, KillRuntime, KillReasons
  <2>3. bases' \in [Bases -> BaseState]
    <3>1. [bases[b] EXCEPT !.structure = TRUE] \in BaseState
      BY <1>2, BaseStateUpdate
    <3>2. bases' \in {bases, [bases EXCEPT ![b] = [bases[b] EXCEPT !.structure = TRUE]]}
      BY <1>6 DEF StoreStructure
    <3> QED BY <3>1, <3>2
  <2> QED BY <1>6, <2>1, <2>2, <2>3 DEF StoreStructure
<1>7. CASE SubmitComposite(t)
  <2>1. ThreadsTyped'
    BY <1>1, <1>3, <1>7, MoveTyped, ReturnTyped DEF SubmitComposite
  <2>2. killed' \in {"no"} \cup KillReasons
    BY <1>7 DEF SubmitComposite, KillRuntime, KillReasons
  <2> QED BY <1>7, <2>1, <2>2 DEF SubmitComposite
<1>8. CASE RecordComposite(t)
  <2>1. [bases EXCEPT ![b] = [@ EXCEPT !.composite = "submitted", !.status = "CompositePending"]]
          \in [Bases -> BaseState]
    BY <1>2, BaseStateUpdate
  <2>2. bases' \in [Bases -> BaseState] /\ owner' \in Bases \cup {None} /\ flag' \in BOOLEAN
    BY <1>8, <2>1, FlagTyped DEF RecordComposite
  <2>3. killed' \in {"no"} \cup KillReasons
    BY <1>8 DEF RecordComposite, KillRuntime, KillReasons
  <2> QED BY <1>8, <2>2, <2>3, ReturnTyped DEF RecordComposite
<1>9. CASE DisableBaseBeforePublication(t)
  <2>1. [bases EXCEPT ![b] = [@ EXCEPT !.status = "Disabled", !.waiting = {}, !.assignment = None]]
          \in [Bases -> BaseState]
    BY <1>2, BaseStateUpdate
  <2>2. bases' \in [Bases -> BaseState] /\ owner' \in Bases \cup {None} /\ flag' \in BOOLEAN
    BY <1>9, <2>1, FlagTyped DEF DisableBaseBeforePublication
  <2>3. killed' \in {"no"} \cup KillReasons
    BY <1>9 DEF DisableBaseBeforePublication, KillRuntime, KillReasons
  <2> QED BY <1>9, <2>2, <2>3, ReturnTyped DEF DisableBaseBeforePublication
<1> QED BY <1>4, <1>5, <1>6, <1>7, <1>8, <1>9 DEF Preparation

\* The polls of the compositor and of the publication barrier.
LEMMA CompositionTyped == ASSUME TypeOK, NEW t \in Threads, Composition(t) PROVE TypeOK'
<1> USE DEF runtimeVars, engineVars, TypeOK
<1> DEFINE b == th[t].base
<1>1. th[t].pc \notin Baseless
  BY DEF Composition, PollPendingComposite, RecordFinalization, PollCompositeActivation,
         At, Baseless
<1>2. b \in Bases
  BY <1>1, InsideTyped
<1>3. {"requeue", "polled", "validate"} \subseteq Labels \ Handling
  BY DEF Labels, Handling
<1>4. CASE PollPendingComposite(t)
  <2>1. ThreadsTyped'
    BY <1>1, <1>3, <1>4, MoveTyped, ReturnTyped DEF PollPendingComposite, LookupFails
  <2>2. killed' \in {"no"} \cup KillReasons
    BY <1>4 DEF PollPendingComposite, LookupFails, KillRuntime, KillReasons
  <2>3. bases' \in [Bases -> BaseState]
    <3>1. [bases[b] EXCEPT !.composite = "finalized"] \in BaseState
      BY <1>2, BaseStateUpdate
    <3>2. bases' \in {bases, [bases EXCEPT ![b] = [bases[b] EXCEPT !.composite = "finalized"]]}
      BY <1>4 DEF PollPendingComposite, LookupFails
    <3> QED BY <3>1, <3>2
  <2> QED BY <1>4, <2>1, <2>2, <2>3 DEF PollPendingComposite
<1>5. CASE RecordFinalization(t)
  <2>1. SetStatus(b, "CompositeFinalized") \in [Bases -> BaseState]
    BY <1>2, SetStatusTyped DEF BaseStatus
  <2>2. bases' \in [Bases -> BaseState] /\ owner' \in Bases \cup {None} /\ flag' \in BOOLEAN
    BY <1>5, <2>1, FlagTyped DEF RecordFinalization
  <2>3. killed' \in {"no"} \cup KillReasons
    BY <1>5 DEF RecordFinalization, KillRuntime, KillReasons
  <2> QED BY <1>5, <2>2, <2>3, ReturnTyped DEF RecordFinalization
<1>6. CASE PollCompositeActivation(t)
  <2>1. [bases EXCEPT ![b] = [@ EXCEPT !.barrier = TRUE, !.status = "CompositeFinalized"]]
          \in [Bases -> BaseState]
    BY <1>2, BaseStateUpdate
  <2>2. bases' \in [Bases -> BaseState] /\ owner' \in Bases \cup {None} /\ flag' \in BOOLEAN
    BY <1>6, <2>1, FlagTyped
       DEF PollCompositeActivation, ArmBarrier, AwaitPublicationIdle, LookupFails
  <2>3. killed' \in {"no"} \cup KillReasons
    BY <1>6 DEF PollCompositeActivation, ArmBarrier, AwaitPublicationIdle, LookupFails,
                KillRuntime, KillReasons
  <2>4. ThreadsTyped'
    BY <1>1, <1>3, <1>6, MoveTyped, ReturnTyped
       DEF PollCompositeActivation, ArmBarrier, AwaitPublicationIdle, LookupFails
  <2> QED BY <1>6, <2>2, <2>3, <2>4 DEF PollCompositeActivation
<1> QED BY <1>4, <1>5, <1>6 DEF Composition

\* A refreshed reference shows vanilla or custom 3D.
LEMMA RebuildTyped ==
  ASSUME built \in [Refs -> {"unloaded", "vanilla", "custom"}], NEW r \in Refs, Rebuild(r)
  PROVE  built' \in [Refs -> {"unloaded", "vanilla", "custom"}]
BY DEF Rebuild, ResolveRenderSource

\* A served waiter leaves the list of its thread.
LEMMA RefreshedTyped ==
  ASSUME TypeOK, NEW t \in Threads, th[t].pc \notin Baseless \cup Handling, NEW r \in Refs,
         Refreshed(t, r)
  PROVE  ThreadsTyped'
<1>1. [th[t] EXCEPT !.todo = th[t].todo \ {r}] \in ThreadState
  BY InsideTyped DEF ThreadState
<1> QED BY <1>1, InsideTyped, EnterTyped DEF Refreshed, TypeOK, ThreadState

\* Activation, completion, catch-up and release.
LEMMA PublicationTyped == ASSUME TypeOK, NEW t \in Threads, Publication(t) PROVE TypeOK'
<1> USE DEF runtimeVars, engineVars, TypeOK
<1> DEFINE b == th[t].base
<1>1. th[t].pc \notin Baseless \cup Handling
  BY DEF Publication, ActivateRenderSource, CompletePublication, RefreshWaitingReference,
         EndRefresh, ReleasePreparationOwner, At, Baseless, Handling
<1>2. b \in Bases
  BY <1>1, InsideTyped
<1>3. {"complete", "refresh", "release"} \subseteq Labels \ Handling
  BY DEF Labels, Handling
<1>4. CASE ActivateRenderSource(t)
  <2>1. ThreadsTyped'
    BY <1>1, <1>3, <1>4, MoveTyped, ReturnTyped DEF ActivateRenderSource
  <2>2. killed' \in {"no"} \cup KillReasons
    BY <1>4 DEF ActivateRenderSource, KillRuntime, KillReasons
  <2>3. slot' \in [Bases -> {"empty", "staged", "active", "inactive"}]
    BY <1>4 DEF ActivateRenderSource
  <2> QED BY <1>4, <2>1, <2>2, <2>3 DEF ActivateRenderSource
<1>5. CASE CompletePublication(t)
  <2>1. [bases EXCEPT ![b] = [@ EXCEPT !.status = "Ready", !.waiting = {}, !.assignment = None]]
          \in [Bases -> BaseState]
    BY <1>2, BaseStateUpdate
  <2>2. bases' \in [Bases -> BaseState] /\ owner' \in Bases \cup {None} /\ flag' \in BOOLEAN
    BY <1>5, <2>1, FlagTyped DEF CompletePublication
  <2>3. killed' \in {"no"} \cup KillReasons
    BY <1>5 DEF CompletePublication, KillRuntime, KillReasons
  <2>4. bases[b].waiting \in SUBSET Refs
    BY <1>2 DEF BaseState
  <2>5. ThreadsTyped'
    BY <1>1, <1>3, <1>5, <2>4, TodoTyped, ReturnTyped DEF CompletePublication
  <2> QED BY <1>5, <2>2, <2>3, <2>5 DEF CompletePublication
<1>6. ASSUME NEW r \in Refs, RefreshWaitingReference(t, r) PROVE TypeOK'
  <2>1. ThreadsTyped'
    BY <1>1, <1>6, RefreshedTyped, ReturnTyped DEF RefreshWaitingReference
  <2>2. killed' \in {"no"} \cup KillReasons
    BY <1>6 DEF RefreshWaitingReference, KillRuntime, KillReasons
  <2>3. built' \in [Refs -> {"unloaded", "vanilla", "custom"}]
    BY <1>6, RebuildTyped DEF RefreshWaitingReference
  <2> QED BY <1>6, <2>1, <2>2, <2>3 DEF RefreshWaitingReference
<1>7. CASE EndRefresh(t)
  <2>1. ThreadsTyped'
    BY <1>1, <1>3, <1>7, MoveTyped, ReturnTyped DEF EndRefresh
  <2> QED BY <1>7, <2>1 DEF EndRefresh
<1>8. CASE ReleasePreparationOwner(t)
  <2>1. bases' \in [Bases -> BaseState] /\ owner' \in Bases \cup {None} /\ flag' \in BOOLEAN
    BY <1>8, FlagTyped DEF ReleasePreparationOwner
  <2>2. killed' \in {"no"} \cup KillReasons
    BY <1>8 DEF ReleasePreparationOwner, KillRuntime, KillReasons
  <2> QED BY <1>8, <2>1, <2>2, ReturnTyped DEF ReleasePreparationOwner
<1> QED BY <1>4, <1>5, <1>6, <1>7, <1>8 DEF Publication

\* RefreshVanillaAfterIdentityMismatch.
LEMMA VanillaTyped == ASSUME TypeOK, NEW t \in Threads, VanillaFallback(t) PROVE TypeOK'
<1> USE DEF runtimeVars, engineVars, TypeOK
<1> DEFINE b == th[t].base
<1>1. th[t].pc \notin Baseless \cup Handling
  BY DEF VanillaFallback, BeginVanillaRefresh, RefreshVanillaReference, EndVanillaRefresh,
         At, Baseless, Handling
<1>2. b \in Bases
  BY <1>1, InsideTyped
<1>3. CASE BeginVanillaRefresh(t)
  <2>1. [bases EXCEPT ![b] = [@ EXCEPT !.status = "Disabled", !.waiting = {}]]
          \in [Bases -> BaseState]
    BY <1>2, BaseStateUpdate
  <2>2. bases' \in [Bases -> BaseState] /\ owner' \in Bases \cup {None} /\ flag' \in BOOLEAN
    BY <1>3, <2>1, FlagTyped DEF BeginVanillaRefresh
  <2>3. killed' \in {"no"} \cup KillReasons
    BY <1>3 DEF BeginVanillaRefresh, KillRuntime, KillReasons
  <2>4. bases[b].waiting \in SUBSET Refs /\ "vanilla" \in Labels \ Handling
    BY <1>2 DEF BaseState, Labels, Handling
  <2>5. ThreadsTyped'
    BY <1>1, <1>3, <2>4, TodoTyped, ReturnTyped DEF BeginVanillaRefresh
  <2> QED BY <1>3, <2>2, <2>3, <2>5 DEF BeginVanillaRefresh
<1>4. ASSUME NEW r \in Refs, RefreshVanillaReference(t, r) PROVE TypeOK'
  <2>1. ThreadsTyped'
    BY <1>1, <1>4, RefreshedTyped, ReturnTyped DEF RefreshVanillaReference
  <2>2. killed' \in {"no"} \cup KillReasons
    BY <1>4 DEF RefreshVanillaReference, KillRuntime, KillReasons
  <2>3. built' \in [Refs -> {"unloaded", "vanilla", "custom"}]
    BY <1>4, RebuildTyped DEF RefreshVanillaReference
  <2> QED BY <1>4, <2>1, <2>2, <2>3 DEF RefreshVanillaReference
<1>5. CASE EndVanillaRefresh(t)
  BY <1>5, ReturnTyped DEF EndVanillaRefresh
<1> QED BY <1>3, <1>4, <1>5 DEF VanillaFallback

\* Every variable stays in its domain (the type invariant of the runs).
THEOREM TypeCorrect == Spec => []TypeOK
<1>1. Init => TypeOK
  BY InitTyped
<1>2. TypeOK /\ [Next]_vars => TypeOK'
  <2> SUFFICES ASSUME TypeOK, [Next]_vars PROVE TypeOK'
    OBVIOUS
  <2>1. ASSUME NEW t \in Threads, ThreadStep(t) PROVE TypeOK'
    BY <2>1, EventTyped, SelectTyped, DispatchStepTyped, PreparationTyped, CompositionTyped,
       PublicationTyped, VanillaTyped DEF ThreadStep
  <2>2. CASE UNCHANGED vars
    BY <2>2 DEF vars, TypeOK, ThreadsTyped
  <2> QED BY <2>1, <2>2, StartupTyped, EngineTyped, DrainTyped, PumpTyped DEF Next
<1> QED BY <1>1, <1>2, PTL DEF Spec

-----------------------------------------------------------------------------
(* The lock-free guard of the pump.                                        *)

\* A critical section that recomputes the flag cannot hide work.
LEMMA RecomputedFlag ==
  ASSUME NEW bs, NEW own, UpdatePendingWorkFlagLocked(bs, own)
  PROVE  NoLostWakeup'
BY DEF NoLostWakeup, UpdatePendingWorkFlagLocked, PendingWork

\* Neither can a step that moves no status.
LEMMA SameStatuses ==
  ASSUME TypeOK, NoLostWakeup, owner' = owner, flag' = flag,
         \A b \in Bases : bases'[b].status = bases[b].status
  PROVE  NoLostWakeup'
<1>1. owner = None \/ owner \in Bases
  BY DEF TypeOK
<1> QED BY <1>1 DEF NoLostWakeup, PendingWork

\* A step that leaves m_bases, the owner and the flag alone hides no work.
LEMMA UnchangedRuntime ==
  ASSUME TypeOK, NoLostWakeup, UNCHANGED runtimeVars
  PROVE  NoLostWakeup'
BY DEF NoLostWakeup, PendingWork, runtimeVars

\* What an event finds: its entry as it is, or a fresh dormant one.
LEMMA FoundStatus ==
  ASSUME NEW b \in Bases, NEW c
  PROVE  \/ FindOrInherit(b, c) = bases[b]
         \/ FindOrInherit(b, c).status = "Dormant" /\ bases[b].status = "absent"
<1>1. Dormant(c).status = "Dormant"
  BY DEF Dormant, NoEntry
<1> QED BY <1>1 DEF FindOrInherit

\* OnReferenceSet3d stores the flag itself when it makes a base dispatchable.
LEMMA EventWakes ==
  ASSUME TypeOK, NoLostWakeup, NEW t \in Threads, Event(t)
  PROVE  NoLostWakeup'
<1>1. CASE OnReferenceSet3d(t)
  BY <1>1, UnchangedRuntime DEF OnReferenceSet3d
<1>2. CASE DeactivateRenderSource(t)
  BY <1>2, UnchangedRuntime DEF DeactivateRenderSource
<1>3. CASE ObserveReference(t)
  <2> DEFINE b == th[t].base
             entry == FindOrInherit(b, th[t].extra)
  <2>1. b \in Bases /\ bases \in [Bases -> BaseState] /\ owner \in Bases \cup {None}
        /\ flag \in BOOLEAN
    BY <1>3, InsideTyped DEF ObserveReference, At, Baseless, TypeOK
  <2>2. entry = bases[b] \/ (entry.status = "Dormant" /\ bases[b].status = "absent")
    BY <2>1, FoundStatus
  <2>3. CASE flag' = TRUE
    BY <2>3 DEF NoLostWakeup
  <2>4. ASSUME KeepEntry(t, entry) PROVE NoLostWakeup'
    <3> HIDE DEF entry
    <3>1. bases' = [bases EXCEPT ![b] = entry] /\ owner' = owner /\ flag' = flag
      BY <2>4 DEF KeepEntry
    <3>2. \A c \in Bases :
            bases'[c].status = bases[c].status
            \/ (bases'[c].status = "Dormant" /\ bases[c].status = "absent")
      <4> TAKE c \in Bases
      <4>1. CASE c = b
        <5>1. bases'[c] = entry
          BY <2>1, <3>1, <4>1
        <5> QED BY <2>2, <4>1, <5>1
      <4>2. CASE c # b
        BY <2>1, <3>1, <4>2
      <4> QED BY <4>1, <4>2
    <3>3. PendingWork(bases', owner') => PendingWork(bases, owner)
      <4>1. CASE owner = None
        BY <3>1, <3>2, <4>1 DEF PendingWork
      <4>2. CASE owner # None
        BY <2>1, <3>1, <3>2, <4>2 DEF PendingWork
      <4> QED BY <4>1, <4>2
    <3> QED BY <3>1, <3>3 DEF NoLostWakeup
  <2>5. ASSUME JoinWaiters(t, entry), entry.status # "Dormant" PROVE NoLostWakeup'
    <3>1. entry = bases[b]
      BY <2>2, <2>5
    <3> HIDE DEF entry
    <3>2. /\ owner' = owner /\ flag' = flag
          /\ bases' = [bases EXCEPT ![b] = [entry EXCEPT !.waiting = @ \cup {th[t].ref},
                                                         !.status = entry.status]]
      BY <2>1, <2>5 DEF JoinWaiters
    <3>3. [entry EXCEPT !.waiting = @ \cup {th[t].ref}, !.status = entry.status].status = bases[b].status
      BY <2>1, <3>1 DEF BaseState
    <3> QED BY <2>1, <3>2, <3>3, SameStatuses
  <2>6. CASE JoinWaiters(t, entry) /\ entry.status = "Dormant"
    BY <2>3, <2>6 DEF JoinWaiters
  <2>7. CASE StartVanillaFallback(t, entry)
    BY <2>3, <2>7 DEF StartVanillaFallback
  <2> QED BY <1>3, <2>4, <2>5, <2>6, <2>7 DEF ObserveReference, IgnoreReference, RejectReference
<1> QED BY <1>1, <1>2, <1>3 DEF Event

\* Every dispatch, requeue and task recomputes the flag it could have hidden.
LEMMA TaskWakes ==
  ASSUME TypeOK, NoLostWakeup, NEW t \in Threads,
         \/ SelectBase(t) \/ DispatchStep(t) \/ Preparation(t)
         \/ Composition(t) \/ Publication(t) \/ VanillaFallback(t)
  PROVE  NoLostWakeup'
<1>1. CASE SelectBase(t)
  BY <1>1, UnchangedRuntime, RecomputedFlag DEF SelectBase
<1>2. CASE DispatchStep(t)
  BY <1>2, UnchangedRuntime, RecomputedFlag
     DEF DispatchStep, TryDispatchPendingBase, TryDispatchCompositePoll,
         TryDispatchCompositeActivation, TryDispatchVanillaRefresh, DispatchComposite,
         DispatchLost, DispatchBlocked, PostPosted, Post, RequeueBase, RequeueComposite,
         RequeueCompositeActivation, RequeueVanillaRefresh, Requeue
<1>3. CASE Preparation(t)
  <2>1. CASE StoreStructure(t)
    <3>1. bases' \in {bases, [bases EXCEPT ![th[t].base].structure = TRUE]}
      BY <2>1 DEF StoreStructure
    <3>2. \A b \in Bases : bases'[b].status = bases[b].status
      BY <3>1 DEF TypeOK, BaseState
    <3> QED BY <2>1, <3>2, SameStatuses DEF StoreStructure
  <2> QED BY <1>3, <2>1, UnchangedRuntime, RecomputedFlag
          DEF Preparation, BeginPreparation, BuildRenderSource, SubmitComposite, RecordComposite,
              DisableBaseBeforePublication
<1>4. CASE Composition(t)
  <2>1. CASE PollPendingComposite(t)
    <3>1. bases' \in {bases, [bases EXCEPT ![th[t].base].composite = "finalized"]}
      BY <2>1 DEF PollPendingComposite, LookupFails, runtimeVars
    <3>2. \A b \in Bases : bases'[b].status = bases[b].status
      BY <3>1 DEF TypeOK, BaseState
    <3> QED BY <2>1, <3>2, SameStatuses DEF PollPendingComposite
  <2> QED BY <1>4, <2>1, UnchangedRuntime, RecomputedFlag
          DEF Composition, RecordFinalization, PollCompositeActivation, ArmBarrier,
              AwaitPublicationIdle, LookupFails
<1>5. CASE Publication(t)
  BY <1>5, UnchangedRuntime, RecomputedFlag
     DEF Publication, ActivateRenderSource, CompletePublication, RefreshWaitingReference,
         EndRefresh, ReleasePreparationOwner
<1>6. CASE VanillaFallback(t)
  BY <1>6, UnchangedRuntime, RecomputedFlag
     DEF VanillaFallback, BeginVanillaRefresh, RefreshVanillaReference, EndVanillaRefresh
<1> QED BY <1>1, <1>2, <1>3, <1>4, <1>5, <1>6

\* Startup, the engine, the drain and the pump make no work that the flag hides.
LEMMA OutsideWakes ==
  ASSUME TypeOK, NoLostWakeup, Startup \/ Engine \/ Drain \/ PumpPendingBases
  PROVE  NoLostWakeup'
<1>1. ASSUME Arm(Drainer) PROVE NoLostWakeup'
  <2>1. bases' = [b \in Bases |-> IF b \in Configured THEN Dormant(b) ELSE NoEntry] /\ owner' = owner
    BY <1>1 DEF Arm
  <2>2. \A b \in Bases : bases'[b].status \in {"Dormant", "absent"}
    BY <2>1 DEF Dormant, NoEntry
  <2>3. ~PendingWork(bases', owner')
    BY <2>1, <2>2 DEF PendingWork, TypeOK
  <2> QED BY <2>3 DEF NoLostWakeup
<1>2. ASSUME NEW b \in Bases, Expire(b) PROVE NoLostWakeup'
  <2>1. bases' = [bases EXCEPT ![b].expired = TRUE] /\ owner' = owner /\ flag' = flag
    BY <1>2 DEF Expire
  <2>2. \A c \in Bases : bases'[c].status = bases[c].status
    BY <2>1 DEF TypeOK, BaseState
  <2> QED BY <2>1, <2>2, SameStatuses
<1> QED BY <1>1, <1>2, UnchangedRuntime
        DEF Startup, StartPreparationPump, Engine, BuildReference, UnloadReference, ReuseFormID,
            ToggleQueue, Drain, RunTask, DropTask, PumpPendingBases

\* Whatever the threads, faults and bases: a base that could be dispatched is
\* never hidden from the pump by a clear m_hasDispatchableBases.
THEOREM PumpSeesWork == Spec => []NoLostWakeup
<1>1. Init => NoLostWakeup
  BY DEF Init, NoLostWakeup, PendingWork, NoEntry
<1>2. TypeOK /\ NoLostWakeup /\ [Next]_vars => NoLostWakeup'
  BY EventWakes, TaskWakes, OutsideWakes, UnchangedRuntime DEF Next, ThreadStep, vars, runtimeVars
<1> QED BY <1>1, <1>2, TypeCorrect, PTL DEF Spec

-----------------------------------------------------------------------------
(* One base in flight.                                                     *)

\* A step that keeps the owner and puts no base in flight.
LEMMA FlightKept ==
  ASSUME SingleFlight, owner' = owner,
         \A b \in Bases : bases'[b].status \in InFlight => bases[b].status \in InFlight
  PROVE  SingleFlight'
BY DEF SingleFlight

\* A step that moves one base while nobody else owns the preparation.
LEMMA FlightMoved ==
  ASSUME SingleFlight, NEW b \in Bases, owner \in {None, b},
         \A c \in Bases \ {b} : bases'[c].status = bases[c].status,
         bases'[b].status \in InFlight => owner' = b
  PROVE  SingleFlight'
BY BasesAssumption DEF SingleFlight

\* A step that leaves the statuses and the owner alone keeps the single flight.
LEMMA FlightUnchanged ==
  ASSUME SingleFlight, UNCHANGED runtimeVars
  PROVE  SingleFlight'
BY DEF SingleFlight, runtimeVars

\* A status written to one base.
LEMMA StatusMoved ==
  ASSUME bases \in [Bases -> BaseState], NEW b \in Bases, NEW s \in BaseStatus
  PROVE  /\ SetStatus(b, s)[b].status = s
         /\ \A c \in Bases \ {b} : SetStatus(b, s)[c].status = bases[c].status
BY DEF SetStatus, BaseState

\* An event moves only bases that are not in flight.
LEMMA EventKeepsFlight ==
  ASSUME TypeOK, SingleFlight, NEW t \in Threads, Event(t)
  PROVE  SingleFlight'
<1>1. CASE OnReferenceSet3d(t)
  BY <1>1, FlightUnchanged DEF OnReferenceSet3d
<1>2. CASE DeactivateRenderSource(t)
  BY <1>2, FlightUnchanged DEF DeactivateRenderSource
<1>3. CASE ObserveReference(t)
  <2> DEFINE b == th[t].base
             entry == FindOrInherit(b, th[t].extra)
  <2>1. b \in Bases /\ bases \in [Bases -> BaseState] /\ th[t].extra \in Bases \cup {None}
    BY <1>3, InsideTyped DEF ObserveReference, At, Baseless, TypeOK, ThreadState
  <2>2. entry.status \in InFlight => bases[b].status \in InFlight
    BY <2>1, FoundStatus DEF InFlight
  <2>3. entry \in BaseState
    BY <2>1, EntryTyped
  <2> HIDE DEF entry
  <2>4. ASSUME NEW e \in BaseState, bases' = [bases EXCEPT ![b] = e], owner' = owner,
               e.status \in InFlight => entry.status \in InFlight
        PROVE  SingleFlight'
    BY <2>1, <2>2, <2>4, FlightKept
  <2>5. CASE KeepEntry(t, entry)
    BY <2>3, <2>4, <2>5 DEF KeepEntry
  <2>6. CASE StartVanillaFallback(t, entry)
    <3> DEFINE e == [entry EXCEPT !.status = "VanillaRefreshPending", !.waiting = {th[t].ref},
                                  !.assignment = None]
    <3>1. th[t].ref \in Refs
      BY <1>3, InsideTyped DEF ObserveReference, At, Baseless, Handling
    <3>2. e \in BaseState
      BY <2>3, <3>1, BaseStateUpdate
    <3>3. e.status = "VanillaRefreshPending"
      BY <2>3 DEF BaseState
    <3>4. bases' = [bases EXCEPT ![b] = e] /\ owner' = owner
      BY <2>6 DEF StartVanillaFallback
    <3> HIDE DEF e
    <3> QED BY <2>4, <3>2, <3>3, <3>4 DEF InFlight
  <2>7. CASE JoinWaiters(t, entry)
    <3> DEFINE s == IF entry.status = "Dormant" THEN "Pending" ELSE entry.status
               e == [entry EXCEPT !.waiting = @ \cup {th[t].ref}, !.status = s]
    <3>1. th[t].ref \in Refs
      BY <1>3, InsideTyped DEF ObserveReference, At, Baseless, Handling
    <3>2. s \in BaseStatus /\ (s \in InFlight => entry.status \in InFlight)
      BY <2>3 DEF BaseState, BaseStatus, InFlight
    <3>3. bases' = [bases EXCEPT ![b] = e] /\ owner' = owner
      BY <2>7 DEF JoinWaiters
    <3> HIDE DEF s
    <3>4. e \in BaseState
      BY <2>3, <3>1, <3>2, BaseStateUpdate
    <3>5. e.status = s
      BY <2>3 DEF BaseState
    <3> HIDE DEF e
    <3> QED BY <2>4, <3>2, <3>3, <3>4, <3>5
  <2> QED BY <1>3, <2>5, <2>6, <2>7
          DEF ObserveReference, IgnoreReference, RejectReference, entry
<1> QED BY <1>1, <1>2, <1>3 DEF Event

\* A base is posted only under its own ownership, and parked again under it.
LEMMA DispatchKeepsFlight ==
  ASSUME TypeOK, SingleFlight, NEW t \in Threads, SelectBase(t) \/ DispatchStep(t)
  PROVE  SingleFlight'
<1> DEFINE b == th[t].base
           k == th[t].kind
<1>1. CASE SelectBase(t)
  BY <1>1, FlightUnchanged DEF SelectBase, UpdatePendingWorkFlagLocked, SingleFlight, runtimeVars
<1>2. CASE Post(t)
  BY <1>2, FlightUnchanged DEF Post
<1>3. ASSUME DispatchLost(t) \/ DispatchBlocked(t) PROVE SingleFlight'
  BY <1>3 DEF DispatchLost, DispatchBlocked, UpdatePendingWorkFlagLocked, SingleFlight, runtimeVars
<1>4. bases \in [Bases -> BaseState]
  BY DEF TypeOK
<1>5. CASE TryDispatchPendingBase(t)
  <2>1. b \in Bases /\ k = "prepare"
    BY <1>5, InsideTyped DEF TryDispatchPendingBase, At, Baseless
  <2>2. CASE PostPosted(t, b) /\ owner \in {None, b}
    <3>1. bases' = SetStatus(b, Posted[k]) /\ owner' = b
      BY <2>2 DEF PostPosted, UpdatePendingWorkFlagLocked
    <3>2. \A c \in Bases \ {b} : bases'[c].status = bases[c].status
      BY <1>4, <2>1, <3>1, StatusMoved, StatusesTyped DEF Kinds
    <3> QED BY <2>1, <2>2, <3>1, <3>2, FlightMoved
  <2> QED BY <1>3, <1>5, <2>2 DEF TryDispatchPendingBase
<1>6. CASE TryDispatchVanillaRefresh(t)
  <2>1. b \in Bases /\ k = "vanilla" /\ "VanillaRefreshQueued" \in BaseStatus
    BY <1>6, InsideTyped DEF TryDispatchVanillaRefresh, At, Baseless, BaseStatus
  <2>2. CASE PostPosted(t, None) /\ owner = None
    <3>1. /\ bases' = SetStatus(b, Posted[k]) /\ owner' = owner
          /\ Posted[k] = "VanillaRefreshQueued"
      BY <2>1, <2>2 DEF PostPosted, UpdatePendingWorkFlagLocked, Posted
    <3>2. \A c \in Bases : bases'[c].status \in InFlight => bases[c].status \in InFlight
      BY <1>4, <2>1, <3>1, StatusMoved DEF InFlight
    <3> QED BY <3>1, <3>2, FlightKept
  <2> QED BY <1>3, <1>6, <2>2 DEF TryDispatchVanillaRefresh
<1>7. CASE DispatchComposite(t)
  <2>1. b \in Bases /\ k \in Kinds
    BY <1>7, InsideTyped DEF DispatchComposite, At, Baseless
  <2>2. CASE PostPosted(t, owner) /\ owner = b
    <3>1. bases' = SetStatus(b, Posted[k]) /\ owner' = b
      BY <2>2 DEF PostPosted, UpdatePendingWorkFlagLocked
    <3>2. \A c \in Bases \ {b} : bases'[c].status = bases[c].status
      BY <1>4, <2>1, <3>1, StatusMoved, StatusesTyped
    <3> QED BY <2>1, <2>2, <3>1, <3>2, FlightMoved
  <2>3. CASE UpdatePendingWorkFlagLocked(bases, owner)
    BY <2>3 DEF UpdatePendingWorkFlagLocked, SingleFlight
  <2> QED BY <1>3, <1>7, <2>2, <2>3 DEF DispatchComposite
<1>8. CASE Requeue(t)
  <2>1. b \in Bases /\ k \in Kinds
    BY <1>8, InsideTyped DEF Requeue, At, Baseless
  <2>2. CASE UpdatePendingWorkFlagLocked(bases, owner)
    BY <2>2 DEF UpdatePendingWorkFlagLocked, SingleFlight
  <2>3. CASE /\ UpdatePendingWorkFlagLocked(SetStatus(b, Parked[k]), owner)
             /\ bases[b].status = Posted[k]
    <3>1. bases' = SetStatus(b, Parked[k]) /\ owner' = owner
      BY <2>3 DEF UpdatePendingWorkFlagLocked
    <3>2. Parked[k] \in InFlight => Posted[k] \in InFlight
      BY <2>1 DEF Kinds, Parked, Posted, InFlight
    <3>3. \A c \in Bases : bases'[c].status \in InFlight => bases[c].status \in InFlight
      BY <1>4, <2>1, <2>3, <3>1, <3>2, StatusMoved, StatusesTyped
    <3> QED BY <3>1, <3>3, FlightKept
  <2> QED BY <1>8, <2>2, <2>3 DEF Requeue
<1> QED BY <1>1, <1>2, <1>5, <1>6, <1>7, <1>8
        DEF DispatchStep, TryDispatchCompositePoll, TryDispatchCompositeActivation,
            RequeueBase, RequeueComposite, RequeueCompositeActivation, RequeueVanillaRefresh

\* An update of the base a thread works on, seen by the statuses.
LEMMA EntryMoved ==
  ASSUME bases \in [Bases -> BaseState], NEW b \in Bases, NEW e \in BaseState
  PROVE  /\ [bases EXCEPT ![b] = e][b] = e
         /\ \A c \in Bases \ {b} : [bases EXCEPT ![b] = e][c].status = bases[c].status
OBVIOUS

\* A preparation that fails gives up the flight with the ownership.
LEMMA PreparationKeepsFlight ==
  ASSUME TypeOK, SingleFlight, NEW t \in Threads, Preparation(t)
  PROVE  SingleFlight'
<1> DEFINE b == th[t].base
<1>1. b \in Bases /\ bases \in [Bases -> BaseState] /\ bases[b] \in BaseState
  BY InsideTyped
     DEF Preparation, BeginPreparation, BuildRenderSource, StoreStructure, SubmitComposite,
         RecordComposite, DisableBaseBeforePublication, At, Baseless, TypeOK
<1>2. ASSUME UpdatePendingWorkFlagLocked(bases, owner) PROVE SingleFlight'
  BY <1>2 DEF UpdatePendingWorkFlagLocked, SingleFlight
<1>3. ASSUME NEW e \in BaseState, owner = b, owner' \in {b, None},
             bases' = [bases EXCEPT ![b] = e], e.status \in InFlight => owner' = b
      PROVE  SingleFlight'
  BY <1>1, <1>3, EntryMoved, FlightMoved
<1>4. CASE StoreStructure(t)
  <2> DEFINE e == [bases[b] EXCEPT !.structure = TRUE]
  <2>1. e \in BaseState
    BY <1>1, BaseStateUpdate
  <2>2. e.status = bases[b].status
    BY <1>1 DEF BaseState
  <2>3. bases' = bases \/ bases' = [bases EXCEPT ![b] = e]
    BY <1>4 DEF StoreStructure
  <2> HIDE DEF e
  <2>4. \A c \in Bases : bases'[c].status = bases[c].status
    BY <1>1, <2>1, <2>2, <2>3
  <2> QED BY <1>4, <2>4, FlightKept DEF StoreStructure
<1>5. CASE RecordComposite(t)
  <2> DEFINE e == [bases[b] EXCEPT !.composite = "submitted", !.status = "CompositePending"]
  <2>1. e \in BaseState
    BY <1>1, BaseStateUpdate
  <2>2. \/ UpdatePendingWorkFlagLocked(bases, owner)
        \/ bases' = [bases EXCEPT ![b] = e] /\ owner' = owner /\ owner = b
    BY <1>5 DEF RecordComposite, OwnsAs, UpdatePendingWorkFlagLocked
  <2> HIDE DEF e
  <2> QED BY <1>2, <1>3, <2>1, <2>2
<1>6. CASE DisableBaseBeforePublication(t)
  <2> DEFINE e == [bases[b] EXCEPT !.status = "Disabled", !.waiting = {}, !.assignment = None]
  <2>1. e \in BaseState
    BY <1>1, BaseStateUpdate
  <2>2. e.status = "Disabled"
    BY <1>1 DEF BaseState
  <2>3. \/ UpdatePendingWorkFlagLocked(bases, owner)
        \/ bases' = [bases EXCEPT ![b] = e] /\ owner' = None /\ owner = b
    BY <1>6 DEF DisableBaseBeforePublication, UpdatePendingWorkFlagLocked
  <2> HIDE DEF e
  <2> QED BY <1>2, <1>3, <2>1, <2>2, <2>3 DEF InFlight
<1> QED BY <1>4, <1>5, <1>6, FlightUnchanged
        DEF Preparation, BeginPreparation, BuildRenderSource, SubmitComposite

\* A poll moves the owner from one stage of its flight to the next.
LEMMA CompositionKeepsFlight ==
  ASSUME TypeOK, SingleFlight, NEW t \in Threads, Composition(t)
  PROVE  SingleFlight'
<1> DEFINE b == th[t].base
<1>1. b \in Bases /\ bases \in [Bases -> BaseState] /\ bases[b] \in BaseState
  BY InsideTyped
     DEF Composition, PollPendingComposite, RecordFinalization, PollCompositeActivation,
         At, Baseless, TypeOK
<1>2. ASSUME UpdatePendingWorkFlagLocked(bases, owner) PROVE SingleFlight'
  BY <1>2 DEF UpdatePendingWorkFlagLocked, SingleFlight
<1>3. ASSUME NEW e \in BaseState, owner = b, owner' = b, bases' = [bases EXCEPT ![b] = e]
      PROVE  SingleFlight'
  BY <1>1, <1>3, EntryMoved, FlightMoved
<1>4. CASE PollPendingComposite(t)
  <2> DEFINE e == [bases[b] EXCEPT !.composite = "finalized"]
  <2>1. e \in BaseState
    BY <1>1, BaseStateUpdate
  <2>2. e.status = bases[b].status
    BY <1>1 DEF BaseState
  <2>3. bases' = bases \/ bases' = [bases EXCEPT ![b] = e]
    BY <1>4 DEF PollPendingComposite, LookupFails, runtimeVars
  <2> HIDE DEF e
  <2>4. \A c \in Bases : bases'[c].status = bases[c].status
    BY <1>1, <2>1, <2>2, <2>3
  <2> QED BY <1>4, <2>4, FlightKept DEF PollPendingComposite
<1>5. CASE RecordFinalization(t)
  <2>1. "CompositeFinalized" \in BaseStatus
    BY DEF BaseStatus
  <2>2. \/ UpdatePendingWorkFlagLocked(bases, owner)
        \/ bases' = SetStatus(b, "CompositeFinalized") /\ owner' = b /\ owner = b
    BY <1>5 DEF RecordFinalization, OwnsAs, UpdatePendingWorkFlagLocked
  <2> QED BY <1>1, <1>2, <2>1, <2>2, StatusMoved, FlightMoved
<1>6. CASE PollCompositeActivation(t)
  <2> DEFINE e == [bases[b] EXCEPT !.barrier = TRUE, !.status = "CompositeFinalized"]
  <2>1. e \in BaseState
    BY <1>1, BaseStateUpdate
  <2>2. \/ UNCHANGED runtimeVars \/ UpdatePendingWorkFlagLocked(bases, owner)
        \/ bases' = [bases EXCEPT ![b] = e] /\ owner' = b /\ owner = b
    BY <1>6 DEF PollCompositeActivation, ArmBarrier, AwaitPublicationIdle, LookupFails,
                OwnsAs, UpdatePendingWorkFlagLocked
  <2> HIDE DEF e
  <2> QED BY <1>2, <1>3, <2>1, <2>2, FlightUnchanged
<1> QED BY <1>4, <1>5, <1>6 DEF Composition

\* The ownership is released only by a base that has landed.
LEMMA EndingKeepsFlight ==
  ASSUME TypeOK, SingleFlight, NEW t \in Threads, Publication(t) \/ VanillaFallback(t)
  PROVE  SingleFlight'
<1> DEFINE b == th[t].base
<1>1. b \in Bases /\ bases \in [Bases -> BaseState] /\ bases[b] \in BaseState
  BY InsideTyped
     DEF Publication, ActivateRenderSource, CompletePublication, RefreshWaitingReference,
         EndRefresh, ReleasePreparationOwner, VanillaFallback, BeginVanillaRefresh,
         RefreshVanillaReference, EndVanillaRefresh, At, Baseless, TypeOK
<1>2. ASSUME UpdatePendingWorkFlagLocked(bases, owner) PROVE SingleFlight'
  BY <1>2 DEF UpdatePendingWorkFlagLocked, SingleFlight
<1>3. ASSUME NEW e \in BaseState, owner' = owner, bases' = [bases EXCEPT ![b] = e],
             e.status \notin InFlight
      PROVE  SingleFlight'
  BY <1>1, <1>3, FlightKept
<1>4. CASE CompletePublication(t)
  <2> DEFINE e == [bases[b] EXCEPT !.status = "Ready", !.waiting = {}, !.assignment = None]
  <2>1. e \in BaseState
    BY <1>1, BaseStateUpdate
  <2>2. e.status = "Ready"
    BY <1>1 DEF BaseState
  <2>3. \/ UpdatePendingWorkFlagLocked(bases, owner)
        \/ bases' = [bases EXCEPT ![b] = e] /\ owner' = owner
    BY <1>4 DEF CompletePublication, UpdatePendingWorkFlagLocked
  <2> HIDE DEF e
  <2> QED BY <1>2, <1>3, <2>1, <2>2, <2>3 DEF InFlight
<1>5. CASE ReleasePreparationOwner(t)
  <2>1. CASE owner = b /\ bases[b].status = "Ready"
    <3>1. bases' = bases /\ owner' = None
      BY <1>5, <2>1 DEF ReleasePreparationOwner, UpdatePendingWorkFlagLocked
    <3> QED BY <1>1, <2>1, <3>1, FlightMoved DEF InFlight
  <2>2. CASE ~(owner = b /\ bases[b].status = "Ready")
    BY <1>2, <1>5, <2>2 DEF ReleasePreparationOwner
  <2> QED BY <2>1, <2>2
<1>6. CASE BeginVanillaRefresh(t)
  <2> DEFINE e == [bases[b] EXCEPT !.status = "Disabled", !.waiting = {}]
  <2>1. e \in BaseState
    BY <1>1, BaseStateUpdate
  <2>2. e.status = "Disabled"
    BY <1>1 DEF BaseState
  <2>3. \/ UNCHANGED runtimeVars
        \/ bases' = [bases EXCEPT ![b] = e] /\ owner' = owner
    BY <1>6 DEF BeginVanillaRefresh, UpdatePendingWorkFlagLocked
  <2> HIDE DEF e
  <2> QED BY <1>3, <2>1, <2>2, <2>3, FlightUnchanged DEF InFlight
<1> QED BY <1>4, <1>5, <1>6, FlightUnchanged
        DEF Publication, ActivateRenderSource, RefreshWaitingReference, EndRefresh,
            VanillaFallback, RefreshVanillaReference, EndVanillaRefresh

\* Startup, the engine, the drain and the pump put no base in flight.
LEMMA OutsideKeepsFlight ==
  ASSUME TypeOK, SingleFlight, Startup \/ Engine \/ Drain \/ PumpPendingBases
  PROVE  SingleFlight'
<1>1. ASSUME Arm(Drainer) PROVE SingleFlight'
  <2>1. \A b \in Bases : bases'[b].status \in {"Dormant", "absent"}
    BY <1>1 DEF Arm, Dormant, NoEntry
  <2> QED BY <2>1 DEF SingleFlight, InFlight
<1>2. ASSUME NEW b \in Bases, Expire(b) PROVE SingleFlight'
  <2>1. \A c \in Bases : bases'[c].status = bases[c].status
    BY <1>2 DEF Expire, TypeOK, BaseState
  <2> QED BY <1>2, <2>1, FlightKept DEF Expire
<1> QED BY <1>1, <1>2, FlightUnchanged
        DEF Startup, StartPreparationPump, Engine, BuildReference, UnloadReference, ReuseFormID,
            ToggleQueue, Drain, RunTask, DropTask, PumpPendingBases

\* Two bases are never prepared, composed or published at once, for any number
\* of bases, references and threads and whatever the engine does.
THEOREM OneBaseInFlight == Spec => []SingleFlight
<1>1. Init => SingleFlight
  BY DEF Init, SingleFlight, InFlight, NoEntry
<1>2. TypeOK /\ SingleFlight /\ [Next]_vars => SingleFlight'
  BY EventKeepsFlight, DispatchKeepsFlight, PreparationKeepsFlight, CompositionKeepsFlight,
     EndingKeepsFlight, OutsideKeepsFlight, FlightUnchanged
     DEF Next, ThreadStep, vars, runtimeVars
<1> QED BY <1>1, <1>2, TypeCorrect, PTL DEF Spec
=============================================================================
