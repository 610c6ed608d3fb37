------------------------- MODULE OverlayTaskProofs --------------------------
(***************************************************************************)
(* Proofs about the tasks of OverlayRuntime, for every value of its        *)
(* constants.  The inductive invariant TaskInv says who carries the task   *)
(* of a posted base (Tasks), what an entry of m_bases and the registry's   *)
(* slot have to do with each other (Entries), what holds at each place of  *)
(* a task (Places, Queues) and what an event may rely on after the reads   *)
(* it made without the lock (Events).  The coordinator's counting          *)
(* invariants, when its transition checks trip, and the refinement of      *)
(* RenderSourceLifecycle and RenderSourceStages follow from it; and, where *)
(* one engine thread does everything, the properties that two threads      *)
(* break.                                                                  *)
(***************************************************************************)
EXTENDS OverlayRuntimeProofs, FiniteSetTheorems

TaskLabels == {"post", "requeue", "run", "build", "structure", "submit", "submitted",
               "disable", "disable_kill", "polled", "validate", "complete"}
PostedStatus == {"Queued", "CompositeQueued", "CompositeActivationQueued", "VanillaRefreshQueued"}
Untouched == {"absent", "Dormant", "Pending"}
Fallback  == {"VanillaRefreshPending", "VanillaRefreshQueued", "Disabled"}

OnTask(t) == th[t].pc \in TaskLabels

\* A thread on a task is the only one on it, and the queue does not hold it.
TaskThreads ==
  \A t \in Threads : OnTask(t) =>
    /\ th[t].pc \in CarrierLabels[th[t].kind]
    /\ bases[th[t].base].status = Posted[th[t].kind]
    /\ \A k \in Kinds : queued[k][th[t].base] = 0
    /\ \A u \in Threads : OnTask(u) /\ th[u].base = th[t].base => u = t

\* A task waits in the queue at most once, and its base is posted.
QueuedTasks ==
  \A k \in Kinds, b \in Bases : queued[k][b] # 0 =>
    queued[k][b] = 1 /\ bases[b].status = Posted[k]

\* Before the process is disabled, no posted base is without its task.
TasksRemain ==
  IsRuntimeOperational => \A b \in Bases : bases[b].status \in PostedStatus =>
    \/ \E k \in Kinds : queued[k][b] # 0
    \/ \E t \in Threads : OnTask(t) /\ th[t].base = b

Tasks == TaskThreads /\ QueuedTasks /\ TasksRemain

\* The entry e and the slot s of base b.
EntryOf(b, e, s) ==
  /\ e.status \in Untouched => s = "empty" /\ ~e.structure
  /\ e.status \in Untouched \cup {"Queued"} => e.composite = "none"
  /\ e.status \in InFlight \ {"Queued"} =>
       s \in {"staged", "active"} /\ e.structure /\ e.composite # "none"
  /\ e.status \in {"CompositePending", "CompositeQueued", "CompositeFinalized"} => s = "staged"
  /\ e.status \in {"CompositeFinalized", "CompositeActivationQueued"} => e.composite = "finalized"
  /\ e.status = "Ready" => s = "active"
  /\ e.status \in {"VanillaRefreshPending", "VanillaRefreshQueued"} => s \in {"active", "inactive"}
  /\ s = "staged" => e.status \in InFlight
  /\ e.status \in {"Dormant", "Pending"} \cup InFlight =>
       e.assignment # None /\ e.configured = e.assignment
  /\ e.status \in {"absent", "Dormant", "Ready", "Disabled"} => e.waiting = {}
  /\ s \in {"active", "inactive"} =>
       e.structure /\ (b \in Tinted => e.composite = "finalized" /\ e.barrier)
Entries == \A b \in Bases : EntryOf(b, bases[b], slot[b])

\* A task that has not begun, or has to be begun again.
Waits(k, e, s) ==
  /\ k = "prepare" => s = "empty" /\ ~e.structure
  /\ k = "activate" => s = "staged"
Queues == \A k \in Kinds, b \in Bases : queued[k][b] # 0 => Waits(k, bases[b], slot[b])

\* A thread at pc on task k of base b.
PlaceOf(pc, k, b, e, s) ==
  /\ pc \in {"post", "requeue", "run", "build", "disable", "disable_kill"} => Waits(k, e, s)
  /\ pc = "structure" => s = "staged" /\ ~e.structure
  /\ pc \in {"submit", "submitted"} => s = "staged" /\ e.structure /\ b \in Tinted
  /\ pc = "validate" => s = "staged" /\ e.structure
  /\ pc = "complete" => s = "active"
  /\ pc \in {"validate", "complete"} => IF k = "activate" THEN e.barrier ELSE b \notin Tinted
  /\ pc = "polled" => e.composite = "finalized"
Places ==
  \A t \in Threads : OnTask(t) =>
    PlaceOf(th[t].pc, th[t].kind, th[t].base, bases[th[t].base], slot[th[t].base])

\* A binding that an event read is never cleared, and one event at a time
\* withdraws the binding of a base, which is still served.
Events ==
  \A t \in Threads :
    /\ th[t].pc = "set3d_lock" /\ th[t].owned => slot[th[t].base] # "empty"
    /\ th[t].pc = "deactivate" =>
         /\ slot[th[t].base] = "active"
         /\ bases[th[t].base].status \in Fallback
         /\ \A u \in Threads : th[u].pc = "deactivate" /\ th[u].base = th[t].base => u = t

TaskInv == Tasks /\ Entries /\ Queues /\ Places /\ Events

\* Before Arm nothing is tracked, queued or handled.
BeforeArm ==
  /\ armed # "armed" =>
       /\ \A b \in Bases : bases[b].status = "absent"
       /\ \A k \in Kinds, b \in Bases : queued[k][b] = 0
       /\ \A t \in Threads : th[t].pc \in {"idle", "arm", "set3d"}
  /\ \A t \in Threads : th[t].pc = "arm" => armed = "pumping" /\ t = Drainer

-----------------------------------------------------------------------------
(* Frames: what a step of one thread on one base does to the invariant.    *)

\* Thread t becomes r and base b has the entry e and the slot s.
Moves(t, r, b, e, s) ==
  /\ th'[t] = r /\ \A u \in Threads \ {t} : th'[u] = th[u]
  /\ bases'[b] = e /\ \A c \in Bases \ {b} : bases'[c] = bases[c]
  /\ slot'[b] = s /\ \A c \in Bases \ {b} : slot'[c] = slot[c]

\* A disabled process stays disabled.
StaysDisabled == killed' = "no" => killed = "no"

\* Nothing that an event may rely on is taken back.
Onward(b, e, s) ==
  /\ slot[b] # "empty" => s # "empty"
  /\ bases[b].status \in Fallback => e.status \in Fallback /\ s = slot[b]

\* The domains of the variables that the tasks are about.
LEMMA TypedParts ==
  ASSUME TypeOK
  PROVE  /\ th \in [Threads -> ThreadState]
         /\ bases \in [Bases -> BaseState]
         /\ slot \in [Bases -> {"empty", "staged", "active", "inactive"}]
         /\ queued \in [Kinds -> [Bases -> Nat]]
BY DEF TypeOK, ThreadsTyped

\* A step that changes one thread, one base and one slot, or leaves them, is a move.
LEMMA MovesBy ==
  ASSUME TypeOK, NEW t \in Threads, NEW r, NEW b \in Bases, NEW e, NEW s,
         th' = [th EXCEPT ![t] = r] \/ (th' = th /\ r = th[t]),
         bases' = [bases EXCEPT ![b] = e] \/ (bases' = bases /\ e = bases[b]),
         slot' = [slot EXCEPT ![b] = s] \/ (slot' = slot /\ s = slot[b])
  PROVE  Moves(t, r, b, e, s)
<1>1. th'[t] = r /\ \A u \in Threads \ {t} : th'[u] = th[u]
  BY TypedParts
<1>2. bases'[b] = e /\ \A c \in Bases \ {b} : bases'[c] = bases[c]
  BY TypedParts
<1>3. slot'[b] = s /\ \A c \in Bases \ {b} : slot'[c] = slot[c]
  BY TypedParts
<1>4. QED BY <1>1, <1>2, <1>3 DEF Moves

\* A status says which kind of task is posted, and no two kinds share one.
LEMMA PostedKinds ==
  /\ \A k \in Kinds : Posted[k] \in PostedStatus
  /\ \A k, l \in Kinds : Posted[k] = Posted[l] => k = l
  /\ \A x \in PostedStatus : \E k \in Kinds : x = Posted[k]
BY DEF Kinds, Posted, PostedStatus

\* A thread on a task has a base.
LEMMA TaskBase ==
  ASSUME TypeOK, NEW t \in Threads, OnTask(t)
  PROVE  /\ th[t].base \in Bases /\ th[t].kind \in Kinds /\ th[t] \in ThreadState
         /\ bases[th[t].base] \in BaseState
<1>1. th[t].pc \notin Baseless
  BY DEF OnTask, TaskLabels, Baseless
<1>2. QED BY <1>1, InsideTyped, TypedParts

\* Entries of a step that moves one base.
LEMMA EntriesMove ==
  ASSUME TypeOK, TaskInv, NEW t \in Threads, NEW r, NEW b \in Bases, NEW e, NEW s,
         Moves(t, r, b, e, s), EntryOf(b, e, s)
  PROVE  Entries'
BY DEF TaskInv, Entries, Moves

\* Events of a step that takes nothing back.
LEMMA EventsMove ==
  ASSUME TypeOK, TaskInv, NEW t \in Threads, NEW r, NEW b \in Bases, NEW e, NEW s,
         Moves(t, r, b, e, s), Onward(b, e, s), r.pc \notin {"set3d_lock", "deactivate"}
  PROVE  Events'
<1> SUFFICES ASSUME NEW u \in Threads
             PROVE  /\ th'[u].pc = "set3d_lock" /\ th'[u].owned => slot'[th'[u].base] # "empty"
                    /\ th'[u].pc = "deactivate" =>
                         /\ slot'[th'[u].base] = "active"
                         /\ bases'[th'[u].base].status \in Fallback
                         /\ \A v \in Threads :
                              th'[v].pc = "deactivate" /\ th'[v].base = th'[u].base => v = u
  BY DEF Events
<1>1. CASE u = t
  BY <1>1 DEF Moves
<1>2. CASE u # t
  <2>1. th'[u] = th[u]
    BY <1>2 DEF Moves
  <2>2. th[u].pc \in {"set3d_lock", "deactivate"} => th[u].base \in Bases
    BY DEF TypeOK, ThreadsTyped, Baseless
  <2>3. \A v \in Threads : th'[v].pc = "deactivate" => th'[v] = th[v]
    BY DEF Moves
  <2>4. QED BY <2>1, <2>2, <2>3 DEF Moves, Onward, TaskInv, Events
<1>3. QED BY <1>1, <1>2

\* Nothing is queued for a base whose task a thread carries.
LEMMA Carried ==
  ASSUME TypeOK, TaskInv, NEW t \in Threads, OnTask(t)
  PROVE  \A k \in Kinds : queued[k][th[t].base] = 0
BY DEF TaskInv, Tasks, TaskThreads

\* Another thread is not on a task of the base of t.
LEMMA Alone ==
  ASSUME TypeOK, TaskInv, NEW t \in Threads, OnTask(t), NEW u \in Threads \ {t}, OnTask(u)
  PROVE  th[u].base # th[t].base /\ th[u].base \in Bases
BY TaskBase DEF TaskInv, Tasks, TaskThreads

\* The other threads and bases, when the only task of the base of t is t's.
LEMMA OthersGoOn ==
  ASSUME TypeOK, TaskInv, NEW t \in Threads, OnTask(t), NEW r, NEW e, NEW s,
         Moves(t, r, th[t].base, e, s), queued' = queued,
         NEW u \in Threads \ {t}, OnTask(u)'
  PROVE  /\ th'[u].pc \in CarrierLabels[th'[u].kind]
         /\ bases'[th'[u].base].status = Posted[th'[u].kind]
         /\ \A k \in Kinds : queued'[k][th'[u].base] = 0
         /\ \A v \in Threads \ {t} : OnTask(v)' /\ th'[v].base = th'[u].base => v = u
         /\ th'[u].base # th[t].base
         /\ PlaceOf(th'[u].pc, th'[u].kind, th'[u].base, bases'[th'[u].base], slot'[th'[u].base])
<1>1. th'[u] = th[u] /\ OnTask(u)
  BY DEF Moves, OnTask
<1>2. th[u].base \in Bases \ {th[t].base}
  BY <1>1, Alone
<1>3. /\ th[u].pc \in CarrierLabels[th[u].kind]
      /\ bases[th[u].base].status = Posted[th[u].kind]
      /\ \A k \in Kinds : queued[k][th[u].base] = 0
      /\ PlaceOf(th[u].pc, th[u].kind, th[u].base, bases[th[u].base], slot[th[u].base])
  BY <1>1 DEF TaskInv, Tasks, TaskThreads, Places
<1>4. ASSUME NEW v \in Threads \ {t}, OnTask(v)', th'[v].base = th'[u].base PROVE v = u
  <2>1. th'[v] = th[v] /\ OnTask(v)
    BY <1>4 DEF Moves, OnTask
  <2>2. QED BY <1>1, <1>4, <2>1 DEF TaskInv, Tasks, TaskThreads
<1>5. bases'[th[u].base] = bases[th[u].base] /\ slot'[th[u].base] = slot[th[u].base]
  BY <1>2, TaskBase DEF Moves
<1>6. QED BY <1>1, <1>2, <1>3, <1>4, <1>5

\* The queue, when the only task of the base of t is t's.
LEMMA QueueGoesOn ==
  ASSUME TypeOK, TaskInv, NEW t \in Threads, OnTask(t), NEW r, NEW e, NEW s,
         Moves(t, r, th[t].base, e, s), queued' = queued
  PROVE  QueuedTasks' /\ Queues'
<1> SUFFICES ASSUME NEW k \in Kinds, NEW c \in Bases, queued[k][c] # 0
             PROVE  /\ queued'[k][c] = 1 /\ bases'[c].status = Posted[k]
                    /\ Waits(k, bases'[c], slot'[c])
  BY DEF QueuedTasks, Queues
<1>1. c # th[t].base
  BY Carried
<1>2. bases'[c] = bases[c] /\ slot'[c] = slot[c]
  BY <1>1 DEF Moves
<1>3. QED BY <1>2 DEF TaskInv, Tasks, QueuedTasks, Queues

\* A task goes on to its next place.
LEMMA TaskGoesOn ==
  ASSUME TypeOK, TaskInv, NEW t \in Threads, OnTask(t), NEW l \in TaskLabels, NEW e, NEW s,
         l \in CarrierLabels[th[t].kind],
         Moves(t, [th[t] EXCEPT !.pc = l], th[t].base, e, s),
         e.status = bases[th[t].base].status, queued' = queued, StaysDisabled,
         Onward(th[t].base, e, s), EntryOf(th[t].base, e, s),
         PlaceOf(l, th[t].kind, th[t].base, e, s)
  PROVE  TaskInv'
<1> DEFINE r == [th[t] EXCEPT !.pc = l]
           b == th[t].base
<1>1. b \in Bases /\ th[t].kind \in Kinds /\ r.pc = l /\ r.kind = th[t].kind /\ r.base = b
  BY TaskBase DEF ThreadState
<1>2. th'[t] = r /\ bases'[b] = e /\ slot'[b] = s
  BY DEF Moves
<1> HIDE DEF r
<1>3. \A u \in Threads \ {t} : OnTask(u)' =>
         /\ th'[u].pc \in CarrierLabels[th'[u].kind]
         /\ bases'[th'[u].base].status = Posted[th'[u].kind]
         /\ \A k \in Kinds : queued'[k][th'[u].base] = 0
         /\ \A v \in Threads \ {t} : OnTask(v)' /\ th'[v].base = th'[u].base => v = u
         /\ th'[u].base # th[t].base
         /\ PlaceOf(th'[u].pc, th'[u].kind, th'[u].base, bases'[th'[u].base], slot'[th'[u].base])
  BY OthersGoOn
<1>4. TaskThreads'
  BY <1>1, <1>2, <1>3, Carried DEF TaskThreads, TaskInv, Tasks
<1>5. Places'
  BY <1>1, <1>2, <1>3 DEF Places
<1>6. TasksRemain'
  <2>1. ASSUME NEW c \in Bases, bases'[c].status \in PostedStatus, killed' = "no"
        PROVE  \/ \E k \in Kinds : queued'[k][c] # 0
               \/ \E u \in Threads : OnTask(u)' /\ th'[u].base = c
    <3>1. CASE c = b
      BY <1>1, <1>2, <3>1 DEF OnTask
    <3>2. CASE c # b
      <4>1. bases[c].status \in PostedStatus /\ killed = "no"
        BY <2>1, <3>2 DEF Moves, StaysDisabled
      <4>2. CASE \E k \in Kinds : queued[k][c] # 0
        BY <4>2
      <4>3. CASE \E u \in Threads : OnTask(u) /\ th[u].base = c
        BY <3>2, <4>3 DEF Moves, OnTask
      <4>4. QED BY <4>1, <4>2, <4>3 DEF TaskInv, Tasks, TasksRemain, IsRuntimeOperational
    <3>3. QED BY <3>1, <3>2
  <2>2. QED BY <2>1 DEF TasksRemain, IsRuntimeOperational
<1>7. Entries'
  BY <1>1, EntriesMove DEF r
<1>8. Events'
  <2>1. l \notin {"set3d_lock", "deactivate"}
    BY DEF TaskLabels
  <2>2. QED BY <1>1, <2>1, EventsMove DEF r
<1>9. QED BY <1>4, <1>5, <1>6, <1>7, <1>8, QueueGoesOn DEF TaskInv, Tasks, r

\* A task ends: its base is not posted any more, or the process is disabled.
LEMMA TaskEnds ==
  ASSUME TypeOK, TaskInv, NEW t \in Threads, OnTask(t), NEW r, NEW e, NEW s,
         r.pc \notin TaskLabels \cup {"set3d_lock", "deactivate"},
         Moves(t, r, th[t].base, e, s), queued' = queued, StaysDisabled,
         killed' # "no" \/ e.status \notin PostedStatus,
         Onward(th[t].base, e, s), EntryOf(th[t].base, e, s)
  PROVE  TaskInv'
<1> DEFINE b == th[t].base
<1>1. b \in Bases
  BY TaskBase
<1>2. th'[t] = r /\ bases'[b] = e /\ slot'[b] = s
  BY DEF Moves
<1>3. \A u \in Threads \ {t} : OnTask(u)' =>
         /\ th'[u].pc \in CarrierLabels[th'[u].kind]
         /\ bases'[th'[u].base].status = Posted[th'[u].kind]
         /\ \A k \in Kinds : queued'[k][th'[u].base] = 0
         /\ \A v \in Threads \ {t} : OnTask(v)' /\ th'[v].base = th'[u].base => v = u
         /\ th'[u].base # th[t].base
         /\ PlaceOf(th'[u].pc, th'[u].kind, th'[u].base, bases'[th'[u].base], slot'[th'[u].base])
  BY OthersGoOn
<1>4. ~OnTask(t)'
  BY <1>2 DEF OnTask
<1>5. TaskThreads'
  BY <1>3, <1>4 DEF TaskThreads
<1>6. Places'
  BY <1>3, <1>4 DEF Places
<1>7. TasksRemain'
  <2>1. ASSUME NEW c \in Bases, bases'[c].status \in PostedStatus, killed' = "no"
        PROVE  \/ \E k \in Kinds : queued'[k][c] # 0
               \/ \E u \in Threads : OnTask(u)' /\ th'[u].base = c
    <3>1. c # b
      BY <1>2, <2>1
    <3>2. bases[c].status \in PostedStatus /\ killed = "no"
      BY <2>1, <3>1 DEF Moves, StaysDisabled
    <3>3. CASE \E k \in Kinds : queued[k][c] # 0
      BY <3>3
    <3>4. CASE \E u \in Threads : OnTask(u) /\ th[u].base = c
      BY <3>1, <3>4 DEF Moves, OnTask
    <3>5. QED BY <3>2, <3>3, <3>4 DEF TaskInv, Tasks, TasksRemain, IsRuntimeOperational
  <2>2. QED BY <2>1 DEF TasksRemain, IsRuntimeOperational
<1>8. Entries'
  BY <1>1, EntriesMove
<1>9. Events'
  BY <1>1, EventsMove
<1>10. QED BY <1>5, <1>6, <1>7, <1>8, <1>9, QueueGoesOn DEF TaskInv, Tasks

\* Whoever carried a task still does, when t had none and the queue is as it was.
LEMMA CarriersStay ==
  ASSUME TypeOK, TaskInv, NEW t \in Threads, ~OnTask(t), NEW r, NEW b \in Bases, NEW e, NEW s,
         Moves(t, r, b, e, s), NEW c \in Bases, StaysDisabled, IsRuntimeOperational',
         bases[c].status \in PostedStatus
  PROVE  \/ \E k \in Kinds : queued[k][c] # 0
         \/ \E u \in Threads : OnTask(u)' /\ th'[u].base = c
<1>1. CASE \E k \in Kinds : queued[k][c] # 0
  BY <1>1
<1>2. CASE \E u \in Threads : OnTask(u) /\ th[u].base = c
  BY <1>2 DEF Moves, OnTask
<1>3. IsRuntimeOperational
  BY DEF StaysDisabled, IsRuntimeOperational
<1>4. QED BY <1>1, <1>2, <1>3 DEF TaskInv, Tasks, TasksRemain

\* The thread hands its task to the queue.
LEMMA TaskIsHanded ==
  ASSUME TypeOK, TaskInv, NEW t \in Threads, OnTask(t), th[t].pc = "post", NEW r,
         r.pc \notin TaskLabels \cup {"set3d_lock", "deactivate"},
         Moves(t, r, th[t].base, bases[th[t].base], slot[th[t].base]), killed' = killed,
         queued' = [queued EXCEPT ![th[t].kind][th[t].base] = @ + 1]
  PROVE  TaskInv'
<1> DEFINE b == th[t].base
           k == th[t].kind
<1>1. b \in Bases /\ k \in Kinds
  BY TaskBase
<1>2. /\ bases'[b] = bases[b] /\ slot'[b] = slot[b]
      /\ \A c \in Bases : bases'[c] = bases[c] /\ slot'[c] = slot[c]
  BY <1>1 DEF Moves
<1>3. /\ queued'[k][b] = 1
      /\ \A l \in Kinds, c \in Bases : l # k \/ c # b => queued'[l][c] = queued[l][c]
  BY <1>1, Carried, TypedParts
<1>4. \A u \in Threads : OnTask(u)' => u # t /\ th'[u] = th[u] /\ OnTask(u) /\ th[u].base # b
  BY Alone DEF Moves, OnTask
<1>5. TaskThreads'
  <2>1. ASSUME NEW u \in Threads, OnTask(u)'
        PROVE  /\ th'[u].pc \in CarrierLabels[th'[u].kind]
               /\ bases'[th'[u].base].status = Posted[th'[u].kind]
               /\ \A l \in Kinds : queued'[l][th'[u].base] = 0
               /\ \A v \in Threads : OnTask(v)' /\ th'[v].base = th'[u].base => v = u
    <3>1. OnTask(u) /\ th'[u] = th[u] /\ th[u].base \in Bases \ {b}
      BY <1>4, <2>1, TaskBase
    <3>2. QED BY <1>2, <1>3, <1>4, <3>1 DEF TaskInv, Tasks, TaskThreads
  <2>2. QED BY <2>1 DEF TaskThreads
<1>6. Places'
  BY <1>2, <1>4, TaskBase DEF TaskInv, Places
<1>7. bases[b].status = Posted[k] /\ Waits(k, bases[b], slot[b])
  BY DEF TaskInv, Tasks, TaskThreads, Places, PlaceOf
<1>8. QueuedTasks' /\ Queues'
  <2>1. ASSUME NEW l \in Kinds, NEW c \in Bases, queued'[l][c] # 0
        PROVE  queued'[l][c] = 1 /\ bases'[c].status = Posted[l] /\ Waits(l, bases'[c], slot'[c])
    <3>1. CASE l = k /\ c = b
      BY <1>2, <1>3, <1>7, <3>1
    <3>2. CASE l # k \/ c # b
      BY <1>2, <1>3, <2>1, <3>2 DEF TaskInv, Tasks, QueuedTasks, Queues
    <3>3. QED BY <3>1, <3>2
  <2>2. QED BY <2>1 DEF QueuedTasks, Queues
<1>9. TasksRemain'
  <2>1. ASSUME NEW c \in Bases, bases'[c].status \in PostedStatus, killed' = "no"
        PROVE  \/ \E l \in Kinds : queued'[l][c] # 0
               \/ \E u \in Threads : OnTask(u)' /\ th'[u].base = c
    <3>1. CASE c = b
      BY <1>1, <1>3, <3>1
    <3>2. CASE c # b
      <4>1. bases[c].status \in PostedStatus /\ killed = "no"
        BY <1>2, <2>1
      <4>2. CASE \E l \in Kinds : queued[l][c] # 0
        BY <1>3, <3>2, <4>2
      <4>3. CASE \E u \in Threads : OnTask(u) /\ th[u].base = c
        BY <3>2, <4>3 DEF Moves, OnTask
      <4>4. QED BY <4>1, <4>2, <4>3 DEF TaskInv, Tasks, TasksRemain, IsRuntimeOperational
    <3>3. QED BY <3>1, <3>2
  <2>2. QED BY <2>1 DEF TasksRemain, IsRuntimeOperational
<1>10. Entries'
  BY <1>2 DEF TaskInv, Entries
<1>11. Events'
  BY <1>1, EventsMove DEF Onward
<1>12. QED BY <1>5, <1>6, <1>8, <1>9, <1>10, <1>11 DEF TaskInv, Tasks

\* Either nobody is on a task of b, or what its task relies on stays the same.
SameForTasks(b, e, s) ==
  \/ e.status \notin PostedStatus /\ bases[b].status \notin PostedStatus
  \/ /\ e.status = bases[b].status /\ e.structure = bases[b].structure
     /\ e.barrier = bases[b].barrier /\ e.composite = bases[b].composite
     /\ s = slot[b] \/ bases[b].status \in Fallback

\* A thread that is on no task starts none.
LEMMA NoTaskMoves ==
  ASSUME TypeOK, TaskInv, NEW t \in Threads, ~OnTask(t), NEW r, r.pc \notin TaskLabels,
         NEW b \in Bases, NEW e, NEW s, Moves(t, r, b, e, s), SameForTasks(b, e, s),
         EntryOf(b, e, s), queued' = queued, StaysDisabled
  PROVE  Tasks' /\ Entries' /\ Queues' /\ Places'
<1>1. \A u \in Threads : OnTask(u)' => th'[u] = th[u] /\ OnTask(u)
  BY DEF Moves, OnTask
<1>2. /\ bases'[b] = e /\ slot'[b] = s
      /\ \A c \in Bases \ {b} : bases'[c] = bases[c] /\ slot'[c] = slot[c]
  BY DEF Moves
<1>3. \A k \in Kinds : bases[b].status = Posted[k] =>
        /\ e.status = Posted[k] /\ e.structure = bases[b].structure
        /\ e.barrier = bases[b].barrier /\ e.composite = bases[b].composite
        /\ s = slot[b] \/ k = "vanilla"
  BY PostedKinds DEF SameForTasks, Kinds, Posted, Fallback
<1>4. ASSUME NEW k \in Kinds, bases[b].status = Posted[k], Waits(k, bases[b], slot[b])
      PROVE  Waits(k, e, s)
  BY <1>3, <1>4 DEF Waits
<1>5. ASSUME NEW k \in Kinds, bases[b].status = Posted[k], NEW pc \in CarrierLabels[k],
             PlaceOf(pc, k, b, bases[b], slot[b])
      PROVE  PlaceOf(pc, k, b, e, s)
  <2>1. CASE s = slot[b]
    BY <1>3, <1>4, <1>5, <2>1 DEF PlaceOf
  <2>2. CASE k = "vanilla"
    BY <1>4, <1>5, <2>2 DEF PlaceOf, CarrierLabels
  <2>3. QED BY <1>3, <1>5, <2>1, <2>2
<1>6. TaskThreads' /\ Places'
  <2>1. ASSUME NEW u \in Threads, OnTask(u)'
        PROVE  /\ th'[u].pc \in CarrierLabels[th'[u].kind]
               /\ bases'[th'[u].base].status = Posted[th'[u].kind]
               /\ \A k \in Kinds : queued'[k][th'[u].base] = 0
               /\ \A v \in Threads : OnTask(v)' /\ th'[v].base = th'[u].base => v = u
               /\ PlaceOf(th'[u].pc, th'[u].kind, th'[u].base, bases'[th'[u].base], slot'[th'[u].base])
    <3>1. /\ th'[u] = th[u] /\ OnTask(u) /\ th[u].base \in Bases /\ th[u].kind \in Kinds
          /\ th[u].pc \in CarrierLabels[th[u].kind]
          /\ bases[th[u].base].status = Posted[th[u].kind]
          /\ \A k \in Kinds : queued'[k][th[u].base] = 0
          /\ \A v \in Threads : OnTask(v)' /\ th'[v].base = th'[u].base => v = u
          /\ PlaceOf(th[u].pc, th[u].kind, th[u].base, bases[th[u].base], slot[th[u].base])
      BY <1>1, <2>1, TaskBase DEF TaskInv, Tasks, TaskThreads, Places
    <3>2. CASE th[u].base = b
      BY <1>2, <1>3, <1>5, <3>1, <3>2
    <3>3. CASE th[u].base # b
      BY <1>2, <3>1, <3>3
    <3>4. QED BY <3>2, <3>3
  <2>2. QED BY <2>1 DEF TaskThreads, Places
<1>7. QueuedTasks' /\ Queues'
  <2>1. ASSUME NEW k \in Kinds, NEW c \in Bases, queued[k][c] # 0
        PROVE  queued'[k][c] = 1 /\ bases'[c].status = Posted[k] /\ Waits(k, bases'[c], slot'[c])
    <3>1. queued[k][c] = 1 /\ bases[c].status = Posted[k] /\ Waits(k, bases[c], slot[c])
      BY <2>1 DEF TaskInv, Tasks, QueuedTasks, Queues
    <3>2. QED BY <1>2, <1>3, <1>4, <3>1
  <2>2. QED BY <2>1 DEF QueuedTasks, Queues
<1>8. TasksRemain'
  <2>1. ASSUME NEW c \in Bases, bases'[c].status \in PostedStatus, IsRuntimeOperational'
        PROVE  \/ \E k \in Kinds : queued'[k][c] # 0
               \/ \E u \in Threads : OnTask(u)' /\ th'[u].base = c
    <3>1. bases[c].status \in PostedStatus
      BY <1>2, <2>1 DEF SameForTasks
    <3>2. QED BY <2>1, <3>1, CarriersStay
  <2>2. QED BY <2>1 DEF TasksRemain
<1>9. Entries'
  BY EntriesMove
<1>10. QED BY <1>6, <1>7, <1>8, <1>9 DEF Tasks

\* The same for a thread that is not about to handle an event either.
LEMMA NoTask ==
  ASSUME TypeOK, TaskInv, NEW t \in Threads, ~OnTask(t), NEW r,
         r.pc \notin TaskLabels \cup {"set3d_lock", "deactivate"},
         NEW b \in Bases, NEW e, NEW s, Moves(t, r, b, e, s), SameForTasks(b, e, s),
         Onward(b, e, s), EntryOf(b, e, s), queued' = queued, StaysDisabled
  PROVE  TaskInv'
BY NoTaskMoves, EventsMove DEF TaskInv

\* A thread takes the task of a base that no other thread carries.
LEMMA TaskIsTaken ==
  ASSUME TypeOK, TaskInv, NEW t \in Threads, ~OnTask(t), NEW r, NEW b \in Bases, NEW e, NEW s,
         r.kind \in Kinds, r.base = b, r.pc \in TaskLabels, r.pc \in CarrierLabels[r.kind],
         Moves(t, r, b, e, s), e.status = Posted[r.kind],
         \A u \in Threads : OnTask(u) => th[u].base # b,
         \A k \in Kinds : queued'[k][b] = 0,
         \A k \in Kinds, c \in Bases \ {b} : queued'[k][c] = queued[k][c],
         StaysDisabled, Onward(b, e, s), EntryOf(b, e, s), PlaceOf(r.pc, r.kind, b, e, s)
  PROVE  TaskInv'
<1>1. th'[t] = r /\ bases'[b] = e /\ slot'[b] = s /\ OnTask(t)'
  BY DEF Moves, OnTask
<1>2. \A c \in Bases \ {b} : bases'[c] = bases[c] /\ slot'[c] = slot[c]
  BY DEF Moves
<1>3. \A u \in Threads \ {t} : OnTask(u)' =>
        th'[u] = th[u] /\ OnTask(u) /\ th[u].base \in Bases \ {b}
  BY TaskBase DEF Moves, OnTask
<1>4. TaskThreads' /\ Places'
  <2>1. ASSUME NEW u \in Threads, OnTask(u)'
        PROVE  /\ th'[u].pc \in CarrierLabels[th'[u].kind]
               /\ bases'[th'[u].base].status = Posted[th'[u].kind]
               /\ \A k \in Kinds : queued'[k][th'[u].base] = 0
               /\ \A v \in Threads : OnTask(v)' /\ th'[v].base = th'[u].base => v = u
               /\ PlaceOf(th'[u].pc, th'[u].kind, th'[u].base, bases'[th'[u].base], slot'[th'[u].base])
    <3>1. CASE u = t
      BY <1>1, <1>3, <3>1
    <3>2. CASE u # t
      <4>1. /\ th'[u] = th[u] /\ OnTask(u) /\ th[u].base \in Bases \ {b}
            /\ th[u].pc \in CarrierLabels[th[u].kind]
            /\ bases[th[u].base].status = Posted[th[u].kind]
            /\ \A k \in Kinds : queued[k][th[u].base] = 0
            /\ PlaceOf(th[u].pc, th[u].kind, th[u].base, bases[th[u].base], slot[th[u].base])
        BY <1>3, <2>1, <3>2 DEF TaskInv, Tasks, TaskThreads, Places
      <4>2. \A v \in Threads : OnTask(v)' /\ th'[v].base = th'[u].base => v = u
        BY <1>1, <1>3, <4>1 DEF TaskInv, Tasks, TaskThreads
      <4>3. QED BY <1>2, <4>1, <4>2
    <3>3. QED BY <3>1, <3>2
  <2>2. QED BY <2>1 DEF TaskThreads, Places
<1>5. QueuedTasks' /\ Queues'
  <2>1. ASSUME NEW k \in Kinds, NEW c \in Bases, queued'[k][c] # 0
        PROVE  queued'[k][c] = 1 /\ bases'[c].status = Posted[k] /\ Waits(k, bases'[c], slot'[c])
    <3>1. c # b /\ queued[k][c] # 0 /\ queued'[k][c] = queued[k][c]
      BY <2>1
    <3>2. QED BY <1>2, <3>1 DEF TaskInv, Tasks, QueuedTasks, Queues
  <2>2. QED BY <2>1 DEF QueuedTasks, Queues
<1>6. TasksRemain'
  <2>1. ASSUME NEW c \in Bases, bases'[c].status \in PostedStatus, IsRuntimeOperational'
        PROVE  \/ \E k \in Kinds : queued'[k][c] # 0
               \/ \E u \in Threads : OnTask(u)' /\ th'[u].base = c
    <3>1. CASE c = b
      BY <1>1, <3>1
    <3>2. CASE c # b
      <4>1. bases[c].status \in PostedStatus
        BY <1>2, <2>1, <3>2
      <4>2. \/ \E k \in Kinds : queued[k][c] # 0
            \/ \E u \in Threads : OnTask(u)' /\ th'[u].base = c
        BY <2>1, <4>1, CarriersStay
      <4>3. QED BY <3>2, <4>2
    <3>3. QED BY <3>1, <3>2
  <2>2. QED BY <2>1 DEF TasksRemain
<1>7. r.pc \notin {"set3d_lock", "deactivate"}
  BY DEF TaskLabels
<1>8. Entries' /\ Events'
  BY <1>7, EntriesMove, EventsMove
<1>9. QED BY <1>4, <1>5, <1>6, <1>8 DEF TaskInv, Tasks

\* A step that touches no thread, entry, slot or queue.
LEMMA TaskInvUnchanged ==
  ASSUME TaskInv, UNCHANGED <<killed, bases, slot, queued, th>>
  PROVE  TaskInv'
BY DEF TaskInv, Tasks, TaskThreads, OnTask, QueuedTasks, TasksRemain, IsRuntimeOperational,
       Entries, Queues, Places, Events

\* Entries that differ in what neither a task nor EntryOf looks at.
LEMMA SameEntry ==
  ASSUME NEW b \in Bases, EntryOf(b, bases[b], slot[b])
  PROVE  SameForTasks(b, bases[b], slot[b]) /\ Onward(b, bases[b], slot[b])
BY DEF SameForTasks, Onward

\* What a thread inside the plugin does to the threads: it never starts up, and
\* before Arm it can only leave.
LEMMA ThreadMoves ==
  ASSUME TypeOK, NEW t \in Threads, ThreadStep(t)
  PROVE  /\ armed' = armed /\ th[t].pc \notin {"idle", "arm"}
         /\ \A u \in Threads \ {t} : th'[u] = th[u]
         /\ th'[t].pc # "arm"
         /\ th'[t].pc = "disable_kill" => Fault("publish")
         /\ th'[t].pc = "submitted" => th[t].pc = "submit"
         /\ armed # "armed" /\ th[t].pc = "set3d" =>
              th'[t].pc = "idle" /\ UNCHANGED <<bases, queued>>
<1> DEFINE Moved == /\ \A u \in Threads \ {t} : th'[u] = th[u]
                    /\ th'[t].pc # "arm"
                    /\ th'[t].pc = "disable_kill" => Fault("publish")
                    /\ th'[t].pc = "submitted" => th[t].pc = "submit"
<1> USE DEF At
<1>1. th \in [Threads -> ThreadState]
  BY TypedParts
<1>2. ASSUME NEW l \in Labels \ {"arm"}, Goto(t, l), l = "disable_kill" => Fault("publish"),
             l = "submitted" => th[t].pc = "submit"
      PROVE  Moved
  BY <1>1, <1>2 DEF Goto, ThreadState
<1>3. ASSUME Return(t) PROVE Moved /\ th'[t].pc = "idle"
  BY <1>1, <1>3 DEF Return, Enter, Idle
<1>4. ASSUME NEW b, NEW k, Dispatch(t, b, k) PROVE Moved
  BY <1>1, <1>4 DEF Dispatch, Enter, Idle
<1>5. ASSUME NEW x, Enter(t, [th[t] EXCEPT !.todo = x]), th[t].pc \notin {"arm", "disable_kill", "submitted"}
      PROVE  Moved
  BY <1>1, <1>5 DEF Enter, ThreadState
<1>6. ASSUME NEW x, NEW l \in {"refresh", "vanilla"}, Enter(t, [th[t] EXCEPT !.pc = l, !.todo = x])
      PROVE  Moved
  BY <1>1, <1>6 DEF Enter, ThreadState
<1>7. ASSUME NEW x, NEW y, Enter(t, [th[t] EXCEPT !.pc = "set3d_lock", !.owned = x, !.extra = y])
      PROVE  Moved
  BY <1>1, <1>7 DEF Enter, ThreadState
<1>8. {"set3d_lock", "deactivate", "dispatch", "post", "requeue", "run", "disable", "disable_kill", "build", "structure",
       "submit", "submitted", "polled", "validate", "complete", "refresh", "release", "vanilla"} \subseteq Labels \ {"arm"}
  BY DEF Labels
<1> HIDE DEF Moved
<1>9. CASE Event(t)
  <2>1. CASE OnReferenceSet3d(t)
    BY <1>3, <1>7, <2>1 DEF OnReferenceSet3d, IsArmed, runtimeVars, Moved
  <2>2. CASE ObserveReference(t)
    <3>1. Moved
      BY <1>3, <1>4, <1>2, <1>8, <2>2 DEF ObserveReference, IgnoreReference, RejectReference,
         KeepEntry, StartVanillaFallback, JoinWaiters
    <3>2. QED BY <2>2, <3>1 DEF ObserveReference, Moved
  <2>3. CASE DeactivateRenderSource(t)
    BY <1>3, <1>4, <2>3 DEF DeactivateRenderSource, Moved
  <2>4. QED BY <1>9, <2>1, <2>2, <2>3 DEF Event
<1>10. CASE SelectBase(t)
  BY <1>3, <1>4, <1>10 DEF SelectBase, Moved
<1>11. CASE DispatchStep(t)
  BY <1>2, <1>3, <1>8, <1>11
     DEF DispatchStep, TryDispatchPendingBase, TryDispatchCompositePoll,
         TryDispatchCompositeActivation, TryDispatchVanillaRefresh, DispatchComposite,
         DispatchLost, DispatchBlocked, PostPosted, Post, RequeueBase, RequeueComposite,
         RequeueCompositeActivation, RequeueVanillaRefresh, Requeue, Moved
<1>12. CASE Preparation(t)
  BY <1>2, <1>3, <1>8, <1>12
     DEF Preparation, BeginPreparation, BuildRenderSource, StoreStructure, SubmitComposite,
         RecordComposite, DisableBaseBeforePublication, AfterStaging, Moved
<1>13. CASE Composition(t)
  BY <1>2, <1>3, <1>8, <1>13
     DEF Composition, PollPendingComposite, RecordFinalization, PollCompositeActivation,
         ArmBarrier, AwaitPublicationIdle, LookupFails, Moved
<1>14. CASE Publication(t)
  BY <1>2, <1>3, <1>5, <1>6, <1>8, <1>14
     DEF Publication, ActivateRenderSource, CompletePublication, RefreshWaitingReference,
         Refreshed, EndRefresh, ReleasePreparationOwner, Moved
<1>15. CASE VanillaFallback(t)
  BY <1>2, <1>3, <1>5, <1>6, <1>8, <1>15
     DEF VanillaFallback, BeginVanillaRefresh, RefreshVanillaReference, Refreshed,
         EndVanillaRefresh, Moved
<1>16. QED BY <1>9, <1>10, <1>11, <1>12, <1>13, <1>14, <1>15 DEF ThreadStep

\* Thread t takes the task of kind k and base b out of the queue.
Fetches(t, k, b, r) ==
  /\ Enter(t, r) /\ r.pc \in {"run", "requeue"} /\ r.base = b /\ r.kind = k
  /\ th[t].pc = "idle" /\ queued[k][b] > 0
  /\ queued' = [queued EXCEPT ![k][b] = @ - 1]
  /\ UNCHANGED <<killed, armed, bases, owner, slot, built>>

\* A task that leaves the queue is run by the drain owner or dropped by another thread.
LEMMA DrainFetches ==
  ASSUME Drain
  PROVE  \E t \in Threads, k \in Kinds, b \in Bases, r \in ThreadState : Fetches(t, k, b, r)
<1>1. ASSUME NEW k \in Kinds, NEW b \in Bases, RunTask(k, b)
      PROVE  \E r \in ThreadState : Fetches(Drainer, k, b, r)
  <2> DEFINE r == [Idle EXCEPT !.pc = "run", !.base = b, !.kind = k, !.drain = TRUE]
  <2>1. r \in ThreadState /\ r.pc = "run" /\ r.base = b /\ r.kind = k
    BY DEF Idle, ThreadState, Labels
  <2>2. Fetches(Drainer, k, b, r)
    BY <1>1, <2>1 DEF RunTask, Fetches, At, runtimeVars, engineVars
  <2> HIDE DEF r
  <2>3. QED BY <2>1, <2>2
<1>2. ASSUME NEW t \in Threads, NEW k \in Kinds, NEW b \in Bases, DropTask(t, k, b)
      PROVE  \E r \in ThreadState : Fetches(t, k, b, r)
  <2> DEFINE r == [Idle EXCEPT !.pc = "requeue", !.base = b, !.kind = k]
  <2>1. r \in ThreadState /\ r.pc = "requeue" /\ r.base = b /\ r.kind = k
    BY DEF Idle, ThreadState, Labels
  <2>2. Fetches(t, k, b, r)
    BY <1>2, <2>1 DEF DropTask, Fetches, At, runtimeVars, engineVars
  <2> HIDE DEF r
  <2>3. QED BY <2>1, <2>2
<1>3. Drainer \in Threads
  BY ThreadsAssumption
<1>4. QED BY <1>1, <1>2, <1>3 DEF Drain

\* A dispatch and a return end what the thread did before.
LEMMA DispatchMoves ==
  ASSUME NEW t, NEW b, NEW k, Dispatch(t, b, k)
  PROVE  \E r : th' = [th EXCEPT ![t] = r] /\ r.pc = "dispatch"
<1> DEFINE r == [Idle EXCEPT !.pc = "dispatch", !.base = b, !.kind = k, !.drain = th[t].drain]
<1>1. th' = [th EXCEPT ![t] = r] /\ r.pc = "dispatch"
  BY DEF Dispatch, Enter, Idle
<1> HIDE DEF r
<1>2. QED BY <1>1

\* A thread that returns is idle.
LEMMA ReturnMoves ==
  ASSUME NEW t, Return(t)
  PROVE  th' = [th EXCEPT ![t] = Idle] /\ Idle.pc = "idle"
BY DEF Return, Enter, Idle

\* A thread on no task moves and touches nothing else.
LEMMA NoTaskStays ==
  ASSUME TypeOK, TaskInv, NEW t \in Threads, ~OnTask(t), NEW r,
         r.pc \notin TaskLabels \cup {"set3d_lock", "deactivate"},
         th' = [th EXCEPT ![t] = r], UNCHANGED <<bases, slot, queued>>, StaysDisabled
  PROVE  TaskInv'
<1>1. CASE Bases = {}
  <2>1. \A u \in Threads : ~OnTask(u)
    BY <1>1, TaskBase
  <2>2. \A u \in Threads : ~OnTask(u)' /\ th'[u].pc \notin {"set3d_lock", "deactivate"}
    BY <1>1, <2>1, TypedParts DEF OnTask, TypeOK, ThreadsTyped, Baseless
  <2>3. QED BY <1>1, <2>2 DEF TaskInv, Tasks, TaskThreads, QueuedTasks, TasksRemain, Entries,
                            Queues, Places, Events
<1>2. ASSUME NEW b \in Bases PROVE TaskInv'
  <2>1. Moves(t, r, b, bases[b], slot[b])
    BY MovesBy
  <2>2. QED BY <2>1, NoTask, SameEntry DEF TaskInv, Entries
<1>3. QED BY <1>1, <1>2

\* Before Arm nothing happens but startup and the builds of early references.
LEMMA ArmFirst == ASSUME TypeOK, BeforeArm, [Next]_vars PROVE BeforeArm'
<1> USE DEF runtimeVars, engineVars, At
<1>1. ASSUME NEW t \in Threads, ThreadStep(t) PROVE BeforeArm'
  <2>1. /\ armed' = armed /\ th[t].pc \notin {"idle", "arm"}
        /\ \A u \in Threads \ {t} : th'[u] = th[u]
        /\ th'[t].pc # "arm"
        /\ armed # "armed" /\ th[t].pc = "set3d" =>
             th'[t].pc = "idle" /\ UNCHANGED <<bases, queued>>
    BY <1>1, ThreadMoves
  <2>2. QED BY <2>1 DEF BeforeArm
<1>2. CASE StartPreparationPump(Drainer)
  BY <1>2, TypedParts, ThreadsAssumption DEF StartPreparationPump, Goto, BeforeArm, ThreadState
<1>3. CASE Arm(Drainer)
  BY <1>3, TypedParts, ThreadsAssumption DEF Arm, Return, Enter, Idle, BeforeArm
<1>4. CASE Engine
  <2>1. ASSUME NEW t \in Threads, NEW r \in Refs, BuildReference(t, r) PROVE BeforeArm'
    BY <2>1, TypedParts DEF BuildReference, Enter, Idle, BeforeArm
  <2>2. ASSUME NEW b \in Bases, Expire(b) PROVE BeforeArm'
    <3>1. \A c \in Bases : bases'[c].status = bases[c].status
      BY <2>2, TypedParts DEF Expire, BaseState
    <3>2. QED BY <2>2, <3>1 DEF Expire, BeforeArm
  <2>3. QED BY <1>4, <2>1, <2>2
            DEF Engine, UnloadReference, ReuseFormID, ToggleQueue, BeforeArm
<1>5. CASE Drain
  <2>1. PICK t \in Threads, k \in Kinds, b \in Bases, r \in ThreadState : Fetches(t, k, b, r)
    BY <1>5, DrainFetches
  <2>2. armed = "armed"
    BY <2>1 DEF BeforeArm, Fetches
  <2>3. QED BY <2>1, <2>2, TypedParts DEF Enter, Fetches, BeforeArm
<1>6. CASE PumpPendingBases
  BY <1>6, TypedParts DEF PumpPendingBases, IsArmed, Enter, Idle, BeforeArm
<1>7. CASE UNCHANGED vars
  BY <1>7 DEF vars, BeforeArm
<1>8. QED BY <1>1, <1>2, <1>3, <1>4, <1>5, <1>6, <1>7 DEF Next, Startup

-----------------------------------------------------------------------------
(* The steps.                                                              *)

\* No check of a transition trips in this step.
ChecksHold == killed' \in SoundChecks => killed \in SoundChecks

\* A kill for another reason, or after the first, trips none of the checks.
LEMMA KillKnown ==
  ASSUME NEW why, KillRuntime(why), why \notin SoundChecks \/ killed # "no"
  PROVE  ChecksHold /\ StaysDisabled
BY DEF KillRuntime, ChecksHold, StaysDisabled

\* Nor does a step that does not kill.
LEMMA NoKill ==
  ASSUME killed' = killed
  PROVE  ChecksHold /\ StaysDisabled
BY DEF ChecksHold, StaysDisabled

\* The startup scan: Arm finds the process as it started.
LEMMA StartupTasks ==
  ASSUME TypeOK, TaskInv, BeforeArm, Startup
  PROVE  TaskInv' /\ ChecksHold
<1> USE DEF runtimeVars, engineVars, At
<1> DEFINE D == Drainer
<1>1. D \in Threads /\ th \in [Threads -> ThreadState]
  BY TypedParts, ThreadsAssumption
<1>2. CASE StartPreparationPump(D)
  <2>1. PICK b \in Bases : TRUE
    BY <1>2, BasesAssumption DEF StartPreparationPump
  <2> DEFINE r == [th[D] EXCEPT !.pc = "arm"]
  <2>2. Moves(D, r, b, bases[b], slot[b])
    BY <1>1, <1>2, MovesBy DEF StartPreparationPump, Goto
  <2>3. ~OnTask(D) /\ r.pc = "arm"
    BY <1>1, <1>2 DEF StartPreparationPump, OnTask, TaskLabels, ThreadState
  <2>4. QED BY <1>1, <1>2, <2>2, <2>3, NoTask, NoKill, SameEntry
            DEF StartPreparationPump, TaskLabels, TaskInv, Entries
<1>3. CASE Arm(D)
  <2>1. /\ \A b \in Bases : bases[b].status = "absent" /\ slot[b] = "empty"
        /\ \A k \in Kinds, b \in Bases : queued[k][b] = 0
        /\ \A t \in Threads : th[t].pc \in {"idle", "arm", "set3d"}
        /\ slot' = slot /\ queued' = queued /\ killed' = killed
    BY <1>1, <1>3 DEF Arm, BeforeArm, TaskInv, Entries, EntryOf, Untouched
  <2>2. \A t \in Threads : th'[t].pc \in {"idle", "arm", "set3d"}
    BY <1>1, <1>3, <2>1 DEF Arm, Return, Enter, Idle
  <2>3. \A b \in Bases :
          /\ bases'[b].status \in {"absent", "Dormant"} /\ EntryOf(b, bases'[b], slot'[b])
    <3> TAKE b \in Bases
    <3>1. bases'[b] = IF b \in Configured THEN Dormant(b) ELSE NoEntry
      BY <1>3 DEF Arm
    <3>2. b \in Configured => b # None
      BY BasesAssumption
    <3>3. QED BY <2>1, <3>1, <3>2 DEF Dormant, NoEntry, EntryOf, Untouched, InFlight
  <2>4. \A t \in Threads : ~OnTask(t)'
    BY <2>2 DEF OnTask, TaskLabels
  <2>5. Tasks' /\ Entries' /\ Queues' /\ Places' /\ Events'
    BY <2>1, <2>2, <2>3, <2>4
       DEF Tasks, TaskThreads, QueuedTasks, TasksRemain, PostedStatus, Entries, Queues, Places,
           Events
  <2>6. QED BY <2>1, <2>5, NoKill DEF TaskInv
<1>4. QED BY <1>2, <1>3 DEF Startup

\* What the engine does by itself.
LEMMA EngineTasks ==
  ASSUME TypeOK, TaskInv, Engine
  PROVE  TaskInv' /\ ChecksHold
<1> USE DEF runtimeVars, engineVars, At
<1>0. ChecksHold
  BY NoKill DEF Engine, BuildReference, UnloadReference, ReuseFormID, Expire, ToggleQueue
<1>1. ASSUME NEW t \in Threads, NEW r \in Refs, BuildReference(t, r) PROVE TaskInv'
  <2>1. PICK d \in BOOLEAN : Enter(t, [Idle EXCEPT !.pc = "set3d", !.base = BaseOf[r], !.ref = r, !.drain = d])
    BY <1>1 DEF BuildReference, MayBeInDrain
  <2> DEFINE x == [Idle EXCEPT !.pc = "set3d", !.base = BaseOf[r], !.ref = r, !.drain = d]
             b == BaseOf[r]
  <2>2. b \in Bases /\ x.pc = "set3d" /\ ~OnTask(t)
    BY <1>1, BasesAssumption DEF Idle, BuildReference, OnTask, TaskLabels
  <2>3. Moves(t, x, b, bases[b], slot[b])
    BY <1>1, <2>1, <2>2, MovesBy DEF BuildReference, Enter
  <2>4. QED BY <1>1, <2>2, <2>3, NoTask, NoKill, SameEntry
            DEF BuildReference, TaskLabels, TaskInv, Entries
<1>2. ASSUME NEW b \in Bases, Expire(b) PROVE TaskInv'
  <2> DEFINE e == [bases[b] EXCEPT !.expired = TRUE]
  <2>1. bases' = [bases EXCEPT ![b] = e] /\ UNCHANGED <<killed, slot, queued, th>>
    BY <1>2 DEF Expire
  <2>2. /\ e.status = bases[b].status /\ e.structure = bases[b].structure
        /\ e.composite = bases[b].composite /\ e.barrier = bases[b].barrier
        /\ e.assignment = bases[b].assignment /\ e.configured = bases[b].configured
        /\ e.waiting = bases[b].waiting
    BY TypedParts DEF BaseState
  <2> HIDE DEF e
  <2>3. EntryOf(b, e, slot[b])
    BY <2>2 DEF EntryOf, TaskInv, Entries
  <2>4. \A c \in Bases : bases'[c] = IF c = b THEN e ELSE bases[c]
    BY <2>1, TypedParts
  <2>5. Entries'
    BY <2>1, <2>3, <2>4 DEF TaskInv, Entries
  <2>6. Tasks'
    BY <2>1, <2>2, <2>4, TaskBase DEF TaskInv, Tasks, TaskThreads, QueuedTasks, TasksRemain, IsRuntimeOperational, OnTask
  <2>7. Queues'
    BY <2>1, <2>2, <2>4 DEF TaskInv, Queues, Waits
  <2>8. Places'
    <3>1. ASSUME NEW t \in Threads, OnTask(t)
          PROVE  PlaceOf(th[t].pc, th[t].kind, th[t].base, bases'[th[t].base], slot[th[t].base])
      <4>1. PlaceOf(th[t].pc, th[t].kind, th[t].base, bases[th[t].base], slot[th[t].base]) /\ th[t].base \in Bases
        BY <3>1, TaskBase DEF TaskInv, Places
      <4>2. QED BY <2>2, <2>4, <4>1 DEF PlaceOf, Waits
    <3>2. QED BY <2>1, <3>1 DEF Places, OnTask
  <2>9. Events'
    <3>1. \A t \in Threads : th[t].pc = "deactivate" => th[t].base \in Bases
      BY DEF TypeOK, ThreadsTyped, Baseless
    <3>2. QED BY <2>1, <2>2, <2>4, <3>1 DEF TaskInv, Events
  <2>10. QED BY <2>5, <2>6, <2>7, <2>8, <2>9 DEF TaskInv
<1>3. QED BY <1>0, <1>1, <1>2, TaskInvUnchanged DEF Engine, UnloadReference, ReuseFormID, ToggleQueue

\* The drain and the drops: a task leaves the queue for one thread.
LEMMA DrainTasks ==
  ASSUME TypeOK, TaskInv, Drain
  PROVE  TaskInv' /\ ChecksHold
<1> USE DEF runtimeVars, engineVars, At
<1>1. PICK t \in Threads, k \in Kinds, b \in Bases, r \in ThreadState : Fetches(t, k, b, r)
  BY DrainFetches
<1>2. r.pc \in TaskLabels /\ ~OnTask(t)
  BY <1>1 DEF Fetches, OnTask, TaskLabels
<1>3. Moves(t, r, b, bases[b], slot[b])
  BY <1>1, MovesBy DEF Fetches, Enter
<1>4. queued[k][b] = 1 /\ bases[b].status = Posted[k] /\ Waits(k, bases[b], slot[b])
  BY <1>1, TypedParts DEF Fetches, TaskInv, Tasks, QueuedTasks, Queues
<1>5. \A u \in Threads : OnTask(u) => th[u].base # b
  BY <1>4 DEF TaskInv, Tasks, TaskThreads
<1>6. \A l \in Kinds : queued'[l][b] = 0
  BY <1>1, <1>4, TypedParts, PostedKinds DEF Fetches, TaskInv, Tasks, QueuedTasks
<1>7. \A l \in Kinds, c \in Bases \ {b} : queued'[l][c] = queued[l][c]
  BY <1>1, TypedParts DEF Fetches
<1>8. r.pc \in CarrierLabels[k] /\ PlaceOf(r.pc, k, b, bases[b], slot[b])
  BY <1>1, <1>4 DEF Fetches, CarrierLabels, Kinds, PlaceOf
<1>9. QED BY <1>1, <1>2, <1>3, <1>4, <1>5, <1>6, <1>7, <1>8, TaskIsTaken, NoKill, SameEntry
          DEF Fetches, TaskInv, Entries

\* The pump enters the plugin.
LEMMA PumpTasks ==
  ASSUME TypeOK, TaskInv, PumpPendingBases
  PROVE  TaskInv' /\ ChecksHold
<1> USE DEF runtimeVars, engineVars, At
<1>1. PICK d \in BOOLEAN : Enter(Pumper, [Idle EXCEPT !.pc = "pump", !.drain = d])
  BY DEF PumpPendingBases, MayBeInDrain
<1> DEFINE r == [Idle EXCEPT !.pc = "pump", !.drain = d]
<1>2. r.pc = "pump" /\ Pumper \in Threads /\ ~OnTask(Pumper) /\ th' = [th EXCEPT ![Pumper] = r]
  BY <1>1, ThreadsAssumption DEF PumpPendingBases, Idle, OnTask, TaskLabels, Enter
<1> HIDE DEF r
<1>3. UNCHANGED <<killed, bases, slot, queued>>
  BY DEF PumpPendingBases
<1>4. QED BY <1>2, <1>3, NoTaskStays, NoKill DEF TaskLabels

\* The entry that an event finds is as good as the one it replaces.
LEMMA FoundEntry ==
  ASSUME TypeOK, TaskInv, NEW b \in Bases, NEW c
  PROVE  LET entry == FindOrInherit(b, c)
         IN  /\ EntryOf(b, entry, slot[b]) /\ SameForTasks(b, entry, slot[b])
             /\ Onward(b, entry, slot[b])
             /\ entry = bases[b] \/ (entry.status = "Dormant" /\ bases[b].status = "absent")
<1>1. EntryOf(b, bases[b], slot[b])
  BY DEF TaskInv, Entries
<1>2. CASE FindOrInherit(b, c) = bases[b]
  BY <1>1, <1>2, SameEntry
<1>3. CASE bases[b].status = "absent" /\ c \in Configured /\ FindOrInherit(b, c) = Dormant(c)
  <2>1. c # None
    BY <1>3, BasesAssumption
  <2>2. EntryOf(b, Dormant(c), slot[b]) /\ Dormant(c).status = "Dormant"
    BY <1>1, <1>3, <2>1 DEF EntryOf, Dormant, NoEntry, Untouched, InFlight
  <2>3. QED BY <1>3, <2>2 DEF SameForTasks, Onward, PostedStatus, Fallback
<1>4. QED BY <1>2, <1>3 DEF FindOrInherit

\* The reads before the lock.
LEMMA ReadTasks ==
  ASSUME TypeOK, TaskInv, NEW t \in Threads, OnReferenceSet3d(t)
  PROVE  TaskInv' /\ ChecksHold
<1> USE DEF runtimeVars, engineVars, At
<1> DEFINE b == th[t].base
           r == [th[t] EXCEPT !.pc = "set3d_lock", !.owned = FindOwnedRenderSource(b),
                              !.extra = extra[b]]
<1>1. b \in Bases /\ ~OnTask(t)
  BY InsideTyped DEF OnReferenceSet3d, Baseless, OnTask, TaskLabels
<1>2. ChecksHold /\ StaysDisabled /\ queued' = queued
  BY NoKill DEF OnReferenceSet3d
<1>3. EntryOf(b, bases[b], slot[b]) /\ SameForTasks(b, bases[b], slot[b]) /\ Onward(b, bases[b], slot[b])
  BY <1>1, SameEntry DEF TaskInv, Entries
<1>4. CASE Return(t)
  <2>1. Moves(t, Idle, b, bases[b], slot[b])
    BY <1>1, <1>4, MovesBy DEF OnReferenceSet3d, Return, Enter
  <2>2. QED BY <1>1, <1>2, <1>3, <2>1, NoTask DEF Idle, TaskLabels
<1>5. CASE Enter(t, r)
  <2>1. Moves(t, r, b, bases[b], slot[b])
    BY <1>1, <1>5, MovesBy DEF OnReferenceSet3d, Enter
  <2>2. r.pc = "set3d_lock" /\ r.base = b /\ (r.owned => slot[b] # "empty")
    BY TypedParts DEF FindOwnedRenderSource, ThreadState
  <2> HIDE DEF r
  <2>3. Tasks' /\ Entries' /\ Queues' /\ Places'
    BY <1>1, <1>2, <1>3, <2>1, <2>2, NoTaskMoves DEF TaskLabels
  <2>4. Events'
    BY <1>1, <1>5, <2>1, <2>2 DEF OnReferenceSet3d, TaskInv, Events, Moves
  <2>5. QED BY <1>2, <2>3, <2>4 DEF TaskInv
<1>6. QED BY <1>4, <1>5 DEF OnReferenceSet3d

\* The decision under the lock, and the compare-and-swap after it.
LEMMA ObserveTasks ==
  ASSUME TypeOK, TaskInv, NEW t \in Threads, ObserveReference(t)
  PROVE  TaskInv' /\ ChecksHold
<1> USE DEF runtimeVars, engineVars, At
<1> DEFINE b == th[t].base
           entry == FindOrInherit(b, th[t].extra)
<1>1. b \in Bases /\ ~OnTask(t) /\ th[t].pc = "set3d_lock"
  BY InsideTyped DEF ObserveReference, Baseless, OnTask, TaskLabels
<1>2. /\ EntryOf(b, entry, slot[b]) /\ SameForTasks(b, entry, slot[b]) /\ Onward(b, entry, slot[b])
      /\ entry = bases[b] \/ (entry.status = "Dormant" /\ bases[b].status = "absent")
  BY <1>1, FoundEntry
<1>3. entry \in BaseState
  <2>1. th[t].extra \in Bases \cup {None}
    BY <1>1, InsideTyped DEF Baseless, ThreadState
  <2>2. QED BY <1>1, <2>1, EntryTyped
<1> HIDE DEF entry
<1>4. /\ \/ IgnoreReference(t, entry) \/ RejectReference(t, entry)
         \/ StartVanillaFallback(t, entry) \/ JoinWaiters(t, entry)
      /\ slot' = slot /\ queued' = queued
  BY DEF ObserveReference, entry
<1>5. CASE KeepEntry(t, entry) /\ (IgnoreReference(t, entry) \/ RejectReference(t, entry))
  <2>1. ChecksHold /\ StaysDisabled
    <3>1. CASE IgnoreReference(t, entry)
      BY <3>1, NoKill DEF IgnoreReference
    <3>2. CASE RejectReference(t, entry)
      <4>1. ~(entry.status = "absent" /\ th[t].owned)
        BY <1>1, <1>2 DEF TaskInv, Entries, EntryOf, Events, Untouched
      <4>2. KillRuntime("identity changed in flight") \/ KillRuntime("ready without binding")
        BY <3>2, <4>1 DEF RejectReference
      <4>3. QED BY <4>2, KillKnown DEF SoundChecks
    <3>3. QED BY <1>5, <3>1, <3>2
  <2>2. Moves(t, Idle, b, entry, slot[b])
    BY <1>1, <1>4, <1>5, MovesBy DEF KeepEntry, Return, Enter
  <2>3. QED BY <1>1, <1>2, <1>4, <2>1, <2>2, NoTask DEF Idle, TaskLabels
<1>6. CASE StartVanillaFallback(t, entry)
  <2> DEFINE e == [entry EXCEPT !.status = "VanillaRefreshPending", !.waiting = {th[t].ref},
                                !.assignment = None]
             r == [th[t] EXCEPT !.pc = "deactivate"]
  <2>1. entry = bases[b] /\ bases[b].status = "Ready"
    BY <1>2, <1>6 DEF StartVanillaFallback
  <2>2. Moves(t, r, b, e, slot[b])
    BY <1>1, <1>4, <1>6, MovesBy DEF StartVanillaFallback, Goto
  <2>3. /\ e.status = "VanillaRefreshPending" /\ e.structure = entry.structure
        /\ e.composite = entry.composite /\ e.barrier = entry.barrier
        /\ r.pc = "deactivate" /\ r.base = b
    BY <1>3, TypedParts DEF BaseState, ThreadState
  <2> HIDE DEF e, r
  <2>4. slot[b] = "active" /\ EntryOf(b, e, slot[b]) /\ SameForTasks(b, e, slot[b])
    BY <1>2, <2>1, <2>3 DEF EntryOf, Untouched, InFlight, SameForTasks, PostedStatus
  <2>5. ChecksHold /\ StaysDisabled
    BY <1>6, NoKill DEF StartVanillaFallback
  <2>6. Tasks' /\ Entries' /\ Queues' /\ Places'
    BY <1>1, <1>4, <2>2, <2>3, <2>4, <2>5, NoTaskMoves DEF TaskLabels
  <2>7. Events'
    <3>1. \A u \in Threads : th[u].pc = "deactivate" => th[u].base # b /\ th[u].base \in Bases
      BY <2>1 DEF TaskInv, Events, Fallback, TypeOK, ThreadsTyped, Baseless
    <3>2. QED BY <1>4, <2>2, <2>3, <2>4, <3>1 DEF Moves, TaskInv, Events, Fallback
  <2>8. QED BY <2>5, <2>6, <2>7 DEF TaskInv
<1>7. CASE JoinWaiters(t, entry)
  <2> DEFINE x == IF entry.status = "Dormant" THEN "Pending" ELSE entry.status
             e == [entry EXCEPT !.waiting = @ \cup {th[t].ref}, !.status = x]
  <2>1. entry.status \notin {"absent", "Disabled", "Ready"} /\ bases' = [bases EXCEPT ![b] = e]
    BY <1>7 DEF JoinWaiters
  <2>2. /\ e.status = x /\ e.structure = entry.structure /\ e.composite = entry.composite
        /\ e.barrier = entry.barrier /\ e.assignment = entry.assignment
        /\ e.configured = entry.configured
    BY <1>3 DEF BaseState
  <2> HIDE DEF e
  <2>3. EntryOf(b, e, slot[b])
    BY <1>2, <2>1, <2>2 DEF EntryOf, Untouched, InFlight
  <2>4. SameForTasks(b, e, slot[b]) /\ Onward(b, e, slot[b])
    BY <1>2, <2>1, <2>2 DEF SameForTasks, Onward, PostedStatus, Fallback
  <2>5. ChecksHold /\ StaysDisabled
    BY <1>7, NoKill DEF JoinWaiters
  <2>6. PICK r : th' = [th EXCEPT ![t] = r] /\ r.pc \in {"idle", "dispatch"}
    BY <1>7, DispatchMoves, ReturnMoves DEF JoinWaiters
  <2>7. Moves(t, r, b, e, slot[b])
    BY <1>1, <1>4, <2>1, <2>6, MovesBy
  <2>8. QED BY <1>1, <1>4, <2>3, <2>4, <2>5, <2>6, <2>7, NoTask DEF TaskLabels
<1>8. QED BY <1>4, <1>5, <1>6, <1>7 DEF IgnoreReference, RejectReference

\* DeactivateRenderSource withdraws a source of a base that no task is about.
LEMMA DeactivateTasks ==
  ASSUME TypeOK, TaskInv, NEW t \in Threads, DeactivateRenderSource(t)
  PROVE  TaskInv' /\ ChecksHold
<1> USE DEF runtimeVars, engineVars, At
<1> DEFINE b == th[t].base
<1>1. b \in Bases /\ ~OnTask(t) /\ slot[b] = "active" /\ bases[b].status \in Fallback
  BY InsideTyped DEF DeactivateRenderSource, Baseless, OnTask, TaskLabels, TaskInv, Events
<1>2. /\ slot' = [slot EXCEPT ![b] = "inactive"] /\ Dispatch(t, b, "vanilla")
      /\ UNCHANGED <<killed, bases, queued>>
  BY <1>1 DEF DeactivateRenderSource
<1>3. PICK r : th' = [th EXCEPT ![t] = r] /\ r.pc = "dispatch"
  BY <1>2, DispatchMoves
<1>4. Moves(t, r, b, bases[b], "inactive")
  BY <1>1, <1>2, <1>3, MovesBy
<1>5. EntryOf(b, bases[b], "inactive") /\ SameForTasks(b, bases[b], "inactive")
  BY <1>1 DEF TaskInv, Entries, EntryOf, SameForTasks, Fallback, Untouched, InFlight
<1>6. ChecksHold /\ StaysDisabled
  BY <1>2, NoKill
<1>7. Tasks' /\ Entries' /\ Queues' /\ Places'
  BY <1>1, <1>2, <1>3, <1>4, <1>5, <1>6, NoTaskMoves DEF TaskLabels
<1>8. Events'
  <2>1. \A u \in Threads : th[u].pc = "deactivate" /\ u # t => th[u].base # b /\ th[u].base \in Bases
    BY DEF DeactivateRenderSource, TaskInv, Events, TypeOK, ThreadsTyped, Baseless
  <2>2. \A u \in Threads : th[u].pc = "set3d_lock" => th[u].base \in Bases
    BY DEF TypeOK, ThreadsTyped, Baseless
  <2>3. QED BY <1>3, <1>4, <2>1, <2>2 DEF TaskInv, Events, Moves
<1>9. QED BY <1>6, <1>7, <1>8 DEF TaskInv

\* The selection of the pump.
LEMMA SelectTasks ==
  ASSUME TypeOK, TaskInv, NEW t \in Threads, SelectBase(t)
  PROVE  TaskInv' /\ ChecksHold
<1> USE DEF runtimeVars, engineVars, At
<1>1. ~OnTask(t)
  BY DEF SelectBase, OnTask, TaskLabels
<1>2. /\ UNCHANGED <<bases, slot, queued>>
      /\ killed' = killed \/ KillRuntime("invalid owner")
  BY DEF SelectBase, UpdatePendingWorkFlagLocked
<1>3. PICK r : th' = [th EXCEPT ![t] = r] /\ r.pc \in {"idle", "dispatch"}
  BY DispatchMoves, ReturnMoves DEF SelectBase
<1>4. ChecksHold /\ StaysDisabled
  BY <1>2, NoKill, KillKnown DEF SoundChecks
<1>5. QED BY <1>1, <1>2, <1>3, <1>4, NoTaskStays DEF TaskLabels

\* A parked base is posted: its task begins, carried by the dispatching thread.
LEMMA PostedTasks ==
  ASSUME TypeOK, TaskInv, NEW t \in Threads, th[t].pc = "dispatch",
         bases[th[t].base].status = Parked[th[t].kind],
         NEW own, PostPosted(t, own), UNCHANGED <<slot, queued>>
  PROVE  TaskInv' /\ ChecksHold
<1> DEFINE b == th[t].base
           k == th[t].kind
           e == [bases[b] EXCEPT !.status = Posted[k]]
           r == [th[t] EXCEPT !.pc = "post"]
<1>1. b \in Bases /\ k \in Kinds /\ ~OnTask(t) /\ th[t] \in ThreadState /\ bases[b] \in BaseState
  BY InsideTyped, TypedParts DEF Baseless, OnTask, TaskLabels
<1>2. bases' = [bases EXCEPT ![b] = e] /\ th' = [th EXCEPT ![t] = r] /\ killed' = killed
  BY DEF PostPosted, UpdatePendingWorkFlagLocked, SetStatus, Goto
<1>3. Moves(t, r, b, e, slot[b])
  BY <1>1, <1>2, MovesBy
<1>4. /\ e.status = Posted[k] /\ e.structure = bases[b].structure
      /\ e.composite = bases[b].composite /\ e.barrier = bases[b].barrier
      /\ e.assignment = bases[b].assignment /\ e.configured = bases[b].configured
      /\ r.pc = "post" /\ r.kind = k /\ r.base = b
  BY <1>1 DEF BaseState, ThreadState
<1> HIDE DEF e, r
<1>5. bases[b].status \notin PostedStatus /\ EntryOf(b, bases[b], slot[b])
  BY <1>1 DEF Parked, Kinds, PostedStatus, TaskInv, Entries
<1>6. EntryOf(b, e, slot[b]) /\ Waits(k, e, slot[b]) /\ Onward(b, e, slot[b])
  BY <1>1, <1>4, <1>5
     DEF EntryOf, Waits, Onward, Parked, Posted, Kinds, Untouched, InFlight, Fallback
<1>7. "post" \in TaskLabels /\ "post" \in CarrierLabels[k] /\ PlaceOf("post", k, b, e, slot[b])
  BY <1>1, <1>6 DEF TaskLabels, CarrierLabels, Kinds, PlaceOf
<1>8. \A u \in Threads : OnTask(u) => th[u].base # b
  BY <1>5, PostedKinds, TaskBase DEF TaskInv, Tasks, TaskThreads
<1>9. \A l \in Kinds : queued'[l][b] = 0
  BY <1>1, <1>5, PostedKinds, TypedParts DEF TaskInv, Tasks, QueuedTasks
<1>10. \A l \in Kinds, c \in Bases \ {b} : queued'[l][c] = queued[l][c]
  OBVIOUS
<1>11. QED BY <1>1, <1>2, <1>3, <1>4, <1>6, <1>7, <1>8, <1>9, <1>10, TaskIsTaken, NoKill

\* The entry and the slot of a base stay when only threads move.
LEMMA StillEntry ==
  ASSUME TypeOK, TaskInv, NEW b \in Bases
  PROVE  EntryOf(b, bases[b], slot[b]) /\ Onward(b, bases[b], slot[b])
BY DEF TaskInv, Entries, Onward

\* A task goes on and touches nothing but its thread.
LEMMA TaskSteps ==
  ASSUME TypeOK, TaskInv, NEW t \in Threads, OnTask(t), NEW l \in TaskLabels, Goto(t, l),
         l \in CarrierLabels[th[t].kind], UNCHANGED <<bases, slot, queued>>, StaysDisabled,
         PlaceOf(l, th[t].kind, th[t].base, bases[th[t].base], slot[th[t].base])
  PROVE  TaskInv'
<1>1. th[t].base \in Bases
  BY TaskBase
<1>2. Moves(t, [th[t] EXCEPT !.pc = l], th[t].base, bases[th[t].base], slot[th[t].base])
  BY <1>1, MovesBy DEF Goto
<1>3. QED BY <1>1, <1>2, StillEntry, TaskGoesOn

\* A thread leaves its task in a disabled process.
LEMMA TaskAborts ==
  ASSUME TypeOK, TaskInv, NEW t \in Threads, OnTask(t), Return(t),
         UNCHANGED <<bases, slot, queued>>, StaysDisabled, killed' # "no"
  PROVE  TaskInv'
<1>1. th[t].base \in Bases
  BY TaskBase
<1>2. Idle.pc \notin TaskLabels \cup {"set3d_lock", "deactivate"}
  BY DEF Idle, TaskLabels
<1>3. Moves(t, Idle, th[t].base, bases[th[t].base], slot[th[t].base])
  BY <1>1, MovesBy DEF Return, Enter
<1>4. QED BY <1>1, <1>2, <1>3, StillEntry, TaskEnds

\* A killed process is disabled.
LEMMA KillDisables ==
  ASSUME NEW why, why # "no", KillRuntime(why)
  PROVE  killed' # "no" /\ StaysDisabled
BY DEF KillRuntime, StaysDisabled

\* What the task of a thread at a label is about.
LEMMA TaskFacts ==
  ASSUME TypeOK, TaskInv, SingleFlight, NEW t \in Threads, OnTask(t)
  PROVE  /\ th[t].base \in Bases /\ th[t].kind \in Kinds /\ th[t] \in ThreadState
         /\ bases[th[t].base] \in BaseState
         /\ th[t].pc \in CarrierLabels[th[t].kind]
         /\ bases[th[t].base].status = Posted[th[t].kind]
         /\ EntryOf(th[t].base, bases[th[t].base], slot[th[t].base])
         /\ PlaceOf(th[t].pc, th[t].kind, th[t].base, bases[th[t].base], slot[th[t].base])
         /\ th[t].kind # "vanilla" => OwnsAs(th[t].base, Posted[th[t].kind])
<1>1. /\ th[t].base \in Bases /\ th[t].kind \in Kinds /\ th[t] \in ThreadState
      /\ bases[th[t].base] \in BaseState
  BY TaskBase
<1>2. /\ th[t].pc \in CarrierLabels[th[t].kind]
      /\ bases[th[t].base].status = Posted[th[t].kind]
      /\ EntryOf(th[t].base, bases[th[t].base], slot[th[t].base])
      /\ PlaceOf(th[t].pc, th[t].kind, th[t].base, bases[th[t].base], slot[th[t].base])
  BY <1>1 DEF TaskInv, Tasks, TaskThreads, Entries, Places
<1>3. ASSUME th[t].kind # "vanilla" PROVE OwnsAs(th[t].base, Posted[th[t].kind])
  <2>1. Posted[th[t].kind] \in InFlight
    BY <1>1, <1>3 DEF Kinds, Posted, InFlight
  <2>2. QED BY <1>1, <1>2, <2>1 DEF SingleFlight, OwnsAs, EntryOf
<1>4. QED BY <1>1, <1>2, <1>3

\* The four dispatches.
LEMMA DispatchTasks ==
  ASSUME TypeOK, TaskInv, SingleFlight, NEW t \in Threads,
         \/ TryDispatchPendingBase(t) \/ TryDispatchVanillaRefresh(t)
         \/ DispatchComposite(t) /\ th[t].kind \in {"poll", "activate"}
  PROVE  TaskInv' /\ ChecksHold
<1> USE DEF At, engineVars, runtimeVars
<1> DEFINE b == th[t].base
           k == th[t].kind
<1>1. th[t].pc = "dispatch" /\ b \in Bases /\ ~OnTask(t) /\ UNCHANGED <<slot, queued>>
  BY InsideTyped DEF TryDispatchPendingBase, DispatchComposite, TryDispatchVanillaRefresh,
                     Baseless, OnTask, TaskLabels
<1>2. ASSUME DispatchLost(t) \/ DispatchBlocked(t) PROVE TaskInv' /\ ChecksHold
  <2>1. UNCHANGED <<killed, bases>> /\ Return(t)
    BY <1>2 DEF DispatchLost, DispatchBlocked, UpdatePendingWorkFlagLocked
  <2>2. QED BY <1>1, <2>1, ReturnMoves, NoTaskStays, NoKill DEF TaskLabels
<1>3. CASE TryDispatchPendingBase(t)
  BY <1>1, <1>2, <1>3, PostedTasks DEF TryDispatchPendingBase, Parked
<1>4. CASE TryDispatchVanillaRefresh(t)
  BY <1>1, <1>2, <1>4, PostedTasks DEF TryDispatchVanillaRefresh, Parked
<1>5. CASE DispatchComposite(t) /\ k \in {"poll", "activate"}
  <2>1. bases[b].status = Parked[k] => owner = b
    BY <1>1, <1>5 DEF Parked, SingleFlight, InFlight
  <2>2. QED BY <1>1, <1>2, <1>5, <2>1, PostedTasks DEF DispatchComposite
<1>6. QED BY <1>3, <1>4, <1>5

\* Post: the task is run at once, queued, or refused.
LEMMA PostTasks ==
  ASSUME TypeOK, TaskInv, SingleFlight, NEW t \in Threads, Post(t)
  PROVE  TaskInv' /\ ChecksHold
<1> USE DEF At, engineVars, runtimeVars
<1> DEFINE b == th[t].base
           k == th[t].kind
<1>1. OnTask(t) /\ th[t].pc = "post" /\ UNCHANGED <<killed, bases, slot>>
  BY DEF Post, OnTask, TaskLabels
<1>2. ChecksHold /\ StaysDisabled
  BY <1>1, NoKill
<1>3. b \in Bases /\ k \in Kinds /\ Waits(k, bases[b], slot[b])
  BY <1>1, TaskFacts DEF PlaceOf
<1>4. ASSUME NEW l \in {"run", "requeue"}, Goto(t, l), UNCHANGED queued PROVE TaskInv'
  <2>1. l \in TaskLabels /\ l \in CarrierLabels[k] /\ PlaceOf(l, k, b, bases[b], slot[b])
    BY <1>3 DEF TaskLabels, CarrierLabels, Kinds, PlaceOf
  <2>2. QED BY <1>1, <1>2, <1>4, <2>1, TaskSteps
<1>5. ASSUME Return(t), queued' = [queued EXCEPT ![k][b] = @ + 1] PROVE TaskInv'
  <2>1. Moves(t, Idle, b, bases[b], slot[b])
    BY <1>1, <1>3, <1>5, MovesBy DEF Return, Enter
  <2>2. QED BY <1>1, <1>5, <2>1, TaskIsHanded DEF Idle, TaskLabels
<1>6. QED BY <1>2, <1>4, <1>5 DEF Post

\* A refused, dropped or unfinished task parks its base again.
LEMMA RequeueTasks ==
  ASSUME TypeOK, TaskInv, SingleFlight, NEW t \in Threads, Requeue(t)
  PROVE  TaskInv' /\ ChecksHold
<1> USE DEF At, engineVars, runtimeVars
<1> DEFINE b == th[t].base
           k == th[t].kind
           e == [bases[b] EXCEPT !.status = Parked[k]]
<1>1. OnTask(t) /\ th[t].pc = "requeue" /\ UNCHANGED <<slot, queued>> /\ Return(t)
  BY DEF Requeue, OnTask, TaskLabels
<1>2. /\ b \in Bases /\ k \in Kinds /\ bases[b] \in BaseState /\ bases[b].status = Posted[k]
      /\ EntryOf(b, bases[b], slot[b]) /\ Waits(k, bases[b], slot[b])
      /\ k # "vanilla" => owner = b
  BY <1>1, TaskFacts DEF PlaceOf, OwnsAs
<1>3. bases' = [bases EXCEPT ![b] = e] /\ killed' = killed
  BY <1>2 DEF Requeue, UpdatePendingWorkFlagLocked, SetStatus
<1>4. Moves(t, Idle, b, e, slot[b])
  BY <1>1, <1>2, <1>3, ReturnMoves, MovesBy
<1>5. /\ e.status = Parked[k] /\ e.structure = bases[b].structure
      /\ e.composite = bases[b].composite /\ e.barrier = bases[b].barrier
      /\ e.assignment = bases[b].assignment /\ e.configured = bases[b].configured
  BY <1>2 DEF BaseState
<1> HIDE DEF e
<1>6. EntryOf(b, e, slot[b]) /\ Onward(b, e, slot[b]) /\ e.status \notin PostedStatus
  BY <1>2, <1>5 DEF EntryOf, Waits, Onward, Parked, Posted, Kinds, Untouched, InFlight, Fallback,
                    PostedStatus
<1>7. QED BY <1>1, <1>2, <1>3, <1>4, <1>6, TaskEnds, NoKill DEF Idle, TaskLabels

\* All of the dispatch.
LEMMA DispatchStepTasks ==
  ASSUME TypeOK, TaskInv, SingleFlight, NEW t \in Threads, DispatchStep(t)
  PROVE  TaskInv' /\ ChecksHold
<1>1. \/ TryDispatchPendingBase(t) \/ TryDispatchVanillaRefresh(t) \/ Post(t) \/ Requeue(t)
      \/ DispatchComposite(t) /\ th[t].kind \in {"poll", "activate"}
  BY DEF DispatchStep, TryDispatchCompositePoll, TryDispatchCompositeActivation,
         RequeueBase, RequeueComposite, RequeueCompositeActivation, RequeueVanillaRefresh
<1>2. QED BY <1>1, DispatchTasks, PostTasks, RequeueTasks

\* Where a kind of task may be.
LEMMA CarrierKinds ==
  ASSUME NEW k \in Kinds, NEW l \in CarrierLabels[k]
  PROVE  /\ l \in {"build", "structure", "submit", "submitted", "disable", "disable_kill"} => k = "prepare"
         /\ l = "polled" => k = "poll"
         /\ l \in {"validate", "complete"} => k \in {"prepare", "activate"}
BY DEF CarrierLabels, Kinds

\* The task of t changes the entry or the slot of its base and goes on.
LEMMA TaskWrites ==
  ASSUME TypeOK, TaskInv, NEW t \in Threads, OnTask(t), NEW l \in TaskLabels, Goto(t, l),
         l \in CarrierLabels[th[t].kind], NEW e, NEW s,
         bases' = [bases EXCEPT ![th[t].base] = e] \/ (bases' = bases /\ e = bases[th[t].base]),
         slot' = [slot EXCEPT ![th[t].base] = s] \/ (slot' = slot /\ s = slot[th[t].base]),
         e.status = bases[th[t].base].status, queued' = queued, StaysDisabled,
         Onward(th[t].base, e, s), EntryOf(th[t].base, e, s),
         PlaceOf(l, th[t].kind, th[t].base, e, s)
  PROVE  TaskInv'
<1>1. th[t].base \in Bases
  BY TaskBase
<1>2. Moves(t, [th[t] EXCEPT !.pc = l], th[t].base, e, s)
  BY <1>1, MovesBy DEF Goto
<1>3. QED BY <1>2, TaskGoesOn

\* The task of t ends and leaves the entry e behind.
LEMMA TaskLeaves ==
  ASSUME TypeOK, TaskInv, NEW t \in Threads, OnTask(t), NEW r, Enter(t, r),
         r.pc \notin TaskLabels \cup {"set3d_lock", "deactivate"}, NEW e,
         bases' = [bases EXCEPT ![th[t].base] = e], UNCHANGED <<slot, queued>>, StaysDisabled,
         e.status \notin PostedStatus, Onward(th[t].base, e, slot[th[t].base]),
         EntryOf(th[t].base, e, slot[th[t].base])
  PROVE  TaskInv'
<1>1. th[t].base \in Bases
  BY TaskBase
<1>2. Moves(t, r, th[t].base, e, slot[th[t].base])
  BY <1>1, MovesBy DEF Enter
<1>3. QED BY <1>2, TaskEnds

\* The place of a thread that returns.
LEMMA Leaving == Idle.pc \notin TaskLabels \cup {"set3d_lock", "deactivate"}
BY DEF Idle, TaskLabels

\* PreparePendingBase: the check of the ownership, and the reads after it.
LEMMA BeginTasks ==
  ASSUME TypeOK, TaskInv, SingleFlight, NEW t \in Threads, BeginPreparation(t)
  PROVE  TaskInv' /\ ChecksHold
<1> USE DEF At, engineVars, runtimeVars
<1> DEFINE b == th[t].base
<1>1. /\ OnTask(t) /\ th[t].pc = "run" /\ th[t].kind = "prepare"
      /\ UNCHANGED <<bases, slot, queued>>
  BY DEF BeginPreparation, OnTask, TaskLabels
<1>2. OwnsAs(b, "Queued") /\ Waits("prepare", bases[b], slot[b])
  BY <1>1, TaskFacts DEF PlaceOf, Posted
<1>3. killed' = killed /\ \E l \in {"disable", "build"} : Goto(t, l)
  BY <1>1, <1>2 DEF BeginPreparation, Waits, FindOwnedRenderSource
<1>4. PICK l \in {"disable", "build"} : Goto(t, l)
  BY <1>3
<1>5. l \in TaskLabels /\ l \in CarrierLabels["prepare"] /\ PlaceOf(l, "prepare", b, bases[b], slot[b])
  BY <1>2 DEF TaskLabels, CarrierLabels, PlaceOf
<1>6. QED BY <1>1, <1>3, <1>4, <1>5, TaskSteps, NoKill

\* The render source is staged, or the base is given up.
LEMMA BuildTasks ==
  ASSUME TypeOK, TaskInv, SingleFlight, NEW t \in Threads, BuildRenderSource(t)
  PROVE  TaskInv' /\ ChecksHold
<1> USE DEF At, engineVars, runtimeVars
<1> DEFINE b == th[t].base
<1>1. OnTask(t) /\ th[t].pc = "build" /\ UNCHANGED <<bases, queued>>
  BY DEF BuildRenderSource, OnTask, TaskLabels
<1>2. /\ th[t].kind = "prepare" /\ bases[b].status = "Queued"
      /\ Waits("prepare", bases[b], slot[b]) /\ EntryOf(b, bases[b], slot[b])
  BY <1>1, TaskFacts, CarrierKinds DEF PlaceOf, Posted
<1>3. slot[b] = "empty" /\ ~bases[b].structure
  BY <1>2 DEF Waits
<1>4. killed' = killed
  BY <1>1, <1>3 DEF BuildRenderSource
<1>5. ASSUME NEW l \in {"disable", "disable_kill"}, Goto(t, l), slot' = slot PROVE TaskInv'
  <2>1. l \in TaskLabels /\ l \in CarrierLabels["prepare"] /\ PlaceOf(l, "prepare", b, bases[b], slot[b])
    BY <1>2 DEF TaskLabels, CarrierLabels, PlaceOf
  <2>2. QED BY <1>1, <1>2, <1>4, <1>5, <2>1, TaskSteps, NoKill
<1>6. ASSUME Goto(t, "structure"), slot' = [slot EXCEPT ![b] = "staged"] PROVE TaskInv'
  <2>1. EntryOf(b, bases[b], "staged") /\ Onward(b, bases[b], "staged")
    BY <1>2, <1>3 DEF EntryOf, Untouched, InFlight, Onward, Fallback
  <2>2. /\ "structure" \in TaskLabels /\ "structure" \in CarrierLabels["prepare"]
        /\ PlaceOf("structure", "prepare", b, bases[b], "staged")
    BY <1>3 DEF TaskLabels, CarrierLabels, PlaceOf
  <2>3. QED BY <1>1, <1>2, <1>4, <1>6, <2>1, <2>2, TaskWrites, NoKill
<1>7. QED BY <1>3, <1>4, <1>5, <1>6, NoKill DEF BuildRenderSource

\* The structure of a staged source is stored once.
LEMMA StructureTasks ==
  ASSUME TypeOK, TaskInv, SingleFlight, NEW t \in Threads, StoreStructure(t)
  PROVE  TaskInv' /\ ChecksHold
<1> USE DEF At, engineVars, runtimeVars
<1> DEFINE b == th[t].base
           l == AfterStaging(b)
           e == [bases[b] EXCEPT !.structure = TRUE]
<1>1. OnTask(t) /\ th[t].pc = "structure" /\ UNCHANGED <<slot, queued>>
  BY DEF StoreStructure, OnTask, TaskLabels
<1>2. /\ th[t].kind = "prepare" /\ bases[b].status = "Queued" /\ OwnsAs(b, "Queued")
      /\ slot[b] = "staged" /\ ~bases[b].structure /\ EntryOf(b, bases[b], slot[b])
      /\ bases[b] \in BaseState
  BY <1>1, TaskFacts, CarrierKinds DEF PlaceOf, Posted
<1>3. bases' = [bases EXCEPT ![b] = e] /\ Goto(t, l) /\ killed' = killed
  BY <1>2 DEF StoreStructure
<1>4. /\ e.status = "Queued" /\ e.structure /\ e.composite = bases[b].composite
      /\ e.assignment = bases[b].assignment /\ e.configured = bases[b].configured
  BY <1>2 DEF BaseState
<1> HIDE DEF e
<1>5. EntryOf(b, e, slot[b]) /\ Onward(b, e, slot[b])
  BY <1>2, <1>4 DEF EntryOf, Untouched, InFlight, Onward, Fallback
<1>6. l \in TaskLabels /\ l \in CarrierLabels["prepare"] /\ PlaceOf(l, "prepare", b, e, slot[b])
  BY <1>2, <1>4 DEF TaskLabels, CarrierLabels, PlaceOf, AfterStaging
<1> HIDE DEF l
<1>7. QED BY <1>1, <1>2, <1>3, <1>4, <1>5, <1>6, TaskWrites, NoKill

\* The submission of the composite, and its record under the lock.
LEMMA SubmitTasks ==
  ASSUME TypeOK, TaskInv, SingleFlight, NEW t \in Threads, SubmitComposite(t) \/ RecordComposite(t)
  PROVE  TaskInv' /\ ChecksHold
<1> USE DEF At, engineVars, runtimeVars
<1> DEFINE b == th[t].base
<1>1. OnTask(t) /\ th[t].pc \in {"submit", "submitted"} /\ UNCHANGED <<slot, queued>>
  BY DEF SubmitComposite, RecordComposite, OnTask, TaskLabels
<1>2. /\ th[t].kind = "prepare" /\ bases[b].status = "Queued" /\ OwnsAs(b, "Queued")
      /\ slot[b] = "staged" /\ bases[b].structure /\ b \in Tinted
      /\ EntryOf(b, bases[b], slot[b]) /\ bases[b] \in BaseState
  BY <1>1, TaskFacts, CarrierKinds DEF PlaceOf, Posted
<1>3. CASE SubmitComposite(t)
  <2>1. CASE Goto(t, "submitted") /\ killed' = killed
    <3>1. /\ "submitted" \in TaskLabels /\ "submitted" \in CarrierLabels["prepare"]
          /\ PlaceOf("submitted", "prepare", b, bases[b], slot[b])
      BY <1>2 DEF TaskLabels, CarrierLabels, PlaceOf
    <3>2. QED BY <1>1, <1>2, <1>3, <2>1, <3>1, TaskSteps, NoKill DEF SubmitComposite
  <2>2. CASE Return(t) /\ KillRuntime("submission rejected")
    BY <1>1, <1>3, <2>2, TaskAborts, KillDisables, KillKnown DEF SubmitComposite, SoundChecks
  <2>3. QED BY <1>3, <2>1, <2>2 DEF SubmitComposite
<1>4. CASE RecordComposite(t)
  <2> DEFINE e == [bases[b] EXCEPT !.composite = "submitted", !.status = "CompositePending"]
  <2>1. bases' = [bases EXCEPT ![b] = e] /\ Enter(t, Idle) /\ killed' = killed
    BY <1>2, <1>4 DEF RecordComposite, EntryOf, UpdatePendingWorkFlagLocked, Return
  <2>2. /\ e.status = "CompositePending" /\ e.structure = bases[b].structure
        /\ e.composite = "submitted"
        /\ e.assignment = bases[b].assignment /\ e.configured = bases[b].configured
    BY <1>2 DEF BaseState
  <2> HIDE DEF e
  <2>3. EntryOf(b, e, slot[b]) /\ Onward(b, e, slot[b]) /\ e.status \notin PostedStatus
    BY <1>2, <2>2 DEF EntryOf, Untouched, InFlight, Onward, Fallback, PostedStatus
  <2>4. QED BY <1>1, <2>1, <2>3, TaskLeaves, Leaving, NoKill
<1>5. QED BY <1>3, <1>4

\* A failure before publication disables the base.
LEMMA DisableTasks ==
  ASSUME TypeOK, TaskInv, SingleFlight, NEW t \in Threads, DisableBaseBeforePublication(t)
  PROVE  TaskInv' /\ ChecksHold
<1> USE DEF At, engineVars, runtimeVars
<1> DEFINE b == th[t].base
           e == [bases[b] EXCEPT !.status = "Disabled", !.waiting = {}, !.assignment = None]
<1>1. OnTask(t) /\ th[t].pc \in {"disable", "disable_kill"} /\ UNCHANGED <<slot, queued>>
  BY DEF DisableBaseBeforePublication, OnTask, TaskLabels
<1>2. /\ th[t].kind = "prepare" /\ bases[b].status = "Queued" /\ owner = b
      /\ Waits("prepare", bases[b], slot[b]) /\ bases[b] \in BaseState
  BY <1>1, TaskFacts, CarrierKinds DEF PlaceOf, Posted, OwnsAs
<1>3. /\ bases' = [bases EXCEPT ![b] = e] /\ Enter(t, Idle)
      /\ killed' = killed \/ KillRuntime("publication failed")
  BY <1>2 DEF DisableBaseBeforePublication, UpdatePendingWorkFlagLocked, Return
<1>4. e.status = "Disabled" /\ e.waiting = {} /\ e.structure = bases[b].structure
  BY <1>2 DEF BaseState
<1> HIDE DEF e
<1>5. EntryOf(b, e, slot[b]) /\ Onward(b, e, slot[b]) /\ e.status \notin PostedStatus
  BY <1>2, <1>4 DEF EntryOf, Waits, Untouched, InFlight, Onward, Fallback, PostedStatus
<1>6. ChecksHold /\ StaysDisabled
  BY <1>3, NoKill, KillKnown DEF SoundChecks
<1>7. QED BY <1>1, <1>3, <1>5, <1>6, TaskLeaves, Leaving

\* All of PreparePendingBase up to the activation.
LEMMA PreparationTasks ==
  ASSUME TypeOK, TaskInv, SingleFlight, NEW t \in Threads, Preparation(t)
  PROVE  TaskInv' /\ ChecksHold
BY BeginTasks, BuildTasks, StructureTasks, SubmitTasks, DisableTasks DEF Preparation

\* PollPendingComposite up to the record under the lock.
LEMMA PollTasks ==
  ASSUME TypeOK, TaskInv, SingleFlight, NEW t \in Threads, PollPendingComposite(t)
  PROVE  TaskInv' /\ ChecksHold
<1> USE DEF At, engineVars, runtimeVars
<1> DEFINE b == th[t].base
           e == [bases[b] EXCEPT !.composite = "finalized"]
<1>1. OnTask(t) /\ th[t].pc = "run" /\ th[t].kind = "poll" /\ UNCHANGED <<slot, queued>>
  BY DEF PollPendingComposite, OnTask, TaskLabels
<1>2. /\ bases[b].status = "CompositeQueued" /\ OwnsAs(b, "CompositeQueued")
      /\ EntryOf(b, bases[b], slot[b]) /\ slot[b] = "staged" /\ bases[b] \in BaseState
  BY <1>1, TaskFacts DEF Posted, EntryOf
<1>3. ASSUME NEW why \in KillReasons, KillRuntime(why), Return(t), bases' = bases,
             why \notin SoundChecks \/ killed # "no"
      PROVE  TaskInv' /\ ChecksHold
  <2>1. why # "no"
    BY DEF KillReasons
  <2>2. QED BY <1>1, <1>3, <2>1, KillDisables, KillKnown, TaskAborts
<1>4. CASE Goto(t, "requeue") /\ UNCHANGED <<killed, bases>>
  <2>1. /\ "requeue" \in TaskLabels /\ "requeue" \in CarrierLabels["poll"]
        /\ PlaceOf("requeue", "poll", b, bases[b], slot[b])
    BY DEF TaskLabels, CarrierLabels, PlaceOf, Waits
  <2>2. QED BY <1>1, <1>4, <2>1, TaskSteps, NoKill
<1>5. CASE bases' = [bases EXCEPT ![b] = e] /\ Goto(t, "polled") /\ killed' = killed
  <2>1. /\ e.status = "CompositeQueued" /\ e.structure = bases[b].structure
        /\ e.composite = "finalized" /\ e.barrier = bases[b].barrier
        /\ e.assignment = bases[b].assignment /\ e.configured = bases[b].configured
    BY <1>2 DEF BaseState
  <2> HIDE DEF e
  <2>2. EntryOf(b, e, slot[b]) /\ Onward(b, e, slot[b])
    BY <1>2, <2>1 DEF EntryOf, Untouched, InFlight, Onward, Fallback
  <2>3. /\ "polled" \in TaskLabels /\ "polled" \in CarrierLabels["poll"]
        /\ PlaceOf("polled", "poll", b, e, slot[b])
    BY <2>1 DEF TaskLabels, CarrierLabels, PlaceOf, Waits
  <2>4. QED BY <1>1, <1>2, <1>5, <2>1, <2>2, <2>3, TaskWrites, NoKill
<1>6. {"poll state", "composite timeout", "finalization", "target lost"} \subseteq KillReasons
      /\ {"composite timeout", "finalization", "target lost"} \cap SoundChecks = {}
  BY DEF KillReasons, SoundChecks
<1>7. LostSource(b) => killed # "no"
  BY <1>2 DEF LostSource, FindOwnedRenderSource, IsRuntimeOperational
<1>8. \/ \E why \in KillReasons : /\ KillRuntime(why) /\ Return(t) /\ bases' = bases
                                  /\ why \notin SoundChecks \/ killed # "no"
      \/ Goto(t, "requeue") /\ UNCHANGED <<killed, bases>>
      \/ bases' = [bases EXCEPT ![b] = e] /\ Goto(t, "polled") /\ killed' = killed
  BY <1>2, <1>6, <1>7 DEF PollPendingComposite, LookupFails
<1>9. QED BY <1>3, <1>4, <1>5, <1>8

\* The finalized composite waits for its activation.
LEMMA FinalizationTasks ==
  ASSUME TypeOK, TaskInv, SingleFlight, NEW t \in Threads, RecordFinalization(t)
  PROVE  TaskInv' /\ ChecksHold
<1> USE DEF At, engineVars, runtimeVars
<1> DEFINE b == th[t].base
           e == [bases[b] EXCEPT !.status = "CompositeFinalized"]
<1>1. OnTask(t) /\ th[t].pc = "polled" /\ UNCHANGED <<slot, queued>>
  BY DEF RecordFinalization, OnTask, TaskLabels
<1>2. /\ bases[b].status = "CompositeQueued" /\ OwnsAs(b, "CompositeQueued")
      /\ bases[b].composite = "finalized" /\ EntryOf(b, bases[b], slot[b])
      /\ bases[b] \in BaseState
  BY <1>1, TaskFacts, CarrierKinds DEF PlaceOf, Posted
<1>3. bases' = [bases EXCEPT ![b] = e] /\ Enter(t, Idle) /\ killed' = killed
  BY <1>2 DEF RecordFinalization, UpdatePendingWorkFlagLocked, SetStatus, Return
<1>4. /\ e.status = "CompositeFinalized" /\ e.structure = bases[b].structure
      /\ e.composite = "finalized" /\ e.barrier = bases[b].barrier
      /\ e.assignment = bases[b].assignment /\ e.configured = bases[b].configured
  BY <1>2 DEF BaseState
<1> HIDE DEF e
<1>5. EntryOf(b, e, slot[b]) /\ Onward(b, e, slot[b]) /\ e.status \notin PostedStatus
  BY <1>2, <1>4 DEF EntryOf, Untouched, InFlight, Onward, Fallback, PostedStatus
<1>6. QED BY <1>1, <1>3, <1>5, TaskLeaves, Leaving, NoKill

\* PollCompositeActivation: the barrier is armed first and found clear later.
LEMMA ActivationTasks ==
  ASSUME TypeOK, TaskInv, SingleFlight, NEW t \in Threads, PollCompositeActivation(t)
  PROVE  TaskInv' /\ ChecksHold
<1> USE DEF At, engineVars, runtimeVars
<1> DEFINE b == th[t].base
           e == [bases[b] EXCEPT !.barrier = TRUE, !.status = "CompositeFinalized"]
<1>1. OnTask(t) /\ th[t].pc = "run" /\ th[t].kind = "activate" /\ UNCHANGED <<slot, queued>>
  BY DEF PollCompositeActivation, OnTask, TaskLabels
<1>2. /\ bases[b].status = "CompositeActivationQueued" /\ OwnsAs(b, "CompositeActivationQueued")
      /\ EntryOf(b, bases[b], slot[b]) /\ slot[b] = "staged" /\ bases[b].structure
      /\ bases[b] \in BaseState
  BY <1>1, TaskFacts DEF Posted, EntryOf, PlaceOf, Waits, InFlight
<1>3. ASSUME NEW why \in KillReasons, KillRuntime(why), Return(t), bases' = bases,
             why \notin SoundChecks \/ killed # "no"
      PROVE  TaskInv' /\ ChecksHold
  <2>1. why # "no"
    BY DEF KillReasons
  <2>2. QED BY <1>1, <1>3, <2>1, KillDisables, KillKnown, TaskAborts
<1>4. ASSUME NEW l \in {"requeue", "validate"}, bases[b].barrier, Goto(t, l),
             UNCHANGED <<killed, bases>>
      PROVE  TaskInv' /\ ChecksHold
  <2>1. l \in TaskLabels /\ l \in CarrierLabels["activate"] /\ PlaceOf(l, "activate", b, bases[b], slot[b])
    BY <1>2, <1>4 DEF TaskLabels, CarrierLabels, PlaceOf, Waits
  <2>2. QED BY <1>1, <1>4, <2>1, TaskSteps, NoKill
<1>5. CASE bases' = [bases EXCEPT ![b] = e] /\ Return(t)
           /\ (killed' = killed \/ KillRuntime("barrier timeout"))
  <2>1. /\ e.status = "CompositeFinalized" /\ e.structure = bases[b].structure
        /\ e.composite = bases[b].composite
        /\ e.assignment = bases[b].assignment /\ e.configured = bases[b].configured
    BY <1>2 DEF BaseState
  <2> HIDE DEF e
  <2>2. EntryOf(b, e, slot[b]) /\ Onward(b, e, slot[b]) /\ e.status \notin PostedStatus
    BY <1>2, <2>1 DEF EntryOf, Untouched, InFlight, Onward, Fallback, PostedStatus
  <2>3. ChecksHold /\ StaysDisabled
    BY <1>5, NoKill, KillKnown DEF SoundChecks
  <2>4. QED BY <1>1, <1>5, <2>2, <2>3, TaskLeaves, Leaving DEF Return
<1>6. {"publication poll state", "barrier timeout", "target lost"} \subseteq KillReasons
      /\ {"barrier timeout", "target lost"} \cap SoundChecks = {}
  BY DEF KillReasons, SoundChecks
<1>7. LostSource(b) => killed # "no"
  BY <1>2 DEF LostSource, FindOwnedRenderSource, IsRuntimeOperational
<1>8. \/ \E why \in KillReasons : /\ KillRuntime(why) /\ Return(t) /\ bases' = bases
                                  /\ why \notin SoundChecks \/ killed # "no"
      \/ \E l \in {"requeue", "validate"} :
           bases[b].barrier /\ Goto(t, l) /\ UNCHANGED <<killed, bases>>
      \/ /\ bases' = [bases EXCEPT ![b] = e] /\ Return(t)
         /\ killed' = killed \/ KillRuntime("barrier timeout")
  BY <1>2, <1>6, <1>7
     DEF PollCompositeActivation, LookupFails, AwaitPublicationIdle, ArmBarrier,
         UpdatePendingWorkFlagLocked
<1>9. QED BY <1>3, <1>4, <1>5, <1>8

\* All of the composite polls.
LEMMA CompositionTasks ==
  ASSUME TypeOK, TaskInv, SingleFlight, NEW t \in Threads, Composition(t)
  PROVE  TaskInv' /\ ChecksHold
BY PollTasks, FinalizationTasks, ActivationTasks DEF Composition

\* The binding is served.
LEMMA ActivateTasks ==
  ASSUME TypeOK, TaskInv, SingleFlight, NEW t \in Threads, ActivateRenderSource(t)
  PROVE  TaskInv' /\ ChecksHold
<1> USE DEF At, engineVars, runtimeVars
<1> DEFINE b == th[t].base
           k == th[t].kind
<1>1. OnTask(t) /\ th[t].pc = "validate" /\ UNCHANGED <<bases, queued>>
  BY DEF ActivateRenderSource, OnTask, TaskLabels
<1>2. /\ k \in {"prepare", "activate"} /\ bases[b].status = Posted[k]
      /\ slot[b] = "staged" /\ bases[b].structure
      /\ IF k = "activate" THEN bases[b].barrier ELSE b \notin Tinted
      /\ EntryOf(b, bases[b], slot[b])
  BY <1>1, TaskFacts, CarrierKinds DEF PlaceOf
<1>3. CASE slot' = [slot EXCEPT ![b] = "active"] /\ Goto(t, "complete") /\ killed' = killed
  <2>1. EntryOf(b, bases[b], "active") /\ Onward(b, bases[b], "active")
    BY <1>2 DEF EntryOf, Posted, Untouched, InFlight, Onward, Fallback
  <2>2. /\ "complete" \in TaskLabels /\ "complete" \in CarrierLabels[k]
        /\ PlaceOf("complete", k, b, bases[b], "active")
    BY <1>2 DEF TaskLabels, CarrierLabels, PlaceOf
  <2>3. QED BY <1>1, <1>3, <2>1, <2>2, TaskWrites, NoKill
<1>4. CASE slot' = slot /\ Return(t) /\ KillRuntime("structure changed")
  BY <1>1, <1>4, TaskAborts, KillDisables, KillKnown DEF SoundChecks
<1>5. QED BY <1>3, <1>4 DEF ActivateRenderSource

\* The base becomes ready and its waiters are taken.
LEMMA CompleteTasks ==
  ASSUME TypeOK, TaskInv, SingleFlight, NEW t \in Threads, CompletePublication(t)
  PROVE  TaskInv' /\ ChecksHold
<1> USE DEF At, engineVars, runtimeVars
<1> DEFINE b == th[t].base
           k == th[t].kind
           e == [bases[b] EXCEPT !.status = "Ready", !.waiting = {}, !.assignment = None]
           r == [th[t] EXCEPT !.pc = "refresh", !.todo = bases[b].waiting]
<1>1. OnTask(t) /\ th[t].pc = "complete" /\ UNCHANGED <<slot, queued>>
  BY DEF CompletePublication, OnTask, TaskLabels
<1>2. /\ k \in {"prepare", "activate"} /\ bases[b].status = Posted[k] /\ OwnsAs(b, Posted[k])
      /\ slot[b] = "active" /\ EntryOf(b, bases[b], slot[b])
      /\ bases[b] \in BaseState /\ th[t] \in ThreadState
  BY <1>1, TaskFacts, CarrierKinds DEF PlaceOf
<1>3. ExpectedStatus(b) = Posted[k] /\ bases[b].configured = bases[b].assignment
  BY <1>2 DEF ExpectedStatus, Posted, EntryOf, InFlight
<1>4. CASE IsRuntimeOperational
  <2>1. bases' = [bases EXCEPT ![b] = e] /\ Enter(t, r) /\ killed' = killed
    BY <1>2, <1>3, <1>4 DEF CompletePublication, UpdatePendingWorkFlagLocked, FindOwnedRenderSource
  <2>2. /\ e.status = "Ready" /\ e.waiting = {} /\ e.structure = bases[b].structure
        /\ e.composite = bases[b].composite /\ e.barrier = bases[b].barrier
        /\ r.pc = "refresh"
    BY <1>2 DEF BaseState, ThreadState
  <2> HIDE DEF e, r
  <2>3. EntryOf(b, e, slot[b]) /\ Onward(b, e, slot[b]) /\ e.status \notin PostedStatus
    BY <1>2, <2>2 DEF EntryOf, Posted, Untouched, InFlight, Onward, Fallback, PostedStatus
  <2>4. r.pc \notin TaskLabels \cup {"set3d_lock", "deactivate"}
    BY <2>2 DEF TaskLabels
  <2>5. QED BY <1>1, <2>1, <2>3, <2>4, TaskLeaves, NoKill
<1>5. CASE ~IsRuntimeOperational
  <2>1. bases' = bases /\ Return(t) /\ KillRuntime("completion")
    BY <1>5 DEF CompletePublication, UpdatePendingWorkFlagLocked, FindOwnedRenderSource
  <2>2. QED BY <1>1, <1>5, <2>1, TaskAborts, KillDisables, KillKnown DEF IsRuntimeOperational
<1>6. QED BY <1>4, <1>5

\* The catch-up loops and the release of the ownership touch no task.
LEMMA CatchUpTasks ==
  ASSUME TypeOK, TaskInv, NEW t \in Threads,
         \/ \E r \in Refs : RefreshWaitingReference(t, r) \/ RefreshVanillaReference(t, r)
         \/ EndRefresh(t) \/ ReleasePreparationOwner(t) \/ EndVanillaRefresh(t)
  PROVE  TaskInv' /\ ChecksHold
<1> USE DEF At, engineVars, runtimeVars
<1>1. /\ ~OnTask(t) /\ th[t].pc \in {"refresh", "release", "vanilla"}
      /\ UNCHANGED <<bases, slot, queued>> /\ th[t] \in ThreadState
  BY TypedParts
     DEF RefreshWaitingReference, RefreshVanillaReference, EndRefresh, ReleasePreparationOwner,
         EndVanillaRefresh, UpdatePendingWorkFlagLocked, OnTask, TaskLabels
<1>2. \/ killed' = killed
      \/ \E why \in {"canonical changed", "threw after publication", "release"} : KillRuntime(why)
  BY DEF RefreshWaitingReference, RefreshVanillaReference, EndRefresh, ReleasePreparationOwner,
         EndVanillaRefresh
<1>3. ChecksHold /\ StaysDisabled
  BY <1>2, NoKill, KillKnown DEF SoundChecks
<1>4. ASSUME NEW r, th' = [th EXCEPT ![t] = r], r.pc \in {"idle", "refresh", "release", "vanilla"}
      PROVE  TaskInv'
  BY <1>1, <1>3, <1>4, NoTaskStays DEF TaskLabels
<1>5. ASSUME Return(t) PROVE TaskInv'
  BY <1>4, <1>5, ReturnMoves
<1>6. ASSUME NEW x, Enter(t, [th[t] EXCEPT !.todo = x]) PROVE TaskInv'
  <2> DEFINE r == [th[t] EXCEPT !.todo = x]
  <2>1. r.pc = th[t].pc /\ th' = [th EXCEPT ![t] = r]
    BY <1>1, <1>6 DEF ThreadState, Enter
  <2> HIDE DEF r
  <2>2. QED BY <1>1, <1>4, <2>1
<1>7. ASSUME Goto(t, "release") PROVE TaskInv'
  <2> DEFINE r == [th[t] EXCEPT !.pc = "release"]
  <2>1. r.pc = "release" /\ th' = [th EXCEPT ![t] = r]
    BY <1>1, <1>7 DEF ThreadState, Goto
  <2> HIDE DEF r
  <2>2. QED BY <1>4, <2>1
<1>8. QED BY <1>3, <1>5, <1>6, <1>7
         DEF RefreshWaitingReference, RefreshVanillaReference, EndRefresh,
             ReleasePreparationOwner, EndVanillaRefresh, Refreshed

\* RefreshVanillaAfterIdentityMismatch takes the waiters of a reused FormID.
LEMMA VanillaTasks ==
  ASSUME TypeOK, TaskInv, SingleFlight, NEW t \in Threads, BeginVanillaRefresh(t)
  PROVE  TaskInv' /\ ChecksHold
<1> USE DEF At, engineVars, runtimeVars
<1> DEFINE b == th[t].base
           e == [bases[b] EXCEPT !.status = "Disabled", !.waiting = {}]
           r == [th[t] EXCEPT !.pc = "vanilla", !.todo = bases[b].waiting]
<1>1. OnTask(t) /\ th[t].pc = "run" /\ th[t].kind = "vanilla" /\ UNCHANGED <<slot, queued>>
  BY DEF BeginVanillaRefresh, OnTask, TaskLabels
<1>2. /\ bases[b].status = "VanillaRefreshQueued" /\ EntryOf(b, bases[b], slot[b])
      /\ bases[b] \in BaseState /\ th[t] \in ThreadState
  BY <1>1, TaskFacts DEF Posted
<1>3. bases' = [bases EXCEPT ![b] = e] /\ Enter(t, r) /\ killed' = killed
  BY <1>2 DEF BeginVanillaRefresh, UpdatePendingWorkFlagLocked
<1>4. /\ e.status = "Disabled" /\ e.waiting = {} /\ e.structure = bases[b].structure
      /\ e.composite = bases[b].composite /\ e.barrier = bases[b].barrier
      /\ r.pc = "vanilla"
  BY <1>2 DEF BaseState, ThreadState
<1> HIDE DEF e, r
<1>5. EntryOf(b, e, slot[b]) /\ Onward(b, e, slot[b]) /\ e.status \notin PostedStatus
  BY <1>2, <1>4 DEF EntryOf, Untouched, InFlight, Onward, Fallback, PostedStatus
<1>6. r.pc \notin TaskLabels \cup {"set3d_lock", "deactivate"}
  BY <1>4 DEF TaskLabels
<1>7. QED BY <1>1, <1>3, <1>5, <1>6, TaskLeaves, NoKill

-----------------------------------------------------------------------------
(* The invariant and what it says of the coordinator.                      *)

\* Every step keeps the invariant, and no check of a transition trips in it.
LEMMA StepTasks ==
  ASSUME TypeOK, SingleFlight, BeforeArm, TaskInv, [Next]_vars
  PROVE  TaskInv' /\ ChecksHold
<1>1. ASSUME NEW t \in Threads, ThreadStep(t) PROVE TaskInv' /\ ChecksHold
  BY <1>1, ReadTasks, ObserveTasks, DeactivateTasks, SelectTasks, DispatchStepTasks,
     PreparationTasks, CompositionTasks, ActivateTasks, CompleteTasks, CatchUpTasks, VanillaTasks
     DEF ThreadStep, Event, Publication, VanillaFallback
<1>2. ASSUME UNCHANGED vars PROVE TaskInv' /\ ChecksHold
  BY <1>2, TaskInvUnchanged, NoKill DEF vars, runtimeVars
<1>3. QED BY <1>1, <1>2, StartupTasks, EngineTasks, DrainTasks, PumpTasks DEF Next

\* The process starts with nothing tracked, queued or handled.
LEMMA InitTasks == Init => TaskInv /\ BeforeArm
<1> SUFFICES ASSUME Init PROVE TaskInv /\ BeforeArm
  OBVIOUS
<1>1. /\ \A t \in Threads : th[t] = Idle /\ th[t].pc = "idle" /\ ~OnTask(t)
      /\ \A b \in Bases : bases[b] = NoEntry /\ slot[b] = "empty"
      /\ \A k \in Kinds, b \in Bases : queued[k][b] = 0
  BY DEF Init, OnTask, TaskLabels, Idle
<1>2. \A b \in Bases : EntryOf(b, bases[b], slot[b]) /\ bases[b].status = "absent"
  BY <1>1 DEF EntryOf, NoEntry, Untouched, InFlight
<1>3. QED BY <1>1, <1>2 DEF TaskInv, Tasks, TaskThreads, QueuedTasks, TasksRemain, PostedStatus,
                          Entries, Queues, Places, Events, BeforeArm

\* The inductive invariant of the tasks.
THEOREM TaskInvHolds == Spec => [](TaskInv /\ BeforeArm)
<1>1. Init => TaskInv /\ BeforeArm
  BY InitTasks
<1>2. TypeOK /\ SingleFlight /\ (TaskInv /\ BeforeArm) /\ [Next]_vars => (TaskInv /\ BeforeArm)'
  BY StepTasks, ArmFirst
<1>3. QED BY <1>1, <1>2, TypeCorrect, OneBaseInFlight, PTL DEF Spec

-----------------------------------------------------------------------------
(* What follows for the coordinator.                                       *)

\* The checks of what only the task at hand can change never trip: whatever fails,
\* is dropped or comes on another thread, KillRuntime is never called for them.
LEMMA SoundChecksHold == Spec => [](killed \notin SoundChecks)
<1>1. Init => killed \notin SoundChecks
  BY DEF Init, SoundChecks
<1>2. /\ TypeOK /\ SingleFlight /\ (TaskInv /\ BeforeArm) /\ killed \notin SoundChecks /\ [Next]_vars
      => (killed \notin SoundChecks)'
  BY StepTasks DEF ChecksHold
<1>3. QED BY <1>1, <1>2, TypeCorrect, OneBaseInFlight, TaskInvHolds, PTL DEF Spec

\* A ready base is served by the hooks, and a binding that the hooks serve or
\* have served has its structure captured and, with AVM layers, its composite
\* finalized behind an armed barrier.
THEOREM ServedIsComposed == Spec => []ReadyIsComposed
<1>1. TaskInv => ReadyIsComposed
  BY DEF TaskInv, Entries, EntryOf, ReadyIsComposed
<1>2. QED BY <1>1, TaskInvHolds, PTL

\* A base is posted exactly when one task of its kind is on its way, in the
\* engine's queue or in a thread: Post, the drain, a refused post and a drop
\* neither lose a task nor run it twice.
THEOREM OneTaskOnItsWay == Spec => []ExactlyOneTask
<1>1. ASSUME TypeOK, TaskInv, NEW k \in Kinds, NEW b \in Bases
      PROVE  /\ Carriers(k, b) <= 1
             /\ Carriers(k, b) = 1 => bases[b].status = Posted[k]
             /\ IsRuntimeOperational /\ bases[b].status = Posted[k] => Carriers(k, b) = 1
  <2> DEFINE S == {t \in Threads : /\ th[t].base = b /\ th[t].kind = k
                                   /\ th[t].pc \in CarrierLabels[k]}
  <2>1. queued[k][b] \in Nat
    BY <1>1, TypedParts
  <2>2. \A t \in S : OnTask(t)
    BY DEF OnTask, TaskLabels, CarrierLabels, Kinds
  <2>3. \A t \in Threads : OnTask(t) /\ th[t].base = b =>
          bases[b].status = Posted[th[t].kind] /\ queued[k][b] = 0 /\ th[t].kind \in Kinds
    BY <1>1, TaskBase DEF TaskInv, Tasks, TaskThreads
  <2>4. CASE S = {}
    <3>1. Carriers(k, b) = queued[k][b]
      BY <2>1, <2>4, FS_EmptySet DEF Carriers
    <3>2. queued[k][b] # 0 => queued[k][b] = 1 /\ bases[b].status = Posted[k]
      BY <1>1 DEF TaskInv, Tasks, QueuedTasks
    <3>3. ASSUME IsRuntimeOperational, bases[b].status = Posted[k] PROVE queued[k][b] # 0
      <4>1. \/ \E l \in Kinds : queued[l][b] # 0
            \/ \E t \in Threads : OnTask(t) /\ th[t].base = b
        BY <1>1, <3>3, PostedKinds DEF TaskInv, Tasks, TasksRemain
      <4>2. ASSUME NEW l \in Kinds, queued[l][b] # 0 PROVE l = k
        BY <1>1, <3>3, <4>2, PostedKinds DEF TaskInv, Tasks, QueuedTasks
      <4>3. ASSUME NEW t \in Threads, OnTask(t), th[t].base = b PROVE t \in S
        <5>1. th[t].kind = k
          BY <2>3, <3>3, <4>3, PostedKinds
        <5>2. QED BY <1>1, <4>3, <5>1 DEF TaskInv, Tasks, TaskThreads
      <4>4. QED BY <2>4, <4>1, <4>2, <4>3
    <3>4. QED BY <2>1, <3>1, <3>2, <3>3
  <2>5. ASSUME NEW t \in S PROVE Carriers(k, b) = 1 /\ bases[b].status = Posted[k]
    <3>1. \A u \in S : u = t
      BY <1>1, <2>2 DEF TaskInv, Tasks, TaskThreads
    <3>2. S = {t}
      BY <3>1
    <3>3. Cardinality(S) = 1
      BY <3>2, FS_Singleton
    <3>4. queued[k][b] = 0 /\ bases[b].status = Posted[k]
      BY <2>2, <2>3
    <3>5. QED BY <3>3, <3>4 DEF Carriers
  <2>6. QED BY <2>4, <2>5
<1>2. TypeOK /\ TaskInv => ExactlyOneTask
  BY <1>1 DEF ExactlyOneTask
<1>3. QED BY <1>2, TypeCorrect, TaskInvHolds, PTL

-----------------------------------------------------------------------------
(* The waiters.                                                            *)

\* The waiters that a base loses in this step are refreshed, or the base is
\* disabled before publication.
Served ==
  \A b \in Bases : \A r \in bases[b].waiting \ bases'[b].waiting :
    \/ \E t \in Threads : th'[t].base = b /\ r \in th'[t].todo
    \/ bases'[b].status = "Disabled" /\ slot[b] = "empty"

\* No base loses a waiter when the one entry that changes loses none.
LEMMA WaitersKept ==
  ASSUME TypeOK, NEW b \in Bases, NEW e, bases[b].waiting \subseteq e.waiting,
         bases' = [bases EXCEPT ![b] = e]
  PROVE  Served
BY TypedParts DEF Served

\* A step that leaves the bases alone serves every waiter.
LEMMA WaitersUntouched == ASSUME bases' = bases PROVE Served
BY DEF Served

\* A change of other fields keeps the waiters.
LEMMA WaitersOf ==
  ASSUME TypeOK, NEW b \in Bases
  PROVE  /\ \A x : [bases[b] EXCEPT !.status = x].waiting = bases[b].waiting
         /\ [bases[b] EXCEPT !.structure = TRUE].waiting = bases[b].waiting
         /\ [bases[b] EXCEPT !.expired = TRUE].waiting = bases[b].waiting
         /\ [bases[b] EXCEPT !.composite = "submitted", !.status = "CompositePending"].waiting
              = bases[b].waiting
         /\ [bases[b] EXCEPT !.composite = "finalized"].waiting = bases[b].waiting
         /\ [bases[b] EXCEPT !.barrier = TRUE, !.status = "CompositeFinalized"].waiting
              = bases[b].waiting
BY TypedParts DEF BaseState

\* The waiters of the entry that an event leaves.
LEMMA ObserveServes ==
  ASSUME TypeOK, TaskInv, NEW t \in Threads, ObserveReference(t)
  PROVE  Served
<1> DEFINE b == th[t].base
           entry == FindOrInherit(b, th[t].extra)
<1>1. b \in Bases /\ th[t].extra \in Bases \cup {None}
  BY InsideTyped DEF ObserveReference, At, Baseless, ThreadState
<1>2. entry \in BaseState /\ bases[b].waiting \subseteq entry.waiting
      /\ (entry.status = "Ready" => bases[b].waiting = {})
  <2>1. entry \in BaseState
    BY <1>1, EntryTyped
  <2>2. EntryOf(b, bases[b], slot[b])
    BY <1>1 DEF TaskInv, Entries
  <2>3. CASE entry = bases[b]
    BY <2>1, <2>2, <2>3 DEF EntryOf
  <2>4. CASE bases[b].status = "absent"
    BY <2>1, <2>2, <2>4 DEF EntryOf
  <2>5. QED BY <2>1, <2>3, <2>4 DEF FindOrInherit
<1> HIDE DEF entry
<1>3. CASE KeepEntry(t, entry)
  BY <1>1, <1>2, <1>3, WaitersKept DEF KeepEntry
<1>4. CASE StartVanillaFallback(t, entry)
  <2>1. [entry EXCEPT !.status = "VanillaRefreshPending", !.waiting = {th[t].ref},
                      !.assignment = None].waiting = {th[t].ref}
    BY <1>2 DEF BaseState
  <2>2. bases[b].waiting = {}
    BY <1>2, <1>4 DEF StartVanillaFallback
  <2>3. QED BY <1>1, <1>4, <2>1, <2>2, WaitersKept DEF StartVanillaFallback
<1>5. CASE JoinWaiters(t, entry)
  <2> DEFINE e == [entry EXCEPT !.waiting = @ \cup {th[t].ref},
                                !.status = IF entry.status = "Dormant" THEN "Pending" ELSE entry.status]
  <2>1. e.waiting = entry.waiting \cup {th[t].ref} /\ bases' = [bases EXCEPT ![b] = e]
    BY <1>2, <1>5 DEF BaseState, JoinWaiters
  <2> HIDE DEF e
  <2>2. QED BY <1>1, <1>2, <2>1, WaitersKept
<1>6. QED BY <1>3, <1>4, <1>5 DEF ObserveReference, entry, IgnoreReference, RejectReference

\* A step of a thread that writes no waiters, or takes them all with it.
LEMMA ThreadServes ==
  ASSUME TypeOK, TaskInv, SingleFlight, NEW t \in Threads, ThreadStep(t)
  PROVE  Served
<1> DEFINE b == th[t].base
<1> USE DEF At, UpdatePendingWorkFlagLocked, SetStatus, runtimeVars
<1>1. th[t].pc \notin Baseless => b \in Bases
  BY InsideTyped
<1>2. CASE Event(t)
  BY <1>2, ObserveServes, WaitersUntouched DEF Event, OnReferenceSet3d, DeactivateRenderSource
<1>3. CASE SelectBase(t)
  BY <1>3, WaitersUntouched DEF SelectBase
<1>4. CASE DispatchStep(t)
  <2>1. b \in Bases
    BY <1>1, <1>4
       DEF DispatchStep, TryDispatchPendingBase, TryDispatchCompositePoll,
           TryDispatchCompositeActivation, TryDispatchVanillaRefresh, DispatchComposite, Post,
           RequeueBase, RequeueComposite, RequeueCompositeActivation, RequeueVanillaRefresh,
           Requeue, Baseless
  <2>2. bases' = bases \/ \E s : bases' = [bases EXCEPT ![b].status = s]
    BY <1>4
       DEF DispatchStep, TryDispatchPendingBase, TryDispatchCompositePoll,
           TryDispatchCompositeActivation, TryDispatchVanillaRefresh, DispatchComposite, Post,
           RequeueBase, RequeueComposite, RequeueCompositeActivation, RequeueVanillaRefresh,
           Requeue, DispatchLost, DispatchBlocked, PostPosted
  <2>3. ASSUME NEW s, bases' = [bases EXCEPT ![b].status = s] PROVE Served
    BY <2>1, <2>3, WaitersKept, WaitersOf
  <2>4. QED BY <2>2, <2>3, WaitersUntouched
<1>5. CASE Preparation(t)
  <2>1. CASE BeginPreparation(t) \/ BuildRenderSource(t) \/ SubmitComposite(t)
    BY <2>1, WaitersUntouched DEF BeginPreparation, BuildRenderSource, SubmitComposite
  <2>2. CASE StoreStructure(t)
    <3>1. b \in Bases
      BY <1>1, <2>2 DEF StoreStructure, Baseless
    <3>2. bases' = bases \/ bases' = [bases EXCEPT ![b].structure = TRUE]
      BY <2>2 DEF StoreStructure
    <3>3. QED BY <3>1, <3>2, WaitersKept, WaitersUntouched, WaitersOf
  <2>3. CASE RecordComposite(t)
    <3> DEFINE e == [bases[b] EXCEPT !.composite = "submitted", !.status = "CompositePending"]
    <3>1. b \in Bases
      BY <1>1, <2>3 DEF RecordComposite, Baseless
    <3>2. bases' = bases \/ bases' = [bases EXCEPT ![b] = e]
      BY <2>3 DEF RecordComposite
    <3>3. e.waiting = bases[b].waiting
      BY <3>1, WaitersOf
    <3> HIDE DEF e
    <3>4. QED BY <3>1, <3>2, <3>3, WaitersKept, WaitersUntouched
  <2>4. CASE DisableBaseBeforePublication(t)
    <3> DEFINE e == [bases[b] EXCEPT !.status = "Disabled", !.waiting = {}, !.assignment = None]
    <3>1. OnTask(t) /\ th[t].pc \in {"disable", "disable_kill"}
      BY <2>4 DEF DisableBaseBeforePublication, OnTask, TaskLabels
    <3>2. b \in Bases /\ slot[b] = "empty" /\ bases[b] \in BaseState
      BY <3>1, TaskFacts, CarrierKinds DEF PlaceOf, Waits
    <3>3. bases' = bases \/ bases' = [bases EXCEPT ![b] = e]
      BY <2>4 DEF DisableBaseBeforePublication
    <3>4. e.status = "Disabled"
      BY <3>2 DEF BaseState
    <3> HIDE DEF e
    <3>5. QED BY <3>2, <3>3, <3>4, WaitersUntouched, TypedParts DEF Served
  <2>5. QED BY <1>5, <2>1, <2>2, <2>3, <2>4 DEF Preparation
<1>6. CASE Composition(t)
  <2> DEFINE e == [bases[b] EXCEPT !.barrier = TRUE, !.status = "CompositeFinalized"]
  <2>1. b \in Bases
    BY <1>1, <1>6
       DEF Composition, PollPendingComposite, RecordFinalization, PollCompositeActivation, Baseless
  <2>2. \/ bases' = bases \/ bases' = [bases EXCEPT ![b].composite = "finalized"]
        \/ bases' = [bases EXCEPT ![b].status = "CompositeFinalized"]
        \/ bases' = [bases EXCEPT ![b] = e]
    BY <1>6
       DEF Composition, PollPendingComposite, RecordFinalization, PollCompositeActivation,
           LookupFails, AwaitPublicationIdle, ArmBarrier
  <2>3. e.waiting = bases[b].waiting
    BY <2>1, WaitersOf
  <2> HIDE DEF e
  <2>4. QED BY <2>1, <2>2, <2>3, WaitersKept, WaitersUntouched, WaitersOf
<1>7. ASSUME NEW e, bases' = bases \/ bases' = [bases EXCEPT ![b] = e], b \in Bases,
             NEW r, r.todo = bases[b].waiting, r.base = b, Enter(t, r) \/ bases' = bases
      PROVE  Served
  BY <1>7, TypedParts DEF Served, Enter
<1>8. CASE CompletePublication(t)
  <2> DEFINE e == [bases[b] EXCEPT !.status = "Ready", !.waiting = {}, !.assignment = None]
             r == [th[t] EXCEPT !.pc = "refresh", !.todo = bases[b].waiting]
  <2>1. b \in Bases /\ r.todo = bases[b].waiting /\ r.base = b
    BY <1>1, <1>8, InsideTyped DEF CompletePublication, Baseless, ThreadState
  <2>2. (bases' = [bases EXCEPT ![b] = e] /\ Enter(t, r)) \/ bases' = bases
    BY <1>8 DEF CompletePublication
  <2> HIDE DEF e, r
  <2>3. QED BY <1>7, <2>1, <2>2
<1>9. CASE BeginVanillaRefresh(t)
  <2> DEFINE e == [bases[b] EXCEPT !.status = "Disabled", !.waiting = {}]
             r == [th[t] EXCEPT !.pc = "vanilla", !.todo = bases[b].waiting]
  <2>1. b \in Bases /\ r.todo = bases[b].waiting /\ r.base = b
    BY <1>1, <1>9, InsideTyped DEF BeginVanillaRefresh, Baseless, ThreadState
  <2>2. (bases' = [bases EXCEPT ![b] = e] /\ Enter(t, r)) \/ bases' = bases
    BY <1>9 DEF BeginVanillaRefresh
  <2> HIDE DEF e, r
  <2>3. QED BY <1>7, <2>1, <2>2
<1>10. CASE Publication(t) /\ ~CompletePublication(t)
  BY <1>10, WaitersUntouched
     DEF Publication, ActivateRenderSource, RefreshWaitingReference, EndRefresh,
         ReleasePreparationOwner
<1>11. CASE VanillaFallback(t) /\ ~BeginVanillaRefresh(t)
  BY <1>11, WaitersUntouched DEF VanillaFallback, RefreshVanillaReference, EndVanillaRefresh
<1>12. QED BY <1>2, <1>3, <1>4, <1>5, <1>6, <1>8, <1>9, <1>10, <1>11
           DEF ThreadStep, Publication, VanillaFallback

\* A waiter leaves its base's waiting set only to be refreshed by the thread
\* that publishes or withdraws the base, or because the base was disabled before
\* publication: CompletePublication and RefreshVanillaAfterIdentityMismatch take
\* every reference that observed the base, however late it joined.
THEOREM WaitersServed == Spec => WaitersAreServed
<1>1. ASSUME TypeOK, SingleFlight, BeforeArm, TaskInv, [Next]_vars PROVE Served
  <2> USE DEF runtimeVars
  <2>1. CASE Startup
    <3>1. CASE Arm(Drainer)
      <4>1. \A b \in Bases : bases[b].waiting = {}
        BY <1>1, <3>1, ThreadsAssumption DEF Arm, At, BeforeArm, TaskInv, Entries, EntryOf
      <4>2. QED BY <4>1 DEF Served
    <3>2. QED BY <2>1, <3>1, WaitersUntouched DEF Startup, StartPreparationPump
  <2>2. CASE Engine
    <3>1. ASSUME NEW b \in Bases, Expire(b) PROVE Served
      <4>1. bases' = [bases EXCEPT ![b].expired = TRUE]
        BY <3>1 DEF Expire
      <4>2. QED BY <1>1, <4>1, WaitersKept, WaitersOf
    <3>2. QED BY <2>2, <3>1, WaitersUntouched
              DEF Engine, BuildReference, UnloadReference, ReuseFormID, ToggleQueue
  <2>3. CASE Drain
    BY <2>3, WaitersUntouched DEF Drain, RunTask, DropTask
  <2>4. CASE PumpPendingBases \/ UNCHANGED vars
    BY <2>4, WaitersUntouched DEF PumpPendingBases, vars
  <2>5. QED BY <1>1, <2>1, <2>2, <2>3, <2>4, ThreadServes DEF Next
<1>2. TypeOK /\ SingleFlight /\ (TaskInv /\ BeforeArm) /\ [Next]_vars => [Served]_vars
  BY <1>1
<1>3. QED BY <1>2, TypeCorrect, OneBaseInFlight, TaskInvHolds, PTL
          DEF Spec, WaitersAreServed, Served

-----------------------------------------------------------------------------
(* The refinement of RenderSourceLifecycle.                                *)

\* What a step does to the kill switch, the slots and what references show.
Disables == /\ killed' = killed \/ \E why \in KillReasons : KillRuntime(why)
            /\ UNCHANGED <<slot, built>>
Shows    == /\ \E r \in Refs : \/ built' = [built EXCEPT ![r] = "unloaded"]
                               \/ built' = [built EXCEPT ![r] = ResolveRenderSource(BaseOf[r])]
            /\ UNCHANGED <<killed, slot>>
Binds(b, from, to) == slot[b] = from /\ slot' = [slot EXCEPT ![b] = to]
Stages   == /\ \E b \in Bases : Binds(b, "empty", "staged") /\ \A c \in Bases : slot[c] # "staged"
            /\ UNCHANGED <<killed, built>>
Serves   == (\E b \in Bases : Binds(b, "staged", "active")) /\ UNCHANGED <<killed, built>>
Withdraws == (\E b \in Bases : Binds(b, "active", "inactive")) /\ UNCHANGED <<killed, built>>
LifecycleStep == Disables \/ Shows \/ Stages \/ Serves \/ Withdraws

\* While the base of a task is about to be staged, no other source is staged.
LEMMA NothingStaged ==
  ASSUME TypeOK, TaskInv, SingleFlight, NEW t \in Threads, BuildRenderSource(t)
  PROVE  \A c \in Bases : slot[c] # "staged"
<1>1. OnTask(t) /\ th[t].pc = "build"
  BY DEF BuildRenderSource, At, OnTask, TaskLabels
<1>2. owner = th[t].base /\ slot[th[t].base] = "empty" /\ th[t].base \in Bases
  BY <1>1, TaskFacts, CarrierKinds DEF PlaceOf, Waits, OwnsAs
<1>3. \A c \in Bases : slot[c] = "staged" => owner = c
  BY DEF TaskInv, Entries, EntryOf, SingleFlight
<1>4. QED BY <1>2, <1>3

\* The steps of the threads.
LEMMA ThreadLives ==
  ASSUME TypeOK, TaskInv, SingleFlight, NEW t \in Threads, ThreadStep(t)
  PROVE  LifecycleStep
<1> USE DEF At, runtimeVars, engineVars
<1> DEFINE b == th[t].base
<1>1. KillReasons =
        {"unowned source", "identity changed in flight", "ready without binding", "deactivate",
         "invalid owner", "composite dispatched without ownership", "requeued without ownership",
         "prepared without ownership", "staged structure", "published twice", "structure",
         "publication failed", "disablement", "submission rejected", "submission state",
         "target lost", "poll state", "composite timeout", "finalization", "finalization state",
         "publication poll state", "barrier timeout", "structure changed", "completion",
         "canonical changed", "threw after publication", "release", "vanilla state"}
  BY DEF KillReasons
<1>2. CASE Event(t)
  <2>1. CASE OnReferenceSet3d(t) \/ ObserveReference(t)
    <3>1. Disables
      BY <1>1, <2>1
         DEF OnReferenceSet3d, ObserveReference, IgnoreReference, RejectReference,
             StartVanillaFallback, JoinWaiters, Disables
    <3>2. QED BY <3>1 DEF LifecycleStep
  <2>2. CASE DeactivateRenderSource(t)
    <3>1. b \in Bases
      BY <2>2, InsideTyped DEF DeactivateRenderSource, Baseless
    <3>2. CASE slot[b] = "active"
      BY <2>2, <3>1, <3>2 DEF DeactivateRenderSource, Withdraws, Binds, LifecycleStep
    <3>3. CASE slot[b] # "active"
      BY <1>1, <2>2, <3>3 DEF DeactivateRenderSource, Disables, LifecycleStep
    <3>4. QED BY <3>2, <3>3
  <2>3. QED BY <1>2, <2>1, <2>2 DEF Event
<1>3. CASE SelectBase(t)
  BY <1>1, <1>3 DEF SelectBase, UpdatePendingWorkFlagLocked, Disables, LifecycleStep
<1>4. CASE DispatchStep(t)
  <2>1. Disables
    BY <1>1, <1>4
       DEF DispatchStep, TryDispatchPendingBase, TryDispatchCompositePoll,
           TryDispatchCompositeActivation, TryDispatchVanillaRefresh, DispatchComposite, Post,
           RequeueBase, RequeueComposite, RequeueCompositeActivation, RequeueVanillaRefresh,
           Requeue, DispatchLost, DispatchBlocked, PostPosted, Disables
  <2>2. QED BY <2>1 DEF LifecycleStep
<1>5. CASE Preparation(t)
  <2>1. CASE BuildRenderSource(t)
    <3>1. b \in Bases /\ slot[b] = "empty"
      <4>1. OnTask(t) /\ th[t].pc = "build"
        BY <2>1 DEF BuildRenderSource, OnTask, TaskLabels
      <4>2. QED BY <4>1, TaskFacts, CarrierKinds DEF PlaceOf, Waits
    <3>2. CASE slot' = slot
      BY <2>1, <3>1, <3>2 DEF BuildRenderSource, Disables, LifecycleStep
    <3>3. CASE slot' = [slot EXCEPT ![b] = "staged"] /\ killed' = killed
      BY <2>1, <3>1, <3>3, NothingStaged DEF BuildRenderSource, Stages, Binds, LifecycleStep
    <3>4. QED BY <2>1, <3>1, <3>2, <3>3 DEF BuildRenderSource
  <2>2. CASE ~BuildRenderSource(t)
    <3>1. Disables
      BY <1>1, <1>5, <2>2
         DEF Preparation, BeginPreparation, StoreStructure, SubmitComposite, RecordComposite,
             DisableBaseBeforePublication, Disables
    <3>2. QED BY <3>1 DEF LifecycleStep
  <2>3. QED BY <2>1, <2>2
<1>6. CASE Composition(t)
  <2>1. Disables
    BY <1>1, <1>6
       DEF Composition, PollPendingComposite, RecordFinalization, PollCompositeActivation,
           LookupFails, AwaitPublicationIdle, ArmBarrier, Disables
  <2>2. QED BY <2>1 DEF LifecycleStep
<1>7. CASE Publication(t)
  <2>1. CASE ActivateRenderSource(t)
    <3>1. b \in Bases /\ slot[b] = "staged"
      <4>1. OnTask(t) /\ th[t].pc = "validate"
        BY <2>1 DEF ActivateRenderSource, OnTask, TaskLabels
      <4>2. QED BY <4>1, TaskFacts DEF PlaceOf
    <3>2. CASE slot' = slot
      BY <1>1, <2>1, <3>1, <3>2, TypedParts DEF ActivateRenderSource, Disables, LifecycleStep
    <3>3. CASE slot' = [slot EXCEPT ![b] = "active"] /\ killed' = killed
      BY <2>1, <3>1, <3>3 DEF ActivateRenderSource, Serves, Binds, LifecycleStep
    <3>4. QED BY <2>1, <3>2, <3>3 DEF ActivateRenderSource
  <2>2. ASSUME NEW r \in Refs, RefreshWaitingReference(t, r) PROVE LifecycleStep
    <3>1. Disables \/ Shows
      BY <1>1, <2>2 DEF RefreshWaitingReference, Rebuild, Disables, Shows
    <3>2. QED BY <3>1 DEF LifecycleStep
  <2>3. CASE CompletePublication(t) \/ EndRefresh(t) \/ ReleasePreparationOwner(t)
    <3>1. Disables
      BY <1>1, <2>3 DEF CompletePublication, EndRefresh, ReleasePreparationOwner, Disables
    <3>2. QED BY <3>1 DEF LifecycleStep
  <2>4. QED BY <1>7, <2>1, <2>2, <2>3 DEF Publication
<1>8. CASE VanillaFallback(t)
  <2>1. ASSUME NEW r \in Refs, RefreshVanillaReference(t, r) PROVE LifecycleStep
    <3>1. Disables \/ Shows
      BY <1>1, <2>1 DEF RefreshVanillaReference, Rebuild, Disables, Shows
    <3>2. QED BY <3>1 DEF LifecycleStep
  <2>2. CASE BeginVanillaRefresh(t) \/ EndVanillaRefresh(t)
    <3>1. Disables
      BY <1>1, <2>2 DEF BeginVanillaRefresh, EndVanillaRefresh, Disables
    <3>2. QED BY <3>1 DEF LifecycleStep
  <2>3. QED BY <1>8, <2>1, <2>2 DEF VanillaFallback
<1>9. QED BY <1>2, <1>3, <1>4, <1>5, <1>6, <1>7, <1>8 DEF ThreadStep

\* The steps of everybody else.
LEMMA EveryStepLives ==
  ASSUME TypeOK, TaskInv, SingleFlight, [Next]_vars
  PROVE  LifecycleStep
<1> USE DEF runtimeVars, engineVars
<1>1. CASE Engine
  <2>1. Disables \/ Shows
    BY <1>1 DEF Engine, BuildReference, UnloadReference, ReuseFormID, Expire, ToggleQueue,
                Disables, Shows
  <2>2. QED BY <2>1 DEF LifecycleStep
<1>2. CASE Startup \/ Drain \/ PumpPendingBases \/ UNCHANGED vars
  <2>1. Disables
    BY <1>2 DEF Startup, StartPreparationPump, Arm, Drain, RunTask, DropTask, PumpPendingBases,
                vars, Disables
  <2>2. QED BY <2>1 DEF LifecycleStep
<1>3. QED BY <1>1, <1>2, ThreadLives DEF Next

\* Each of them is a step of the lifecycle.
LEMMA LifecycleMoves ==
  ASSUME TypeOK, TypeOK', LifecycleStep
  PROVE  [Lifecycle!Next]_(Lifecycle!vars)
<1> DEFINE phase == [b \in Bases |-> PhaseOf[slot[b]]]
<1>0. /\ slot \in [Bases -> {"empty", "staged", "active", "inactive"}]
      /\ \A s \in {"empty", "staged", "active", "inactive"} :
           /\ PhaseOf[s] = "none" <=> s = "empty"
           /\ PhaseOf[s] = "staged" <=> s = "staged"
           /\ PhaseOf[s] = "served" <=> s = "active"
  BY TypedParts DEF PhaseOf
<1>1. CASE Disables
  <2>1. UNCHANGED <<phase, built>>
    BY <1>1 DEF Disables
  <2>2. CASE killed' = killed
    BY <2>1, <2>2 DEF Lifecycle!vars, IsRuntimeOperational
  <2>3. CASE killed = "no" /\ killed' # "no"
    <3>1. IsRuntimeOperational /\ IsRuntimeOperational' = FALSE
      BY <2>3 DEF IsRuntimeOperational
    <3>2. QED BY <2>1, <3>1 DEF Lifecycle!Next, Lifecycle!Disable
  <2>4. QED BY <1>1, <2>2, <2>3 DEF Disables, KillRuntime, KillReasons
<1>2. CASE Shows
  <2>1. UNCHANGED phase /\ IsRuntimeOperational' = IsRuntimeOperational
    BY <1>2 DEF Shows, IsRuntimeOperational
  <2>2. \A r \in Refs : ResolveRenderSource(BaseOf[r]) = Lifecycle!Shown(BaseOf[r])
    <3> TAKE r \in Refs
    <3>1. BaseOf[r] \in Bases
      BY BasesAssumption
    <3>2. phase[BaseOf[r]] = "served" <=> slot[BaseOf[r]] = "active"
      BY <1>0, <3>1
    <3>3. QED BY <3>2 DEF ResolveRenderSource, Lifecycle!Shown
  <2>3. PICK r \in Refs : \/ built' = [built EXCEPT ![r] = "unloaded"]
                          \/ built' = [built EXCEPT ![r] = ResolveRenderSource(BaseOf[r])]
    BY <1>2 DEF Shows
  <2>4. CASE built' = [built EXCEPT ![r] = "unloaded"]
    BY <2>1, <2>4 DEF Lifecycle!Next, Lifecycle!Unload
  <2>5. CASE built' = [built EXCEPT ![r] = ResolveRenderSource(BaseOf[r])]
    BY <2>1, <2>2, <2>5 DEF Lifecycle!Next, Lifecycle!Build
  <2>6. QED BY <2>3, <2>4, <2>5
<1>3. ASSUME NEW b \in Bases, NEW from \in {"empty", "staged", "active"},
             NEW to \in {"staged", "active", "inactive"}, Binds(b, from, to)
      PROVE  phase[b] = PhaseOf[from] /\ phase' = [phase EXCEPT ![b] = PhaseOf[to]]
  BY <1>0, <1>3 DEF Binds
<1>4. CASE Stages
  <2>1. PICK b \in Bases : Binds(b, "empty", "staged") /\ \A c \in Bases : slot[c] # "staged"
    BY <1>4 DEF Stages
  <2>2. \A c \in Bases : phase[c] # "staged"
    BY <1>0, <2>1
  <2>3. phase[b] = "none" /\ phase' = [phase EXCEPT ![b] = "staged"]
    BY <1>3, <2>1 DEF PhaseOf
  <2>4. UNCHANGED built /\ IsRuntimeOperational' = IsRuntimeOperational
    BY <1>4 DEF Stages, IsRuntimeOperational
  <2>5. QED BY <2>2, <2>3, <2>4 DEF Lifecycle!Next, Lifecycle!Stage
<1>5. CASE Serves
  <2>1. PICK b \in Bases : Binds(b, "staged", "active")
    BY <1>5 DEF Serves
  <2>2. phase[b] = "staged" /\ phase' = [phase EXCEPT ![b] = "served"]
    BY <1>3, <2>1 DEF PhaseOf
  <2>3. UNCHANGED built /\ IsRuntimeOperational' = IsRuntimeOperational
    BY <1>5 DEF Serves, IsRuntimeOperational
  <2>4. QED BY <2>2, <2>3 DEF Lifecycle!Next, Lifecycle!Serve
<1>6. CASE Withdraws
  <2>1. PICK b \in Bases : Binds(b, "active", "inactive")
    BY <1>6 DEF Withdraws
  <2>2. phase[b] = "served" /\ phase' = [phase EXCEPT ![b] = "withdrawn"]
    BY <1>3, <2>1 DEF PhaseOf
  <2>3. UNCHANGED built /\ IsRuntimeOperational' = IsRuntimeOperational
    BY <1>6 DEF Withdraws, IsRuntimeOperational
  <2>4. QED BY <2>2, <2>3 DEF Lifecycle!Next, Lifecycle!Withdraw
<1>7. QED BY <1>1, <1>2, <1>4, <1>5, <1>6 DEF LifecycleStep

\* The coordinator implements RenderSourceLifecycle: one source is staged at a
\* time, it is served only after staging, withdrawn for good, and no 3D build
\* reads a source once KillRuntime has disabled the process.
THEOREM LifecycleImplemented == Spec => ImplementsLifecycle
<1>1. Init => Lifecycle!Init
  BY DEF Init, Lifecycle!Init, IsRuntimeOperational, PhaseOf
<1>2. /\ TypeOK /\ TypeOK' /\ SingleFlight /\ (TaskInv /\ BeforeArm) /\ [Next]_vars
      => [Lifecycle!Next]_(Lifecycle!vars)
  BY EveryStepLives, LifecycleMoves
<1>3. QED BY <1>1, <1>2, TypeCorrect, OneBaseInFlight, TaskInvHolds, PTL
          DEF Spec, ImplementsLifecycle, Lifecycle!Spec

\* A process that is disabled stays so, for the first reason.
LEMMA KilledForGood ==
  ASSUME TypeOK, TaskInv, SingleFlight, [Next]_vars, killed # "no"
  PROVE  killed' = killed
<1>1. LifecycleStep
  BY EveryStepLives
<1>2. QED BY <1>1 DEF LifecycleStep, Disables, KillRuntime, Shows, Stages, Serves, Withdraws

-----------------------------------------------------------------------------
(* The refinement of RenderSourceStages.                                   *)

\* Only a base with layers is composited, and the barrier is armed after it.
LayersOf(b, e) ==
  /\ e.composite # "none" => b \in Tinted
  /\ e.barrier => e.composite = "finalized"
Layers == \A b \in Bases : LayersOf(b, bases[b])

\* A thread has just submitted the composite of base c.
Submitting(c) == \E t \in Threads : th[t].pc = "submitted" /\ th[t].base = c

\* The step leaves base c at its stage.
Unmoved(c) ==
  /\ slot'[c] = slot[c]
  /\ slot[c] = "empty" => (bases'[c].status = "Disabled" <=> bases[c].status = "Disabled")
  /\ slot[c] = "staged" =>
       /\ bases'[c].composite = bases[c].composite /\ bases'[c].barrier = bases[c].barrier
       /\ Submitting(c)' <=> Submitting(c)

StageStep(c) == Progress(c)!Next \/ UNCHANGED Progress(c)!vars

\* Every base goes on, and its layers are composited in order.
Advances == Layers' /\ \A c \in Bases : StageStep(c)

\* What the parts of a base say of its stage, before a step and after it.
LEMMA StageIs ==
  ASSUME NEW c \in Bases
  PROVE  /\ slot[c] = "empty" =>
              StageOf(c) = IF bases[c].status = "Disabled" THEN "vanilla" ELSE "nothing"
         /\ slot[c] = "active" => StageOf(c) = "served"
         /\ slot[c] = "inactive" => StageOf(c) = "withdrawn"
         /\ slot[c] = "staged" =>
              StageOf(c) = IF bases[c].barrier THEN "armed"
                           ELSE IF bases[c].composite = "finalized" THEN "finalized"
                           ELSE IF bases[c].composite # "none" \/ Submitting(c) THEN "composing"
                           ELSE "staged"
<1>1. ASSUME slot[c] = "empty"
      PROVE  StageOf(c) = IF bases[c].status = "Disabled" THEN "vanilla" ELSE "nothing"
  BY <1>1, Zenon DEF StageOf
<1>2. ASSUME slot[c] = "active" PROVE StageOf(c) = "served"
  BY <1>2, Zenon DEF StageOf
<1>3. ASSUME slot[c] = "inactive" PROVE StageOf(c) = "withdrawn"
  BY <1>3, Zenon DEF StageOf
<1>4. ASSUME slot[c] = "staged"
      PROVE  StageOf(c) = IF bases[c].barrier THEN "armed"
                          ELSE IF bases[c].composite = "finalized" THEN "finalized"
                          ELSE IF bases[c].composite # "none" \/ Submitting(c) THEN "composing"
                          ELSE "staged"
  BY <1>4, Zenon DEF StageOf, Submitted, Submitting, At
<1>5. QED BY <1>1, <1>2, <1>3, <1>4, Zenon

LEMMA StageBecomes ==
  ASSUME NEW c \in Bases
  PROVE  /\ slot'[c] = "empty" =>
              StageOf(c)' = IF bases'[c].status = "Disabled" THEN "vanilla" ELSE "nothing"
         /\ slot'[c] = "active" => StageOf(c)' = "served"
         /\ slot'[c] = "inactive" => StageOf(c)' = "withdrawn"
         /\ slot'[c] = "staged" =>
              StageOf(c)' = IF bases'[c].barrier THEN "armed"
                            ELSE IF bases'[c].composite = "finalized" THEN "finalized"
                            ELSE IF bases'[c].composite # "none" \/ Submitting(c)' THEN "composing"
                            ELSE "staged"
<1>1. ASSUME slot'[c] = "empty"
      PROVE  StageOf(c)' = IF bases'[c].status = "Disabled" THEN "vanilla" ELSE "nothing"
  BY <1>1, Zenon DEF StageOf
<1>2. ASSUME slot'[c] = "active" PROVE StageOf(c)' = "served"
  BY <1>2, Zenon DEF StageOf
<1>3. ASSUME slot'[c] = "inactive" PROVE StageOf(c)' = "withdrawn"
  BY <1>3, Zenon DEF StageOf
<1>4. ASSUME slot'[c] = "staged"
      PROVE  StageOf(c)' = IF bases'[c].barrier THEN "armed"
                           ELSE IF bases'[c].composite = "finalized" THEN "finalized"
                           ELSE IF bases'[c].composite # "none" \/ Submitting(c)' THEN "composing"
                           ELSE "staged"
  BY <1>4, Zenon DEF StageOf, Submitted, Submitting, At
<1>5. QED BY <1>1, <1>2, <1>3, <1>4, Zenon

\* A base that the step leaves at its stage stutters, or sees the process disabled.
LEMMA UnmovedStays ==
  ASSUME TypeOK, TypeOK', NEW c \in Bases, Unmoved(c), StaysDisabled
  PROVE  StageStep(c)
<1>1. slot[c] \in {"empty", "staged", "active", "inactive"} /\ slot'[c] = slot[c]
  BY DEF TypeOK, Unmoved
<1>2. StageOf(c)' = StageOf(c)
  BY <1>1, StageIs, StageBecomes DEF Unmoved
<1>3. (slot[c] # "empty" /\ c \in Tinted)' = (slot[c] # "empty" /\ c \in Tinted)
  BY <1>1
<1>4. IsRuntimeOperational' \in BOOLEAN /\ (IsRuntimeOperational' => IsRuntimeOperational)
  BY DEF StaysDisabled, IsRuntimeOperational
<1>5. QED BY <1>2, <1>3, <1>4 DEF StageStep, Progress!Next, Progress!Stop, Progress!MayStop

\* The bases that a step of thread t on base b is not about.
LEMMA OthersUnmoved ==
  ASSUME TypeOK, TypeOK', Layers, StaysDisabled, NEW t \in Threads, NEW r, NEW b \in Bases,
         NEW e, NEW s, Moves(t, r, b, e, s), LayersOf(b, e), StageStep(b),
         th[t].pc = "submitted" => th[t].base = b, r.pc = "submitted" => r.base = b
  PROVE  Advances
<1>1. Layers'
  BY DEF Layers, LayersOf, Moves
<1>2. ASSUME NEW c \in Bases \ {b} PROVE StageStep(c)
  <2>1. slot'[c] = slot[c] /\ bases'[c] = bases[c]
    BY DEF Moves
  <2>2. Submitting(c)' <=> Submitting(c)
    BY <1>2 DEF Submitting, Moves
  <2>3. QED BY <1>2, <2>1, <2>2, UnmovedStays DEF Unmoved
<1>3. QED BY <1>1, <1>2 DEF Advances

\* A step that is about no stage: it leaves the slots, and of the entry e that it may
\* write it leaves what the stage depends on.
LEMMA NothingMoves ==
  ASSUME TypeOK, TypeOK', Layers, StaysDisabled, slot' = slot,
         \A c \in Bases : Submitting(c)' <=> Submitting(c),
         \/ bases' = bases
         \/ \E b \in Bases : \E e :
              /\ bases' = [bases EXCEPT ![b] = e]
              /\ e.composite = bases[b].composite /\ e.barrier = bases[b].barrier
              /\ slot[b] = "empty" => (e.status = "Disabled" <=> bases[b].status = "Disabled")
  PROVE  Advances
<1>1. CASE bases' = bases
  BY <1>1, UnmovedStays DEF Unmoved, Layers, Advances
<1>2. CASE bases' # bases
  <2> DEFINE Writes(b, e) ==
              /\ bases' = [bases EXCEPT ![b] = e]
              /\ e.composite = bases[b].composite /\ e.barrier = bases[b].barrier
              /\ slot[b] = "empty" => (e.status = "Disabled" <=> bases[b].status = "Disabled")
  <2>0. PICK b \in Bases : \E e : Writes(b, e)
    BY <1>2
  <2>1. PICK e : Writes(b, e)
    BY <2>0
  <2>2. bases'[b] = e /\ \A c \in Bases \ {b} : bases'[c] = bases[c]
    BY <2>1, TypedParts
  <2>3. Layers'
    BY <2>1, <2>2 DEF Layers, LayersOf
  <2>4. \A c \in Bases : Unmoved(c)
    BY <2>1, <2>2 DEF Unmoved
  <2>5. QED BY <2>3, <2>4, UnmovedStays DEF Advances
<1>3. QED BY <1>1, <1>2

\* Nobody submits anything when the only thread that moves does not.
LEMMA NobodySubmits ==
  ASSUME TypeOK, NEW t \in Threads, ThreadStep(t), th[t].pc \notin {"submit", "submitted"}
  PROVE  \A c \in Bases : Submitting(c)' <=> Submitting(c)
<1>1. \A u \in Threads \ {t} : th'[u] = th[u]
  BY ThreadMoves
<1>2. th'[t].pc # "submitted"
  BY ThreadMoves
<1>3. QED BY <1>1, <1>2 DEF Submitting

\* The change of one field leaves the others, whatever the stage depends on included.
LEMMA StageFields ==
  ASSUME NEW e \in BaseState
  PROVE  /\ \A x : LET n == [e EXCEPT !.status = x]
                   IN  n.status = x /\ n.composite = e.composite /\ n.barrier = e.barrier
         /\ \A x, y : LET n == [e EXCEPT !.status = x, !.waiting = y]
                      IN  n.status = x /\ n.composite = e.composite /\ n.barrier = e.barrier
         /\ \A x, y, z : LET n == [e EXCEPT !.status = x, !.waiting = y, !.assignment = z]
                         IN  n.status = x /\ n.composite = e.composite /\ n.barrier = e.barrier
BY DEF BaseState

\* The entry that an event finds is at the stage of the one it replaces.
LEMMA FoundStage ==
  ASSUME TypeOK, TaskInv, Layers, NEW b \in Bases, NEW c \in Bases \cup {None}
  PROVE  LET entry == FindOrInherit(b, c)
         IN  /\ entry \in BaseState
             /\ entry.composite = bases[b].composite /\ entry.barrier = bases[b].barrier
             /\ entry.status = "Disabled" <=> bases[b].status = "Disabled"
             /\ entry.status = "Ready" <=> bases[b].status = "Ready"
<1>1. FindOrInherit(b, c) \in BaseState
  BY EntryTyped
<1>2. CASE bases[b].status = "absent"
  <2>1. bases[b].composite = "none" /\ bases[b].barrier = FALSE
    <3>1. bases[b].composite = "none"
      BY <1>2 DEF TaskInv, Entries, EntryOf, Untouched
    <3>2. bases[b].barrier \in BOOLEAN
      BY TypedParts DEF BaseState
    <3>3. QED BY <3>1, <3>2 DEF Layers, LayersOf
  <2>2. /\ Dormant(c).composite = "none" /\ Dormant(c).barrier = FALSE
        /\ Dormant(c).status = "Dormant"
    BY DEF Dormant, NoEntry
  <2>3. QED BY <1>1, <1>2, <2>1, <2>2 DEF FindOrInherit
<1>3. CASE bases[b].status # "absent"
  BY <1>1, <1>3 DEF FindOrInherit
<1>4. QED BY <1>2, <1>3

\* An event starts, joins or falls back; only the withdrawal of a binding is a stage.
LEMMA EventAdvances ==
  ASSUME TypeOK, TypeOK', TaskInv, Layers, StaysDisabled, NEW t \in Threads,
         ThreadStep(t), Event(t)
  PROVE  Advances
<1>1. th[t].pc \in Handling
  BY DEF Event, OnReferenceSet3d, ObserveReference, DeactivateRenderSource, At, Handling
<1>0. th[t].base \in Bases /\ th[t].extra \in Bases \cup {None}
  BY <1>1, InsideTyped DEF Handling, Baseless, ThreadState
<1>2. PICK b \in Bases : b = th[t].base
  BY <1>0
<1> DEFINE entry == FindOrInherit(b, th[t].extra)
<1>3. \A c \in Bases : Submitting(c)' <=> Submitting(c)
  BY <1>1, NobodySubmits DEF Handling
<1>4. CASE OnReferenceSet3d(t)
  BY <1>3, <1>4, NothingMoves DEF OnReferenceSet3d, runtimeVars
<1>5. CASE ObserveReference(t)
  <2>1. /\ entry \in BaseState
        /\ entry.composite = bases[b].composite /\ entry.barrier = bases[b].barrier
        /\ entry.status = "Disabled" <=> bases[b].status = "Disabled"
        /\ entry.status = "Ready" <=> bases[b].status = "Ready"
    BY <1>0, FoundStage
  <2> HIDE DEF entry
  <2>2. slot' = slot
    BY <1>5 DEF ObserveReference
  <2>3. ASSUME NEW e, bases' = [bases EXCEPT ![b] = e],
               e.composite = entry.composite, e.barrier = entry.barrier,
               slot[b] = "empty" => (e.status = "Disabled" <=> entry.status = "Disabled")
        PROVE  Advances
    <3>1. /\ e.composite = bases[b].composite /\ e.barrier = bases[b].barrier
          /\ slot[b] = "empty" => (e.status = "Disabled" <=> bases[b].status = "Disabled")
      BY <2>1, <2>3
    <3>2. QED BY <1>3, <2>2, <2>3, <3>1, NothingMoves
  <2>4. CASE KeepEntry(t, entry)
    BY <1>2, <2>3, <2>4 DEF KeepEntry
  <2>5. CASE StartVanillaFallback(t, entry)
    <3> DEFINE e == [entry EXCEPT !.status = "VanillaRefreshPending", !.waiting = {th[t].ref},
                                  !.assignment = None]
    <3>1. e.composite = entry.composite /\ e.barrier = entry.barrier
      BY <2>1, StageFields
    <3>2. bases' = [bases EXCEPT ![b] = e]
      BY <1>2, <2>5 DEF StartVanillaFallback
    <3>3. slot[b] # "empty"
      <4>1. bases[b].status = "Ready"
        BY <2>1, <2>5 DEF StartVanillaFallback
      <4>2. QED BY <1>2, <4>1 DEF TaskInv, Entries, EntryOf
    <3> HIDE DEF e
    <3>4. QED BY <2>3, <3>1, <3>2, <3>3
  <2>6. CASE JoinWaiters(t, entry)
    <3> DEFINE starts == entry.status = "Dormant"
               e == [entry EXCEPT !.waiting = @ \cup {th[t].ref},
                                  !.status = IF starts THEN "Pending" ELSE entry.status]
    <3>1. /\ e.composite = entry.composite /\ e.barrier = entry.barrier
          /\ e.status = IF starts THEN "Pending" ELSE entry.status
      BY <2>1 DEF BaseState
    <3>2. bases' = [bases EXCEPT ![b] = e]
      BY <1>2, <2>6 DEF JoinWaiters
    <3> HIDE DEF e
    <3>3. QED BY <2>3, <3>1, <3>2
  <2>7. QED BY <1>2, <1>5, <2>4, <2>5, <2>6
            DEF ObserveReference, entry, IgnoreReference, RejectReference
<1>6. CASE DeactivateRenderSource(t)
  <2>1. slot[b] = "active" /\ th[t].pc = "deactivate"
    BY <1>2, <1>6 DEF DeactivateRenderSource, TaskInv, Events, At
  <2>2. PICK r : th' = [th EXCEPT ![t] = r] /\ r.pc = "dispatch"
    BY <1>2, <1>6, <2>1, DispatchMoves DEF DeactivateRenderSource
  <2>3. slot' = [slot EXCEPT ![b] = "inactive"] /\ bases' = bases /\ killed' = killed
    BY <1>2, <1>6, <2>1 DEF DeactivateRenderSource, runtimeVars
  <2>4. Moves(t, r, b, bases[b], "inactive")
    BY <1>2, <2>2, <2>3, MovesBy
  <2>5. slot'[b] = "inactive" /\ IsRuntimeOperational' = IsRuntimeOperational
    BY <2>3, <2>4 DEF Moves, IsRuntimeOperational
  <2>6. StageOf(b) = "served" /\ StageOf(b)' = "withdrawn"
    BY <1>2, <2>1, <2>5, StageIs, StageBecomes
  <2>7. StageStep(b)
    BY <2>1, <2>5, <2>6 DEF StageStep, Progress!Next, Progress!Withdraw, Progress!Advance
  <2>8. QED BY <1>2, <2>1, <2>2, <2>4, <2>7, OthersUnmoved DEF Layers
<1>7. QED BY <1>4, <1>5, <1>6 DEF Event

\* The pump and the dispatches move tasks, and no base.
LEMMA DispatchAdvances ==
  ASSUME TypeOK, TypeOK', TaskInv, Layers, StaysDisabled, NEW t \in Threads,
         ThreadStep(t), SelectBase(t) \/ DispatchStep(t)
  PROVE  Advances
<1> DEFINE b == th[t].base
<1>1. th[t].pc \in {"pump", "dispatch", "post", "requeue"}
  BY DEF SelectBase, DispatchStep, TryDispatchPendingBase, TryDispatchCompositePoll,
         TryDispatchCompositeActivation, TryDispatchVanillaRefresh, DispatchComposite, Post,
         RequeueBase, RequeueComposite, RequeueCompositeActivation, RequeueVanillaRefresh,
         Requeue, At
<1>2. \A c \in Bases : Submitting(c)' <=> Submitting(c)
  BY <1>1, NobodySubmits
<1>3. slot' = slot
  BY DEF SelectBase, DispatchStep, TryDispatchPendingBase, TryDispatchCompositePoll,
         TryDispatchCompositeActivation, TryDispatchVanillaRefresh, DispatchComposite, Post,
         RequeueBase, RequeueComposite, RequeueCompositeActivation, RequeueVanillaRefresh,
         Requeue
<1>4. CASE SelectBase(t)
  <2>1. bases' = bases
    BY <1>4 DEF SelectBase, UpdatePendingWorkFlagLocked, runtimeVars
  <2>2. QED BY <1>2, <1>3, <2>1, NothingMoves
<1>5. CASE DispatchStep(t)
  <2>1. b \in Bases
    <3>1. th[t].pc # "pump"
      BY <1>5 DEF DispatchStep, TryDispatchPendingBase, TryDispatchCompositePoll,
           TryDispatchCompositeActivation, TryDispatchVanillaRefresh, DispatchComposite, Post,
           RequeueBase, RequeueComposite, RequeueCompositeActivation, RequeueVanillaRefresh,
           Requeue, At
    <3>2. QED BY <1>1, <3>1, InsideTyped DEF Baseless
  <2>2. bases' = bases \/ \E k \in Kinds : \E s : /\ s \in {Posted[k], Parked[k]}
                                              /\ bases' = [bases EXCEPT ![b].status = s]
                                              /\ bases[b].status \in {Posted[k], Parked[k]}
    <3>1. th[t].kind \in Kinds
      BY <2>1, TypedParts DEF ThreadState
    <3>2. Parked["prepare"] = "Pending" /\ Parked["vanilla"] = "VanillaRefreshPending"
      BY DEF Parked
    <3>3. QED BY <1>5, <3>1, <3>2
       DEF DispatchStep, TryDispatchPendingBase, TryDispatchCompositePoll,
           TryDispatchCompositeActivation, TryDispatchVanillaRefresh, DispatchComposite, Post,
           RequeueBase, RequeueComposite, RequeueCompositeActivation, RequeueVanillaRefresh,
           Requeue, DispatchLost, DispatchBlocked, PostPosted, UpdatePendingWorkFlagLocked,
           SetStatus, runtimeVars
  <2>3. ASSUME NEW k \in Kinds, NEW s \in {Posted[k], Parked[k]},
               bases' = [bases EXCEPT ![b].status = s], bases[b].status \in {Posted[k], Parked[k]}
        PROVE  Advances
    <3> DEFINE e == [bases[b] EXCEPT !.status = s]
    <3>1. e.status = s /\ e.composite = bases[b].composite /\ e.barrier = bases[b].barrier
      BY <2>1, StageFields, TypedParts
    <3>2. s # "Disabled" /\ bases[b].status # "Disabled"
      BY <2>3 DEF Kinds, Posted, Parked
    <3>3. bases' = [bases EXCEPT ![b] = e]
      BY <2>3
    <3> HIDE DEF e
    <3>4. QED BY <1>2, <1>3, <2>1, <3>1, <3>2, <3>3, NothingMoves
  <2>4. QED BY <1>2, <1>3, <2>2, <2>3, NothingMoves
<1>6. QED BY <1>4, <1>5

\* A thread on a task is the only one that may have submitted its base.
LEMMA StillAlone ==
  ASSUME TypeOK, TaskInv, NEW t \in Threads, OnTask(t), NEW b \in Bases, b = th[t].base,
         \A u \in Threads \ {t} : th'[u] = th[u]
  PROVE  /\ th[t].pc # "submitted" => ~Submitting(b)
         /\ th'[t].pc # "submitted" => ~Submitting(b)'
<1>1. \A u \in Threads \ {t} : th[u].pc = "submitted" => th[u].base # b
  BY Alone DEF OnTask, TaskLabels
<1>2. QED BY <1>1 DEF Submitting

\* Without a kill the process goes on as it was; otherwise it is disabled.
LEMMA MayBeDisabled ==
  ASSUME StaysDisabled
  PROVE  /\ IsRuntimeOperational' \in BOOLEAN /\ (IsRuntimeOperational' => IsRuntimeOperational)
         /\ killed' = killed => IsRuntimeOperational' = IsRuntimeOperational
BY DEF StaysDisabled, IsRuntimeOperational

\* The carrier is staged: its base is published.
LEMMA BuildAdvances ==
  ASSUME TypeOK, TypeOK', TaskInv, SingleFlight, Layers, StaysDisabled, NEW t \in Threads,
         ThreadStep(t), BuildRenderSource(t)
  PROVE  Advances
<1>1. OnTask(t) /\ th[t].pc = "build"
  BY DEF BuildRenderSource, At, OnTask, TaskLabels
<1>2. PICK b \in Bases : b = th[t].base
  BY <1>1, TaskFacts
<1>3. bases' = bases
  BY DEF BuildRenderSource, runtimeVars
<1>4. CASE slot' = slot
  BY <1>1, <1>3, <1>4, NobodySubmits, NothingMoves
<1>5. CASE slot' # slot
  <2>1. slot[b] = "empty" /\ slot' = [slot EXCEPT ![b] = "staged"] /\ Goto(t, "structure")
        /\ killed' = killed
    BY <1>2, <1>5 DEF BuildRenderSource
  <2>2. bases[b].status = "Queued" /\ bases[b].composite = "none" /\ ~bases[b].barrier
    <3>1. bases[b].status = "Queued"
      BY <1>1, <1>2, TaskFacts, CarrierKinds DEF Posted
    <3>2. bases[b].composite = "none"
      BY <3>1 DEF TaskInv, Entries, EntryOf
    <3>3. QED BY <3>1, <3>2 DEF Layers, LayersOf
  <2> DEFINE r == [th[t] EXCEPT !.pc = "structure"]
  <2>3. r.pc = "structure"
    BY <1>1, TaskFacts DEF ThreadState
  <2>4. Moves(t, r, b, bases[b], "staged")
    BY <1>3, <2>1, MovesBy DEF Goto
  <2> HIDE DEF r
  <2>5. ~Submitting(b)'
    BY <1>1, <1>2, <2>3, <2>4, StillAlone DEF Moves
  <2>6. slot'[b] = "staged" /\ bases'[b] = bases[b]
    BY <2>4 DEF Moves
  <2>7. StageOf(b) = "nothing"
    BY <2>1, <2>2, StageIs
  <2>8. StageOf(b)' = "staged"
    BY <2>2, <2>5, <2>6, StageBecomes
  <2>9. StageStep(b)
    BY <2>1, <2>7, <2>8, MayBeDisabled DEF StageStep, Progress!Next, Progress!Publish
  <2>10. QED BY <1>1, <2>3, <2>4, <2>9, OthersUnmoved DEF Layers
<1>6. QED BY <1>4, <1>5

\* A staged source with layers is submitted, and the submission recorded.
LEMMA SubmitAdvances ==
  ASSUME TypeOK, TypeOK', TaskInv, SingleFlight, Layers, StaysDisabled, NEW t \in Threads,
         ThreadStep(t), SubmitComposite(t) \/ RecordComposite(t)
  PROVE  Advances
<1>1. OnTask(t) /\ th[t].pc \in {"submit", "submitted"}
  BY DEF SubmitComposite, RecordComposite, At, OnTask, TaskLabels
<1>2. PICK b \in Bases : b = th[t].base
  BY <1>1, TaskFacts
<1>3. /\ slot[b] = "staged" /\ b \in Tinted /\ OwnsAs(b, "Queued") /\ bases[b] \in BaseState
      /\ bases[b].composite = "none" /\ ~bases[b].barrier
  <2>1. th[t].kind = "prepare"
    BY <1>1, TaskFacts, CarrierKinds
  <2>2. slot[b] = "staged" /\ b \in Tinted /\ OwnsAs(b, "Queued")
    BY <1>1, <1>2, <2>1, TaskFacts DEF PlaceOf, Posted
  <2>3. bases[b].composite = "none"
    BY <2>2 DEF TaskInv, Entries, EntryOf, OwnsAs
  <2>4. QED BY <2>2, <2>3, TypedParts DEF Layers, LayersOf
<1>4. slot' = slot /\ \A u \in Threads \ {t} : th'[u] = th[u]
  BY ThreadMoves DEF SubmitComposite, RecordComposite
<1>5. CASE SubmitComposite(t) /\ Goto(t, "submitted") /\ killed' = killed /\ IsRuntimeOperational
  <2> DEFINE r == [th[t] EXCEPT !.pc = "submitted"]
  <2>1. r.pc = "submitted" /\ r.base = b
    BY <1>1, <1>2, TaskFacts DEF ThreadState
  <2>2. bases' = bases /\ th[t].pc = "submit"
    BY <1>5 DEF SubmitComposite, runtimeVars, At
  <2>3. Moves(t, r, b, bases[b], slot[b])
    BY <1>4, <1>5, <2>2, MovesBy DEF Goto
  <2> HIDE DEF r
  <2>4. ~Submitting(b) /\ Submitting(b)'
    BY <1>1, <1>2, <1>4, <2>1, <2>2, <2>3, StillAlone DEF Moves, Submitting
  <2>5. StageOf(b) = "staged"
    BY <1>3, <2>4, StageIs
  <2>6. StageOf(b)' = "composing"
    BY <1>3, <1>4, <2>2, <2>4, StageBecomes
  <2>7. StageStep(b)
    BY <1>3, <1>4, <1>5, <2>5, <2>6, MayBeDisabled
       DEF StageStep, Progress!Next, Progress!Submit, Progress!Advance
  <2>8. QED BY <1>2, <2>1, <2>2, <2>3, <2>7, OthersUnmoved DEF Layers
<1>6. CASE SubmitComposite(t) /\ Return(t)
  <2>1. th'[t].pc # "submitted" /\ th[t].pc # "submitted" /\ bases' = bases
    BY <1>6, TypedParts DEF SubmitComposite, runtimeVars, Return, Enter, Idle, At
  <2>2. \A c \in Bases : Submitting(c)' <=> Submitting(c)
    BY <1>4, <2>1 DEF Submitting
  <2>3. QED BY <1>4, <2>1, <2>2, NothingMoves
<1>7. CASE RecordComposite(t)
  <2> DEFINE e == [bases[b] EXCEPT !.composite = "submitted", !.status = "CompositePending"]
  <2>1. e.composite = "submitted" /\ e.barrier = bases[b].barrier
    BY <1>3 DEF BaseState
  <2>2. bases' = [bases EXCEPT ![b] = e] /\ killed' = killed /\ Return(t) /\ th[t].pc = "submitted"
    BY <1>2, <1>3, <1>7 DEF RecordComposite, UpdatePendingWorkFlagLocked, At
  <2> HIDE DEF e
  <2>3. Moves(t, Idle, b, e, slot[b]) /\ Idle.pc = "idle"
    BY <1>4, <2>2, MovesBy, ReturnMoves
  <2>4. Submitting(b)
    BY <1>2, <2>2 DEF Submitting
  <2>5. StageOf(b) = "composing"
    BY <1>3, <2>4, StageIs
  <2>6. bases'[b] = e
    BY <2>3 DEF Moves
  <2>7. StageOf(b)' = "composing"
    BY <1>3, <1>4, <2>1, <2>6, StageBecomes
  <2>8. StageStep(b)
    BY <1>4, <2>2, <2>5, <2>7, MayBeDisabled DEF StageStep, Progress!vars
  <2>9. QED BY <1>2, <1>3, <2>1, <2>3, <2>8, OthersUnmoved DEF LayersOf
<1>8. QED BY <1>5, <1>6, <1>7 DEF SubmitComposite

\* Before publication a base falls back to vanilla, and stays there.
LEMMA DisableAdvances ==
  ASSUME TypeOK, TypeOK', TaskInv, SingleFlight, Layers, StaysDisabled, NEW t \in Threads,
         ThreadStep(t), DisableBaseBeforePublication(t)
  PROVE  Advances
<1>1. OnTask(t) /\ th[t].pc \in {"disable", "disable_kill"}
  BY DEF DisableBaseBeforePublication, At, OnTask, TaskLabels
<1>2. PICK b \in Bases : b = th[t].base
  BY <1>1, TaskFacts
<1>3. slot[b] = "empty" /\ OwnsAs(b, "Queued") /\ bases[b] \in BaseState
  <2>1. th[t].kind = "prepare"
    BY <1>1, TaskFacts, CarrierKinds
  <2>2. QED BY <1>1, <1>2, <2>1, TaskFacts DEF PlaceOf, Waits, Posted
<1> DEFINE e == [bases[b] EXCEPT !.status = "Disabled", !.waiting = {}, !.assignment = None]
<1>4. e.status = "Disabled" /\ e.composite = bases[b].composite /\ e.barrier = bases[b].barrier
  BY <1>3, StageFields
<1>5. bases' = [bases EXCEPT ![b] = e] /\ slot' = slot /\ Return(t)
  BY <1>2, <1>3 DEF DisableBaseBeforePublication, UpdatePendingWorkFlagLocked, OwnsAs
<1> HIDE DEF e
<1>6. Moves(t, Idle, b, e, slot[b]) /\ Idle.pc = "idle"
  BY <1>5, MovesBy, ReturnMoves
<1>7. bases'[b] = e /\ slot'[b] = "empty"
  BY <1>3, <1>6 DEF Moves
<1>8. StageOf(b) = "nothing"
  BY <1>3, StageIs DEF OwnsAs
<1>9. StageOf(b)' = "vanilla"
  BY <1>4, <1>7, StageBecomes
<1>10. StageStep(b)
  BY <1>3, <1>7, <1>8, <1>9, MayBeDisabled
     DEF StageStep, Progress!Next, Progress!FallBack, Progress!Advance, Progress!MayStop
<1>11. QED BY <1>1, <1>4, <1>6, <1>10, OthersUnmoved DEF Layers, LayersOf

\* The preparation of a base.
LEMMA PreparationAdvances ==
  ASSUME TypeOK, TypeOK', TaskInv, SingleFlight, Layers, StaysDisabled, NEW t \in Threads,
         ThreadStep(t), Preparation(t)
  PROVE  Advances
<1>1. CASE BeginPreparation(t)
  <2>1. th[t].pc = "run" /\ slot' = slot /\ bases' = bases
    BY <1>1 DEF BeginPreparation, At, runtimeVars
  <2>2. QED BY <2>1, NobodySubmits, NothingMoves
<1>2. CASE StoreStructure(t)
  <2>1. th[t].pc = "structure" /\ slot' = slot
    BY <1>2 DEF StoreStructure, At
  <2>2. PICK b \in Bases : b = th[t].base
    BY <2>1, InsideTyped DEF Baseless
  <2> DEFINE e == [bases[b] EXCEPT !.structure = TRUE]
  <2>3. e.status = bases[b].status /\ e.composite = bases[b].composite /\ e.barrier = bases[b].barrier
    BY TypedParts DEF BaseState
  <2>4. bases' = bases \/ bases' = [bases EXCEPT ![b] = e]
    BY <1>2, <2>2 DEF StoreStructure
  <2> HIDE DEF e
  <2>5. QED BY <2>1, <2>3, <2>4, NobodySubmits, NothingMoves
<1>3. QED BY <1>1, <1>2, BuildAdvances, SubmitAdvances, DisableAdvances DEF Preparation

\* The composite of a base is finalized.
LEMMA PollAdvances ==
  ASSUME TypeOK, TypeOK', TaskInv, SingleFlight, Layers, StaysDisabled, NEW t \in Threads,
         ThreadStep(t), PollPendingComposite(t)
  PROVE  Advances
<1>1. OnTask(t) /\ th[t].pc = "run" /\ th[t].kind = "poll" /\ slot' = slot
  BY DEF PollPendingComposite, At, OnTask, TaskLabels
<1>2. PICK b \in Bases : b = th[t].base
  BY <1>1, TaskFacts
<1>3. CASE bases' = bases
  BY <1>1, <1>3, NobodySubmits, NothingMoves
<1>4. CASE bases' # bases
  <2> DEFINE e == [bases[b] EXCEPT !.composite = "finalized"]
  <2>1. /\ FindOwnedRenderSource(b) /\ OwnsAs(b, "CompositeQueued")
        /\ bases' = [bases EXCEPT ![b] = e] /\ Goto(t, "polled") /\ killed' = killed
    BY <1>2, <1>4 DEF PollPendingComposite, LookupFails, LostSource, runtimeVars
  <2>2. slot[b] = "staged" /\ bases[b].composite # "none"
    BY <2>1 DEF OwnsAs, TaskInv, Entries, EntryOf, InFlight
  <2>3. b \in Tinted /\ (bases[b].barrier => bases[b].composite = "finalized")
    BY <2>2 DEF Layers, LayersOf
  <2>4. e.composite = "finalized" /\ e.barrier = bases[b].barrier
    BY TypedParts DEF BaseState
  <2> HIDE DEF e
  <2> DEFINE r == [th[t] EXCEPT !.pc = "polled"]
  <2>5. r.pc = "polled"
    BY <1>1, TaskFacts DEF ThreadState
  <2>6. Moves(t, r, b, e, slot[b])
    BY <1>1, <2>1, MovesBy DEF Goto
  <2> HIDE DEF r
  <2>7. bases'[b] = e /\ slot'[b] = slot[b]
    BY <2>6 DEF Moves
  <2>8. IsRuntimeOperational /\ IsRuntimeOperational' = IsRuntimeOperational
    BY <2>1, MayBeDisabled DEF FindOwnedRenderSource
  <2>9. StageStep(b)
    <3>1. CASE bases[b].composite = "finalized"
      <4>1. StageOf(b)' = StageOf(b)
        BY <2>2, <2>4, <2>7, <3>1, StageIs, StageBecomes
      <4>2. QED BY <2>7, <2>8, <4>1 DEF StageStep, Progress!vars
    <3>2. CASE bases[b].composite # "finalized"
      <4>1. StageOf(b) = "composing"
        BY <2>2, <2>3, <3>2, StageIs
      <4>2. StageOf(b)' = "finalized"
        BY <2>2, <2>3, <2>4, <2>7, <3>2, StageBecomes
      <4>3. QED BY <2>7, <2>8, <4>1, <4>2
                DEF StageStep, Progress!Next, Progress!Finalize, Progress!Advance
    <3>3. QED BY <3>1, <3>2
  <2>10. QED BY <1>1, <2>3, <2>4, <2>5, <2>6, <2>9, OthersUnmoved DEF LayersOf
<1>5. QED BY <1>3, <1>4

\* The publication barrier is armed, or the barrier that is armed awaited.
LEMMA BarrierAdvances ==
  ASSUME TypeOK, TypeOK', TaskInv, SingleFlight, Layers, StaysDisabled, NEW t \in Threads,
         ThreadStep(t), PollCompositeActivation(t)
  PROVE  Advances
<1>1. OnTask(t) /\ th[t].pc = "run" /\ th[t].kind = "activate" /\ slot' = slot
  BY DEF PollCompositeActivation, At, OnTask, TaskLabels
<1>2. PICK b \in Bases : b = th[t].base
  BY <1>1, TaskFacts
<1>3. CASE bases' = bases
  BY <1>1, <1>3, NobodySubmits, NothingMoves
<1>4. CASE bases' # bases
  <2> DEFINE e == [bases[b] EXCEPT !.barrier = TRUE, !.status = "CompositeFinalized"]
  <2>1. /\ FindOwnedRenderSource(b) /\ OwnsAs(b, "CompositeActivationQueued") /\ ~bases[b].barrier
        /\ bases' = [bases EXCEPT ![b] = e] /\ Return(t)
    BY <1>2, <1>4
       DEF PollCompositeActivation, LookupFails, LostSource, AwaitPublicationIdle, ArmBarrier,
           UpdatePendingWorkFlagLocked, runtimeVars
  <2>2. slot[b] = "staged" /\ bases[b].composite = "finalized"
    <3>1. bases[b].composite = "finalized"
      BY <2>1 DEF OwnsAs, TaskInv, Entries, EntryOf
    <3>2. slot[b] = "staged"
      BY <1>1, <1>2, TaskFacts DEF PlaceOf, Waits
    <3>3. QED BY <3>1, <3>2
  <2>3. b \in Tinted
    BY <2>2 DEF Layers, LayersOf
  <2>4. e.composite = "finalized" /\ e.barrier = TRUE
    BY <2>2, TypedParts DEF BaseState
  <2> HIDE DEF e
  <2>5. Moves(t, Idle, b, e, slot[b]) /\ Idle.pc = "idle"
    BY <1>1, <2>1, MovesBy, ReturnMoves
  <2>6. bases'[b] = e /\ slot'[b] = slot[b]
    BY <2>5 DEF Moves
  <2>7. StageOf(b) = "finalized"
    BY <2>1, <2>2, StageIs
  <2>8. StageOf(b)' = "armed"
    BY <2>2, <2>4, <2>6, StageBecomes
  <2>9. StageStep(b)
    BY <2>1, <2>6, <2>7, <2>8, MayBeDisabled
       DEF StageStep, Progress!Next, Progress!Arm, Progress!Advance, Progress!MayStop,
           FindOwnedRenderSource
  <2>10. QED BY <1>1, <2>3, <2>4, <2>5, <2>9, OthersUnmoved DEF LayersOf
<1>5. QED BY <1>3, <1>4

\* The composition of a base.
LEMMA CompositionAdvances ==
  ASSUME TypeOK, TypeOK', TaskInv, SingleFlight, Layers, StaysDisabled, NEW t \in Threads,
         ThreadStep(t), Composition(t)
  PROVE  Advances
<1>1. CASE RecordFinalization(t)
  <2>1. th[t].pc = "polled" /\ slot' = slot
    BY <1>1 DEF RecordFinalization, At
  <2>2. PICK b \in Bases : b = th[t].base
    BY <2>1, InsideTyped DEF Baseless
  <2> DEFINE e == [bases[b] EXCEPT !.status = "CompositeFinalized"]
  <2>3. /\ e.composite = bases[b].composite /\ e.barrier = bases[b].barrier
        /\ e.status = "CompositeFinalized"
    BY StageFields, TypedParts
  <2>4. bases' = bases \/ (bases' = [bases EXCEPT ![b] = e] /\ bases[b].status = "CompositeQueued")
    BY <1>1, <2>2 DEF RecordFinalization, UpdatePendingWorkFlagLocked, SetStatus, OwnsAs
  <2> HIDE DEF e
  <2>5. QED BY <2>1, <2>3, <2>4, NobodySubmits, NothingMoves
<1>2. QED BY <1>1, PollAdvances, BarrierAdvances DEF Composition

\* The source is activated: with layers behind its barrier, without them at once.
LEMMA ActivateAdvances ==
  ASSUME TypeOK, TypeOK', TaskInv, SingleFlight, Layers, StaysDisabled, NEW t \in Threads,
         ThreadStep(t), ActivateRenderSource(t)
  PROVE  Advances
<1>1. OnTask(t) /\ th[t].pc = "validate" /\ bases' = bases
  BY DEF ActivateRenderSource, At, OnTask, TaskLabels, runtimeVars
<1>2. PICK b \in Bases : b = th[t].base
  BY <1>1, TaskFacts
<1>3. /\ slot[b] = "staged"
      /\ IF th[t].kind = "activate" THEN bases[b].barrier ELSE b \notin Tinted
  BY <1>1, <1>2, TaskFacts DEF PlaceOf
<1>4. CASE slot' = slot
  BY <1>1, <1>4, NobodySubmits, NothingMoves
<1>5. CASE slot' # slot
  <2>1. slot' = [slot EXCEPT ![b] = "active"] /\ Goto(t, "complete") /\ killed' = killed
    BY <1>2, <1>5 DEF ActivateRenderSource
  <2> DEFINE r == [th[t] EXCEPT !.pc = "complete"]
  <2>2. r.pc = "complete"
    BY <1>1, TaskFacts DEF ThreadState
  <2>3. Moves(t, r, b, bases[b], "active")
    BY <1>1, <2>1, MovesBy DEF Goto
  <2> HIDE DEF r
  <2>4. slot'[b] = "active"
    BY <2>3 DEF Moves
  <2>5. StageOf(b) = IF b \in Tinted THEN "armed" ELSE "staged"
    <3>1. CASE th[t].kind = "activate"
      <4>1. b \in Tinted
        BY <1>3, <3>1 DEF Layers, LayersOf
      <4>2. QED BY <1>3, <3>1, <4>1, StageIs
    <3>2. CASE th[t].kind # "activate"
      <4>1. b \notin Tinted /\ bases[b].composite = "none" /\ ~bases[b].barrier
        BY <1>3, <3>2 DEF Layers, LayersOf
      <4>2. ~Submitting(b)
        BY <1>1, <1>2, <2>3, StillAlone DEF Moves
      <4>3. QED BY <1>3, <4>1, <4>2, StageIs
    <3>3. QED BY <3>1, <3>2
  <2>6. StageOf(b)' = "served"
    BY <2>4, StageBecomes
  <2>7. StageStep(b)
    BY <1>3, <2>1, <2>4, <2>5, <2>6, MayBeDisabled
       DEF StageStep, Progress!Next, Progress!Serve, Progress!Advance
  <2>8. QED BY <1>1, <2>2, <2>3, <2>7, OthersUnmoved DEF Layers
<1>6. QED BY <1>4, <1>5

\* The publication of a base and the fallback of a reused one.
LEMMA EndingAdvances ==
  ASSUME TypeOK, TypeOK', TaskInv, SingleFlight, Layers, StaysDisabled, NEW t \in Threads,
         ThreadStep(t), Publication(t) \/ VanillaFallback(t)
  PROVE  Advances
<1>1. CASE CompletePublication(t)
  <2>1. OnTask(t) /\ th[t].pc = "complete" /\ slot' = slot
    BY <1>1 DEF CompletePublication, At, OnTask, TaskLabels
  <2>2. PICK b \in Bases : b = th[t].base
    BY <2>1, TaskFacts
  <2>3. slot[b] = "active"
    BY <2>1, <2>2, TaskFacts DEF PlaceOf
  <2> DEFINE e == [bases[b] EXCEPT !.status = "Ready", !.waiting = {}, !.assignment = None]
  <2>4. e.composite = bases[b].composite /\ e.barrier = bases[b].barrier
    BY StageFields, TypedParts
  <2>5. bases' = bases \/ bases' = [bases EXCEPT ![b] = e]
    BY <1>1, <2>2 DEF CompletePublication, UpdatePendingWorkFlagLocked
  <2> HIDE DEF e
  <2>6. QED BY <2>1, <2>3, <2>4, <2>5, NobodySubmits, NothingMoves
<1>2. CASE BeginVanillaRefresh(t)
  <2>1. th[t].pc = "run" /\ slot' = slot
    BY <1>2 DEF BeginVanillaRefresh, At
  <2>2. PICK b \in Bases : b = th[t].base
    BY <2>1, InsideTyped DEF Baseless
  <2> DEFINE e == [bases[b] EXCEPT !.status = "Disabled", !.waiting = {}]
  <2>3. e.composite = bases[b].composite /\ e.barrier = bases[b].barrier
    BY StageFields, TypedParts
  <2>4. \/ bases' = bases
        \/ bases' = [bases EXCEPT ![b] = e] /\ bases[b].status = "VanillaRefreshQueued"
    BY <1>2, <2>2 DEF BeginVanillaRefresh, UpdatePendingWorkFlagLocked, runtimeVars
  <2>5. bases[b].status = "VanillaRefreshQueued" => slot[b] # "empty"
    BY DEF TaskInv, Entries, EntryOf
  <2> HIDE DEF e
  <2>6. QED BY <2>1, <2>3, <2>4, <2>5, NobodySubmits, NothingMoves
<1>3. CASE \/ \E r \in Refs : RefreshWaitingReference(t, r)
           \/ EndRefresh(t) \/ ReleasePreparationOwner(t)
           \/ \E r \in Refs : RefreshVanillaReference(t, r)
           \/ EndVanillaRefresh(t)
  <2>1. th[t].pc \in {"refresh", "release", "vanilla"} /\ slot' = slot /\ bases' = bases
    BY <1>3 DEF RefreshWaitingReference, EndRefresh, ReleasePreparationOwner,
                RefreshVanillaReference, EndVanillaRefresh, At, runtimeVars,
                UpdatePendingWorkFlagLocked
  <2>2. QED BY <2>1, NobodySubmits, NothingMoves
<1>4. QED BY <1>1, <1>2, <1>3, ActivateAdvances DEF Publication, VanillaFallback

\* A thread that enters the plugin, or is given a task, has submitted nothing.
LEMMA EnteringSubmits ==
  ASSUME TypeOK, NEW t \in Threads, NEW r, th' = [th EXCEPT ![t] = r],
         th[t].pc # "submitted", r.pc # "submitted"
  PROVE  \A c \in Bases : Submitting(c)' <=> Submitting(c)
<1>1. th'[t] = r /\ \A u \in Threads \ {t} : th'[u] = th[u]
  BY TypedParts
<1>2. QED BY <1>1 DEF Submitting

\* The steps of the startup scan, the engine, its queue and the pump.
LEMMA OutsideAdvances ==
  ASSUME TypeOK, TypeOK', TaskInv, BeforeArm, Layers, StaysDisabled,
         Startup \/ Engine \/ Drain \/ PumpPendingBases \/ UNCHANGED vars
  PROVE  Advances
<1> USE DEF runtimeVars, engineVars, At
<1>1. CASE StartPreparationPump(Drainer)
  <2> DEFINE r == [th[Drainer] EXCEPT !.pc = "arm"]
  <2>1. Drainer \in Threads /\ r.pc = "arm"
    BY TypedParts, ThreadsAssumption DEF ThreadState
  <2>2. /\ th' = [th EXCEPT ![Drainer] = r] /\ th[Drainer].pc = "idle"
        /\ bases' = bases /\ slot' = slot
    BY <1>1 DEF StartPreparationPump, Goto
  <2> HIDE DEF r
  <2>3. QED BY <2>1, <2>2, EnteringSubmits, NothingMoves
<1>2. CASE Arm(Drainer)
  <2>1. \A b \in Bases : bases[b].status = "absent" /\ slot[b] = "empty" /\ slot' = slot
    BY <1>2, ThreadsAssumption DEF Arm, BeforeArm, TaskInv, Entries, EntryOf, Untouched
  <2>2. \A b \in Bases : /\ bases'[b].status # "Disabled"
                         /\ bases'[b].composite = "none" /\ bases'[b].barrier = FALSE
    BY <1>2 DEF Arm, Dormant, NoEntry
  <2>3. \A b \in Bases : Unmoved(b)
    BY <2>1, <2>2 DEF Unmoved
  <2>4. Layers'
    BY <2>2 DEF Layers, LayersOf
  <2>5. \A b \in Bases : StageStep(b)
    BY <2>3, UnmovedStays
  <2>6. QED BY <2>4, <2>5 DEF Advances
<1>3. CASE Engine
  <2>1. slot' = slot
    BY <1>3 DEF Engine, BuildReference, UnloadReference, ReuseFormID, Expire, ToggleQueue
  <2>2. ASSUME NEW t \in Threads, NEW x \in Refs, BuildReference(t, x) PROVE Advances
    <3>1. PICK d \in MayBeInDrain(t) :
            Enter(t, [Idle EXCEPT !.pc = "set3d", !.base = BaseOf[x], !.ref = x, !.drain = d])
      BY <2>2 DEF BuildReference
    <3> DEFINE r == [Idle EXCEPT !.pc = "set3d", !.base = BaseOf[x], !.ref = x, !.drain = d]
    <3>2. r.pc = "set3d"
      BY DEF Idle
    <3>3. th' = [th EXCEPT ![t] = r] /\ th[t].pc = "idle" /\ bases' = bases
      BY <2>2, <3>1 DEF BuildReference, Enter
    <3> HIDE DEF r
    <3>4. QED BY <2>1, <3>2, <3>3, EnteringSubmits, NothingMoves
  <2>3. ASSUME NEW b \in Bases, Expire(b) PROVE Advances
    <3> DEFINE e == [bases[b] EXCEPT !.expired = TRUE]
    <3>1. /\ e.status = bases[b].status /\ e.composite = bases[b].composite
          /\ e.barrier = bases[b].barrier
      BY TypedParts DEF BaseState
    <3>2. bases' = [bases EXCEPT ![b] = e] /\ th' = th
      BY <2>3 DEF Expire
    <3> HIDE DEF e
    <3>3. \A c \in Bases : Submitting(c)' <=> Submitting(c)
      BY <3>2 DEF Submitting
    <3>4. QED BY <2>1, <3>1, <3>2, <3>3, NothingMoves
  <2>4. CASE (\E r \in Refs : UnloadReference(r)) \/ (\E b \in Bases : ReuseFormID(b)) \/ ToggleQueue
    <3>1. bases' = bases /\ th' = th
      BY <2>4 DEF UnloadReference, ReuseFormID, ToggleQueue
    <3>2. \A c \in Bases : Submitting(c)' <=> Submitting(c)
      BY <3>1 DEF Submitting
    <3>3. QED BY <2>1, <3>1, <3>2, NothingMoves
  <2>5. QED BY <1>3, <2>2, <2>3, <2>4 DEF Engine
<1>4. CASE Drain
  <2>1. PICK t \in Threads, k \in Kinds, b \in Bases, r \in ThreadState : Fetches(t, k, b, r)
    BY <1>4, DrainFetches
  <2>2. /\ th' = [th EXCEPT ![t] = r] /\ th[t].pc # "submitted" /\ r.pc # "submitted"
        /\ bases' = bases /\ slot' = slot
    BY <2>1 DEF Fetches, Enter
  <2>3. QED BY <2>2, EnteringSubmits, NothingMoves
<1>5. CASE PumpPendingBases
  <2>1. PICK d \in MayBeInDrain(Pumper) : Enter(Pumper, [Idle EXCEPT !.pc = "pump", !.drain = d])
    BY <1>5 DEF PumpPendingBases
  <2> DEFINE r == [Idle EXCEPT !.pc = "pump", !.drain = d]
  <2>2. r.pc = "pump"
    BY DEF Idle
  <2>3. /\ th' = [th EXCEPT ![Pumper] = r] /\ th[Pumper].pc = "idle" /\ Pumper \in Threads
        /\ bases' = bases /\ slot' = slot
    BY <1>5, <2>1, ThreadsAssumption DEF PumpPendingBases, Enter
  <2> HIDE DEF r
  <2>4. QED BY <2>2, <2>3, EnteringSubmits, NothingMoves
<1>6. CASE UNCHANGED vars
  <2>1. bases' = bases /\ slot' = slot /\ \A c \in Bases : Submitting(c)' <=> Submitting(c)
    BY <1>6 DEF vars, Submitting
  <2>2. QED BY <2>1, NothingMoves
<1>7. QED BY <1>1, <1>2, <1>3, <1>4, <1>5, <1>6 DEF Startup

\* Every step takes every base on.
LEMMA EveryStepAdvances ==
  ASSUME TypeOK, TypeOK', TaskInv, BeforeArm, SingleFlight, Layers, [Next]_vars
  PROVE  Advances
<1>1. StaysDisabled
  BY KilledForGood DEF StaysDisabled
<1>2. ASSUME NEW t \in Threads, ThreadStep(t) PROVE Advances
  BY <1>1, <1>2, EventAdvances, DispatchAdvances, PreparationAdvances, CompositionAdvances,
     EndingAdvances DEF ThreadStep
<1>3. QED BY <1>1, <1>2, OutsideAdvances DEF Next

\* The coordinator takes every base through the stages of RenderSourceStages, in
\* their order, whatever tasks are dropped, repeated or overtaken by events:
\* what it stages is composited, finalized and awaited behind the barrier before
\* it is served, and a base falls back to vanilla only before publication.
THEOREM StagesImplemented == Spec => ImplementsStages
<1>1. Init => (\A b \in Bases : Progress(b)!Init) /\ Layers
  <2>1. ASSUME Init, NEW b \in Bases PROVE Progress(b)!Init /\ LayersOf(b, bases[b])
    <3>1. slot[b] = "empty" /\ bases[b] = NoEntry /\ killed = "no"
      BY <2>1 DEF Init
    <3>2. StageOf(b) = "nothing"
      BY <3>1, StageIs DEF NoEntry
    <3>3. QED BY <3>1, <3>2 DEF Progress!Init, IsRuntimeOperational, LayersOf, NoEntry
  <2>2. QED BY <2>1 DEF Layers
<1>2. /\ TypeOK /\ TypeOK' /\ SingleFlight /\ (TaskInv /\ BeforeArm) /\ Layers /\ [Next]_vars
      => /\ Layers'
         /\ [\A b \in Bases : Progress(b)!Next \/ UNCHANGED Progress(b)!vars]_vars
  BY EveryStepAdvances DEF Advances, StageStep
<1>3. QED BY <1>1, <1>2, TypeCorrect, OneBaseInFlight, TaskInvHolds, PTL
          DEF Spec, ImplementsStages

-----------------------------------------------------------------------------
(* The checks that other threads can trip.  A base in its catch-up owns    *)
(* the preparation and is served by one thread (OwnerKnown); before the    *)
(* process is disabled, and without an exception, an owner that has        *)
(* published is in its catch-up (OwnerServes).                             *)

Composing == InFlight \cup {"Pending"}
Published == {"Ready", "VanillaRefreshPending"}

CatchingUp(t) == th[t].pc \in {"refresh", "release"}

OwnerKnown ==
  /\ \A t \in Threads : CatchingUp(t) => owner = th[t].base /\ bases[owner].status \in Published
  /\ \A t, u \in Threads : CatchingUp(t) /\ CatchingUp(u) => t = u
  /\ owner # None => bases[owner].status \in Composing \cup Published

OwnerServes ==
  /\ IsRuntimeOperational /\ "throw" \notin Faults
  /\ owner # None /\ bases[owner].status \in Published
  => InCatchUp(owner)

CatchUps == OwnerKnown /\ OwnerServes

\* No catch-up begins or ends in this step.
SameCatchUps ==
  \A u \in Threads : /\ CatchingUp(u)' <=> CatchingUp(u)
                     /\ CatchingUp(u) => th'[u].base = th[u].base

\* The owner keeps the preparation, and stays on its side of the publication.
SameOwner ==
  /\ owner' = owner
  /\ owner # None =>
       /\ bases[owner].status \in Composing => bases'[owner].status \in Composing
       /\ bases[owner].status \in Published => bases'[owner].status \in Published

Steady == SameCatchUps /\ SameOwner

\* A steady step keeps the catch-ups, if it does not enable the process again.
LEMMA SteadyKeeps ==
  ASSUME TypeOK, CatchUps, Steady, StaysDisabled
  PROVE  CatchUps'
<1>1. \A t \in Threads : CatchingUp(t) => th[t].base \in Bases /\ th[t].base # None
  BY BasesAssumption DEF CatchingUp, TypeOK, ThreadsTyped, Baseless
<1>2. OwnerKnown'
  BY <1>1 DEF CatchUps, OwnerKnown, Steady, SameCatchUps, SameOwner
<1>3. owner # None => bases[owner].status \in Composing \cup Published
  BY DEF CatchUps, OwnerKnown
<1>4. Composing \cap Published = {}
  BY DEF Composing, Published, InFlight
<1>5. OwnerServes'
  <2> SUFFICES ASSUME IsRuntimeOperational', "throw" \notin Faults, owner # None,
                      bases'[owner].status \in Published
               PROVE  InCatchUp(owner)'
    BY DEF OwnerServes, Steady, SameOwner
  <2>1. InCatchUp(owner)
    BY <1>3, <1>4
       DEF CatchUps, OwnerServes, Steady, SameOwner, StaysDisabled, IsRuntimeOperational
  <2>2. PICK t \in Threads : th[t].base = owner /\ CatchingUp(t)
    BY <2>1 DEF InCatchUp, CatchingUp
  <2>3. th'[t].base = owner /\ CatchingUp(t)' /\ owner' = owner
    BY <2>2 DEF Steady, SameCatchUps, SameOwner
  <2>4. QED BY <2>3 DEF InCatchUp, CatchingUp
<1>6. QED BY <1>2, <1>5 DEF CatchUps

\* While nobody owns the preparation, or its owner is on the way to its
\* publication, no base is in its catch-up.
LEMMA NoCatchUp ==
  ASSUME TypeOK, CatchUps, owner = None \/ bases[owner].status \in Composing
  PROVE  \A t \in Threads : ~CatchingUp(t)
<1>1. \A t \in Threads : CatchingUp(t) => th[t].base # None
  BY BasesAssumption DEF CatchingUp, TypeOK, ThreadsTyped, Baseless
<1>2. Composing \cap Published = {}
  BY DEF Composing, Published, InFlight
<1>3. QED BY <1>1, <1>2 DEF CatchUps, OwnerKnown

\* A thread that is in no catch-up goes anywhere else.
LEMMA Elsewhere ==
  ASSUME TypeOK, NEW t \in Threads, ~CatchingUp(t), NEW r, r.pc \notin {"refresh", "release"},
         th' = [th EXCEPT ![t] = r]
  PROVE  SameCatchUps
BY TypedParts DEF SameCatchUps, CatchingUp

\* Goto, Return, Dispatch and the next waiter of a vanilla fallback.
LEMMA GoesElsewhere ==
  ASSUME TypeOK, NEW t \in Threads, ~CatchingUp(t),
         \/ Return(t)
         \/ \E l \in Labels \ {"refresh", "release"} : Goto(t, l)
         \/ \E b, k : Dispatch(t, b, k)
         \/ \E x : Enter(t, [th[t] EXCEPT !.todo = x])
  PROVE  SameCatchUps
<1>1. th[t] \in ThreadState
  BY TypedParts
<1>2. CASE Return(t)
  BY <1>2, Elsewhere, ReturnMoves
<1>3. ASSUME NEW l \in Labels \ {"refresh", "release"}, Goto(t, l) PROVE SameCatchUps
  <2> DEFINE r == [th[t] EXCEPT !.pc = l]
  <2>1. r.pc = l /\ th' = [th EXCEPT ![t] = r]
    BY <1>1, <1>3 DEF Goto, ThreadState
  <2> HIDE DEF r
  <2>2. QED BY <2>1, Elsewhere
<1>4. ASSUME NEW b, NEW k, Dispatch(t, b, k) PROVE SameCatchUps
  BY <1>4, Elsewhere, DispatchMoves
<1>5. ASSUME NEW x, Enter(t, [th[t] EXCEPT !.todo = x]) PROVE SameCatchUps
  <2> DEFINE r == [th[t] EXCEPT !.todo = x]
  <2>1. r.pc = th[t].pc /\ th' = [th EXCEPT ![t] = r]
    BY <1>1, <1>5 DEF Enter, ThreadState
  <2> HIDE DEF r
  <2>2. QED BY <2>1, Elsewhere DEF CatchingUp
<1>6. QED BY <1>2, <1>3, <1>4, <1>5

\* A step that leaves m_bases alone, or moves one base on its side of the publication.
LEMMA OneEntry ==
  ASSUME TypeOK, owner' = owner,
         \/ bases' = bases
         \/ \E b \in Bases, e \in BaseState :
              /\ bases' = [bases EXCEPT ![b] = e]
              /\ owner = b => /\ bases[b].status \in Composing => e.status \in Composing
                              /\ bases[b].status \in Published => e.status \in Published
  PROVE  SameOwner
<1>1. owner \in Bases \cup {None} /\ bases \in [Bases -> BaseState]
  BY DEF TypeOK
<1>2. QED BY <1>1 DEF SameOwner

\* An event withdraws a ready base, or starts a dormant one: neither moves the owner
\* across its publication.
LEMMA EventSteady ==
  ASSUME TypeOK, CatchUps, NEW t \in Threads, Event(t)
  PROVE  Steady
<1> USE DEF At
<1> DEFINE b == th[t].base
<1>1. ~CatchingUp(t) /\ b \in Bases /\ bases \in [Bases -> BaseState] /\ th[t] \in ThreadState
  BY InsideTyped, TypedParts
     DEF Event, OnReferenceSet3d, ObserveReference, DeactivateRenderSource, CatchingUp, Baseless
<1>2. CASE OnReferenceSet3d(t)
  <2> DEFINE r == [th[t] EXCEPT !.pc = "set3d_lock", !.owned = FindOwnedRenderSource(b),
                                !.extra = extra[b]]
  <2>1. r.pc = "set3d_lock"
    BY <1>1 DEF ThreadState
  <2>2. Return(t) \/ th' = [th EXCEPT ![t] = r]
    BY <1>2 DEF OnReferenceSet3d, Enter
  <2> HIDE DEF r
  <2>3. SameCatchUps
    BY <1>1, <2>1, <2>2, GoesElsewhere, Elsewhere
  <2>4. QED BY <1>2, <2>3, OneEntry DEF OnReferenceSet3d, runtimeVars, Steady
<1>3. CASE DeactivateRenderSource(t)
  <2>1. SameCatchUps
    BY <1>1, <1>3, GoesElsewhere DEF DeactivateRenderSource
  <2>2. QED BY <1>3, <2>1, OneEntry DEF DeactivateRenderSource, runtimeVars, Steady
<1>4. CASE ObserveReference(t)
  <2> DEFINE entry == FindOrInherit(b, th[t].extra)
  <2>1. entry = bases[b] \/ (entry.status = "Dormant" /\ bases[b].status = "absent")
    BY <1>1, FoundStatus
  <2>2. entry \in BaseState
    <3>1. th[t].extra \in Bases \cup {None}
      BY <1>1 DEF ThreadState
    <3>2. QED BY <1>1, <3>1, EntryTyped
  <2> HIDE DEF entry
  <2>3. \/ IgnoreReference(t, entry) \/ RejectReference(t, entry)
        \/ StartVanillaFallback(t, entry) \/ JoinWaiters(t, entry)
    BY <1>4 DEF ObserveReference, entry
  <2>4. KeepEntry(t, entry) \/ StartVanillaFallback(t, entry) \/ JoinWaiters(t, entry)
    BY <2>3 DEF IgnoreReference, RejectReference
  <2>5. SameCatchUps
    <3>1. CASE StartVanillaFallback(t, entry)
      <4>1. "deactivate" \in Labels \ {"refresh", "release"} /\ Goto(t, "deactivate")
        BY <3>1 DEF Labels, StartVanillaFallback
      <4>2. QED BY <1>1, <4>1, GoesElsewhere
    <3>2. CASE KeepEntry(t, entry)
      BY <1>1, <3>2, GoesElsewhere DEF KeepEntry
    <3>3. CASE JoinWaiters(t, entry)
      <4>1. Return(t) \/ Dispatch(t, b, "prepare")
        BY <3>3 DEF JoinWaiters
      <4>2. QED BY <1>1, <4>1, GoesElsewhere
    <3>4. QED BY <2>4, <3>1, <3>2, <3>3
  <2>6. "absent" \notin Composing \cup Published /\ "Dormant" \notin Composing \cup Published
        /\ "Ready" \notin Composing /\ "VanillaRefreshPending" \in Published
    BY DEF Composing, Published, InFlight
  <2>7. owner' = owner
    BY <2>4 DEF KeepEntry, StartVanillaFallback, JoinWaiters
  <2>8. CASE KeepEntry(t, entry)
    BY <1>1, <2>1, <2>2, <2>5, <2>6, <2>7, <2>8, OneEntry DEF KeepEntry, Steady
  <2>9. CASE StartVanillaFallback(t, entry)
    <3> DEFINE e == [entry EXCEPT !.status = "VanillaRefreshPending", !.waiting = {th[t].ref},
                                  !.assignment = None]
    <3>1. th[t].ref \in Refs
      BY <1>4, InsideTyped DEF ObserveReference, Baseless, Handling
    <3>2. e \in BaseState
      BY <2>2, <3>1, BaseStateUpdate
    <3>3. e.status = "VanillaRefreshPending"
      BY <2>2 DEF BaseState
    <3>4. bases' = [bases EXCEPT ![b] = e] /\ entry.status = "Ready"
      BY <2>9 DEF StartVanillaFallback
    <3>5. bases[b].status = "Ready"
      BY <2>1, <3>4
    <3> HIDE DEF e
    <3>6. QED BY <1>1, <2>5, <2>6, <2>7, <3>2, <3>3, <3>4, <3>5, OneEntry DEF Steady
  <2>10. CASE JoinWaiters(t, entry)
    <3> DEFINE s == IF entry.status = "Dormant" THEN "Pending" ELSE entry.status
               e == [entry EXCEPT !.waiting = @ \cup {th[t].ref}, !.status = s]
    <3>1. th[t].ref \in Refs
      BY <1>4, InsideTyped DEF ObserveReference, Baseless, Handling
    <3>2. s \in BaseStatus
      BY <2>2 DEF BaseState, BaseStatus
    <3>3. bases' = [bases EXCEPT ![b] = e]
      BY <2>10 DEF JoinWaiters
    <3>4. entry.status # "Dormant" => s = entry.status
      OBVIOUS
    <3> HIDE DEF s
    <3>5. e \in BaseState
      BY <2>2, <3>1, <3>2, BaseStateUpdate
    <3>6. e.status = s
      BY <2>2 DEF BaseState
    <3> HIDE DEF e
    <3>7. bases[b].status \in Composing \cup Published => e.status = bases[b].status
      BY <2>1, <2>6, <3>4, <3>6
    <3>8. QED BY <1>1, <2>5, <2>7, <3>3, <3>5, <3>7, OneEntry DEF Steady
  <2>11. QED BY <2>4, <2>8, <2>9, <2>10
<1>5. QED BY <1>2, <1>3, <1>4 DEF Event

\* The pump's selection and the way of a task to the queue: a base is posted on its
\* own side of the publication, and only a pending base makes itself the owner.
LEMMA DispatchCatches ==
  ASSUME TypeOK, CatchUps, NEW t \in Threads, SelectBase(t) \/ DispatchStep(t), StaysDisabled
  PROVE  CatchUps'
<1> USE DEF At
<1> DEFINE b == th[t].base
           k == th[t].kind
<1>1. ~CatchingUp(t) /\ bases \in [Bases -> BaseState]
  BY TypedParts
     DEF SelectBase, DispatchStep, TryDispatchPendingBase, TryDispatchCompositePoll,
         TryDispatchCompositeActivation, TryDispatchVanillaRefresh, DispatchComposite, Post,
         RequeueBase, RequeueComposite, RequeueCompositeActivation, RequeueVanillaRefresh,
         Requeue, CatchingUp
<1>2. {"run", "requeue", "post"} \subseteq Labels \ {"refresh", "release"}
  BY DEF Labels
<1>3. ASSUME SameCatchUps, UNCHANGED <<bases, owner>> PROVE CatchUps'
  BY <1>3, OneEntry, SteadyKeeps DEF Steady
<1>4. ASSUME DispatchLost(t) \/ DispatchBlocked(t) PROVE CatchUps'
  BY <1>1, <1>3, <1>4, GoesElsewhere
     DEF DispatchLost, DispatchBlocked, UpdatePendingWorkFlagLocked, runtimeVars
<1>5. CASE SelectBase(t)
  <2>1. Return(t) \/ \E c, l : Dispatch(t, c, l)
    BY <1>5 DEF SelectBase
  <2>2. UNCHANGED <<bases, owner>>
    BY <1>5 DEF SelectBase, UpdatePendingWorkFlagLocked, runtimeVars
  <2>3. QED BY <1>1, <1>3, <2>1, <2>2, GoesElsewhere
<1>6. CASE Post(t)
  <2>1. Return(t) \/ Goto(t, "run") \/ Goto(t, "requeue")
    BY <1>6 DEF Post
  <2>2. UNCHANGED <<bases, owner>>
    BY <1>6 DEF Post, runtimeVars
  <2>3. SameCatchUps
    BY <1>1, <1>2, <2>1, GoesElsewhere
  <2>4. QED BY <1>3, <2>2, <2>3
<1>7. ASSUME NEW own, PostPosted(t, own), b \in Bases, k \in Kinds,
             bases[b].status = Parked[k],
             own = owner \/ (own = b /\ owner = None /\ k = "prepare"),
             k = "vanilla" => owner # b
      PROVE  CatchUps'
  <2>1. bases' = SetStatus(b, Posted[k]) /\ owner' = own
    BY <1>7 DEF PostPosted, UpdatePendingWorkFlagLocked
  <2>2. SameCatchUps
    BY <1>1, <1>2, <1>7, GoesElsewhere DEF PostPosted
  <2>3. /\ Parked[k] \in Composing => Posted[k] \in Composing
        /\ Parked[k] \in Published => k = "vanilla"
        /\ k = "prepare" => Posted[k] = "Queued"
    BY <1>7 DEF Kinds, Parked, Posted, Composing, Published, InFlight
  <2>4. CASE own = owner
    <3> DEFINE e == [bases[b] EXCEPT !.status = Posted[k]]
    <3>1. e \in BaseState /\ e.status = Posted[k]
      BY <1>1, <1>7, StatusesTyped DEF BaseState
    <3>2. bases' = [bases EXCEPT ![b] = e]
      BY <2>1 DEF SetStatus
    <3> HIDE DEF e
    <3>3. SameOwner
      BY <1>7, <2>1, <2>3, <2>4, <3>1, <3>2, OneEntry
    <3>4. QED BY <2>2, <3>3, SteadyKeeps DEF Steady
  <2>5. CASE own = b /\ owner = None /\ k = "prepare"
    <3>1. \A u \in Threads : ~CatchingUp(u)'
      BY <2>2, <2>5, NoCatchUp DEF SameCatchUps
    <3>2. owner' = b /\ bases'[b].status = "Queued"
      BY <1>1, <1>7, <2>1, <2>3, <2>5, StatusMoved, StatusesTyped
    <3>3. "Queued" \in Composing /\ "Queued" \notin Published
      BY DEF Composing, Published, InFlight
    <3>4. QED BY <3>1, <3>2, <3>3 DEF CatchUps, OwnerKnown, OwnerServes
  <2>6. QED BY <1>7, <2>4, <2>5
<1>8. CASE TryDispatchPendingBase(t)
  <2>1. b \in Bases /\ k = "prepare" /\ k \in Kinds /\ Parked["prepare"] = "Pending"
    BY <1>8, InsideTyped DEF TryDispatchPendingBase, Baseless, Kinds, Parked
  <2>2. DispatchLost(t) \/ DispatchBlocked(t)
        \/ (PostPosted(t, b) /\ owner \in {None, b} /\ bases[b].status = "Pending")
    BY <1>8 DEF TryDispatchPendingBase
  <2>3. QED BY <1>4, <1>7, <2>1, <2>2
<1>9. CASE TryDispatchVanillaRefresh(t)
  <2>1. b \in Bases /\ k = "vanilla" /\ k \in Kinds /\ Parked["vanilla"] = "VanillaRefreshPending"
    BY <1>9, InsideTyped DEF TryDispatchVanillaRefresh, Baseless, Kinds, Parked
  <2>2. DispatchLost(t) \/ DispatchBlocked(t)
        \/ (PostPosted(t, None) /\ owner = None /\ bases[b].status = "VanillaRefreshPending")
    BY <1>9 DEF TryDispatchVanillaRefresh
  <2>3. b # None
    BY <2>1, BasesAssumption
  <2>4. QED BY <1>4, <1>7, <2>1, <2>2, <2>3
<1>10. ASSUME DispatchComposite(t), k \in {"poll", "activate"} PROVE CatchUps'
  <2>1. b \in Bases /\ k \in Kinds
    BY <1>10, InsideTyped DEF DispatchComposite, Baseless
  <2>2. DispatchLost(t)
        \/ (UpdatePendingWorkFlagLocked(bases, owner) /\ Return(t))
        \/ (PostPosted(t, owner) /\ bases[b].status = Parked[k])
    BY <1>10 DEF DispatchComposite
  <2>3. UpdatePendingWorkFlagLocked(bases, owner) /\ Return(t) => CatchUps'
    BY <1>1, <1>3, GoesElsewhere DEF UpdatePendingWorkFlagLocked
  <2>4. QED BY <1>4, <1>7, <1>10, <2>1, <2>2, <2>3
<1>11. CASE Requeue(t)
  <2>1. b \in Bases /\ k \in Kinds /\ SameCatchUps
    BY <1>1, <1>11, InsideTyped, GoesElsewhere DEF Requeue, Baseless
  <2>2. CASE UpdatePendingWorkFlagLocked(bases, owner)
    BY <1>3, <2>1, <2>2 DEF UpdatePendingWorkFlagLocked
  <2>3. CASE UpdatePendingWorkFlagLocked(SetStatus(b, Parked[k]), owner)
             /\ bases[b].status = Posted[k]
    <3> DEFINE e == [bases[b] EXCEPT !.status = Parked[k]]
    <3>1. e \in BaseState /\ e.status = Parked[k]
      BY <1>1, <2>1, StatusesTyped DEF BaseState
    <3>2. bases' = [bases EXCEPT ![b] = e] /\ owner' = owner
      BY <2>3 DEF UpdatePendingWorkFlagLocked, SetStatus
    <3> HIDE DEF e
    <3>3. /\ Posted[k] \in Composing => Parked[k] \in Composing
          /\ Posted[k] \notin Published
      BY <2>1 DEF Kinds, Parked, Posted, Composing, Published, InFlight
    <3>4. SameOwner
      BY <2>1, <2>3, <3>1, <3>2, <3>3, OneEntry
    <3>5. QED BY <2>1, <3>4, SteadyKeeps DEF Steady
  <2>4. QED BY <1>11, <2>2, <2>3 DEF Requeue
<1>12. QED BY <1>5, <1>6, <1>8, <1>9, <1>10, <1>11
          DEF SelectBase, DispatchStep, TryDispatchCompositePoll, TryDispatchCompositeActivation,
              RequeueBase, RequeueComposite, RequeueCompositeActivation, RequeueVanillaRefresh

\* A preparation leaves the owner before its publication, or gives the ownership up.
LEMMA PreparationCatches ==
  ASSUME TypeOK, SingleFlight, TaskInv, CatchUps, NEW t \in Threads, Preparation(t), StaysDisabled
  PROVE  CatchUps'
<1> USE DEF At
<1> DEFINE b == th[t].base
<1>1. ~CatchingUp(t) /\ b \in Bases /\ bases \in [Bases -> BaseState] /\ bases[b] \in BaseState
  BY InsideTyped, TypedParts
     DEF Preparation, BeginPreparation, BuildRenderSource, StoreStructure, SubmitComposite,
         RecordComposite, DisableBaseBeforePublication, Baseless, CatchingUp
<1>2. {"disable", "disable_kill", "build", "structure", "submit", "validate", "submitted"}
        \subseteq Labels \ {"refresh", "release"}
  BY DEF Labels
<1>3. SameCatchUps
  <2>1. Return(t) \/ \E l \in Labels \ {"refresh", "release"} : Goto(t, l)
    BY <1>2 DEF Preparation, BeginPreparation, BuildRenderSource, StoreStructure,
                SubmitComposite, RecordComposite, DisableBaseBeforePublication, AfterStaging
  <2>2. QED BY <1>1, <2>1, GoesElsewhere
<1>4. ASSUME UNCHANGED <<bases, owner>> PROVE CatchUps'
  BY <1>3, <1>4, OneEntry, SteadyKeeps DEF Steady
<1>5. ASSUME NEW e \in BaseState, bases' = [bases EXCEPT ![b] = e], owner' = owner,
             e.status = bases[b].status \/ (e.status \in Composing /\ bases[b].status \in Composing)
      PROVE  CatchUps'
  <2>1. Composing \cap Published = {}
    BY DEF Composing, Published, InFlight
  <2>2. SameOwner
    BY <1>1, <1>5, <2>1, OneEntry
  <2>3. QED BY <1>3, <2>2, SteadyKeeps DEF Steady
<1>6. CASE BeginPreparation(t) \/ BuildRenderSource(t) \/ SubmitComposite(t)
  BY <1>4, <1>6 DEF BeginPreparation, BuildRenderSource, SubmitComposite, runtimeVars
<1>7. CASE StoreStructure(t)
  <2> DEFINE e == [bases[b] EXCEPT !.structure = TRUE]
  <2>1. e \in BaseState /\ e.status = bases[b].status
    BY <1>1, BaseStateUpdate DEF BaseState
  <2>2. owner' = owner /\ (bases' = bases \/ bases' = [bases EXCEPT ![b] = e])
    BY <1>7 DEF StoreStructure
  <2> HIDE DEF e
  <2>3. QED BY <1>4, <1>5, <2>1, <2>2
<1>8. CASE RecordComposite(t)
  <2> DEFINE e == [bases[b] EXCEPT !.composite = "submitted", !.status = "CompositePending"]
  <2>1. e \in BaseState /\ e.status = "CompositePending"
    BY <1>1, BaseStateUpdate DEF BaseState
  <2>2. owner' = owner
        /\ (bases' = bases \/ (bases' = [bases EXCEPT ![b] = e] /\ bases[b].status = "Queued"))
    BY <1>8 DEF RecordComposite, OwnsAs, UpdatePendingWorkFlagLocked
  <2>3. "CompositePending" \in Composing /\ "Queued" \in Composing
    BY DEF Composing, InFlight
  <2> HIDE DEF e
  <2>4. QED BY <1>4, <1>5, <2>1, <2>2, <2>3
<1>9. CASE DisableBaseBeforePublication(t)
  <2>1. CASE owner' = None /\ owner = b
    <3>1. OnTask(t) /\ th[t].kind = "prepare"
      <4>1. OnTask(t) /\ th[t].pc \in {"disable", "disable_kill"}
        BY <1>9 DEF DisableBaseBeforePublication, OnTask, TaskLabels
      <4>2. QED BY <4>1, TaskFacts, CarrierKinds
    <3>2. bases[b].status = "Queued"
      BY <3>1, TaskFacts DEF Posted
    <3>3. "Queued" \in Composing
      BY DEF Composing, InFlight
    <3>4. \A u \in Threads : ~CatchingUp(u)'
      BY <1>3, <2>1, <3>2, <3>3, NoCatchUp DEF SameCatchUps
    <3>5. QED BY <2>1, <3>4 DEF CatchUps, OwnerKnown, OwnerServes
  <2>2. CASE UNCHANGED <<bases, owner>>
    BY <1>4, <2>2
  <2>3. QED BY <1>9, <2>1, <2>2 DEF DisableBaseBeforePublication, UpdatePendingWorkFlagLocked
<1>10. QED BY <1>6, <1>7, <1>8, <1>9 DEF Preparation

\* A poll leaves its base on the way to its publication.
LEMMA CompositionCatches ==
  ASSUME TypeOK, CatchUps, NEW t \in Threads, Composition(t)
  PROVE  Steady
<1> USE DEF At
<1> DEFINE b == th[t].base
<1>1. ~CatchingUp(t) /\ b \in Bases /\ bases \in [Bases -> BaseState] /\ bases[b] \in BaseState
  BY InsideTyped, TypedParts
     DEF Composition, PollPendingComposite, RecordFinalization, PollCompositeActivation,
         Baseless, CatchingUp
<1>2. {"requeue", "polled", "validate"} \subseteq Labels \ {"refresh", "release"}
  BY DEF Labels
<1>3. SameCatchUps
  <2>1. Return(t) \/ \E l \in Labels \ {"refresh", "release"} : Goto(t, l)
    BY <1>2 DEF Composition, PollPendingComposite, RecordFinalization, PollCompositeActivation,
                ArmBarrier, AwaitPublicationIdle, LookupFails
  <2>2. QED BY <1>1, <2>1, GoesElsewhere
<1>4. /\ {"CompositeFinalized", "CompositeQueued", "CompositeActivationQueued"} \subseteq Composing
      /\ Composing \cap Published = {}
  BY DEF Composing, Published, InFlight
<1>5. CASE PollPendingComposite(t)
  <2> DEFINE e == [bases[b] EXCEPT !.composite = "finalized"]
  <2>1. e \in BaseState /\ e.status = bases[b].status
    BY <1>1, BaseStateUpdate DEF BaseState
  <2>2. owner' = owner /\ (bases' = bases \/ bases' = [bases EXCEPT ![b] = e])
    BY <1>5 DEF PollPendingComposite, LookupFails, runtimeVars
  <2> HIDE DEF e
  <2>3. QED BY <1>1, <1>3, <2>1, <2>2, OneEntry DEF Steady
<1>6. CASE RecordFinalization(t)
  <2> DEFINE e == [bases[b] EXCEPT !.status = "CompositeFinalized"]
  <2>1. e \in BaseState /\ e.status = "CompositeFinalized"
    BY <1>1 DEF BaseState, BaseStatus
  <2>2. owner' = owner /\ (bases' = bases \/ (bases' = [bases EXCEPT ![b] = e]
                                              /\ bases[b].status = "CompositeQueued"))
    BY <1>6 DEF RecordFinalization, OwnsAs, UpdatePendingWorkFlagLocked, SetStatus
  <2> HIDE DEF e
  <2>3. QED BY <1>1, <1>3, <1>4, <2>1, <2>2, OneEntry DEF Steady
<1>7. CASE PollCompositeActivation(t)
  <2> DEFINE e == [bases[b] EXCEPT !.barrier = TRUE, !.status = "CompositeFinalized"]
  <2>1. e \in BaseState /\ e.status = "CompositeFinalized"
    BY <1>1, BaseStateUpdate DEF BaseState
  <2>2. owner' = owner /\ (bases' = bases \/ (bases' = [bases EXCEPT ![b] = e]
                                              /\ bases[b].status = "CompositeActivationQueued"))
    BY <1>7 DEF PollCompositeActivation, ArmBarrier, AwaitPublicationIdle, LookupFails, OwnsAs,
                UpdatePendingWorkFlagLocked, runtimeVars
  <2> HIDE DEF e
  <2>3. QED BY <1>1, <1>3, <1>4, <2>1, <2>2, OneEntry DEF Steady
<1>8. QED BY <1>5, <1>6, <1>7 DEF Composition

\* The publication of the owner begins its catch-up.
LEMMA CompletionCatches ==
  ASSUME TypeOK, TaskInv, SingleFlight, CatchUps, NEW t \in Threads, CompletePublication(t),
         StaysDisabled
  PROVE  CatchUps'
<1> USE DEF At
<1> DEFINE b == th[t].base
           e == [bases[b] EXCEPT !.status = "Ready", !.waiting = {}, !.assignment = None]
           r == [th[t] EXCEPT !.pc = "refresh", !.todo = bases[b].waiting]
<1>1. /\ ~CatchingUp(t) /\ b \in Bases /\ b # None /\ bases \in [Bases -> BaseState]
      /\ bases[b] \in BaseState /\ th \in [Threads -> ThreadState]
  BY InsideTyped, TypedParts, BasesAssumption DEF CompletePublication, Baseless, CatchingUp
<1>2. \/ Return(t) /\ UNCHANGED <<bases, owner>>
      \/ /\ Enter(t, r) /\ bases' = [bases EXCEPT ![b] = e] /\ owner' = owner
         /\ OwnsAs(b, ExpectedStatus(b))
  BY DEF CompletePublication, UpdatePendingWorkFlagLocked
<1>3. e.status = "Ready" /\ r.pc = "refresh" /\ r.base = b
  BY <1>1 DEF BaseState, ThreadState
<1> HIDE DEF e, r
<1>4. CASE Return(t) /\ UNCHANGED <<bases, owner>>
  BY <1>1, <1>4, GoesElsewhere, OneEntry, SteadyKeeps DEF Steady
<1>5. CASE /\ Enter(t, r) /\ bases' = [bases EXCEPT ![b] = e] /\ owner' = owner
           /\ OwnsAs(b, ExpectedStatus(b))
  <2>1. owner = b /\ bases[b].status \in Composing
    BY <1>5 DEF OwnsAs, ExpectedStatus, Composing, InFlight
  <2>2. \A u \in Threads : ~CatchingUp(u)
    BY <2>1, NoCatchUp
  <2>3. /\ th'[t] = r /\ \A u \in Threads \ {t} : th'[u] = th[u]
        /\ bases'[b].status = "Ready" /\ owner' = b
    BY <1>1, <1>3, <1>5, <2>1 DEF Enter
  <2>4. \A u \in Threads : CatchingUp(u)' <=> u = t
    BY <1>3, <2>2, <2>3 DEF CatchingUp
  <2>5. OwnerKnown'
    BY <1>3, <2>3, <2>4 DEF OwnerKnown, Published
  <2>6. InCatchUp(owner)'
    BY <1>3, <2>3 DEF InCatchUp
  <2>7. QED BY <2>5, <2>6 DEF CatchUps, OwnerServes
<1>6. QED BY <1>2, <1>4, <1>5

\* The thread that serves the waiters ends the catch-up when it releases the
\* preparation, or finds the process disabled, or throws.
LEMMA RefreshCatches ==
  ASSUME TypeOK, CatchUps, NEW t \in Threads, StaysDisabled,
         \/ \E r \in Refs : RefreshWaitingReference(t, r)
         \/ EndRefresh(t) \/ ReleasePreparationOwner(t)
  PROVE  CatchUps'
<1> USE DEF At
<1> DEFINE b == th[t].base
<1>1. /\ CatchingUp(t) /\ th \in [Threads -> ThreadState] /\ owner = b /\ b \in Bases
      /\ bases' = bases
  <2>1. CatchingUp(t) /\ bases' = bases
    BY DEF RefreshWaitingReference, EndRefresh, ReleasePreparationOwner, CatchingUp,
           runtimeVars, UpdatePendingWorkFlagLocked
  <2>2. QED BY <2>1, TypedParts DEF CatchUps, OwnerKnown, CatchingUp, TypeOK, ThreadsTyped, Baseless
<1>2. \A u \in Threads \ {t} : ~CatchingUp(u)
  BY <1>1 DEF CatchUps, OwnerKnown
<1>3. ASSUME NEW r, th' = [th EXCEPT ![t] = r], r.pc \in {"refresh", "release"}, r.base = b,
             owner' = owner
      PROVE  CatchUps'
  BY <1>1, <1>3, OneEntry, SteadyKeeps DEF Steady, SameCatchUps, CatchingUp
<1>4. ASSUME Return(t), owner' = owner \/ owner' = None,
             owner' = owner => ~IsRuntimeOperational' \/ "throw" \in Faults
      PROVE  CatchUps'
  <2>1. \A u \in Threads : ~CatchingUp(u)'
    BY <1>1, <1>2, <1>4, ReturnMoves DEF CatchingUp
  <2>2. QED BY <1>1, <1>4, <2>1 DEF CatchUps, OwnerKnown, OwnerServes
<1>5. ASSUME NEW r \in Refs, RefreshWaitingReference(t, r) PROVE CatchUps'
  <2> DEFINE x == [th[t] EXCEPT !.todo = @ \ {r}]
  <2>1. owner' = owner /\ th[t].pc = "refresh"
    BY <1>5 DEF RefreshWaitingReference, runtimeVars
  <2>2. th' = [th EXCEPT ![t] = x] \/ (Return(t) /\ "throw" \in Faults)
    BY <1>5 DEF RefreshWaitingReference, Refreshed, Enter, Fault
  <2>3. x.pc = th[t].pc /\ x.base = b
    BY <1>1 DEF ThreadState
  <2> HIDE DEF x
  <2>4. QED BY <1>3, <1>4, <2>1, <2>2, <2>3
<1>6. CASE EndRefresh(t)
  <2> DEFINE x == [th[t] EXCEPT !.pc = "release"]
  <2>1. owner' = owner /\ killed' = killed
    BY <1>6 DEF EndRefresh, runtimeVars
  <2>2. th' = [th EXCEPT ![t] = x] \/ (Return(t) /\ ~IsRuntimeOperational)
    BY <1>6 DEF EndRefresh, Goto
  <2>3. x.pc = "release" /\ x.base = b
    BY <1>1 DEF ThreadState
  <2> HIDE DEF x
  <2>4. QED BY <1>3, <1>4, <2>1, <2>2, <2>3 DEF IsRuntimeOperational
<1>7. CASE ReleasePreparationOwner(t)
  <2>1. Return(t)
    BY <1>7 DEF ReleasePreparationOwner
  <2>2. owner' = None \/ (owner' = owner /\ KillRuntime("release"))
    BY <1>7 DEF ReleasePreparationOwner, UpdatePendingWorkFlagLocked
  <2>3. KillRuntime("release") => ~IsRuntimeOperational'
    BY DEF KillRuntime, IsRuntimeOperational
  <2>4. CASE owner' = None
    BY <1>4, <1>1, <2>1, <2>4, BasesAssumption
  <2>5. CASE owner' = owner /\ ~IsRuntimeOperational'
    BY <1>4, <2>1, <2>5
  <2>6. QED BY <2>2, <2>3, <2>4, <2>5
<1>8. QED BY <1>5, <1>6, <1>7

\* The vanilla fallback of a base that does not own the preparation.
LEMMA VanillaCatches ==
  ASSUME TypeOK, CatchUps, NEW t \in Threads, VanillaFallback(t)
  PROVE  Steady
<1> USE DEF At
<1> DEFINE b == th[t].base
<1>1. ~CatchingUp(t) /\ b \in Bases /\ bases \in [Bases -> BaseState] /\ bases[b] \in BaseState
      /\ th[t] \in ThreadState
  BY InsideTyped, TypedParts
     DEF VanillaFallback, BeginVanillaRefresh, RefreshVanillaReference, EndVanillaRefresh,
         Baseless, CatchingUp
<1>2. CASE BeginVanillaRefresh(t)
  <2> DEFINE e == [bases[b] EXCEPT !.status = "Disabled", !.waiting = {}]
             r == [th[t] EXCEPT !.pc = "vanilla", !.todo = bases[b].waiting]
  <2>1. e \in BaseState /\ r.pc = "vanilla"
    BY <1>1, BaseStateUpdate DEF ThreadState
  <2>2. \/ Return(t) /\ UNCHANGED <<bases, owner>>
        \/ /\ th' = [th EXCEPT ![t] = r] /\ bases' = [bases EXCEPT ![b] = e] /\ owner' = owner
           /\ bases[b].status = "VanillaRefreshQueued"
    BY <1>2 DEF BeginVanillaRefresh, UpdatePendingWorkFlagLocked, Enter, runtimeVars
  <2> HIDE DEF e, r
  <2>3. SameCatchUps
    BY <1>1, <2>1, <2>2, GoesElsewhere, Elsewhere
  <2>4. "VanillaRefreshQueued" \notin Composing \cup Published
    BY DEF Composing, Published, InFlight
  <2>5. SameOwner
    BY <1>1, <2>1, <2>2, <2>4, OneEntry
  <2>6. QED BY <2>3, <2>5 DEF Steady
<1>3. ASSUME NEW r \in Refs, RefreshVanillaReference(t, r) PROVE Steady
  <2>1. Return(t) \/ Enter(t, [th[t] EXCEPT !.todo = @ \ {r}])
    BY <1>3 DEF RefreshVanillaReference, Refreshed
  <2>2. UNCHANGED <<bases, owner>>
    BY <1>3 DEF RefreshVanillaReference, runtimeVars
  <2>3. QED BY <1>1, <2>1, <2>2, GoesElsewhere, OneEntry DEF Steady
<1>4. CASE EndVanillaRefresh(t)
  BY <1>1, <1>4, GoesElsewhere, OneEntry DEF EndVanillaRefresh, runtimeVars, Steady
<1>5. QED BY <1>2, <1>3, <1>4 DEF VanillaFallback

\* Nothing that begins outside the plugin touches the owner.
LEMMA OutsideCatches ==
  ASSUME TypeOK, BeforeArm, CatchUps, Startup \/ Engine \/ Drain \/ PumpPendingBases
  PROVE  Steady
<1> USE DEF At
<1>1. bases \in [Bases -> BaseState] /\ owner \in Bases \cup {None}
      /\ th \in [Threads -> ThreadState] /\ Drainer \in Threads /\ Pumper \in Threads
  BY ThreadsAssumption, TypedParts DEF TypeOK
<1>2. \A t \in Threads : th[t].pc \in {"idle", "arm"} => ~CatchingUp(t)
  BY DEF CatchingUp
<1>3. CASE StartPreparationPump(Drainer)
  <2>1. Goto(Drainer, "arm") /\ "arm" \in Labels \ {"refresh", "release"}
        /\ UNCHANGED <<bases, owner>>
    BY <1>3 DEF StartPreparationPump, runtimeVars, Labels
  <2>2. QED BY <1>1, <1>2, <1>3, <2>1, GoesElsewhere, OneEntry DEF StartPreparationPump, Steady
<1>4. CASE Arm(Drainer)
  <2>1. armed # "armed"
    BY <1>1, <1>4 DEF Arm, BeforeArm
  <2>2. \A c \in Bases : bases[c].status = "absent"
    BY <2>1 DEF BeforeArm
  <2>3. owner = None
    BY <1>1, <2>2 DEF CatchUps, OwnerKnown, Composing, Published, InFlight
  <2>4. SameOwner
    BY <1>4, <2>3 DEF Arm, SameOwner
  <2>5. QED BY <1>1, <1>2, <1>4, <2>4, GoesElsewhere DEF Arm, Steady
<1>5. ASSUME NEW t \in Threads, NEW r \in Refs, BuildReference(t, r) PROVE Steady
  <2>1. PICK d \in BOOLEAN :
          Enter(t, [Idle EXCEPT !.pc = "set3d", !.base = BaseOf[r], !.ref = r, !.drain = d])
    BY <1>5 DEF BuildReference, MayBeInDrain
  <2> DEFINE x == [Idle EXCEPT !.pc = "set3d", !.base = BaseOf[r], !.ref = r, !.drain = d]
  <2>2. x.pc = "set3d" /\ th' = [th EXCEPT ![t] = x]
    BY <2>1 DEF Idle, Enter
  <2> HIDE DEF x
  <2>3. SameCatchUps
    BY <1>2, <1>5, <2>2, Elsewhere DEF BuildReference
  <2>4. QED BY <1>5, <2>3, OneEntry DEF BuildReference, runtimeVars, Steady
<1>6. ASSUME NEW b \in Bases, Expire(b) PROVE Steady
  <2> DEFINE e == [bases[b] EXCEPT !.expired = TRUE]
  <2>1. bases[b] \in BaseState /\ bases' = [bases EXCEPT ![b] = e]
    BY <1>1, <1>6 DEF Expire
  <2>2. e \in BaseState /\ e.status = bases[b].status
    BY <2>1 DEF BaseState
  <2> HIDE DEF e
  <2>3. SameOwner
    BY <1>6, <2>1, <2>2, OneEntry DEF Expire
  <2>4. QED BY <1>6, <2>3 DEF Expire, SameCatchUps, CatchingUp, Steady
<1>7. CASE Engine
  <2>1. ASSUME UNCHANGED <<bases, owner, th>> PROVE Steady
    BY <2>1, OneEntry DEF SameCatchUps, CatchingUp, Steady
  <2>2. QED BY <1>5, <1>6, <1>7, <2>1
            DEF Engine, UnloadReference, ReuseFormID, ToggleQueue, runtimeVars
<1>8. CASE Drain
  <2>1. PICK t \in Threads, k \in Kinds, b \in Bases, r \in ThreadState : Fetches(t, k, b, r)
    BY <1>8, DrainFetches
  <2>2. SameCatchUps
    BY <1>2, <2>1, Elsewhere DEF Fetches, Enter
  <2>3. QED BY <2>1, <2>2, OneEntry DEF Fetches, Steady
<1>9. CASE PumpPendingBases
  <2>1. PICK d \in BOOLEAN : Enter(Pumper, [Idle EXCEPT !.pc = "pump", !.drain = d])
    BY <1>9 DEF PumpPendingBases, MayBeInDrain
  <2> DEFINE x == [Idle EXCEPT !.pc = "pump", !.drain = d]
  <2>2. x.pc = "pump" /\ th' = [th EXCEPT ![Pumper] = x]
    BY <2>1 DEF Idle, Enter
  <2> HIDE DEF x
  <2>3. SameCatchUps
    BY <1>1, <1>2, <1>9, <2>2, Elsewhere DEF PumpPendingBases
  <2>4. QED BY <1>9, <2>3, OneEntry DEF PumpPendingBases, runtimeVars, Steady
<1>10. QED BY <1>3, <1>4, <1>7, <1>8, <1>9 DEF Startup

\* Every step keeps the catch-ups.
LEMMA StepCatches ==
  ASSUME TypeOK, SingleFlight, TaskInv, BeforeArm, CatchUps, [Next]_vars
  PROVE  CatchUps'
<1>1. StaysDisabled
  BY KilledForGood DEF StaysDisabled
<1>2. ASSUME NEW t \in Threads, ActivateRenderSource(t) PROVE CatchUps'
  <2>1. ~CatchingUp(t) /\ (Goto(t, "complete") \/ Return(t)) /\ UNCHANGED <<bases, owner>>
    BY <1>2 DEF ActivateRenderSource, CatchingUp, At, runtimeVars
  <2>2. "complete" \in Labels \ {"refresh", "release"}
    BY DEF Labels
  <2>3. QED BY <1>1, <2>1, <2>2, GoesElsewhere, OneEntry, SteadyKeeps DEF Steady
<1>3. ASSUME NEW t \in Threads, ThreadStep(t) PROVE CatchUps'
  BY <1>1, <1>2, <1>3, EventSteady, DispatchCatches, PreparationCatches, CompositionCatches,
     CompletionCatches, RefreshCatches, VanillaCatches, SteadyKeeps DEF ThreadStep, Publication
<1>4. CASE UNCHANGED vars
  <2>1. Steady
    BY <1>4, OneEntry DEF vars, runtimeVars, Steady, SameCatchUps, CatchingUp
  <2>2. QED BY <1>1, <2>1, SteadyKeeps
<1>5. QED BY <1>1, <1>3, <1>4, OutsideCatches, SteadyKeeps DEF Next

\* A check that trips is one that another thread has overtaken.
LEMMA StepTrips ==
  ASSUME TypeOK, SingleFlight, TaskInv, BeforeArm, CatchUps, killed = "no", [Next]_vars,
         killed' \in {"ready without binding", "release", "invalid owner"}
  PROVE  /\ FirstKill("ready without binding") =>
              \E t \in Threads : /\ At(t, "set3d_lock") /\ ~th[t].owned
                                 /\ bases[th[t].base].status = "Ready"
                                 /\ slot[th[t].base] = "active"
         /\ FirstKill("release") =>
              /\ OwnerPublished /\ bases[owner].status # "Ready"
              /\ \E t \in Threads : At(t, "release") /\ th[t].base = owner
         /\ FirstKill("invalid owner") =>
              OwnerPublished /\ (InCatchUp(owner) \/ "throw" \in Faults)
<1> USE DEF At, runtimeVars, engineVars
<1>1. PICK t \in Threads :
        \/ ObserveReference(t) /\ killed' = "ready without binding"
        \/ ReleasePreparationOwner(t) /\ killed' = "release"
        \/ SelectBase(t) /\ killed' = "invalid owner"
  <2>1. ~Startup /\ ~Engine /\ ~Drain /\ ~PumpPendingBases /\ ~UNCHANGED vars
    BY DEF Startup, StartPreparationPump, Arm, Engine, BuildReference, UnloadReference,
           ReuseFormID, Expire, ToggleQueue, Drain, RunTask, DropTask, PumpPendingBases, vars
  <2>2. PICK t \in Threads : ThreadStep(t)
    BY <2>1 DEF Next
  <2>3. ASSUME Event(t) PROVE ObserveReference(t) /\ killed' = "ready without binding"
    BY <2>3 DEF Event, OnReferenceSet3d, DeactivateRenderSource, ObserveReference, KillRuntime,
                IgnoreReference, RejectReference, StartVanillaFallback, JoinWaiters
  <2>4. ASSUME SelectBase(t) PROVE killed' = "invalid owner"
    BY <2>4 DEF SelectBase, KillRuntime
  <2>5. ~DispatchStep(t)
    BY DEF DispatchStep, TryDispatchPendingBase, TryDispatchCompositePoll,
           TryDispatchCompositeActivation, TryDispatchVanillaRefresh, DispatchComposite, Post,
           RequeueBase, RequeueComposite, RequeueCompositeActivation, RequeueVanillaRefresh,
           Requeue, DispatchLost, DispatchBlocked, PostPosted, KillRuntime
  <2>6. ~Preparation(t)
    BY DEF Preparation, BeginPreparation, BuildRenderSource, StoreStructure, SubmitComposite,
           RecordComposite, DisableBaseBeforePublication, KillRuntime
  <2>7. ~Composition(t)
    BY DEF Composition, PollPendingComposite, RecordFinalization, PollCompositeActivation,
           LookupFails, AwaitPublicationIdle, ArmBarrier, KillRuntime
  <2>8. ASSUME Publication(t) PROVE ReleasePreparationOwner(t) /\ killed' = "release"
    BY <2>8 DEF Publication, ActivateRenderSource, CompletePublication, RefreshWaitingReference,
                EndRefresh, ReleasePreparationOwner, KillRuntime
  <2>9. ~VanillaFallback(t)
    BY DEF VanillaFallback, BeginVanillaRefresh, RefreshVanillaReference, EndVanillaRefresh,
           KillRuntime
  <2>10. QED BY <2>2, <2>3, <2>4, <2>5, <2>6, <2>7, <2>8, <2>9 DEF ThreadStep
<1>2. ASSUME ObserveReference(t), killed' = "ready without binding"
      PROVE  th[t].pc = "set3d_lock" /\ ~th[t].owned /\ bases[th[t].base].status = "Ready"
             /\ slot[th[t].base] = "active"
  <2> DEFINE b == th[t].base
             entry == FindOrInherit(b, th[t].extra)
  <2>1. b \in Bases /\ th[t].pc = "set3d_lock"
    BY <1>2, InsideTyped DEF ObserveReference, Baseless
  <2>2. entry = bases[b] \/ (entry.status = "Dormant" /\ bases[b].status = "absent")
    BY <2>1, FoundStatus
  <2> HIDE DEF entry
  <2>3. RejectReference(t, entry)
    BY <1>2 DEF ObserveReference, IgnoreReference, StartVanillaFallback, JoinWaiters, entry
  <2>4. entry.status = "Ready" /\ ~th[t].owned
    BY <1>2, <2>3 DEF RejectReference, KillRuntime
  <2>5. bases[b].status = "Ready"
    BY <2>2, <2>4
  <2>6. slot[b] = "active"
    BY <2>1, <2>5 DEF TaskInv, Entries, EntryOf
  <2>7. QED BY <2>1, <2>4, <2>5, <2>6
<1>3. ASSUME NEW u \in Threads, CatchingUp(u) PROVE OwnerPublished /\ owner = th[u].base
  <2>1. th[u].base # None
    BY <1>3, BasesAssumption DEF CatchingUp, TypeOK, ThreadsTyped, Baseless
  <2>2. QED BY <1>3, <2>1 DEF CatchUps, OwnerKnown, OwnerPublished, Published
<1>4. ASSUME ReleasePreparationOwner(t), killed' = "release"
      PROVE  OwnerPublished /\ bases[owner].status # "Ready" /\ th[t].pc = "release"
             /\ th[t].base = owner
  <2>1. CatchingUp(t) /\ th[t].pc = "release"
    BY <1>4 DEF ReleasePreparationOwner, CatchingUp
  <2>2. OwnerPublished /\ owner = th[t].base
    BY <1>3, <2>1
  <2>3. QED BY <1>4, <2>1, <2>2 DEF ReleasePreparationOwner, KillRuntime
<1>5. ASSUME SelectBase(t), killed' = "invalid owner"
      PROVE  OwnerPublished /\ (InCatchUp(owner) \/ "throw" \in Faults)
  <2>1. ~OwnerIsConsistent
    BY <1>5 DEF SelectBase
  <2>2. OwnerPublished
    BY <2>1 DEF OwnerIsConsistent, CatchUps, OwnerKnown, OwnerPublished, Composing, Published
  <2>3. QED BY <2>2 DEF CatchUps, OwnerServes, OwnerPublished, Published, IsRuntimeOperational
<1>6. QED BY <1>1, <1>2, <1>4, <1>5 DEF FirstKill

\* The coordinator's checks of its own transitions trip only when another thread has
\* overtaken the one that makes them: an event that read its binding before the
\* publication, a catch-up whose FormID was reused meanwhile, or a pump that the
\* flag sends to look for work while the owner is in its catch-up, or was left by an
\* exception in it.  No other check ever trips.
THEOREM TransitionsHold == Spec => ChecksTripOnlyOvertaken
<1>1. Init => CatchUps
  BY DEF Init, Idle, CatchUps, OwnerKnown, OwnerServes, CatchingUp
<1>2. /\ TypeOK /\ SingleFlight /\ (TaskInv /\ BeforeArm) /\ CatchUps /\ [Next]_vars
      => CatchUps' /\ TripsOvertaken
  <2> SUFFICES ASSUME TypeOK, SingleFlight, TaskInv, BeforeArm, CatchUps, [Next]_vars
               PROVE  CatchUps' /\ TripsOvertaken
    OBVIOUS
  <2>1. CatchUps'
    BY StepCatches
  <2>2. \A why \in SoundChecks : ~FirstKill(why)
    BY StepTasks DEF ChecksHold, FirstKill, SoundChecks
  <2>3. ASSUME FirstKill("ready without binding") \/ FirstKill("release") \/ FirstKill("invalid owner")
        PROVE  killed = "no" /\ killed' \in {"ready without binding", "release", "invalid owner"}
    BY <2>3 DEF FirstKill
  <2>4. /\ FirstKill("ready without binding") =>
             \E t \in Threads : /\ At(t, "set3d_lock") /\ ~th[t].owned
                               /\ bases[th[t].base].status = "Ready"
                               /\ slot[th[t].base] = "active"
        /\ FirstKill("release") =>
             /\ OwnerPublished /\ bases[owner].status # "Ready"
             /\ \E t \in Threads : At(t, "release") /\ th[t].base = owner
        /\ FirstKill("invalid owner") =>
             OwnerPublished /\ (InCatchUp(owner) \/ "throw" \in Faults)
    <3>1. CASE killed = "no" /\ killed' \in {"ready without binding", "release", "invalid owner"}
      BY <3>1, StepTrips
    <3>2. CASE ~(killed = "no" /\ killed' \in {"ready without binding", "release", "invalid owner"})
      BY <2>3, <3>2
    <3>3. QED BY <3>1, <3>2
  <2>5. QED BY <2>1, <2>2, <2>4 DEF TripsOvertaken
<1>3. QED BY <1>1, <1>2, TypeCorrect, OneBaseInFlight, TaskInvHolds, PTL
          DEF Spec, ChecksTripOnlyOvertaken

-----------------------------------------------------------------------------
(* One engine thread.  Whether a render source is read in time depends on  *)
(* the thread that reads it: OverlayRuntime's runs show what goes wrong on *)
(* two threads.  On one, what an event read before the lock still holds    *)
(* under it (ReadsHold), nothing is built before Arm (NothingEarly), a     *)
(* reused binding is withdrawn before its references are rebuilt           *)
(* (WithdrawnFirst), the owner is at work (OwnerWorks), and every          *)
(* reference with 3D is accounted for (Accounted).                         *)

Sequential == Threads = {Drainer}
Here == th[Drainer]

Renewing  == {"VanillaRefreshPending", "VanillaRefreshQueued"}
\* Where the thread is not on the way of a task.
Special   == Handling \cup {"arm", "refresh", "release", "vanilla"}

ReadsHold ==
  /\ Here.pc \in Handling => Here.base = BaseOf[Here.ref]
  /\ Here.pc \notin Handling => Here.ref = None
  /\ Here.pc = "set3d_lock" =>
       /\ Here.owned = (slot[Here.base] # "empty")
       /\ Here.extra = extra[Here.base]
  /\ Here.pc \in {"set3d", "set3d_lock"} /\ built[Here.ref] # "unloaded" =>
       built[Here.ref] = ResolveRenderSource(Here.base)

NothingEarly ==
  /\ armed = "pumping" => Here.pc = "arm"
  /\ armed # "armed" => \A r \in Refs : built[r] = "unloaded"

WithdrawnFirst ==
  /\ \A b \in Bases : bases[b].status \in Renewing /\ slot[b] = "active" =>
       Here.pc = "deactivate" /\ Here.base = b
  /\ Here.pc = "vanilla" => slot[Here.base] # "active"

OwnerWorks ==
  /\ owner # None => bases[owner].status \in Composing \/ Here.pc \in {"refresh", "release"}
  /\ Here.pc \in {"refresh", "release"} => owner = Here.base /\ bases[owner].status = "Ready"

Accounted ==
  \A r \in Refs :
    LET b == BaseOf[r]
    IN  built[r] # "unloaded" /\ Here.ref # r =>
          /\ bases[b].status = "Ready" =>
               built[r] = "custom" \/ (Here.pc = "refresh" /\ r \in Here.todo)
          /\ bases[b].status \in Composing => r \in bases[b].waiting
          /\ bases[b].status # "Dormant"
          /\ bases[b].status = "absent" => extra[b] \notin Configured \/ extra[b] = b

\* What Goto, Enter, Return and Dispatch make of the thread.
LEMMA HereGoes ==
  ASSUME TypeOK, NEW l, Goto(Drainer, l)
  PROVE  /\ Here'.pc = l /\ Here'.base = Here.base /\ Here'.ref = Here.ref
         /\ Here'.todo = Here.todo /\ Here'.kind = Here.kind
         /\ Here'.owned = Here.owned /\ Here'.extra = Here.extra
BY TypedParts, ThreadsAssumption DEF Goto, Here, ThreadState

LEMMA HereEnters ==
  ASSUME TypeOK, NEW r, Enter(Drainer, r)
  PROVE  Here' = r
BY TypedParts, ThreadsAssumption DEF Enter, Here

LEMMA HereReturns ==
  ASSUME TypeOK, Return(Drainer)
  PROVE  Here'.pc = "idle" /\ Here'.ref = None /\ Here'.todo = {}
BY HereEnters DEF Return, Idle

LEMMA HereDispatches ==
  ASSUME TypeOK, NEW b, NEW k, Dispatch(Drainer, b, k)
  PROVE  Here'.pc = "dispatch" /\ Here'.ref = None /\ Here'.todo = {} /\ Here'.base = b
BY HereEnters DEF Dispatch, Idle

\* A step on the way of a task.
ThreadWorks ==
  /\ Here.pc \notin Special /\ Here'.pc \notin Special /\ Here'.ref = None
  /\ armed = "armed"

EntryWorks(b) ==
  \/ bases'[b].waiting = bases[b].waiting /\ \/ bases'[b].status = bases[b].status
                                             \/ {bases[b].status, bases'[b].status} \subseteq Composing
                                             \/ {bases[b].status, bases'[b].status} \subseteq Renewing
  \/ bases'[b].status = "Disabled"

Works ==
  /\ ThreadWorks /\ UNCHANGED <<armed, built, extra>> /\ StaysDisabled
  /\ \A b \in Bases : EntryWorks(b)
  /\ owner' # None =>
       \/ bases'[owner'].status \in Composing
       \/ owner' = owner /\ bases[owner].status \notin Composing
  /\ \A b \in Bases : slot'[b] = "active" => slot[b] = "active" \/ bases'[b].status \notin Renewing

LEMMA WorksReads ==
  ASSUME Works, ReadsHold, NothingEarly
  PROVE  ReadsHold' /\ NothingEarly'
<1>1. Here'.pc \notin Handling /\ Here'.ref = None
  BY DEF Works, ThreadWorks, Special
<1>2. ReadsHold'
  BY <1>1 DEF ReadsHold, Handling
<1>3. NothingEarly'
  BY DEF Works, ThreadWorks, NothingEarly
<1>4. QED BY <1>2, <1>3

LEMMA WorksWithdrawn ==
  ASSUME Works, WithdrawnFirst
  PROVE  WithdrawnFirst'
<1>1. Here.pc # "deactivate" /\ Here'.pc # "vanilla"
  BY DEF Works, ThreadWorks, Special, Handling
<1>2. ASSUME NEW b \in Bases, bases'[b].status \in Renewing PROVE slot'[b] # "active"
  <2>1. bases[b].status \in Renewing
    BY <1>2 DEF Works, EntryWorks, Renewing, Composing, InFlight
  <2>2. slot[b] # "active"
    BY <1>1, <2>1 DEF WithdrawnFirst
  <2>3. QED BY <1>2, <2>2 DEF Works
<1>3. QED BY <1>1, <1>2 DEF WithdrawnFirst

LEMMA WorksOwner ==
  ASSUME Works, OwnerWorks
  PROVE  OwnerWorks'
BY DEF Works, ThreadWorks, Special, OwnerWorks

LEMMA WorksAccounted ==
  ASSUME Works, ReadsHold, Accounted
  PROVE  Accounted'
<1>1. Here.ref = None /\ Here.pc # "refresh" /\ Here'.ref = None
  BY DEF Works, ThreadWorks, Special, ReadsHold
<1> SUFFICES ASSUME NEW r \in Refs, built'[r] # "unloaded"
             PROVE  LET b == BaseOf[r]
                    IN  /\ bases'[b].status = "Ready" => built'[r] = "custom"
                        /\ bases'[b].status \in Composing => r \in bases'[b].waiting
                        /\ bases'[b].status # "Dormant"
                        /\ bases'[b].status = "absent" => extra'[b] \notin Configured \/ extra'[b] = b
  BY DEF Accounted
<1> DEFINE b == BaseOf[r]
<1>2. b \in Bases /\ r # None
  BY BasesAssumption
<1>3. built' = built /\ extra' = extra /\ EntryWorks(b)
  BY <1>2 DEF Works
<1>4. /\ bases[b].status = "Ready" => built[r] = "custom"
      /\ bases[b].status \in Composing => r \in bases[b].waiting
      /\ bases[b].status # "Dormant"
      /\ bases[b].status = "absent" => extra[b] \notin Configured \/ extra[b] = b
  BY <1>1, <1>2, <1>3 DEF Accounted
<1>5. QED BY <1>3, <1>4 DEF EntryWorks, Composing, Renewing, InFlight

\* A thread on the way of a task goes on, dispatches or leaves.
LEMMA GoesWorks ==
  ASSUME TypeOK, BeforeArm, ReadsHold, Here.pc \notin Special \cup {"idle"},
         \/ \E l \in Labels \ Special : Goto(Drainer, l)
         \/ Return(Drainer)
         \/ \E b, k : Dispatch(Drainer, b, k)
  PROVE  ThreadWorks
<1>1. armed = "armed" /\ Here.ref = None
  BY ThreadsAssumption DEF BeforeArm, Here, ReadsHold, Special, Handling
<1>2. CASE \E l \in Labels \ Special : Goto(Drainer, l)
  BY <1>1, <1>2, HereGoes DEF ThreadWorks
<1>3. CASE Return(Drainer)
  BY <1>1, <1>3, HereReturns DEF ThreadWorks, Special, Handling
<1>4. CASE \E b, k : Dispatch(Drainer, b, k)
  BY <1>1, <1>4, HereDispatches DEF ThreadWorks, Special, Handling
<1>5. QED BY <1>2, <1>3, <1>4

\* Such a step leaves the tracked bases and the slots alone,
LEMMA NothingWritten ==
  ASSUME ThreadWorks, UNCHANGED <<armed, built, extra, bases, owner, slot>>, StaysDisabled
  PROVE  Works
BY DEF Works, EntryWorks

\* or writes one entry, whose waiters it keeps.
LEMMA EntryWritten ==
  ASSUME TypeOK, ThreadWorks, UNCHANGED <<armed, built, extra>>, StaysDisabled,
         NEW b \in Bases, NEW e, bases' = [bases EXCEPT ![b] = e], e.waiting = bases[b].waiting,
         \/ e.status = bases[b].status
         \/ {bases[b].status, e.status} \subseteq Composing
         \/ {bases[b].status, e.status} \subseteq Renewing,
         \/ owner' = owner
         \/ owner' = None
         \/ owner' = b /\ e.status \in Composing,
         \/ slot' = slot
         \/ e.status \notin Renewing /\ \E s : slot' = [slot EXCEPT ![b] = s]
  PROVE  Works
<1>1. bases'[b] = e /\ \A c \in Bases \ {b} : bases'[c] = bases[c]
  BY TypedParts
<1>2. \A c \in Bases : EntryWorks(c)
  BY <1>1 DEF EntryWorks
<1>3. \A c \in Bases : slot'[c] = "active" => slot[c] = "active" \/ bases'[c].status \notin Renewing
  <2> TAKE c \in Bases
  <2>1. CASE c = b
    BY <1>1, <2>1
  <2>2. CASE c # b
    BY <2>2, TypedParts
  <2>3. QED BY <2>1, <2>2
<1>4. owner \in Bases \cup {None}
  BY DEF TypeOK
<1>5. owner' # None =>
        \/ bases'[owner'].status \in Composing
        \/ owner' = owner /\ bases[owner].status \notin Composing
  <2>1. CASE owner' = owner /\ owner # b
    BY <1>1, <1>4, <2>1
  <2>2. CASE owner' = owner /\ owner = b
    BY <1>1, <2>2 DEF Composing, InFlight, Renewing
  <2>3. QED BY <1>1, <2>1, <2>2
<1>6. QED BY <1>2, <1>3, <1>5 DEF Works

\* The selection of the pump.
LEMMA SelectWorks ==
  ASSUME TypeOK, BeforeArm, ReadsHold, SelectBase(Drainer)
  PROVE  Works
<1> USE DEF runtimeVars, engineVars, At
<1>1. Here.pc \notin Special \cup {"idle"}
  BY DEF SelectBase, Here, Special, Handling
<1>2. Return(Drainer) \/ \E b, k : Dispatch(Drainer, b, k)
  BY DEF SelectBase
<1>3. StaysDisabled
  BY NoKill, KillDisables DEF SelectBase
<1>4. ThreadWorks
  BY <1>1, <1>2, GoesWorks
<1>5. UNCHANGED <<armed, built, extra, bases, owner, slot>>
  BY DEF SelectBase, UpdatePendingWorkFlagLocked
<1>6. QED BY <1>3, <1>4, <1>5, NothingWritten

\* The dispatches.
LEMMA PostedWorks ==
  ASSUME TypeOK, BeforeArm, ReadsHold, Here.pc = "dispatch", NEW own,
         bases[Here.base].status = Parked[Here.kind],
         own = owner \/ own = None \/ (own = Here.base /\ Here.kind # "vanilla"),
         PostPosted(Drainer, own), UNCHANGED <<armed, built, extra, slot>>
  PROVE  Works
<1> DEFINE b == Here.base
           e == [bases[b] EXCEPT !.status = Posted[Here.kind]]
<1>1. b \in Bases /\ Here.kind \in Kinds
  BY InsideTyped, ThreadsAssumption DEF Here, Baseless
<1>2. bases[b] \in BaseState
  BY <1>1, TypedParts
<1>3. e.status = Posted[Here.kind] /\ e.waiting = bases[b].waiting
  BY <1>2 DEF BaseState
<1>4. bases' = [bases EXCEPT ![b] = e] /\ owner' = own
  BY DEF PostPosted, UpdatePendingWorkFlagLocked, SetStatus, Here
<1> HIDE DEF e
<1>5. ThreadWorks
  <2>1. Goto(Drainer, "post") /\ "post" \in Labels \ Special
    BY DEF PostPosted, Labels, Special, Handling
  <2>2. QED BY <2>1, GoesWorks DEF Special, Handling
<1>6. StaysDisabled
  BY NoKill DEF PostPosted
<1>7. \/ {bases[b].status, e.status} \subseteq Composing /\ Here.kind # "vanilla"
      \/ {bases[b].status, e.status} \subseteq Renewing /\ Here.kind = "vanilla"
  BY <1>1, <1>3 DEF Kinds, Parked, Posted, Composing, InFlight, Renewing
<1>8. QED BY <1>1, <1>3, <1>4, <1>5, <1>6, <1>7, EntryWritten

LEMMA DispatchWorks ==
  ASSUME TypeOK, BeforeArm, ReadsHold, DispatchStep(Drainer)
  PROVE  Works
<1> USE DEF runtimeVars, engineVars, At
<1>0. Here.pc \notin Special \cup {"idle"}
  BY DEF DispatchStep, TryDispatchPendingBase, TryDispatchCompositePoll,
         TryDispatchCompositeActivation, TryDispatchVanillaRefresh, DispatchComposite, Post,
         RequeueBase, RequeueComposite, RequeueCompositeActivation, RequeueVanillaRefresh,
         Requeue, Here, Special, Handling
<1>1. ASSUME DispatchLost(Drainer) \/ DispatchBlocked(Drainer), UNCHANGED <<armed, built, extra, slot>>
      PROVE  Works
  <2>1. UNCHANGED <<killed, bases, owner>> /\ Return(Drainer)
    BY <1>1 DEF DispatchLost, DispatchBlocked, UpdatePendingWorkFlagLocked
  <2>2. ThreadWorks
    BY <1>0, <2>1, GoesWorks
  <2>3. QED BY <1>1, <2>1, <2>2, NoKill, NothingWritten
<1>2. ASSUME TryDispatchPendingBase(Drainer) PROVE Works
  <2>1. Here.pc = "dispatch" /\ Here.kind = "prepare" /\ UNCHANGED <<armed, built, extra, slot>>
    BY <1>2 DEF TryDispatchPendingBase, Here
  <2>2. \/ DispatchLost(Drainer) \/ DispatchBlocked(Drainer)
        \/ PostPosted(Drainer, Here.base) /\ bases[Here.base].status = "Pending"
    BY <1>2 DEF TryDispatchPendingBase, Here
  <2>3. QED BY <1>1, <2>1, <2>2, PostedWorks DEF Parked
<1>3. ASSUME TryDispatchVanillaRefresh(Drainer) PROVE Works
  <2>1. Here.pc = "dispatch" /\ Here.kind = "vanilla" /\ UNCHANGED <<armed, built, extra, slot>>
    BY <1>3 DEF TryDispatchVanillaRefresh, Here
  <2>2. \/ DispatchLost(Drainer) \/ DispatchBlocked(Drainer)
        \/ PostPosted(Drainer, None) /\ bases[Here.base].status = "VanillaRefreshPending"
    BY <1>3 DEF TryDispatchVanillaRefresh, Here
  <2>3. QED BY <1>1, <2>1, <2>2, PostedWorks DEF Parked
<1>4. ASSUME DispatchComposite(Drainer) PROVE Works
  <2>1. Here.pc = "dispatch" /\ UNCHANGED <<armed, built, extra, slot>>
    BY <1>4 DEF DispatchComposite, Here
  <2>2. \/ DispatchLost(Drainer)
        \/ /\ KillRuntime("composite dispatched without ownership") /\ Return(Drainer)
           /\ UNCHANGED <<bases, owner>>
        \/ PostPosted(Drainer, owner) /\ bases[Here.base].status = Parked[Here.kind]
    BY <1>4 DEF DispatchComposite, Here, UpdatePendingWorkFlagLocked
  <2>3. CASE KillRuntime("composite dispatched without ownership") /\ Return(Drainer)
             /\ UNCHANGED <<bases, owner>>
    BY <1>0, <2>1, <2>3, GoesWorks, KillDisables, NothingWritten
  <2>4. QED BY <1>1, <2>1, <2>2, <2>3, PostedWorks
<1>5. ASSUME Post(Drainer) PROVE Works
  <2>1. UNCHANGED <<killed, armed, built, extra, bases, owner, slot>>
    BY <1>5 DEF Post
  <2>2. Return(Drainer) \/ \E l \in Labels \ Special : Goto(Drainer, l)
    BY <1>5 DEF Post, Labels, Special, Handling
  <2>3. QED BY <1>0, <2>1, <2>2, GoesWorks, NoKill, NothingWritten
<1>6. ASSUME Requeue(Drainer) PROVE Works
  <2> DEFINE b == Here.base
             e == [bases[b] EXCEPT !.status = Parked[Here.kind]]
  <2>1. Return(Drainer) /\ UNCHANGED <<armed, built, extra, slot>> /\ owner' = owner
    BY <1>6 DEF Requeue, UpdatePendingWorkFlagLocked
  <2>2. b \in Bases /\ Here.kind \in Kinds /\ bases[b] \in BaseState
    BY <1>0, <1>6, InsideTyped, ThreadsAssumption, TypedParts
       DEF Here, Baseless, Special, Handling, Requeue
  <2>3. StaysDisabled
    BY <1>6, NoKill, KillDisables DEF Requeue
  <2>4. ThreadWorks
    BY <1>0, <2>1, GoesWorks
  <2>5. CASE bases' = bases
    BY <2>1, <2>3, <2>4, <2>5, NothingWritten
  <2>6. CASE bases' = [bases EXCEPT ![b] = e] /\ bases[b].status = Posted[Here.kind]
    <3>1. e.status = Parked[Here.kind] /\ e.waiting = bases[b].waiting
      BY <2>2 DEF BaseState
    <3> HIDE DEF e
    <3>2. \/ {bases[b].status, e.status} \subseteq Composing
          \/ {bases[b].status, e.status} \subseteq Renewing
      BY <2>2, <2>6, <3>1 DEF Kinds, Parked, Posted, Composing, InFlight, Renewing
    <3>3. QED BY <2>1, <2>2, <2>3, <2>4, <2>6, <3>1, <3>2, EntryWritten
  <2>7. QED BY <1>6, <2>5, <2>6 DEF Requeue, UpdatePendingWorkFlagLocked, SetStatus, Here
<1>7. QED BY <1>2, <1>3, <1>4, <1>5, <1>6
         DEF DispatchStep, TryDispatchCompositePoll, TryDispatchCompositeActivation,
             RequeueBase, RequeueComposite, RequeueCompositeActivation, RequeueVanillaRefresh

\* The steps that fetch a task: the pump and the drain of the queue.
LEMMA FetchWorks ==
  ASSUME TypeOK, BeforeArm, ReadsHold, Pumper = Drainer,
         PumpPendingBases \/ \E k \in Kinds, b \in Bases : RunTask(k, b)
  PROVE  Works
<1> USE DEF runtimeVars, engineVars, At
<1>1. Here'.pc \in {"pump", "run"} /\ Here'.ref = None
  <2>1. ASSUME NEW d \in BOOLEAN, Enter(Drainer, [Idle EXCEPT !.pc = "pump", !.drain = d])
        PROVE  Here'.pc = "pump" /\ Here'.ref = None
    BY <2>1, HereEnters DEF Idle
  <2>2. ASSUME NEW k \in Kinds, NEW b \in Bases, RunTask(k, b)
        PROVE  Here'.pc = "run" /\ Here'.ref = None
    BY <2>2, HereEnters DEF RunTask, Idle
  <2>3. ASSUME PumpPendingBases PROVE Here'.pc = "pump" /\ Here'.ref = None
    <3>1. PICK d \in MayBeInDrain(Pumper) : Enter(Pumper, [Idle EXCEPT !.pc = "pump", !.drain = d])
      BY <2>3 DEF PumpPendingBases
    <3>2. d \in BOOLEAN
      BY DEF MayBeInDrain
    <3>3. QED BY <2>1, <3>1, <3>2
  <2>4. QED BY <2>2, <2>3
<1>2. Here.pc = "idle"
  BY DEF PumpPendingBases, RunTask, Here
<1>3. UNCHANGED <<killed, armed, built, extra, bases, owner, slot>>
  BY DEF PumpPendingBases, RunTask
<1>4. armed = "armed"
  <2>1. CASE PumpPendingBases
    BY <2>1 DEF PumpPendingBases, IsArmed
  <2>2. ASSUME NEW k \in Kinds, NEW b \in Bases, RunTask(k, b) PROVE armed = "armed"
    <3>1. queued[k][b] \in Nat
      BY TypedParts
    <3>2. queued[k][b] > 0
      BY <2>2 DEF RunTask
    <3>3. queued[k][b] # 0
      BY <3>1, <3>2
    <3>4. QED BY <3>3 DEF BeforeArm
  <2>3. QED BY <2>1, <2>2
<1>5. ThreadWorks
  BY <1>1, <1>2, <1>4 DEF ThreadWorks, Special, Handling
<1>6. QED BY <1>3, <1>5, NoKill, NothingWritten

\* PreparePendingBase.
LEMMA PreparationWorks ==
  ASSUME TypeOK, BeforeArm, TaskInv, SingleFlight, ReadsHold, Preparation(Drainer)
  PROVE  Works
<1> USE DEF runtimeVars, engineVars, At
<1> DEFINE b == Here.base
<1>1. /\ OnTask(Drainer) /\ Here.pc \notin Special \cup {"idle"}
      /\ Here.kind = "prepare" \/ Here.pc \in {"build", "structure", "submit", "submitted", "disable", "disable_kill"}
  BY DEF Preparation, BeginPreparation, BuildRenderSource, StoreStructure, SubmitComposite,
         RecordComposite, DisableBaseBeforePublication, OnTask, TaskLabels, Here, Special, Handling
<1>2. b \in Bases /\ bases[b] \in BaseState /\ Here.kind = "prepare" /\ bases[b].status = "Queued"
  <2>1. /\ b \in Bases /\ bases[b] \in BaseState /\ Here.kind \in Kinds
        /\ Here.pc \in CarrierLabels[Here.kind] /\ bases[b].status = Posted[Here.kind]
    BY <1>1, TaskFacts, ThreadsAssumption DEF Here
  <2>2. Here.kind = "prepare"
    BY <1>1, <2>1, CarrierKinds
  <2>3. QED BY <2>1, <2>2 DEF Posted
<1>3. UNCHANGED <<armed, built, extra>> /\ StaysDisabled
  <2>1. killed' = killed \/ \E why \in KillReasons : KillRuntime(why)
    BY DEF Preparation, BeginPreparation, BuildRenderSource, StoreStructure, SubmitComposite,
           RecordComposite, DisableBaseBeforePublication, KillReasons
  <2>2. StaysDisabled
    BY <2>1 DEF KillRuntime, StaysDisabled
  <2>3. QED BY <2>2 DEF Preparation, BeginPreparation, BuildRenderSource, StoreStructure,
                        SubmitComposite, RecordComposite, DisableBaseBeforePublication
<1>4. ThreadWorks
  <2>1. Return(Drainer) \/ \E l \in Labels \ Special : Goto(Drainer, l)
    BY DEF Preparation, BeginPreparation, BuildRenderSource, StoreStructure, SubmitComposite,
           RecordComposite, DisableBaseBeforePublication, AfterStaging, Labels, Special, Handling
  <2>2. QED BY <1>1, <2>1, GoesWorks
<1>5. CASE UNCHANGED <<bases, owner, slot>>
  BY <1>3, <1>4, <1>5, NothingWritten
<1>6. CASE BuildRenderSource(Drainer)
  <2>1. UNCHANGED <<bases, owner>> /\ (slot' = slot \/ \E s : slot' = [slot EXCEPT ![b] = s])
    BY <1>6 DEF BuildRenderSource, Here
  <2>2. bases' = [bases EXCEPT ![b] = bases[b]] /\ bases[b].status \notin Renewing
    BY <1>2, <2>1, TypedParts DEF Renewing
  <2>3. QED BY <1>2, <1>3, <1>4, <2>1, <2>2, EntryWritten
<1>7. CASE StoreStructure(Drainer) /\ bases' # bases
  <2> DEFINE e == [bases[b] EXCEPT !.structure = TRUE]
  <2>1. bases' = [bases EXCEPT ![b] = e] /\ UNCHANGED <<owner, slot>>
    BY <1>7 DEF StoreStructure, Here
  <2>2. e.status = bases[b].status /\ e.waiting = bases[b].waiting
    BY <1>2 DEF BaseState
  <2> HIDE DEF e
  <2>3. QED BY <1>2, <1>3, <1>4, <2>1, <2>2, EntryWritten
<1>8. CASE RecordComposite(Drainer) /\ bases' # bases
  <2> DEFINE e == [bases[b] EXCEPT !.composite = "submitted", !.status = "CompositePending"]
  <2>1. bases' = [bases EXCEPT ![b] = e] /\ UNCHANGED <<owner, slot>>
    BY <1>2, <1>8, TypedParts DEF RecordComposite, Here, UpdatePendingWorkFlagLocked
  <2>2. e.status = "CompositePending" /\ e.waiting = bases[b].waiting
    BY <1>2 DEF BaseState
  <2> HIDE DEF e
  <2>3. {bases[b].status, e.status} \subseteq Composing
    BY <1>2, <2>2 DEF Composing, InFlight
  <2>4. QED BY <1>2, <1>3, <1>4, <2>1, <2>2, <2>3, EntryWritten
<1>9. CASE DisableBaseBeforePublication(Drainer)
  <2>1. CASE bases' = bases
    <3>1. owner' \in {None, owner} /\ slot' = slot
      BY <1>9 DEF DisableBaseBeforePublication, UpdatePendingWorkFlagLocked
    <3>2. QED BY <1>3, <1>4, <2>1, <3>1 DEF Works, EntryWorks
  <2>2. CASE bases' # bases
    <3> DEFINE e == [bases[b] EXCEPT !.status = "Disabled", !.waiting = {}, !.assignment = None]
    <3>1. bases' = [bases EXCEPT ![b] = e] /\ owner' = None /\ slot' = slot
      BY <1>2, <1>9, <2>2, TypedParts
         DEF DisableBaseBeforePublication, Here, UpdatePendingWorkFlagLocked
    <3>2. bases'[b].status = "Disabled" /\ \A c \in Bases \ {b} : bases'[c] = bases[c]
      BY <1>2, <3>1, TypedParts DEF BaseState
    <3>3. \A c \in Bases : EntryWorks(c)
      BY <3>2 DEF EntryWorks
    <3>4. QED BY <1>3, <1>4, <3>1, <3>3 DEF Works
  <2>3. QED BY <2>1, <2>2
<1>10. QED
  <2>1. CASE BeginPreparation(Drainer) \/ SubmitComposite(Drainer)
    BY <1>5, <2>1 DEF BeginPreparation, SubmitComposite
  <2>2. CASE StoreStructure(Drainer) /\ bases' = bases
    BY <1>5, <2>2 DEF StoreStructure
  <2>3. CASE RecordComposite(Drainer) /\ bases' = bases
    BY <1>5, <2>3 DEF RecordComposite, UpdatePendingWorkFlagLocked
  <2>4. QED BY <1>6, <1>7, <1>8, <1>9, <2>1, <2>2, <2>3 DEF Preparation

\* PollPendingComposite and PollCompositeActivation.
LEMMA CompositionWorks ==
  ASSUME TypeOK, BeforeArm, TaskInv, SingleFlight, ReadsHold, Composition(Drainer)
  PROVE  Works
<1> USE DEF runtimeVars, engineVars, At
<1> DEFINE b == Here.base
<1>1. /\ OnTask(Drainer) /\ Here.pc \notin Special \cup {"idle"}
      /\ UNCHANGED <<armed, built, extra, owner, slot>>
  BY DEF Composition, PollPendingComposite, RecordFinalization, PollCompositeActivation, LookupFails,
         AwaitPublicationIdle, ArmBarrier, UpdatePendingWorkFlagLocked, OnTask, TaskLabels, Here,
         Special, Handling
<1>2. b \in Bases /\ bases[b] \in BaseState
  BY <1>1, TaskFacts, ThreadsAssumption DEF Here
<1>3. StaysDisabled
  <2>1. killed' = killed \/ \E why \in KillReasons : KillRuntime(why)
    BY DEF Composition, PollPendingComposite, RecordFinalization, PollCompositeActivation,
           LookupFails, AwaitPublicationIdle, ArmBarrier, KillReasons
  <2>2. QED BY <2>1 DEF KillRuntime, StaysDisabled
<1>4. ThreadWorks
  <2>1. Return(Drainer) \/ \E l \in Labels \ Special : Goto(Drainer, l)
    BY DEF Composition, PollPendingComposite, RecordFinalization, PollCompositeActivation,
           LookupFails, AwaitPublicationIdle, ArmBarrier, Labels, Special, Handling
  <2>2. QED BY <1>1, <2>1, GoesWorks
<1>5. CASE bases' = bases
  BY <1>1, <1>3, <1>4, <1>5, NothingWritten
<1>6. ASSUME NEW e, bases' = [bases EXCEPT ![b] = e], e.waiting = bases[b].waiting,
             e.status = bases[b].status \/ {bases[b].status, e.status} \subseteq Composing
      PROVE  Works
  BY <1>1, <1>2, <1>3, <1>4, <1>6, EntryWritten
<1>7. CASE bases' = [bases EXCEPT ![b].composite = "finalized"]
  <2> DEFINE e == [bases[b] EXCEPT !.composite = "finalized"]
  <2>1. bases' = [bases EXCEPT ![b] = e]
    BY <1>7
  <2>2. e.status = bases[b].status /\ e.waiting = bases[b].waiting
    BY <1>2 DEF BaseState
  <2> HIDE DEF e
  <2>3. QED BY <1>6, <2>1, <2>2
<1>8. CASE RecordFinalization(Drainer) /\ bases' # bases
  <2> DEFINE e == [bases[b] EXCEPT !.status = "CompositeFinalized"]
  <2>1. bases' = [bases EXCEPT ![b] = e] /\ bases[b].status = "CompositeQueued"
    BY <1>8 DEF RecordFinalization, UpdatePendingWorkFlagLocked, SetStatus, OwnsAs, Here
  <2>2. e.status = "CompositeFinalized" /\ e.waiting = bases[b].waiting
    BY <1>2 DEF BaseState
  <2> HIDE DEF e
  <2>3. {bases[b].status, e.status} \subseteq Composing
    BY <2>1, <2>2 DEF Composing, InFlight
  <2>4. QED BY <1>6, <2>1, <2>2, <2>3
<1>9. CASE PollCompositeActivation(Drainer) /\ bases' # bases
  <2> DEFINE e == [bases[b] EXCEPT !.barrier = TRUE, !.status = "CompositeFinalized"]
  <2>1. ArmBarrier(Drainer) /\ bases[b].status = "CompositeActivationQueued"
    BY <1>9 DEF PollCompositeActivation, LookupFails, AwaitPublicationIdle,
                UpdatePendingWorkFlagLocked, OwnsAs, Here
  <2>2. bases' = [bases EXCEPT ![b] = e]
    BY <1>2, <2>1, TypedParts DEF ArmBarrier, UpdatePendingWorkFlagLocked, Here
  <2>3. e.status = "CompositeFinalized" /\ e.waiting = bases[b].waiting
    BY <1>2 DEF BaseState
  <2> HIDE DEF e
  <2>4. {bases[b].status, e.status} \subseteq Composing
    BY <2>1, <2>3 DEF Composing, InFlight
  <2>5. QED BY <1>6, <2>2, <2>3, <2>4
<1>10. CASE PollPendingComposite(Drainer)
  BY <1>5, <1>7, <1>10 DEF PollPendingComposite, LookupFails, Here
<1>11. QED BY <1>5, <1>8, <1>9, <1>10 DEF Composition

\* The activation serves the source of a base in flight.
LEMMA ActivateWorks ==
  ASSUME TypeOK, BeforeArm, TaskInv, SingleFlight, ReadsHold, ActivateRenderSource(Drainer)
  PROVE  Works
<1> USE DEF runtimeVars, engineVars, At
<1> DEFINE b == Here.base
<1>1. OnTask(Drainer) /\ Here.pc = "validate" /\ UNCHANGED <<armed, built, extra, bases, owner>>
  BY DEF ActivateRenderSource, OnTask, TaskLabels, Here
<1>2. b \in Bases /\ bases[b].status \notin Renewing
  <2>1. b \in Bases /\ Here.kind \in {"prepare", "activate"} /\ bases[b].status = Posted[Here.kind]
    BY <1>1, TaskFacts, CarrierKinds, ThreadsAssumption DEF Here
  <2>2. QED BY <2>1 DEF Posted, Renewing
<1>3. StaysDisabled
  BY NoKill, KillDisables DEF ActivateRenderSource
<1>4. ThreadWorks
  <2>1. Return(Drainer) \/ \E l \in Labels \ Special : Goto(Drainer, l)
    BY DEF ActivateRenderSource, Labels, Special, Handling
  <2>2. QED BY <1>1, <2>1, GoesWorks DEF Special, Handling
<1>5. slot' = slot \/ \E s : slot' = [slot EXCEPT ![b] = s]
  BY DEF ActivateRenderSource, Here
<1>6. bases' = [bases EXCEPT ![b] = bases[b]]
  BY <1>1, <1>2, TypedParts
<1>7. QED BY <1>1, <1>2, <1>3, <1>4, <1>5, <1>6, EntryWritten

\* What an event reads, before it is served: the part that any fault leaves.
ReadsInTime == ReadsHold /\ NothingEarly /\ WithdrawnFirst

\* A step of a process that stays enabled keeps the invariant.
Keeps ==
  /\ ReadsInTime'
  /\ "throw" \notin Faults /\ OwnerWorks => OwnerWorks'
  /\ {"refresh", "throw"} \cap Faults = {} /\ Accounted => Accounted'

LEMMA WorksKeep ==
  ASSUME Works, ReadsInTime
  PROVE  Keeps
BY WorksReads, WorksWithdrawn, WorksOwner, WorksAccounted DEF ReadsInTime, Keeps

\* The startup scan.
LEMMA StartupKeeps ==
  ASSUME TypeOK, TaskInv, BeforeArm, ReadsInTime, Startup
  PROVE  Keeps
<1> USE DEF runtimeVars, engineVars, At
<1>1. /\ Here.pc \in {"idle", "arm"} /\ Here.ref = None /\ armed # "armed"
      /\ \A b \in Bases : bases[b].status = "absent" /\ slot[b] = "empty"
  BY ThreadsAssumption
     DEF Startup, StartPreparationPump, Arm, Here, BeforeArm, ReadsInTime, ReadsHold, Handling,
         TaskInv, Entries, EntryOf, Untouched
<1>2. Here'.pc = (IF armed' = "pumping" THEN "arm" ELSE "idle") /\ Here'.ref = None
  BY <1>1, HereGoes, HereReturns DEF Startup, StartPreparationPump, Arm
<1>3. UNCHANGED <<built, slot, owner>>
  BY DEF Startup, StartPreparationPump, Arm
<1>4. ReadsHold' /\ WithdrawnFirst'
  BY <1>1, <1>2, <1>3 DEF ReadsHold, Handling, WithdrawnFirst
<1>5. NothingEarly'
  BY <1>1, <1>2, <1>3 DEF ReadsInTime, NothingEarly
<1>6. ASSUME OwnerWorks PROVE OwnerWorks'
  <2>1. owner = None
    BY <1>1, <1>6 DEF OwnerWorks, TypeOK, Composing, InFlight
  <2>2. QED BY <1>2, <1>3, <2>1 DEF OwnerWorks
<1>7. Accounted'
  BY <1>1, <1>3 DEF ReadsInTime, NothingEarly, Accounted
<1>8. QED BY <1>4, <1>5, <1>6, <1>7 DEF Keeps, ReadsInTime

\* The engine: it builds 3D only after Arm, because until then the thread is
\* busy with the startup, and reuses no FormID while an event of its base runs.
LEMMA EngineKeeps ==
  ASSUME Sequential, TypeOK, TaskInv, BeforeArm, ReadsInTime, Engine, killed = "no"
  PROVE  Keeps
<1> USE DEF runtimeVars, engineVars, At
<1>1. UNCHANGED <<killed, armed, owner, slot>>
  BY DEF Engine, BuildReference, UnloadReference, ReuseFormID, Expire, ToggleQueue
<1>2. ASSUME NEW r \in Refs, BuildReference(Drainer, r) PROVE Keeps
  <2>1. PICK d \in MayBeInDrain(Drainer) :
          Enter(Drainer, [Idle EXCEPT !.pc = "set3d", !.base = BaseOf[r], !.ref = r, !.drain = d])
    BY <1>2 DEF BuildReference
  <2>2. Here'.pc = "set3d" /\ Here'.base = BaseOf[r] /\ Here'.ref = r /\ Here.pc = "idle"
    BY <1>2, <2>1, HereEnters DEF BuildReference, Idle, Here
  <2>3. /\ built' = [built EXCEPT ![r] = ResolveRenderSource(BaseOf[r])]
        /\ UNCHANGED <<bases, extra>>
    BY <1>2 DEF BuildReference
  <2>4. armed = "armed"
    BY <1>2, <2>2 DEF BuildReference, ReadsInTime, NothingEarly
  <2>5. built'[r] = ResolveRenderSource(BaseOf[r]) /\ \A q \in Refs \ {r} : built'[q] = built[q]
    BY <2>3 DEF TypeOK
  <2>6. ReadsHold'
    BY <1>1, <2>2, <2>5 DEF ReadsHold, Handling, ResolveRenderSource, IsRuntimeOperational
  <2>7. NothingEarly' /\ WithdrawnFirst'
    BY <1>1, <2>2, <2>3, <2>4 DEF NothingEarly, ReadsInTime, WithdrawnFirst
  <2>8. OwnerWorks => OwnerWorks'
    BY <1>1, <2>2, <2>3 DEF OwnerWorks
  <2>9. ASSUME Accounted PROVE Accounted'
    <3>1. Here.ref = None
      BY <2>2 DEF ReadsInTime, ReadsHold, Handling
    <3>2. QED BY <2>2, <2>3, <2>5, <2>9, <3>1, BasesAssumption DEF Accounted
  <2>10. QED BY <2>6, <2>7, <2>8, <2>9 DEF Keeps, ReadsInTime
<1>3. ASSUME NEW r \in Refs, UnloadReference(r) PROVE Keeps
  <2>1. Here' = Here /\ UNCHANGED <<bases, extra>>
    BY <1>3 DEF UnloadReference, Here
  <2>2. built'[r] = "unloaded" /\ \A q \in Refs \ {r} : built'[q] = built[q]
    BY <1>3 DEF UnloadReference, TypeOK
  <2>3. Here.pc \in Handling => Here.ref \in Refs
    BY InsideTyped, ThreadsAssumption DEF Here, Handling, Baseless
  <2>4. ReadsHold'
    BY <1>1, <2>1, <2>2, <2>3
       DEF ReadsInTime, ReadsHold, Handling, ResolveRenderSource, IsRuntimeOperational
  <2>5. NothingEarly' /\ WithdrawnFirst'
    BY <1>1, <2>1, <2>2 DEF NothingEarly, ReadsInTime, WithdrawnFirst
  <2>6. OwnerWorks => OwnerWorks'
    BY <1>1, <2>1 DEF OwnerWorks
  <2>7. Accounted => Accounted'
    BY <2>1, <2>2 DEF Accounted
  <2>8. QED BY <2>4, <2>5, <2>6, <2>7 DEF Keeps, ReadsInTime
<1>4. ASSUME NEW b \in Bases, ReuseFormID(b) PROVE Keeps
  <2>1. Here' = Here /\ UNCHANGED <<bases, built>>
    BY <1>4 DEF ReuseFormID, Here
  <2>2. \A c \in Bases \ {b} : extra'[c] = extra[c]
    BY <1>4 DEF ReuseFormID, TypeOK
  <2>3. Here.pc = "set3d_lock" => Here.base # b /\ Here.base \in Bases
    <3>1. ASSUME Here.pc = "set3d_lock" PROVE Here.ref # None /\ Here.base = BaseOf[Here.ref] /\ Here.base \in Bases
      BY <3>1, InsideTyped, ThreadsAssumption, BasesAssumption
         DEF Here, Handling, Baseless, ReadsInTime, ReadsHold
    <3>2. QED BY <1>4, <3>1, ThreadsAssumption DEF ReuseFormID, Here
  <2>4. ReadsHold'
    BY <1>1, <2>1, <2>2, <2>3
       DEF ReadsInTime, ReadsHold, Handling, ResolveRenderSource, IsRuntimeOperational
  <2>5. NothingEarly' /\ WithdrawnFirst'
    BY <1>1, <2>1 DEF NothingEarly, ReadsInTime, WithdrawnFirst
  <2>6. OwnerWorks => OwnerWorks'
    BY <1>1, <2>1 DEF OwnerWorks
  <2>7. ASSUME Accounted PROVE Accounted'
    <3>1. \A r \in Refs : built[r] # "unloaded" => BaseOf[r] \in Bases \ {b}
      BY <1>4, BasesAssumption DEF ReuseFormID
    <3>2. QED BY <2>1, <2>2, <2>7, <3>1 DEF Accounted
  <2>8. QED BY <2>4, <2>5, <2>6, <2>7 DEF Keeps, ReadsInTime
<1>5. ASSUME Here' = Here, UNCHANGED <<built, extra>>,
             \A b \in Bases : /\ bases'[b].status = bases[b].status
                              /\ bases'[b].waiting = bases[b].waiting
      PROVE  Keeps
  <2>1. ReadsHold'
    BY <1>1, <1>5 DEF ReadsInTime, ReadsHold, Handling, ResolveRenderSource, IsRuntimeOperational
  <2>2. NothingEarly' /\ WithdrawnFirst'
    BY <1>1, <1>5 DEF NothingEarly, ReadsInTime, WithdrawnFirst
  <2>3. OwnerWorks => OwnerWorks'
    <3>1. Here.pc \in {"refresh", "release"} => Here.base \in Bases
      BY InsideTyped, ThreadsAssumption DEF Here, Baseless
    <3>2. owner \in Bases \cup {None}
      BY DEF TypeOK
    <3>3. QED BY <1>1, <1>5, <3>1, <3>2 DEF OwnerWorks
  <2>4. Accounted => Accounted'
    BY <1>5, BasesAssumption DEF Accounted
  <2>5. QED BY <2>1, <2>2, <2>3, <2>4 DEF Keeps, ReadsInTime
<1>6. ASSUME NEW b \in Bases, Expire(b) PROVE Keeps
  <2>1. \A c \in Bases : bases'[c].status = bases[c].status /\ bases'[c].waiting = bases[c].waiting
    BY <1>6, TypedParts DEF Expire, BaseState
  <2>2. QED BY <1>5, <1>6, <2>1 DEF Expire, Here
<1>7. ASSUME ToggleQueue PROVE Keeps
  BY <1>5, <1>7 DEF ToggleQueue, Here
<1>8. QED BY <1>2, <1>3, <1>4, <1>6, <1>7 DEF Engine, Sequential

\* The reads before the lock.
LEMMA ReadKeeps ==
  ASSUME TypeOK, BeforeArm, ReadsInTime, OnReferenceSet3d(Drainer), killed = "no"
  PROVE  Keeps
<1> USE DEF runtimeVars, engineVars, At
<1> DEFINE r == [th[Drainer] EXCEPT !.pc = "set3d_lock",
                                    !.owned = FindOwnedRenderSource(th[Drainer].base),
                                    !.extra = extra[th[Drainer].base]]
<1>1. /\ Here.pc = "set3d" /\ Here.ref \in Refs /\ Here.base = BaseOf[Here.ref]
      /\ UNCHANGED <<killed, armed, bases, owner, slot, built, extra>>
  BY InsideTyped, ThreadsAssumption
     DEF OnReferenceSet3d, Here, Handling, Baseless, ReadsInTime, ReadsHold
<1>2. \/ Return(Drainer) /\ armed # "armed"
      \/ Enter(Drainer, r)
  BY DEF OnReferenceSet3d, IsArmed, IsRuntimeOperational
<1>3. CASE Return(Drainer) /\ armed # "armed"
  <2>1. Here'.pc = "idle" /\ Here'.ref = None
    BY <1>3, HereReturns
  <2>2. ReadsHold' /\ WithdrawnFirst'
    BY <1>1, <2>1 DEF ReadsHold, Handling, ReadsInTime, WithdrawnFirst
  <2>3. NothingEarly' /\ Accounted'
    BY <1>1, <1>3 DEF ReadsInTime, NothingEarly, Accounted
  <2>4. OwnerWorks => OwnerWorks'
    BY <1>1, <2>1 DEF OwnerWorks
  <2>5. QED BY <2>2, <2>3, <2>4 DEF Keeps, ReadsInTime
<1>4. CASE Enter(Drainer, r)
  <2>1. /\ r.pc = "set3d_lock" /\ r.base = Here.base /\ r.ref = Here.ref
        /\ r.owned = (slot[Here.base] # "empty") /\ r.extra = extra[Here.base]
    BY TypedParts, ThreadsAssumption
       DEF Here, ThreadState, FindOwnedRenderSource, IsRuntimeOperational
  <2> HIDE DEF r
  <2>2. Here' = r
    BY <1>4, HereEnters
  <2>3. ReadsHold'
    BY <1>1, <2>1, <2>2
       DEF ReadsHold, Handling, ReadsInTime, ResolveRenderSource, IsRuntimeOperational
  <2>4. NothingEarly' /\ WithdrawnFirst'
    BY <1>1, <2>1, <2>2 DEF NothingEarly, ReadsInTime, WithdrawnFirst
  <2>5. OwnerWorks => OwnerWorks'
    BY <1>1, <2>1, <2>2 DEF OwnerWorks
  <2>6. Accounted => Accounted'
    BY <1>1, <2>1, <2>2 DEF Accounted
  <2>7. QED BY <2>3, <2>4, <2>5, <2>6 DEF Keeps, ReadsInTime
<1>5. QED BY <1>2, <1>3, <1>4

\* What the event finds is its own entry, or a new one that nobody counts on:
\* a reference with 3D of a base that inherits its assignment is the event's.
LEMMA ObserveKeeps ==
  ASSUME TypeOK, TaskInv, BeforeArm, ReadsInTime, ObserveReference(Drainer), killed' = "no",
         killed = "no"
  PROVE  Keeps
<1> USE DEF runtimeVars, engineVars, At
<1> DEFINE b == Here.base
           r == Here.ref
           entry == FindOrInherit(b, Here.extra)
<1>1. /\ Here.pc = "set3d_lock" /\ r \in Refs /\ b = BaseOf[r] /\ b \in Bases
      /\ Here.owned = (slot[b] # "empty") /\ Here.extra = extra[b]
      /\ built[r] # "unloaded" => built[r] = ResolveRenderSource(b)
      /\ Here.extra \in Bases \cup {None}
  BY InsideTyped, ThreadsAssumption
     DEF ObserveReference, Here, Handling, Baseless, ReadsInTime, ReadsHold, ThreadState
<1>2. entry \in BaseState /\ bases[b] \in BaseState
  BY <1>1, EntryTyped, TypedParts
<1>3. \/ entry = bases[b] /\ (entry.status = "absent" => extra[b] \notin Configured \/ extra[b] = b)
      \/ entry.status = "Dormant" /\ bases[b].status = "absent" /\ extra[b] \in Configured /\ extra[b] # b
  BY <1>1 DEF FindOrInherit, Dormant, NoEntry
<1>4. bases[b].status = "Ready" => slot[b] = "active"
  BY <1>1 DEF TaskInv, Entries, EntryOf
<1> HIDE DEF entry
<1>5. /\ \/ IgnoreReference(Drainer, entry)
         \/ StartVanillaFallback(Drainer, entry) \/ JoinWaiters(Drainer, entry)
      /\ UNCHANGED <<killed, armed, slot, built, extra>>
  <2>1. ~RejectReference(Drainer, entry)
    <3>1. ASSUME NEW why \in KillReasons, KillRuntime(why) PROVE FALSE
      BY <3>1 DEF KillRuntime, KillReasons
    <3>2. QED BY <3>1 DEF RejectReference, KillReasons
  <2>2. \/ IgnoreReference(Drainer, entry)
        \/ StartVanillaFallback(Drainer, entry) \/ JoinWaiters(Drainer, entry)
    BY <2>1 DEF ObserveReference, entry, Here
  <2>3. QED BY <2>2 DEF ObserveReference
<1>6. owner' = owner
  BY <1>5 DEF IgnoreReference, KeepEntry, StartVanillaFallback, JoinWaiters
<1>7. ASSUME NEW e, bases' = [bases EXCEPT ![b] = e]
      PROVE  bases'[b] = e /\ \A c \in Bases \ {b} : bases'[c] = bases[c]
  BY <1>1, <1>7, TypedParts
<1>8. NothingEarly'
  BY <1>1, <1>5, ThreadsAssumption DEF NothingEarly, BeforeArm, Here
<1>9. CASE IgnoreReference(Drainer, entry)
  <2>1. Here'.pc = "idle" /\ Here'.ref = None
    BY <1>9, HereReturns DEF IgnoreReference, KeepEntry
  <2>2. entry.status \in {"absent", "Disabled", "Ready"} /\ bases' = [bases EXCEPT ![b] = entry]
    BY <1>9 DEF IgnoreReference, KeepEntry, Here
  <2>3. entry = bases[b] /\ bases' = bases
    BY <1>1, <1>3, <2>2, TypedParts
  <2>4. ReadsHold' /\ WithdrawnFirst'
    BY <1>1, <1>5, <2>1, <2>3 DEF ReadsHold, Handling, ReadsInTime, WithdrawnFirst
  <2>5. OwnerWorks => OwnerWorks'
    BY <1>1, <1>6, <2>1, <2>3 DEF OwnerWorks
  <2>6. ASSUME Accounted PROVE Accounted'
    <3>1. built[r] # "unloaded" /\ bases[b].status = "Ready" => built[r] = "custom"
      BY <1>1, <1>4 DEF ResolveRenderSource, IsRuntimeOperational
    <3>2. bases[b].status \notin Composing \cup {"Dormant"}
      BY <2>2, <2>3 DEF Composing, InFlight
    <3>3. QED BY <1>1, <1>3, <1>5, <2>1, <2>2, <2>3, <2>6, <3>1, <3>2 DEF Accounted
  <2>7. QED BY <1>8, <2>4, <2>5, <2>6 DEF Keeps, ReadsInTime
<1>10. CASE StartVanillaFallback(Drainer, entry)
  <2> DEFINE e == [entry EXCEPT !.status = "VanillaRefreshPending", !.waiting = {r},
                                !.assignment = None]
  <2>1. Here'.pc = "deactivate" /\ Here'.base = b /\ Here'.ref = r
    BY <1>10, HereGoes DEF StartVanillaFallback
  <2>2. bases' = [bases EXCEPT ![b] = e] /\ entry.status = "Ready"
    BY <1>10 DEF StartVanillaFallback, Here
  <2>3. e.status = "VanillaRefreshPending"
    BY <1>2 DEF BaseState
  <2> HIDE DEF e
  <2>4. bases[b].status = "Ready" /\ bases'[b].status = "VanillaRefreshPending"
    BY <1>3, <1>7, <2>2, <2>3
  <2>5. \A c \in Bases \ {b} : bases'[c] = bases[c]
    BY <1>7, <2>2
  <2>6. ReadsHold'
    BY <1>1, <2>1 DEF ReadsHold, Handling
  <2>7. WithdrawnFirst'
    BY <1>1, <1>5, <2>1, <2>5 DEF ReadsInTime, WithdrawnFirst
  <2>8. ASSUME OwnerWorks PROVE OwnerWorks'
    <3>1. owner # b
      BY <1>1, <2>4, <2>8, BasesAssumption DEF OwnerWorks, Composing, InFlight
    <3>2. QED BY <1>1, <1>6, <2>1, <2>5, <2>8, <3>1 DEF OwnerWorks, TypeOK
  <2>9. ASSUME Accounted PROVE Accounted'
    BY <1>1, <1>5, <2>1, <2>4, <2>5, <2>9, BasesAssumption DEF Accounted, Composing, InFlight
  <2>10. QED BY <1>8, <2>6, <2>7, <2>8, <2>9 DEF Keeps, ReadsInTime
<1>11. CASE JoinWaiters(Drainer, entry)
  <2> DEFINE x == IF entry.status = "Dormant" THEN "Pending" ELSE entry.status
             e == [entry EXCEPT !.waiting = @ \cup {r}, !.status = x]
  <2>1. /\ bases' = [bases EXCEPT ![b] = e]
        /\ entry.status \notin {"absent", "Disabled", "Ready"}
    BY <1>11 DEF JoinWaiters, Here
  <2>2. e.status = x /\ e.waiting = entry.waiting \cup {r}
    BY <1>2 DEF BaseState
  <2>3. Here'.pc \in {"dispatch", "idle"} /\ Here'.ref = None
    BY <1>11, HereReturns, HereDispatches DEF JoinWaiters
  <2> HIDE DEF e
  <2>4. bases'[b] = e /\ \A c \in Bases \ {b} : bases'[c] = bases[c]
    BY <1>7, <2>1
  <2>5. ReadsHold'
    BY <2>3 DEF ReadsHold, Handling
  <2>6. WithdrawnFirst'
    <3>1. bases'[b].status \in Renewing => bases[b].status \in Renewing
      BY <1>3, <2>2, <2>4 DEF Renewing
    <3>2. QED BY <1>1, <1>5, <2>3, <2>4, <3>1 DEF ReadsInTime, WithdrawnFirst
  <2>7. ASSUME OwnerWorks PROVE OwnerWorks'
    <3>1. owner = b => bases'[b].status \in Composing
      BY <1>1, <1>3, <2>2, <2>4, <2>7, BasesAssumption DEF OwnerWorks, Composing, InFlight
    <3>2. QED BY <1>1, <1>6, <2>3, <2>4, <2>7, <3>1 DEF OwnerWorks, TypeOK
  <2>8. ASSUME Accounted PROVE Accounted'
    <3> SUFFICES ASSUME NEW q \in Refs, built[q] # "unloaded"
                 PROVE  LET c == BaseOf[q]
                        IN  /\ bases'[c].status = "Ready" => built[q] = "custom"
                            /\ bases'[c].status \in Composing => q \in bases'[c].waiting
                            /\ bases'[c].status # "Dormant"
                            /\ bases'[c].status = "absent" => extra[c] \notin Configured \/ extra[c] = c
      BY <1>5 DEF Accounted
    <3>1. BaseOf[q] \in Bases
      BY BasesAssumption
    <3>2. CASE q = r
      BY <1>1, <1>3, <2>1, <2>2, <2>4, <3>2 DEF Composing, InFlight
    <3>3. CASE q # r /\ BaseOf[q] = b
      <4>1. /\ bases[b].status \in Composing => q \in bases[b].waiting
            /\ bases[b].status # "Dormant"
            /\ bases[b].status = "absent" => extra[b] \notin Configured \/ extra[b] = b
        BY <2>8, <3>3 DEF Accounted
      <4>2. entry = bases[b] /\ x = entry.status
        BY <1>3, <4>1
      <4>3. QED BY <2>1, <2>2, <2>4, <3>3, <4>1, <4>2
    <3>4. CASE BaseOf[q] # b
      BY <1>1, <2>4, <2>8, <3>1, <3>4 DEF Accounted
    <3>5. QED BY <3>2, <3>3, <3>4
  <2>9. QED BY <1>8, <2>5, <2>6, <2>7, <2>8 DEF Keeps, ReadsInTime
<1>12. QED BY <1>5, <1>9, <1>10, <1>11

\* DeactivateRenderSource withdraws the reused binding.
LEMMA DeactivateKeeps ==
  ASSUME TypeOK, TaskInv, BeforeArm, ReadsInTime, DeactivateRenderSource(Drainer)
  PROVE  Keeps
<1> USE DEF runtimeVars, engineVars, At
<1> DEFINE b == Here.base
<1>1. /\ Here.pc = "deactivate" /\ Here.ref \in Refs /\ b = BaseOf[Here.ref] /\ b \in Bases
      /\ slot[b] = "active" /\ bases[b].status \in Fallback
  BY InsideTyped, ThreadsAssumption
     DEF DeactivateRenderSource, Here, Handling, Baseless, ReadsInTime, ReadsHold, TaskInv, Events
<1>2. /\ slot' = [slot EXCEPT ![b] = "inactive"] /\ Dispatch(Drainer, b, "vanilla")
      /\ UNCHANGED <<killed, armed, bases, owner, built, extra>>
  BY <1>1 DEF DeactivateRenderSource, Here
<1>3. Here'.pc = "dispatch" /\ Here'.ref = None
  BY <1>2, HereDispatches
<1>4. slot'[b] = "inactive" /\ \A c \in Bases \ {b} : slot'[c] = slot[c]
  BY <1>1, <1>2, TypedParts
<1>5. ReadsHold' /\ WithdrawnFirst'
  BY <1>1, <1>2, <1>3, <1>4 DEF ReadsHold, Handling, ReadsInTime, WithdrawnFirst
<1>6. NothingEarly'
  BY <1>1, <1>2 DEF NothingEarly, ReadsInTime
<1>7. OwnerWorks => OwnerWorks'
  BY <1>1, <1>2, <1>3 DEF OwnerWorks
<1>8. ASSUME Accounted PROVE Accounted'
  BY <1>1, <1>2, <1>3, <1>8 DEF Accounted, Fallback, Composing, InFlight
<1>9. QED BY <1>5, <1>6, <1>7, <1>8 DEF Keeps, ReadsInTime

\* A step that changes the thread and what references show, outside events.
LEMMA CatchUpReads ==
  ASSUME TypeOK, BeforeArm, ReadsInTime, Here.pc \in {"refresh", "release", "vanilla"},
         UNCHANGED <<armed, bases, slot>>, Here'.ref = Here.ref \/ Here'.ref = None,
         Here'.pc \notin Handling, Here'.pc = "vanilla" => Here.pc = "vanilla" /\ Here'.base = Here.base
  PROVE  ReadsInTime'
<1>1. Here.ref = None /\ armed = "armed"
  BY ThreadsAssumption DEF ReadsInTime, ReadsHold, Handling, BeforeArm, Here
<1>2. ReadsHold' /\ NothingEarly'
  BY <1>1 DEF ReadsHold, Handling, NothingEarly
<1>3. WithdrawnFirst'
  BY DEF ReadsInTime, WithdrawnFirst
<1>4. QED BY <1>2, <1>3 DEF ReadsInTime

\* CompletePublication takes every waiter of the base.
LEMMA CompleteKeeps ==
  ASSUME TypeOK, TaskInv, BeforeArm, SingleFlight, ReadsInTime, CompletePublication(Drainer),
         killed' = "no", killed = "no"
  PROVE  Keeps
<1> USE DEF runtimeVars, engineVars, At
<1> DEFINE b == Here.base
           e == [bases[b] EXCEPT !.status = "Ready", !.waiting = {}, !.assignment = None]
           h == [Here EXCEPT !.pc = "refresh", !.todo = bases[b].waiting]
<1>1. OnTask(Drainer) /\ Here.pc = "complete"
  BY DEF CompletePublication, OnTask, TaskLabels, Here
<1>2. /\ b \in Bases /\ bases[b] \in BaseState /\ Here \in ThreadState
      /\ bases[b].status \in Composing /\ Here.ref = None /\ armed = "armed"
  <2>1. Here.kind \in {"prepare", "activate"} /\ bases[b].status = Posted[Here.kind]
        /\ b \in Bases /\ bases[b] \in BaseState /\ Here \in ThreadState
    BY <1>1, TaskFacts, CarrierKinds, ThreadsAssumption DEF Here
  <2>2. Here.ref = None /\ armed = "armed"
    BY <1>1, ThreadsAssumption DEF ReadsInTime, ReadsHold, Handling, BeforeArm, Here
  <2>3. QED BY <2>1, <2>2 DEF Posted, Composing, InFlight
<1>3. ~KillRuntime("completion")
  BY DEF KillRuntime
<1>4. /\ bases' = [bases EXCEPT ![b] = e] /\ owner' = owner /\ owner = b /\ Enter(Drainer, h)
      /\ UNCHANGED <<killed, armed, slot, built, extra>>
  <2>1. CompletePublication(Drainer) /\ ~KillRuntime("completion")
    BY <1>3
  <2>2. /\ UpdatePendingWorkFlagLocked(
             [bases EXCEPT ![b].status = "Ready", ![b].waiting = {}, ![b].assignment = None], owner)
        /\ Enter(Drainer, h) /\ owner = b /\ UNCHANGED <<killed, armed, slot, built, extra>>
    BY <2>1 DEF CompletePublication, OwnsAs, Here
  <2>3. [bases EXCEPT ![b].status = "Ready", ![b].waiting = {}, ![b].assignment = None]
          = [bases EXCEPT ![b] = e]
    BY <1>2, TypedParts
  <2>4. QED BY <2>2, <2>3 DEF UpdatePendingWorkFlagLocked
<1>5. e.status = "Ready" /\ h.pc = "refresh" /\ h.todo = bases[b].waiting /\ h.ref = None /\ h.base = b
  BY <1>2 DEF BaseState, ThreadState
<1> HIDE DEF e, h
<1>6. Here' = h
  BY <1>4, HereEnters
<1>7. bases'[b].status = "Ready" /\ \A c \in Bases \ {b} : bases'[c] = bases[c]
  BY <1>2, <1>4, <1>5, TypedParts
<1>8. ReadsHold' /\ NothingEarly'
  BY <1>2, <1>4, <1>5, <1>6 DEF ReadsHold, Handling, NothingEarly
<1>9. WithdrawnFirst'
  BY <1>1, <1>4, <1>5, <1>6, <1>7 DEF ReadsInTime, WithdrawnFirst, Renewing
<1>10. OwnerWorks'
  BY <1>4, <1>5, <1>6, <1>7 DEF OwnerWorks
<1>11. ASSUME Accounted PROVE Accounted'
  BY <1>1, <1>2, <1>4, <1>5, <1>6, <1>7, <1>11, BasesAssumption
     DEF Accounted, Composing, InFlight
<1>12. QED BY <1>8, <1>9, <1>10, <1>11 DEF Keeps, ReadsInTime

\* What a rebuilt reference of a ready base shows.
LEMMA RebuiltIsCustom ==
  ASSUME TypeOK, TaskInv, killed = "no", NEW r \in Refs, Rebuild(r)
  PROVE  /\ bases[BaseOf[r]].status = "Ready" => built'[r] = "custom"
         /\ \A q \in Refs \ {r} : built'[q] = built[q]
<1>1. BaseOf[r] \in Bases
  BY BasesAssumption
<1>2. built'[r] = ResolveRenderSource(BaseOf[r]) /\ \A q \in Refs \ {r} : built'[q] = built[q]
  BY DEF Rebuild, TypeOK
<1>3. bases[BaseOf[r]].status = "Ready" => slot[BaseOf[r]] = "active"
  BY <1>1 DEF TaskInv, Entries, EntryOf
<1>4. QED BY <1>2, <1>3 DEF ResolveRenderSource, IsRuntimeOperational

\* The catch-up rebuilds a waiter, or finds it unloaded.
LEMMA RefreshKeeps ==
  ASSUME TypeOK, TaskInv, BeforeArm, ReadsInTime, NEW r \in Refs,
         RefreshWaitingReference(Drainer, r), killed' = "no", killed = "no"
  PROVE  Keeps
<1> USE DEF runtimeVars, engineVars, At
<1>1. /\ Here.pc = "refresh" /\ Here \in ThreadState
      /\ UNCHANGED <<armed, bases, owner, slot, extra>>
  BY TypedParts, ThreadsAssumption DEF RefreshWaitingReference, Here
<1>2. Here.ref = None
  BY <1>1 DEF ReadsInTime, ReadsHold, Handling
<1>3. \/ built[r] # "unloaded" /\ Rebuild(r) /\ Refreshed(Drainer, r)
      \/ (built[r] = "unloaded" \/ Fault("refresh")) /\ Refreshed(Drainer, r) /\ built' = built
      \/ Fault("throw") /\ Return(Drainer) /\ built' = built
  BY DEF RefreshWaitingReference, KillRuntime
<1>4. ASSUME Refreshed(Drainer, r)
      PROVE  /\ Here'.pc = "refresh" /\ Here'.base = Here.base /\ Here'.ref = Here.ref
             /\ Here'.todo = Here.todo \ {r}
  <2> DEFINE h == [Here EXCEPT !.todo = @ \ {r}]
  <2>1. Enter(Drainer, h)
    BY <1>4 DEF Refreshed, Here
  <2>2. h.pc = "refresh" /\ h.base = Here.base /\ h.ref = Here.ref /\ h.todo = Here.todo \ {r}
    BY <1>1 DEF ThreadState
  <2> HIDE DEF h
  <2>3. QED BY <2>1, <2>2, HereEnters
<1>5. ASSUME Fault("throw"), Return(Drainer) PROVE Keeps
  <2>1. ReadsInTime'
    BY <1>1, <1>5, HereReturns, CatchUpReads DEF Handling
  <2>2. QED BY <1>5, <2>1 DEF Keeps, Fault
<1>6. ASSUME Refreshed(Drainer, r) PROVE Keeps
  <2>1. ReadsInTime'
    BY <1>1, <1>4, <1>6, CatchUpReads DEF Handling
  <2>2. OwnerWorks => OwnerWorks'
    BY <1>1, <1>4, <1>6 DEF OwnerWorks
  <2>3. ASSUME Accounted, {"refresh", "throw"} \cap Faults = {} PROVE Accounted'
    <3>1. CASE built[r] # "unloaded" /\ Rebuild(r)
      BY <1>1, <1>2, <1>4, <1>6, <2>3, <3>1, RebuiltIsCustom, BasesAssumption DEF Accounted
    <3>2. CASE built[r] = "unloaded" /\ built' = built
      BY <1>1, <1>2, <1>4, <1>6, <2>3, <3>2, BasesAssumption DEF Accounted
    <3>3. QED BY <1>3, <2>3, <3>1, <3>2 DEF Fault
  <2>4. QED BY <2>1, <2>2, <2>3 DEF Keeps
<1>7. QED BY <1>3, <1>5, <1>6

\* The end of the catch-up, and the release of the ownership.
LEMMA ReleaseKeeps ==
  ASSUME TypeOK, TaskInv, BeforeArm, ReadsInTime,
         EndRefresh(Drainer) \/ ReleasePreparationOwner(Drainer), killed' = "no", killed = "no"
  PROVE  Keeps
<1> USE DEF runtimeVars, engineVars, At
<1>1. /\ Here.pc \in {"refresh", "release"}
      /\ UNCHANGED <<armed, bases, slot, built, extra>>
  BY DEF EndRefresh, ReleasePreparationOwner, UpdatePendingWorkFlagLocked, Here
<1>2. Here.ref = None
  BY <1>1 DEF ReadsInTime, ReadsHold, Handling
<1>3. \/ Here.todo = {} /\ Goto(Drainer, "release") /\ Here.pc = "refresh" /\ owner' = owner
      \/ Here.pc = "release" /\ Return(Drainer) /\ owner' = None
  BY DEF EndRefresh, ReleasePreparationOwner, UpdatePendingWorkFlagLocked, KillRuntime,
         IsRuntimeOperational, Here
<1>4. /\ Here'.pc \in {"release", "idle"} /\ Here'.ref = None
      /\ Here.pc = "refresh" => Here.todo = {}
      /\ \/ owner' = None /\ Here'.pc = "idle"
         \/ owner' = owner /\ Here'.pc = "release" /\ Here'.base = Here.base
  BY <1>2, <1>3, HereGoes, HereReturns
<1>5. ReadsInTime'
  BY <1>1, <1>4, CatchUpReads DEF Handling
<1>6. OwnerWorks => OwnerWorks'
  BY <1>1, <1>4 DEF OwnerWorks
<1>7. Accounted => Accounted'
  BY <1>1, <1>2, <1>4, BasesAssumption DEF Accounted
<1>8. QED BY <1>5, <1>6, <1>7 DEF Keeps

\* RefreshVanillaAfterIdentityMismatch.
LEMMA VanillaKeeps ==
  ASSUME TypeOK, TaskInv, BeforeArm, SingleFlight, ReadsInTime, VanillaFallback(Drainer),
         killed' = "no", killed = "no"
  PROVE  Keeps
<1> USE DEF runtimeVars, engineVars, At
<1>1. CASE BeginVanillaRefresh(Drainer)
  <2> DEFINE b == Here.base
             e == [bases[b] EXCEPT !.status = "Disabled", !.waiting = {}]
             h == [Here EXCEPT !.pc = "vanilla", !.todo = bases[b].waiting]
  <2>1. OnTask(Drainer) /\ Here.pc = "run" /\ Here.kind = "vanilla"
    BY <1>1 DEF BeginVanillaRefresh, OnTask, TaskLabels, Here
  <2>2. /\ b \in Bases /\ bases[b] \in BaseState /\ Here \in ThreadState
        /\ bases[b].status = "VanillaRefreshQueued" /\ Here.ref = None /\ armed = "armed"
    <3>1. /\ b \in Bases /\ bases[b] \in BaseState /\ Here \in ThreadState
          /\ bases[b].status = "VanillaRefreshQueued"
      BY <2>1, TaskFacts, ThreadsAssumption DEF Here, Posted
    <3>2. Here.ref = None /\ armed = "armed"
      BY <2>1, ThreadsAssumption DEF ReadsInTime, ReadsHold, Handling, BeforeArm, Here
    <3>3. QED BY <3>1, <3>2
  <2>3. /\ bases' = [bases EXCEPT ![b] = e] /\ owner' = owner /\ Enter(Drainer, h)
        /\ UNCHANGED <<armed, slot, built, extra>>
    BY <1>1, <2>2 DEF BeginVanillaRefresh, UpdatePendingWorkFlagLocked, Here
  <2>4. e.status = "Disabled" /\ h.pc = "vanilla" /\ h.base = b /\ h.ref = None
    BY <2>2 DEF BaseState, ThreadState
  <2> HIDE DEF e, h
  <2>5. Here' = h
    BY <2>3, HereEnters
  <2>6. bases'[b].status = "Disabled" /\ \A c \in Bases \ {b} : bases'[c] = bases[c]
    BY <2>2, <2>3, <2>4, TypedParts
  <2>7. ReadsHold' /\ NothingEarly'
    BY <2>2, <2>3, <2>4, <2>5 DEF ReadsHold, Handling, NothingEarly
  <2>8. WithdrawnFirst'
    <3>1. slot[b] # "active"
      BY <2>1, <2>2 DEF ReadsInTime, WithdrawnFirst, Renewing
    <3>2. QED BY <2>1, <2>3, <2>4, <2>5, <2>6, <3>1 DEF ReadsInTime, WithdrawnFirst, Renewing
  <2>9. ASSUME OwnerWorks PROVE OwnerWorks'
    <3>1. owner # b
      BY <2>1, <2>2, <2>9, BasesAssumption DEF OwnerWorks, Composing, InFlight
    <3>2. QED BY <2>1, <2>3, <2>4, <2>5, <2>6, <2>9, <3>1 DEF OwnerWorks, TypeOK
  <2>10. ASSUME Accounted PROVE Accounted'
    BY <2>1, <2>2, <2>3, <2>4, <2>5, <2>6, <2>10, BasesAssumption
       DEF Accounted, Composing, InFlight
  <2>11. QED BY <2>7, <2>8, <2>9, <2>10 DEF Keeps, ReadsInTime
<1>2. ASSUME NEW r \in Refs, RefreshVanillaReference(Drainer, r) PROVE Keeps
  <2>1. /\ Here.pc = "vanilla" /\ Here \in ThreadState
        /\ UNCHANGED <<armed, bases, owner, slot, extra>>
    BY <1>2, TypedParts, ThreadsAssumption DEF RefreshVanillaReference, Here
  <2>2. Here.ref = None
    BY <2>1 DEF ReadsInTime, ReadsHold, Handling
  <2>3. /\ Rebuild(r) \/ built' = built
        /\ Refreshed(Drainer, r) \/ Return(Drainer)
    BY <1>2 DEF RefreshVanillaReference
  <2>4. /\ Here'.pc \in {"idle", "vanilla"} /\ Here'.ref = None
        /\ Here'.pc = "vanilla" => Here'.base = Here.base
    <3> DEFINE h == [Here EXCEPT !.todo = @ \ {r}]
    <3>1. h.pc = "vanilla" /\ h.base = Here.base /\ h.ref = None
      BY <2>1, <2>2 DEF ThreadState
    <3>2. Refreshed(Drainer, r) => Enter(Drainer, h)
      BY DEF Refreshed, Here
    <3> HIDE DEF h
    <3>3. QED BY <2>3, <3>1, <3>2, HereEnters, HereReturns
  <2>5. ReadsInTime'
    BY <2>1, <2>4, CatchUpReads DEF Handling
  <2>6. OwnerWorks => OwnerWorks'
    BY <2>1, <2>4 DEF OwnerWorks
  <2>7. ASSUME Accounted PROVE Accounted'
    <3>1. CASE Rebuild(r)
      <4>1. built[r] # "unloaded" \/ UNCHANGED built
        BY <1>2 DEF RefreshVanillaReference
      <4>2. QED BY <2>1, <2>2, <2>4, <2>7, <3>1, <4>1, RebuiltIsCustom, BasesAssumption DEF Accounted
    <3>2. CASE built' = built
      BY <2>1, <2>2, <2>4, <2>7, <3>2, BasesAssumption DEF Accounted
    <3>3. QED BY <2>3, <3>1, <3>2
  <2>8. QED BY <2>5, <2>6, <2>7 DEF Keeps
<1>3. CASE EndVanillaRefresh(Drainer)
  <2>1. Here.pc = "vanilla" /\ UNCHANGED <<armed, bases, owner, slot, built, extra>>
    BY <1>3 DEF EndVanillaRefresh, Here
  <2>2. Here'.pc = "idle" /\ Here'.ref = None
    BY <1>3, HereReturns DEF EndVanillaRefresh
  <2>3. Here.ref = None
    BY <2>1 DEF ReadsInTime, ReadsHold, Handling
  <2>4. ReadsInTime'
    BY <2>1, <2>2, CatchUpReads DEF Handling
  <2>5. OwnerWorks => OwnerWorks'
    BY <2>1, <2>2 DEF OwnerWorks
  <2>6. Accounted => Accounted'
    BY <2>1, <2>2, <2>3, BasesAssumption DEF Accounted
  <2>7. QED BY <2>4, <2>5, <2>6 DEF Keeps
<1>4. QED BY <1>1, <1>2, <1>3 DEF VanillaFallback

\* Every step of a process that stays enabled.
LEMMA StepKeeps ==
  ASSUME Sequential, TypeOK, TaskInv, BeforeArm, SingleFlight, ReadsInTime, [Next]_vars,
         killed' = "no", killed = "no"
  PROVE  Keeps
<1> USE DEF runtimeVars, engineVars
<1>1. ASSUME ThreadStep(Drainer) PROVE Keeps
  <2>1. ReadsHold
    BY DEF ReadsInTime
  <2>2. CASE Event(Drainer)
    BY <2>2, ReadKeeps, ObserveKeeps, DeactivateKeeps DEF Event
  <2>3. CASE Publication(Drainer)
    BY <2>1, <2>3, ActivateWorks, WorksKeep, CompleteKeeps, RefreshKeeps, ReleaseKeeps
       DEF Publication
  <2>4. QED BY <1>1, <2>1, <2>2, <2>3, SelectWorks, DispatchWorks, PreparationWorks,
               CompositionWorks, WorksKeep, VanillaKeeps DEF ThreadStep
<1>2. ASSUME Drain \/ PumpPendingBases PROVE Keeps
  <2>1. Pumper = Drainer
    BY ThreadsAssumption DEF Sequential
  <2>2. PumpPendingBases \/ \E k \in Kinds, b \in Bases : RunTask(k, b)
    BY <1>2 DEF Drain, DropTask, Sequential
  <2>3. QED BY <2>1, <2>2, FetchWorks, WorksKeep DEF ReadsInTime
<1>3. ASSUME UNCHANGED vars PROVE Keeps
  <2>1. Here' = Here /\ UNCHANGED <<killed, armed, bases, owner, slot, built, extra>>
    BY <1>3 DEF vars, Here
  <2>2. ReadsInTime' = ReadsInTime /\ OwnerWorks' = OwnerWorks /\ Accounted' = Accounted
    BY <2>1 DEF ReadsInTime, ReadsHold, NothingEarly, WithdrawnFirst, OwnerWorks, Accounted,
                ResolveRenderSource, IsRuntimeOperational
  <2>3. QED BY <2>2 DEF Keeps
<1>4. QED BY <1>1, <1>2, <1>3, StartupKeeps, EngineKeeps DEF Next, Sequential

\* Without a failing publication nothing is disabled for one.
LEMMA NoFailedPublication ==
  ASSUME Sequential, TypeOK, "publish" \notin Faults, Here.pc # "disable_kill", [Next]_vars
  PROVE  Here'.pc # "disable_kill"
<1> USE DEF runtimeVars, engineVars
<1>1. CASE ThreadStep(Drainer)
  BY <1>1, ThreadMoves, ThreadsAssumption DEF Here, Fault
<1>2. CASE Startup
  BY <1>2, HereGoes, HereReturns DEF Startup, StartPreparationPump, Arm
<1>3. CASE Engine
  <2>1. ASSUME NEW r \in Refs, BuildReference(Drainer, r) PROVE Here'.pc # "disable_kill"
    BY <2>1, HereEnters DEF BuildReference, Idle
  <2>2. QED BY <1>3, <2>1
            DEF Engine, UnloadReference, ReuseFormID, Expire, ToggleQueue, Sequential, Here
<1>4. CASE Drain
  <2>1. PICK t \in Threads, k \in Kinds, b \in Bases, r \in ThreadState : Fetches(t, k, b, r)
    BY <1>4, DrainFetches
  <2>2. QED BY <2>1, HereEnters DEF Fetches, Sequential
<1>5. CASE PumpPendingBases
  <2>1. ASSUME NEW d, Enter(Pumper, [Idle EXCEPT !.pc = "pump", !.drain = d])
        PROVE  Here'.pc # "disable_kill"
    BY <2>1, HereEnters, ThreadsAssumption DEF Idle, Sequential
  <2>2. QED BY <1>5, <2>1 DEF PumpPendingBases
<1>6. CASE UNCHANGED vars
  BY <1>6 DEF vars, Here
<1>7. QED BY <1>1, <1>2, <1>3, <1>4, <1>5, <1>6 DEF Next, Sequential

-----------------------------------------------------------------------------
(* The theorems for one engine thread.                                     *)

\* The inductive invariants: what holds while the process is enabled.
InTime    == IsRuntimeOperational => ReadsInTime
Patient   == IsRuntimeOperational => OwnerWorks
CaughtAll == IsRuntimeOperational => Accounted

LEMMA InitAlone == Init => ReadsInTime /\ OwnerWorks /\ Accounted /\ Here.pc # "disable_kill"
<1> SUFFICES ASSUME Init PROVE ReadsInTime /\ OwnerWorks /\ Accounted /\ Here.pc # "disable_kill"
  OBVIOUS
<1>1. Here.pc = "idle" /\ Here.ref = None
  BY ThreadsAssumption DEF Init, Here, Idle
<1>2. /\ armed = "unarmed" /\ owner = None /\ \A r \in Refs : built[r] = "unloaded"
      /\ \A b \in Bases : slot[b] = "empty"
  BY DEF Init
<1>3. QED BY <1>1, <1>2 DEF ReadsInTime, ReadsHold, Handling, NothingEarly, WithdrawnFirst,
                            OwnerWorks, Accounted

\* On one engine thread, whatever fails, the rebuild of the references of a
\* reused FormID reads a binding that is no longer served:
\* RefreshVanillaAfterIdentityMismatch runs after DeactivateRenderSource.
THEOREM OneThreadReadsVanilla == ASSUME Sequential PROVE Spec => []FallbackReadsVanilla
<1>1. Init => InTime
  BY InitAlone DEF InTime
<1>2. TypeOK /\ SingleFlight /\ (TaskInv /\ BeforeArm) /\ InTime /\ [Next]_vars => InTime'
  BY StepKeeps, KilledForGood DEF InTime, Keeps, IsRuntimeOperational
<1>3. InTime => FallbackReadsVanilla
  BY DEF InTime, ReadsInTime, WithdrawnFirst, FallbackReadsVanilla, Sequential, Here
<1>4. QED BY <1>1, <1>2, <1>3, TypeCorrect, OneBaseInFlight, TaskInvHolds, PTL DEF Spec

\* On one engine thread whose catch-up neither fails nor throws, every loaded
\* reference of a ready base shows the preset once its catch-up is over.
THEOREM OneThreadCatchesUp ==
  ASSUME Sequential, {"refresh", "throw"} \cap Faults = {}
  PROVE  Spec => []CaughtUp
<1>1. Init => InTime /\ CaughtAll
  BY InitAlone DEF InTime, CaughtAll
<1>2. /\ TypeOK /\ SingleFlight /\ (TaskInv /\ BeforeArm) /\ (InTime /\ CaughtAll) /\ [Next]_vars
      => (InTime /\ CaughtAll)'
  BY StepKeeps, KilledForGood DEF InTime, CaughtAll, Keeps, IsRuntimeOperational
<1>3. CaughtAll => CaughtUp
  BY ThreadsAssumption DEF CaughtAll, Accounted, CaughtUp, Quiet, Here
<1>4. QED BY <1>1, <1>2, <1>3, TypeCorrect, OneBaseInFlight, TaskInvHolds, PTL DEF Spec

\* The failures of the engine for which the coordinator gives up the process.
FatalFaults == {"lookup", "publish", "structure", "submit", "finalize", "canonical", "throw"}

\* An enabled process is disabled for a documented reason, or by a check that
\* SoundChecksHold shows never to trip.
LEMMA StepIsDocumented ==
  ASSUME Sequential, FatalFaults \cap Faults = {}, TypeOK, TaskInv, SingleFlight, ReadsInTime,
         OwnerWorks, Here.pc # "disable_kill", killed = "no", [Next]_vars
  PROVE  killed' \in DocumentedKills \cup SoundChecks
<1> USE DEF At, runtimeVars, engineVars
<1> DEFINE Known == {"identity changed in flight", "composite timeout", "barrier timeout"}
                    \cup SoundChecks
           Documented == killed' = killed \/ \E why \in Known : KillRuntime(why)
<1>1. /\ ~Fault("lookup") /\ ~Fault("publish") /\ ~Fault("structure") /\ ~Fault("submit")
      /\ ~Fault("finalize") /\ ~Fault("canonical") /\ ~Fault("throw")
  BY DEF FatalFaults, Fault
<1>2. Known =
        {"identity changed in flight", "composite timeout", "barrier timeout",
         "unowned source", "composite dispatched without ownership", "requeued without ownership",
         "prepared without ownership", "staged structure", "published twice", "submission state",
         "poll state", "finalization state", "publication poll state", "completion",
         "vanilla state", "deactivate", "structure", "disablement"}
  BY DEF SoundChecks
<1>3. Documented => killed' \in DocumentedKills \cup SoundChecks
  BY DEF KillRuntime, DocumentedKills
<1> SUFFICES Documented
  BY <1>3
<1> HIDE DEF Known
<1>5. CASE Event(Drainer)
  <2>1. CASE OnReferenceSet3d(Drainer) \/ DeactivateRenderSource(Drainer)
    BY <1>2, <2>1 DEF OnReferenceSet3d, DeactivateRenderSource
  <2>2. CASE ObserveReference(Drainer)
    <3> DEFINE entry == FindOrInherit(th[Drainer].base, th[Drainer].extra)
    <3>1. entry.status = "Ready" => th[Drainer].owned
      <4>1. Here.pc = "set3d_lock" /\ Here.base \in Bases
        BY <2>2, InsideTyped, ThreadsAssumption DEF ObserveReference, Here, Baseless
      <4>2. Here.owned = (slot[Here.base] # "empty")
        BY <4>1 DEF ReadsInTime, ReadsHold
      <4>3. entry.status = "Ready" => slot[Here.base] = "active"
        <5>1. EntryOf(Here.base, FindOrInherit(Here.base, Here.extra), slot[Here.base])
          BY <4>1, FoundEntry
        <5>2. QED BY <5>1 DEF EntryOf, Here
      <4>4. QED BY <4>2, <4>3 DEF Here
    <3> HIDE DEF entry
    <3>2. \/ IgnoreReference(Drainer, entry) \/ RejectReference(Drainer, entry)
          \/ StartVanillaFallback(Drainer, entry) \/ JoinWaiters(Drainer, entry)
      BY <2>2 DEF ObserveReference, entry
    <3>3. QED BY <1>2, <3>1, <3>2
              DEF IgnoreReference, RejectReference, StartVanillaFallback, JoinWaiters
  <2>3. QED BY <1>5, <2>1, <2>2 DEF Event
<1>6. CASE SelectBase(Drainer)
  <2>1. OwnerIsConsistent
    BY <1>6 DEF SelectBase, OwnerIsConsistent, OwnerWorks, Here, Composing
  <2>2. QED BY <1>2, <1>6, <2>1 DEF SelectBase
<1>7. CASE DispatchStep(Drainer)
  BY <1>2, <1>7
     DEF DispatchStep, TryDispatchPendingBase, TryDispatchCompositePoll,
         TryDispatchCompositeActivation, TryDispatchVanillaRefresh, DispatchComposite, Post,
         RequeueBase, RequeueComposite, RequeueCompositeActivation, RequeueVanillaRefresh,
         Requeue, DispatchLost, DispatchBlocked, PostPosted
<1>8. CASE Preparation(Drainer)
  <2>1. CASE SubmitComposite(Drainer)
    BY <1>1, <1>2, <2>1 DEF SubmitComposite, IsRuntimeOperational
  <2>2. CASE DisableBaseBeforePublication(Drainer)
    BY <1>2, <2>2 DEF DisableBaseBeforePublication, Here
  <2>3. QED BY <1>2, <1>8, <2>1, <2>2
            DEF Preparation, BeginPreparation, BuildRenderSource, StoreStructure, RecordComposite
<1>9. CASE Composition(Drainer)
  BY <1>1, <1>2, <1>9
     DEF Composition, PollPendingComposite, RecordFinalization, PollCompositeActivation,
         LookupFails, AwaitPublicationIdle, ArmBarrier
<1>10. CASE Publication(Drainer)
  <2>1. CASE ActivateRenderSource(Drainer)
    <3>1. OnTask(Drainer) /\ Here.pc = "validate"
      BY <2>1 DEF ActivateRenderSource, OnTask, TaskLabels, Here
    <3>2. slot[Here.base] = "staged" /\ bases[Here.base].structure
      BY <3>1, TaskFacts, ThreadsAssumption DEF PlaceOf, Here
    <3>3. QED BY <1>1, <1>2, <2>1, <3>2 DEF ActivateRenderSource, StructureHolds, Here
  <2>2. CASE ReleasePreparationOwner(Drainer)
    BY <1>2, <2>2 DEF ReleasePreparationOwner, OwnerWorks, Here
  <2>3. CASE CompletePublication(Drainer) \/ EndRefresh(Drainer)
    BY <1>2, <2>3 DEF CompletePublication, EndRefresh
  <2>4. ASSUME NEW r \in Refs, RefreshWaitingReference(Drainer, r) PROVE Documented
    BY <1>1, <1>2, <2>4 DEF RefreshWaitingReference
  <2>5. QED BY <1>10, <2>1, <2>2, <2>3, <2>4 DEF Publication
<1>11. CASE VanillaFallback(Drainer)
  BY <1>1, <1>2, <1>11
     DEF VanillaFallback, BeginVanillaRefresh, RefreshVanillaReference, EndVanillaRefresh
<1>12. CASE ~ThreadStep(Drainer)
  BY <1>2, <1>12
     DEF Sequential, Next, Startup, StartPreparationPump, Arm, Engine, BuildReference,
         UnloadReference, ReuseFormID, Expire, ToggleQueue, Drain, RunTask, DropTask,
         PumpPendingBases, vars
<1>13. QED BY <1>5, <1>6, <1>7, <1>8, <1>9, <1>10, <1>11, <1>12 DEF ThreadStep

\* On one engine thread, with an engine that performs what it is asked, the
\* process is disabled only for a reused FormID whose base was still in flight,
\* or for a composite or a publication that timed out: none of the coordinator's
\* other calls of KillRuntime is ever reached.
THEOREM OneThreadKillsAsDocumented ==
  ASSUME Sequential, FatalFaults \cap Faults = {}
  PROVE  Spec => []OnlyDocumentedKills
<1> DEFINE Inv == /\ InTime /\ Patient /\ Here.pc # "disable_kill"
                  /\ killed \in DocumentedKills \cup SoundChecks
<1>1. Init => Inv
  BY InitAlone DEF InTime, Patient, Init, DocumentedKills
<1>2. TypeOK /\ SingleFlight /\ (TaskInv /\ BeforeArm) /\ Inv /\ [Next]_vars => Inv'
  <2> SUFFICES ASSUME TypeOK, SingleFlight, TaskInv, BeforeArm, Inv, [Next]_vars PROVE Inv'
    OBVIOUS
  <2>1. "throw" \notin Faults /\ "publish" \notin Faults
    BY DEF FatalFaults
  <2>2. InTime' /\ Patient'
    BY <2>1, StepKeeps, KilledForGood DEF InTime, Patient, Keeps, IsRuntimeOperational
  <2>3. Here'.pc # "disable_kill"
    BY <2>1, NoFailedPublication
  <2>4. killed # "no" => killed' = killed
    BY KilledForGood
  <2>5. killed' \in DocumentedKills \cup SoundChecks
    BY <2>4, StepIsDocumented DEF InTime, Patient, IsRuntimeOperational
  <2>6. QED BY <2>2, <2>3, <2>5
<1>3. Inv /\ killed \notin SoundChecks => OnlyDocumentedKills
  BY DEF OnlyDocumentedKills
<1>4. QED BY <1>1, <1>2, <1>3, TypeCorrect, OneBaseInFlight, TaskInvHolds, SoundChecksHold, PTL
          DEF Spec
=============================================================================
