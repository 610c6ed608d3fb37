# OSF Identity: specifications, model checking and proofs

OSF Identity is an SFSE plugin that lets packs replace the appearance of unique
human NPCs in Starfield. It never edits an NPC. It builds a *detached* copy (a
"render source"), publishes it in a lock-free registry under the FormID of the
canonical base, and patches the engine's reads of `actor->base` so that 3D builds
read the render source instead. Everything hard about the program is in that
sequence: it is driven by engine events on several threads, by a task queue that
may refuse or drop work, by an engine compositor that must be used by one base at
a time, and by FormIDs that the game gives to somebody else after a save load.

This directory holds TLA+ specifications of that machinery, the TLC
configurations that check them on small instances, and TLAPS proofs for every
instance. Line numbers are those of the files under `src/`.

## 1. Inventory

| Component (src/...) | State | Operations | Talks to |
|---|---|---|---|
| `Runtime/OverlayRuntime` | `m_bases` (one `BaseState` per base), `m_preparationOwnerBaseID`, `m_hasDispatchableBases`, all but the flag under `m_stateMutex` | `Arm`, `OnReferenceSet3d`, `PumpPendingBases`, four dispatches, four requeues, `PreparePendingBase`, two polls, activation, completion, release, vanilla refresh | everything below |
| `Util/NativeMainThreadQueue` | the engine's queue, the drain owner | `Post`, `GuardedTask::Run`, `SnapshotState` | runs the coordinator's lambdas; calls `onDrop` |
| `Runtime/RuntimeSafety` | one process-wide flag | `KillRuntime`, `IsRuntimeOperational` | read by every lookup and task, and by generated code |
| `Runtime/RenderSourceRegistry` | two open-addressed tables, a publish mutex, a count | publish, activate, deactivate, forward and reverse lookups | read lock-free by engine threads |
| `Runtime/RenderSourceHooks` | patched engine sites, thunks, telemetry | install (all or nothing), generated lookups | reads the registry's memory directly |
| `Runtime/FaceTextureCompositor` | one composite per tinted base | create, submit, poll, finalize, destroy | engine compositor, registry |
| `Runtime/RenderSourceNPC` | none: the carrier is its caller's | create, destroy | engine allocator, kill flag |
| `Runtime/NPCPresetApplicator` | the carrier under construction | copy, apply, validate, refresh | engine setters |
| `Runtime/NPCSnapshot` | none | capture and compare NPC state, walk the head-part graph | engine forms |
| `Config/PackDiscovery`, `PackScanner`, `AssignmentSelection`, `RuntimeFormID`, `PluginLookup` | none (one scan at startup) | discover, resolve, select | file system, engine data handler |
| `Config/Preset`, `JsonSchema`, `Resolver`, `ConfigDetail` | none | parse, resolve, validate | text and engine tables |
| `main`, `Events` | none | plugin load, startup scan, event sink | all of the above |

How they interact. The startup scan selects one preset per base, registers the
event sink and calls `Arm`. From then on `ReferenceSet3d` events enter
`OnReferenceSet3d` on whatever thread built the reference; the permanent SFSE task
enters `PumpPendingBases`; both dispatch work through `Post`, which runs it at
once inside the engine's drain and queues it otherwise; queued tasks run on the
drain owner. A task stages a source in the registry, submits its composite, polls
it over several drains, activates the source and refreshes the references that
were built too early. Engine threads look sources up at any time.

What is hard: values read before a lock and used under it; the window between
activation, completion and the release of ownership; tasks refused, dropped, run
inline or throwing; timeouts; FormIDs reused in flight; engine setters that fail silently and containers that a
copy may share with the NPC it must not touch; who frees a carrier or a composite
when any of a dozen steps fails; the memory order of the
lock-free tables; a table at its limit; ambiguous packs and directories that fail
to list. `PROJECT.json` lists each as a hazard at its line with the properties that
would catch it.

What makes each part correct:

* coordinator: one base in flight; exactly one task per posted base; no parked
  work hidden from the pump; a source is served only when its structure is
  captured and its composite is finalized behind the barrier; every reference that
  built too early is caught up; no shutdown without a documented reason, and none by a
  check of a transition that nobody has overtaken; every
  started base settles;
* registry: no published key can be missed or stored twice; lookups are
  linearizable; reverse lookups agree with what was published; a reference is held
  for each source; the limit leaves gaps;
* preparation: a published render source shows the preset, whichever setter had no
  effect (two gaps of the validation apart, section 6); the canonical NPC is only read; carrier and composite are freed once, handed
  over, or abandoned in one of three known ways; the captured structure is closed; a failure disables
  the base before publication and kills the runtime after it; the task ends;
* scan: the earliest pack wins, a pack never has two candidates for a base,
  ambiguous presets are refused wholly, a configured base is never a generated one;
* hooks: a patched site does what the stolen instructions did, with another NPC and
  no other difference; a failed installation leaves no patch behind; nothing is
  published before everything is redirected.

## 2. Modules

| Module | Models |
|---|---|
| `OverlayRuntime` | the coordinator with the queue, the kill flag and what it uses of registry and compositor |
| `RenderSourceLifecycle` | abstract: what the coordinator promises about sources and 3D builds |
| `RenderSourceStages` | abstract: the stages of one base on its way to a custom appearance; coordinator and preparation both implement it |
| `OverlayRuntimeProofs`, `OverlayTaskProofs` | TLAPS theorems about `OverlayRuntime`: types and ownership; tasks, transitions, the refinements, and one engine thread |
| `RenderSourceRegistry` | the registry and the generated base-read thunk, one shared access per step |
| `RenderSourceBindings` | abstract: an atomic, append-only map with lookups that take time |
| `RenderSourceRegistryProofs`, `RenderSourceLookupProofs` | TLAPS theorems about `RenderSourceRegistry`: walks and publications; counts, lookups and the refinement |
| `RenderThunks` | the generated thunks as machine code, the engine instructions they replace, and a processor for both |
| `RenderSourceHooks` | plugin load, the installation of the hooks, and the engine at the hooked sites |
| `RenderSourceHooksProofs` | TLAPS theorems about the installation, and about what every thunk does |
| `AppearancePreset` | the two preset parsers: what they accept and what they make of it |
| `AppearanceDependencies` | the resolver: a preset's race, head parts, sliders, tint layers and colors |
| `PresetApplication` | `ApplyMorphs`, `ApplyVisuals` and their validation; what a look that shows a preset is |
| `RenderSourcePreparation` | one assignment from its file to an active carrier, with the engine around it |
| `OwnedObject` | abstract: an object that a task frees or hands over, or abandons for a stated excuse |
| `PresetApplicationProofs`, `RenderSourcePreparationProofs` | TLAPS theorems about both |
| `RuntimeFormID` | FormID encoding per tier and plugin lookup |
| `PackSelection` | discovery, resolution and selection |
| `PackSelectionProofs` | TLAPS theorems about both |
| `MC*` | instances for TLC |

Operators named `X_Something` and marked *mutant* are plausible bugs of `X`; no
specification uses them. Each shows that a property would notice the bug.

### OverlayRuntime

Every thread that enters the plugin is a record with a program counter (`th`). One
step is one critical section of `m_stateMutex`, or one access to state shared
without it. What the code reads before the lock is a field of the thread
(`owned`, `extra`) and may be stale when used.

| TLA+ | code |
|---|---|
| `bases[b]` | `m_bases[b]`; `status = "absent"` is no entry. `barrier` is `publicationBarrierArmed`, `expired` that 30 s have passed since `compositionStarted`, `structure` that `renderSourceStructure` is set |
| `owner`, `flag` | `m_preparationOwnerBaseID`, `m_hasDispatchableBases` |
| `slot[b]` | the registry's entry: empty, staged, active, inactive |
| `queued[k][b]` | tasks of kind `k` for `b` in the engine's queue |
| `killed` | the flag of `RuntimeSafety`, with the reason of the first call |
| `built[r]` | what the 3D of a reference shows; the engine's state, read through the hooks |
| `extra[b]` | what `ExtraLeveledCreature` of the references of `b` names now |

`OnReferenceSet3d` is three steps: the reads before the lock (`OnReferenceSet3d`),
the decision under it (`ObserveReference`, with one disjunct per outcome) and, for a
reused FormID, the deactivation after it (`DeactivateRenderSource`). A dispatch is
the critical section that posts the base (`TryDispatch...`) and the call of `Post`;
a task is one action per critical section or shared access. Dispatching never
nests in a task: a task that has to be repeated parks its base and the pump
picks it up.

The environment is explicit: `BuildReference`, `UnloadReference`, `ReuseFormID`,
`ToggleQueue` (the engine opens and closes its queue), `Expire`. `Faults` selects
the failures an instance may meet: `early` (3D exists before the scan has ended),
`drop`, `lookup`, `prepare`, `publish`, `structure`, `submit`, `finalize`,
`expire`, `refresh`, `canonical`, `throw`.

Modelling decisions:

* `KillRuntime` belongs to the step that decides it; it is the last thing a
  failing path does and nothing the path reads afterwards depends on it.
* An event is delivered by the thread that built the reference, later. Events that
  the engine raises while a refresh rebuilds a reference find the base ready or
  disabled and change nothing, so they are left out.
* No event of a base is being handled while a save is loaded that reuses its FormID.
* An exception out of an inline task is treated as swallowed, as the guarded task
  of the queue does.
* Which thread SFSE runs its permanent task on is not in the repository: `Pumper`
  is a constant, the drain owner in some runs and another thread in one.

### RenderSourceRegistry

`registry` and `sourceIndex` are the two arrays; `publisher[p]` and `reader[r]` the
calls in progress. The hashes are arbitrary functions (`StartIndex`,
`SourceStartIndex`): nothing may depend on how well they spread. The scans of
`PublishRenderSource` are one step each because only a holder of the mutex writes
what they read; each of its stores is a step, the relaxed ones in any order before
the release store of the FormID. A reader loads one word per step. `via = "thunk"`
is the code that `BaseReadThunk` generates: it loads a key once to compare it with
the FormID and *again* to compare it with zero, which the native lookup does not.
`seen` is a history variable: what an instantaneous lookup would have answered at
each moment of the lookup. `ActivateRenderSource` is called for a base whose
publication has returned (`Returned`), as the coordinator does;
`DeactivateRenderSource` by any thread that found the source.

### RenderThunks and RenderSourceHooks

A thunk is a sequence of instructions, written down from the Xbyak code one for one
(`BaseReadThunk`, `TextureMaskedFormIDThunk`, ...), and so are the engine
instructions that its call overwrites (`Stolen`, from the expected bytes of the
site tables). `Run` executes either on a processor of registers, flags and stack whose values are
symbolic: what a register held, a pointer to an NPC, its FormID. A call of C++
overwrites every volatile general-purpose register, the flags and its shadow space,
and notes whether the stack was aligned; a load through a null pointer faults.
The walk through the registry is one instruction (`probe`), because
`RenderSourceRegistry` takes it apart. Vector registers are left out: the texture
thunks do not save XMM0 to XMM5 around the call of their resolver, and are right only
as long as the compiled resolvers do not use them.

`RenderSourceHooks` is the order of things: byte gates (`PreflightSites`), one
`PrepareCallPatch` per site, which may fail, then one `WritePatch` per site, then
`FinishInstall`; SFSE loads or refuses the plugin on the result. The early return for
a second installation is left out, since `SFSE_PLUGIN_LOAD` is the only caller.
Memory writes are assumed to succeed. The engine reaches a site
(`ReachSite`) only after the plugin has been loaded or refused.
`Promised` says what a thunk is for: the stolen instructions, with another NPC. One deviation
of the thunks is written into it: the owner index of an NPC without an owner, 0xFFFF, becomes 0.
`ThunkContract` therefore shows that the thunks change nothing *besides* the NPC and that index;
`EmptyRegistryIsVanilla` is the stricter promise of the documents, and is violated (section 6). Two runs are
`Indistinguishable` when the stack, the flags where they matter, and all registers
that the following code can look at agree.

### AppearancePreset, AppearanceDependencies and PresetApplication

These are operators without state. A document is a record of what the JSON schema has
read; a name is its folded rank and its spelling, a fraction counts in 1/256 (so that
a tint can miss the grid of 1/128), `MaxID` and `MaxByte` stand for 2^32 - 1 and 255.
`wellFormed` is the one verdict on everything textual: size, JSON, keys, control
characters, the form of references. A parser returns a set, empty or of one preset; so
does the resolver. Which issues the resolver reports is left out: any of them makes the
preset unusable. Of six colors, two are kept, one looked up for a head part and one not.

A look is a record of maps (shapes, bones, groups, tints), an array of head parts and scalars. In
the array a type, or a part, may occur more than once, and the order matters: `ValidateVisuals` compares the
first part of each type only (`FirstOfType`, NPCPresetApplicator.cpp:332-353). The
setters of the engine are external; `lost` is the set of those without effect on this
carrier. `ShowsPreset` says what a look must be, without looking at how
`ValidateMorphs` and `ValidateVisuals` find out: the preset's values, and of each slot's type the preset's
part before all others. That no other part is behind it (`NoneBehind`) is not something the validation
finds out; `PublishedShowsPreset` claims it where `RemoveHeadPart` had an effect.

### RenderSourcePreparation

| TLA+ | code |
|---|---|
| `pc` | the place in `RunScan`, `PrepareRenderSource`, `CaptureRenderSourceStructure`, `PreparePendingBase`, the polls |
| `document`, `preset`, `deps` | the file, `AppearancePreset`, `ResolvedAppearanceDependencies` |
| `npc`, `revision`, `snapshot` | the canonical NPC; its state outside the look is a counter, and `canonicalState` and `canonicalStorage` the value it had |
| `carrier` | the detached `TESNPC`: where it is, whether it has a FormID, references beyond the registry's own, containers shared with the NPC |
| `look`, `race`, `lost` | what the carrier shows |
| `pending`, `graph`, `edges` | the worklist of the traversal, `headPartGraph`, `pending.size()` of the code |
| `output` | the `FaceTextureComposite` |
| `engine` | `expired`: 30 s since the submission; `idle`: the publication byte is 0; `intact`: the head parts are as captured |
| `active`, `disabled`, `killed` | the active word of the slot, the status of the base, the kill flag |

A task is one thread in the drain of the native queue, so its steps are the calls that
may fail or that hand something to the engine; between them the engine may take and
drop references, give the carrier a FormID, change the NPC or the head parts, and any
other caller may kill the runtime. What fails is drawn from `Faults`.

Modelling decisions:

* Single flight, the drop and retry of tasks and the resumption of a base that is
  already published are the subject of `OverlayRuntime` and are not repeated here. A poll that
  only asks for another poll changes nothing and is a stuttering step.
* The order in which the traversal visits head parts decides only which of several defects is
  reported: the traversal takes any pending part. A repeated edge counts towards the limit
  as in the code.
* The constructor and the composition output may break the engine's contract; then they
  are refused at birth (`RefuseConstructed`, `outputContract`).
* The finalization of a composite and the activation of a source may fail although nothing that is modelled
  speaks against it (`finalize`, `activate` of `Faults`); either kills the runtime.
* The race is compared twice: at the scan with the race of that time
  (`npc.configured`), at preparation with the race of the runtime base, which a generated
  base may not have yet.

### RuntimeFormID and PackSelection

A FormID is its top byte and its low 24 bits. A file is a record of what the code
finds out about it: the directory, the name up to case, the local FormID of its
stem, whether the path is accepted and whether the preset loads with all its
dependencies. The listing of each directory may fail, and a failed plugin directory
contributes nothing. Names are ordered by their folded rank, then by spelling.

## 3. Runs

| Run | Instance | Shows |
|---|---|---|
| `overlay_serial` | 1 thread, 2 bases (one tinted, one generated that inherits its assignment), 3 references, timeouts | `OnlyDocumentedKills`, `CaughtUp`, `FallbackReadsVanilla`, `TypeOK`: the documented contract, when events arrive on the drain thread; `StartedBasesSettle` under fairness |
| `overlay_threads` | 2 threads, pump on the worker, 2 references, all faults | the safety of the coordinator; `ChecksTripOnlyOvertaken`: a check of its own transitions disables the process only when another thread has overtaken the one that makes it, in one of three ways (section 6); `ImplementsLifecycle`: it refines `RenderSourceLifecycle`, and `ImplementsStages`: for each base it refines `RenderSourceStages` |
| `overlay_stale_binding`, `overlay_late_event`, `overlay_early_fallback` | 2 threads | three counterexamples, section 6 |
| `registry_writers` | 2 publishers, 3 FormIDs (2 collide at the last slot), 3 sources (2 collide), 4 slots, limit 2 | the tables stay walkable, referenced and within the limit |
| `registry_readers` | 1 publisher, 1 reader (native or thunk per lookup), 4 slots | `ImplementsBindings` (linearizability), `ReverseAgrees` |
| `hooks_install` | all 22 sites, every failure of the installation, every NPC and registry state at every site | `ThunkContract`, `RefusedMeansUntouched`, `PublishedOnlyWhenRedirected` |
| `hooks_empty_registry` | the same | a counterexample, section 6 |
| `pack_scan` | all subsets of 10 files in 3 packs, all listing failures | winners and ambiguity |
| `preparation` | 23 presets, 7 NPCs, 10 sets of lost setters, all failures, the engine's references, FormID, changes and kill | the properties of section 1, the refinements `ObjectsAreOwned` and `ImplementsStages`, and `PreparationEnds` under fairness |
| `preparation_leak` | the same, with no failure but of memory | a counterexample, section 6 |

Why the bounds are enough. Two bases are the least that compete for the ownership,
and one of each kind (plain and generated, tinted and not) exercises every status;
no action looks at a third. Two references of one base distinguish the one that
starts it from one that joins, and let one event race another; two threads are
what a race needs, for all critical sections are of one mutex and at most one
drain exists. The registry instance makes walks collide and wrap around; one
reader suffices because readers write nothing shared; two publishers are what the
mutex separates. The hooks have no bound: the sites are those of the code, and the
NPCs are the classes that a thunk can tell apart (null, with a slot, without, FormID 0,
source, identity). The files of `pack_scan` contain every way in which two of them
can be ambiguous and every tier limit that the instance's plugins can meet.

The presets of `preparation` are a plain one, a full one of each format, one per defect of the
head-part graph (a null part, an unregistered one, an unknown type, too many extras, a
chain that is too deep, a clique with too many edges, a cycle that is fine), presets
that contradict themselves (two values for one shape or slider, two layers of a category, a group in a
repeated region, a misc part for a slot or for the place of another one), and presets that the parser or the resolver must refuse. The
NPCs differ in what a copy inherits: nothing, an appearance that disagrees with the
presets in every field, or two parts of one type, the preset's before or behind the other; and in race,
own, inherited or missing. The limits are scaled down
(6 roots, 3 extras, 8 reachable parts for 64, 64 and 256) to be reached. One outside
reference (`MaxHeld`) is what the code tests for (0 or not), and one change of the NPC
(`MaxRevision`) is enough to fall between any two captures.

`CHECK_DEADLOCK FALSE` is used where the system ends: by `pack_scan`, whose scan ends,
and by the runs of the preparation, whose task does.

### Fairness (`overlay_serial`)

Weak fairness of `ThreadStep`: a thread inside the plugin is scheduled again. Weak
fairness of `Expire`: time passes. Strong fairness of the pump and of `RunTask`:
the game's main loop runs the permanent SFSE task and drains its queue once per
frame, so each of them is tried again and again although the queue may be closed in
between. The property is conditional on the engine leaving its queue open from some
time on, since a closed queue really does hold every base. Dropped tasks and
exceptions are excluded from this run: a task that is dropped for ever, or a poll
that throws, does leave its base in flight. With one thread no race disables the process, which would
settle every base at once; that a race hides no work from the pump is `NoLostWakeup`, on any number of threads.

### Fairness (`preparation`)

Weak fairness of `Task`: the drain runs a task to its end, and the pump dispatches the
polls again. Weak fairness of `Expire`: time passes. The engine owes nothing: it may
never compose and never stop publishing, and `PreparationEnds` all the same, by the deadline.

## 4. Proofs

TLC checks instances; the theorems hold for all values of the constants, from the
named assumptions of the modules.

* `OverlayRuntimeProofs!TypeCorrect`: `Spec => []TypeOK`. One lemma per group of
  actions. `TypeOK` includes what later proofs need of program counters: a thread
  that works on a task has a base, one that handles an event has a reference.
* `PumpSeesWork`: `Spec => []NoLostWakeup`. `m_hasDispatchableBases` is written in
  two ways, recomputed from the state (`UpdatePendingWorkFlagLocked`) or set by an
  event. The invariant is inductive given `TypeOK`: a step that recomputes the flag
  establishes it; one that sets it does too; any other step may not make a base
  dispatchable, and the lemmas go through the statuses to show that.
* `OneBaseInFlight`: `Spec => []SingleFlight`. Inductive given `TypeOK`: a base
  enters flight only by a dispatch that takes the free ownership, moves within its
  flight only where the code has checked `owner = b`, and the ownership is given up
  only by a base that becomes disabled or is ready.

* `RenderSourceRegistryProofs!KeysStayReachable` and `SourcesStayReachable`:
  `Spec => []KeysAreReachable` and `Spec => []SourcesAreReachable`, for every
  capacity, every pair of hash functions and any number of publishers. The
  properties are not inductive by themselves: a publication chooses its gap several
  steps before it stores the key. The invariant `IInv` adds that a publication
  between lock and unlock is the holder of the mutex (`Excluded`) and that its gaps
  are still where its walks end (`SlotIsOpen`, `IndexIsOpen`). `WalkExtended` is the
  heart: a key stored in an open gap is reachable, and no walk for another key
  passed through that gap, because a gap would have stopped it. `WalkKept` says that
  the relaxed stores and the activation, which store no key, move no walk.
  `SlotsAreUnique` and `PublicationsExclude` follow from the same invariant.
* `RenderSourceLookupProofs` goes on from `IInv` to what the two tables say of each other. `TableInv` adds
  that a reachable slot is filled from one publication (`Contents`, `OneSlotPerSource`), what the
  publication in progress has already stored (`StoredFields`, `StoredKey`, `StoredRow`), that index
  entries and slots name each other but for the slot that is not indexed yet (`Rows`,
  `Counterparts`), that only what has been indexed is active, that a source is referenced once from before
  it is indexed (`References`) and that `published` lags behind the tables by the publication that has yet
  to return (`Counts`). From it: `PublishedStaysReferenced`, `LimitKeepsGap`, `TypeCorrect`.
* `RenderSourceLookupProofs!LookupsLinearize`: `Spec => ImplementsBindings`, for any number of readers and
  publishers and either kind of reader, and `ReversesAgree`: `Spec => []ReverseAgrees`. The invariant of
  a reader (`Lookups`) is what it may still answer: `WalkOK` says that a lookup which has passed its
  key's place, or has stopped at a gap, was in progress when its base had no visible binding, so that the
  answer "none" has been seen; one that has found its key still finds it, since keys are never
  moved; and a reverse lookup asks about a source that stays published (`ReverseOK`). A step that
  stores a key or switches the active word adds the new answer to `seen` of every lookup in progress,
  which is why a walk that misses it may answer either way. `NamesAssumption` says that FormIDs, sources and
  positions are different kinds of values, which a type system says in the code.
* `PackSelectionProofs!EncodeInjective`, `EncodeOwned`: FormIDs of different tiers,
  indices or local FormIDs never alias, and none is an FF FormID. `ResolveInjective`
  lifts that to targets: tier and index determine the folded plugin name, from
  `CompileIndexAssumption` (no two full plugins share a compile index, which the
  engine guarantees) and the position in the list for the other tiers.
* `PackSelectionProofs!PacksDecide`: `Spec => []OnePresetPerPack`. The invariant adds
  that a pack still to be scanned has no assignments, that the assignments of a pack
  have different targets, and where each candidate comes from; by `ResolveInjective`
  two candidates of a pack for one base have the same target, hence are the same.
* `PackSelectionProofs!ConfiguredStaysOwned`: `Spec => []ConfiguredIsOwned`, from the
  same invariant and `EncodeOwned`.
* `PackSelectionProofs!EarliestWins`, `NeverAmbiguous` and `TypeCorrect`: `ScanInv` adds that what has been
  assigned of a scanned pack is exactly what its listed files assign (`Scanned`), so that neither the
  order of the scan nor a failed listing elsewhere can matter, and that winners come from the selection alone
  (`Chosen`). That every nonempty set of candidates has an earliest one is proved from the well-foundedness
  of `<` on the naturals (`NatLessThanWellFounded` and `WFMin` of the library), applied to each component of
  the identity in turn (`FirstCandidate`).

* `RenderSourceHooksProofs!RefusalIsClean` and `RedirectedFirst`:
  `Spec => []RefusedMeansUntouched` and `Spec => []PublishedOnlyWhenRedirected`. The
  invariant has two parts: nothing is written before everything is prepared, and an
  installation that returned wrote nothing or everything (`AllOrNothing`); SFSE and
  the runtime follow its result (`Follows`). The proofs never look at a site, so they
  hold for any table of sites. `TypeCorrect` does look at the table: the loops stay within it.
* `RenderSourceHooksProofs!ThunksKeepContract`: `Spec => []ThunkContract`, in every world of registry and
  actor. Only `ReachSite` runs code, so the property follows from `TypeOK` and a statement without
  state: at a site of the tables the patched code keeps the contract (`EverySiteHonoured`). That `Run`
  goes through one processor after another, and that joined code runs one part after the other (`RunExists`,
  `RunIs`, `RunConcat`), is proved once, from least elements. Each instruction has a lemma for each way it can
  go, on any registers, flags and stack. The pieces that thunks share have theirs:
  `PushAllSaves` and `PopAllRestores` (registers put back in reverse, for any list without repetition),
  `CallInShadow` (a call overwrites its shadow space and nothing below, if enough was reserved and the stack is
  aligned), `RedirectionRun` (the walk of a base read, in each of its exits). From these come what each thunk does to any
  processor (`BaseReadRun`, `MaskedRun`, ...), then what the replaced instructions do (`Stolen...`), and
  the comparison at each kind of site (`...Honoured`). Base reads are proved for any pair of
  registers, not only for the 16 of the table: `ScratchApart` says that the scratch registers are
  four, and none of them the result. An actor in a scratch register is read before anything overwrites it.

* `PresetApplicationProofs!ValidationIsSound`: a look that passes `ValidateMorphs` and
  `ValidateVisuals` satisfies `ShowsPreset`, for every look and every preset whose layers are of
  different categories. Of head parts that is the first of each type: the array has a first one of any type it
  contains, by least elements, and the validation compares just that. Values that two sliders give one key agree, for both were found to be
  the key's; tints are a counting argument, as many entries as layers and one for each.
* `RenderSourcePreparationProofs`: eleven theorems, nearly all with an inductive invariant of their own, because few
  need the same facts.
  `NeverFreedInUseHolds` and `ObjectsAreOwnedHolds` (the refinement of `OwnedObject` by carrier and
  output) rest on `Phases`, which says where each object is at each place of the
  task: without it `Destroyed` might free a published carrier.
  `CanonicalIsReadHolds` rests on `Unshared`: past the copy nothing is shared, so no setter reaches the NPC.
  `StructureIsClosedHolds` adds `Captured`: the parts visited and pending together are closed
  under extras, whatever cycles there are. `FailureIsContainedHolds` needs `Contained` and that the
  race was validated. `TypeOKHolds` bounds the edges. `PublishedShowsPresetHolds` carries `ValidationIsSound` from
  the validation to the publication, since the look no longer changes in between. That nothing is behind the preset's parts is not from the validation but from
  the application: `Swept` says that after it no other part of a slot is left, unless `RemoveHeadPart` was lost. For a preset with
  two layers of one category the property, and so the proof, speaks only of tasks in which no setter was lost.
  `ImplementsStagesHolds` (the refinement of `RenderSourceStages`) rests on `Phases` and `Contained`,
  and adds `LayersSubmitted`: a base without layers never waits for the compositor.
* `PresetIsSoundHolds`, `DependenciesAgreeHolds` and `CleanPresetAcceptedHolds` speak of every document and every
  game. `Derived` says that a prepared preset was loaded from the document and its dependencies resolved
  for this NPC; what a parser or the resolver makes of its input is then proved of their definitions. The
  bits of an ID are arithmetic modulo 2^32 (`MultipleHasNoRemainder`, `RemainderIsCongruent`).
  `PartsAgree` counts: without a repetition, the parts of the slots and the misc parts are as many as the
  places that name one. `ApplicationIsValid` is the converse of `ValidationIsSound`: where no two
  values for a thing differ, the last one (`GreatestIndex`, `LastPosition`) is each of them, and what was
  written for it is what `ValidateMorphs` and `ValidateVisuals` look for. The proof found what a preset must not
  do besides listing two values for one thing, and `Conflicting` now says it: to name a group in a
  region whose ID an earlier region has, for the validation reads the first of them only, and to list as misc a part for one
  of the slots 1 to 8, or two of another exclusive type, for one replaces the other.
  The assumptions are the named ones: limits, a finite set of head parts, documents as the schema
  leaves them (`DocumentAssumption`: lists are sequences and numbers are integers, nothing about their
  values), NPCs whose looks are looks.

* `OverlayTaskProofs` is about the deferred tasks, for any number of threads, bases, references and faults.
  The inductive invariant `TaskInv` has five parts. `Tasks`: a thread on a task is the only one on it, its base has
  the status of a posted task of that kind, and no task of the base is queued; a base has
  at most one queued task; and while the process is enabled, no posted base is without one. `Entries`: what the status
  of a base says of its slot, its captured structure, its composite and its waiters, one clause per pair that
  the code keeps in step in several critical sections. `Queues` and `Places`: what holds of the base
  while a task waits, and at each place of it. `Events`: a binding that an event read without the lock is never cleared, only
  withdrawn, and withdrawn once. `BeforeArm` says that all is empty until `Arm`, so that the first task cannot
  meet a stale one. None of the parts is inductive alone: that a posted base has its task depends on the
  checks of `SoundChecks` not tripping, these depend on `Entries`, and `Entries` survives a step only because
  no other thread is on the base. The lemmas `TaskGoesOn`, `TaskEnds`, `TaskIsHanded`, `TaskIsTaken` and
  `NoTaskMoves` say what a step of one thread on one base does to the invariant; each action is then one of them.
* From `TaskInv`: `OneTaskOnItsWay` (counting by cardinality), `TransitionsHold` (`Spec => ChecksTripOnlyOvertaken`),
  `ServedIsComposed` (`ReadyIsComposed`), `WaitersServed` (an action property: a waiter leaves its base's set
  only into the hands of a thread that refreshes it, or with the base disabled before publication) and
  `LifecycleImplemented`: `Spec => ImplementsLifecycle`, the step refinement of `RenderSourceLifecycle`.
* `TransitionsHold`, more closely. `SoundChecks` are the checks of what only the task at hand can change: the status it
  was posted with, its slot, its structure, its composite, a second disablement. From `TaskInv` they never trip. The
  other three can: an event finds a ready base without the binding it read before the lock (163), a
  catch-up ends with its FormID reused (1108), the pump looks at an owner in its catch-up
  (279). The theorem says that each trips in just that situation, and no other. It needs one more invariant: that an
  owner which is done with its publication has a thread in its catch-up, unless an exception ended that thread.
* Also from `TaskInv`: `StagesImplemented`: `Spec => ImplementsStages`, the refinement of `RenderSourceStages` by each
  base. `Layers` is added: only a base with layers is composited, and its barrier is armed only when its
  composite is finalized. A step moves one base at most: the lemmas say of each action which base that is and that the
  others are `Unmoved`, and then that the base takes a step of the abstract specification. With `ImplementsStagesHolds`
  the two models of a preparation, the one step of the coordinator that may fail anywhere and the call by
  call account of `RenderSourcePreparation`, keep to one contract: what the coordinator supposes of the
  compositor's stages is what the preparation does.

* Where one engine thread does everything (`Sequential`: `Threads = {Drainer}`, the hypothesis of the
  `overlay_serial` run and of section 6), the three properties that two threads break are theorems, with further
  inductive invariants that hold while the process is enabled. `OneThreadReadsVanilla` (`FallbackReadsVanilla`,
  whatever fails) needs `ReadsInTime`: what an event read before the lock is still so under it, nothing is built before
  `Arm`, and a base that waits for its vanilla refresh is served only while its event is about to withdraw it.
  `OneThreadCatchesUp` (`CaughtUp`) adds `Accounted`: every reference with 3D whose event is over shows the preset, is
  in the catch-up's hands, or waits for its base, and its base is started if it has an assignment to inherit. It
  supposes that no catch-up refresh fails or throws (`refresh`, `throw`): the code gives such a reference up.
  `OneThreadKillsAsDocumented` (`OnlyDocumentedKills`) adds `OwnerWorks`: the owner composes or is in its
  catch-up. It supposes that the engine does not produce one of `FatalFaults`, which the code answers with
  `KillRuntime`; failed preparations, refused posts, failed refreshes and timeouts may
  all happen. Most steps are on the way of a task (`Works`) and are dealt with at once; the others are the
  startup, the engine, the event, the completion with its catch-up, and the fallback.

Only model-checked: the liveness properties `StartedBasesSettle` and `PreparationEnds` (fairness and `ENABLED` are
beyond the prover). Every invariant and every other action or temporal property of a passing run is a theorem. The
library's induction takes an operator, which the provers cannot instantiate; where a proof needs
induction over the naturals it uses least elements of sets instead. `Run` is a recursive function, not a recursive operator, for
that reason: its values are known once the run of every code has been shown to exist.

## 5. Not modelled

`ConfigDetail` and the reading of JSON text (`JsonSchema`, `ParseDecimalID`, `ReadFormReference`): conversions
of strings without control state, whose verdicts are fields of a file (`PackSelection`) or `wellFormed`
(`AppearancePreset`). The fields that `NPCSnapshot` compares one by one are one counter
and the look. Of the hooks, the hit counters and their reports are left out. Engine
code is external: what its calls return is nondeterministic wherever the code tests it, and
its setters do what they are for or nothing. Tests, tools, fixtures and packaging are not part of the program.

## 6. Disagreements between documentation and code

1. *Stale binding* (`overlay_stale_binding`). ARCHITECTURE.md:108 says references
   that arrive while a base is pending or queued join its waiters. `ownedSource` is
   read before the lock (OverlayRuntime.cpp:102) and the status under it: a worker
   that reads no binding just before publication and takes the lock after completion
   finds a ready base without a binding, and disables the process (163, 205).
2. *Late event* (`overlay_late_event`). ARCHITECTURE.md:29 says references that built
   before activation are refreshed once. One whose event arrives after completion is
   no waiter and is left with its vanilla build (161-164).
3. *Early fallback* (`overlay_early_fallback`). ARCHITECTURE.md:93 says the stale slot
   is deactivated and the reference then rebuilt against vanilla data. The base becomes
   dispatchable under the lock (144-149), the slot is deactivated after it (194): the
   pump may run the rebuild in between.

4. *Complete replacement*. AUTHOR_GUIDE.md:54 says that a preset
  replaces the target's complete face-and-body appearance. The carrier starts as a copy of the NPC.
  Body morphs are set, and validated, only if the preset lists any (NPCPresetApplicator.cpp:56-59,
  185), and of inherited head parts only those of types 1 to 8 are removed or looked
  for (104-114, 332-361): the NPC's body morphs, misc parts and parts of type 9 and above can remain.
  Two tests intend a preset without body morphs to preserve the target's
  (npc_appearance_preset_tests.cpp:325, 418), so for these the guide is what is out of date. No run: the definitions `ApplyMorphs`, `Replaced` and
  `HeadPartsMatch` say it as the code does.
5. *Idle pump* (`ChecksTripOnlyOvertaken`). ARCHITECTURE.md:108 says the permanent task is an atomic no-op
  while no base is dispatchable. An event of another base sets the flag (171) while the owner is ready and
  refreshes its waiters; a pump on another thread then looks at the status of the owner, takes
  Ready for an invalid one (279) and disables the process (313-317).
6. *Reuse during the catch-up* (`ChecksTripOnlyOvertaken`). ARCHITECTURE.md:93 says what a reused FormID
  costs: its slot is deactivated and the FormID disabled. Seen between completion and
  release, it makes `ReleasePreparationOwner` (1108) disable the process.
7. *Empty registry* (`hooks_empty_registry`). ARCHITECTURE.md:71 says that an empty registry is behaviorally
  vanilla. The thunk of `FaceTextureComposite.ownerIndex` turns 0xFFFF into 0 for every NPC, whatever the
  registry holds (RenderSourceHooks.cpp:582-587).
8. *Leaked carrier* (`preparation_leak`). ARCHITECTURE.md:91 says that a failed unpublished source is
  destroyed immediately. `std::make_shared` (OverlayRuntime.cpp:460) may throw while nobody but the task knows
  the carrier: the base is disabled, and the carrier stays allocated and unpublished. `ObjectsAreOwned` has this as an excuse
  (`exhausted`), so what it shows is that there is no other leak without a kill.

The first three, the fifth and the sixth need an event or the pump on a thread other than the drain owner;
`overlay_serial` shows that none of them happens when there is no such thread. The fifth and the sixth have no run of their
own: with two threads TLC finds each as it finds the first, as a kill that `OnlyDocumentedKills` does not list, and
`ChecksTripOnlyOvertaken` says in which states they happen.

Observed while modelling, without a document to contradict or a run of its own:

* Tint entries are counted against layers (NPCPresetApplicator.cpp:383). Two layers of one
  category make room for one inherited entry, should the engine fail to remove it; `PublishedShowsPreset` excepts this case.
* Of head parts the first of each type is compared (NPCPresetApplicator.cpp:332-353). Should `RemoveHeadPart` have no
  effect, a part of the NPC that comes behind the preset's own stays undetected; `PublishedShowsPreset` excepts this case too.
* When a publication finds another carrier, the composition output is not destroyed (492-497); the
  runtime is killed, so `ObjectsAreOwned` admits it.

## 7. Plan

Done: coordinator, registry, hooks, scan, presets, resolver, preparation of carriers with composites; their runs
and theorems, and a contract (`RenderSourceStages`) that the coordinator and the preparation share. Left: a
composition of the two in one state space, which is too large for TLC; the contract is what such a run would check.
