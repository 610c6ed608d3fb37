------------------------ MODULE RenderSourceRegistry ------------------------
(***************************************************************************)
(* The lock-free render-source registry (src/Runtime/                      *)
(* RenderSourceRegistry.cpp) and the read thunk that RenderSourceHooks.cpp *)
(* generates for the engine's base reads.                                  *)
(*                                                                         *)
(* Two open-addressed tables, the runtime FormID -> slot registry and the  *)
(* source -> slot index, are extended under g_publishMutex and read        *)
(* without it.  One step is one access to shared memory, but for the scans *)
(* of PublishRenderSource, which read what only a holder of the mutex      *)
(* writes.  The relaxed stores of a publication happen in any order before *)
(* the release store of the FormID.                                        *)
(***************************************************************************)
EXTENDS Integers, FiniteSets

CONSTANTS
  Bases,            \* canonical bases, named by their runtime FormIDs
  Sources,          \* detached TESNPCs
  Publishers,       \* threads that publish
  Readers,          \* threads that look up
  Capacity,         \* kRegistryCapacity
  Limit,            \* kMaxPublishedSources
  StartIndex,       \* the hash of a FormID
  SourceStartIndex, \* the hash of a source pointer
  IdentityOf,       \* per base, the configured NPC published with its source
  Null              \* FormID 0, the null pointer, no thread

Indices == 0 .. Capacity - 1

ASSUME CapacityAssumption == Capacity \in Nat \ {0} /\ Limit \in Nat /\ Limit < Capacity
ASSUME HashAssumption ==
  /\ StartIndex \in [Bases -> Indices]
  /\ SourceStartIndex \in [Sources -> Indices]
  /\ IdentityOf \in [Bases -> Bases]
ASSUME NamesAssumption ==
  /\ Null \notin Bases \cup Sources \cup Publishers \cup Indices
  /\ Null \notin [source : Sources, active : BOOLEAN]
  /\ Bases \cap Sources = {}

VARIABLES
  operational, \* g_runtimeOperational
  registry,    \* g_registry
  sourceIndex, \* g_sourceIndex
  mutex,       \* the holder of g_publishMutex
  published,   \* g_publishedSourceCount
  refs,        \* QRefCount of each source, as the registry counts it
  publisher,   \* PublishRenderSource in progress, per publisher
  reader       \* the lookup in progress, per reader

tables == <<registry, sourceIndex>>
vars == <<operational, registry, sourceIndex, mutex, published, refs, publisher, reader>>

-----------------------------------------------------------------------------
(* The tables.                                                             *)

RegistrySlot == [formID : Bases \cup {Null}, source : Sources \cup {Null},
                 active : BOOLEAN, faceTextureIdentity : Bases \cup {Null}]
SourceIndexSlot == [source : Sources \cup {Null}, registrySlot : Indices \cup {Null}]

EmptySlot == [formID |-> Null, source |-> Null, active |-> FALSE, faceTextureIdentity |-> Null]
EmptyIndexSlot == [source |-> Null, registrySlot |-> Null]

\* The slot of a probe, and the slots the walk from a start passes before it.
SlotAt(start, probe) == (start + probe) % Capacity
Before(start, probe) == {SlotAt(start, q) : q \in 0 .. probe - 1}

\* Where a walk for a FormID, or for a source, stops: at the key or at a gap.
Stops(table, b, i) ==
  \E probe \in Indices :
    /\ i = SlotAt(StartIndex[b], probe)
    /\ table[i].formID \in {b, Null}
    /\ \A j \in Before(StartIndex[b], probe) : table[j].formID \notin {b, Null}
StopsSource(index, s, i) ==
  \E probe \in Indices :
    /\ i = SlotAt(SourceStartIndex[s], probe)
    /\ index[i].source \in {s, Null}
    /\ \A j \in Before(SourceStartIndex[s], probe) : index[j].source \notin {s, Null}

\* The slot FindSlot returns for a FormID.
FindSlot(b, i) == Stops(registry, b, i) /\ registry[i].formID = b

\* What a lookup of b answers when it takes no time and the runtime lives.
Visible(table, b) ==
  LET found == {i \in Indices : table[i].formID = b /\ table[i].active}
  IN  IF found = {} THEN b ELSE table[CHOOSE i \in found : TRUE].source

-----------------------------------------------------------------------------
(* Threads.                                                                *)

PublisherState == [at       : {"idle", "lock", "slot", "index", "fields", "row", "key", "count"},
                   base     : Bases \cup {Null},
                   source   : Sources \cup {Null},
                   slot     : Indices \cup {Null},
                   indexAt  : Indices \cup {Null},
                   missing  : SUBSET {"source", "active", "faceTextureIdentity"}]

IdlePublisher == [at |-> "idle", base |-> Null, source |-> Null, slot |-> Null,
                  indexAt |-> Null, missing |-> {}]

Walking == {"probe", "gap", "active", "source"}

ReaderState == [at     : Walking \cup {"idle", "answered", "reverse", "row", "reversed"},
                via    : {"native", "thunk"},
                asks   : {"formID", "faceTextureIdentity"},
                base   : Bases \cup {Null},
                source : Sources \cup {Null},
                probe  : Indices,
                live   : BOOLEAN,                  \* the kill flag, as the lookup read it
                seen   : SUBSET (Bases \cup Sources), \* history: what Visible was meanwhile
                out    : Bases \cup Sources \cup {Null}]

IdleReader == [at |-> "idle", via |-> "native", asks |-> "formID", base |-> Null,
               source |-> Null, probe |-> 0, live |-> FALSE, seen |-> {}, out |-> Null]

\* Lookups in progress notice what the registry becomes (history only).
Witness(table) ==
  reader' = [r \in Readers |->
    IF reader[r].at \in Walking /\ reader[r].live
    THEN [reader[r] EXCEPT !.seen = @ \cup {Visible(table, reader[r].base)}]
    ELSE reader[r]]

SetRegistry(table) == registry' = table /\ Witness(table)

Init ==
  /\ operational = TRUE
  /\ registry = [i \in Indices |-> EmptySlot]
  /\ sourceIndex = [i \in Indices |-> EmptyIndexSlot]
  /\ mutex = Null
  /\ published = 0
  /\ refs = [s \in Sources |-> 0]
  /\ publisher = [p \in Publishers |-> IdlePublisher]
  /\ reader = [r \in Readers |-> IdleReader]

-----------------------------------------------------------------------------
(* PublishRenderSource.                                                    *)

Moves(p, label)  == publisher' = [publisher EXCEPT ![p].at = label]
Leaves(p)        == publisher' = [publisher EXCEPT ![p] = IdlePublisher] /\ mutex' = Null

\* The checks before the lock: the source must be unreferenced.
CallPublish(p, b, s) ==
  /\ publisher[p].at = "idle"
  /\ refs[s] = 0
  /\ publisher' = [publisher EXCEPT ![p] =
       [IdlePublisher EXCEPT !.at = "lock", !.base = b, !.source = s]]
  /\ UNCHANGED <<operational, tables, mutex, published, refs, reader>>

\* mutant: the publication does not wait for the mutex
LockPublish_Unlocked(p) ==
  /\ publisher[p].at = "lock"
  /\ mutex' = p
  /\ Moves(p, "slot")
  /\ UNCHANGED <<operational, tables, published, refs, reader>>

LockPublish(p) ==
  /\ publisher[p].at = "lock" /\ mutex = Null
  /\ mutex' = p
  /\ Moves(p, "slot")
  /\ UNCHANGED <<operational, tables, published, refs, reader>>

\* mutant: the limit is noticed one publication late
ScanRegistry_Late(p) ==
  LET b == publisher[p].base
  IN  /\ publisher[p].at = "slot"
      /\ \/ /\ published <= Limit
            /\ \E i \in Indices :
                 /\ Stops(registry, b, i) /\ registry[i].formID = Null
                 /\ publisher' = [publisher EXCEPT ![p].at = "index", ![p].slot = i]
            /\ UNCHANGED mutex
         \/ /\ published > Limit \/ \A i \in Indices : Stops(registry, b, i) => FindSlot(b, i)
            /\ Leaves(p)
      /\ UNCHANGED <<operational, tables, published, refs, reader>>

\* The walk for a gap.  A key that is already there is adopted; then comes the
\* limit; a full table ends the publication too.
ScanRegistry(p) ==
  LET b == publisher[p].base
  IN  /\ publisher[p].at = "slot"
      /\ \/ /\ published < Limit
            /\ \E i \in Indices :
                 /\ Stops(registry, b, i) /\ registry[i].formID = Null
                 /\ publisher' = [publisher EXCEPT ![p].at = "index", ![p].slot = i]
            /\ UNCHANGED mutex
         \/ /\ published >= Limit \/ \A i \in Indices : Stops(registry, b, i) => FindSlot(b, i)
            /\ Leaves(p)
      /\ UNCHANGED <<operational, tables, published, refs, reader>>

\* mutant: the registry takes no reference of its own
ScanIndex_Unreferenced(p) ==
  LET s == publisher[p].source
  IN  /\ publisher[p].at = "index"
      /\ \/ /\ \E i \in Indices :
                 /\ StopsSource(sourceIndex, s, i) /\ sourceIndex[i].source = Null
                 /\ publisher' = [publisher EXCEPT ![p].at = "fields", ![p].indexAt = i,
                                    ![p].missing = {"source", "active", "faceTextureIdentity"}]
            /\ UNCHANGED <<refs, mutex>>
         \/ /\ \A i \in Indices : StopsSource(sourceIndex, s, i) => sourceIndex[i].source = s
            /\ Leaves(p) /\ UNCHANGED refs
      /\ UNCHANGED <<operational, tables, published, reader>>

\* mutant: the check before the lock is taken for enough
ScanIndex_Trusting(p) ==
  /\ publisher[p].at = "index"
  /\ \E i \in Indices :
       /\ sourceIndex[i].source = Null
       /\ publisher' = [publisher EXCEPT ![p].at = "fields", ![p].indexAt = i,
                          ![p].missing = {"source", "active", "faceTextureIdentity"}]
  /\ refs' = [refs EXCEPT ![publisher[p].source] = @ + 1]
  /\ UNCHANGED <<operational, tables, mutex, published, reader>>

\* The walk of the index.  A source that is indexed already is refused, for
\* the check of its references came before the lock.  Then IncRefCount.
ScanIndex(p) ==
  LET s == publisher[p].source
  IN  /\ publisher[p].at = "index"
      /\ \/ /\ \E i \in Indices :
                 /\ StopsSource(sourceIndex, s, i) /\ sourceIndex[i].source = Null
                 /\ publisher' = [publisher EXCEPT ![p].at = "fields", ![p].indexAt = i,
                                    ![p].missing = {"source", "active", "faceTextureIdentity"}]
            /\ refs' = [refs EXCEPT ![s] = @ + 1]
            /\ UNCHANGED mutex
         \/ /\ \A i \in Indices : StopsSource(sourceIndex, s, i) => sourceIndex[i].source = s
            /\ Leaves(p) /\ UNCHANGED refs
      /\ UNCHANGED <<operational, tables, published, reader>>

\* The registry after the relaxed store of one field.
Stored(p, f) ==
  LET i == publisher[p].slot
  IN  IF f = "source"      THEN [registry EXCEPT ![i].source = publisher[p].source]
      ELSE IF f = "active" THEN [registry EXCEPT ![i].active = FALSE]
      ELSE [registry EXCEPT ![i].faceTextureIdentity = IdentityOf[publisher[p].base]]

\* The relaxed stores, in the order the build makes of them.
StoreField(p, f) ==
  /\ publisher[p].at = "fields" /\ f \in publisher[p].missing
  /\ SetRegistry(Stored(p, f))
  /\ publisher' = [publisher EXCEPT ![p].missing = @ \ {f}]
  /\ UNCHANGED <<operational, sourceIndex, mutex, published, refs>>

\* The release store that makes the slot reachable.
StoreFormID(p) ==
  /\ publisher[p].at = "fields" /\ publisher[p].missing = {}
  /\ SetRegistry([registry EXCEPT ![publisher[p].slot].formID = publisher[p].base])
  /\ Moves(p, "row")
  /\ UNCHANGED <<operational, sourceIndex, mutex, published, refs>>

\* mutant: a source is not indexed
StoreRegistrySlot_Skipped(p) ==
  /\ publisher[p].at = "row"
  /\ Moves(p, "count")
  /\ UNCHANGED <<operational, tables, mutex, published, refs, reader>>

StoreRegistrySlot(p) ==
  /\ publisher[p].at = "row"
  /\ sourceIndex' = [sourceIndex EXCEPT ![publisher[p].indexAt].registrySlot = publisher[p].slot]
  /\ Moves(p, "key")
  /\ UNCHANGED <<operational, registry, mutex, published, refs, reader>>

StoreSource(p) ==
  /\ publisher[p].at = "key"
  /\ sourceIndex' = [sourceIndex EXCEPT ![publisher[p].indexAt].source = publisher[p].source]
  /\ Moves(p, "count")
  /\ UNCHANGED <<operational, registry, mutex, published, refs, reader>>

\* mutant: a publication takes one off the count
ReturnPublished_Discounted(p) ==
  /\ publisher[p].at = "count"
  /\ published' = published - 1
  /\ Leaves(p)
  /\ UNCHANGED <<operational, tables, refs, reader>>

ReturnPublished(p) ==
  /\ publisher[p].at = "count"
  /\ published' = published + 1
  /\ Leaves(p)
  /\ UNCHANGED <<operational, tables, refs, reader>>

-----------------------------------------------------------------------------
(* Activation and the kill.                                                *)

\* A caller knows the source of b from the publication that returned it.
Returned(b) == \A p \in Publishers : publisher[p].base = b => publisher[p].at \in {"lock", "slot"}

\* A plain store.
ActivateRenderSource(b) ==
  /\ Returned(b)
  /\ \E i \in Indices : FindSlot(b, i) /\ SetRegistry([registry EXCEPT ![i].active = TRUE])
  /\ UNCHANGED <<operational, sourceIndex, mutex, published, refs, publisher>>

\* A compare-and-swap of 1 to 0, by any thread that finds the owned source.
DeactivateRenderSource(b) ==
  /\ \E i \in Indices :
       /\ FindSlot(b, i) /\ registry[i].active
       /\ SetRegistry([registry EXCEPT ![i].active = FALSE])
  /\ UNCHANGED <<operational, sourceIndex, mutex, published, refs, publisher>>

KillRuntime ==
  /\ operational' = FALSE
  /\ UNCHANGED <<tables, mutex, published, refs, publisher, reader>>

-----------------------------------------------------------------------------
(* ResolveRenderSource and the generated thunk that mirrors it.            *)

OnlyReaders == UNCHANGED <<operational, tables, mutex, published, refs, publisher>>

Goes(r, label)  == reader' = [reader EXCEPT ![r].at = label]
Answers(r, v)   == reader' = [reader EXCEPT ![r].at = "answered", ![r].out = v, ![r].seen = {}]
NextProbe(r, otherwise) ==
  IF reader[r].probe + 1 < Capacity
  THEN reader' = [reader EXCEPT ![r].at = "probe", ![r].probe = @ + 1]
  ELSE otherwise

\* The kill flag is read first.
BeginLookup(r, b, via) ==
  /\ reader[r].at = "idle"
  /\ reader' = [reader EXCEPT ![r] =
       [IdleReader EXCEPT !.at = "probe", !.via = via, !.base = b, !.live = operational,
                          !.seen = {IF operational THEN Visible(registry, b) ELSE b}]]
  /\ OnlyReaders

Bypass(r) ==
  /\ reader[r].at = "probe" /\ ~reader[r].live
  /\ Answers(r, reader[r].base)
  /\ OnlyReaders

KeyAt(r) == registry[SlotAt(StartIndex[reader[r].base], reader[r].probe)]

\* The acquire load of a key.  The thunk compares it with the FormID, and
\* loads it again to compare it with zero.
LoadKey(r) ==
  LET b == reader[r].base
  IN  /\ reader[r].at = "probe" /\ reader[r].live
      /\ IF KeyAt(r).formID = b             THEN Goes(r, "active")
         ELSE IF reader[r].via = "thunk"    THEN Goes(r, "gap")
         ELSE IF KeyAt(r).formID = Null     THEN Answers(r, b)
         ELSE NextProbe(r, Answers(r, b))
      /\ OnlyReaders

LoadKeyAgain(r) ==
  LET b == reader[r].base
  IN  /\ reader[r].at = "gap"
      /\ IF KeyAt(r).formID = Null THEN Answers(r, b) ELSE NextProbe(r, Answers(r, b))
      /\ OnlyReaders

\* mutant: the thunk does not test the active word
LoadActive_Ignored(r) ==
  /\ reader[r].at = "active"
  /\ Goes(r, "source")
  /\ OnlyReaders

LoadActive(r) ==
  /\ reader[r].at = "active"
  /\ IF KeyAt(r).active THEN Goes(r, "source") ELSE Answers(r, reader[r].base)
  /\ OnlyReaders

LoadSource(r) ==
  /\ reader[r].at = "source"
  /\ Answers(r, IF KeyAt(r).source # Null THEN KeyAt(r).source ELSE reader[r].base)
  /\ OnlyReaders

Forget(r) ==
  /\ reader[r].at \in {"answered", "reversed"}
  /\ reader' = [reader EXCEPT ![r] = IdleReader]
  /\ OnlyReaders

-----------------------------------------------------------------------------
(* ResolveRuntimeFormIDForRenderSource and                                 *)
(* ResolveFaceTextureIdentityForRenderSource.                              *)

ReversesFor(r, b, s, asks) ==
  reader' = [reader EXCEPT ![r] =
    [IdleReader EXCEPT !.at = "reverse", !.asks = asks, !.base = b, !.source = s,
                       !.live = operational]]

\* The engine asks about a source that a lookup gave it, or the compositor
\* about one that has been published but may be staged.
BeginReverse(r, asks) ==
  /\ \/ /\ reader[r].at = "answered" /\ reader[r].out \in Sources
        /\ ReversesFor(r, reader[r].base, reader[r].out, asks)
     \/ /\ reader[r].at = "idle"
        /\ \E b \in Bases, i \in Indices :
             Returned(b) /\ FindSlot(b, i) /\ ReversesFor(r, b, registry[i].source, asks)
  /\ OnlyReaders

\* What the source says of itself: FormID 0, or the source.
Own(r) == IF reader[r].asks = "formID" THEN Null ELSE reader[r].source

Reverses(r, v) == reader' = [reader EXCEPT ![r].at = "reversed", ![r].out = v]

BypassReverse(r) ==
  /\ reader[r].at = "reverse" /\ ~reader[r].live
  /\ Reverses(r, Own(r))
  /\ OnlyReaders

IndexAt(r) == sourceIndex[SlotAt(SourceStartIndex[reader[r].source], reader[r].probe)]

LoadSourceKey(r) ==
  /\ reader[r].at = "reverse" /\ reader[r].live
  /\ IF IndexAt(r).source = reader[r].source   THEN Goes(r, "row")
     ELSE IF IndexAt(r).source = Null \/ reader[r].probe + 1 = Capacity THEN Reverses(r, Own(r))
     ELSE reader' = [reader EXCEPT ![r].probe = @ + 1]
  /\ OnlyReaders

LoadRegistrySlot(r) ==
  LET row   == IndexAt(r).registrySlot
      value == IF row = Null THEN Null ELSE registry[row][reader[r].asks]
  IN  /\ reader[r].at = "row"
      /\ Reverses(r, IF value = Null THEN Own(r) ELSE value)
      /\ OnlyReaders

-----------------------------------------------------------------------------

PublishRenderSource(p) ==
  \/ \E b \in Bases, s \in Sources : CallPublish(p, b, s)
  \/ LockPublish(p) \/ ScanRegistry(p) \/ ScanIndex(p)
  \/ \E f \in {"source", "active", "faceTextureIdentity"} : StoreField(p, f)
  \/ StoreFormID(p) \/ StoreRegistrySlot(p) \/ StoreSource(p) \/ ReturnPublished(p)

ResolveRenderSource(r) ==
  \/ \E b \in Bases, via \in {"native", "thunk"} : BeginLookup(r, b, via)
  \/ Bypass(r) \/ LoadKey(r) \/ LoadKeyAgain(r) \/ LoadActive(r) \/ LoadSource(r)

ReverseLookup(r) ==
  \/ \E asks \in {"formID", "faceTextureIdentity"} : BeginReverse(r, asks)
  \/ BypassReverse(r) \/ LoadSourceKey(r) \/ LoadRegistrySlot(r)

Next ==
  \/ \E p \in Publishers : PublishRenderSource(p)
  \/ \E b \in Bases : ActivateRenderSource(b) \/ DeactivateRenderSource(b)
  \/ KillRuntime
  \/ \E r \in Readers : ResolveRenderSource(r) \/ ReverseLookup(r) \/ Forget(r)

Spec == Init /\ [][Next]_vars

-----------------------------------------------------------------------------
(* Properties.                                                             *)

WritersTyped ==
  /\ registry \in [Indices -> RegistrySlot]
  /\ sourceIndex \in [Indices -> SourceIndexSlot]
  /\ mutex \in Publishers \cup {Null}
  /\ published \in Nat
  /\ refs \in [Sources -> Nat]
  /\ publisher \in [Publishers -> PublisherState]

\* Every variable stays in its domain.
TypeOK == WritersTyped /\ operational \in BOOLEAN /\ reader \in [Readers -> ReaderState]

\* Every published FormID is where the walk for it ends, and nowhere else:
\* there is no gap in front of it, so a lock-free reader cannot miss it, and
\* two publications of one FormID never both take a slot.
KeysAreReachable ==
  \A i \in Indices : registry[i].formID # Null => Stops(registry, registry[i].formID, i)

\* The same of the index, and a source is bound to one FormID only.
SourcesAreReachable ==
  \A i \in Indices :
    sourceIndex[i].source # Null => StopsSource(sourceIndex, sourceIndex[i].source, i)

\* The registry holds a reference to each source it publishes, and one only,
\* from before the source can be found.
PublishedIsReferenced ==
  \A s \in Sources :
    LET slots == {i \in Indices : registry[i].formID # Null /\ registry[i].source = s}
    IN  Cardinality(slots) <= refs[s] /\ refs[s] <= 1

\* The limit keeps both tables from filling up, so the walk for a FormID or a
\* source that was never published ends at a gap.
LimitLeavesGap ==
  LET used  == {i \in Indices : registry[i].formID # Null}
      inUse == {i \in Indices : sourceIndex[i].source # Null}
  IN  Cardinality(used) <= Limit /\ Cardinality(inUse) <= Limit

\* Asked about a source that a lookup or a publication handed out, the reverse
\* lookups name the base and the identity it was published with, unless they
\* begin after the kill.
ReverseAgrees ==
  \A r \in Readers : reader[r].at = "reversed" /\ reader[r].live =>
    reader[r].out = IF reader[r].asks = "formID" THEN reader[r].base
                    ELSE IdentityOf[reader[r].base]

\* Lookups, the thunk's included, are linearizable: the registry implements an
\* atomic map that is only ever extended.
BindingOf(b) ==
  LET found == {i \in Indices : registry[i].formID = b}
  IN  IF found = {} THEN Null
      ELSE LET i == CHOOSE i \in found : TRUE
           IN  [source |-> registry[i].source, active |-> registry[i].active]

LookupOf(r) ==
  IF reader[r].at \in Walking
  THEN [stage |-> "running", base |-> reader[r].base, live |-> reader[r].live, may |-> reader[r].seen]
  ELSE IF reader[r].at = "answered"
  THEN [stage |-> "answered", base |-> reader[r].base, live |-> reader[r].live, may |-> {reader[r].out}]
  ELSE [stage |-> "none", base |-> Null, live |-> FALSE, may |-> {}]

Bindings == INSTANCE RenderSourceBindings
  WITH binding <- [b \in Bases |-> BindingOf(b)], lookup <- [r \in Readers |-> LookupOf(r)]
ImplementsBindings == Bindings!Spec
=============================================================================
