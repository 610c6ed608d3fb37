--------------------- MODULE RenderSourceRegistryProofs ---------------------
(***************************************************************************)
(* Proofs about RenderSourceRegistry for any tables, hashes and threads.   *)
(*                                                                         *)
(* The inductive invariant adds to the property what a publication in      *)
(* progress relies on: it holds the mutex, and the gaps it chose are still *)
(* the gaps where the walks for its FormID and its source end.             *)
(***************************************************************************)
EXTENDS RenderSourceRegistry, TLAPS

\* A publication between its lock and its unlock holds the mutex.
Excluded == \A p \in Publishers : publisher[p].at \notin {"idle", "lock"} => mutex = p

\* A publication in progress has a FormID and a source.
Called == \A p \in Publishers :
  publisher[p].at # "idle" => publisher[p].base \in Bases /\ publisher[p].source \in Sources

\* A gap of the registry where the walk for b ends, and one of the index.
Open(table, b, i) == i \in Indices /\ table[i].formID = Null /\ Stops(table, b, i)
OpenSource(index, s, i) == i \in Indices /\ index[i].source = Null /\ StopsSource(index, s, i)

\* The gaps of a publication that has yet to store its FormID, its source.
SlotIsOpen == \A p \in Publishers :
  publisher[p].at \in {"index", "fields"} => Open(registry, publisher[p].base, publisher[p].slot)
IndexIsOpen == \A p \in Publishers :
  publisher[p].at \in {"fields", "row", "key"} =>
    OpenSource(sourceIndex, publisher[p].source, publisher[p].indexAt)

IInv == /\ WritersTyped /\ Excluded /\ Called /\ SlotIsOpen /\ IndexIsOpen
        /\ KeysAreReachable /\ SourcesAreReachable

\* Two registries with the same keys, two indices with the same sources.
SameKeys(table, other) == \A i \in Indices : other[i].formID = table[i].formID
SameSources(index, other) == \A i \in Indices : other[i].source = index[i].source

\* The second table is the first with a key stored in a gap.
Extended(table, other, b, i) ==
  /\ Open(table, b, i) /\ other[i].formID = b
  /\ \A j \in Indices \ {i} : other[j].formID = table[j].formID
ExtendedSources(index, other, s, i) ==
  /\ OpenSource(index, s, i) /\ other[i].source = s
  /\ \A j \in Indices \ {i} : other[j].source = index[j].source

\* Every key of a table is where the walk for it ends.
Reachable(table) ==
  \A i \in Indices : table[i].formID # Null =>
    table[i].formID \in Bases /\ Stops(table, table[i].formID, i)
ReachableSources(index) ==
  \A i \in Indices : index[i].source # Null =>
    index[i].source \in Sources /\ StopsSource(index, index[i].source, i)

-----------------------------------------------------------------------------
(* Walks.                                                                  *)

\* A walk stays in its table.
LEMMA SlotInTable ==
  ASSUME NEW start \in Indices, NEW probe \in Indices
  PROVE  SlotAt(start, probe) \in Indices /\ Before(start, probe) \subseteq Indices
<1>1. \A a, q \in Nat : (a + q) % Capacity \in Indices
  BY CapacityAssumption DEF Indices
<1>2. start \in Nat /\ probe \in Nat /\ \A q \in 0 .. probe - 1 : q \in Nat
  BY CapacityAssumption DEF Indices
<1> QED BY <1>1, <1>2 DEF SlotAt, Before

\* A walk depends on the keys only.
LEMMA WalkKept ==
  ASSUME NEW table, NEW other, SameKeys(table, other),
         NEW b \in Bases, NEW i \in Indices, Stops(table, b, i)
  PROVE  Stops(other, b, i)
<1>1. PICK probe \in Indices :
        /\ i = SlotAt(StartIndex[b], probe)
        /\ table[i].formID \in {b, Null}
        /\ \A j \in Before(StartIndex[b], probe) : table[j].formID \notin {b, Null}
  BY DEF Stops
<1>2. Before(StartIndex[b], probe) \subseteq Indices
  BY SlotInTable, HashAssumption
<1> QED BY <1>1, <1>2 DEF Stops, SameKeys

\* The same of the index.
LEMMA SourceWalkKept ==
  ASSUME NEW index, NEW other, SameSources(index, other),
         NEW s \in Sources, NEW i \in Indices, StopsSource(index, s, i)
  PROVE  StopsSource(other, s, i)
<1>1. PICK probe \in Indices :
        /\ i = SlotAt(SourceStartIndex[s], probe)
        /\ index[i].source \in {s, Null}
        /\ \A j \in Before(SourceStartIndex[s], probe) : index[j].source \notin {s, Null}
  BY DEF StopsSource
<1>2. Before(SourceStartIndex[s], probe) \subseteq Indices
  BY SlotInTable, HashAssumption
<1> QED BY <1>1, <1>2 DEF StopsSource, SameSources

\* A key stored in the gap at i where the walk for it ends is reachable, and
\* the walk for a key that was there before does not pass i.
LEMMA WalkExtended ==
  ASSUME NEW table, NEW other, NEW b \in Bases, NEW i,
         Extended(table, other, b, i), Reachable(table)
  PROVE  Reachable(other)
<1> SUFFICES ASSUME NEW j \in Indices, other[j].formID # Null
             PROVE  other[j].formID \in Bases /\ Stops(other, other[j].formID, j)
  BY DEF Reachable
<1> DEFINE c == other[j].formID
<1>1. c \in Bases /\ Stops(table, c, j)
  BY DEF Open, Extended, Reachable
<1>2. PICK probe \in Indices :
        /\ j = SlotAt(StartIndex[c], probe)
        /\ \A k \in Before(StartIndex[c], probe) : table[k].formID \notin {c, Null}
  BY <1>1 DEF Stops
<1>3. Before(StartIndex[c], probe) \subseteq Indices
  BY <1>1, SlotInTable, HashAssumption
<1>4. \A k \in Before(StartIndex[c], probe) : k # i /\ other[k].formID \notin {c, Null}
  BY <1>2, <1>3 DEF Open, Extended
<1> QED BY <1>1, <1>2, <1>4 DEF Stops

\* The same of the index.
LEMMA SourceWalkExtended ==
  ASSUME NEW index, NEW other, NEW s \in Sources, NEW i,
         ExtendedSources(index, other, s, i), ReachableSources(index)
  PROVE  ReachableSources(other)
<1> SUFFICES ASSUME NEW j \in Indices, other[j].source # Null
             PROVE  other[j].source \in Sources /\ StopsSource(other, other[j].source, j)
  BY DEF ReachableSources
<1> DEFINE c == other[j].source
<1>1. c \in Sources /\ StopsSource(index, c, j)
  BY DEF OpenSource, ExtendedSources, ReachableSources
<1>2. PICK probe \in Indices :
        /\ j = SlotAt(SourceStartIndex[c], probe)
        /\ \A k \in Before(SourceStartIndex[c], probe) : index[k].source \notin {c, Null}
  BY <1>1 DEF StopsSource
<1>3. Before(SourceStartIndex[c], probe) \subseteq Indices
  BY <1>1, SlotInTable, HashAssumption
<1>4. \A k \in Before(SourceStartIndex[c], probe) : k # i /\ other[k].source \notin {c, Null}
  BY <1>2, <1>3 DEF OpenSource, ExtendedSources
<1> QED BY <1>1, <1>2, <1>4 DEF StopsSource

\* Two slots never hold one key.
LEMMA WalkEndsOnce ==
  ASSUME NEW table, NEW b \in Bases, NEW i \in Indices, NEW j \in Indices,
         Stops(table, b, i), Stops(table, b, j)
  PROVE  i = j
<1>1. PICK p \in Indices :
        /\ i = SlotAt(StartIndex[b], p)
        /\ table[i].formID \in {b, Null}
        /\ \A k \in Before(StartIndex[b], p) : table[k].formID \notin {b, Null}
  BY DEF Stops
<1>2. PICK q \in Indices :
        /\ j = SlotAt(StartIndex[b], q)
        /\ table[j].formID \in {b, Null}
        /\ \A k \in Before(StartIndex[b], q) : table[k].formID \notin {b, Null}
  BY DEF Stops
<1>3. p \in Int /\ q \in Int /\ p >= 0 /\ q >= 0
  BY CapacityAssumption DEF Indices
<1>4. p < q => i \in Before(StartIndex[b], q)
  <2>1. p < q => p \in 0 .. q - 1
    BY <1>3
  <2> QED BY <1>1, <2>1 DEF Before
<1>5. q < p => j \in Before(StartIndex[b], p)
  <2>1. q < p => q \in 0 .. p - 1
    BY <1>3
  <2> QED BY <1>2, <2>1 DEF Before
<1>6. ~(p < q) /\ ~(q < p)
  BY <1>1, <1>2, <1>4, <1>5
<1> QED BY <1>1, <1>2, <1>3, <1>6

\* The same of the index.
LEMMA SourceWalkEndsOnce ==
  ASSUME NEW index, NEW s \in Sources, NEW i \in Indices, NEW j \in Indices,
         StopsSource(index, s, i), StopsSource(index, s, j)
  PROVE  i = j
<1>1. PICK p \in Indices :
        /\ i = SlotAt(SourceStartIndex[s], p)
        /\ index[i].source \in {s, Null}
        /\ \A k \in Before(SourceStartIndex[s], p) : index[k].source \notin {s, Null}
  BY DEF StopsSource
<1>2. PICK q \in Indices :
        /\ j = SlotAt(SourceStartIndex[s], q)
        /\ index[j].source \in {s, Null}
        /\ \A k \in Before(SourceStartIndex[s], q) : index[k].source \notin {s, Null}
  BY DEF StopsSource
<1>3. p \in Int /\ q \in Int /\ p >= 0 /\ q >= 0
  BY CapacityAssumption DEF Indices
<1>4. p < q => i \in Before(SourceStartIndex[s], q)
  <2>1. p < q => p \in 0 .. q - 1
    BY <1>3
  <2> QED BY <1>1, <2>1 DEF Before
<1>5. q < p => j \in Before(SourceStartIndex[s], p)
  <2>1. q < p => q \in 0 .. p - 1
    BY <1>3
  <2> QED BY <1>2, <2>1 DEF Before
<1>6. ~(p < q) /\ ~(q < p)
  BY <1>1, <1>2, <1>4, <1>5
<1> QED BY <1>1, <1>2, <1>3, <1>6

-----------------------------------------------------------------------------
(* Publications.                                                           *)

\* The step of a publication moves one publisher and passes the mutex on:
\* nobody else is between lock and unlock when it took it, kept it or left it.
LEMMA MutexPassed ==
  ASSUME IInv, NEW p \in Publishers, NEW e \in PublisherState,
         publisher' = [publisher EXCEPT ![p] = e],
         mutex' = mutex \/ mutex \in {Null, p},
         e.at \notin {"idle", "lock"} => mutex' = p,
         e.at # "idle" => e.base \in Bases /\ e.source \in Sources
  PROVE  Excluded' /\ Called'
<1>1. publisher'[p] = e /\ \A q \in Publishers \ {p} : publisher'[q] = publisher[q]
  BY DEF IInv, WritersTyped
<1>2. ASSUME NEW q \in Publishers, publisher'[q].at \notin {"idle", "lock"}
      PROVE  mutex' = q
  <2>1. CASE q = p
    BY <1>1, <1>2, <2>1
  <2>2. CASE q # p
    <3>1. mutex = q /\ q # Null
      BY <1>1, <1>2, <2>2, NamesAssumption DEF IInv, Excluded
    <3> QED BY <2>2, <3>1
  <2> QED BY <2>1, <2>2
<1>3. Excluded'
  BY <1>2 DEF Excluded
<1>4. Called'
  BY <1>1 DEF IInv, Called
<1> QED BY <1>3, <1>4

\* A step that stores no FormID: open gaps stay open and keys reachable.
LEMMA KeysKept ==
  ASSUME IInv, NEW p \in Publishers, NEW e \in PublisherState,
         publisher' = [publisher EXCEPT ![p] = e],
         SameKeys(registry, registry'),
         e.at \in {"index", "fields"} => e.base \in Bases /\ Open(registry, e.base, e.slot)
  PROVE  SlotIsOpen' /\ KeysAreReachable'
<1>1. publisher'[p] = e /\ \A q \in Publishers \ {p} : publisher'[q] = publisher[q]
  BY DEF IInv, WritersTyped
<1>2. \A b \in Bases, i \in Indices : Stops(registry, b, i) => Stops(registry', b, i)
  BY WalkKept
<1>3. \A b \in Bases : \A i : Open(registry, b, i) => Open(registry', b, i)
  BY <1>2 DEF Open, SameKeys
<1>4. SlotIsOpen'
  BY <1>1, <1>3 DEF IInv, SlotIsOpen, Called
<1>5. \A i \in Indices : registry[i].formID \in Bases \cup {Null}
  BY DEF IInv, WritersTyped, RegistrySlot
<1>6. KeysAreReachable'
  BY <1>2, <1>5 DEF IInv, KeysAreReachable, SameKeys
<1> QED BY <1>4, <1>6

\* The same of a step that stores no source in the index.
LEMMA SourcesKept ==
  ASSUME IInv, NEW p \in Publishers, NEW e \in PublisherState,
         publisher' = [publisher EXCEPT ![p] = e],
         SameSources(sourceIndex, sourceIndex'),
         e.at \in {"fields", "row", "key"} =>
           e.source \in Sources /\ OpenSource(sourceIndex, e.source, e.indexAt)
  PROVE  IndexIsOpen' /\ SourcesAreReachable'
<1>1. publisher'[p] = e /\ \A q \in Publishers \ {p} : publisher'[q] = publisher[q]
  BY DEF IInv, WritersTyped
<1>2. \A s \in Sources, i \in Indices :
        StopsSource(sourceIndex, s, i) => StopsSource(sourceIndex', s, i)
  BY SourceWalkKept
<1>3. \A s \in Sources : \A i : OpenSource(sourceIndex, s, i) => OpenSource(sourceIndex', s, i)
  BY <1>2 DEF OpenSource, SameSources
<1>4. IndexIsOpen'
  BY <1>1, <1>3 DEF IInv, IndexIsOpen, Called
<1>5. \A i \in Indices : sourceIndex[i].source \in Sources \cup {Null}
  BY DEF IInv, WritersTyped, SourceIndexSlot
<1>6. SourcesAreReachable'
  BY <1>2, <1>5 DEF IInv, SourcesAreReachable, SameSources
<1> QED BY <1>4, <1>6

-----------------------------------------------------------------------------
(* The actions.                                                            *)

\* Steps that leave the tables alone and move one publisher.
LEMMA PublisherMoves ==
  ASSUME IInv, NEW p \in Publishers, NEW e \in PublisherState,
         publisher' = [publisher EXCEPT ![p] = e],
         UNCHANGED tables, published' \in Nat, refs' \in [Sources -> Nat],
         mutex' = mutex \/ mutex \in {Null, p}, mutex' \in Publishers \cup {Null},
         e.at \notin {"idle", "lock"} => mutex' = p,
         e.at # "idle" => e.base \in Bases /\ e.source \in Sources,
         e.at \in {"index", "fields"} => Open(registry, e.base, e.slot),
         e.at \in {"fields", "row", "key"} => OpenSource(sourceIndex, e.source, e.indexAt)
  PROVE  IInv'
<1>1. WritersTyped'
  BY DEF IInv, WritersTyped, tables
<1>2. SameKeys(registry, registry') /\ SameSources(sourceIndex, sourceIndex')
  BY DEF SameKeys, SameSources, tables
<1>3. Excluded' /\ Called'
  BY MutexPassed
<1>4. SlotIsOpen' /\ KeysAreReachable'
  BY <1>2, KeysKept
<1>5. IndexIsOpen' /\ SourcesAreReachable'
  BY <1>2, SourcesKept
<1> QED BY <1>1, <1>3, <1>4, <1>5 DEF IInv

\* A call has yet to lock.
LEMMA CallStep ==
  ASSUME IInv, NEW p \in Publishers, NEW b \in Bases, NEW s \in Sources, CallPublish(p, b, s)
  PROVE  IInv'
<1> DEFINE e == [IdlePublisher EXCEPT !.at = "lock", !.base = b, !.source = s]
<1>1. e \in PublisherState
  BY DEF IdlePublisher, PublisherState
<1>2. e.at = "lock" /\ e.base = b /\ e.source = s
  BY DEF IdlePublisher
<1>3. publisher' = [publisher EXCEPT ![p] = e] /\ UNCHANGED <<tables, mutex, published, refs>>
  BY DEF CallPublish
<1>4. mutex \in Publishers \cup {Null} /\ published \in Nat /\ refs \in [Sources -> Nat]
  BY DEF IInv, WritersTyped
<1> HIDE DEF e
<1> QED BY <1>1, <1>2, <1>3, <1>4, PublisherMoves

\* Locking: the mutex was free, so nobody else is inside.
LEMMA LockStep ==
  ASSUME IInv, NEW p \in Publishers, LockPublish(p)
  PROVE  IInv'
<1> DEFINE e == [publisher[p] EXCEPT !.at = "slot"]
<1>1. publisher[p] \in PublisherState /\ publisher[p].at = "lock"
  BY DEF IInv, WritersTyped, LockPublish
<1>2. e \in PublisherState /\ e.at = "slot" /\ e.base = publisher[p].base /\ e.source = publisher[p].source
  BY <1>1 DEF PublisherState
<1>3. publisher' = [publisher EXCEPT ![p] = e] /\ UNCHANGED <<tables, published, refs>>
  BY DEF LockPublish, Moves
<1>4. mutex' = p /\ mutex = Null
  BY DEF LockPublish
<1>5. published \in Nat /\ refs \in [Sources -> Nat]
  BY DEF IInv, WritersTyped
<1>6. e.base \in Bases /\ e.source \in Sources
  BY <1>1, <1>2 DEF IInv, Called
<1> HIDE DEF e
<1> QED BY <1>2, <1>3, <1>4, <1>5, <1>6, PublisherMoves

\* A publication ends, wherever it is.
LEMMA LeaveStep ==
  ASSUME IInv, NEW p \in Publishers, publisher[p].at \notin {"idle", "lock"}, Leaves(p),
         UNCHANGED <<tables, refs>>, published' \in Nat
  PROVE  IInv'
<1>1. IdlePublisher \in PublisherState /\ IdlePublisher.at = "idle"
  BY DEF IdlePublisher, PublisherState
<1>2. mutex = p /\ refs \in [Sources -> Nat]
  BY DEF IInv, WritersTyped, Excluded
<1>3. publisher' = [publisher EXCEPT ![p] = IdlePublisher] /\ mutex' = Null
  BY DEF Leaves
<1> QED BY <1>1, <1>2, <1>3, PublisherMoves

\* The gap found is open, and stays so while the mutex is held.
LEMMA ScanRegistryStep ==
  ASSUME IInv, NEW p \in Publishers, ScanRegistry(p)
  PROVE  IInv'
<1> DEFINE b == publisher[p].base
<1>1. publisher[p] \in PublisherState /\ publisher[p].at = "slot" /\ mutex = p
  BY DEF IInv, WritersTyped, Excluded, ScanRegistry
<1>2. b \in Bases /\ publisher[p].source \in Sources
  BY <1>1 DEF IInv, Called
<1>3. UNCHANGED <<tables, published, refs>> /\ published \in Nat /\ refs \in [Sources -> Nat]
  BY DEF IInv, WritersTyped, ScanRegistry
<1>4. ASSUME NEW i \in Indices, Stops(registry, b, i), registry[i].formID = Null, UNCHANGED mutex,
             publisher' = [publisher EXCEPT ![p].at = "index", ![p].slot = i]
      PROVE  IInv'
  <2> DEFINE e == [publisher[p] EXCEPT !.at = "index", !.slot = i]
  <2>1. /\ e \in PublisherState /\ e.at = "index" /\ e.slot = i
        /\ e.base = b /\ e.source = publisher[p].source
    BY <1>1 DEF PublisherState
  <2>2. publisher' = [publisher EXCEPT ![p] = e]
    BY <1>4
  <2>3. Open(registry, e.base, e.slot)
    BY <1>4, <2>1 DEF Open
  <2> HIDE DEF e
  <2> QED BY <1>1, <1>2, <1>3, <1>4, <2>1, <2>2, <2>3, PublisherMoves
<1>5. CASE Leaves(p)
  BY <1>1, <1>3, <1>5, LeaveStep
<1> QED BY <1>4, <1>5 DEF ScanRegistry

\* The same of the index; the registry gap is still open.
LEMMA ScanIndexStep ==
  ASSUME IInv, NEW p \in Publishers, ScanIndex(p)
  PROVE  IInv'
<1> DEFINE s == publisher[p].source
           fields == {"source", "active", "faceTextureIdentity"}
<1>1. publisher[p] \in PublisherState /\ publisher[p].at = "index" /\ mutex = p
  BY DEF IInv, WritersTyped, Excluded, ScanIndex
<1>2. publisher[p].base \in Bases /\ s \in Sources
  BY <1>1 DEF IInv, Called
<1>3. UNCHANGED <<tables, published>> /\ published \in Nat /\ refs \in [Sources -> Nat]
  BY DEF IInv, WritersTyped, ScanIndex
<1>4. Open(registry, publisher[p].base, publisher[p].slot)
  BY <1>1 DEF IInv, SlotIsOpen
<1>5. ASSUME NEW i \in Indices, StopsSource(sourceIndex, s, i), sourceIndex[i].source = Null,
             publisher' = [publisher EXCEPT ![p].at = "fields", ![p].indexAt = i,
                             ![p].missing = fields],
             refs' = [refs EXCEPT ![s] = @ + 1], UNCHANGED mutex
      PROVE  IInv'
  <2> DEFINE e == [publisher[p] EXCEPT !.at = "fields", !.indexAt = i, !.missing = fields]
  <2>1. /\ e \in PublisherState /\ e.at = "fields" /\ e.indexAt = i
        /\ e.base = publisher[p].base /\ e.source = s /\ e.slot = publisher[p].slot
    BY <1>1 DEF PublisherState
  <2>2. publisher' = [publisher EXCEPT ![p] = e]
    BY <1>5
  <2>3. OpenSource(sourceIndex, e.source, e.indexAt)
    BY <1>5, <2>1 DEF OpenSource
  <2>4. refs' \in [Sources -> Nat]
    BY <1>2, <1>3, <1>5
  <2> HIDE DEF e
  <2> QED BY <1>1, <1>2, <1>3, <1>4, <1>5, <2>1, <2>2, <2>3, <2>4, PublisherMoves
<1>6. CASE Leaves(p) /\ UNCHANGED refs
  BY <1>1, <1>3, <1>6, LeaveStep
<1> QED BY <1>5, <1>6 DEF ScanIndex

\* A relaxed store touches a slot without a key.
LEMMA StoreFieldStep ==
  ASSUME IInv, NEW p \in Publishers, NEW f \in {"source", "active", "faceTextureIdentity"},
         StoreField(p, f)
  PROVE  IInv'
<1> DEFINE e == [publisher[p] EXCEPT !.missing = @ \ {f}]
           i == publisher[p].slot
<1>1. publisher[p] \in PublisherState /\ publisher[p].at = "fields" /\ mutex = p
  BY DEF IInv, WritersTyped, Excluded, StoreField
<1>2. /\ e \in PublisherState /\ e.at = "fields" /\ e.indexAt = publisher[p].indexAt
      /\ e.base = publisher[p].base /\ e.source = publisher[p].source /\ e.slot = i
  BY <1>1 DEF PublisherState
<1>3. publisher' = [publisher EXCEPT ![p] = e] /\ UNCHANGED <<sourceIndex, mutex, published, refs>>
  BY DEF StoreField
<1>4. e.base \in Bases /\ e.source \in Sources
  BY <1>1, <1>2 DEF IInv, Called
<1>5. Open(registry, e.base, i) /\ OpenSource(sourceIndex, e.source, e.indexAt)
  BY <1>1, <1>2 DEF IInv, SlotIsOpen, IndexIsOpen
<1>6. registry' = Stored(p, f) /\ registry \in [Indices -> RegistrySlot] /\ i \in Indices
  BY <1>5 DEF StoreField, SetRegistry, IInv, WritersTyped, Open
<1>7. IdentityOf[e.base] \in Bases
  BY <1>4, HashAssumption
<1>8. registry' \in [Indices -> RegistrySlot]
  <2>1. CASE f = "source"
    BY <1>2, <1>4, <1>6, <2>1 DEF Stored, RegistrySlot
  <2>2. CASE f = "active"
    BY <1>6, <2>2 DEF Stored, RegistrySlot
  <2>3. CASE f = "faceTextureIdentity"
    BY <1>2, <1>6, <1>7, <2>3 DEF Stored, RegistrySlot
  <2> QED BY <2>1, <2>2, <2>3
<1>9. SameKeys(registry, registry') /\ SameSources(sourceIndex, sourceIndex')
  BY <1>3, <1>6 DEF Stored, SameKeys, SameSources, RegistrySlot
<1> HIDE DEF e
<1>10. WritersTyped'
  BY <1>2, <1>3, <1>8 DEF IInv, WritersTyped
<1>11. Excluded' /\ Called'
  BY <1>1, <1>2, <1>3, <1>4, MutexPassed
<1>12. SlotIsOpen' /\ KeysAreReachable'
  BY <1>2, <1>3, <1>4, <1>5, <1>9, KeysKept
<1>13. IndexIsOpen' /\ SourcesAreReachable'
  BY <1>2, <1>3, <1>4, <1>5, <1>9, SourcesKept
<1> QED BY <1>10, <1>11, <1>12, <1>13 DEF IInv

\* The release store makes the open gap a key; no other publication is inside.
LEMMA StoreFormIDStep ==
  ASSUME IInv, NEW p \in Publishers, StoreFormID(p)
  PROVE  IInv'
<1> DEFINE e == [publisher[p] EXCEPT !.at = "row"]
           b == publisher[p].base
           i == publisher[p].slot
<1>1. publisher[p] \in PublisherState /\ publisher[p].at = "fields" /\ mutex = p
  BY DEF IInv, WritersTyped, Excluded, StoreFormID
<1>2. /\ e \in PublisherState /\ e.at = "row" /\ e.indexAt = publisher[p].indexAt
      /\ e.base = b /\ e.source = publisher[p].source
  BY <1>1 DEF PublisherState
<1>3. publisher' = [publisher EXCEPT ![p] = e] /\ UNCHANGED <<sourceIndex, mutex, published, refs>>
  BY DEF StoreFormID, Moves
<1>4. b \in Bases /\ e.source \in Sources
  BY <1>1, <1>2 DEF IInv, Called
<1>5. Open(registry, b, i) /\ OpenSource(sourceIndex, e.source, e.indexAt)
  BY <1>1, <1>2 DEF IInv, SlotIsOpen, IndexIsOpen
<1>6. /\ registry' = [registry EXCEPT ![i].formID = b]
      /\ registry \in [Indices -> RegistrySlot] /\ i \in Indices
  BY <1>5 DEF StoreFormID, SetRegistry, IInv, WritersTyped, Open
<1>7. registry' \in [Indices -> RegistrySlot]
  BY <1>4, <1>6 DEF RegistrySlot
<1>8. registry'[i].formID = b /\ \A j \in Indices \ {i} : registry'[j].formID = registry[j].formID
  BY <1>6 DEF RegistrySlot
<1>9. SameSources(sourceIndex, sourceIndex')
  BY <1>3 DEF SameSources
<1> HIDE DEF e
<1>10. WritersTyped'
  BY <1>2, <1>3, <1>7 DEF IInv, WritersTyped
<1>11. Excluded' /\ Called'
  BY <1>1, <1>2, <1>3, <1>4, MutexPassed
<1>12. KeysAreReachable'
  <2>1. Reachable(registry)
    BY <1>6 DEF IInv, KeysAreReachable, RegistrySlot, Reachable
  <2>2. Extended(registry, registry', b, i)
    BY <1>5, <1>8 DEF Extended
  <2>3. Reachable(registry')
    BY <1>4, <2>1, <2>2, WalkExtended
  <2> QED BY <2>3 DEF KeysAreReachable, Reachable
<1>13. SlotIsOpen'
  <2>1. publisher'[p] = e /\ \A q \in Publishers \ {p} : publisher'[q] = publisher[q]
    BY <1>3 DEF IInv, WritersTyped
  <2>2. \A q \in Publishers : publisher'[q].at \notin {"index", "fields"}
    BY <1>1, <1>2, <2>1 DEF IInv, Excluded
  <2> QED BY <2>2 DEF SlotIsOpen
<1>14. IndexIsOpen' /\ SourcesAreReachable'
  BY <1>2, <1>3, <1>4, <1>5, <1>9, SourcesKept
<1> QED BY <1>10, <1>11, <1>12, <1>13, <1>14 DEF IInv

\* The row number goes into an index slot without a key.
LEMMA StoreRegistrySlotStep ==
  ASSUME IInv, NEW p \in Publishers, StoreRegistrySlot(p)
  PROVE  IInv'
<1> DEFINE e == [publisher[p] EXCEPT !.at = "key"]
           i == publisher[p].indexAt
<1>1. publisher[p] \in PublisherState /\ publisher[p].at = "row" /\ mutex = p
  BY DEF IInv, WritersTyped, Excluded, StoreRegistrySlot
<1>2. /\ e \in PublisherState /\ e.at = "key" /\ e.indexAt = i
      /\ e.base = publisher[p].base /\ e.source = publisher[p].source
  BY <1>1 DEF PublisherState
<1>3. publisher' = [publisher EXCEPT ![p] = e] /\ UNCHANGED <<registry, mutex, published, refs>>
  BY DEF StoreRegistrySlot, Moves
<1>4. e.base \in Bases /\ e.source \in Sources
  BY <1>1, <1>2 DEF IInv, Called
<1>5. OpenSource(sourceIndex, e.source, i)
  BY <1>1, <1>2 DEF IInv, IndexIsOpen
<1>6. /\ sourceIndex' = [sourceIndex EXCEPT ![i].registrySlot = publisher[p].slot]
      /\ sourceIndex \in [Indices -> SourceIndexSlot] /\ i \in Indices
      /\ publisher[p].slot \in Indices \cup {Null}
  BY <1>1, <1>5 DEF StoreRegistrySlot, IInv, WritersTyped, OpenSource, PublisherState
<1>7. sourceIndex' \in [Indices -> SourceIndexSlot]
  BY <1>6 DEF SourceIndexSlot
<1>8. SameKeys(registry, registry') /\ SameSources(sourceIndex, sourceIndex')
  BY <1>3, <1>6 DEF SameKeys, SameSources, SourceIndexSlot
<1> HIDE DEF e
<1>9. WritersTyped'
  BY <1>2, <1>3, <1>7 DEF IInv, WritersTyped
<1>10. Excluded' /\ Called'
  BY <1>1, <1>2, <1>3, <1>4, MutexPassed
<1>11. SlotIsOpen' /\ KeysAreReachable'
  BY <1>2, <1>3, <1>8, KeysKept
<1>12. IndexIsOpen' /\ SourcesAreReachable'
  BY <1>2, <1>3, <1>4, <1>5, <1>8, SourcesKept
<1> QED BY <1>9, <1>10, <1>11, <1>12 DEF IInv

\* The same of the key of the index.
LEMMA StoreSourceStep ==
  ASSUME IInv, NEW p \in Publishers, StoreSource(p)
  PROVE  IInv'
<1> DEFINE e == [publisher[p] EXCEPT !.at = "count"]
           s == publisher[p].source
           i == publisher[p].indexAt
<1>1. publisher[p] \in PublisherState /\ publisher[p].at = "key" /\ mutex = p
  BY DEF IInv, WritersTyped, Excluded, StoreSource
<1>2. e \in PublisherState /\ e.at = "count" /\ e.base = publisher[p].base /\ e.source = s
  BY <1>1 DEF PublisherState
<1>3. publisher' = [publisher EXCEPT ![p] = e] /\ UNCHANGED <<registry, mutex, published, refs>>
  BY DEF StoreSource, Moves
<1>4. e.base \in Bases /\ s \in Sources
  BY <1>1, <1>2 DEF IInv, Called
<1>5. OpenSource(sourceIndex, s, i)
  BY <1>1 DEF IInv, IndexIsOpen
<1>6. /\ sourceIndex' = [sourceIndex EXCEPT ![i].source = s]
      /\ sourceIndex \in [Indices -> SourceIndexSlot] /\ i \in Indices
  BY <1>5 DEF StoreSource, IInv, WritersTyped, OpenSource
<1>7. sourceIndex' \in [Indices -> SourceIndexSlot]
  BY <1>4, <1>6 DEF SourceIndexSlot
<1>8. sourceIndex'[i].source = s /\ \A j \in Indices \ {i} : sourceIndex'[j].source = sourceIndex[j].source
  BY <1>6 DEF SourceIndexSlot
<1>9. SameKeys(registry, registry')
  BY <1>3 DEF SameKeys
<1> HIDE DEF e
<1>10. WritersTyped'
  BY <1>2, <1>3, <1>7 DEF IInv, WritersTyped
<1>11. Excluded' /\ Called'
  BY <1>1, <1>2, <1>3, <1>4, MutexPassed
<1>12. SlotIsOpen' /\ KeysAreReachable'
  BY <1>2, <1>3, <1>9, KeysKept
<1>13. SourcesAreReachable'
  <2>1. ReachableSources(sourceIndex)
    BY <1>6 DEF IInv, SourcesAreReachable, SourceIndexSlot, ReachableSources
  <2>2. ExtendedSources(sourceIndex, sourceIndex', s, i)
    BY <1>5, <1>8 DEF ExtendedSources
  <2>3. ReachableSources(sourceIndex')
    BY <1>4, <2>1, <2>2, SourceWalkExtended
  <2> QED BY <2>3 DEF SourcesAreReachable, ReachableSources
<1>14. IndexIsOpen'
  <2>1. publisher'[p] = e /\ \A q \in Publishers \ {p} : publisher'[q] = publisher[q]
    BY <1>3 DEF IInv, WritersTyped
  <2>2. \A q \in Publishers : publisher'[q].at \notin {"fields", "row", "key"}
    BY <1>1, <1>2, <2>1 DEF IInv, Excluded
  <2> QED BY <2>2 DEF IndexIsOpen
<1> QED BY <1>10, <1>11, <1>12, <1>13, <1>14 DEF IInv

\* The count, and the unlock.
LEMMA ReturnStep ==
  ASSUME IInv, NEW p \in Publishers, ReturnPublished(p)
  PROVE  IInv'
<1>1. publisher[p].at = "count" /\ Leaves(p) /\ UNCHANGED <<tables, refs>>
  BY DEF ReturnPublished
<1>2. published' \in Nat
  BY DEF ReturnPublished, IInv, WritersTyped
<1> QED BY <1>1, <1>2, LeaveStep

\* Activation and deactivation touch no key and no publication.
LEMMA ActiveStep ==
  ASSUME IInv, NEW i \in Indices, NEW a \in BOOLEAN,
         registry' = [registry EXCEPT ![i].active = a],
         UNCHANGED <<sourceIndex, mutex, published, refs, publisher>>
  PROVE  IInv'
<1>1. registry \in [Indices -> RegistrySlot]
  BY DEF IInv, WritersTyped
<1>2. registry' \in [Indices -> RegistrySlot]
  BY <1>1 DEF RegistrySlot
<1>3. SameKeys(registry, registry')
  BY <1>1 DEF SameKeys, RegistrySlot
<1>4. WritersTyped' /\ Excluded' /\ Called' /\ IndexIsOpen' /\ SourcesAreReachable'
  BY <1>2 DEF IInv, WritersTyped, Excluded, Called, IndexIsOpen, SourcesAreReachable
<1>5. \A b \in Bases, j \in Indices : Stops(registry, b, j) => Stops(registry', b, j)
  BY <1>3, WalkKept
<1>6. \A b \in Bases : \A j : Open(registry, b, j) => Open(registry', b, j)
  BY <1>3, <1>5 DEF Open, SameKeys
<1>7. SlotIsOpen'
  BY <1>6 DEF IInv, SlotIsOpen, Called
<1>8. KeysAreReachable'
  BY <1>1, <1>3, <1>5 DEF IInv, KeysAreReachable, SameKeys, RegistrySlot
<1> QED BY <1>4, <1>7, <1>8 DEF IInv

\* Lookups and the kill change nothing that the invariant is about.
LEMMA ReaderStep ==
  ASSUME IInv, UNCHANGED <<tables, mutex, published, refs, publisher>>
  PROVE  IInv'
BY DEF IInv, tables, WritersTyped, Excluded, Called, SlotIsOpen, IndexIsOpen,
       KeysAreReachable, SourcesAreReachable

\* Empty tables, idle threads.
LEMMA Initially == Init => IInv
<1> SUFFICES ASSUME Init PROVE IInv
  OBVIOUS
<1>1. \A i \in Indices : registry[i].formID = Null /\ sourceIndex[i].source = Null
  BY DEF Init, EmptySlot, EmptyIndexSlot
<1>2. \A p \in Publishers : publisher[p].at = "idle"
  BY DEF Init, IdlePublisher
<1>3. WritersTyped
  BY DEF Init, WritersTyped, EmptySlot, EmptyIndexSlot, IdlePublisher, RegistrySlot,
         SourceIndexSlot, PublisherState
<1> QED BY <1>1, <1>2, <1>3
        DEF IInv, Excluded, Called, SlotIsOpen, IndexIsOpen, KeysAreReachable, SourcesAreReachable

\* One case per action.
LEMMA Step == IInv /\ [Next]_vars => IInv'
<1> SUFFICES ASSUME IInv, [Next]_vars PROVE IInv'
  OBVIOUS
<1>1. ASSUME NEW p \in Publishers, PublishRenderSource(p) PROVE IInv'
  BY <1>1, CallStep, LockStep, ScanRegistryStep, ScanIndexStep, StoreFieldStep, StoreFormIDStep,
     StoreRegistrySlotStep, StoreSourceStep, ReturnStep DEF PublishRenderSource
<1>2. ASSUME NEW b \in Bases, ActivateRenderSource(b) PROVE IInv'
  BY <1>2, ActiveStep DEF ActivateRenderSource, SetRegistry
<1>3. ASSUME NEW b \in Bases, DeactivateRenderSource(b) PROVE IInv'
  BY <1>3, ActiveStep DEF DeactivateRenderSource, SetRegistry
<1>4. CASE KillRuntime
  BY <1>4, ReaderStep DEF KillRuntime
<1>5. ASSUME NEW r \in Readers, ResolveRenderSource(r) \/ ReverseLookup(r) \/ Forget(r)
      PROVE  IInv'
  <2>1. OnlyReaders
    BY <1>5 DEF ResolveRenderSource, ReverseLookup, Forget, BeginLookup, Bypass, LoadKey,
                LoadKeyAgain, LoadActive, LoadSource, BeginReverse, BypassReverse,
                LoadSourceKey, LoadRegistrySlot
  <2> QED BY <2>1, ReaderStep DEF OnlyReaders
<1>6. CASE UNCHANGED vars
  BY <1>6, ReaderStep DEF vars, tables
<1> QED BY <1>1, <1>2, <1>3, <1>4, <1>5, <1>6 DEF Next

\* So it is an invariant.
LEMMA Invariant == Spec => []IInv
BY Initially, Step, PTL DEF Spec

-----------------------------------------------------------------------------
(* The theorems.                                                           *)

\* No walk for a published FormID ever ends early: wherever the writers are,
\* a lock-free reader finds every key that was stored before it looked.
THEOREM KeysStayReachable == Spec => []KeysAreReachable
<1>1. IInv => KeysAreReachable
  BY DEF IInv
<1> QED BY <1>1, Invariant, PTL

\* The same of the index of sources, for the reverse lookups.
THEOREM SourcesStayReachable == Spec => []SourcesAreReachable
<1>1. IInv => SourcesAreReachable
  BY DEF IInv
<1> QED BY <1>1, Invariant, PTL

\* No FormID ever occupies two slots, although a publication checks for it
\* long before it stores it: the mutex is what makes that check last.
OneSlotPerFormID ==
  \A i, j \in Indices : registry[i].formID # Null /\ registry[i].formID = registry[j].formID => i = j

\* It follows from where the walks end.
LEMMA OneSlot ==
  ASSUME IInv
  PROVE  OneSlotPerFormID
<1> SUFFICES ASSUME NEW i \in Indices, NEW j \in Indices,
                    registry[i].formID # Null, registry[i].formID = registry[j].formID
             PROVE  i = j
  BY DEF OneSlotPerFormID
<1> DEFINE b == registry[i].formID
<1>1. b \in Bases
  BY DEF IInv, WritersTyped, RegistrySlot
<1>2. Stops(registry, b, i) /\ Stops(registry, b, j)
  BY DEF IInv, KeysAreReachable
<1> HIDE DEF b
<1> QED BY <1>1, <1>2, WalkEndsOnce

\* So it holds in every state.
THEOREM SlotsAreUnique == Spec => []OneSlotPerFormID
<1>1. IInv => OneSlotPerFormID
  BY OneSlot
<1> QED BY <1>1, Invariant, PTL

\* Two publications are never between lock and unlock at once, so the relaxed
\* stores of one are never mixed with those of another.
OnePublication ==
  \A p, q \in Publishers :
    publisher[p].at \notin {"idle", "lock"} /\ publisher[q].at \notin {"idle", "lock"} => p = q

\* The publication lock excludes, whoever takes it and whatever fails inside.
THEOREM PublicationsExclude == Spec => []OnePublication
<1>1. IInv => OnePublication
  BY DEF IInv, Excluded, OnePublication
<1> QED BY <1>1, Invariant, PTL
=============================================================================
