----------------------- MODULE RenderSourceLookupProofs -----------------------
(***************************************************************************)
(* Proofs about what the registry's two tables say of each other, and what *)
(* a lock-free lookup makes of them, for any tables, hashes, publishers    *)
(* and readers: the counts and references of PublishRenderSource, the      *)
(* reverse lookups, and that the registry implements RenderSourceBindings. *)
(*                                                                         *)
(* A lookup is right because a key that is in the table stays, with its    *)
(* source, so what it has walked past stays passed; and because it is      *)
(* complete only for the keys it looked at, the invariant of a lookup says *)
(* what it may still answer (Lookups) and not only where it is.            *)
(***************************************************************************)
EXTENDS RenderSourceRegistryProofs, FiniteSetTheorems

Storing  == {"row", "key", "count"}   \* the FormID is stored
Carrying == {"fields", "row", "key"}  \* the source is referenced and not yet indexed

\* A slot with a key, an index slot with one, and a source that is indexed.
Used  == {i \in Indices : registry[i].formID # Null}
InUse == {i \in Indices : sourceIndex[i].source # Null}
Indexed(index, s) == \E j \in Indices : index[j].source = s

\* A reachable slot has the source and the identity of one publication.
Contents == \A i \in Used :
  /\ registry[i].source \in Sources
  /\ registry[i].faceTextureIdentity = IdentityOf[registry[i].formID]
OneSlotPerSource == \A i, j \in Used : registry[i].source = registry[j].source => i = j

\* What a publication has stored of its slot.
StoredFields == \A p \in Publishers : publisher[p].at = "fields" =>
  LET slot == registry[publisher[p].slot]
  IN  /\ "source" \notin publisher[p].missing => slot.source = publisher[p].source
      /\ "faceTextureIdentity" \notin publisher[p].missing =>
           slot.faceTextureIdentity = IdentityOf[publisher[p].base]
StoredKey == \A p \in Publishers : publisher[p].at \in Storing =>
  /\ publisher[p].slot \in Indices
  /\ registry[publisher[p].slot].formID = publisher[p].base
  /\ registry[publisher[p].slot].source = publisher[p].source
StoredRow == \A p \in Publishers : publisher[p].at = "key" =>
  sourceIndex[publisher[p].indexAt].registrySlot = publisher[p].slot

\* Only what has been published completely is ever active.
ActiveIsIndexed == \A i \in Indices :
  registry[i].active => i \in Used /\ Indexed(sourceIndex, registry[i].source)

\* The row of an indexed source, and the index entry of a source.
Rows == \A j \in InUse :
  /\ sourceIndex[j].registrySlot \in Used
  /\ registry[sourceIndex[j].registrySlot].source = sourceIndex[j].source
Counterparts == \A i \in Used :
  \/ Indexed(sourceIndex, registry[i].source)
  \/ \E p \in Publishers : publisher[p].at \in {"row", "key"} /\ publisher[p].slot = i

\* A source is referenced once it is carried, and never a second time.
Carried(s) == \E p \in Publishers : publisher[p].at \in Carrying /\ publisher[p].source = s
References == \A s \in Sources :
  refs[s] = IF Indexed(sourceIndex, s) \/ Carried(s) THEN 1 ELSE 0

\* The count lags behind the tables by the publication that has yet to return.
Counts ==
  /\ Cardinality(Used) =
       IF \E p \in Publishers : publisher[p].at \in Storing THEN published + 1 ELSE published
  /\ Cardinality(InUse) =
       IF \E p \in Publishers : publisher[p].at = "count" THEN published + 1 ELSE published
  /\ published <= Limit
  /\ \A p \in Publishers : publisher[p].at \notin {"idle", "lock", "slot"} => published < Limit

TableInv ==
  /\ IInv /\ Contents /\ OneSlotPerSource /\ StoredFields /\ StoredKey /\ StoredRow
  /\ ActiveIsIndexed /\ Rows /\ Counterparts /\ References /\ Counts

-----------------------------------------------------------------------------
(* Readers.                                                                *)

\* The slot a lookup looks at, and the slots it has walked past.
KeySlot(table, x)   == table[SlotAt(StartIndex[x.base], x.probe)]
IndexSlot(index, x) == index[SlotAt(SourceStartIndex[x.source], x.probe)]
Passed(table, x) ==
  \A k \in Before(StartIndex[x.base], x.probe) : table[k].formID \notin {x.base, Null}
PassedSources(index, x) ==
  \A k \in Before(SourceStartIndex[x.source], x.probe) : index[k].source \notin {x.source, Null}

\* The source s is published for b, in the registry and in the index.
Bound(table, index, b, s) ==
  /\ \E i \in Indices : table[i].formID = b /\ table[i].source = s
  /\ Indexed(index, s)

\* A lookup in progress may answer what it has seen: b itself once it may have
\* missed b, and the source of b once it has found b active.
WalkOK(table, index, x) ==
  /\ x.at \in Walking /\ ~x.live => x.base \in x.seen
  /\ x.at \in Walking /\ x.live => Visible(table, x.base) \in x.seen
  /\ x.at \in {"gap", "active", "source"} => x.live
  /\ x.at = "probe" /\ x.live => x.base \in x.seen \/ Passed(table, x)
  /\ x.at = "gap" =>
       \/ x.base \in x.seen
       \/ Passed(table, x) /\ KeySlot(table, x).formID \notin {x.base, Null}
  /\ x.at \in {"active", "source"} => KeySlot(table, x).formID = x.base
  /\ x.at = "source" =>
       /\ KeySlot(table, x).source \in x.seen \cap Sources
       /\ Indexed(index, KeySlot(table, x).source)

\* A reverse lookup asks about a source that is published for its base.
ReverseOK(table, index, x) ==
  /\ x.at = "answered" /\ x.out \in Sources => Bound(table, index, x.base, x.out)
  /\ x.at \in {"reverse", "row", "reversed"} =>
       x.source \in Sources /\ Bound(table, index, x.base, x.source)
  /\ x.at = "reverse" => PassedSources(index, x)
  /\ x.at = "row" => IndexSlot(index, x).source = x.source
  /\ x.at = "reversed" /\ x.live =>
       x.out = IF x.asks = "formID" THEN x.base ELSE IdentityOf[x.base]

LookupOK(table, index, x) ==
  /\ x.at # "idle" => x.base \in Bases
  /\ WalkOK(table, index, x)
  /\ ReverseOK(table, index, x)

Lookups ==
  /\ operational \in BOOLEAN
  /\ reader \in [Readers -> ReaderState]
  /\ \A r \in Readers : LookupOK(registry, sourceIndex, reader[r])

-----------------------------------------------------------------------------
(* The tables.                                                             *)

\* A table has finitely many slots.
LEMMA FiniteTables == IsFiniteSet(Indices) /\ IsFiniteSet(Used) /\ IsFiniteSet(InUse)
<1>1. IsFiniteSet(Indices)
  BY CapacityAssumption, FS_Interval DEF Indices
<1>2. Used \subseteq Indices /\ InUse \subseteq Indices
  BY DEF Used, InUse
<1> QED BY <1>1, <1>2, FS_Subset

\* While one publication is between lock and unlock, all others are outside.
LEMMA Alone ==
  ASSUME IInv, NEW p \in Publishers, NEW e, publisher[p].at \notin {"idle", "lock"},
         publisher' = [publisher EXCEPT ![p] = e]
  PROVE  /\ publisher'[p] = e /\ publisher[p] \in PublisherState /\ mutex = p
         /\ \A q \in Publishers : q # p =>
              publisher'[q] = publisher[q] /\ publisher[q].at \in {"idle", "lock"}
BY DEF IInv, WritersTyped, Excluded

\* A publication that has not found its gaps yet says nothing of the tables.
LEMMA QuietStep ==
  ASSUME TableInv, IInv', NEW p \in Publishers, NEW e \in PublisherState,
         publisher' = [publisher EXCEPT ![p] = e],
         publisher[p].at \in {"idle", "lock", "slot", "index"},
         e.at \in {"idle", "lock", "slot", "index"},
         e.at = "index" => published < Limit,
         UNCHANGED <<tables, published, refs>>
  PROVE  TableInv'
<1>1. publisher'[p] = e /\ \A q \in Publishers : q # p => publisher'[q] = publisher[q]
  BY DEF TableInv, IInv, WritersTyped
<1>2. \A q \in Publishers :
        publisher[q].at \in {"fields", "row", "key", "count"} \/ publisher'[q].at \in {"fields", "row", "key", "count"} =>
          publisher'[q] = publisher[q]
  BY <1>1
<1>3. UNCHANGED <<registry, sourceIndex>> /\ Used' = Used /\ InUse' = InUse
  BY DEF tables, Used, InUse
<1>4. Contents' /\ OneSlotPerSource' /\ ActiveIsIndexed' /\ Rows'
  BY <1>3 DEF TableInv, Contents, OneSlotPerSource, ActiveIsIndexed, Rows
<1>5. StoredFields' /\ StoredKey' /\ StoredRow'
  BY <1>2, <1>3 DEF TableInv, StoredFields, StoredKey, StoredRow, Storing
<1>6. Counterparts'
  BY <1>2, <1>3 DEF TableInv, Counterparts
<1>7. References'
  <2>1. \A s : Carried(s)' <=> Carried(s)
    BY <1>2 DEF Carried, Carrying
  <2> QED BY <1>3, <2>1 DEF TableInv, References
<1>8. Counts'
  <2>1. \A q \in Publishers : publisher'[q].at \in Storing <=> publisher[q].at \in Storing
    BY <1>2 DEF Storing
  <2>2. \A q \in Publishers : publisher'[q].at = "count" <=> publisher[q].at = "count"
    BY <1>2
  <2>3. \A q \in Publishers : publisher'[q].at \notin {"idle", "lock", "slot"} => published < Limit
    BY <1>1 DEF TableInv, Counts
  <2> QED BY <1>3, <2>1, <2>2, <2>3 DEF TableInv, Counts
<1> QED BY <1>4, <1>5, <1>6, <1>7, <1>8 DEF TableInv

\* A source that is indexed is not at a gap of the walk for it.
LEMMA GapMeansAbsent ==
  ASSUME IInv, NEW s \in Sources, NEW i, OpenSource(sourceIndex, s, i)
  PROVE  ~Indexed(sourceIndex, s)
<1> SUFFICES ASSUME NEW j \in Indices, sourceIndex[j].source = s PROVE FALSE
  BY DEF Indexed
<1>1. StopsSource(sourceIndex, s, j) /\ StopsSource(sourceIndex, s, i) /\ i \in Indices
  BY NamesAssumption DEF IInv, SourcesAreReachable, OpenSource
<1>2. i = j
  BY <1>1, SourceWalkEndsOnce
<1> QED BY <1>2, NamesAssumption DEF OpenSource

\* The index has a gap for the source, so nobody refers to it yet.
LEMMA ScanIndexTables ==
  ASSUME TableInv, IInv', NEW p \in Publishers, ScanIndex(p)
  PROVE  TableInv'
<1> DEFINE s == publisher[p].source
           fields == {"source", "active", "faceTextureIdentity"}
<1>1. publisher[p].at = "index" /\ IInv /\ UNCHANGED <<operational, tables, published, reader>>
  BY DEF TableInv, ScanIndex
<1>2. publisher[p] \in PublisherState /\ s \in Sources
  BY <1>1 DEF IInv, WritersTyped, Called
<1>3. CASE Leaves(p) /\ UNCHANGED refs
  <2>1. IdlePublisher \in PublisherState /\ IdlePublisher.at = "idle"
    BY DEF IdlePublisher, PublisherState
  <2>2. publisher' = [publisher EXCEPT ![p] = IdlePublisher] /\ UNCHANGED <<tables, published, refs>>
    BY <1>1, <1>3 DEF Leaves
  <2> QED BY <1>1, <2>1, <2>2, QuietStep
<1>4. ASSUME NEW i \in Indices, StopsSource(sourceIndex, s, i), sourceIndex[i].source = Null,
             publisher' = [publisher EXCEPT ![p].at = "fields", ![p].indexAt = i,
                             ![p].missing = fields],
             refs' = [refs EXCEPT ![s] = @ + 1]
      PROVE  TableInv'
  <2> DEFINE e == [publisher[p] EXCEPT !.at = "fields", !.indexAt = i, !.missing = fields]
  <2>1. /\ e \in PublisherState /\ e.at = "fields" /\ e.source = s /\ e.missing = fields
        /\ publisher' = [publisher EXCEPT ![p] = e]
    BY <1>2, <1>4 DEF PublisherState
  <2> HIDE DEF e
  <2>2. /\ publisher'[p] = e
        /\ \A q \in Publishers : q # p =>
             publisher'[q] = publisher[q] /\ publisher[q].at \in {"idle", "lock"}
    BY <1>1, <2>1, Alone
  <2>3. /\ UNCHANGED <<registry, sourceIndex, published>>
        /\ Used' = Used /\ InUse' = InUse
    BY <1>1 DEF tables, Used, InUse
  <2>4. Contents' /\ OneSlotPerSource' /\ ActiveIsIndexed' /\ Rows'
    BY <2>3 DEF TableInv, Contents, OneSlotPerSource, ActiveIsIndexed, Rows
  <2>5. StoredFields' /\ StoredKey' /\ StoredRow'
    BY <2>1, <2>2 DEF StoredFields, StoredKey, StoredRow, Storing
  <2>6. Counterparts'
    BY <1>1, <2>2, <2>3 DEF TableInv, Counterparts
  <2>7. References'
    <3>1. ~Indexed(sourceIndex, s)
      BY <1>1, <1>2, <1>4, GapMeansAbsent DEF OpenSource
    <3>2. \A t : ~Carried(t)
      BY <1>1, <2>2 DEF Carried, Carrying
    <3>3. \A t : Carried(t)' <=> t = s
      BY <2>1, <2>2 DEF Carried, Carrying
    <3>4. refs[s] = 0
      BY <1>2, <3>1, <3>2 DEF TableInv, References
    <3>5. \A t \in Sources : refs'[t] = IF t = s THEN 1 ELSE refs[t]
      BY <1>1, <1>2, <1>4, <3>4 DEF IInv, WritersTyped
    <3> QED BY <2>3, <3>1, <3>2, <3>3, <3>5 DEF TableInv, References
  <2>8. Counts'
    <3>1. \A q \in Publishers : /\ publisher'[q].at \notin Storing /\ publisher'[q].at # "count"
                                /\ publisher[q].at \notin Storing /\ publisher[q].at # "count"
      BY <1>1, <2>1, <2>2 DEF Storing
    <3>2. published < Limit
      BY <1>1 DEF TableInv, Counts
    <3> QED BY <2>3, <3>1, <3>2 DEF TableInv, Counts
  <2> QED BY <2>4, <2>5, <2>6, <2>7, <2>8 DEF TableInv
<1> QED BY <1>3, <1>4 DEF ScanIndex

\* A relaxed store changes one field of the slot of the publication, which has
\* no key yet: nothing that is reachable changes.
LEMMA StoreFieldTables ==
  ASSUME TableInv, IInv', NEW p \in Publishers, NEW f \in {"source", "active", "faceTextureIdentity"},
         StoreField(p, f)
  PROVE  /\ TableInv'
         /\ \A i \in Indices : registry[i].formID # Null => registry'[i] = registry[i]
<1> DEFINE e == [publisher[p] EXCEPT !.missing = @ \ {f}]
           n == publisher[p].slot
<1>1. /\ publisher[p].at = "fields" /\ IInv /\ f \in publisher[p].missing
      /\ UNCHANGED <<sourceIndex, mutex, published, refs>>
      /\ publisher' = [publisher EXCEPT ![p] = e]
      /\ registry' = Stored(p, f)
  BY DEF TableInv, StoreField, SetRegistry
<1>2. publisher[p] \in PublisherState /\ registry \in [Indices -> RegistrySlot]
  BY <1>1 DEF IInv, WritersTyped
<1>3. n \in Indices /\ registry[n].formID = Null
  BY <1>1 DEF IInv, SlotIsOpen, Open
<1>4. /\ e.at = "fields" /\ e.slot = n /\ e.source = publisher[p].source
      /\ e.base = publisher[p].base /\ e.missing = publisher[p].missing \ {f}
      /\ e.indexAt = publisher[p].indexAt
  BY <1>1, <1>2 DEF PublisherState
<1> HIDE DEF e
<1>5. /\ publisher'[p] = e
      /\ \A q \in Publishers : q # p =>
           publisher'[q] = publisher[q] /\ publisher[q].at \in {"idle", "lock"}
  BY <1>1, Alone
<1>6. /\ \A i \in Indices : i # n => registry'[i] = registry[i]
      /\ registry'[n].formID = Null
      /\ registry'[n].source = IF f = "source" THEN publisher[p].source ELSE registry[n].source
      /\ registry'[n].active = IF f = "active" THEN FALSE ELSE registry[n].active
      /\ registry'[n].faceTextureIdentity =
           IF f = "faceTextureIdentity" THEN IdentityOf[publisher[p].base]
           ELSE registry[n].faceTextureIdentity
  BY <1>1, <1>2, <1>3 DEF Stored, RegistrySlot
<1>7. Used' = Used /\ InUse' = InUse /\ n \notin Used /\ Used \subseteq Indices
  BY <1>1, <1>3, <1>6 DEF Used, InUse
<1>8. \A i \in Used : registry'[i] = registry[i]
  BY <1>6, <1>7
<1>9. Contents' /\ OneSlotPerSource'
  BY <1>7, <1>8 DEF TableInv, Contents, OneSlotPerSource
<1>10. StoredFields'
  <2>1. "source" \notin e.missing => registry'[n].source = e.source
    BY <1>1, <1>4, <1>6 DEF TableInv, StoredFields
  <2>2. "faceTextureIdentity" \notin e.missing =>
          registry'[n].faceTextureIdentity = IdentityOf[e.base]
    BY <1>1, <1>4, <1>6 DEF TableInv, StoredFields
  <2> QED BY <1>4, <1>5, <2>1, <2>2 DEF StoredFields
<1>11. StoredKey' /\ StoredRow'
  BY <1>4, <1>5 DEF StoredKey, StoredRow, Storing
<1>12. ActiveIsIndexed'
  <2>1. ~registry[n].active
    BY <1>3, <1>7 DEF TableInv, ActiveIsIndexed
  <2>2. ~registry'[n].active
    BY <1>6, <2>1
  <2> QED BY <1>1, <1>6, <1>7, <2>2 DEF TableInv, ActiveIsIndexed
<1>13. Rows'
  BY <1>1, <1>7, <1>8 DEF TableInv, Rows
<1>14. Counterparts'
  BY <1>1, <1>5, <1>7, <1>8 DEF TableInv, Counterparts
<1>15. References'
  <2>1. \A t : Carried(t)' <=> Carried(t)
    BY <1>1, <1>4, <1>5 DEF Carried, Carrying
  <2> QED BY <1>1, <2>1 DEF TableInv, References
<1>16. Counts'
  <2>1. \A q \in Publishers : publisher'[q].at = publisher[q].at
    BY <1>1, <1>4, <1>5
  <2> QED BY <1>1, <1>7, <2>1 DEF TableInv, Counts
<1>17. TableInv'
  BY <1>9, <1>10, <1>11, <1>12, <1>13, <1>14, <1>15, <1>16 DEF TableInv
<1> QED BY <1>7, <1>8, <1>17 DEF Used

\* The same of a FormID and the registry.
LEMMA GapMeansUnpublished ==
  ASSUME IInv, NEW b \in Bases, NEW i, Open(registry, b, i)
  PROVE  \A j \in Indices : registry[j].formID # b
<1> SUFFICES ASSUME NEW j \in Indices, registry[j].formID = b PROVE FALSE
  OBVIOUS
<1>1. Stops(registry, b, j) /\ Stops(registry, b, i) /\ i \in Indices
  BY NamesAssumption DEF IInv, KeysAreReachable, Open
<1>2. i = j
  BY <1>1, WalkEndsOnce
<1> QED BY <1>2, NamesAssumption DEF Open

\* What the release store of the FormID publishes: a slot that is complete,
\* inactive, and the only one of its FormID and of its source.
LEMMA PublishedSlot ==
  ASSUME TableInv, NEW p \in Publishers, StoreFormID(p)
  PROVE  LET b == publisher[p].base
             s == publisher[p].source
             n == publisher[p].slot
         IN  /\ b \in Bases /\ s \in Sources /\ n \in Indices
             /\ registry[n].formID = Null
             /\ registry'[n].formID = b /\ registry'[n].source = s /\ ~registry'[n].active
             /\ registry'[n].faceTextureIdentity = IdentityOf[b]
             /\ \A i \in Indices : i # n => registry'[i] = registry[i]
             /\ \A i \in Indices : registry[i].formID # b
             /\ \A i \in Used : registry[i].source # s
             /\ ~Indexed(sourceIndex, s)
<1> DEFINE b == publisher[p].base
           s == publisher[p].source
           n == publisher[p].slot
<1>1. /\ publisher[p].at = "fields" /\ publisher[p].missing = {} /\ IInv
      /\ registry' = [registry EXCEPT ![n].formID = b]
  BY DEF TableInv, StoreFormID, SetRegistry
<1>2. registry \in [Indices -> RegistrySlot] /\ b \in Bases /\ s \in Sources
  BY <1>1 DEF IInv, WritersTyped, Called
<1>3. Open(registry, b, n) /\ OpenSource(sourceIndex, s, publisher[p].indexAt)
  BY <1>1 DEF IInv, SlotIsOpen, IndexIsOpen
<1>4. n \in Indices /\ registry[n].formID = Null
  BY <1>3 DEF Open
<1>5. registry[n].source = s /\ registry[n].faceTextureIdentity = IdentityOf[b]
  BY <1>1 DEF TableInv, StoredFields
<1>6. ~registry[n].active
  BY <1>4 DEF TableInv, ActiveIsIndexed, Used
<1>7. /\ registry'[n].formID = b /\ registry'[n].source = registry[n].source
      /\ registry'[n].active = registry[n].active
      /\ registry'[n].faceTextureIdentity = registry[n].faceTextureIdentity
      /\ \A i \in Indices : i # n => registry'[i] = registry[i]
  BY <1>1, <1>2, <1>4 DEF RegistrySlot
<1>8. \A i \in Indices : registry[i].formID # b
  BY <1>1, <1>2, <1>3, GapMeansUnpublished
<1>9. ~Indexed(sourceIndex, s)
  BY <1>1, <1>2, <1>3, GapMeansAbsent
<1>10. \A q \in Publishers : publisher[q].at \notin {"row", "key"}
  BY <1>1 DEF IInv, Excluded
<1>11. \A i \in Used : registry[i].source # s
  BY <1>9, <1>10 DEF TableInv, Counterparts
<1> QED BY <1>2, <1>4, <1>5, <1>6, <1>7, <1>8, <1>9, <1>11

\* The release store of the FormID.
LEMMA StoreFormIDTables ==
  ASSUME TableInv, IInv', NEW p \in Publishers, StoreFormID(p)
  PROVE  /\ TableInv'
         /\ \A i \in Indices : registry[i].formID # Null => registry'[i] = registry[i]
<1> DEFINE e == [publisher[p] EXCEPT !.at = "row"]
           b == publisher[p].base
           s == publisher[p].source
           n == publisher[p].slot
<1>1. /\ publisher[p].at = "fields" /\ IInv
      /\ UNCHANGED <<sourceIndex, mutex, published, refs>>
      /\ publisher' = [publisher EXCEPT ![p] = e]
  BY DEF TableInv, StoreFormID, Moves
<1>2. publisher[p] \in PublisherState /\ registry \in [Indices -> RegistrySlot]
  BY <1>1 DEF IInv, WritersTyped
<1>3. e.at = "row" /\ e.slot = n /\ e.source = s /\ e.base = b
  BY <1>2 DEF PublisherState
<1> HIDE DEF e
<1>4. /\ publisher'[p] = e
      /\ \A q \in Publishers : q # p =>
           publisher'[q] = publisher[q] /\ publisher[q].at \in {"idle", "lock"}
  BY <1>1, Alone
<1>5. /\ b \in Bases /\ s \in Sources /\ n \in Indices /\ registry[n].formID = Null
      /\ registry'[n].formID = b /\ registry'[n].source = s /\ ~registry'[n].active
      /\ registry'[n].faceTextureIdentity = IdentityOf[b]
      /\ \A i \in Indices : i # n => registry'[i] = registry[i]
      /\ \A i \in Used : registry[i].source # s
      /\ ~Indexed(sourceIndex, s)
  BY PublishedSlot
<1> HIDE DEF b, s, n
<1>6. Used' = Used \cup {n} /\ n \notin Used /\ InUse' = InUse /\ Used \subseteq Indices
  BY <1>1, <1>5, NamesAssumption DEF Used, InUse
<1>7. \A i \in Used : registry'[i] = registry[i]
  BY <1>5, <1>6
<1>8. Contents'
  BY <1>5, <1>6, <1>7 DEF TableInv, Contents
<1>9. OneSlotPerSource'
  BY <1>5, <1>6, <1>7 DEF TableInv, OneSlotPerSource
<1>10. StoredFields' /\ StoredKey' /\ StoredRow'
  BY <1>3, <1>4, <1>5 DEF StoredFields, StoredKey, StoredRow, Storing
<1>11. ActiveIsIndexed'
  BY <1>1, <1>5, <1>6 DEF TableInv, ActiveIsIndexed
<1>12. Rows'
  BY <1>1, <1>6, <1>7 DEF TableInv, Rows
<1>13. Counterparts'
  <2>1. publisher'[p].at \in {"row", "key"} /\ publisher'[p].slot = n
    BY <1>3, <1>4
  <2>2. \A q \in Publishers : publisher[q].at \notin {"row", "key"}
    BY <1>1, <1>4
  <2>3. \A i \in Used : Indexed(sourceIndex, registry[i].source)
    BY <2>2 DEF TableInv, Counterparts
  <2> QED BY <1>1, <1>6, <1>7, <2>1, <2>3 DEF Counterparts
<1>14. References'
  <2>1. \A t : Carried(t)' <=> Carried(t)
    BY <1>1, <1>3, <1>4 DEF Carried, Carrying, s
  <2> QED BY <1>1, <2>1 DEF TableInv, References
<1>15. Counts'
  <2>1. \A q \in Publishers : publisher[q].at \notin Storing /\ publisher'[q].at # "count"
                              /\ publisher[q].at # "count"
    BY <1>1, <1>3, <1>4 DEF Storing
  <2>2. publisher'[p].at \in Storing
    BY <1>3, <1>4 DEF Storing
  <2>3. Cardinality(Used') = Cardinality(Used) + 1
    BY <1>6, FiniteTables, FS_AddElement
  <2>4. published < Limit
    BY <1>1 DEF TableInv, Counts
  <2> QED BY <1>1, <1>6, <2>1, <2>2, <2>3, <2>4 DEF TableInv, Counts
<1>16. TableInv'
  BY <1>8, <1>9, <1>10, <1>11, <1>12, <1>13, <1>14, <1>15 DEF TableInv
<1> QED BY <1>7, <1>16 DEF Used

\* The row number goes into an entry that has no key yet.
LEMMA StoreRegistrySlotTables ==
  ASSUME TableInv, IInv', NEW p \in Publishers, StoreRegistrySlot(p)
  PROVE  /\ TableInv'
         /\ \A j \in Indices : sourceIndex[j].source # Null => sourceIndex'[j] = sourceIndex[j]
<1> DEFINE e == [publisher[p] EXCEPT !.at = "key"]
           m == publisher[p].indexAt
<1>1. /\ publisher[p].at = "row" /\ IInv
      /\ UNCHANGED <<registry, mutex, published, refs>>
      /\ publisher' = [publisher EXCEPT ![p] = e]
      /\ sourceIndex' = [sourceIndex EXCEPT ![m].registrySlot = publisher[p].slot]
  BY DEF TableInv, StoreRegistrySlot, Moves
<1>2. publisher[p] \in PublisherState /\ sourceIndex \in [Indices -> SourceIndexSlot]
  BY <1>1 DEF IInv, WritersTyped
<1>3. /\ e.at = "key" /\ e.slot = publisher[p].slot /\ e.source = publisher[p].source
      /\ e.base = publisher[p].base /\ e.indexAt = m
  BY <1>2 DEF PublisherState
<1> HIDE DEF e
<1>4. /\ publisher'[p] = e
      /\ \A q \in Publishers : q # p =>
           publisher'[q] = publisher[q] /\ publisher[q].at \in {"idle", "lock"}
  BY <1>1, Alone
<1>5. m \in Indices /\ sourceIndex[m].source = Null
  BY <1>1 DEF IInv, IndexIsOpen, OpenSource
<1>6. /\ \A j \in Indices : j # m => sourceIndex'[j] = sourceIndex[j]
      /\ \A j \in Indices : sourceIndex'[j].source = sourceIndex[j].source
      /\ sourceIndex'[m].registrySlot = publisher[p].slot
  BY <1>1, <1>2, <1>5 DEF SourceIndexSlot
<1> HIDE DEF m
<1>7. Used' = Used /\ InUse' = InUse /\ m \notin InUse /\ InUse \subseteq Indices
  BY <1>1, <1>5, <1>6 DEF Used, InUse
<1>8. \A t : Indexed(sourceIndex', t) <=> Indexed(sourceIndex, t)
  BY <1>6 DEF Indexed
<1>9. Contents' /\ OneSlotPerSource'
  BY <1>1, <1>7 DEF TableInv, Contents, OneSlotPerSource
<1>10. StoredFields' /\ StoredRow'
  BY <1>3, <1>4, <1>6 DEF StoredFields, StoredRow
<1>11. StoredKey'
  BY <1>1, <1>3, <1>4 DEF TableInv, StoredKey, Storing
<1>12. ActiveIsIndexed'
  BY <1>1, <1>7, <1>8 DEF TableInv, ActiveIsIndexed
<1>13. Rows'
  BY <1>1, <1>6, <1>7 DEF TableInv, Rows
<1>14. Counterparts'
  <2>1. \A i : (\E q \in Publishers : publisher[q].at \in {"row", "key"} /\ publisher[q].slot = i) =>
                (\E q \in Publishers : publisher'[q].at \in {"row", "key"} /\ publisher'[q].slot = i)
    BY <1>3, <1>4
  <2> QED BY <1>1, <1>7, <1>8, <2>1 DEF TableInv, Counterparts
<1>15. References'
  <2>1. \A t : Carried(t)' <=> Carried(t)
    BY <1>1, <1>3, <1>4 DEF Carried, Carrying
  <2> QED BY <1>1, <1>8, <2>1 DEF TableInv, References
<1>16. Counts'
  <2>1. \A q \in Publishers : /\ publisher'[q].at \in Storing <=> publisher[q].at \in Storing
                              /\ publisher[q].at # "count" /\ publisher'[q].at # "count"
    BY <1>1, <1>3, <1>4 DEF Storing
  <2>2. published < Limit
    BY <1>1 DEF TableInv, Counts
  <2> QED BY <1>1, <1>7, <2>1, <2>2 DEF TableInv, Counts
<1>17. TableInv'
  BY <1>9, <1>10, <1>11, <1>12, <1>13, <1>14, <1>15, <1>16 DEF TableInv
<1> QED BY <1>6, <1>7, <1>17 DEF InUse

\* The key of the index: the source was carried and is indexed.
LEMMA StoreSourceTables ==
  ASSUME TableInv, IInv', NEW p \in Publishers, StoreSource(p)
  PROVE  /\ TableInv'
         /\ \A j \in Indices : sourceIndex[j].source # Null => sourceIndex'[j] = sourceIndex[j]
<1> DEFINE e == [publisher[p] EXCEPT !.at = "count"]
           s == publisher[p].source
           m == publisher[p].indexAt
           n == publisher[p].slot
<1>1. /\ publisher[p].at = "key" /\ IInv
      /\ UNCHANGED <<registry, mutex, published, refs>>
      /\ publisher' = [publisher EXCEPT ![p] = e]
      /\ sourceIndex' = [sourceIndex EXCEPT ![m].source = s]
  BY DEF TableInv, StoreSource, Moves
<1>2. /\ publisher[p] \in PublisherState /\ sourceIndex \in [Indices -> SourceIndexSlot]
      /\ s \in Sources /\ publisher[p].base \in Bases
  BY <1>1 DEF IInv, WritersTyped, Called
<1>3. e.at = "count" /\ e.slot = n /\ e.source = s /\ e.base = publisher[p].base
  BY <1>2 DEF PublisherState
<1> HIDE DEF e
<1>4. /\ publisher'[p] = e
      /\ \A q \in Publishers : q # p =>
           publisher'[q] = publisher[q] /\ publisher[q].at \in {"idle", "lock"}
  BY <1>1, Alone
<1>5. m \in Indices /\ sourceIndex[m].source = Null
  BY <1>1 DEF IInv, IndexIsOpen, OpenSource
<1>6. /\ \A j \in Indices : j # m => sourceIndex'[j] = sourceIndex[j]
      /\ sourceIndex'[m].source = s
      /\ sourceIndex'[m].registrySlot = sourceIndex[m].registrySlot
  BY <1>1, <1>2, <1>5 DEF SourceIndexSlot
<1>7. /\ n \in Indices /\ registry[n].formID = publisher[p].base /\ registry[n].source = s
      /\ sourceIndex[m].registrySlot = n
  BY <1>1 DEF TableInv, StoredKey, StoredRow, Storing
<1> HIDE DEF m, n, s
<1>8. /\ Used' = Used /\ InUse' = InUse \cup {m} /\ m \notin InUse /\ InUse \subseteq Indices
      /\ n \in Used
  BY <1>1, <1>2, <1>5, <1>6, <1>7, NamesAssumption DEF Used, InUse
<1>9. \A t \in Sources : Indexed(sourceIndex', t) <=> t = s \/ Indexed(sourceIndex, t)
  BY <1>5, <1>6, NamesAssumption DEF Indexed
<1>10. Contents' /\ OneSlotPerSource'
  BY <1>1, <1>8 DEF TableInv, Contents, OneSlotPerSource
<1>11. StoredFields' /\ StoredRow'
  BY <1>3, <1>4 DEF StoredFields, StoredRow
<1>12. StoredKey'
  BY <1>1, <1>3, <1>4, <1>7 DEF StoredKey, Storing
<1>13. ActiveIsIndexed' /\ Counterparts'
  <2>1. \A i \in Used : registry[i].source \in Sources
    BY DEF TableInv, Contents
  <2>2. ActiveIsIndexed'
    BY <1>1, <1>8, <1>9, <2>1 DEF TableInv, ActiveIsIndexed
  <2>3. \A q \in Publishers : publisher[q].at \in {"row", "key"} => publisher[q].slot = n
    BY <1>1, <1>4 DEF n
  <2>4. Counterparts'
    BY <1>1, <1>7, <1>8, <1>9, <2>1, <2>3 DEF TableInv, Counterparts
  <2> QED BY <2>2, <2>4
<1>14. Rows'
  BY <1>1, <1>6, <1>7, <1>8 DEF TableInv, Rows
<1>15. References'
  <2>1. \A t : ~Carried(t)'
    BY <1>1, <1>3, <1>4 DEF Carried, Carrying
  <2>2. \A t : Carried(t) <=> t = s
    BY <1>1, <1>4 DEF Carried, Carrying, s
  <2> QED BY <1>1, <1>9, <2>1, <2>2 DEF TableInv, References
<1>16. Counts'
  <2>1. \A q \in Publishers : publisher[q].at # "count"
    BY <1>1, <1>4
  <2>2. publisher'[p].at = "count" /\ publisher'[p].at \in Storing /\ publisher[p].at \in Storing
    BY <1>1, <1>3, <1>4 DEF Storing
  <2>3. Cardinality(InUse') = Cardinality(InUse) + 1
    BY <1>8, FiniteTables, FS_AddElement
  <2>4. published < Limit
    BY <1>1 DEF TableInv, Counts
  <2> QED BY <1>1, <1>8, <2>1, <2>2, <2>3, <2>4 DEF TableInv, Counts
<1>17. TableInv'
  BY <1>10, <1>11, <1>12, <1>13, <1>14, <1>15, <1>16 DEF TableInv
<1> QED BY <1>6, <1>8, <1>17 DEF InUse

\* The count catches up with the tables.
LEMMA ReturnTables ==
  ASSUME TableInv, IInv', NEW p \in Publishers, ReturnPublished(p)
  PROVE  TableInv'
<1>1. /\ publisher[p].at = "count" /\ IInv
      /\ UNCHANGED <<registry, sourceIndex, refs>> /\ published' = published + 1
      /\ publisher' = [publisher EXCEPT ![p] = IdlePublisher]
  BY DEF TableInv, ReturnPublished, Leaves, tables
<1>2. IdlePublisher.at = "idle"
  BY DEF IdlePublisher
<1>3. /\ publisher'[p].at = "idle"
      /\ \A q \in Publishers : q # p =>
           publisher'[q] = publisher[q] /\ publisher[q].at \in {"idle", "lock"}
  BY <1>1, <1>2, Alone
<1>4. Used' = Used /\ InUse' = InUse
  BY <1>1 DEF Used, InUse
<1>5. Contents' /\ OneSlotPerSource' /\ ActiveIsIndexed' /\ Rows'
  BY <1>1, <1>4 DEF TableInv, Contents, OneSlotPerSource, ActiveIsIndexed, Rows
<1>6. StoredFields' /\ StoredKey' /\ StoredRow'
  BY <1>3 DEF StoredFields, StoredKey, StoredRow, Storing
<1>7. Counterparts'
  BY <1>1, <1>3, <1>4 DEF TableInv, Counterparts
<1>8. References'
  <2>1. \A t : ~Carried(t) /\ ~Carried(t)'
    BY <1>1, <1>3 DEF Carried, Carrying
  <2> QED BY <1>1, <2>1 DEF TableInv, References
<1>9. Counts'
  <2>1. publisher[p].at \in Storing /\ publisher[p].at = "count"
    BY <1>1 DEF Storing
  <2>2. \A q \in Publishers : publisher'[q].at \in {"idle", "lock"}
    BY <1>3
  <2>3. \A q \in Publishers : publisher'[q].at \notin Storing /\ publisher'[q].at # "count"
    BY <2>2 DEF Storing
  <2>4. published < Limit /\ published \in Nat
    BY <1>1 DEF TableInv, Counts, IInv, WritersTyped
  <2>5. published' <= Limit
    BY <1>1, <2>4, CapacityAssumption
  <2>6. Cardinality(Used') = published' /\ Cardinality(InUse') = published'
    BY <1>1, <1>4, <2>1 DEF TableInv, Counts
  <2> QED BY <2>2, <2>3, <2>5, <2>6 DEF Counts
<1> QED BY <1>5, <1>6, <1>7, <1>8, <1>9 DEF TableInv

\* Activation and deactivation change the active word of a slot with a key.
LEMMA ActiveTables ==
  ASSUME TableInv, IInv', NEW i \in Indices, NEW a \in BOOLEAN,
         registry[i].formID # Null, a => Indexed(sourceIndex, registry[i].source),
         registry' = [registry EXCEPT ![i].active = a],
         UNCHANGED <<sourceIndex, mutex, published, refs, publisher>>
  PROVE  TableInv'
<1>1. registry \in [Indices -> RegistrySlot] /\ IInv
  BY DEF TableInv, IInv, WritersTyped
<1>2. /\ \A j \in Indices : /\ registry'[j].formID = registry[j].formID
                            /\ registry'[j].source = registry[j].source
                            /\ registry'[j].faceTextureIdentity = registry[j].faceTextureIdentity
      /\ \A j \in Indices : j # i => registry'[j] = registry[j]
      /\ registry'[i].active = a
  BY <1>1 DEF RegistrySlot
<1>3. Used' = Used /\ InUse' = InUse /\ i \in Used /\ Used \subseteq Indices
  BY <1>2 DEF Used, InUse
<1>4. Contents' /\ OneSlotPerSource' /\ Rows' /\ Counterparts'
  BY <1>2, <1>3 DEF TableInv, Contents, OneSlotPerSource, Rows, Counterparts
<1>5. ActiveIsIndexed'
  BY <1>2, <1>3 DEF TableInv, ActiveIsIndexed
<1>6. StoredFields' /\ StoredKey' /\ StoredRow'
  <2>1. \A p \in Publishers : publisher[p].at = "fields" => publisher[p].slot \in Indices
    BY <1>1 DEF IInv, SlotIsOpen, Open
  <2> QED BY <1>2, <2>1 DEF TableInv, StoredFields, StoredKey, StoredRow
<1>7. References' /\ Counts'
  BY <1>3 DEF TableInv, References, Counts, Carried
<1> QED BY <1>4, <1>5, <1>6, <1>7 DEF TableInv

\* A publication that has returned has been indexed.
LEMMA ReturnedIsIndexed ==
  ASSUME TableInv, NEW b \in Bases, NEW i \in Indices, Returned(b), registry[i].formID = b
  PROVE  Indexed(sourceIndex, registry[i].source)
<1>1. i \in Used
  BY NamesAssumption DEF Used
<1>2. ASSUME NEW p \in Publishers, publisher[p].at \in {"row", "key"}, publisher[p].slot = i
      PROVE  FALSE
  <2>1. publisher[p].base = b
    BY <1>2 DEF TableInv, StoredKey, Storing
  <2> QED BY <1>2, <2>1 DEF Returned
<1> QED BY <1>1, <1>2 DEF TableInv, Counterparts

\* The slot of a FormID that a step makes active has been indexed.
LEMMA ActivateTables ==
  ASSUME TableInv, IInv', NEW b \in Bases,
         ActivateRenderSource(b) \/ DeactivateRenderSource(b)
  PROVE  TableInv'
<1>1. ASSUME NEW i \in Indices, FindSlot(b, i), Returned(b),
             registry' = [registry EXCEPT ![i].active = TRUE],
             UNCHANGED <<sourceIndex, mutex, published, refs, publisher>>
      PROVE  TableInv'
  <2>1. registry[i].formID = b /\ registry[i].formID # Null
    BY <1>1, NamesAssumption DEF FindSlot
  <2>2. Indexed(sourceIndex, registry[i].source)
    BY <1>1, <2>1, ReturnedIsIndexed
  <2> QED BY <1>1, <2>1, <2>2, ActiveTables
<1>2. ASSUME NEW i \in Indices, FindSlot(b, i),
             registry' = [registry EXCEPT ![i].active = FALSE],
             UNCHANGED <<sourceIndex, mutex, published, refs, publisher>>
      PROVE  TableInv'
  <2>1. registry[i].formID # Null
    BY <1>2, NamesAssumption DEF FindSlot
  <2> QED BY <1>2, <2>1, ActiveTables
<1> QED BY <1>1, <1>2 DEF ActivateRenderSource, DeactivateRenderSource, SetRegistry

\* Lookups and the kill leave the tables to the publications.
LEMMA OthersTables ==
  ASSUME TableInv, UNCHANGED <<tables, mutex, published, refs, publisher>>
  PROVE  TableInv'
<1>1. IInv'
  BY ReaderStep DEF TableInv
<1>2. UNCHANGED <<registry, sourceIndex>> /\ Used' = Used /\ InUse' = InUse
  BY DEF tables, Used, InUse
<1> QED BY <1>1, <1>2 DEF TableInv, Contents, OneSlotPerSource, StoredFields, StoredKey, StoredRow,
           ActiveIsIndexed, Rows, Counterparts, References, Carried, Counts

\* Before the index has its gap, a publication moves without a store.
LEMMA EarlyTables ==
  ASSUME TableInv, IInv', NEW p \in Publishers,
         \/ \E b \in Bases, s \in Sources : CallPublish(p, b, s)
         \/ LockPublish(p) \/ ScanRegistry(p)
  PROVE  TableInv' /\ UNCHANGED tables
<1>1. publisher[p] \in PublisherState
  BY DEF TableInv, IInv, WritersTyped
<1>2. ASSUME NEW b \in Bases, NEW s \in Sources, CallPublish(p, b, s)
      PROVE  TableInv'
  <2> DEFINE e == [IdlePublisher EXCEPT !.at = "lock", !.base = b, !.source = s]
  <2>1. e \in PublisherState /\ e.at = "lock"
    BY DEF IdlePublisher, PublisherState
  <2>2. /\ publisher' = [publisher EXCEPT ![p] = e] /\ publisher[p].at = "idle"
        /\ UNCHANGED <<tables, published, refs>>
    BY <1>2 DEF CallPublish
  <2> HIDE DEF e
  <2> QED BY <2>1, <2>2, QuietStep
<1>3. CASE LockPublish(p)
  <2> DEFINE e == [publisher[p] EXCEPT !.at = "slot"]
  <2>1. e \in PublisherState /\ e.at = "slot"
    BY <1>1 DEF PublisherState
  <2>2. /\ publisher' = [publisher EXCEPT ![p] = e] /\ publisher[p].at = "lock"
        /\ UNCHANGED <<tables, published, refs>>
    BY <1>3 DEF LockPublish, Moves
  <2> HIDE DEF e
  <2> QED BY <2>1, <2>2, QuietStep
<1>4. ASSUME NEW i \in Indices, publisher[p].at = "slot", published < Limit,
             publisher' = [publisher EXCEPT ![p].at = "index", ![p].slot = i],
             UNCHANGED <<tables, published, refs>>
      PROVE  TableInv'
  <2> DEFINE e == [publisher[p] EXCEPT !.at = "index", !.slot = i]
  <2>1. e \in PublisherState /\ e.at = "index" /\ publisher' = [publisher EXCEPT ![p] = e]
    BY <1>1, <1>4 DEF PublisherState
  <2> HIDE DEF e
  <2> QED BY <1>4, <2>1, QuietStep
<1>5. CASE publisher[p].at = "slot" /\ Leaves(p) /\ UNCHANGED <<tables, published, refs>>
  <2>1. IdlePublisher \in PublisherState /\ IdlePublisher.at = "idle"
    BY DEF IdlePublisher, PublisherState
  <2>2. publisher' = [publisher EXCEPT ![p] = IdlePublisher]
    BY <1>5 DEF Leaves
  <2> QED BY <1>5, <2>1, <2>2, QuietStep
<1>6. CASE ScanRegistry(p)
  BY <1>4, <1>5, <1>6 DEF ScanRegistry
<1>7. UNCHANGED tables
  BY DEF CallPublish, LockPublish, ScanRegistry
<1> QED BY <1>2, <1>3, <1>6, <1>7

\* Empty tables say nothing.
LEMMA TablesInitially == Init => TableInv
<1> SUFFICES ASSUME Init PROVE TableInv
  OBVIOUS
<1>1. \A i \in Indices : /\ registry[i].formID = Null /\ sourceIndex[i].source = Null
                         /\ ~registry[i].active
  BY DEF Init, EmptySlot, EmptyIndexSlot
<1>2. Used = {} /\ InUse = {}
  BY <1>1 DEF Used, InUse
<1>3. \A p \in Publishers : publisher[p].at = "idle"
  BY DEF Init, IdlePublisher
<1>4. IInv
  BY Initially
<1>5. /\ Contents /\ OneSlotPerSource /\ StoredFields /\ StoredKey /\ StoredRow
      /\ ActiveIsIndexed /\ Rows /\ Counterparts
  BY <1>1, <1>2, <1>3 DEF Contents, OneSlotPerSource, StoredFields, StoredKey, StoredRow, Storing,
                          ActiveIsIndexed, Rows, Counterparts
<1>6. References
  <2>1. \A s \in Sources : refs[s] = 0 /\ ~Indexed(sourceIndex, s) /\ ~Carried(s)
    BY <1>1, <1>3, NamesAssumption DEF Init, Indexed, Carried, Carrying
  <2> QED BY <2>1 DEF References
<1>7. Counts
  <2>1. published = 0 /\ Cardinality(Used) = 0 /\ Cardinality(InUse) = 0 /\ 0 <= Limit
    BY <1>2, FS_EmptySet, CapacityAssumption DEF Init
  <2>2. \A p \in Publishers : publisher[p].at \notin Storing /\ publisher[p].at # "count"
    BY <1>3 DEF Storing
  <2> QED BY <1>3, <2>1, <2>2 DEF Counts
<1> QED BY <1>4, <1>5, <1>6, <1>7 DEF TableInv

\* One case per action.
LEMMA TableStep == TableInv /\ [Next]_vars => TableInv'
<1> SUFFICES ASSUME TableInv, [Next]_vars PROVE TableInv'
  OBVIOUS
<1>1. IInv'
  BY Step DEF TableInv
<1>2. ASSUME NEW p \in Publishers, PublishRenderSource(p) PROVE TableInv'
  BY <1>1, <1>2, EarlyTables, ScanIndexTables, StoreFieldTables, StoreFormIDTables,
     StoreRegistrySlotTables, StoreSourceTables, ReturnTables DEF PublishRenderSource
<1>3. ASSUME NEW b \in Bases, ActivateRenderSource(b) \/ DeactivateRenderSource(b)
      PROVE  TableInv'
  BY <1>1, <1>3, ActivateTables
<1>4. CASE KillRuntime
  BY <1>4, OthersTables DEF KillRuntime
<1>5. ASSUME NEW r \in Readers, ResolveRenderSource(r) \/ ReverseLookup(r) \/ Forget(r)
      PROVE  TableInv'
  <2>1. OnlyReaders
    BY <1>5 DEF ResolveRenderSource, ReverseLookup, Forget, BeginLookup, Bypass, LoadKey,
                LoadKeyAgain, LoadActive, LoadSource, BeginReverse, BypassReverse,
                LoadSourceKey, LoadRegistrySlot
  <2> QED BY <2>1, OthersTables DEF OnlyReaders
<1>6. CASE UNCHANGED vars
  BY <1>6, OthersTables DEF vars, tables
<1> QED BY <1>2, <1>3, <1>4, <1>5, <1>6 DEF Next

\* So it is an invariant.
LEMMA TablesInvariant == Spec => []TableInv
BY TablesInitially, TableStep, PTL DEF Spec

-----------------------------------------------------------------------------
(* The theorems about the tables.                                          *)

\* A source is referenced by the registry exactly once, from before the slot
\* that a lookup could find it in has its FormID: the store of the key comes
\* after IncRefCount, and a source that is indexed is never carried again.
THEOREM PublishedStaysReferenced == Spec => []PublishedIsReferenced
<1>1. TableInv => PublishedIsReferenced
  <2> SUFFICES ASSUME TableInv, NEW s \in Sources
               PROVE  LET slots == {i \in Indices : registry[i].formID # Null /\ registry[i].source = s}
                      IN  Cardinality(slots) <= refs[s] /\ refs[s] <= 1
    BY DEF PublishedIsReferenced
  <2> DEFINE slots == {i \in Indices : registry[i].formID # Null /\ registry[i].source = s}
  <2>1. refs[s] \in {0, 1}
    BY DEF TableInv, References
  <2>2. slots = {} => Cardinality(slots) <= refs[s] /\ refs[s] <= 1
    BY <2>1, FS_EmptySet
  <2>3. ASSUME NEW i \in slots PROVE Cardinality(slots) = 1 /\ refs[s] = 1
    <3>1. i \in Used /\ registry[i].source = s
      BY <2>3 DEF Used
    <3>2. \A j \in slots : j = i
      BY <3>1 DEF TableInv, OneSlotPerSource, Used
    <3>3. slots = {i}
      BY <2>3, <3>2
    <3>4. Indexed(sourceIndex, s) \/ Carried(s)
      BY <3>1 DEF TableInv, Counterparts, StoredKey, Storing, Carried, Carrying
    <3> HIDE DEF slots
    <3> QED BY <3>3, <3>4, FS_Singleton DEF TableInv, References
  <2> HIDE DEF slots
  <2>4. slots = {} \/ \E i \in slots : TRUE
    OBVIOUS
  <2>5. (\E i \in slots : TRUE) => Cardinality(slots) = 1 /\ refs[s] = 1
    BY <2>3
  <2>6. Cardinality(slots) <= refs[s] /\ refs[s] <= 1
    BY <2>2, <2>4, <2>5
  <2> QED BY <2>6 DEF slots
<1> QED BY <1>1, TablesInvariant, PTL

\* Neither table ever has more than Limit keys, although the count is raised
\* only when a publication returns: both tables keep a gap, where the walk for
\* a key that is not there ends.
THEOREM LimitKeepsGap == Spec => []LimitLeavesGap
<1>1. TableInv => LimitLeavesGap
  <2> SUFFICES ASSUME TableInv PROVE LimitLeavesGap
    OBVIOUS
  <2>1. published \in Nat /\ Limit \in Nat
    BY CapacityAssumption DEF TableInv, IInv, WritersTyped
  <2>2. \A p \in Publishers : publisher[p].at \in Storing \/ publisher[p].at = "count" =>
          published < Limit
    BY DEF TableInv, Counts, Storing
  <2>3. Cardinality(Used) <= Limit /\ Cardinality(InUse) <= Limit
    BY <2>1, <2>2 DEF TableInv, Counts
  <2> QED BY <2>3 DEF LimitLeavesGap, Used, InUse
<1> QED BY <1>1, TablesInvariant, PTL

-----------------------------------------------------------------------------
(* Lookups.                                                                *)

\* A table whose keys stay, with their sources, and an index whose keys stay.
Grown(table, other) == \A i \in Indices : table[i].formID # Null =>
  other[i].formID = table[i].formID /\ other[i].source = table[i].source
GrownIndex(index, other) == \A j \in Indices : index[j].source # Null =>
  other[j].source = index[j].source

\* What a lookup that takes no time answers: the FormID, where it has no slot,
\* and what its slot says, where it has one.
LEMMA VisibleAbsent ==
  ASSUME NEW table, NEW b, \A i \in Indices : table[i].formID # b
  PROVE  Visible(table, b) = b
<1>1. {i \in Indices : table[i].formID = b /\ table[i].active} = {}
  OBVIOUS
<1> QED BY <1>1 DEF Visible

\* The same of a FormID with a slot.
LEMMA VisibleAt ==
  ASSUME NEW table, NEW b, NEW i \in Indices, table[i].formID = b,
         \A j \in Indices : table[j].formID = b => j = i
  PROVE  Visible(table, b) = IF table[i].active THEN table[i].source ELSE b
<1> DEFINE found == {j \in Indices : table[j].formID = b /\ table[j].active}
<1>1. CASE table[i].active
  <2>1. found = {i}
    BY <1>1
  <2>2. (CHOOSE j \in found : TRUE) = i
    BY <2>1
  <2> QED BY <1>1, <2>1, <2>2 DEF Visible
<1>2. CASE ~table[i].active
  <2>1. found = {}
    BY <1>2
  <2> QED BY <1>2, <2>1 DEF Visible
<1> QED BY <1>1, <1>2

\* A FormID has one slot, and the slot has a source.
Filled(table) ==
  /\ \A i, j \in Indices : table[i].formID # Null /\ table[i].formID = table[j].formID => i = j
  /\ \A i \in Indices : table[i].formID # Null => table[i].source \in Sources

\* The registry is like that in every state.
LEMMA RegistryFilled == TableInv => Filled(registry)
<1> SUFFICES ASSUME TableInv PROVE Filled(registry)
  OBVIOUS
<1>1. OneSlotPerFormID
  BY OneSlot DEF TableInv
<1> QED BY <1>1 DEF OneSlotPerFormID, TableInv, Contents, Used, Filled

\* A lookup answers with a source or with the FormID it was asked for.
LEMMA VisibleTyped ==
  ASSUME NEW table, Filled(table), NEW b \in Bases
  PROVE  Visible(table, b) \in Bases \cup Sources
<1>1. CASE \A i \in Indices : table[i].formID # b
  BY <1>1, VisibleAbsent
<1>2. ASSUME NEW i \in Indices, table[i].formID = b
      PROVE  Visible(table, b) \in Bases \cup Sources
  <2>1. \A j \in Indices : table[j].formID = b => j = i
    BY <1>2, NamesAssumption DEF Filled
  <2>2. table[i].source \in Sources
    BY <1>2, NamesAssumption DEF Filled
  <2> QED BY <1>2, <2>1, <2>2, VisibleAt
<1> QED BY <1>1, <1>2

\* The slots before a probe, and before the next one.
LEMMA NextPassed ==
  ASSUME NEW start, NEW probe \in Nat
  PROVE  /\ Before(start, 0) = {}
         /\ Before(start, probe + 1) \subseteq Before(start, probe) \cup {SlotAt(start, probe)}
<1>1. 0 .. 0 - 1 = {} /\ \A q \in 0 .. probe + 1 - 1 : q = probe \/ q \in 0 .. probe - 1
  OBVIOUS
<1> QED BY <1>1 DEF Before

\* What a lookup may rely on survives every growth of the tables.
LEMMA LookupSurvives ==
  ASSUME NEW table, NEW other, NEW index, NEW newIndex, Grown(table, other), GrownIndex(index, newIndex),
         NEW x \in ReaderState, NEW y \in ReaderState, LookupOK(table, index, x),
         y.at = x.at, y.base = x.base, y.source = x.source, y.probe = x.probe, y.live = x.live,
         y.out = x.out, y.asks = x.asks, x.seen \subseteq y.seen,
         x.at \in Walking /\ x.live => Visible(other, x.base) \in y.seen
  PROVE  LookupOK(other, newIndex, y)
<1>1. x.probe \in Indices /\ (x.at # "idle" => x.base \in Bases)
  BY DEF ReaderState, LookupOK
<1>2. x.at # "idle" =>
        /\ SlotAt(StartIndex[x.base], x.probe) \in Indices
        /\ Before(StartIndex[x.base], x.probe) \subseteq Indices
  BY <1>1, SlotInTable, HashAssumption
<1>3. x.source \in Sources =>
        /\ SlotAt(SourceStartIndex[x.source], x.probe) \in Indices
        /\ Before(SourceStartIndex[x.source], x.probe) \subseteq Indices
  BY <1>1, SlotInTable, HashAssumption
<1>4. \A s \in Sources : Indexed(index, s) => Indexed(newIndex, s)
  BY NamesAssumption DEF Indexed, GrownIndex
<1>5. \A b \in Bases, s \in Sources : Bound(table, index, b, s) => Bound(other, newIndex, b, s)
  BY <1>4, NamesAssumption DEF Bound, Grown
<1>6. x.at # "idle" /\ Passed(table, x) => Passed(other, y)
  BY <1>2 DEF Passed, Grown
<1>7. x.at # "idle" /\ KeySlot(table, x).formID # Null =>
        KeySlot(other, y).formID = KeySlot(table, x).formID /\ KeySlot(other, y).source = KeySlot(table, x).source
  BY <1>2 DEF KeySlot, Grown
<1>8. x.source \in Sources /\ PassedSources(index, x) => PassedSources(newIndex, y)
  BY <1>3 DEF PassedSources, GrownIndex
<1>9. x.source \in Sources /\ IndexSlot(index, x).source = x.source => IndexSlot(newIndex, y).source = y.source
  BY <1>3, NamesAssumption DEF IndexSlot, GrownIndex
<1>10. WalkOK(other, newIndex, y)
  <2>1. x.at \in Walking => x.at # "idle"
    BY DEF Walking
  <2>2. WalkOK(table, index, x)
    BY DEF LookupOK
  <2>3. /\ x.at \in Walking /\ ~x.live => x.base \in y.seen
        /\ x.at \in {"gap", "active", "source"} => x.live
    BY <2>2 DEF WalkOK
  <2>4. x.at = "probe" /\ x.live => x.base \in y.seen \/ Passed(other, y)
    BY <1>6, <2>2 DEF WalkOK
  <2>5. x.at = "gap" =>
          \/ x.base \in y.seen
          \/ Passed(other, y) /\ KeySlot(other, y).formID \notin {x.base, Null}
    BY <1>6, <1>7, <2>2 DEF WalkOK
  <2>6. x.at \in {"active", "source"} => KeySlot(table, x).formID = x.base /\ x.base # Null
    BY <1>1, <2>2, NamesAssumption DEF WalkOK
  <2>7. x.at \in {"active", "source"} => KeySlot(other, y).formID = x.base
    BY <1>7, <2>6
  <2>8. x.at = "source" =>
          /\ KeySlot(other, y).source \in y.seen \cap Sources
          /\ Indexed(newIndex, KeySlot(other, y).source)
    <3>1. x.at = "source" => KeySlot(other, y).source = KeySlot(table, x).source
      BY <1>7, <2>6
    <3> QED BY <1>4, <2>2, <3>1 DEF WalkOK
  <2> QED BY <2>3, <2>4, <2>5, <2>7, <2>8 DEF WalkOK
<1>11. ReverseOK(other, newIndex, y)
  <2>1. ReverseOK(table, index, x)
    BY DEF LookupOK
  <2>2. x.at = "answered" /\ x.out \in Sources => Bound(other, newIndex, x.base, x.out)
    BY <1>1, <1>5, <2>1 DEF ReverseOK
  <2>3. x.at \in {"reverse", "row", "reversed"} =>
          x.source \in Sources /\ Bound(other, newIndex, x.base, x.source)
    BY <1>1, <1>5, <2>1 DEF ReverseOK
  <2>4. x.at = "reverse" => PassedSources(newIndex, y)
    BY <1>8, <2>1, <2>3 DEF ReverseOK
  <2>5. x.at = "row" => IndexSlot(newIndex, y).source = y.source
    BY <1>9, <2>1, <2>3 DEF ReverseOK
  <2> QED BY <2>1, <2>2, <2>3, <2>4, <2>5 DEF ReverseOK
<1> QED BY <1>1, <1>10, <1>11 DEF LookupOK

\* So a step of a publication, an activation or a deactivation disturbs no
\* lookup: the lookups that are under way see what it changes.
LEMMA LookupsSurvive ==
  ASSUME TableInv, TableInv', Lookups, operational' \in BOOLEAN,
         Grown(registry, registry'), GrownIndex(sourceIndex, sourceIndex'),
         Witness(registry') \/ UNCHANGED <<registry, reader>>
  PROVE  Lookups'
<1>1. Filled(registry')
  <2>1. TableInv' => Filled(registry)'
    BY RegistryFilled, PTL
  <2> QED BY <2>1 DEF Filled
<1>2. ASSUME NEW r \in Readers
      PROVE  reader'[r] \in ReaderState /\ LookupOK(registry', sourceIndex', reader'[r])
  <2> DEFINE x == reader[r]
             y == reader'[r]
  <2>1. x \in ReaderState /\ LookupOK(registry, sourceIndex, x)
    BY DEF Lookups
  <2>2. x.at \in Walking => x.base \in Bases
    BY <2>1 DEF LookupOK, Walking
  <2>3. CASE UNCHANGED <<registry, reader>>
    <3>1. y = x /\ (x.at \in Walking /\ x.live => Visible(registry', x.base) \in y.seen)
      BY <2>1, <2>3 DEF LookupOK, WalkOK
    <3> QED BY <2>1, <3>1, LookupSurvives
  <2>4. CASE Witness(registry') /\ x.at \in Walking /\ x.live
    <3> DEFINE v == Visible(registry', x.base)
    <3>1. v \in Bases \cup Sources
      BY <1>1, <2>2, <2>4, VisibleTyped
    <3>2. y = [x EXCEPT !.seen = @ \cup {v}]
      BY <2>4 DEF Witness
    <3> HIDE DEF v
    <3>3. /\ y \in ReaderState /\ y.at = x.at /\ y.base = x.base /\ y.source = x.source
          /\ y.probe = x.probe /\ y.live = x.live /\ y.out = x.out /\ y.asks = x.asks
          /\ x.seen \subseteq y.seen /\ v \in y.seen
      BY <2>1, <3>1, <3>2 DEF ReaderState
    <3> HIDE DEF x, y
    <3>4. LookupOK(registry', sourceIndex', y)
      BY <2>1, <3>3, LookupSurvives DEF v
    <3> QED BY <3>3, <3>4 DEF y
  <2>5. CASE Witness(registry') /\ ~(x.at \in Walking /\ x.live)
    <3>1. y = x
      BY <2>5 DEF Witness
    <3> QED BY <2>1, <2>5, <3>1, LookupSurvives
  <2> QED BY <2>3, <2>4, <2>5
<1>3. reader' \in [Readers -> ReaderState]
  <2>1. reader' = [r \in Readers |-> reader'[r]]
    BY DEF Witness, Lookups
  <2> QED BY <1>2, <2>1
<1> QED BY <1>2, <1>3 DEF Lookups

\* A FormID is in no slot when the walk for it comes to a gap.
LEMMA GapEndsWalk ==
  ASSUME TableInv, NEW x \in ReaderState, x.base \in Bases, Passed(registry, x),
         KeySlot(registry, x).formID = Null
  PROVE  Visible(registry, x.base) = x.base
<1> DEFINE i == SlotAt(StartIndex[x.base], x.probe)
<1>1. x.probe \in Indices
  BY DEF ReaderState
<1>2. i \in Indices
  BY <1>1, SlotInTable, HashAssumption
<1>3. registry[i].formID = Null /\ \A k \in Before(StartIndex[x.base], x.probe) :
        registry[k].formID \notin {x.base, Null}
  BY DEF KeySlot, Passed
<1>4. Open(registry, x.base, i)
  BY <1>1, <1>2, <1>3 DEF Open, Stops
<1> HIDE DEF i
<1>5. \A j \in Indices : registry[j].formID # x.base
  BY <1>4, GapMeansUnpublished DEF TableInv
<1> QED BY <1>5, VisibleAbsent

\* Nor when the walk has been through the whole table.
LEMMA LastEndsWalk ==
  ASSUME TableInv, NEW x \in ReaderState, x.base \in Bases, Passed(registry, x),
         KeySlot(registry, x).formID \notin {x.base, Null}, x.probe + 1 >= Capacity
  PROVE  Visible(registry, x.base) = x.base
<1>1. x.probe \in Indices
  BY DEF ReaderState
<1>2. ASSUME NEW j \in Indices, registry[j].formID = x.base PROVE FALSE
  <2>1. Stops(registry, x.base, j)
    BY <1>2, NamesAssumption DEF TableInv, IInv, KeysAreReachable
  <2>2. PICK q \in Indices : j = SlotAt(StartIndex[x.base], q)
    BY <2>1 DEF Stops
  <2>3. q = x.probe \/ q \in 0 .. x.probe - 1
    BY <1>1, CapacityAssumption DEF Indices
  <2>4. q # x.probe
    BY <1>2, <2>2 DEF KeySlot
  <2>5. j \in Before(StartIndex[x.base], x.probe)
    BY <2>2, <2>3, <2>4 DEF Before
  <2> QED BY <1>2, <2>5 DEF Passed
<1> QED BY <1>2, VisibleAbsent

\* A lookup that gives up may answer with the FormID it was asked for: either
\* it is not there, or it was not there before the lookup walked past it.
LEMMA MissedIsSeen ==
  ASSUME TableInv, NEW x \in ReaderState, LookupOK(registry, sourceIndex, x),
         x.at \in {"probe", "gap"}, x.live,
         \/ KeySlot(registry, x).formID = Null
         \/ KeySlot(registry, x).formID # x.base /\ x.probe + 1 >= Capacity
         \/ x.at = "gap" /\ x.probe + 1 >= Capacity
  PROVE  x.base \in x.seen
<1>1. x.base \in Bases /\ WalkOK(registry, sourceIndex, x) /\ Visible(registry, x.base) \in x.seen
  BY DEF LookupOK, WalkOK, Walking
<1>2. CASE KeySlot(registry, x).formID = Null
  <2>1. x.base \in x.seen \/ Passed(registry, x)
    BY <1>1 DEF WalkOK
  <2> QED BY <1>1, <1>2, <2>1, GapEndsWalk
<1>3. CASE KeySlot(registry, x).formID # Null /\ x.probe + 1 >= Capacity
  <2>1. \/ x.base \in x.seen
        \/ Passed(registry, x) /\ KeySlot(registry, x).formID \notin {x.base, Null}
    BY <1>1, <1>3 DEF WalkOK
  <2> QED BY <1>1, <1>3, <2>1, LastEndsWalk
<1> QED BY <1>2, <1>3

\* A lookup goes on, or answers with something it has seen.
Walks(r) == \E e \in ReaderState :
  /\ reader' = [reader EXCEPT ![r] = e]
  /\ e.at \in Walking /\ e.base = reader[r].base /\ e.live = reader[r].live /\ e.seen = reader[r].seen
  /\ LookupOK(registry, sourceIndex, e)
AnswersSeen(r) == \E v \in reader[r].seen :
  Answers(r, v) /\ (v \in Sources => Bound(registry, sourceIndex, reader[r].base, v))

\* Where it goes on, it is what it may rely on that moves.
LEMMA WalksOn ==
  ASSUME Lookups, NEW r \in Readers, NEW e \in ReaderState, reader' = [reader EXCEPT ![r] = e],
         reader[r].at # "idle", e.at \in Walking, e.base = reader[r].base,
         e.live = reader[r].live, e.seen = reader[r].seen, WalkOK(registry, sourceIndex, e)
  PROVE  Walks(r)
<1>1. e.base \in Bases
  BY DEF Lookups, LookupOK
<1>2. ReverseOK(registry, sourceIndex, e)
  BY DEF ReverseOK, Walking
<1> QED BY <1>1, <1>2 DEF Walks, LookupOK

\* The walk passes a key.
LEMMA WalksPast ==
  ASSUME TableInv, Lookups, NEW r \in Readers, reader[r].at \in {"probe", "gap"}, reader[r].live,
         \/ reader[r].base \in reader[r].seen
         \/ Passed(registry, reader[r]) /\ KeySlot(registry, reader[r]).formID \notin {reader[r].base, Null},
         reader[r].probe + 1 < Capacity,
         reader' = [reader EXCEPT ![r].at = "probe", ![r].probe = @ + 1]
  PROVE  Walks(r)
<1> DEFINE x == reader[r]
           e == [x EXCEPT !.at = "probe", !.probe = @ + 1]
<1>1. x \in ReaderState /\ LookupOK(registry, sourceIndex, x)
  BY DEF Lookups
<1>2. x.probe + 1 \in Indices /\ x.probe \in Nat
  BY <1>1, CapacityAssumption DEF ReaderState, Indices
<1>3. /\ e \in ReaderState /\ e.at = "probe" /\ e.probe = x.probe + 1 /\ e.base = x.base
      /\ e.live = x.live /\ e.seen = x.seen /\ reader' = [reader EXCEPT ![r] = e]
  BY <1>1, <1>2 DEF ReaderState, Walking
<1>4. x.at \in Walking
  BY DEF Walking
<1> HIDE DEF e
<1>5. Visible(registry, x.base) \in x.seen
  BY <1>1, <1>4 DEF LookupOK, WalkOK
<1>6. e.base \in e.seen \/ Passed(registry, e)
  <2>1. Before(StartIndex[e.base], e.probe) \subseteq
          Before(StartIndex[x.base], x.probe) \cup {SlotAt(StartIndex[x.base], x.probe)}
    BY <1>2, <1>3, NextPassed
  <2> QED BY <1>3, <2>1 DEF Passed, KeySlot
<1>7. WalkOK(registry, sourceIndex, e)
  BY <1>3, <1>5, <1>6 DEF WalkOK
<1> QED BY <1>3, <1>4, <1>7, WalksOn DEF Walking

\* The lookup moves to another load of the same slot.
LEMMA GoesOn ==
  ASSUME TableInv, Lookups, NEW r \in Readers, NEW label \in Walking \ {"probe"}, Goes(r, label),
         reader[r].at \in Walking, reader[r].live,
         LET x   == reader[r]
             key == KeySlot(registry, x)
         IN  /\ label = "gap" =>
                  \/ x.base \in x.seen
                  \/ Passed(registry, x) /\ key.formID \notin {x.base, Null}
             /\ label \in {"active", "source"} => key.formID = x.base
             /\ label = "source" => key.source \in x.seen \cap Sources /\ Indexed(sourceIndex, key.source)
  PROVE  Walks(r)
<1> DEFINE x == reader[r]
           e == [x EXCEPT !.at = label]
<1>1. x \in ReaderState /\ LookupOK(registry, sourceIndex, x)
  BY DEF Lookups
<1>2. /\ e \in ReaderState /\ e.at = label /\ e.probe = x.probe /\ e.base = x.base
      /\ e.live = x.live /\ e.seen = x.seen /\ reader' = [reader EXCEPT ![r] = e]
  BY <1>1 DEF ReaderState, Goes, Walking
<1> HIDE DEF e
<1>3. Visible(registry, x.base) \in x.seen
  BY <1>1 DEF LookupOK, WalkOK
<1>4. /\ KeySlot(registry, e) = KeySlot(registry, x)
      /\ Passed(registry, e) <=> Passed(registry, x)
  BY <1>2 DEF KeySlot, Passed
<1>5. WalkOK(registry, sourceIndex, e)
  BY <1>2, <1>3, <1>4 DEF WalkOK, Walking
<1> QED BY <1>2, <1>5, WalksOn DEF Walking

\* A lookup that began after the kill answers with the FormID.
LEMMA BypassAnswers ==
  ASSUME TableInv, Lookups, NEW r \in Readers, Bypass(r)
  PROVE  AnswersSeen(r)
<1>1. LookupOK(registry, sourceIndex, reader[r])
  BY DEF Lookups
<1>2. reader[r].base \in Bases /\ reader[r].base \in reader[r].seen /\ reader[r].base \notin Sources
  BY <1>1, NamesAssumption DEF Bypass, LookupOK, WalkOK, Walking
<1> QED BY <1>2 DEF Bypass, AnswersSeen

\* The load of a key.
LEMMA LoadKeyMoves ==
  ASSUME TableInv, Lookups, NEW r \in Readers, LoadKey(r)
  PROVE  Walks(r) \/ AnswersSeen(r)
<1> DEFINE x == reader[r]
           key == KeySlot(registry, x)
<1>1. x \in ReaderState /\ LookupOK(registry, sourceIndex, x) /\ x.at = "probe" /\ x.live
  BY DEF Lookups, LoadKey
<1>2. x.base \in Bases /\ x.base \notin Sources /\ (x.base \in x.seen \/ Passed(registry, x))
  BY <1>1, NamesAssumption DEF LookupOK, WalkOK
<1>3. KeyAt(r) = key
  BY DEF KeyAt, KeySlot
<1>4. x.probe \in Int /\ Capacity \in Int
  BY <1>1, CapacityAssumption DEF ReaderState, Indices
<1>5. CASE key.formID = x.base
  <2>1. Goes(r, "active")
    BY <1>3, <1>5 DEF LoadKey
  <2> QED BY <1>1, <1>5, <2>1, GoesOn DEF Walking
<1>6. CASE key.formID = Null
  <2>1. x.base \in x.seen
    BY <1>1, <1>6, MissedIsSeen
  <2>2. Goes(r, "gap") \/ Answers(r, x.base)
    BY <1>2, <1>3, <1>6, NamesAssumption DEF LoadKey
  <2>3. CASE Goes(r, "gap")
    BY <1>1, <2>1, <2>3, GoesOn DEF Walking
  <2>4. CASE Answers(r, x.base)
    BY <1>2, <2>1, <2>4 DEF AnswersSeen
  <2> QED BY <2>2, <2>3, <2>4
<1>7. CASE key.formID \notin {x.base, Null}
  <2>1. \/ Goes(r, "gap")
        \/ x.probe + 1 < Capacity /\ reader' = [reader EXCEPT ![r].at = "probe", ![r].probe = @ + 1]
        \/ x.probe + 1 >= Capacity /\ Answers(r, x.base)
    BY <1>3, <1>4, <1>7 DEF LoadKey, NextProbe
  <2>2. CASE Goes(r, "gap")
    BY <1>1, <1>2, <1>7, <2>2, GoesOn DEF Walking
  <2>3. CASE x.probe + 1 < Capacity /\ reader' = [reader EXCEPT ![r].at = "probe", ![r].probe = @ + 1]
    BY <1>1, <1>2, <1>7, <2>3, WalksPast
  <2>4. CASE x.probe + 1 >= Capacity /\ Answers(r, x.base)
    <3>1. x.base \in x.seen
      BY <1>1, <1>7, <2>4, MissedIsSeen
    <3> QED BY <1>2, <2>4, <3>1 DEF AnswersSeen
  <2> QED BY <2>1, <2>2, <2>3, <2>4
<1> QED BY <1>5, <1>6, <1>7

\* The second load of the thunk.
LEMMA LoadKeyAgainMoves ==
  ASSUME TableInv, Lookups, NEW r \in Readers, LoadKeyAgain(r)
  PROVE  Walks(r) \/ AnswersSeen(r)
<1> DEFINE x == reader[r]
           key == KeySlot(registry, x)
<1>1. x \in ReaderState /\ LookupOK(registry, sourceIndex, x) /\ x.at = "gap"
  BY DEF Lookups, LoadKeyAgain
<1>2. /\ x.base \in Bases /\ x.base \notin Sources /\ x.live
      /\ \/ x.base \in x.seen
         \/ Passed(registry, x) /\ key.formID \notin {x.base, Null}
  BY <1>1, NamesAssumption DEF LookupOK, WalkOK
<1>3. x.probe \in Int /\ Capacity \in Int
  BY <1>1, CapacityAssumption DEF ReaderState, Indices
<1>4. \/ key.formID = Null /\ Answers(r, x.base)
      \/ x.probe + 1 < Capacity /\ reader' = [reader EXCEPT ![r].at = "probe", ![r].probe = @ + 1]
      \/ x.probe + 1 >= Capacity /\ Answers(r, x.base)
  BY <1>3 DEF LoadKeyAgain, KeyAt, KeySlot, NextProbe
<1>5. CASE x.probe + 1 < Capacity /\ reader' = [reader EXCEPT ![r].at = "probe", ![r].probe = @ + 1]
  BY <1>1, <1>2, <1>5, WalksPast
<1>6. CASE Answers(r, x.base) /\ (key.formID = Null \/ x.probe + 1 >= Capacity)
  <2>1. x.base \in x.seen
    BY <1>1, <1>2, <1>6, MissedIsSeen
  <2> QED BY <1>2, <1>6, <2>1 DEF AnswersSeen
<1> QED BY <1>4, <1>5, <1>6

\* What the slot of a FormID says, when it is read.
LEMMA KeyIsVisible ==
  ASSUME TableInv, NEW x \in ReaderState, x.base \in Bases, KeySlot(registry, x).formID = x.base
  PROVE  /\ SlotAt(StartIndex[x.base], x.probe) \in Used
         /\ KeySlot(registry, x).source \in Sources
         /\ Visible(registry, x.base) =
              IF KeySlot(registry, x).active THEN KeySlot(registry, x).source ELSE x.base
<1> DEFINE i == SlotAt(StartIndex[x.base], x.probe)
<1>1. x.probe \in Indices
  BY DEF ReaderState
<1>2. i \in Indices /\ registry[i].formID = x.base
  BY <1>1, SlotInTable, HashAssumption DEF KeySlot
<1>3. i \in Used
  BY <1>2, NamesAssumption DEF Used
<1>4. Filled(registry)
  BY RegistryFilled
<1> HIDE DEF i
<1>5. \A j \in Indices : registry[j].formID = x.base => j = i
  BY <1>2, <1>4, NamesAssumption DEF Filled
<1>6. Visible(registry, x.base) = IF registry[i].active THEN registry[i].source ELSE x.base
  BY <1>2, <1>5, VisibleAt
<1>7. registry[i].source \in Sources
  BY <1>2, <1>4, NamesAssumption DEF Filled
<1> QED BY <1>3, <1>6, <1>7 DEF i, KeySlot

\* The load of the active word: what it says is what a lookup may answer now.
LEMMA LoadActiveMoves ==
  ASSUME TableInv, Lookups, NEW r \in Readers, LoadActive(r)
  PROVE  Walks(r) \/ AnswersSeen(r)
<1> DEFINE x == reader[r]
           key == KeySlot(registry, x)
<1>1. x \in ReaderState /\ LookupOK(registry, sourceIndex, x) /\ x.at = "active"
  BY DEF Lookups, LoadActive
<1>2. /\ x.base \in Bases /\ x.base \notin Sources /\ x.live /\ key.formID = x.base
      /\ Visible(registry, x.base) \in x.seen
  BY <1>1, NamesAssumption DEF LookupOK, WalkOK, Walking
<1>3. /\ SlotAt(StartIndex[x.base], x.probe) \in Used /\ key.source \in Sources
      /\ Visible(registry, x.base) = IF key.active THEN key.source ELSE x.base
  BY <1>1, <1>2, KeyIsVisible
<1>4. CASE key.active
  <2>1. Goes(r, "source")
    BY <1>4 DEF LoadActive, KeyAt, KeySlot
  <2>2. Indexed(sourceIndex, key.source)
    BY <1>3, <1>4 DEF TableInv, ActiveIsIndexed, KeySlot, Used
  <2> QED BY <1>1, <1>2, <1>3, <1>4, <2>1, <2>2, GoesOn DEF Walking
<1>5. CASE ~key.active
  <2>1. Answers(r, x.base)
    BY <1>5 DEF LoadActive, KeyAt, KeySlot
  <2> QED BY <1>2, <1>3, <1>5, <2>1 DEF AnswersSeen
<1> QED BY <1>4, <1>5

\* The load of the source: the slot still has the source it had when it was
\* found active, although it may be inactive by now.
LEMMA LoadSourceAnswers ==
  ASSUME TableInv, Lookups, NEW r \in Readers, LoadSource(r)
  PROVE  AnswersSeen(r)
<1> DEFINE x == reader[r]
           key == KeySlot(registry, x)
<1>1. x \in ReaderState /\ LookupOK(registry, sourceIndex, x) /\ x.at = "source"
  BY DEF Lookups, LoadSource
<1>2. /\ x.base \in Bases /\ key.formID = x.base
      /\ key.source \in x.seen /\ key.source \in Sources /\ Indexed(sourceIndex, key.source)
  BY <1>1 DEF LookupOK, WalkOK
<1>3. SlotAt(StartIndex[x.base], x.probe) \in Used
  BY <1>1, <1>2, KeyIsVisible
<1>4. Bound(registry, sourceIndex, x.base, key.source)
  BY <1>2, <1>3 DEF Bound, KeySlot, Used
<1>5. Answers(r, key.source)
  BY <1>2, NamesAssumption DEF LoadSource, KeyAt, KeySlot
<1> QED BY <1>2, <1>4, <1>5 DEF AnswersSeen

\* A step of one reader keeps the lookups as they are but for its own.
LEMMA LookupMoves ==
  ASSUME Lookups, OnlyReaders, NEW r \in Readers, NEW e \in ReaderState,
         reader' = [reader EXCEPT ![r] = e], LookupOK(registry, sourceIndex, e)
  PROVE  Lookups'
<1>1. UNCHANGED <<operational, registry, sourceIndex>>
  BY DEF OnlyReaders, tables
<1>2. reader' \in [Readers -> ReaderState]
  BY DEF Lookups
<1>3. \A q \in Readers : LookupOK(registry, sourceIndex, reader'[q])
  BY DEF Lookups
<1> QED BY <1>1, <1>2, <1>3 DEF Lookups

\* A lookup that goes on or answers.
LEMMA ResolveMoves ==
  ASSUME Lookups, OnlyReaders, NEW r \in Readers, reader[r].at # "idle", Walks(r) \/ AnswersSeen(r)
  PROVE  Lookups'
<1>1. CASE Walks(r)
  BY <1>1, LookupMoves DEF Walks
<1>2. ASSUME NEW v \in reader[r].seen, Answers(r, v),
             v \in Sources => Bound(registry, sourceIndex, reader[r].base, v)
      PROVE  Lookups'
  <2> DEFINE x == reader[r]
             e == [x EXCEPT !.at = "answered", !.out = v, !.seen = {}]
  <2>1. x \in ReaderState /\ x.base \in Bases
    BY DEF Lookups, LookupOK
  <2>2. /\ e \in ReaderState /\ e.at = "answered" /\ e.out = v /\ e.base = x.base
        /\ reader' = [reader EXCEPT ![r] = e]
    BY <1>2, <2>1 DEF ReaderState, Answers
  <2> HIDE DEF e
  <2>3. LookupOK(registry, sourceIndex, e)
    BY <1>2, <2>1, <2>2 DEF LookupOK, WalkOK, ReverseOK, Walking
  <2> QED BY <2>2, <2>3, LookupMoves
<1> QED BY <1>1, <1>2 DEF AnswersSeen

\* A lookup begins with what it would answer at once.
LEMMA BeginLookupMoves ==
  ASSUME TableInv, Lookups, NEW r \in Readers, NEW b \in Bases, NEW via \in {"native", "thunk"},
         BeginLookup(r, b, via)
  PROVE  Lookups'
<1> DEFINE seen == {IF operational THEN Visible(registry, b) ELSE b}
           e == [IdleReader EXCEPT !.at = "probe", !.via = via, !.base = b, !.live = operational,
                                   !.seen = seen]
<1>1. seen \subseteq Bases \cup Sources /\ operational \in BOOLEAN
  BY RegistryFilled, VisibleTyped DEF Lookups
<1>2. 0 \in Indices
  BY CapacityAssumption DEF Indices
<1>3. operational => Visible(registry, b) \in seen
  OBVIOUS
<1>4. ~operational => b \in seen
  OBVIOUS
<1> HIDE DEF seen
<1>5. e \in ReaderState
  BY <1>1, <1>2 DEF ReaderState, IdleReader, Walking
<1>6. e.at = "probe" /\ e.base = b /\ e.live = operational /\ e.seen = seen /\ e.probe = 0
  BY DEF IdleReader
<1>7. reader' = [reader EXCEPT ![r] = e] /\ OnlyReaders
  BY DEF BeginLookup, seen
<1> HIDE DEF e
<1>8. Passed(registry, e)
  BY <1>6, NextPassed DEF Passed
<1>9. LookupOK(registry, sourceIndex, e)
  BY <1>3, <1>4, <1>6, <1>8 DEF LookupOK, WalkOK, ReverseOK, Walking
<1> QED BY <1>5, <1>7, <1>9, LookupMoves

\* An answer is used and forgotten.
LEMMA ForgetMoves ==
  ASSUME Lookups, NEW r \in Readers, Forget(r)
  PROVE  Lookups'
<1>1. IdleReader \in ReaderState
  BY CapacityAssumption DEF IdleReader, ReaderState, Indices
<1>2. IdleReader.at = "idle"
  BY DEF IdleReader
<1>3. LookupOK(registry, sourceIndex, IdleReader)
  BY <1>2 DEF LookupOK, WalkOK, ReverseOK, Walking
<1> QED BY <1>1, <1>3, LookupMoves DEF Forget

\* A reverse lookup begins with a source that is published for its base.
LEMMA BeginReverseMoves ==
  ASSUME TableInv, Lookups, NEW r \in Readers, NEW asks \in {"formID", "faceTextureIdentity"},
         BeginReverse(r, asks)
  PROVE  Lookups'
<1>1. ASSUME NEW b \in Bases, NEW s \in Sources, Bound(registry, sourceIndex, b, s),
             ReversesFor(r, b, s, asks)
      PROVE  Lookups'
  <2> DEFINE e == [IdleReader EXCEPT !.at = "reverse", !.asks = asks, !.base = b, !.source = s,
                                     !.live = operational]
  <2>1. operational \in BOOLEAN /\ 0 \in Indices
    BY CapacityAssumption DEF Lookups, Indices
  <2>2. e \in ReaderState
    BY <2>1 DEF ReaderState, IdleReader
  <2>3. e.at = "reverse" /\ e.base = b /\ e.source = s /\ e.probe = 0
    BY DEF IdleReader
  <2>4. reader' = [reader EXCEPT ![r] = e] /\ OnlyReaders
    BY <1>1 DEF ReversesFor, BeginReverse
  <2> HIDE DEF e
  <2>5. PassedSources(sourceIndex, e)
    BY <2>3, NextPassed DEF PassedSources
  <2>6. LookupOK(registry, sourceIndex, e)
    BY <1>1, <2>3, <2>5 DEF LookupOK, WalkOK, ReverseOK, Walking
  <2> QED BY <2>2, <2>4, <2>6, LookupMoves
<1>2. CASE reader[r].at = "answered" /\ reader[r].out \in Sources
           /\ ReversesFor(r, reader[r].base, reader[r].out, asks)
  <2>1. reader[r].base \in Bases /\ Bound(registry, sourceIndex, reader[r].base, reader[r].out)
    BY <1>2 DEF Lookups, LookupOK, ReverseOK
  <2> QED BY <1>1, <1>2, <2>1
<1>3. ASSUME NEW b \in Bases, NEW i \in Indices, Returned(b), FindSlot(b, i),
             ReversesFor(r, b, registry[i].source, asks)
      PROVE  Lookups'
  <2>1. registry[i].formID = b /\ i \in Used
    BY <1>3, NamesAssumption DEF FindSlot, Used
  <2>2. registry[i].source \in Sources
    BY <2>1 DEF TableInv, Contents
  <2>3. Bound(registry, sourceIndex, b, registry[i].source)
    BY <1>3, <2>1, ReturnedIsIndexed DEF Bound
  <2> QED BY <1>1, <1>3, <2>2, <2>3
<1> QED BY <1>2, <1>3 DEF BeginReverse

\* A reverse lookup moves.
LEMMA ReverseMoves ==
  ASSUME Lookups, OnlyReaders, NEW r \in Readers, NEW e \in ReaderState,
         reader' = [reader EXCEPT ![r] = e], reader[r].at \in {"reverse", "row"},
         e.at \in {"reverse", "row", "reversed"}, e.base = reader[r].base,
         e.source = reader[r].source, e.live = reader[r].live, e.asks = reader[r].asks,
         e.at = "reverse" => PassedSources(sourceIndex, e),
         e.at = "row" => IndexSlot(sourceIndex, e).source = e.source,
         e.at = "reversed" /\ e.live =>
           e.out = IF e.asks = "formID" THEN e.base ELSE IdentityOf[e.base]
  PROVE  Lookups'
<1>1. /\ e.base \in Bases /\ e.source \in Sources
      /\ Bound(registry, sourceIndex, e.base, e.source)
  BY DEF Lookups, LookupOK, ReverseOK
<1>2. LookupOK(registry, sourceIndex, e)
  BY <1>1 DEF LookupOK, WalkOK, ReverseOK, Walking
<1> QED BY <1>2, LookupMoves

\* The fields of a reverse lookup that answers v.
LEMMA ReversesFields ==
  ASSUME Lookups, NEW r \in Readers, NEW v \in Bases \cup Sources \cup {Null}, Reverses(r, v)
  PROVE  \E e \in ReaderState :
           /\ reader' = [reader EXCEPT ![r] = e] /\ e.at = "reversed" /\ e.out = v
           /\ e.base = reader[r].base /\ e.source = reader[r].source /\ e.live = reader[r].live
           /\ e.asks = reader[r].asks
<1> DEFINE e == [reader[r] EXCEPT !.at = "reversed", !.out = v]
<1>1. reader[r] \in ReaderState
  BY DEF Lookups
<1>2. /\ e \in ReaderState /\ e.at = "reversed" /\ e.out = v
      /\ e.base = reader[r].base /\ e.source = reader[r].source /\ e.live = reader[r].live
      /\ e.asks = reader[r].asks
  BY <1>1 DEF ReaderState
<1>3. reader' = [reader EXCEPT ![r] = e]
  BY DEF Reverses
<1> QED BY <1>2, <1>3

\* After the kill it answers with what the source says of itself.
LEMMA BypassReverseMoves ==
  ASSUME Lookups, NEW r \in Readers, BypassReverse(r)
  PROVE  Lookups'
<1>1. reader[r].at = "reverse" /\ ~reader[r].live /\ Reverses(r, Own(r)) /\ OnlyReaders
  BY DEF BypassReverse
<1>2. Own(r) \in Bases \cup Sources \cup {Null}
  BY DEF Own, Lookups, ReaderState
<1> QED BY <1>1, <1>2, ReversesFields, ReverseMoves

\* The walk of the index: the source is there, so the walk neither ends at a
\* gap nor runs out of the table.
LEMMA LoadSourceKeyMoves ==
  ASSUME TableInv, Lookups, NEW r \in Readers, LoadSourceKey(r)
  PROVE  Lookups'
<1> DEFINE x == reader[r]
           n == SlotAt(SourceStartIndex[x.source], x.probe)
<1>1. /\ x \in ReaderState /\ x.at = "reverse" /\ x.source \in Sources /\ OnlyReaders
      /\ PassedSources(sourceIndex, x) /\ Indexed(sourceIndex, x.source)
  BY DEF Lookups, LookupOK, ReverseOK, Bound, LoadSourceKey
<1>2. x.probe \in Indices /\ n \in Indices
  BY <1>1, SlotInTable, HashAssumption DEF ReaderState
<1>3. CASE sourceIndex[n].source = x.source
  <2> DEFINE e == [x EXCEPT !.at = "row"]
  <2>1. /\ e \in ReaderState /\ e.at = "row" /\ e.probe = x.probe /\ e.base = x.base
        /\ e.source = x.source /\ e.live = x.live /\ e.asks = x.asks
    BY <1>1 DEF ReaderState
  <2>2. reader' = [reader EXCEPT ![r] = e]
    BY <1>3 DEF LoadSourceKey, IndexAt, Goes
  <2> HIDE DEF e
  <2>3. IndexSlot(sourceIndex, e).source = e.source
    BY <1>3, <2>1 DEF IndexSlot
  <2> QED BY <1>1, <2>1, <2>2, <2>3, ReverseMoves
<1>4. CASE sourceIndex[n].source # x.source
  <2>1. PICK j \in Indices : sourceIndex[j].source = x.source
    BY <1>1 DEF Indexed
  <2>2. StopsSource(sourceIndex, x.source, j)
    BY <1>1, <2>1, NamesAssumption DEF TableInv, IInv, SourcesAreReachable
  <2>3. PICK q \in Indices :
          /\ j = SlotAt(SourceStartIndex[x.source], q)
          /\ \A k \in Before(SourceStartIndex[x.source], q) : sourceIndex[k].source \notin {x.source, Null}
    BY <2>2 DEF StopsSource
  <2>4. q \in Int /\ x.probe \in Int /\ q >= 0 /\ x.probe >= 0 /\ q <= Capacity - 1 /\ Capacity \in Nat
    BY <1>2, CapacityAssumption DEF Indices
  <2>5. q # x.probe
    BY <1>4, <2>1, <2>3
  <2>6. ~(q < x.probe)
    <3>1. q < x.probe => q \in 0 .. x.probe - 1
      BY <2>4
    <3>2. q < x.probe => j \in Before(SourceStartIndex[x.source], x.probe)
      BY <2>3, <3>1 DEF Before
    <3> QED BY <1>1, <2>1, <3>2 DEF PassedSources
  <2>7. x.probe < q
    BY <2>4, <2>5, <2>6
  <2>8. sourceIndex[n].source # Null
    <3>1. x.probe \in 0 .. q - 1
      BY <2>4, <2>7
    <3>2. n \in Before(SourceStartIndex[x.source], q)
      BY <3>1 DEF Before
    <3> QED BY <2>3, <3>2
  <2>9. x.probe + 1 # Capacity /\ x.probe + 1 \in Indices
    BY <2>4, <2>7 DEF Indices
  <2>10. reader' = [reader EXCEPT ![r].probe = @ + 1]
    BY <1>4, <2>8, <2>9 DEF LoadSourceKey, IndexAt
  <2> DEFINE e == [x EXCEPT !.probe = @ + 1]
  <2>11. /\ e \in ReaderState /\ e.at = "reverse" /\ e.probe = x.probe + 1 /\ e.base = x.base
         /\ e.source = x.source /\ e.live = x.live /\ e.asks = x.asks
         /\ reader' = [reader EXCEPT ![r] = e]
    BY <1>1, <2>9, <2>10 DEF ReaderState
  <2> HIDE DEF e
  <2>12. PassedSources(sourceIndex, e)
    <3>1. x.probe \in Nat
      BY <2>4
    <3>2. Before(SourceStartIndex[e.source], e.probe) \subseteq
            Before(SourceStartIndex[x.source], x.probe) \cup {n}
      BY <2>11, <3>1, NextPassed
    <3> QED BY <1>1, <1>4, <2>8, <2>11, <3>2 DEF PassedSources
  <2> QED BY <1>1, <2>11, <2>12, ReverseMoves
<1> QED BY <1>3, <1>4

\* The row of the source: its slot is the slot of the base it is asked for.
LEMMA LoadRegistrySlotMoves ==
  ASSUME TableInv, Lookups, NEW r \in Readers, LoadRegistrySlot(r)
  PROVE  Lookups'
<1> DEFINE x   == reader[r]
           n   == SlotAt(SourceStartIndex[x.source], x.probe)
           row == sourceIndex[n].registrySlot
           answer == IF x.asks = "formID" THEN x.base ELSE IdentityOf[x.base]
<1>1. /\ x \in ReaderState /\ x.at = "row" /\ x.source \in Sources /\ x.base \in Bases /\ OnlyReaders
      /\ IndexSlot(sourceIndex, x).source = x.source
      /\ Bound(registry, sourceIndex, x.base, x.source)
  BY DEF Lookups, LookupOK, ReverseOK, LoadRegistrySlot
<1>2. n \in InUse /\ sourceIndex[n].source = x.source
  <2>1. n \in Indices
    BY <1>1, SlotInTable, HashAssumption DEF ReaderState
  <2> QED BY <1>1, <2>1, NamesAssumption DEF InUse, IndexSlot
<1>3. row \in Used /\ registry[row].source = x.source
  BY <1>2 DEF TableInv, Rows
<1>4. PICK i \in Indices : registry[i].formID = x.base /\ registry[i].source = x.source
  BY <1>1 DEF Bound
<1>5. i \in Used
  BY <1>1, <1>4, NamesAssumption DEF Used
<1>6. row = i
  BY <1>3, <1>4, <1>5 DEF TableInv, OneSlotPerSource
<1>7. registry[row].formID = x.base /\ registry[row].faceTextureIdentity = IdentityOf[x.base]
  BY <1>4, <1>5, <1>6 DEF TableInv, Contents
<1>8. row # Null
  <2>1. \A k \in Used : k \in Indices
    BY DEF Used
  <2> QED BY <1>3, <2>1, NamesAssumption
<1>9. x.asks = "formID" \/ x.asks = "faceTextureIdentity"
  BY <1>1 DEF ReaderState
<1>10. registry[row][x.asks] = answer
  <2>1. registry[row] \in RegistrySlot
    BY <1>3 DEF TableInv, IInv, WritersTyped, Used
  <2> QED BY <1>7, <1>9, <2>1 DEF RegistrySlot
<1>11. answer \in Bases /\ answer # Null
  BY <1>1, HashAssumption, NamesAssumption
<1>12. Reverses(r, answer)
  BY <1>8, <1>10, <1>11 DEF LoadRegistrySlot, IndexAt
<1> QED BY <1>1, <1>11, <1>12, ReversesFields, ReverseMoves

\* A step of a publication extends the tables, and the lookups see it.
LEMMA PublishGrows ==
  ASSUME TableInv, TableInv', NEW p \in Publishers, PublishRenderSource(p)
  PROVE  /\ Grown(registry, registry') /\ GrownIndex(sourceIndex, sourceIndex')
         /\ Witness(registry') \/ UNCHANGED <<registry, reader>>
         /\ UNCHANGED operational
<1>1. IInv'
  BY DEF TableInv
<1>2. CASE UNCHANGED <<operational, registry, sourceIndex, reader>>
  BY <1>2 DEF Grown, GrownIndex
<1>3. CASE (\E b \in Bases, s \in Sources : CallPublish(p, b, s)) \/ LockPublish(p) \/ ScanRegistry(p)
           \/ ScanIndex(p) \/ ReturnPublished(p)
  BY <1>2, <1>3 DEF CallPublish, LockPublish, ScanRegistry, ScanIndex, ReturnPublished, tables
<1>4. ASSUME NEW f \in {"source", "active", "faceTextureIdentity"}, StoreField(p, f)
      PROVE  /\ Grown(registry, registry') /\ GrownIndex(sourceIndex, sourceIndex')
             /\ Witness(registry') /\ UNCHANGED operational
  <2>1. \A i \in Indices : registry[i].formID # Null => registry'[i] = registry[i]
    BY <1>1, <1>4, StoreFieldTables
  <2>2. Witness(registry') /\ UNCHANGED <<operational, sourceIndex>>
    BY <1>4 DEF StoreField, SetRegistry
  <2> QED BY <2>1, <2>2 DEF Grown, GrownIndex
<1>5. CASE StoreFormID(p)
  <2>1. \A i \in Indices : registry[i].formID # Null => registry'[i] = registry[i]
    BY <1>1, <1>5, StoreFormIDTables
  <2>2. Witness(registry') /\ UNCHANGED <<operational, sourceIndex>>
    BY <1>5 DEF StoreFormID, SetRegistry
  <2> QED BY <2>1, <2>2 DEF Grown, GrownIndex
<1>6. CASE StoreRegistrySlot(p) \/ StoreSource(p)
  <2>1. \A j \in Indices : sourceIndex[j].source # Null => sourceIndex'[j] = sourceIndex[j]
    BY <1>1, <1>6, StoreRegistrySlotTables, StoreSourceTables
  <2>2. UNCHANGED <<operational, registry, reader>>
    BY <1>6 DEF StoreRegistrySlot, StoreSource
  <2> QED BY <2>1, <2>2 DEF Grown, GrownIndex
<1> QED BY <1>3, <1>4, <1>5, <1>6 DEF PublishRenderSource

\* Activation and deactivation change no key and no source.
LEMMA ActivateGrows ==
  ASSUME TableInv, NEW b \in Bases, ActivateRenderSource(b) \/ DeactivateRenderSource(b)
  PROVE  /\ Grown(registry, registry') /\ GrownIndex(sourceIndex, sourceIndex')
         /\ Witness(registry') /\ UNCHANGED operational
<1>1. registry \in [Indices -> RegistrySlot]
  BY DEF TableInv, IInv, WritersTyped
<1>2. PICK i \in Indices, a \in BOOLEAN : registry' = [registry EXCEPT ![i].active = a]
  BY DEF ActivateRenderSource, DeactivateRenderSource, SetRegistry
<1>3. Grown(registry, registry')
  BY <1>1, <1>2 DEF Grown, RegistrySlot
<1>4. Witness(registry') /\ UNCHANGED <<operational, sourceIndex>>
  BY DEF ActivateRenderSource, DeactivateRenderSource, SetRegistry
<1> QED BY <1>3, <1>4 DEF GrownIndex

\* The steps of a lookup that has begun.
Resolves(r) == Bypass(r) \/ LoadKey(r) \/ LoadKeyAgain(r) \/ LoadActive(r) \/ LoadSource(r)

\* They go on or answer.
LEMMA ResolvesMoves ==
  ASSUME TableInv, Lookups, NEW r \in Readers, Resolves(r)
  PROVE  reader[r].at \in Walking /\ OnlyReaders /\ (Walks(r) \/ AnswersSeen(r))
<1>1. Walks(r) \/ AnswersSeen(r)
  BY BypassAnswers, LoadKeyMoves, LoadKeyAgainMoves, LoadActiveMoves, LoadSourceAnswers DEF Resolves
<1>2. reader[r].at \in Walking /\ OnlyReaders
  BY DEF Resolves, Bypass, LoadKey, LoadKeyAgain, LoadActive, LoadSource, Walking
<1> QED BY <1>1, <1>2

\* One case per action.
LEMMA LookupsStep == TableInv /\ TableInv' /\ Lookups /\ [Next]_vars => Lookups'
<1> SUFFICES ASSUME TableInv, TableInv', Lookups, [Next]_vars PROVE Lookups'
  OBVIOUS
<1>1. operational \in BOOLEAN
  BY DEF Lookups
<1>2. ASSUME NEW p \in Publishers, PublishRenderSource(p) PROVE Lookups'
  BY <1>1, <1>2, PublishGrows, LookupsSurvive
<1>3. ASSUME NEW b \in Bases, ActivateRenderSource(b) \/ DeactivateRenderSource(b)
      PROVE  Lookups'
  BY <1>1, <1>3, ActivateGrows, LookupsSurvive
<1>4. CASE KillRuntime
  <2>1. operational' \in BOOLEAN /\ UNCHANGED <<registry, sourceIndex, reader>>
    BY <1>4 DEF KillRuntime, tables
  <2>2. Grown(registry, registry') /\ GrownIndex(sourceIndex, sourceIndex')
    BY <2>1 DEF Grown, GrownIndex
  <2> QED BY <2>1, <2>2, LookupsSurvive
<1>5. ASSUME NEW r \in Readers, Resolves(r) PROVE Lookups'
  BY <1>5, ResolvesMoves, ResolveMoves DEF Walking
<1>6. ASSUME NEW r \in Readers, NEW b \in Bases, NEW via \in {"native", "thunk"}, BeginLookup(r, b, via)
      PROVE  Lookups'
  BY <1>6, BeginLookupMoves
<1>7. ASSUME NEW r \in Readers, ReverseLookup(r) PROVE Lookups'
  BY <1>7, BeginReverseMoves, BypassReverseMoves, LoadSourceKeyMoves, LoadRegistrySlotMoves
     DEF ReverseLookup
<1>8. ASSUME NEW r \in Readers, Forget(r) PROVE Lookups'
  BY <1>8, ForgetMoves
<1>9. CASE UNCHANGED vars
  <2>1. operational' \in BOOLEAN /\ UNCHANGED <<registry, sourceIndex, reader>>
    BY <1>1, <1>9 DEF vars, tables
  <2>2. Grown(registry, registry') /\ GrownIndex(sourceIndex, sourceIndex')
    BY <2>1 DEF Grown, GrownIndex
  <2> QED BY <2>1, <2>2, LookupsSurvive
<1> QED BY <1>2, <1>3, <1>4, <1>5, <1>6, <1>7, <1>8, <1>9 DEF Next, ResolveRenderSource, Resolves

\* Nobody looks up anything yet.
LEMMA LookupsInitially == Init => Lookups
<1> SUFFICES ASSUME Init PROVE Lookups
  OBVIOUS
<1>1. IdleReader \in ReaderState
  BY CapacityAssumption DEF IdleReader, ReaderState, Indices
<1>2. \A r \in Readers : reader[r] = IdleReader /\ reader[r].at = "idle"
  BY DEF Init, IdleReader
<1>3. reader \in [Readers -> ReaderState] /\ operational \in BOOLEAN
  BY <1>1 DEF Init
<1>4. \A r \in Readers : LookupOK(registry, sourceIndex, reader[r])
  BY <1>2 DEF LookupOK, WalkOK, ReverseOK, Walking
<1> QED BY <1>3, <1>4 DEF Lookups

\* What the tables say and what the lookups rely on, together.
LEMMA LookupsInvariant == Spec => [](TableInv /\ Lookups)
<1>1. Init => TableInv /\ Lookups
  BY TablesInitially, LookupsInitially
<1>2. (TableInv /\ Lookups) /\ [Next]_vars => (TableInv /\ Lookups)'
  BY TableStep, LookupsStep
<1> QED BY <1>1, <1>2, PTL DEF Spec

-----------------------------------------------------------------------------
(* The theorems about the lookups.                                         *)

\* Every variable stays in its domain, whatever a lookup reads in the middle
\* of a publication: no lookup ever answers with a null source.
THEOREM TypeCorrect == Spec => []TypeOK
<1>1. TableInv /\ Lookups => TypeOK
  BY DEF TableInv, IInv, Lookups, TypeOK
<1> QED BY <1>1, LookupsInvariant, PTL

\* A reverse lookup of a source that a lookup or a publication handed out
\* names the base it was published for, and the identity published with it:
\* the source is indexed before it can be handed out, its row is stored before
\* its key, and no publication ever gives a source a second slot.
THEOREM ReversesAgree == Spec => []ReverseAgrees
<1>1. TableInv /\ Lookups => ReverseAgrees
  BY DEF Lookups, LookupOK, ReverseOK, ReverseAgrees
<1> QED BY <1>1, LookupsInvariant, PTL

-----------------------------------------------------------------------------
(* The refinement of RenderSourceBindings.                                 *)

\* The binding of a FormID in a table, and all of them.
Binding(table, b) ==
  LET found == {i \in Indices : table[i].formID = b}
  IN  IF found = {} THEN Null
      ELSE LET i == CHOOSE i \in found : TRUE
           IN  [source |-> table[i].source, active |-> table[i].active]
Map(table) == [b \in Bases |-> Binding(table, b)]

\* The lookup that a reader's state stands for.
Look(x) ==
  IF x.at \in Walking
  THEN [stage |-> "running", base |-> x.base, live |-> x.live, may |-> x.seen]
  ELSE IF x.at = "answered"
  THEN [stage |-> "answered", base |-> x.base, live |-> x.live, may |-> {x.out}]
  ELSE [stage |-> "none", base |-> Null, live |-> FALSE, may |-> {}]
Looks(readers) == [r \in Readers |-> Look(readers[r])]

\* They are what the refinement maps the two variables to, before a step and
\* after it.
LEMMA Mapped ==
  /\ [b \in Bases |-> BindingOf(b)] = Map(registry)
  /\ [b \in Bases |-> BindingOf(b)]' = Map(registry')
  /\ [r \in Readers |-> LookupOf(r)] = Looks(reader)
  /\ [r \in Readers |-> LookupOf(r)]' = Looks(reader')
BY DEF Map, Binding, BindingOf, Looks, Look, LookupOf

\* A FormID without a slot is not bound.
LEMMA BindingAbsent ==
  ASSUME NEW table, NEW b, \A i \in Indices : table[i].formID # b
  PROVE  Binding(table, b) = Null
<1>1. {i \in Indices : table[i].formID = b} = {}
  OBVIOUS
<1> QED BY <1>1 DEF Binding

\* One with a slot is bound to what its slot says.
LEMMA BindingAt ==
  ASSUME NEW table, NEW b, NEW i \in Indices, table[i].formID = b,
         \A j \in Indices : table[j].formID = b => j = i
  PROVE  Binding(table, b) = [source |-> table[i].source, active |-> table[i].active]
<1> DEFINE found == {j \in Indices : table[j].formID = b}
<1>1. found = {i}
  OBVIOUS
<1>2. (CHOOSE j \in found : TRUE) = i
  BY <1>1
<1> QED BY <1>1, <1>2 DEF Binding

\* A lookup of the table that takes no time is a lookup of the map.
LEMMA ResolveIsVisible ==
  ASSUME NEW table \in [Indices -> RegistrySlot], Filled(table), NEW b \in Bases
  PROVE  Bindings!Resolve(Map(table), b) = Visible(table, b)
<1>1. Map(table)[b] = Binding(table, b)
  BY DEF Map
<1>2. CASE \A i \in Indices : table[i].formID # b
  BY <1>1, <1>2, BindingAbsent, VisibleAbsent DEF Bindings!Resolve
<1>3. ASSUME NEW i \in Indices, table[i].formID = b
      PROVE  Bindings!Resolve(Map(table), b) = Visible(table, b)
  <2>1. \A j \in Indices : table[j].formID = b => j = i
    BY <1>3, NamesAssumption DEF Filled
  <2> DEFINE bound == [source |-> table[i].source, active |-> table[i].active]
  <2>2. Binding(table, b) = bound /\ Visible(table, b) = IF table[i].active THEN table[i].source ELSE b
    BY <1>3, <2>1, BindingAt, VisibleAt
  <2>3. table[i].source \in Sources /\ table[i].active \in BOOLEAN
    BY <1>3, NamesAssumption DEF Filled, RegistrySlot
  <2>4. bound # Null
    BY <2>3, NamesAssumption
  <2>5. bound.source = table[i].source /\ bound.active = table[i].active
    OBVIOUS
  <2> HIDE DEF bound
  <2> QED BY <1>1, <2>2, <2>4, <2>5 DEF Bindings!Resolve
<1> QED BY <1>2, <1>3

\* A lookup in progress that sees a store may answer from the new map.
LEMMA LookSees ==
  ASSUME NEW x \in ReaderState, NEW v, x.at \in Walking
  PROVE  Look([x EXCEPT !.seen = @ \cup {v}]) = [Look(x) EXCEPT !.may = @ \cup {v}]
<1> DEFINE y == [x EXCEPT !.seen = @ \cup {v}]
<1>1. y.at = x.at /\ y.base = x.base /\ y.live = x.live /\ y.seen = x.seen \cup {v}
  BY DEF ReaderState
<1>2. Look(y) = [stage |-> "running", base |-> x.base, live |-> x.live, may |-> x.seen \cup {v}]
  BY <1>1 DEF Look
<1>3. Look(x) = [stage |-> "running", base |-> x.base, live |-> x.live, may |-> x.seen]
  BY DEF Look
<1> QED BY <1>2, <1>3

\* So a store to the registry writes the map.
LEMMA WriteMapped ==
  ASSUME Lookups, registry' \in [Indices -> RegistrySlot], Filled(registry'), Witness(registry'),
         UNCHANGED operational
  PROVE  Bindings!Write(Map(registry'))
<1> DEFINE new(r) == IF Look(reader[r]).stage = "running" /\ Look(reader[r]).live
                     THEN [Look(reader[r]) EXCEPT
                             !.may = @ \cup {Bindings!Resolve(Map(registry'), Look(reader[r]).base)}]
                     ELSE Look(reader[r])
<1>1. ASSUME NEW r \in Readers PROVE Look(reader'[r]) = new(r)
  <2> DEFINE x == reader[r]
  <2>1. x \in ReaderState /\ (x.at \in Walking => x.base \in Bases)
    BY DEF Lookups, LookupOK, Walking
  <2>2. Look(x).stage = "running" /\ Look(x).live <=> x.at \in Walking /\ x.live
    BY DEF Look
  <2>3. CASE x.at \in Walking /\ x.live
    <3>1. reader'[r] = [x EXCEPT !.seen = @ \cup {Visible(registry', x.base)}]
      BY <2>3 DEF Witness
    <3>2. Look(x).base = x.base
      BY <2>3 DEF Look
    <3>3. Bindings!Resolve(Map(registry'), x.base) = Visible(registry', x.base)
      BY <2>1, <2>3, ResolveIsVisible
    <3> QED BY <2>1, <2>2, <2>3, <3>1, <3>2, <3>3, LookSees
  <2>4. CASE ~(x.at \in Walking /\ x.live)
    BY <2>2, <2>4 DEF Witness
  <2> QED BY <2>3, <2>4
<1>2. Looks(reader') = [r \in Readers |-> new(r)]
  BY <1>1 DEF Looks
<1>3. \A r \in Readers : Looks(reader)[r] = Look(reader[r])
  BY DEF Looks
<1> HIDE DEF Look, Looks, Map
<1> QED BY <1>2, <1>3, Mapped DEF Bindings!Write

\* Nothing changes in the map, and no lookup in progress sees anything new.
LEMMA StutterMapped ==
  ASSUME Map(registry') = Map(registry), Looks(reader') = Looks(reader), UNCHANGED operational
  PROVE  UNCHANGED Bindings!vars
BY Mapped DEF Bindings!vars

\* Where the map stays, so do the lookups: they have seen it.
LEMMA KeptMapped ==
  ASSUME TableInv, TableInv', Lookups, Map(registry') = Map(registry), Witness(registry'),
         UNCHANGED operational
  PROVE  UNCHANGED Bindings!vars
<1>1. Filled(registry) /\ Filled(registry')
  <2>1. TableInv' => Filled(registry)'
    BY RegistryFilled, PTL
  <2> QED BY <2>1, RegistryFilled DEF Filled
<1>2. registry \in [Indices -> RegistrySlot] /\ registry' \in [Indices -> RegistrySlot]
  BY DEF TableInv, IInv, WritersTyped
<1>3. \A b \in Bases : Visible(registry', b) = Visible(registry, b)
  <2> TAKE b \in Bases
  <2>1. Bindings!Resolve(Map(registry'), b) = Visible(registry', b)
    BY <1>1, <1>2, ResolveIsVisible
  <2>2. Bindings!Resolve(Map(registry), b) = Visible(registry, b)
    BY <1>1, <1>2, ResolveIsVisible
  <2> QED BY <2>1, <2>2
<1>4. ASSUME NEW r \in Readers PROVE Look(reader'[r]) = Look(reader[r])
  <2> DEFINE x == reader[r]
  <2>1. x \in ReaderState /\ LookupOK(registry, sourceIndex, x)
    BY DEF Lookups
  <2>2. CASE x.at \in Walking /\ x.live
    <3>1. x.base \in Bases /\ Visible(registry, x.base) \in x.seen
      BY <2>1, <2>2 DEF LookupOK, WalkOK, Walking
    <3>2. reader'[r] = [x EXCEPT !.seen = @ \cup {Visible(registry', x.base)}]
      BY <2>2 DEF Witness
    <3>3. x.seen \cup {Visible(registry', x.base)} = x.seen
      BY <1>3, <3>1
    <3>4. reader'[r] = x
      BY <2>1, <3>2, <3>3 DEF ReaderState
    <3> QED BY <3>4
  <2>3. CASE ~(x.at \in Walking /\ x.live)
    BY <2>3 DEF Witness
  <2> QED BY <2>2, <2>3
<1>5. Looks(reader') = Looks(reader)
  BY <1>4 DEF Looks
<1> QED BY <1>5, StutterMapped

\* The release store of a FormID binds it.
LEMMA StoreFormIDMapped ==
  ASSUME TableInv, TableInv', Lookups, NEW p \in Publishers, StoreFormID(p)
  PROVE  Bindings!Next
<1> DEFINE b == publisher[p].base
           s == publisher[p].source
           n == publisher[p].slot
<1>1. /\ b \in Bases /\ s \in Sources /\ n \in Indices /\ registry[n].formID = Null
      /\ registry'[n].formID = b /\ registry'[n].source = s /\ ~registry'[n].active
      /\ \A i \in Indices : i # n => registry'[i] = registry[i]
      /\ \A i \in Indices : registry[i].formID # b
      /\ \A i \in Used : registry[i].source # s
  BY PublishedSlot
<1>2. /\ Filled(registry) /\ Filled(registry')
      /\ registry' \in [Indices -> RegistrySlot]
  <2>1. TableInv' => Filled(registry)'
    BY RegistryFilled, PTL
  <2> QED BY <2>1, RegistryFilled DEF Filled, TableInv, IInv, WritersTyped
<1>3. Witness(registry') /\ UNCHANGED operational
  BY DEF StoreFormID, SetRegistry
<1> HIDE DEF b, s, n
<1> DEFINE bound == [source |-> s, active |-> FALSE]
<1>4. Binding(registry, b) = Null
  BY <1>1, BindingAbsent
<1>5. Binding(registry', b) = bound
  <2>1. \A j \in Indices : registry'[j].formID = b => j = n
    BY <1>1
  <2>2. registry'[n].active = FALSE
    BY <1>1, <1>2 DEF RegistrySlot
  <2> QED BY <1>1, <2>1, <2>2, BindingAt
<1>6. ASSUME NEW c \in Bases, c # b
      PROVE  /\ Binding(registry', c) = Binding(registry, c)
             /\ Binding(registry, c) # Null => Binding(registry, c).source # s
  <2>1. CASE \A i \in Indices : registry[i].formID # c
    <3>1. \A i \in Indices : registry'[i].formID # c
      BY <1>1, <1>6, <2>1
    <3> QED BY <2>1, <3>1, BindingAbsent
  <2>2. ASSUME NEW i \in Indices, registry[i].formID = c
        PROVE  /\ Binding(registry', c) = Binding(registry, c)
               /\ Binding(registry, c) # Null => Binding(registry, c).source # s
    <3>1. i \in Used /\ i # n /\ registry'[i] = registry[i] /\ registry[i].source # s
      BY <1>1, <2>2, NamesAssumption DEF Used
    <3>2. /\ \A j \in Indices : registry[j].formID = c => j = i
          /\ \A j \in Indices : registry'[j].formID = c => j = i
      BY <1>1, <1>2, <1>6, <2>2, <3>1, NamesAssumption DEF Filled
    <3>3. /\ Binding(registry, c) = [source |-> registry[i].source, active |-> registry[i].active]
          /\ Binding(registry', c) = [source |-> registry[i].source, active |-> registry[i].active]
      BY <2>2, <3>1, <3>2, BindingAt
    <3> QED BY <3>1, <3>3
  <2> QED BY <2>1, <2>2
<1> HIDE DEF bound
<1>7. Map(registry') = [Map(registry) EXCEPT ![b] = bound]
  BY <1>1, <1>5, <1>6 DEF Map
<1>8. Map(registry)[b] = Null /\ \A c \in Bases : Map(registry)[c] # Null => Map(registry)[c].source # s
  BY <1>1, <1>4, <1>6 DEF Map
<1>9. Bindings!Write(Map(registry'))
  BY <1>2, <1>3, WriteMapped
<1>10. Bindings!Bind(b, s)
  BY <1>7, <1>8, <1>9, Mapped DEF Bindings!Bind, bound
<1> QED BY <1>1, <1>10 DEF Bindings!Next

\* Activation and deactivation set the active word of a binding.
LEMMA ActivateMapped ==
  ASSUME TableInv, TableInv', Lookups, NEW b \in Bases, NEW a \in BOOLEAN, NEW i \in Indices,
         registry[i].formID = b,
         \A j \in Indices : registry'[j].formID = registry[j].formID,
         \A j \in Indices : j # i => registry'[j] = registry[j],
         registry'[i].source = registry[i].source, registry'[i].active = a,
         Witness(registry'), UNCHANGED operational
  PROVE  Bindings!Next
<1>1. registry \in [Indices -> RegistrySlot] /\ registry' \in [Indices -> RegistrySlot]
  BY DEF TableInv, IInv, WritersTyped
<1>2. Filled(registry) /\ Filled(registry')
  <2>1. TableInv' => Filled(registry)'
    BY RegistryFilled, PTL
  <2> QED BY <2>1, RegistryFilled DEF Filled
<1>3. \A j \in Indices : registry[j].formID = b => j = i
  BY <1>2, NamesAssumption DEF Filled
<1> DEFINE old == [source |-> registry[i].source, active |-> registry[i].active]
           new == [source |-> registry[i].source, active |-> a]
<1>4. Binding(registry, b) = old
  BY <1>3, BindingAt
<1>5. Binding(registry', b) = new
  <2>1. registry'[i].formID = b /\ \A j \in Indices : registry'[j].formID = b => j = i
    BY <1>3
  <2> QED BY <2>1, BindingAt
<1>6. old # Null
  <2>1. registry[i].source \in Sources /\ registry[i].active \in BOOLEAN
    BY <1>1, <1>2, NamesAssumption DEF Filled, RegistrySlot
  <2> QED BY <2>1, NamesAssumption
<1>7. new = [old EXCEPT !.active = a]
  OBVIOUS
<1>8. ASSUME NEW c \in Bases, c # b PROVE Binding(registry', c) = Binding(registry, c)
  <2>1. CASE \A j \in Indices : registry[j].formID # c
    <3>1. \A j \in Indices : registry'[j].formID # c
      BY <2>1
    <3> QED BY <2>1, <3>1, BindingAbsent
  <2>2. ASSUME NEW j \in Indices, registry[j].formID = c
        PROVE  Binding(registry', c) = Binding(registry, c)
    <3>1. registry'[j] = registry[j]
      BY <1>8, <2>2
    <3>2. /\ \A k \in Indices : registry[k].formID = c => k = j
          /\ \A k \in Indices : registry'[k].formID = c => k = j
      BY <1>2, <2>2, NamesAssumption DEF Filled
    <3> QED BY <2>2, <3>1, <3>2, BindingAt
  <2> QED BY <2>1, <2>2
<1> HIDE DEF old, new
<1>9. Map(registry') = [Map(registry) EXCEPT ![b].active = a] /\ Map(registry)[b] # Null
  BY <1>4, <1>5, <1>6, <1>7, <1>8 DEF Map
<1>10. Bindings!Write(Map(registry'))
  BY <1>1, <1>2, WriteMapped
<1>11. Bindings!SetActive(b, a)
  BY <1>9, <1>10, Mapped DEF Bindings!SetActive
<1> QED BY <1>11 DEF Bindings!Next

\* A step of a publication binds a source, or nothing anybody can see.
LEMMA PublishMapped ==
  ASSUME TableInv, TableInv', Lookups, NEW p \in Publishers, PublishRenderSource(p)
  PROVE  [Bindings!Next]_(Bindings!vars)
<1>1. CASE UNCHANGED <<operational, registry, reader>>
  BY <1>1, StutterMapped
<1>2. CASE \/ \E b \in Bases, s \in Sources : CallPublish(p, b, s)
           \/ LockPublish(p) \/ ScanRegistry(p) \/ ScanIndex(p)
           \/ StoreRegistrySlot(p) \/ StoreSource(p) \/ ReturnPublished(p)
  BY <1>1, <1>2 DEF CallPublish, LockPublish, ScanRegistry, ScanIndex, StoreRegistrySlot,
                    StoreSource, ReturnPublished, tables
<1>3. ASSUME NEW f \in {"source", "active", "faceTextureIdentity"}, StoreField(p, f)
      PROVE  UNCHANGED Bindings!vars
  <2>1. Witness(registry') /\ UNCHANGED operational
    BY <1>3 DEF StoreField, SetRegistry
  <2>2. /\ \A i \in Indices : registry[i].formID # Null => registry'[i] = registry[i]
        /\ \A i \in Indices : registry'[i].formID = registry[i].formID
    <3>1. registry \in [Indices -> RegistrySlot] /\ IInv'
      BY DEF TableInv, IInv, WritersTyped
    <3> QED BY <1>3, <3>1, StoreFieldTables DEF StoreField, SetRegistry, Stored, RegistrySlot
  <2>3. Filled(registry)
    BY RegistryFilled
  <2>4. ASSUME NEW b \in Bases PROVE Binding(registry', b) = Binding(registry, b)
    <3>1. CASE \A i \in Indices : registry[i].formID # b
      BY <2>2, <3>1, BindingAbsent
    <3>2. ASSUME NEW i \in Indices, registry[i].formID = b
          PROVE  Binding(registry', b) = Binding(registry, b)
      <4>1. registry'[i] = registry[i]
        BY <2>2, <3>2, NamesAssumption
      <4>2. /\ \A j \in Indices : registry[j].formID = b => j = i
            /\ \A j \in Indices : registry'[j].formID = b => j = i
        BY <2>2, <2>3, <3>2, NamesAssumption DEF Filled
      <4>3. /\ Binding(registry, b) = [source |-> registry[i].source, active |-> registry[i].active]
            /\ Binding(registry', b) = [source |-> registry[i].source, active |-> registry[i].active]
        BY <3>2, <4>1, <4>2, BindingAt
      <4> QED BY <4>3
    <3> QED BY <3>1, <3>2
  <2>5. Map(registry') = Map(registry)
    BY <2>4 DEF Map
  <2> QED BY <2>1, <2>5, KeptMapped
<1>4. CASE StoreFormID(p)
  BY <1>4, StoreFormIDMapped
<1> QED BY <1>2, <1>3, <1>4 DEF PublishRenderSource

\* Activation, deactivation and the kill.
LEMMA ActiveMapped ==
  ASSUME TableInv, TableInv', Lookups, NEW b \in Bases,
         ActivateRenderSource(b) \/ DeactivateRenderSource(b)
  PROVE  Bindings!Next
<1>1. PICK i \in Indices, a \in BOOLEAN :
        registry[i].formID = b /\ registry' = [registry EXCEPT ![i].active = a]
  BY DEF ActivateRenderSource, DeactivateRenderSource, SetRegistry, FindSlot
<1>2. Witness(registry') /\ UNCHANGED operational
  BY DEF ActivateRenderSource, DeactivateRenderSource, SetRegistry
<1>3. registry \in [Indices -> RegistrySlot]
  BY DEF TableInv, IInv, WritersTyped
<1>4. /\ \A j \in Indices : registry'[j].formID = registry[j].formID
      /\ \A j \in Indices : j # i => registry'[j] = registry[j]
      /\ registry'[i].source = registry[i].source /\ registry'[i].active = a
  BY <1>1, <1>3 DEF RegistrySlot
<1> QED BY <1>1, <1>2, <1>4, ActivateMapped

\* The kill disables the map.
LEMMA KillMapped ==
  ASSUME KillRuntime
  PROVE  Bindings!Next
<1>1. operational' = FALSE /\ Map(registry') = Map(registry) /\ Looks(reader') = Looks(reader)
  BY DEF KillRuntime, tables
<1> QED BY <1>1, Mapped DEF Bindings!Next, Bindings!Kill

\* One lookup changes.
LEMMA OneLookChanges ==
  ASSUME NEW r \in Readers, NEW e, reader \in [Readers -> ReaderState],
         reader' = [reader EXCEPT ![r] = e]
  PROVE  /\ Looks(reader') = [Looks(reader) EXCEPT ![r] = Look(e)]
         /\ Looks(reader)[r] = Look(reader[r])
<1>1. reader'[r] = e /\ \A q \in Readers : q # r => reader'[q] = reader[q]
  OBVIOUS
<1> HIDE DEF Look
<1> QED BY <1>1 DEF Looks

\* A lookup begins, goes on, answers with what it has seen, and is forgotten.
LEMMA BeginMapped ==
  ASSUME TableInv, Lookups, NEW r \in Readers, NEW b \in Bases, NEW via \in {"native", "thunk"},
         BeginLookup(r, b, via)
  PROVE  Bindings!Next
<1> DEFINE seen == {IF operational THEN Visible(registry, b) ELSE b}
           e == [IdleReader EXCEPT !.at = "probe", !.via = via, !.base = b, !.live = operational,
                                   !.seen = seen]
           look == [stage |-> "running", base |-> b, live |-> operational, may |-> seen]
<1>1. Look(e) = look
  BY DEF Look, IdleReader, Walking
<1>2. reader' = [reader EXCEPT ![r] = e] /\ reader[r].at = "idle" /\ reader \in [Readers -> ReaderState]
  BY DEF BeginLookup, Lookups
<1>3. Look(reader[r]).stage = "none"
  BY <1>2 DEF Look, Walking
<1>4. Looks(reader') = [Looks(reader) EXCEPT ![r] = look] /\ Looks(reader)[r].stage = "none"
  <2> HIDE DEF e, look
  <2> QED BY <1>1, <1>2, <1>3, OneLookChanges
<1>5. Bindings!Resolve(Map(registry), b) = Visible(registry, b)
  BY RegistryFilled, ResolveIsVisible DEF TableInv, IInv, WritersTyped
<1>6. Map(registry') = Map(registry) /\ UNCHANGED operational
  BY DEF BeginLookup, OnlyReaders, tables
<1>7. Bindings!Begin(r, b)
  BY <1>4, <1>5, <1>6, Mapped DEF Bindings!Begin
<1> QED BY <1>7 DEF Bindings!Next

\* The same of the steps in between and of the answer.
LEMMA ResolvesMapped ==
  ASSUME TableInv, Lookups, NEW r \in Readers, Resolves(r)
  PROVE  [Bindings!Next]_(Bindings!vars)
<1> DEFINE x == reader[r]
<1>1. /\ x.at \in Walking /\ Map(registry') = Map(registry) /\ UNCHANGED operational
      /\ Walks(r) \/ AnswersSeen(r)
  BY ResolvesMoves DEF OnlyReaders, tables
<1>2. x \in ReaderState /\ reader \in [Readers -> ReaderState]
  BY DEF Lookups
<1>3. Look(x) = [stage |-> "running", base |-> x.base, live |-> x.live, may |-> x.seen]
  BY <1>1 DEF Look
<1>4. ASSUME NEW e \in ReaderState, reader' = [reader EXCEPT ![r] = e], e.at \in Walking,
             e.base = x.base, e.live = x.live, e.seen = x.seen
      PROVE  UNCHANGED Bindings!vars
  <2>1. Look(e) = Look(x)
    BY <1>3, <1>4 DEF Look
  <2>2. Looks(reader') = [Looks(reader) EXCEPT ![r] = Look(e)] /\ Looks(reader)[r] = Look(x)
    BY <1>2, <1>4, OneLookChanges
  <2>3. Looks(reader') = Looks(reader)
    BY <2>1, <2>2 DEF Looks
  <2> QED BY <1>1, <2>3, StutterMapped
<1>5. ASSUME NEW v \in x.seen, Answers(r, v) PROVE Bindings!Next
  <2> DEFINE e == [x EXCEPT !.at = "answered", !.out = v, !.seen = {}]
  <2>1. reader' = [reader EXCEPT ![r] = e]
    BY <1>5 DEF Answers
  <2>2. e.at = "answered" /\ e.base = x.base /\ e.live = x.live /\ e.out = v
    BY <1>2 DEF ReaderState
  <2>3. Look(e) = [stage |-> "answered", base |-> x.base, live |-> x.live, may |-> {v}]
    BY <2>2 DEF Look, Walking
  <2>4. Looks(reader') = [Looks(reader) EXCEPT ![r] = Look(e)] /\ Looks(reader)[r] = Look(x)
    BY <1>2, <2>1, OneLookChanges
  <2>5. /\ Looks(reader)[r].stage = "running" /\ Looks(reader)[r].may = x.seen
        /\ Looks(reader)[r].base = x.base /\ Looks(reader)[r].live = x.live
    BY <1>3, <2>4
  <2>6. Looks(reader') = [Looks(reader) EXCEPT ![r] =
          [stage |-> "answered", base |-> @.base, live |-> @.live, may |-> {v}]]
    <3> HIDE DEF e
    <3> QED BY <2>3, <2>4, <2>5
  <2>7. Bindings!Answer(r)
    BY <1>1, <2>5, <2>6, Mapped DEF Bindings!Answer
  <2> QED BY <2>7 DEF Bindings!Next
<1> QED BY <1>1, <1>4, <1>5 DEF Walks, AnswersSeen

\* A reader that is not in a lookup has none in the map either.
LEMMA ForgetsMapped ==
  ASSUME Lookups, OnlyReaders, NEW r \in Readers, NEW e, reader' = [reader EXCEPT ![r] = e],
         e.at \notin Walking \cup {"answered"}, reader[r].at \notin Walking
  PROVE  [Bindings!Next]_(Bindings!vars)
<1>1. reader \in [Readers -> ReaderState] /\ Map(registry') = Map(registry) /\ UNCHANGED operational
  BY DEF Lookups, OnlyReaders, tables
<1>2. Look(e) = Bindings!NoLookup
  BY DEF Look, Bindings!NoLookup
<1>3. Looks(reader') = [Looks(reader) EXCEPT ![r] = Bindings!NoLookup]
  BY <1>1, <1>2, OneLookChanges
<1>4. Bindings!Forget(r)
  BY <1>1, <1>3, Mapped DEF Bindings!Forget
<1> QED BY <1>4 DEF Bindings!Next

\* The reverse lookups, and forgetting an answer.
LEMMA OthersMapped ==
  ASSUME Lookups, NEW r \in Readers, ReverseLookup(r) \/ Forget(r)
  PROVE  [Bindings!Next]_(Bindings!vars)
<1> DEFINE x == reader[r]
<1>1. x \in ReaderState /\ OnlyReaders
  BY DEF Lookups, ReverseLookup, Forget, BeginReverse, BypassReverse, LoadSourceKey, LoadRegistrySlot
<1>2. x.at \notin Walking
  BY DEF Walking, ReverseLookup, Forget, BeginReverse, BypassReverse, LoadSourceKey, LoadRegistrySlot
<1>3. \E e : reader' = [reader EXCEPT ![r] = e] /\ e.at \notin Walking \cup {"answered"}
  <2>1. CASE Forget(r)
    <3>1. IdleReader.at \notin Walking \cup {"answered"}
      BY DEF IdleReader, Walking
    <3> QED BY <2>1, <3>1 DEF Forget
  <2>2. ASSUME NEW asks, BeginReverse(r, asks)
        PROVE  \E e : reader' = [reader EXCEPT ![r] = e] /\ e.at \notin Walking \cup {"answered"}
    <3>1. PICK b, s : ReversesFor(r, b, s, asks)
      BY <2>2 DEF BeginReverse
    <3> DEFINE e == [IdleReader EXCEPT !.at = "reverse", !.asks = asks, !.base = b, !.source = s,
                                       !.live = operational]
    <3>2. e.at \notin Walking \cup {"answered"}
      BY DEF IdleReader, Walking
    <3>3. reader' = [reader EXCEPT ![r] = e]
      BY <3>1 DEF ReversesFor
    <3> HIDE DEF e
    <3> QED BY <3>2, <3>3
  <2>3. ASSUME NEW v, Reverses(r, v)
        PROVE  \E e : reader' = [reader EXCEPT ![r] = e] /\ e.at \notin Walking \cup {"answered"}
    <3> DEFINE e == [x EXCEPT !.at = "reversed", !.out = v]
    <3>1. e.at = "reversed" /\ reader' = [reader EXCEPT ![r] = e]
      BY <1>1, <2>3 DEF ReaderState, Reverses
    <3> HIDE DEF e
    <3> QED BY <3>1 DEF Walking
  <2>4. CASE Goes(r, "row")
    <3> DEFINE e == [x EXCEPT !.at = "row"]
    <3>1. e.at = "row" /\ reader' = [reader EXCEPT ![r] = e]
      BY <1>1, <2>4 DEF ReaderState, Goes
    <3> HIDE DEF e
    <3> QED BY <3>1 DEF Walking
  <2>5. CASE x.at = "reverse" /\ reader' = [reader EXCEPT ![r].probe = @ + 1]
    <3> DEFINE e == [x EXCEPT !.probe = @ + 1]
    <3>1. e.at = "reverse" /\ reader' = [reader EXCEPT ![r] = e]
      BY <1>1, <2>5 DEF ReaderState
    <3> HIDE DEF e
    <3> QED BY <3>1 DEF Walking
  <2> QED BY <2>1, <2>2, <2>3, <2>4, <2>5
          DEF ReverseLookup, BypassReverse, LoadSourceKey, LoadRegistrySlot
<1> QED BY <1>1, <1>2, <1>3, ForgetsMapped

\* One case per action.
LEMMA BindingsStep ==
  TableInv /\ TableInv' /\ Lookups /\ [Next]_vars => [Bindings!Next]_(Bindings!vars)
<1> SUFFICES ASSUME TableInv, TableInv', Lookups, [Next]_vars
             PROVE  [Bindings!Next]_(Bindings!vars)
  OBVIOUS
<1>1. ASSUME NEW p \in Publishers, PublishRenderSource(p) PROVE [Bindings!Next]_(Bindings!vars)
  BY <1>1, PublishMapped
<1>2. ASSUME NEW b \in Bases, ActivateRenderSource(b) \/ DeactivateRenderSource(b)
      PROVE  [Bindings!Next]_(Bindings!vars)
  BY <1>2, ActiveMapped
<1>3. CASE KillRuntime
  BY <1>3, KillMapped
<1>4. ASSUME NEW r \in Readers, Resolves(r) PROVE [Bindings!Next]_(Bindings!vars)
  BY <1>4, ResolvesMapped
<1>5. ASSUME NEW r \in Readers, NEW b \in Bases, NEW via \in {"native", "thunk"}, BeginLookup(r, b, via)
      PROVE  [Bindings!Next]_(Bindings!vars)
  BY <1>5, BeginMapped
<1>6. ASSUME NEW r \in Readers, ReverseLookup(r) \/ Forget(r)
      PROVE  [Bindings!Next]_(Bindings!vars)
  BY <1>6, OthersMapped
<1>7. CASE UNCHANGED vars
  BY <1>7, StutterMapped DEF vars, tables
<1> QED BY <1>1, <1>2, <1>3, <1>4, <1>5, <1>6, <1>7 DEF Next, ResolveRenderSource, Resolves

\* Nothing is bound at first.
LEMMA BindingsInitially == Init => Bindings!Init
<1> SUFFICES ASSUME Init PROVE Bindings!Init
  OBVIOUS
<1>1. \A i \in Indices : registry[i].formID = Null
  BY DEF Init, EmptySlot
<1>2. \A b \in Bases : registry = registry /\ Binding(registry, b) = Null
  BY <1>1, NamesAssumption, BindingAbsent
<1>3. Map(registry) = [b \in Bases |-> Null]
  BY <1>2 DEF Map
<1>4. \A r \in Readers : Look(reader[r]) = Bindings!NoLookup
  BY DEF Init, IdleReader, Look, Walking, Bindings!NoLookup
<1>5. Looks(reader) = [r \in Readers |-> Bindings!NoLookup]
  BY <1>4 DEF Looks
<1>6. operational = TRUE
  BY DEF Init
<1> QED BY <1>3, <1>5, <1>6, Mapped DEF Bindings!Init

\* Lookups are linearizable, for any tables, hashes, publishers and readers:
\* whatever a lock-free lookup or the generated thunk reads while sources are
\* published, activated and withdrawn, it answers with something that an
\* atomic map held at some moment of the lookup, and the map itself is only
\* ever extended, one source to one FormID.
THEOREM LookupsLinearize == Spec => ImplementsBindings
<1>1. Init => Bindings!Init
  BY BindingsInitially
<1>2. (TableInv /\ Lookups) /\ (TableInv /\ Lookups)' /\ [Next]_vars
      => [Bindings!Next]_(Bindings!vars)
  BY BindingsStep
<1> QED BY <1>1, <1>2, LookupsInvariant, PTL DEF Spec, ImplementsBindings, Bindings!Spec
===============================================================================
