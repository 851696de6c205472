--------------------------- MODULE StreamIndexed ---------------------------
(***************************************************************************)
(* IndexedStreamStore: the streams are records appended to one byte slice, *)
(* an index holds what listings need and where the record is.  A position  *)
(* is a record number: records are taken to have equal lengths.            *)
(***************************************************************************)
EXTENDS StreamOps

CONSTANT MaxData   \* bound on the records appended between two saves

ASSUME IndexedAssumption ==
  /\ MaxData \in Nat
  /\ None \notin [st : Streams, pos : Nat] /\ None \notin Seq([id : Ids, st : Streams])

VARIABLES
  index,    \* stream id -> [st, pos], or None
  data,     \* dataFile
  disk,     \* streams.dat, or None
  legacy,   \* the gob file of an older version, or None
  lister,   \* the entries a List has taken and not yet read
  snapshot, \* the streams there were when it took them
  moved     \* the records have moved since

indexedVars == <<index, data, disk, legacy, lister, snapshot, moved>>

Record(id, st) == [id |-> id, st |-> st]
readable(e, d) == e # None /\ e.pos \in 1..Len(d)
readStream(e) == data[e.pos].st

\* The orders in which a caller can meet the streams S, and the place of one.
Orders(S) == {ids \in [1..Cardinality(S) -> S] : ToSet(ids) = S}
Place(ids, id) == CHOOSE i \in DOMAIN ids : ids[i] = id

\* (Slip: the position of the record before.)
OneShort(d, m, ids) == [id \in ToSet(ids) |-> [st |-> m[id], pos |-> Len(d) + Place(ids, id) - 1]]

\* appendStream for streams S, in the order in which the caller meets them.
appendStream(d, m, ids) == [id \in ToSet(ids) |-> [st |-> m[id], pos |-> Len(d) + Place(ids, id)]]

Records(m, ids) == [i \in DOMAIN ids |-> Record(ids[i], m[ids[i]])]

\* The streams S of map m become new records, and the index points at them.
Rewritten(m, S) ==
  \E ids \in Orders(S) :
    LET new == appendStream(data, m, ids) IN
    /\ Len(data) + Len(ids) <= MaxData
    /\ data' = data \o Records(m, ids)
    /\ index' = [id \in Ids |-> IF id \in S THEN new[id] ELSE index[id]]
    /\ UNCHANGED <<disk, legacy, lister, snapshot, moved>>

\* The fields of the streams as the index has them.
Fields == [id \in Ids |-> IF index[id] = None THEN None ELSE index[id].st]
\* The streams as a reader gets them.
Items == [id \in Ids |-> IF readable(index[id], data) THEN readStream(index[id]) ELSE None]
\* The streams that the records of a file hold: the last record of an id counts.
LastOf(d, id) == CHOOSE i \in 1..Len(d) : d[i].id = id /\ \A j \in i+1..Len(d) : d[j].id # id
Loaded(d) == [id \in Ids |-> IF \E i \in 1..Len(d) : d[i].id = id
                             THEN [st |-> d[LastOf(d, id)].st, pos |-> LastOf(d, id)] ELSE None]

-----------------------------------------------------------------------------
IndexedInit ==
  /\ index = Empty /\ data = <<>> /\ disk = None
  /\ legacy \in {None} \cup {[id \in Ids |-> f] : f \in Feed}
  /\ lister = Empty /\ snapshot = Empty /\ moved = FALSE

BulkUpsert(batch) == Rewritten(Upserted(Fields, batch), DOMAIN batch)

Forget(S) ==
  /\ index' = [id \in Ids |-> IF id \in S THEN None ELSE index[id]]
  /\ UNCHANGED <<data, disk, legacy, lister, snapshot, moved>>

DeleteStaleByAccountID(a, keep) == Forget(StaleOf(Fields, "m3u", a, keep))
DeleteByAccountID(a) == Forget(OfSource(Fields, "m3u", a))
DeleteStaleBySatIPSourceID(s, keep) == Forget(StaleOf(Fields, "satip", s, keep))
DeleteBySatIPSourceID(s) == Forget(OfSource(Fields, "satip", s))
DeleteStaleByHDHRSourceID(h, keep) == Forget(StaleOf(Fields, "hdhr", h, keep))
DeleteByHDHRSourceID(h) == Forget(OfSource(Fields, "hdhr", h))
DeleteOrphanedM3UStreams(known) == Forget(OrphansOf(Fields, "m3u", known))
DeleteOrphanedSatIPStreams(known) == Forget(OrphansOf(Fields, "satip", known))
DeleteOrphanedHDHRStreams(known) == Forget(OrphansOf(Fields, "hdhr", known))
IndexedDelete(id) == Forget({id})

\* updateIndexedField: the record is read, changed and appended.
updateIndexedField(id, st) ==
  readable(index[id], data) /\ Rewritten([Items EXCEPT ![id] = st], {id})

\* (Slip: the matches that users made are cleared too.)
IndexedClearAllTMDB(a) ==
  LET S == {id \in OfSource(Fields, "m3u", a) : Fields[id].tmdb > 0} IN
  Rewritten(Changed(Items, S, LAMBDA st : [st EXCEPT !.tmdb = 0]), S)

\* The automatic matches are told by the index, and changed in the records.
IndexedClearAutoTMDB(a) ==
  LET S == {id \in OfSource(Fields, "m3u", a) : Fields[id].tmdb > 0 /\ ~Fields[id].manual} IN
  Rewritten(Changed(Items, S, LAMBDA st : [st EXCEPT !.tmdb = 0]), S)

IndexedUpdateWireGuard(a, on) ==
  LET S == OfSource(Fields, "m3u", a) IN
  Rewritten(Changed(Items, S, LAMBDA st : [st EXCEPT !.wg = on]), S)

IndexedClear ==
  /\ index' = Empty /\ data' = <<>> /\ moved' = TRUE
  /\ UNCHANGED <<disk, legacy, lister, snapshot>>

\* Save drops the records that the index no longer points at, so the others
\* move.  The file is written beside and renamed.
Save ==
  \E ids \in Orders(Present(Items)) :
    /\ data' = Records(Items, ids)
    /\ index' = [id \in Ids |-> IF id \in ToSet(ids) THEN [st |-> index[id].st, pos |-> Place(ids, id)]
                                ELSE index[id]]
    /\ disk' = data' /\ moved' = TRUE
    /\ UNCHANGED <<legacy, lister, snapshot>>

\* A process that starts finds the file, or else the gob of an older version,
\* which it saves as a file.
Load ==
  /\ \/ /\ disk # None
        /\ data' = disk /\ index' = Loaded(disk) /\ UNCHANGED disk
     \/ /\ disk = None /\ legacy = None
        /\ data' = <<>> /\ index' = Empty /\ UNCHANGED disk
     \/ /\ disk = None /\ legacy # None
        /\ \E ids \in Orders(Present(legacy)) : data' = Records(legacy, ids)
        /\ index' = Loaded(data') /\ disk' = data'
  /\ lister' = Empty /\ snapshot' = Empty /\ moved' = FALSE
  /\ UNCHANGED legacy

\* List takes the index in one critical section and the records in another.
ListTake ==
  /\ lister' = index /\ snapshot' = Items /\ moved' = FALSE
  /\ UNCHANGED <<index, data, disk, legacy>>

ListResult == {Record(data[lister[id].pos].id, readStream(lister[id])) :
                 id \in {i \in Ids : readable(lister[i], data)}}

-----------------------------------------------------------------------------
IndexedNext ==
  \/ \E b \in Batches : BulkUpsert(b)
  \/ \E a \in SourcesOf("m3u") :
       DeleteByAccountID(a) \/ \E keep \in SUBSET Ids : DeleteStaleByAccountID(a, keep)
  \/ \E s \in SourcesOf("satip") :
       DeleteBySatIPSourceID(s) \/ \E keep \in SUBSET Ids : DeleteStaleBySatIPSourceID(s, keep)
  \/ \E h \in SourcesOf("hdhr") :
       DeleteByHDHRSourceID(h) \/ \E keep \in SUBSET Ids : DeleteStaleByHDHRSourceID(h, keep)
  \/ \E known \in SUBSET SourcesOf("m3u") : DeleteOrphanedM3UStreams(known)
  \/ \E known \in SUBSET SourcesOf("satip") : DeleteOrphanedSatIPStreams(known)
  \/ \E known \in SUBSET SourcesOf("hdhr") : DeleteOrphanedHDHRStreams(known)
  \/ \E id \in Ids :
       \/ IndexedDelete(id) \/ updateIndexedField(id, WithTMDB(Items[id]))
       \/ updateIndexedField(id, WithManualTMDB(Items[id]))
       \/ updateIndexedField(id, WithProbe(Items[id]))
  \/ \E a \in SourcesOf("m3u") :
       IndexedClearAutoTMDB(a) \/ \E on \in BOOLEAN : IndexedUpdateWireGuard(a, on)
  \/ IndexedClear \/ Save \/ Load \/ ListTake

IndexedSpec == IndexedInit /\ [][IndexedNext]_indexedVars

-----------------------------------------------------------------------------
(* Properties *)

\* An index entry is the summary of the record it points at, and every entry
\* can be read: the deletions, which decide by the index, and GetByID, which
\* reads the record, agree after any sequence of updates, saves and loads.
IndexDescribesRecords ==
  \A id \in Present(index) :
    readable(index[id], data) /\ data[index[id].pos] = Record(id, index[id].st)

\* Records are only appended until a save, so a List that runs between its two
\* locks with any writer but Save and Clear returns the streams of one moment.
ListIsSnapshot ==
  ~moved => ListResult = {Record(id, snapshot[id]) : id \in Present(snapshot)}

\* The index answers for the records, and a list is of one moment.
IndexedAnswers == IndexDescribesRecords /\ ListIsSnapshot

\* The detour over positions has the effect of the plain store.
SavedItems(d) == [id \in Ids |-> IF Loaded(d)[id] = None THEN None ELSE Loaded(d)[id].st]
PlainStore == INSTANCE StreamStore WITH
                items <- Items,
                disk <- IF disk # None THEN SavedItems(disk) ELSE IF legacy # None THEN legacy ELSE Empty
IndexedImplementsStore == [][indexedVars' # indexedVars => PlainStore!StoreNext]_(PlainStore!storeVars)

=============================================================================
