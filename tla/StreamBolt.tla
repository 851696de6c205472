---------------------------- MODULE StreamBolt -----------------------------
(***************************************************************************)
(* BoltStreamStore, the stream store the program runs with: a bucket of    *)
(* streams, six index buckets, group counts and a stream count.  A         *)
(* transaction is one action; BulkUpsert and rebuildIndexes take one per   *)
(* batch.  Deletions and most readers go through the indexes.              *)
(***************************************************************************)
EXTENDS StreamOps

CONSTANTS
  Batch,     \* batchSize
  Matching,  \* query -> the keys <<name, id>> of the name bucket whose text has it
  KeyRank,   \* key of the name bucket -> its place in the bucket's order
  MaxCount   \* bound on the stream count, which grows without need

VARIABLES
  main,      \* the stream bucket
  idx,       \* the entries of the index buckets
  tree,      \* group counts by source and group
  count,     \* stream_count
  phase,     \* where Load is: load, wipe, fill or ready
  todo,      \* the buckets to wipe, or the streams to index
  cutShort   \* a crash fell into the fill of a rebuild

boltVars == <<main, idx, tree, count, phase, todo, cutShort>>

Buckets == {"account", "satip", "hdhr", "vod", "group", "name", "tree"}

-----------------------------------------------------------------------------
(* Index entries *)

sourceKey(st) == <<st.kind, st.src>>
GroupKey(st) == sourceKey(st) \o st.group

Entry(bkt, key, id) == [bkt |-> bkt, key |-> key, id |-> id]
SourceBucket(kind) == IF kind = "m3u" THEN "account" ELSE kind

\* The entries that addIndexEntries puts.  (Slip: none by type.)
EntriesButVod(id, st) ==
  {Entry(SourceBucket(st.kind), <<st.src>>, id), Entry("name", <<st.name>>, id)}
    \cup (IF st.group # <<>> THEN {Entry("group", GroupKey(st), id)} ELSE {})
addIndexEntries(id, st) ==
  {Entry(SourceBucket(st.kind), <<st.src>>, id), Entry("name", <<st.name>>, id)}
    \cup (IF st.group # <<>> THEN {Entry("group", GroupKey(st), id)} ELSE {})
    \cup (IF st.vod # "" THEN {Entry("vod", <<st.vod>>, id)} ELSE {})

\* The entries that removeIndexEntries deletes, from the stream as it was.
removeIndexEntries(id, st) ==
  {Entry(SourceBucket(st.kind), <<st.src>>, id), Entry("name", <<st.name>>, id)}
    \cup (IF st.group # <<>> THEN {Entry("group", GroupKey(st), id)} ELSE {})
    \cup (IF st.vod # "" THEN {Entry("vod", <<st.vod>>, id)} ELSE {})

GroupKeys(S, m) == {GroupKey(m[id]) : id \in {i \in S : m[i].group # <<>>}}
NumberIn(S, m, key) == Cardinality({id \in S : m[id].group # <<>> /\ GroupKey(m[id]) = key})
CountAt(t, key) == IF key \in DOMAIN t THEN t[key] ELSE 0

incrementTreeCount(t, S, m) ==
  [key \in DOMAIN t \cup GroupKeys(S, m) |-> CountAt(t, key) + NumberIn(S, m, key)]

\* A group without streams is deleted.
decrementTreeCount(t, S, m) ==
  [key \in {k \in DOMAIN t : t[k] > NumberIn(S, m, k)} |-> t[key] - NumberIn(S, m, key)]

CountLess(d) == IF d > count THEN 0 ELSE count - d

-----------------------------------------------------------------------------
(* Transactions *)

BoltInit ==
  /\ main \in {Empty} \cup {[id \in Ids |-> f] : f \in Feed}
  /\ idx = {} /\ tree = <<>>
  /\ count = Cardinality(Present(main))
  /\ phase = "load" /\ todo = {} /\ cutShort = FALSE

Ready == phase = "ready" /\ UNCHANGED <<phase, todo, cutShort>>

\* Streams S go, with the entries that belong to them.
Drop(S) ==
  /\ main' = Without(main, S)
  /\ idx' = idx \ UNION {removeIndexEntries(id, main[id]) : id \in S}
  /\ tree' = decrementTreeCount(tree, S, main)

\* bulkUpsertBatch
bulkUpsertBatch(b) ==
  LET old == DOMAIN b \cap Present(main) 
      new == Upserted(main, b) IN
  /\ Ready /\ Cardinality(DOMAIN b) <= Batch
  /\ main' = new
  /\ idx' = (idx \ UNION {removeIndexEntries(id, main[id]) : id \in old})
              \cup UNION {addIndexEntries(id, new[id]) : id \in DOMAIN b}
  /\ tree' = incrementTreeCount(decrementTreeCount(tree, old, main), DOMAIN b, new)
  /\ count + Cardinality(DOMAIN b \ old) <= MaxCount
  /\ count' = count + Cardinality(DOMAIN b \ old)

\* The streams that a bucket lists under a prefix.
ListedIn(bkt, prefix) ==
  {e.id : e \in {x \in idx : x.bkt = bkt /\ IsPrefix(prefix, x.key)}} \cap Present(main)

listByIndex(bkt, prefix) == ListedIn(bkt, prefix)

\* deleteByIndex leaves stream_count alone.
deleteByIndex(bkt, prefix) ==
  Ready /\ Drop(ListedIn(bkt, prefix)) /\ UNCHANGED count

deleteStaleByIndex(bkt, prefix, keep) ==
  /\ Ready /\ Drop(ListedIn(bkt, prefix) \ keep)
  /\ count' = CountLess(Cardinality(ListedIn(bkt, prefix) \ keep))

deleteOrphanedByIndex(bkt, known) ==
  LET S == UNION {ListedIn(bkt, e.key) : e \in {x \in idx : x.bkt = bkt /\ x.key[1] \notin known}} IN
  /\ Ready /\ Drop(S)
  /\ count' = CountLess(Cardinality(S))

Delete(id) ==
  /\ Ready /\ id \in Present(main)
  /\ Drop({id})
  /\ count' = CountLess(1)

\* updateStreamField: no indexed field changes.
updateStreamField(id, st) ==
  /\ Ready
  /\ main' = IF main[id] = None THEN main ELSE [main EXCEPT ![id] = st]
  /\ UNCHANGED <<idx, tree, count>>

\* Slip: the matches that users made are cleared too.
ClearAllTMDB(a) ==
  /\ Ready
  /\ main' = Changed(main, listByIndex("account", <<a>>), LAMBDA st : [st EXCEPT !.tmdb = 0])
  /\ UNCHANGED <<idx, tree, count>>

ClearAutoTMDBByAccountID(a) ==
  /\ Ready
  /\ main' = Changed(main, listByIndex("account", <<a>>), AutoTMDBCleared)
  /\ UNCHANGED <<idx, tree, count>>

UpdateWireGuardByAccountID(a, on) ==
  /\ Ready
  /\ main' = Changed(main, listByIndex("account", <<a>>), LAMBDA st : [st EXCEPT !.wg = on])
  /\ UNCHANGED <<idx, tree, count>>

\* Clear empties the buckets but not stream_count.
Clear ==
  /\ Ready
  /\ main' = Empty /\ idx' = {} /\ tree' = <<>>
  /\ UNCHANGED count

-----------------------------------------------------------------------------
(* Load *)

\* The indexes are rebuilt when there are streams and no groups.
NeedsRebuild == count > 0 /\ DOMAIN tree = {}

LoadIndexes ==
  /\ phase = "load"
  /\ \/ /\ NeedsRebuild
        /\ phase' = "wipe" /\ todo' = Buckets
     \/ /\ ~NeedsRebuild
        /\ phase' = "ready" /\ UNCHANGED todo
  /\ UNCHANGED <<main, idx, tree, count, cutShort>>

RebuildWipe(bkt) ==
  /\ phase = "wipe" /\ bkt \in todo
  /\ bkt = "tree" => todo = {"tree"}
  /\ idx' = {e \in idx : e.bkt # bkt}
  /\ tree' = IF bkt = "tree" THEN <<>> ELSE tree
  /\ \/ todo # {bkt} /\ todo' = todo \ {bkt} /\ UNCHANGED phase
     \/ todo = {bkt} /\ todo' = Present(main) /\ phase' = "fill"
  /\ UNCHANGED <<main, count, cutShort>>

RebuildFill(S) ==
  /\ phase = "fill" /\ S \subseteq todo /\ S # {} /\ Cardinality(S) <= Batch
  /\ idx' = idx \cup UNION {addIndexEntries(id, main[id]) : id \in S}
  /\ tree' = incrementTreeCount(tree, S, main)
  /\ todo' = todo \ S
  /\ UNCHANGED <<main, count, phase, cutShort>>

RebuildDone ==
  /\ phase = "fill" /\ todo = {}
  /\ count' = Cardinality(Present(main))
  /\ phase' = "ready"
  /\ UNCHANGED <<main, idx, tree, todo, cutShort>>

\* The program stops. A transaction that has returned is in the file, so what
\* is lost is the place in a rebuild; the file is synced by Save only, so this
\* is not said of a machine that stops.
BoltCrash ==
  /\ phase' = "load" /\ todo' = {}
  /\ cutShort' = (cutShort \/ (phase = "fill" /\ todo # {} /\ DOMAIN tree # {}))
  /\ UNCHANGED <<main, idx, tree, count>>

-----------------------------------------------------------------------------
Deletes ==
  \/ \E kind \in Kinds : \E src \in SourcesOf(kind) :
       \/ deleteByIndex(SourceBucket(kind), <<src>>)
       \/ \E keep \in SUBSET Ids : deleteStaleByIndex(SourceBucket(kind), <<src>>, keep)
  \/ \E kind \in Kinds : \E known \in SUBSET SourcesOf(kind) :
       deleteOrphanedByIndex(SourceBucket(kind), known)
  \/ \E id \in Ids : Delete(id)

Updates ==
  \/ \E id \in Ids :
       \/ updateStreamField(id, WithTMDB(main[id]))
       \/ updateStreamField(id, WithManualTMDB(main[id]))
       \/ updateStreamField(id, WithProbe(main[id]))
  \/ \E a \in SourcesOf("m3u") :
       ClearAutoTMDBByAccountID(a) \/ \E on \in BOOLEAN : UpdateWireGuardByAccountID(a, on)

Rebuild ==
  \/ LoadIndexes \/ RebuildDone
  \/ \E bkt \in Buckets : RebuildWipe(bkt)
  \/ \E S \in SUBSET Ids : RebuildFill(S)

BoltRequests ==
  (\E b \in Batches : bulkUpsertBatch(b)) \/ Deletes \/ Updates \/ Clear \/ BoltCrash

BoltNext == Rebuild \/ BoltRequests

BoltSpec == BoltInit /\ [][BoltNext]_boltVars

-----------------------------------------------------------------------------
(* Readers *)

\* The count of a group, and the streams listed for it; the prefix of a group
\* is also the prefix of the groups below it.
ListGroups(key) == CountAt(tree, key)
ListByGroup(key) == ListedIn("group", key)
\* A search goes through the keys, which are a name and an id, in their order,
\* until it has found limit of them.
First(limit, keys) == {k \in keys : Cardinality({j \in keys : KeyRank[j] < KeyRank[k]}) < limit}
NameKeys == {<<e.key[1], e.id>> : e \in {x \in idx : x.bkt = "name" /\ x.id \in Present(main)}}
SearchByName(q, limit) == First(limit, NameKeys \cap Matching[q])
StatsBySource(kind, src) == Cardinality({e \in idx : e.bkt = SourceBucket(kind) /\ e.key = <<src>>})

-----------------------------------------------------------------------------
(* Properties *)

\* Every reader answers from the indexes what the plain store would answer
\* from its map, after any sequence of upserts that move streams between
\* sources, groups and types, partial deletions and rebuilds; the one
\* exception is a rebuild that a crash cut short, which Load does not repeat.
SameAnswers ==
  phase = "ready" /\ ~cutShort =>
    /\ \A a \in SourcesOf("m3u") : listByIndex("account", <<a>>) = ListByAccountID(main, a)
    /\ \A s \in SourcesOf("satip") : listByIndex("satip", <<s>>) = ListBySatIPSourceID(main, s)
    /\ \A h \in SourcesOf("hdhr") : listByIndex("hdhr", <<h>>) = ListByHDHRSourceID(main, h)
    /\ \A kind \in Kinds : \A src \in SourcesOf(kind) :
         StatsBySource(kind, src) = Cardinality(OfSource(main, kind, src))
    /\ \A v \in Vod \ {""} : listByIndex("vod", <<v>>) = ListByVODType(main, v)
    /\ \A f \in Feed : f.group # <<>> =>
         /\ ListGroups(GroupKey(f)) = NumberIn(Present(main), main, GroupKey(f))
         /\ ListByGroup(GroupKey(f)) =
              {id \in Present(main) : main[id].group # <<>> /\ IsPrefix(GroupKey(f), GroupKey(main[id]))}
    /\ \A q \in DOMAIN Matching : \A limit \in 1..Cardinality(Ids) :
         SearchByName(q, limit) = First(limit, {<<main[id].name, id>> : id \in Present(main)} \cap Matching[q])

\* stream_count, which some deletions forget to lower, is never too low, so
\* that Load does not mistake a store with streams for an empty one.
CountCovers == Cardinality(Present(main)) <= count

\* Every reader of the store answers from the indexes what a scan would, and
\* its count is never too low.
IndexesAnswer == SameAnswers /\ CountCovers

\* What goes through the indexes has the effect it has on the plain store.
Plain == INSTANCE StreamStore WITH items <- main, disk <- main
ImplementsStore == [][main' # main => cutShort \/ Plain!StoreNext]_main

=============================================================================
