-------------------------- MODULE CatalogueProofs ---------------------------
(***************************************************************************)
(* Proofs about the two stream stores, for any streams, ids, sources and   *)
(* batches: the readers of BoltStreamStore answer what a scan of the       *)
(* streams would and its count is never too low, the index of              *)
(* IndexedStreamStore describes its records, and what either store does    *)
(* has the effect it has on the plain one; and about the programme guide,  *)
(* for any sources, channels and programmes.                               *)
(***************************************************************************)
EXTENDS StreamBolt, StreamIndexed, Guide, FiniteSetTheorems, FunctionTheorems,
        SequenceTheorems, WellFoundedInduction, TLAPS

-----------------------------------------------------------------------------
(***************************************************************************)
(* The bolt store (StreamBolt). While its indexes are rebuilt they hold a  *)
(* part of the streams, so the invariant says of every phase of Load which *)
(* part.                                                                   *)
(***************************************************************************)

\* The index entries and the group counts of the streams S of a map.
EntriesOf(S, m) == UNION {addIndexEntries(id, m[id]) : id \in S}
CountsGroups(t, S, m) ==
  /\ DOMAIN t = GroupKeys(S, m)
  /\ \A key \in GroupKeys(S, m) : t[key] = NumberIn(S, m, key)

\* The indexes are those of the streams S, no more and no less.
Indexed(S) == idx = EntriesOf(S, main) /\ CountsGroups(tree, S, main)

TypeOK ==
  /\ main \in Maps
  /\ count \in Nat
  /\ phase \in {"load", "wipe", "fill", "ready"}
  /\ cutShort \in BOOLEAN
  /\ \A e \in idx : e.bkt \in Buckets \ {"tree"}

\* While the buckets are wiped there are no groups, which are wiped last; a
\* bucket that is wiped stays empty.
Wiping ==
  phase = "wipe" =>
    /\ count > 0 /\ DOMAIN tree = {}
    /\ todo \subseteq Buckets /\ "tree" \in todo
    /\ \A e \in idx : e.bkt \in todo

\* While they are filled they hold the streams that are done.
Filling ==
  phase = "fill" =>
    /\ count > 0
    /\ todo \subseteq Present(main) /\ Indexed(Present(main) \ todo)

\* Load rebuilds indexes that are not those of the streams, and only then is
\* the store ready, unless a crash fell into the fill.
Loading == phase = "load" /\ ~cutShort => NeedsRebuild \/ Indexed(Present(main))
Exact == phase = "ready" /\ ~cutShort => Indexed(Present(main))

IInv == TypeOK /\ CountCovers /\ Wiping /\ Filling /\ Loading /\ Exact

-----------------------------------------------------------------------------
(* Groups and their counts *)

\* Who is in a group.
InGroup(S, m, key) == {id \in S : m[id].group # <<>> /\ GroupKey(m[id]) = key}

\* NumberIn counts finite sets, and a group has a key if somebody is in it.
LEMMA NumberIs ==
  ASSUME NEW S, IsFiniteSet(S), NEW m, NEW key
  PROVE  /\ NumberIn(S, m, key) \in Nat
         /\ key \in GroupKeys(S, m) <=> NumberIn(S, m, key) # 0
         /\ IsFiniteSet(InGroup(S, m, key))
<1>1. IsFiniteSet(InGroup(S, m, key))
  BY FS_Subset DEF InGroup
<1>2. NumberIn(S, m, key) = Cardinality(InGroup(S, m, key))
  BY DEF NumberIn, InGroup
<1>3. key \in GroupKeys(S, m) <=> InGroup(S, m, key) # {}
  BY DEF GroupKeys, InGroup
<1>4. Cardinality(InGroup(S, m, key)) = 0 <=> InGroup(S, m, key) = {}
  BY <1>1, FS_EmptySet
<1> QED BY <1>1, <1>2, <1>3, <1>4, FS_CardinalityType

\* The counts of two disjoint sets of streams add up.
LEMMA NumbersAdd ==
  ASSUME NEW S, IsFiniteSet(S), NEW T, IsFiniteSet(T), S \cap T = {}, NEW m, NEW key
  PROVE  NumberIn(S \cup T, m, key) = NumberIn(S, m, key) + NumberIn(T, m, key)
<1>1. /\ InGroup(S \cup T, m, key) = InGroup(S, m, key) \cup InGroup(T, m, key)
      /\ InGroup(S, m, key) \cap InGroup(T, m, key) = {}
  BY DEF InGroup
<1>2. IsFiniteSet(InGroup(S, m, key)) /\ IsFiniteSet(InGroup(T, m, key))
  BY NumberIs
<1>3. Cardinality(InGroup(S, m, key) \cup InGroup(T, m, key))
        = Cardinality(InGroup(S, m, key)) + Cardinality(InGroup(T, m, key))
  <2> DEFINE A == InGroup(S, m, key)
             B == InGroup(T, m, key)
  <2>1. Cardinality(A \cup B) = Cardinality(A) + Cardinality(B) - Cardinality(A \cap B)
    BY <1>2, FS_Union
  <2>2. Cardinality(A \cap B) = 0
    BY <1>1, FS_EmptySet
  <2>3. Cardinality(A) \in Nat /\ Cardinality(B) \in Nat
    BY <1>2, FS_CardinalityType
  <2> QED BY <2>1, <2>2, <2>3
<1> QED BY <1>1, <1>3 DEF NumberIn, InGroup

\* incrementTreeCount adds the streams to the groups.
LEMMA Incremented ==
  ASSUME NEW S, IsFiniteSet(S), NEW T, IsFiniteSet(T), S \cap T = {}, NEW m, NEW t,
         CountsGroups(t, T, m)
  PROVE  CountsGroups(incrementTreeCount(t, S, m), T \cup S, m)
<1> DEFINE u == incrementTreeCount(t, S, m)
<1>1. GroupKeys(T \cup S, m) = GroupKeys(T, m) \cup GroupKeys(S, m)
  BY DEF GroupKeys
<1>2. DOMAIN u = GroupKeys(T \cup S, m)
  BY <1>1 DEF incrementTreeCount, CountsGroups
<1>3. ASSUME NEW key \in GroupKeys(T \cup S, m) PROVE u[key] = NumberIn(T \cup S, m, key)
  <2>1. u[key] = CountAt(t, key) + NumberIn(S, m, key)
    BY <1>1 DEF incrementTreeCount, CountsGroups
  <2>2. CountAt(t, key) = NumberIn(T, m, key)
    BY NumberIs DEF CountAt, CountsGroups
  <2>3. NumberIn(T \cup S, m, key) = NumberIn(T, m, key) + NumberIn(S, m, key)
    BY NumbersAdd
  <2> QED BY <2>1, <2>2, <2>3
<1> QED BY <1>2, <1>3 DEF CountsGroups

\* decrementTreeCount takes them out, and drops the groups that are empty.
LEMMA Decremented ==
  ASSUME NEW T, IsFiniteSet(T), NEW S \in SUBSET T, NEW m, NEW t, CountsGroups(t, T, m)
  PROVE  CountsGroups(decrementTreeCount(t, S, m), T \ S, m)
<1> DEFINE u == decrementTreeCount(t, S, m)
<1>0. IsFiniteSet(S) /\ IsFiniteSet(T \ S)
  BY FS_Subset
<1>1. \A key : NumberIn(T, m, key) = NumberIn(T \ S, m, key) + NumberIn(S, m, key)
  <2> TAKE key
  <2>1. (T \ S) \cup S = T /\ (T \ S) \cap S = {}
    OBVIOUS
  <2> QED BY <1>0, <2>1, NumbersAdd
<1>2. DOMAIN u = {key \in GroupKeys(T, m) : t[key] > NumberIn(S, m, key)}
  BY DEF decrementTreeCount, CountsGroups
<1>3. \A key : key \in DOMAIN u <=> key \in GroupKeys(T \ S, m)
  <2> TAKE key
  <2>1. CASE key \in GroupKeys(T, m)
    <3>1. t[key] = NumberIn(T \ S, m, key) + NumberIn(S, m, key)
      BY <1>1, <2>1 DEF CountsGroups
    <3>2. NumberIn(T \ S, m, key) \in Nat /\ NumberIn(S, m, key) \in Nat
      BY <1>0, NumberIs
    <3>3. key \in GroupKeys(T \ S, m) <=> NumberIn(T \ S, m, key) # 0
      BY <1>0, NumberIs
    <3>4. key \in DOMAIN u <=> t[key] > NumberIn(S, m, key)
      BY <1>2, <2>1
    <3> HIDE DEF u
    <3> QED BY <3>1, <3>2, <3>3, <3>4
  <2>2. CASE key \notin GroupKeys(T, m)
    BY <1>2, <2>2 DEF GroupKeys
  <2> QED BY <2>1, <2>2
<1>4. ASSUME NEW key \in GroupKeys(T \ S, m) PROVE u[key] = NumberIn(T \ S, m, key)
  <2>1. key \in GroupKeys(T, m) /\ key \in DOMAIN u
    BY <1>3 DEF GroupKeys
  <2>2. u[key] = t[key] - NumberIn(S, m, key)
    BY <1>2, <2>1 DEF decrementTreeCount, CountsGroups
  <2>3. t[key] = NumberIn(T \ S, m, key) + NumberIn(S, m, key)
    BY <1>1, <2>1 DEF CountsGroups
  <2> QED BY <1>0, <2>2, <2>3, NumberIs
<1>5. DOMAIN u = GroupKeys(T \ S, m)
  BY <1>3
<1> QED BY <1>4, <1>5 DEF CountsGroups

\* What the groups of a stream depend on.
SameGroup(st, tt) == st.kind = tt.kind /\ st.src = tt.src /\ st.group = tt.group

\* The counts of maps that agree on the groups are the same.
LEMMA CountsSame ==
  ASSUME NEW S, NEW m, NEW n, NEW t, CountsGroups(t, S, m),
         \A id \in S : SameGroup(m[id], n[id])
  PROVE  CountsGroups(t, S, n)
<1>1. \A id \in S : m[id].group = n[id].group /\ GroupKey(m[id]) = GroupKey(n[id])
  BY DEF SameGroup, GroupKey, sourceKey
<1>2. GroupKeys(S, m) = GroupKeys(S, n)
  BY <1>1 DEF GroupKeys
<1>3. \A key : NumberIn(S, m, key) = NumberIn(S, n, key)
  <2> TAKE key
  <2>1. InGroup(S, m, key) = InGroup(S, n, key)
    BY <1>1 DEF InGroup
  <2> QED BY <2>1 DEF NumberIn, InGroup
<1> QED BY <1>2, <1>3 DEF CountsGroups

-----------------------------------------------------------------------------
(* Index entries *)

\* An entry belongs to the stream it was made for.
LEMMA EntryOfId ==
  \A id, st : \A e \in addIndexEntries(id, st) :
    e = Entry(e.bkt, e.key, id) /\ e.id = id /\ e.bkt \in {SourceBucket(st.kind), "name", "group", "vod"}
<1> SUFFICES ASSUME NEW id, NEW st, NEW e \in addIndexEntries(id, st)
             PROVE  e = Entry(e.bkt, e.key, id) /\ e.id = id
                      /\ e.bkt \in {SourceBucket(st.kind), "name", "group", "vod"}
  OBVIOUS
<1>1. PICK b \in {SourceBucket(st.kind), "name", "group", "vod"}, k \in {<<st.src>>, <<st.name>>, GroupKey(st), <<st.vod>>} :
        e = Entry(b, k, id)
  BY Zenon DEF addIndexEntries
<1> QED BY <1>1 DEF Entry

\* What is removed for a stream is what was put for it.
LEMMA RemovesWhatItPut == \A id, st : removeIndexEntries(id, st) = addIndexEntries(id, st)
BY DEF addIndexEntries, removeIndexEntries

\* The entries of more or fewer streams.
LEMMA EntriesAdd ==
  ASSUME NEW S, NEW T, NEW m
  PROVE  EntriesOf(S, m) \cup EntriesOf(T, m) = EntriesOf(S \cup T, m)
BY DEF EntriesOf

\* Taking out the entries of some streams leaves those of the others.
LEMMA EntriesLess ==
  ASSUME NEW S, NEW R, NEW m
  PROVE  EntriesOf(S, m) \ UNION {removeIndexEntries(id, m[id]) : id \in R} = EntriesOf(S \ R, m)
<1>1. UNION {removeIndexEntries(id, m[id]) : id \in R} = EntriesOf(R, m)
  BY RemovesWhatItPut DEF EntriesOf
<1>2. \A id, jd \in S \cup R : addIndexEntries(id, m[id]) \cap addIndexEntries(jd, m[jd]) # {} => id = jd
  BY EntryOfId
<1> QED BY <1>1, <1>2 DEF EntriesOf

\* What the entries of a stream depend on.
SameEntries(st, tt) == SameGroup(st, tt) /\ st.name = tt.name /\ st.vod = tt.vod

\* Maps that agree on what the indexes show have the same entries.
LEMMA EntriesSame ==
  ASSUME NEW S, NEW m, NEW n, \A id \in S : SameEntries(m[id], n[id])
  PROVE  EntriesOf(S, m) = EntriesOf(S, n)
<1>1. \A id \in S : addIndexEntries(id, m[id]) = addIndexEntries(id, n[id])
  BY DEF SameEntries, SameGroup, addIndexEntries, GroupKey, sourceKey
<1> QED BY <1>1 DEF EntriesOf

-----------------------------------------------------------------------------
(* Readers *)

\* A key of one part is a prefix of another if the parts are the same.
LEMMA PrefixOne == \A a, b : IsPrefix(<<a>>, <<b>>) <=> a = b
<1> TAKE a, b
<1>1. Len(<<a>>) = 1 /\ Len(<<b>>) = 1
  OBVIOUS
<1>2. \A c : SubSeq(<<c>>, 1, 1) = <<c>>
  <2> TAKE c
  <2>1. <<c>> \in Seq({c}) /\ Len(<<c>>) = 1
    OBVIOUS
  <2> QED BY <2>1, SubSeqFull
<1> QED BY <1>1, <1>2 DEF IsPrefix

\* The fields of an entry, and the buckets of the kinds.
LEMMA EntryFields ==
  \A b, key, id : Entry(b, key, id).bkt = b /\ Entry(b, key, id).key = key /\ Entry(b, key, id).id = id
BY DEF Entry

\* Each kind of source has a bucket of its own.
LEMMA KindBuckets ==
  /\ \A kind \in Kinds : SourceBucket(kind) \in {"account", "satip", "hdhr"}
  /\ \A kind, other \in Kinds : SourceBucket(kind) = SourceBucket(other) => kind = other
BY DEF SourceBucket, Kinds

\* The entries of a stream in each bucket.
SourceEntry(id, st) == Entry(SourceBucket(st.kind), <<st.src>>, id)
NameEntry(id, st) == Entry("name", <<st.name>>, id)
VodEntry(id, st) == Entry("vod", <<st.vod>>, id)
GroupEntry(id, st) == Entry("group", GroupKey(st), id)
HasVod(st) == st.vod # ""
HasGroup(st) == st.group # <<>>

\* The bucket of each entry.
LEMMA EntryBuckets ==
  \A id, st : /\ SourceEntry(id, st).bkt = SourceBucket(st.kind) /\ NameEntry(id, st).bkt = "name"
              /\ VodEntry(id, st).bkt = "vod" /\ GroupEntry(id, st).bkt = "group"
BY EntryFields DEF SourceEntry, NameEntry, VodEntry, GroupEntry

\* The key of each entry.
LEMMA EntryKeys ==
  \A id, st : /\ SourceEntry(id, st).key = <<st.src>> /\ NameEntry(id, st).key = <<st.name>>
              /\ VodEntry(id, st).key = <<st.vod>> /\ GroupEntry(id, st).key = GroupKey(st)
BY EntryFields DEF SourceEntry, NameEntry, VodEntry, GroupEntry

\* What an entry of a stream is follows from its bucket.
LEMMA EntriesByBucket ==
  ASSUME NEW id, NEW st, st.kind \in Kinds, NEW e \in addIndexEntries(id, st)
  PROVE  /\ \A kind \in Kinds : e.bkt = SourceBucket(kind) => st.kind = kind /\ e = SourceEntry(id, st)
         /\ e.bkt = "name" => e = NameEntry(id, st)
         /\ e.bkt = "vod" => HasVod(st) /\ e = VodEntry(id, st)
         /\ e.bkt = "group" => HasGroup(st) /\ e = GroupEntry(id, st)
<1>1. \/ e = SourceEntry(id, st)
      \/ e = NameEntry(id, st)
      \/ HasGroup(st) /\ e = GroupEntry(id, st)
      \/ HasVod(st) /\ e = VodEntry(id, st)
  BY Zenon DEF addIndexEntries, SourceEntry, NameEntry, GroupEntry, VodEntry, HasGroup, HasVod
<1>2. \A kind \in Kinds : SourceBucket(kind) \notin {"name", "vod", "group"}
  BY KindBuckets
<1> QED BY <1>1, <1>2, KindBuckets, EntryBuckets

\* And the stream has an entry in each bucket it belongs to.
LEMMA BucketsOfEntries ==
  ASSUME NEW id, NEW st
  PROVE  /\ SourceEntry(id, st) \in addIndexEntries(id, st)
         /\ NameEntry(id, st) \in addIndexEntries(id, st)
         /\ HasVod(st) => VodEntry(id, st) \in addIndexEntries(id, st)
         /\ HasGroup(st) => GroupEntry(id, st) \in addIndexEntries(id, st)
BY Zenon DEF addIndexEntries, SourceEntry, NameEntry, GroupEntry, VodEntry, HasGroup, HasVod

\* What a bucket lists under a prefix.
LEMMA ListedAre ==
  ASSUME idx = EntriesOf(Present(main), main), NEW bkt, NEW prefix
  PROVE  ListedIn(bkt, prefix) =
           {id \in Present(main) :
              \E e \in addIndexEntries(id, main[id]) : e.bkt = bkt /\ IsPrefix(prefix, e.key)}
BY EntryOfId DEF ListedIn, EntriesOf

\* A stream that is there is a stream, of a known kind.
LEMMA StreamsThere ==
  ASSUME NEW m \in Maps, NEW id \in Present(m)
  PROVE  id \in Ids /\ m[id] \in Streams /\ m[id].kind \in Kinds
BY DEF Maps, Present, Streams

\* The buckets of sources, types and groups list what a scan finds.
LEMMA ListedSource ==
  ASSUME main \in Maps, idx = EntriesOf(Present(main), main), NEW kind \in Kinds, NEW src
  PROVE  ListedIn(SourceBucket(kind), <<src>>) = OfSource(main, kind, src)
<1>1. ASSUME NEW id \in Present(main)
      PROVE  (\E e \in addIndexEntries(id, main[id]) : e.bkt = SourceBucket(kind) /\ IsPrefix(<<src>>, e.key))
               <=> main[id].kind = kind /\ main[id].src = src
  <2>1. main[id].kind \in Kinds
    BY StreamsThere
  <2>2. ASSUME NEW e \in addIndexEntries(id, main[id]), e.bkt = SourceBucket(kind), IsPrefix(<<src>>, e.key)
        PROVE  main[id].kind = kind /\ main[id].src = src
    BY <2>1, <2>2, EntriesByBucket, EntryKeys, PrefixOne
  <2>3. ASSUME main[id].kind = kind /\ main[id].src = src
        PROVE  \E e \in addIndexEntries(id, main[id]) : e.bkt = SourceBucket(kind) /\ IsPrefix(<<src>>, e.key)
    BY <2>3, BucketsOfEntries, EntryBuckets, EntryKeys, PrefixOne
  <2> QED BY <2>2, <2>3
<1> QED BY <1>1, ListedAre DEF OfSource, OfKind

\* The keys of the name bucket are the names of the streams, with their ids.
LEMMA NamesAre ==
  ASSUME main \in Maps, idx = EntriesOf(Present(main), main)
  PROVE  NameKeys = {<<main[id].name, id>> : id \in Present(main)}
<1> DEFINE E == {x \in idx : x.bkt = "name" /\ x.id \in Present(main)}
<1>1. ASSUME NEW id \in Present(main), NEW e \in addIndexEntries(id, main[id]), e.bkt = "name"
      PROVE  e.key[1] = main[id].name /\ e.id = id
  <2>1. e = NameEntry(id, main[id])
    BY <1>1, StreamsThere, EntriesByBucket
  <2>2. e.key = <<main[id].name>>
    BY <2>1, EntryKeys
  <2> QED BY <1>1, <2>2, EntryOfId
<1>2. ASSUME NEW e \in E
      PROVE  \E id \in Present(main) : <<e.key[1], e.id>> = <<main[id].name, id>>
  <2>1. PICK id \in Present(main) : e \in addIndexEntries(id, main[id])
    BY DEF EntriesOf
  <2> QED BY <1>1, <2>1
<1>3. ASSUME NEW id \in Present(main)
      PROVE  \E e \in E : <<e.key[1], e.id>> = <<main[id].name, id>>
  <2>1. PICK e \in addIndexEntries(id, main[id]) : e.bkt = "name"
    BY BucketsOfEntries, EntryBuckets
  <2>2. e.key[1] = main[id].name /\ e.id = id /\ e \in idx
    BY <1>1, <2>1 DEF EntriesOf
  <2> QED BY <1>3, <2>1, <2>2
<1>4. NameKeys = {<<e.key[1], e.id>> : e \in E}
  BY DEF NameKeys
<1> QED BY <1>2, <1>3, <1>4

\* A type's prefix lists the streams of that type, if it is given.
LEMMA ListedVod ==
  ASSUME main \in Maps, idx = EntriesOf(Present(main), main), NEW v,
         \A st : st.vod = v => HasVod(st)
  PROVE  ListedIn("vod", <<v>>) = {id \in Present(main) : main[id].vod = v}
<1>1. ASSUME NEW id \in Present(main)
      PROVE  (\E e \in addIndexEntries(id, main[id]) : e.bkt = "vod" /\ IsPrefix(<<v>>, e.key))
               <=> main[id].vod = v
  <2>1. main[id].kind \in Kinds
    BY StreamsThere
  <2>2. ASSUME NEW e \in addIndexEntries(id, main[id]), e.bkt = "vod", IsPrefix(<<v>>, e.key)
        PROVE  main[id].vod = v
    BY <2>1, <2>2, EntriesByBucket, EntryKeys, PrefixOne
  <2>3. ASSUME main[id].vod = v
        PROVE  \E e \in addIndexEntries(id, main[id]) : e.bkt = "vod" /\ IsPrefix(<<v>>, e.key)
    BY <2>3, BucketsOfEntries, EntryBuckets, EntryKeys, PrefixOne
  <2> QED BY <2>2, <2>3
<1> QED BY <1>1, ListedAre

\* The same of the groups, with those below them.
LEMMA ListedGroup ==
  ASSUME main \in Maps, idx = EntriesOf(Present(main), main), NEW prefix
  PROVE  ListedIn("group", prefix) = {id \in Present(main) : main[id].group # <<>> /\ IsPrefix(prefix, GroupKey(main[id]))}
<1>1. ASSUME NEW id \in Present(main)
      PROVE  (\E e \in addIndexEntries(id, main[id]) : e.bkt = "group" /\ IsPrefix(prefix, e.key))
               <=> HasGroup(main[id]) /\ IsPrefix(prefix, GroupKey(main[id]))
  <2>1. main[id].kind \in Kinds
    BY StreamsThere
  <2>2. ASSUME NEW e \in addIndexEntries(id, main[id]), e.bkt = "group", IsPrefix(prefix, e.key)
        PROVE  HasGroup(main[id]) /\ IsPrefix(prefix, GroupKey(main[id]))
    BY <2>1, <2>2, EntriesByBucket, EntryKeys, PrefixOne
  <2>3. ASSUME HasGroup(main[id]) /\ IsPrefix(prefix, GroupKey(main[id]))
        PROVE  \E e \in addIndexEntries(id, main[id]) : e.bkt = "group" /\ IsPrefix(prefix, e.key)
    BY <2>3, BucketsOfEntries, EntryBuckets, EntryKeys, PrefixOne
  <2> QED BY <2>2, <2>3
<1> QED BY <1>1, ListedAre DEF HasGroup

\* The orphans that the bucket of a kind shows are those of a scan.
LEMMA ListedOrphans ==
  ASSUME main \in Maps, idx = EntriesOf(Present(main), main), NEW kind \in Kinds, NEW known
  PROVE  UNION {ListedIn(SourceBucket(kind), e.key) :
                  e \in {x \in idx : x.bkt = SourceBucket(kind) /\ x.key[1] \notin known}}
           = OrphansOf(main, kind, known)
<1> DEFINE E == {x \in idx : x.bkt = SourceBucket(kind) /\ x.key[1] \notin known}
<1>1. \A e \in E : \E id \in OrphansOf(main, kind, known) : e.key = <<main[id].src>>
  <2> SUFFICES ASSUME NEW e \in E
               PROVE  \E id \in OrphansOf(main, kind, known) : e.key = <<main[id].src>>
    OBVIOUS
  <2>1. PICK id \in Present(main) : e \in addIndexEntries(id, main[id])
    BY DEF EntriesOf
  <2>2. main[id].kind = kind /\ e = SourceEntry(id, main[id])
    BY <2>1, EntriesByBucket, StreamsThere
  <2>3. e.key = <<main[id].src>> /\ e.key[1] = main[id].src
    BY <2>2, EntryKeys
  <2> QED BY <2>2, <2>3 DEF OrphansOf, OfKind
<1>2. \A id \in OrphansOf(main, kind, known) : SourceEntry(id, main[id]) \in E
  <2> SUFFICES ASSUME NEW id \in OrphansOf(main, kind, known) PROVE SourceEntry(id, main[id]) \in E
    OBVIOUS
  <2>1. id \in Present(main) /\ main[id].kind = kind /\ main[id].src \notin known
    BY DEF OrphansOf, OfKind
  <2>2. /\ SourceEntry(id, main[id]) \in addIndexEntries(id, main[id])
        /\ SourceEntry(id, main[id]).bkt = SourceBucket(kind)
    BY <2>1, BucketsOfEntries, EntryBuckets
  <2>3. SourceEntry(id, main[id]).key[1] = main[id].src
    BY EntryKeys
  <2> QED BY <2>1, <2>2, <2>3 DEF EntriesOf
<1>3. \A e \in E : ListedIn(SourceBucket(kind), e.key) \subseteq OrphansOf(main, kind, known)
  <2> SUFFICES ASSUME NEW e \in E
               PROVE  ListedIn(SourceBucket(kind), e.key) \subseteq OrphansOf(main, kind, known)
    OBVIOUS
  <2>1. PICK id \in OrphansOf(main, kind, known) : e.key = <<main[id].src>>
    BY <1>1
  <2>2. ListedIn(SourceBucket(kind), e.key) = OfSource(main, kind, main[id].src)
    BY <2>1, ListedSource
  <2> QED BY <2>2 DEF OfSource, OrphansOf
<1>4. \A id \in OrphansOf(main, kind, known) : \E e \in E : id \in ListedIn(SourceBucket(kind), e.key)
  <2> SUFFICES ASSUME NEW id \in OrphansOf(main, kind, known)
               PROVE  \E e \in E : id \in ListedIn(SourceBucket(kind), e.key)
    OBVIOUS
  <2>1. SourceEntry(id, main[id]).key = <<main[id].src>>
    BY EntryKeys
  <2>2. id \in ListedIn(SourceBucket(kind), <<main[id].src>>)
    BY ListedSource DEF OfSource, OrphansOf
  <2> QED BY <1>2, <2>1, <2>2
<1> QED BY <1>3, <1>4

\* Statistics count the entries of a source, which has one for each stream.
LEMMA StatsOfSource ==
  ASSUME main \in Maps, idx = EntriesOf(Present(main), main), NEW kind \in Kinds, NEW src
  PROVE  StatsBySource(kind, src) = Cardinality(OfSource(main, kind, src))
<1> DEFINE E == {e \in idx : e.bkt = SourceBucket(kind) /\ e.key = <<src>>}
           S == OfSource(main, kind, src)
           f == [id \in S |-> SourceEntry(id, main[id])]
<1>1. \A id \in S : SourceEntry(id, main[id]) \in E
  <2> SUFFICES ASSUME NEW id \in S PROVE SourceEntry(id, main[id]) \in E
    OBVIOUS
  <2>1. id \in Present(main) /\ main[id].kind = kind /\ main[id].src = src
    BY DEF OfSource, OfKind
  <2>2. SourceEntry(id, main[id]) \in addIndexEntries(id, main[id])
    BY BucketsOfEntries
  <2> QED BY <2>1, <2>2, EntryBuckets, EntryKeys DEF EntriesOf
<1>2. \A id, jd \in S : SourceEntry(id, main[id]) = SourceEntry(jd, main[jd]) => id = jd
  BY EntryFields DEF SourceEntry
<1>3. \A e \in E : \E id \in S : e = SourceEntry(id, main[id])
  <2> SUFFICES ASSUME NEW e \in E PROVE \E id \in S : e = SourceEntry(id, main[id])
    OBVIOUS
  <2>1. PICK id \in Present(main) : e \in addIndexEntries(id, main[id])
    BY DEF EntriesOf
  <2>2. main[id].kind = kind /\ e = SourceEntry(id, main[id])
    BY <2>1, EntriesByBucket, StreamsThere
  <2>3. main[id].src = src
    BY <2>2, EntryKeys
  <2> QED BY <2>1, <2>2, <2>3 DEF OfSource, OfKind
<1>4. f \in Bijection(S, E)
  BY <1>1, <1>2, <1>3 DEF Bijection, Injection, Surjection, IsInjective
<1>5. IsFiniteSet(S)
  <2>1. S \subseteq Ids
    BY DEF OfSource, OfKind, Present
  <2> QED BY <2>1, StreamAssumption, FS_Subset DEF StreamAssumption
<1>6. Cardinality(E) = Cardinality(S)
  BY <1>4, <1>5, FS_Bijection DEF ExistsBijection
<1> QED BY <1>6 DEF StatsBySource

\* Present streams are finitely many.
LEMMA PresentFinite == \A m : IsFiniteSet(Present(m)) /\ Cardinality(Present(m)) \in Nat
<1> TAKE m
<1>1. Present(m) \subseteq Ids
  BY DEF Present
<1>2. IsFiniteSet(Present(m))
  BY <1>1, StreamAssumption, FS_Subset DEF StreamAssumption
<1> QED BY <1>2, FS_CardinalityType

\* With the right entries and counts every reader answers as a scan would.
LEMMA Answers ==
  ASSUME main \in Maps, Indexed(Present(main))
  PROVE  SameAnswers
<1>1. idx = EntriesOf(Present(main), main) /\ CountsGroups(tree, Present(main), main)
  BY DEF Indexed
<1>2. /\ "m3u" \in Kinds /\ "satip" \in Kinds /\ "hdhr" \in Kinds
      /\ SourceBucket("m3u") = "account" /\ SourceBucket("satip") = "satip"
      /\ SourceBucket("hdhr") = "hdhr"
  BY DEF Kinds, SourceBucket
<1>3. \A a : listByIndex("account", <<a>>) = ListByAccountID(main, a)
  <2> TAKE a
  <2>1. ListedIn(SourceBucket("m3u"), <<a>>) = OfSource(main, "m3u", a)
    BY <1>1, <1>2, ListedSource
  <2> QED BY <1>2, <2>1 DEF listByIndex, ListByAccountID
<1>4. \A s : listByIndex("satip", <<s>>) = ListBySatIPSourceID(main, s)
  <2> TAKE s
  <2>1. ListedIn(SourceBucket("satip"), <<s>>) = OfSource(main, "satip", s)
    BY <1>1, <1>2, ListedSource
  <2> QED BY <1>2, <2>1 DEF listByIndex, ListBySatIPSourceID
<1>5. \A h : listByIndex("hdhr", <<h>>) = ListByHDHRSourceID(main, h)
  <2> TAKE h
  <2>1. ListedIn(SourceBucket("hdhr"), <<h>>) = OfSource(main, "hdhr", h)
    BY <1>1, <1>2, ListedSource
  <2> QED BY <1>2, <2>1 DEF listByIndex, ListByHDHRSourceID
<1>6. \A kind \in Kinds : \A src : StatsBySource(kind, src) = Cardinality(OfSource(main, kind, src))
  BY <1>1, StatsOfSource
<1>7. \A v \in Vod \ {""} : listByIndex("vod", <<v>>) = ListByVODType(main, v)
  <2> TAKE v \in Vod \ {""}
  <2>1. \A st : st.vod = v => HasVod(st)
    BY Zenon DEF HasVod
  <2>2. ListedIn("vod", <<v>>) = {id \in Present(main) : main[id].vod = v}
    BY <1>1, <2>1, ListedVod
  <2> QED BY <2>2, Zenon DEF listByIndex, ListByVODType
<1>8. \A key : CountAt(tree, key) = NumberIn(Present(main), main, key)
  <2> TAKE key
  <2>1. key \in GroupKeys(Present(main), main) <=> NumberIn(Present(main), main, key) # 0
    BY PresentFinite, NumberIs
  <2> QED BY <1>1, <2>1 DEF CountAt, CountsGroups
<1>9. \A key : ListByGroup(key) =
        {id \in Present(main) : main[id].group # <<>> /\ IsPrefix(key, GroupKey(main[id]))}
  BY <1>1, ListedGroup DEF ListByGroup
<1>10. \A q, limit :
         SearchByName(q, limit) = First(limit, {<<main[id].name, id>> : id \in Present(main)} \cap Matching[q])
  BY <1>1, NamesAre DEF SearchByName
<1> QED
  BY <1>3, <1>4, <1>5, <1>6, <1>7, <1>8, <1>9, <1>10, Zenon DEF SameAnswers, ListGroups

-----------------------------------------------------------------------------
(* Writes *)

\* What is left when streams are taken out.
LEMMA WithoutThem ==
  ASSUME NEW m \in Maps, NEW S
  PROVE  /\ Without(m, S) \in Maps
         /\ Present(Without(m, S)) = Present(m) \ S
         /\ \A id \in Present(m) \ S : Without(m, S)[id] = m[id]
BY DEF Maps, Without, Present

\* The indexes follow when streams go.
LEMMA DropKeepsIndexes ==
  ASSUME main \in Maps, Indexed(Present(main)), NEW S \in SUBSET Present(main), Drop(S)
  PROVE  Indexed(Present(main))'
<1> DEFINE R == Present(main) \ S
<1>1. main' = Without(main, S) /\ Present(main') = R /\ \A id \in R : main'[id] = main[id]
  BY WithoutThem DEF Drop
<1>2. \A id \in R : SameEntries(main[id], main'[id]) /\ SameGroup(main[id], main'[id])
  BY <1>1 DEF SameEntries, SameGroup
<1>3. idx' = EntriesOf(R, main)
  BY EntriesLess DEF Drop, Indexed
<1>4. EntriesOf(R, main) = EntriesOf(R, main')
  BY <1>2, EntriesSame
<1>5. CountsGroups(tree', R, main)
  BY PresentFinite, Decremented DEF Drop, Indexed
<1>6. CountsGroups(tree', R, main')
  BY <1>2, <1>5, CountsSame
<1> QED BY <1>1, <1>3, <1>4, <1>6 DEF Indexed

\* A transaction of a store that is ready keeps the invariant if it keeps the
\* types, the count and the indexes.
LEMMA ReadyKeeps ==
  ASSUME IInv, Ready, main' \in Maps, count' \in Nat, Cardinality(Present(main')) <= count',
         \A e \in idx' : e.bkt \in Buckets \ {"tree"},
         Indexed(Present(main)) => Indexed(Present(main))'
  PROVE  IInv'
<1>1. phase = "ready" /\ UNCHANGED <<phase, todo, cutShort>>
  BY DEF Ready
<1>2. TypeOK' /\ CountCovers'
  BY <1>1 DEF IInv, TypeOK, CountCovers
<1>3. Wiping' /\ Filling' /\ Loading'
  BY <1>1 DEF Wiping, Filling, Loading
<1>4. Exact'
  BY <1>1 DEF IInv, Exact
<1> QED BY <1>2, <1>3, <1>4 DEF IInv

\* A deletion keeps it, whether it lowers the count or forgets to.
LEMMA DropKeeps ==
  ASSUME IInv, Ready, NEW S \in SUBSET Present(main), Drop(S),
         count' = count \/ count' = CountLess(Cardinality(S))
  PROVE  IInv'
<1>1. main' \in Maps /\ Present(main') = Present(main) \ S
  BY WithoutThem DEF IInv, TypeOK, Drop
<1>2. IsFiniteSet(S) /\ Cardinality(S) \in Nat /\ IsFiniteSet(Present(main) \ S)
  BY PresentFinite, FS_Subset, FS_CardinalityType
<1>3. Cardinality(Present(main)) = Cardinality(Present(main) \ S) + Cardinality(S)
  <2> DEFINE R == Present(main) \ S
  <2>1. Cardinality(R \cup S) = Cardinality(R) + Cardinality(S) - Cardinality(R \cap S)
    BY <1>2, FS_Union
  <2>2. R \cup S = Present(main) /\ R \cap S = {}
    OBVIOUS
  <2>3. Cardinality(R) \in Nat /\ Cardinality({}) = 0
    BY <1>2, FS_CardinalityType, FS_EmptySet
  <2> QED BY <1>2, <2>1, <2>2, <2>3
<1>4. count' \in Nat /\ Cardinality(Present(main')) <= count'
  <2>1. Cardinality(Present(main)) <= count /\ count \in Nat
    BY DEF IInv, TypeOK, CountCovers
  <2>2. Cardinality(Present(main) \ S) \in Nat
    BY <1>2, FS_CardinalityType
  <2> QED BY <1>1, <1>2, <1>3, <2>1, <2>2 DEF CountLess
<1>5. \A e \in idx' : e.bkt \in Buckets \ {"tree"}
  BY DEF IInv, TypeOK, Drop
<1>6. Indexed(Present(main)) => Indexed(Present(main))'
  BY DropKeepsIndexes DEF IInv, TypeOK
<1> QED BY <1>1, <1>4, <1>5, <1>6, ReadyKeeps

\* A change of streams that no index shows keeps it.
LEMMA UpdateKeeps ==
  ASSUME IInv, Ready, UNCHANGED <<idx, tree, count>>, main' \in Maps,
         \A id \in Ids : main'[id] = main[id] \/
           (id \in Present(main) /\ main'[id] # None /\ SameEntries(main[id], main'[id]))
  PROVE  IInv'
<1>1. Present(main') = Present(main)
  BY DEF Present
<1>2. \A id \in Present(main) : SameEntries(main[id], main'[id]) /\ SameGroup(main[id], main'[id])
  BY DEF Present, SameEntries, SameGroup
<1>3. EntriesOf(Present(main), main) = EntriesOf(Present(main), main')
  BY <1>2, EntriesSame
<1>4. CountsGroups(tree, Present(main), main) => CountsGroups(tree, Present(main), main')
  BY <1>2, CountsSame
<1>5. Indexed(Present(main)) => Indexed(Present(main))'
  BY <1>1, <1>3, <1>4 DEF Indexed
<1>6. count' \in Nat /\ Cardinality(Present(main')) <= count' /\ \A e \in idx' : e.bkt \in Buckets \ {"tree"}
  BY <1>1 DEF IInv, TypeOK, CountCovers
<1> QED BY <1>5, <1>6, ReadyKeeps

\* The updates of a field leave what the indexes show.
LEMMA FieldUpdates ==
  ASSUME NEW st \in Streams
  PROVE  /\ WithTMDB(st) \in Streams /\ SameEntries(st, WithTMDB(st))
         /\ WithManualTMDB(st) \in Streams /\ SameEntries(st, WithManualTMDB(st))
         /\ WithProbe(st) \in Streams /\ SameEntries(st, WithProbe(st))
         /\ AutoTMDBCleared(st) \in Streams /\ SameEntries(st, AutoTMDBCleared(st))
         /\ \A on \in BOOLEAN : [st EXCEPT !.wg = on] \in Streams /\ SameEntries(st, [st EXCEPT !.wg = on])
<1> USE DEF SameEntries, SameGroup, Streams
<1>1. WithTMDB(st) \in Streams /\ SameEntries(st, WithTMDB(st))
  BY DEF WithTMDB
<1>2. WithManualTMDB(st) \in Streams /\ SameEntries(st, WithManualTMDB(st))
  BY DEF WithManualTMDB
<1>3. WithProbe(st) \in Streams /\ SameEntries(st, WithProbe(st))
  BY DEF WithProbe
<1>4. AutoTMDBCleared(st) \in Streams /\ SameEntries(st, AutoTMDBCleared(st))
  BY DEF AutoTMDBCleared
<1>5. \A on \in BOOLEAN : [st EXCEPT !.wg = on] \in Streams /\ SameEntries(st, [st EXCEPT !.wg = on])
  OBVIOUS
<1> QED BY <1>1, <1>2, <1>3, <1>4, <1>5

\* An update of one field keeps it, if the stream is there or not.
LEMMA updateStreamFieldKeeps ==
  ASSUME IInv, NEW id \in Ids, NEW st, updateStreamField(id, st),
         main[id] \in Streams => st \in Streams /\ SameEntries(main[id], st)
  PROVE  IInv'
<1>1. main \in Maps
  BY DEF IInv, TypeOK
<1>2. main' \in Maps
  BY <1>1 DEF updateStreamField, Maps
<1>3. \A jd \in Ids : main'[jd] = main[jd] \/
        (jd \in Present(main) /\ main'[jd] # None /\ SameEntries(main[jd], main'[jd]))
  BY <1>1, StreamAssumption DEF updateStreamField, Maps, Present, StreamAssumption
<1> QED BY <1>2, <1>3, UpdateKeeps DEF updateStreamField

\* What a refresh merges is a stream.
LEMMA MergedType ==
  ASSUME NEW new \in Streams, NEW old \in Streams
  PROVE  Merged(new, old) \in Streams
<1> DEFINE t == IF old.tmdb > 0 THEN old.tmdb ELSE new.tmdb
           n == IF old.tmdb > 0 THEN old.manual ELSE new.manual
           v == IF new.vod = "" THEN old.vod ELSE new.vod
<1>1. t \in {0, 1} /\ n \in BOOLEAN
  BY DEF Streams
<1>2. v \in Vod
  BY DEF Streams
<1>3. Merged(new, old) = [[[new EXCEPT !.tmdb = t] EXCEPT !.manual = n] EXCEPT !.vod = v]
  BY Zenon DEF Merged
<1> HIDE DEF t, n, v
<1> QED BY <1>1, <1>2, <1>3 DEF Streams

\* An upsert leaves a map of streams, with those of the batch added.
LEMMA UpsertedMap ==
  ASSUME NEW m \in Maps, NEW b \in Batches
  PROVE  /\ Upserted(m, b) \in Maps
         /\ DOMAIN b \subseteq Ids
         /\ Present(Upserted(m, b)) = Present(m) \cup DOMAIN b
         /\ \A id \in Ids \ DOMAIN b : Upserted(m, b)[id] = m[id]
<1> DEFINE u == Upserted(m, b)
<1>1. DOMAIN b \subseteq Ids /\ \A id \in DOMAIN b : b[id] \in Streams
  BY StreamAssumption DEF Batches, StreamAssumption
<1>2. \A id \in DOMAIN b : u[id] \in Streams
  <2> SUFFICES ASSUME NEW id \in DOMAIN b PROVE u[id] \in Streams
    OBVIOUS
  <2>1. CASE m[id] = None
    BY <1>1, <2>1 DEF Upserted
  <2>2. CASE m[id] # None
    <3>1. m[id] \in Streams /\ u[id] = Merged(b[id], m[id])
      BY <1>1, <2>2 DEF Upserted, Maps
    <3> QED BY <1>1, <3>1, MergedType
  <2> QED BY <2>1, <2>2
<1>3. \A id \in Ids \ DOMAIN b : u[id] = m[id]
  BY DEF Upserted
<1>4. u \in Maps
  <2>1. \A id \in Ids : u[id] \in Streams \cup {None}
    BY <1>2, <1>3 DEF Maps
  <2>2. u = [id \in Ids |-> u[id]]
    BY DEF Upserted
  <2> HIDE DEF u
  <2> QED BY <2>1, <2>2 DEF Maps
<1>5. Present(u) = Present(m) \cup DOMAIN b
  <2>1. \A id \in DOMAIN b : u[id] # None
    BY <1>2, StreamAssumption DEF StreamAssumption
  <2> HIDE DEF u
  <2> QED BY <1>1, <1>3, <2>1 DEF Present
<1> QED BY <1>1, <1>3, <1>4, <1>5

\* The indexes follow an upsert: the old entries of a stream are taken out
\* before its new ones are put in.
LEMMA UpsertKeepsIndexes ==
  ASSUME main \in Maps, Indexed(Present(main)), NEW b \in Batches, bulkUpsertBatch(b)
  PROVE  Indexed(Present(main))'
<1> DEFINE D == DOMAIN b
           old == D \cap Present(main)
           rest == Present(main) \ old
<1>1. /\ Present(main') = Present(main) \cup D
      /\ \A id \in Ids \ D : main'[id] = main[id]
      /\ D \subseteq Ids
  BY UpsertedMap DEF bulkUpsertBatch
<1>2. \A id \in rest : SameEntries(main[id], main'[id]) /\ SameGroup(main[id], main'[id])
  BY <1>1 DEF SameEntries, SameGroup, Present
<1>3. rest \cup D = Present(main') /\ D \cap rest = {}
  BY <1>1
<1>4. IsFiniteSet(rest) /\ IsFiniteSet(D) /\ IsFiniteSet(Present(main))
  BY <1>1, PresentFinite, StreamAssumption, FS_Subset DEF StreamAssumption
<1>5. idx' = EntriesOf(Present(main'), main')
  <2>1. idx' = (EntriesOf(Present(main), main) \ UNION {removeIndexEntries(id, main[id]) : id \in old})
                 \cup EntriesOf(D, main')
    BY DEF bulkUpsertBatch, Indexed, EntriesOf
  <2>2. EntriesOf(Present(main), main) \ UNION {removeIndexEntries(id, main[id]) : id \in old}
          = EntriesOf(rest, main)
    <3> HIDE DEF old
    <3> QED BY EntriesLess
  <2>3. EntriesOf(rest, main) = EntriesOf(rest, main')
    BY <1>2, EntriesSame
  <2>4. EntriesOf(rest, main') \cup EntriesOf(D, main') = EntriesOf(rest \cup D, main')
    BY EntriesAdd
  <2> QED BY <1>3, <2>1, <2>2, <2>3, <2>4, Zenon
<1>6. CountsGroups(tree', Present(main'), main')
  <2> DEFINE t == decrementTreeCount(tree, old, main)
  <2>1. CountsGroups(t, rest, main)
    BY <1>4, Decremented DEF Indexed
  <2>2. CountsGroups(t, rest, main')
    BY <1>2, <2>1, CountsSame
  <2> HIDE DEF t, rest, D
  <2>3. CountsGroups(incrementTreeCount(t, D, main'), rest \cup D, main')
    BY <1>3, <1>4, <2>2, Incremented
  <2>4. tree' = incrementTreeCount(t, D, main')
    BY DEF bulkUpsertBatch, t, D
  <2> QED BY <1>3, <2>3, <2>4
<1> QED BY <1>5, <1>6 DEF Indexed

\* An upsert keeps it: the count grows by the streams that are new.
LEMMA bulkUpsertBatchKeeps ==
  ASSUME IInv, NEW b \in Batches, bulkUpsertBatch(b)
  PROVE  IInv'
<1> DEFINE D == DOMAIN b
           fresh == D \ Present(main)
<1>1. main \in Maps /\ count \in Nat /\ Cardinality(Present(main)) <= count
  BY DEF IInv, TypeOK, CountCovers
<1>2. main' \in Maps /\ Present(main') = Present(main) \cup D /\ D \subseteq Ids
  BY <1>1, UpsertedMap DEF bulkUpsertBatch
<1>3. count' = count + Cardinality(fresh)
  <2>1. D \ (D \cap Present(main)) = fresh
    OBVIOUS
  <2> QED BY <2>1 DEF bulkUpsertBatch
<1>4. IsFiniteSet(fresh) /\ Cardinality(fresh) \in Nat
  BY <1>2, StreamAssumption, FS_Subset, FS_CardinalityType DEF StreamAssumption
<1>5. Cardinality(Present(main')) = Cardinality(Present(main)) + Cardinality(fresh)
  <2> DEFINE P == Present(main)
  <2>1. Cardinality(P \cup fresh) = Cardinality(P) + Cardinality(fresh) - Cardinality(P \cap fresh)
    BY <1>4, PresentFinite, FS_Union
  <2>2. P \cup fresh = Present(main') /\ P \cap fresh = {}
    BY <1>2
  <2>3. Cardinality(P) \in Nat /\ Cardinality(P \cap fresh) = 0
    BY <2>2, PresentFinite, FS_EmptySet
  <2>4. Cardinality(P \cup fresh) = Cardinality(P) + Cardinality(fresh)
    <3> HIDE DEF P, fresh
    <3> QED BY <1>4, <2>1, <2>3
  <2> QED BY <2>2, <2>4
<1>6. count' \in Nat /\ Cardinality(Present(main')) <= count'
  <2>1. Cardinality(Present(main)) \in Nat
    BY PresentFinite
  <2> HIDE DEF fresh
  <2> QED BY <1>1, <1>3, <1>4, <1>5, <2>1
<1>7. \A e \in idx' : e.bkt \in Buckets \ {"tree"}
  <2> SUFFICES ASSUME NEW e \in idx' PROVE e.bkt \in Buckets \ {"tree"}
    OBVIOUS
  <2>1. CASE e \in idx
    BY <2>1 DEF IInv, TypeOK
  <2>2. CASE e \notin idx
    <3>1. PICK id \in D : e \in addIndexEntries(id, main'[id])
      BY <2>2 DEF bulkUpsertBatch
    <3>2. e.bkt \in {SourceBucket(main'[id].kind), "name", "group", "vod"}
      BY <3>1, EntryOfId
    <3>3. id \in Present(main')
      BY <1>2
    <3>4. SourceBucket(main'[id].kind) \in {"account", "satip", "hdhr"}
      BY <1>2, <3>3, StreamsThere, KindBuckets
    <3> QED BY <3>2, <3>4 DEF Buckets
  <2> QED BY <2>1, <2>2
<1>8. Indexed(Present(main)) => Indexed(Present(main))'
  BY <1>1, UpsertKeepsIndexes
<1> QED BY <1>2, <1>6, <1>7, <1>8, ReadyKeeps DEF bulkUpsertBatch

\* Deletions take what a bucket lists out, with its entries.
LEMMA DeletesKeep == ASSUME IInv, Deletes PROVE IInv'
<1>1. \A bkt, prefix : ListedIn(bkt, prefix) \in SUBSET Present(main)
  BY DEF ListedIn
<1>2. ASSUME NEW bkt, NEW prefix, deleteByIndex(bkt, prefix) PROVE IInv'
  BY <1>1, <1>2, DropKeeps DEF deleteByIndex
<1>3. ASSUME NEW bkt, NEW prefix, NEW keep, deleteStaleByIndex(bkt, prefix, keep) PROVE IInv'
  <2> DEFINE S == ListedIn(bkt, prefix) \ keep
  <2>1. S \in SUBSET Present(main)
    BY <1>1
  <2>2. Ready /\ Drop(S) /\ count' = CountLess(Cardinality(S))
    BY <1>3 DEF deleteStaleByIndex
  <2> HIDE DEF S
  <2> QED BY <2>1, <2>2, DropKeeps
<1>4. ASSUME NEW bkt, NEW known, deleteOrphanedByIndex(bkt, known) PROVE IInv'
  <2> DEFINE S == UNION {ListedIn(bkt, e.key) : e \in {x \in idx : x.bkt = bkt /\ x.key[1] \notin known}}
  <2>1. S \in SUBSET Present(main)
    BY <1>1
  <2>2. Ready /\ Drop(S) /\ count' = CountLess(Cardinality(S))
    BY <1>4 DEF deleteOrphanedByIndex
  <2> HIDE DEF S
  <2> QED BY <2>1, <2>2, DropKeeps
<1>5. ASSUME NEW id, Delete(id) PROVE IInv'
  <2>1. {id} \in SUBSET Present(main) /\ Cardinality({id}) = 1
    BY <1>5, FS_Singleton DEF Delete
  <2>2. Ready /\ Drop({id}) /\ count' = CountLess(Cardinality({id}))
    BY <1>5, <2>1 DEF Delete
  <2> QED BY <2>1, <2>2, DropKeeps
<1> QED BY <1>2, <1>3, <1>4, <1>5, Zenon DEF Deletes

\* A change of the streams of a source, if it leaves what the indexes show.
LEMMA ChangedKeeps ==
  ASSUME IInv, Ready, UNCHANGED <<idx, tree, count>>,
         \A id \in Ids : main'[id] = main[id] \/
           (id \in Present(main) /\ main'[id] \in Streams /\ SameEntries(main[id], main'[id])),
         main' = [id \in Ids |-> main'[id]]
  PROVE  IInv'
<1>1. main' \in Maps
  BY DEF IInv, TypeOK, Maps
<1>2. None \notin Streams
  BY StreamAssumption DEF StreamAssumption
<1> QED BY <1>1, <1>2, UpdateKeeps

\* Clearing the matches of an account touches nothing that is indexed.
LEMMA ClearAutoTMDBKeeps == ASSUME IInv, NEW a, ClearAutoTMDBByAccountID(a) PROVE IInv'
<1> DEFINE S == listByIndex("account", <<a>>)
<1>1. main' = [id \in Ids |-> IF id \in S \cap Present(main) THEN AutoTMDBCleared(main[id]) ELSE main[id]]
  BY DEF ClearAutoTMDBByAccountID, Changed
<1>2. \A id \in Present(main) : main[id] \in Streams
  BY StreamsThere DEF IInv, TypeOK
<1> HIDE DEF S
<1>3. \A id \in Ids : main'[id] = main[id] \/
        (id \in Present(main) /\ main'[id] \in Streams /\ SameEntries(main[id], main'[id]))
  BY <1>1, <1>2, FieldUpdates
<1>4. main' = [id \in Ids |-> main'[id]]
  BY <1>1
<1> QED BY <1>3, <1>4, ChangedKeeps DEF ClearAutoTMDBByAccountID

\* Nor does sending an account through WireGuard.
LEMMA UpdateWireGuardKeeps ==
  ASSUME IInv, NEW a, NEW on \in BOOLEAN, UpdateWireGuardByAccountID(a, on)
  PROVE  IInv'
<1> DEFINE S == listByIndex("account", <<a>>)
<1>1. main' = [id \in Ids |-> IF id \in S \cap Present(main) THEN [main[id] EXCEPT !.wg = on] ELSE main[id]]
  BY DEF UpdateWireGuardByAccountID, Changed
<1>2. \A id \in Present(main) : main[id] \in Streams
  BY StreamsThere DEF IInv, TypeOK
<1> HIDE DEF S
<1>3. \A id \in Ids : main'[id] = main[id] \/
        (id \in Present(main) /\ main'[id] \in Streams /\ SameEntries(main[id], main'[id]))
  BY <1>1, <1>2, FieldUpdates
<1>4. main' = [id \in Ids |-> main'[id]]
  BY <1>1
<1> QED BY <1>3, <1>4, ChangedKeeps DEF UpdateWireGuardByAccountID

\* Updates of one stream and of those of an account.
LEMMA UpdatesKeep == ASSUME IInv, Updates PROVE IInv'
<1>1. ASSUME NEW id \in Ids, \/ updateStreamField(id, WithTMDB(main[id]))
                             \/ updateStreamField(id, WithManualTMDB(main[id]))
                             \/ updateStreamField(id, WithProbe(main[id]))
      PROVE  IInv'
  BY <1>1, FieldUpdates, updateStreamFieldKeeps
<1> QED BY <1>1, ClearAutoTMDBKeeps, UpdateWireGuardKeeps, Zenon DEF Updates

\* Nothing is listed of no streams.
LEMMA NothingIndexed ==
  ASSUME NEW m
  PROVE  EntriesOf({}, m) = {} /\ CountsGroups(<<>>, {}, m)
<1>1. EntriesOf({}, m) = {} /\ GroupKeys({}, m) = {}
  BY DEF EntriesOf, GroupKeys
<1>2. DOMAIN <<>> = {}
  OBVIOUS
<1> QED BY <1>1, <1>2 DEF CountsGroups

\* Clear leaves no stream, no entry and no group.
LEMMA ClearKeeps == ASSUME IInv, Clear PROVE IInv'
<1>1. main' \in Maps /\ Present(main') = {}
  BY DEF Clear, Empty, Maps, Present
<1>2. Indexed(Present(main))'
  BY <1>1, NothingIndexed DEF Clear, Indexed
<1>3. count' \in Nat /\ Cardinality(Present(main')) <= count'
  BY <1>1, FS_EmptySet DEF Clear, IInv, TypeOK
<1>4. \A e \in idx' : e.bkt \in Buckets \ {"tree"}
  BY DEF Clear
<1> QED BY <1>1, <1>2, <1>3, <1>4, ReadyKeeps DEF Clear

-----------------------------------------------------------------------------
(* Load *)

\* Load goes to work on indexes that are not those of the streams.
LEMMA LoadIndexesKeeps == ASSUME IInv, LoadIndexes PROVE IInv'
<1>0. phase = "load" /\ UNCHANGED <<main, idx, tree, count, cutShort>>
  BY DEF LoadIndexes
<1>1. CountCovers'
  BY <1>0 DEF IInv, CountCovers
<1>2. CASE NeedsRebuild /\ phase' = "wipe" /\ todo' = Buckets
  <2>1. TypeOK'
    BY <1>0, <1>2 DEF IInv, TypeOK
  <2>2. Wiping'
    BY <1>0, <1>2 DEF IInv, TypeOK, Wiping, NeedsRebuild, Buckets
  <2>3. Filling' /\ Loading' /\ Exact'
    BY <1>2 DEF Filling, Loading, Exact
  <2> QED BY <1>1, <2>1, <2>2, <2>3 DEF IInv
<1>3. CASE ~NeedsRebuild /\ phase' = "ready" /\ UNCHANGED todo
  <2>1. TypeOK'
    BY <1>0, <1>3 DEF IInv, TypeOK
  <2>2. Exact'
    BY <1>0, <1>3 DEF IInv, Loading, Exact, Indexed
  <2>3. Filling' /\ Loading' /\ Wiping'
    BY <1>3 DEF Filling, Loading, Wiping
  <2> QED BY <1>1, <2>1, <2>2, <2>3 DEF IInv
<1> QED BY <1>2, <1>3 DEF LoadIndexes

\* The group counts are wiped last, so that a crash before does not hide that
\* the indexes are gone.
LEMMA RebuildWipeKeeps == ASSUME IInv, NEW bkt \in Buckets, RebuildWipe(bkt) PROVE IInv'
<1>0. /\ phase = "wipe" /\ bkt \in todo /\ (bkt = "tree" => todo = {"tree"})
      /\ idx' = {e \in idx : e.bkt # bkt} /\ tree' = (IF bkt = "tree" THEN <<>> ELSE tree)
      /\ UNCHANGED <<main, count, cutShort>>
  BY DEF RebuildWipe
<1>1. /\ count > 0 /\ DOMAIN tree = {} /\ todo \subseteq Buckets /\ "tree" \in todo
      /\ \A e \in idx : e.bkt \in todo
  BY <1>0 DEF IInv, Wiping
<1>2. CountCovers'
  BY <1>0 DEF IInv, CountCovers
<1>3. CASE todo # {bkt} /\ todo' = todo \ {bkt} /\ UNCHANGED phase
  <2>1. bkt # "tree"
    BY <1>0, <1>3
  <2>2. TypeOK'
    BY <1>0, <1>3 DEF IInv, TypeOK
  <2>3. Wiping'
    BY <1>0, <1>1, <1>3, <2>1 DEF Wiping
  <2>4. Filling' /\ Loading' /\ Exact'
    BY <1>0, <1>3 DEF Filling, Loading, Exact
  <2> QED BY <1>2, <2>2, <2>3, <2>4 DEF IInv
<1>4. CASE todo = {bkt} /\ todo' = Present(main) /\ phase' = "fill"
  <2>1. bkt = "tree"
    BY <1>1, <1>4
  <2>2. idx' = {} /\ tree' = <<>>
    BY <1>0, <1>1, <1>4, <2>1 DEF IInv, TypeOK
  <2>3. TypeOK'
    BY <1>0, <1>4 DEF IInv, TypeOK
  <2>4. Indexed({})'
    BY <2>2, NothingIndexed DEF Indexed
  <2>5. Present(main)' \ todo' = {}
    BY <1>0, <1>4
  <2>6. Filling'
    BY <1>0, <1>1, <1>4, <2>4, <2>5 DEF Filling
  <2>7. Wiping' /\ Loading' /\ Exact'
    BY <1>4 DEF Wiping, Loading, Exact
  <2> QED BY <1>2, <2>3, <2>6, <2>7 DEF IInv
<1> QED BY <1>3, <1>4 DEF RebuildWipe

\* A batch of streams gets its entries.
LEMMA RebuildFillKeeps == ASSUME IInv, NEW S \in SUBSET Ids, RebuildFill(S) PROVE IInv'
<1>0. /\ phase = "fill" /\ S \subseteq todo /\ todo' = todo \ S
      /\ idx' = idx \cup EntriesOf(S, main)
      /\ tree' = incrementTreeCount(tree, S, main)
      /\ UNCHANGED <<main, count, phase, cutShort>>
  BY DEF RebuildFill, EntriesOf
<1> DEFINE R == Present(main) \ todo
<1>1. count > 0 /\ todo \subseteq Present(main) /\ Indexed(R)
  BY <1>0 DEF IInv, Filling
<1>2. R \cup S = Present(main) \ todo' /\ R \cap S = {} /\ S \subseteq Present(main)
  BY <1>0, <1>1
<1>3. IsFiniteSet(R) /\ IsFiniteSet(S)
  BY <1>2, PresentFinite, FS_Subset
<1>4. idx' = EntriesOf(R \cup S, main)
  BY <1>0, <1>1, EntriesAdd DEF Indexed
<1>5. CountsGroups(tree', R \cup S, main)
  <2>1. CountsGroups(tree, R, main)
    BY <1>1 DEF Indexed
  <2> HIDE DEF R
  <2>2. CountsGroups(incrementTreeCount(tree, S, main), R \cup S, main)
    BY <1>2, <1>3, <2>1, Incremented
  <2> QED BY <1>0, <2>2
<1>6. Indexed(Present(main) \ todo)'
  BY <1>0, <1>2, <1>4, <1>5 DEF Indexed
<1>7. TypeOK'
  <2>1. \A e \in idx' : e.bkt \in Buckets \ {"tree"}
    <3> SUFFICES ASSUME NEW e \in idx' PROVE e.bkt \in Buckets \ {"tree"}
      OBVIOUS
    <3>1. CASE e \in idx
      BY <3>1 DEF IInv, TypeOK
    <3>2. CASE e \notin idx
      <4>1. PICK id \in S : e \in addIndexEntries(id, main[id])
        BY <1>0, <3>2 DEF EntriesOf
      <4>2. main[id].kind \in Kinds
        BY <1>2, StreamsThere DEF IInv, TypeOK
      <4>3. e.bkt \in {SourceBucket(main[id].kind), "name", "group", "vod"}
        BY <4>1, EntryOfId
      <4> QED BY <4>2, <4>3, KindBuckets DEF Buckets
    <3> QED BY <3>1, <3>2
  <2> QED BY <1>0, <2>1 DEF IInv, TypeOK
<1>8. Filling'
  BY <1>0, <1>1, <1>2, <1>6 DEF Filling
<1>9. CountCovers' /\ Wiping' /\ Loading' /\ Exact'
  BY <1>0 DEF IInv, CountCovers, Wiping, Loading, Exact
<1> QED BY <1>7, <1>8, <1>9 DEF IInv

\* When none is left the indexes are those of all streams.
LEMMA RebuildDoneKeeps == ASSUME IInv, RebuildDone PROVE IInv'
<1>0. /\ phase = "fill" /\ todo = {} /\ phase' = "ready"
      /\ count' = Cardinality(Present(main)) /\ UNCHANGED <<main, idx, tree, todo, cutShort>>
  BY DEF RebuildDone
<1>1. Indexed(Present(main))
  <2>1. Present(main) \ todo = Present(main)
    BY <1>0
  <2> QED BY <1>0, <2>1 DEF IInv, Filling
<1>2. TypeOK' /\ CountCovers'
  BY <1>0, PresentFinite DEF IInv, TypeOK, CountCovers
<1>3. Exact'
  BY <1>0, <1>1 DEF Exact, Indexed
<1>4. Wiping' /\ Filling' /\ Loading'
  BY <1>0 DEF Wiping, Filling, Loading
<1> QED BY <1>2, <1>3, <1>4 DEF IInv

\* A crash leaves indexes that are right, or that Load sees to be missing, or
\* it fell into the fill.
LEMMA BoltCrashKeeps == ASSUME IInv, BoltCrash PROVE IInv'
<1>0. /\ phase' = "load" /\ todo' = {} /\ UNCHANGED <<main, idx, tree, count>>
      /\ cutShort' = (cutShort \/ (phase = "fill" /\ todo # {} /\ DOMAIN tree # {}))
  BY DEF BoltCrash
<1>1. TypeOK' /\ CountCovers'
  BY <1>0 DEF IInv, TypeOK, CountCovers
<1>2. Wiping' /\ Filling' /\ Exact'
  BY <1>0 DEF Wiping, Filling, Exact
<1>3. ASSUME ~cutShort' PROVE NeedsRebuild \/ Indexed(Present(main))
  <2>0. ~cutShort /\ ~(phase = "fill" /\ todo # {} /\ DOMAIN tree # {})
    BY <1>0, <1>3 DEF IInv, TypeOK
  <2>1. CASE phase = "load"
    BY <2>0, <2>1 DEF IInv, Loading
  <2>2. CASE phase = "wipe"
    BY <2>2 DEF IInv, Wiping, NeedsRebuild
  <2>3. CASE phase = "fill" /\ DOMAIN tree = {}
    BY <2>3 DEF IInv, Filling, NeedsRebuild
  <2>4. CASE phase = "fill" /\ todo = {}
    <3>1. Present(main) \ todo = Present(main)
      BY <2>4
    <3> QED BY <2>4, <3>1 DEF IInv, Filling
  <2>5. CASE phase = "ready"
    BY <2>0, <2>5 DEF IInv, Exact
  <2> QED BY <2>0, <2>1, <2>2, <2>3, <2>4, <2>5 DEF IInv, TypeOK
<1>4. Loading'
  BY <1>0, <1>3 DEF Loading, NeedsRebuild, Indexed
<1> QED BY <1>1, <1>2, <1>4 DEF IInv

-----------------------------------------------------------------------------
(* The invariant *)

\* A new store has streams and no indexes, or neither.
LEMMA InitIInv == BoltInit => IInv
<1> SUFFICES ASSUME BoltInit PROVE IInv
  OBVIOUS
<1>0. /\ idx = {} /\ tree = <<>> /\ count = Cardinality(Present(main))
      /\ phase = "load" /\ todo = {} /\ cutShort = FALSE
  BY DEF BoltInit
<1>1. main \in Maps
  BY StreamAssumption DEF BoltInit, Empty, Maps, StreamAssumption
<1>2. TypeOK /\ CountCovers
  <2>1. count \in Nat
    BY <1>0, PresentFinite
  <2>2. CountCovers
    BY <1>0, <2>1 DEF CountCovers
  <2> QED BY <1>0, <1>1, <2>1, <2>2 DEF TypeOK
<1>3. Loading
  <2>1. CASE count = 0
    <3>1. Present(main) = {}
      BY <1>0, <2>1, PresentFinite, FS_EmptySet
    <3> QED BY <1>0, <3>1, NothingIndexed DEF Loading, Indexed
  <2>2. CASE count # 0
    <3>1. count > 0
      BY <1>2, <2>2 DEF TypeOK
    <3>2. DOMAIN tree = {}
      BY <1>0
    <3> QED BY <3>1, <3>2 DEF Loading, NeedsRebuild
  <2> QED BY <2>1, <2>2
<1>4. Wiping /\ Filling /\ Exact
  BY <1>0 DEF Wiping, Filling, Exact
<1> QED BY <1>2, <1>3, <1>4 DEF IInv

\* Every step keeps the invariant.
LEMMA NextIInv == IInv /\ [BoltNext]_boltVars => IInv'
<1> SUFFICES ASSUME IInv, [BoltNext]_boltVars PROVE IInv'
  OBVIOUS
<1>1. CASE Rebuild
  BY <1>1, LoadIndexesKeeps, RebuildDoneKeeps, RebuildWipeKeeps, RebuildFillKeeps DEF Rebuild
<1>2. CASE BoltRequests
  BY <1>2, bulkUpsertBatchKeeps, DeletesKeep, UpdatesKeep, ClearKeeps, BoltCrashKeeps
  DEF BoltRequests
<1>3. CASE UNCHANGED boltVars
  <2>1. TypeOK' /\ CountCovers'
    BY <1>3 DEF boltVars, IInv, TypeOK, CountCovers
  <2>2. Wiping' /\ Filling' /\ Loading' /\ Exact'
    BY <1>3 DEF boltVars, IInv, Wiping, Filling, Loading, Exact, Indexed, NeedsRebuild
  <2> QED BY <2>1, <2>2 DEF IInv
<1> QED BY <1>1, <1>2, <1>3 DEF BoltNext

\* The invariant holds in every state.
LEMMA Invariance == BoltSpec => []IInv
BY InitIInv, NextIInv, PTL DEF BoltSpec

\* Every reader of the bolt store (listByIndex, ListGroups, SearchByName, the
\* statistics) answers what a scan of the streams would, after any upserts,
\* deletions, updates and rebuilds, and stream_count is never below the number
\* of streams.
THEOREM ReadersAreRight == BoltSpec => []IndexesAnswer
<1>1. IInv => IndexesAnswer
  <2> SUFFICES ASSUME IInv PROVE IndexesAnswer
    OBVIOUS
  <2>1. CASE phase = "ready" /\ ~cutShort
    BY <2>1, Answers DEF IInv, TypeOK, Exact, IndexesAnswer
  <2>2. CASE ~(phase = "ready" /\ ~cutShort)
    BY <2>2 DEF IInv, IndexesAnswer, SameAnswers
  <2> QED BY <2>1, <2>2
<1> QED BY <1>1, Invariance, PTL

-----------------------------------------------------------------------------
(* The plain store *)

\* What the plain store's operators mean here.
LEMMA PlainOperators ==
  /\ \A kind : Plain!SourcesOf(kind) = SourcesOf(kind)
  /\ Plain!Batches = Batches /\ Plain!Empty = Empty
  /\ \A m, b : Plain!Upserted(m, b) = Upserted(m, b)
  /\ \A m, S : Plain!Without(m, S) = Without(m, S)
  /\ \A m, kind, src : Plain!OfSource(m, kind, src) = OfSource(m, kind, src)
  /\ \A m, kind, src, keep : Plain!StaleOf(m, kind, src, keep) = OfSource(m, kind, src) \ keep
  /\ \A m, kind, known : Plain!OrphansOf(m, kind, known) = OrphansOf(m, kind, known)
<1>1. /\ \A kind : Plain!SourcesOf(kind) = SourcesOf(kind)
      /\ Plain!Batches = Batches /\ Plain!Empty = Empty
  BY DEF Plain!SourcesOf, SourcesOf, Plain!Batches, Batches, Plain!Empty, Empty
<1>2. \A m, b : Plain!Upserted(m, b) = Upserted(m, b)
  BY DEF Plain!Upserted, Upserted, Plain!Merged, Merged
<1>3. \A m, S : Plain!Without(m, S) = Without(m, S)
  BY DEF Plain!Without, Without
<1>4. \A m, kind : Plain!OfKind(m, kind) = OfKind(m, kind)
  BY DEF Plain!OfKind, OfKind, Plain!Present, Present
<1>5. \A m, kind, src : Plain!OfSource(m, kind, src) = OfSource(m, kind, src)
  BY <1>4 DEF Plain!OfSource, OfSource
<1>6. \A m, kind, src, keep : Plain!StaleOf(m, kind, src, keep) = OfSource(m, kind, src) \ keep
  BY <1>5 DEF Plain!StaleOf
<1>7. \A m, kind, known : Plain!OrphansOf(m, kind, known) = OrphansOf(m, kind, known)
  BY <1>4 DEF Plain!OrphansOf, OrphansOf
<1> QED BY <1>1, <1>2, <1>3, <1>5, <1>6, <1>7

\* What the store does when it is ready reads the indexes of its streams.
LEMMA ReadyReads ==
  ASSUME IInv, phase = "ready", ~cutShort
  PROVE  /\ \A kind \in Kinds : \A src : ListedIn(SourceBucket(kind), <<src>>) = OfSource(main, kind, src)
         /\ \A kind \in Kinds : \A known :
              UNION {ListedIn(SourceBucket(kind), e.key) :
                       e \in {x \in idx : x.bkt = SourceBucket(kind) /\ x.key[1] \notin known}}
                = OrphansOf(main, kind, known)
<1>1. main \in Maps /\ idx = EntriesOf(Present(main), main)
  BY DEF IInv, TypeOK, Exact, Indexed
<1> QED BY <1>1, ListedSource, ListedOrphans

\* An upsert is that of the plain store.
LEMMA UpsertIsPlain == ASSUME NEW b \in Batches, bulkUpsertBatch(b) PROVE Plain!StoreNext
<1>1. main' = Upserted(main, b)
  BY DEF bulkUpsertBatch
<1>2. Plain!BulkUpsert(b) /\ b \in Plain!Batches
  BY <1>1, PlainOperators DEF Plain!BulkUpsert, Plain!Becomes
<1> QED BY <1>2 DEF Plain!StoreNext

\* A deletion through the bucket of a source takes out its streams.
LEMMA DeleteIsPlain ==
  ASSUME NEW kind \in Kinds, NEW src \in SourcesOf(kind),
         main' = Without(main, OfSource(main, kind, src))
  PROVE  Plain!StoreNext
<1> USE PlainOperators DEF Plain!Becomes
<1>1. CASE kind = "m3u"
  <2>1. Plain!DeleteByAccountID(src) /\ src \in Plain!SourcesOf("m3u")
    BY <1>1 DEF Plain!DeleteByAccountID
  <2> QED BY <2>1 DEF Plain!StoreNext
<1>2. CASE kind = "satip"
  <2>1. Plain!DeleteBySatIPSourceID(src) /\ src \in Plain!SourcesOf("satip")
    BY <1>2 DEF Plain!DeleteBySatIPSourceID
  <2> QED BY <2>1 DEF Plain!StoreNext
<1>3. CASE kind = "hdhr"
  <2>1. Plain!DeleteByHDHRSourceID(src) /\ src \in Plain!SourcesOf("hdhr")
    BY <1>3 DEF Plain!DeleteByHDHRSourceID
  <2> QED BY <2>1 DEF Plain!StoreNext
<1> QED BY <1>1, <1>2, <1>3 DEF Kinds

\* So does one that keeps some, of those that are not kept.
LEMMA DeleteStaleIsPlain ==
  ASSUME NEW kind \in Kinds, NEW src \in SourcesOf(kind), NEW keep \in SUBSET Ids,
         main' = Without(main, OfSource(main, kind, src) \ keep)
  PROVE  Plain!StoreNext
<1> USE PlainOperators DEF Plain!Becomes
<1>1. CASE kind = "m3u"
  <2>1. Plain!DeleteStaleByAccountID(src, keep) /\ src \in Plain!SourcesOf("m3u")
    BY <1>1 DEF Plain!DeleteStaleByAccountID
  <2> QED BY <2>1 DEF Plain!StoreNext
<1>2. CASE kind = "satip"
  <2>1. Plain!DeleteStaleBySatIPSourceID(src, keep) /\ src \in Plain!SourcesOf("satip")
    BY <1>2 DEF Plain!DeleteStaleBySatIPSourceID
  <2> QED BY <2>1 DEF Plain!StoreNext
<1>3. CASE kind = "hdhr"
  <2>1. Plain!DeleteStaleByHDHRSourceID(src, keep) /\ src \in Plain!SourcesOf("hdhr")
    BY <1>3 DEF Plain!DeleteStaleByHDHRSourceID
  <2> QED BY <2>1 DEF Plain!StoreNext
<1> QED BY <1>1, <1>2, <1>3 DEF Kinds

\* And one of the sources that are not known.
LEMMA DeleteOrphansIsPlain ==
  ASSUME NEW kind \in Kinds, NEW known \in SUBSET SourcesOf(kind),
         main' = Without(main, OrphansOf(main, kind, known))
  PROVE  Plain!StoreNext
<1> USE PlainOperators DEF Plain!Becomes
<1>1. CASE kind = "m3u"
  <2>1. Plain!DeleteOrphanedM3UStreams(known) /\ known \in SUBSET Plain!SourcesOf("m3u")
    BY <1>1 DEF Plain!DeleteOrphanedM3UStreams
  <2> QED BY <2>1 DEF Plain!StoreNext
<1>2. CASE kind = "satip"
  <2>1. Plain!DeleteOrphanedSatIPStreams(known) /\ known \in SUBSET Plain!SourcesOf("satip")
    BY <1>2 DEF Plain!DeleteOrphanedSatIPStreams
  <2> QED BY <2>1 DEF Plain!StoreNext
<1>3. CASE kind = "hdhr"
  <2>1. Plain!DeleteOrphanedHDHRStreams(known) /\ known \in SUBSET Plain!SourcesOf("hdhr")
    BY <1>3 DEF Plain!DeleteOrphanedHDHRStreams
  <2> QED BY <2>1 DEF Plain!StoreNext
<1> QED BY <1>1, <1>2, <1>3 DEF Kinds

\* The deletions of a store that is ready are those of the plain store.
LEMMA DeletesArePlain == ASSUME IInv, ~cutShort, Deletes PROVE Plain!StoreNext
<1>1. ASSUME NEW kind \in Kinds, NEW src \in SourcesOf(kind), deleteByIndex(SourceBucket(kind), <<src>>)
      PROVE  Plain!StoreNext
  <2>1. phase = "ready" /\ main' = Without(main, ListedIn(SourceBucket(kind), <<src>>))
    BY <1>1 DEF deleteByIndex, Ready, Drop
  <2>2. main' = Without(main, OfSource(main, kind, src))
    BY <2>1, ReadyReads
  <2> QED BY <2>2, DeleteIsPlain
<1>2. ASSUME NEW kind \in Kinds, NEW src \in SourcesOf(kind), NEW keep \in SUBSET Ids,
             deleteStaleByIndex(SourceBucket(kind), <<src>>, keep)
      PROVE  Plain!StoreNext
  <2>1. phase = "ready" /\ main' = Without(main, ListedIn(SourceBucket(kind), <<src>>) \ keep)
    BY <1>2 DEF deleteStaleByIndex, Ready, Drop
  <2>2. main' = Without(main, OfSource(main, kind, src) \ keep)
    BY <2>1, ReadyReads
  <2> QED BY <2>2, DeleteStaleIsPlain
<1>3. ASSUME NEW kind \in Kinds, NEW known \in SUBSET SourcesOf(kind),
             deleteOrphanedByIndex(SourceBucket(kind), known)
      PROVE  Plain!StoreNext
  <2> DEFINE S == UNION {ListedIn(SourceBucket(kind), e.key) :
                    e \in {x \in idx : x.bkt = SourceBucket(kind) /\ x.key[1] \notin known}}
  <2>1. phase = "ready" /\ main' = Without(main, S)
    BY <1>3 DEF deleteOrphanedByIndex, Ready, Drop
  <2>2. S = OrphansOf(main, kind, known)
    BY <2>1, ReadyReads
  <2> HIDE DEF S
  <2>3. main' = Without(main, OrphansOf(main, kind, known))
    BY <2>1, <2>2
  <2> QED BY <2>3, DeleteOrphansIsPlain
<1>4. ASSUME NEW id \in Ids, Delete(id) PROVE Plain!StoreNext
  <2>1. main' = Without(main, {id})
    BY <1>4 DEF Delete, Drop
  <2>2. Plain!Delete(id)
    BY <2>1, PlainOperators DEF Plain!Delete, Plain!Becomes
  <2> QED BY <2>2 DEF Plain!StoreNext
<1> QED BY <1>1, <1>2, <1>3, <1>4, Zenon DEF Deletes

\* A field of one stream, when the stream is there.
LEMMA FieldIsPlain ==
  ASSUME main \in Maps, main' # main, NEW id \in Ids,
         \/ updateStreamField(id, WithTMDB(main[id]))
         \/ updateStreamField(id, WithManualTMDB(main[id]))
         \/ updateStreamField(id, WithProbe(main[id]))
  PROVE  Plain!StoreNext
<1>1. id \in Present(main)
  BY DEF updateStreamField, Present
<1>2. main = [jd \in Ids |-> main[jd]]
  BY DEF Maps
<1>3. \A st : [main EXCEPT ![id] = st] = [jd \in Ids |-> IF jd \in {id} \cap Present(main) THEN st ELSE main[jd]]
  BY <1>1, <1>2
<1>4. \A st : updateStreamField(id, st) =>
        main' = [jd \in Ids |-> IF jd \in {id} \cap Present(main) THEN st ELSE main[jd]]
  BY <1>1, <1>3 DEF updateStreamField, Present
<1>5. CASE updateStreamField(id, WithTMDB(main[id]))
  <2>1. Plain!UpdateTMDBID(id)
    BY <1>4, <1>5 DEF Plain!UpdateTMDBID, Plain!Becomes, Plain!Changed, Plain!Present, Present,
       Plain!WithTMDB, WithTMDB
  <2> QED BY <2>1 DEF Plain!StoreNext
<1>6. CASE updateStreamField(id, WithManualTMDB(main[id]))
  <2>1. Plain!SetTMDBManual(id)
    BY <1>4, <1>6 DEF Plain!SetTMDBManual, Plain!Becomes, Plain!Changed, Plain!Present, Present,
       Plain!WithManualTMDB, WithManualTMDB
  <2> QED BY <2>1 DEF Plain!StoreNext
<1>7. CASE updateStreamField(id, WithProbe(main[id]))
  <2>1. Plain!UpdateStreamProbeData(id)
    BY <1>4, <1>7 DEF Plain!UpdateStreamProbeData, Plain!Becomes, Plain!Changed, Plain!Present, Present,
       Plain!WithProbe, WithProbe
  <2> QED BY <2>1 DEF Plain!StoreNext
<1> QED BY <1>5, <1>6, <1>7

\* The updates of a store that is ready are those of the plain store.
LEMMA UpdatesArePlain == ASSUME IInv, ~cutShort, main' # main, Updates PROVE Plain!StoreNext
<1>1. main \in Maps
  BY DEF IInv, TypeOK
<1>2. ASSUME phase = "ready", NEW a
      PROVE  listByIndex("account", <<a>>) = Plain!ListByAccountID(main, a)
  <2>1. "m3u" \in Kinds /\ SourceBucket("m3u") = "account"
    BY DEF Kinds, SourceBucket
  <2>2. ListedIn("account", <<a>>) = OfSource(main, "m3u", a)
    BY <1>2, <2>1, ReadyReads
  <2> QED BY <2>2, PlainOperators DEF listByIndex, Plain!ListByAccountID
<1>3. ASSUME NEW a \in SourcesOf("m3u"), ClearAutoTMDBByAccountID(a) PROVE Plain!StoreNext
  <2>1. listByIndex("account", <<a>>) = Plain!ListByAccountID(main, a)
    BY <1>2, <1>3 DEF ClearAutoTMDBByAccountID, Ready
  <2>2. Plain!ClearAutoTMDBByAccountID(a) /\ a \in Plain!SourcesOf("m3u")
    BY <1>3, <2>1, PlainOperators DEF ClearAutoTMDBByAccountID, Changed, AutoTMDBCleared, Present,
       Plain!ClearAutoTMDBByAccountID, Plain!Becomes, Plain!Changed, Plain!AutoTMDBCleared, Plain!Present
  <2> QED BY <2>2 DEF Plain!StoreNext
<1>4. ASSUME NEW a \in SourcesOf("m3u"), NEW on \in BOOLEAN, UpdateWireGuardByAccountID(a, on)
      PROVE  Plain!StoreNext
  <2>1. listByIndex("account", <<a>>) = Plain!ListByAccountID(main, a)
    BY <1>2, <1>4 DEF UpdateWireGuardByAccountID, Ready
  <2>2. Plain!UpdateWireGuardByAccountID(a, on) /\ a \in Plain!SourcesOf("m3u")
    BY <1>4, <2>1, PlainOperators DEF UpdateWireGuardByAccountID, Changed, Present,
       Plain!UpdateWireGuardByAccountID, Plain!Becomes, Plain!Changed, Plain!Present
  <2> QED BY <2>2 DEF Plain!StoreNext
<1> QED BY <1>1, <1>3, <1>4, FieldIsPlain, Zenon DEF Updates

\* A step of the store that changes its streams is one of the plain store.
LEMMA NextIsPlain == IInv /\ [BoltNext]_boltVars => (main' # main => cutShort \/ Plain!StoreNext)
<1> SUFFICES ASSUME IInv, BoltNext, main' # main, ~cutShort PROVE Plain!StoreNext
  BY DEF boltVars
<1>1. ~Rebuild /\ ~BoltCrash
  BY DEF Rebuild, LoadIndexes, RebuildWipe, RebuildFill, RebuildDone, BoltCrash
<1>2. ASSUME NEW b \in Batches, bulkUpsertBatch(b) PROVE Plain!StoreNext
  BY <1>2, UpsertIsPlain
<1>3. CASE Clear
  <2>1. Plain!Clear
    BY <1>3, PlainOperators DEF Clear, Plain!Clear, Plain!Becomes
  <2> QED BY <2>1 DEF Plain!StoreNext
<1> QED BY <1>1, <1>2, <1>3, DeletesArePlain, UpdatesArePlain DEF BoltNext, BoltRequests

\* Every write of the bolt store (BulkUpsert, the deletions by source, of stale
\* and of orphaned streams, the field updates, Clear), though it finds its
\* streams through the indexes, has the effect it has on StreamStoreImpl.
THEOREM WritesAreRight == BoltSpec => ImplementsStore
<1>1. IInv /\ [BoltNext]_boltVars => [main' # main => cutShort \/ Plain!StoreNext]_main
  BY NextIsPlain
<1> QED BY <1>1, Invariance, PTL DEF BoltSpec, ImplementsStore

-----------------------------------------------------------------------------
(***************************************************************************)
(* Records and an index over them (StreamIndexed). A List reads records by *)
(* the positions it took earlier, so the invariant describes its entries   *)
(* too, until a Save or a Clear moves the records.                         *)
(***************************************************************************)

\* What an index holds of a stream, and what is appended to the file.
Summaries == [st : Streams, pos : Nat]
RecordSet == [id : Ids, st : Streams]
Tables == [Ids -> Summaries \cup {None}]

\* Every entry of an index describes the record it points at.
Describes(e, d) ==
  \A id \in Ids : e[id] # None => e[id].pos \in 1..Len(d) /\ d[e[id].pos] = Record(id, e[id].st)

\* The streams as an index has them, and as the records have them.
StreamsOf(e) == [id \in Ids |-> IF e[id] = None THEN None ELSE e[id].st]
ReadThrough(e, d) == [id \in Ids |-> IF readable(e[id], d) THEN d[e[id].pos].st ELSE None]

IndexedTypes ==
  /\ index \in Tables /\ data \in Seq(RecordSet)
  /\ disk \in Seq(RecordSet) \cup {None} /\ legacy \in [Ids -> Streams] \cup {None}
  /\ lister \in Tables /\ snapshot = StreamsOf(lister) /\ moved \in BOOLEAN

\* What a List has taken is described by the records until they move.
IndexedIInv ==
  /\ IndexedTypes /\ Describes(index, data)
  /\ ~moved => Describes(lister, data)

-----------------------------------------------------------------------------
(* The operators *)

\* The fields of a record.
LEMMA RecordFields == \A id, st : Record(id, st).id = id /\ Record(id, st).st = st
BY DEF Record

\* An index that describes the records has the streams that a reader gets.
LEMMA ReadsWhatItHas ==
  ASSUME NEW e \in Tables, NEW d \in Seq(RecordSet), Describes(e, d)
  PROVE  /\ ReadThrough(e, d) = StreamsOf(e) /\ StreamsOf(e) \in Maps
         /\ \A id \in Ids : /\ readable(e[id], d) <=> e[id] # None
                            /\ StreamsOf(e)[id] = None <=> e[id] = None
<1>1. \A id \in Ids : e[id] \in Summaries \cup {None}
  BY DEF Tables
<1>2. ASSUME NEW id \in Ids, e[id] # None
      PROVE  e[id].st \in Streams /\ d[e[id].pos].st = e[id].st /\ readable(e[id], d) /\ e[id].st # None
  <2>1. e[id] \in Summaries
    BY <1>1, <1>2
  <2>2. e[id].st \in Streams
    BY <2>1 DEF Summaries
  <2>3. e[id].pos \in 1..Len(d) /\ d[e[id].pos] = Record(id, e[id].st)
    BY <1>2 DEF Describes
  <2>4. d[e[id].pos].st = e[id].st
    BY <2>3 DEF Record
  <2>5. e[id].st # None
    BY <2>2, StreamAssumption
  <2>6. readable(e[id], d)
    BY <1>2, <2>3 DEF readable
  <2> QED BY <2>2, <2>4, <2>5, <2>6
<1>3. ASSUME NEW id \in Ids, e[id] = None PROVE ~readable(e[id], d)
  BY <1>3 DEF readable
<1> QED BY <1>2, <1>3 DEF ReadThrough, StreamsOf, Maps

\* A caller meets all the streams, each at its place.
LEMMA Placed ==
  ASSUME NEW S \in SUBSET Ids, NEW ids \in Orders(S)
  PROVE  /\ Len(ids) \in Nat /\ DOMAIN ids = 1..Len(ids) /\ \A i \in 1..Len(ids) : ids[i] \in S
         /\ \A id \in S : Place(ids, id) \in 1..Len(ids) /\ ids[Place(ids, id)] = id
<1>1. IsFiniteSet(S) /\ Cardinality(S) \in Nat
  BY StreamAssumption, FS_Subset, FS_CardinalityType
<1>2. ids \in [1..Cardinality(S) -> S] /\ ToSet(ids) = S
  BY DEF Orders
<1>3. ids \in Seq(S) /\ Len(ids) = Cardinality(S)
  BY <1>1, <1>2
<1>4. DOMAIN ids = 1..Len(ids)
  BY <1>2, <1>3
<1>5. ASSUME NEW id \in S PROVE Place(ids, id) \in 1..Len(ids) /\ ids[Place(ids, id)] = id
  <2>1. \E i \in DOMAIN ids : ids[i] = id
    BY <1>2 DEF ToSet
  <2> QED BY <2>1, <1>4 DEF Place
<1> QED BY <1>1, <1>2, <1>3, <1>4, <1>5

\* The records of streams are those streams, in the order they were met in.
LEMMA RecordsAre ==
  ASSUME NEW S \in SUBSET Ids, NEW ids \in Orders(S), NEW m, \A id \in S : m[id] \in Streams
  PROVE  /\ Records(m, ids) \in Seq(RecordSet) /\ Len(Records(m, ids)) = Len(ids)
         /\ \A i \in 1..Len(ids) : Records(m, ids)[i] = Record(ids[i], m[ids[i]])
         /\ \A id \in S : Records(m, ids)[Place(ids, id)] = Record(id, m[id])
<1>1. /\ Len(ids) \in Nat /\ DOMAIN ids = 1..Len(ids) /\ \A i \in 1..Len(ids) : ids[i] \in S
      /\ \A id \in S : Place(ids, id) \in 1..Len(ids) /\ ids[Place(ids, id)] = id
  BY Placed
<1>2. Records(m, ids) = [i \in 1..Len(ids) |-> Record(ids[i], m[ids[i]])]
  BY <1>1 DEF Records
<1>3. \A i \in 1..Len(ids) : Record(ids[i], m[ids[i]]) \in RecordSet
  BY <1>1 DEF Record, RecordSet
<1>4. Records(m, ids) \in [1..Len(ids) -> RecordSet]
  BY <1>2, <1>3
<1> QED BY <1>1, <1>2, <1>4

\* Of the records of a stream one is the last.
LEMMA LastThere ==
  ASSUME NEW d \in Seq(RecordSet), NEW id, \E i \in 1..Len(d) : d[i].id = id
  PROVE  LastOf(d, id) \in 1..Len(d) /\ d[LastOf(d, id)].id = id
<1> DEFINE R == OpToRel(<, Nat)
           rest == {k \in 0..Len(d) : \E i \in 1..Len(d) : d[i].id = id /\ k = Len(d) - i}
<1>1. IsWellFoundedOn(R, Nat)
  BY NatLessThanWellFounded
<1>2. \A x, y \in Nat : y < x => <<y, x>> \in R
  BY DEF OpToRel
<1>3. rest \subseteq Nat /\ rest # {}
  <2>1. PICK i \in 1..Len(d) : d[i].id = id
    OBVIOUS
  <2>2. Len(d) \in Nat /\ Len(d) - i \in 0..Len(d)
    OBVIOUS
  <2>3. Len(d) - i \in rest
    BY <2>1, <2>2
  <2>4. rest \subseteq 0..Len(d)
    OBVIOUS
  <2>5. 0..Len(d) \subseteq Nat
    BY <2>2
  <2> QED BY <2>3, <2>4, <2>5
<1> HIDE DEF R
<1>4. PICK k \in rest : \A y \in rest : ~ (<<y, k>> \in R)
  BY <1>1, <1>3, WFMin
<1>5. PICK i \in 1..Len(d) : d[i].id = id /\ k = Len(d) - i
  BY <1>4
<1>6. \A j \in i+1..Len(d) : d[j].id # id
  <2> SUFFICES ASSUME NEW j \in i+1..Len(d), d[j].id = id PROVE FALSE
    OBVIOUS
  <2>0. Len(d) \in Nat /\ j \in 1..Len(d) /\ Len(d) - j \in 0..Len(d)
    OBVIOUS
  <2>1. Len(d) - j \in rest
    BY <2>0
  <2>2. Len(d) - j < k
    BY <1>5, <2>0
  <2> QED BY <2>1, <2>2, <1>2, <1>3, <1>4
<1>7. \E l \in 1..Len(d) : d[l].id = id /\ \A j \in l+1..Len(d) : d[j].id # id
  BY <1>5, <1>6
<1> QED BY <1>7 DEF LastOf

\* A file is loaded into an index that describes it.
LEMMA LoadedDescribes ==
  ASSUME NEW d \in Seq(RecordSet)
  PROVE  /\ Loaded(d) \in Tables /\ Describes(Loaded(d), d) /\ SavedItems(d) = StreamsOf(Loaded(d))
<1>1. ASSUME NEW id \in Ids, \E i \in 1..Len(d) : d[i].id = id
      PROVE  /\ Loaded(d)[id] = [st |-> d[LastOf(d, id)].st, pos |-> LastOf(d, id)]
             /\ LastOf(d, id) \in 1..Len(d) /\ d[LastOf(d, id)] \in RecordSet /\ d[LastOf(d, id)].id = id
  <2>1. LastOf(d, id) \in 1..Len(d) /\ d[LastOf(d, id)].id = id
    BY <1>1, LastThere
  <2>2. d[LastOf(d, id)] \in RecordSet
    BY <2>1
  <2> QED BY <1>1, <2>1, <2>2 DEF Loaded
<1>2. ASSUME NEW id \in Ids, ~ \E i \in 1..Len(d) : d[i].id = id
      PROVE  Loaded(d)[id] = None
  BY <1>2 DEF Loaded
<1>3. ASSUME NEW id \in Ids PROVE Loaded(d)[id] \in Summaries \cup {None}
  <2>1. CASE \E i \in 1..Len(d) : d[i].id = id
    <3>1. LastOf(d, id) \in 1..Len(d) /\ d[LastOf(d, id)] \in RecordSet
      BY <1>1, <2>1
    <3>2. d[LastOf(d, id)].st \in Streams
      BY <3>1 DEF RecordSet
    <3>3. LastOf(d, id) \in Nat
      BY <3>1
    <3>4. [st |-> d[LastOf(d, id)].st, pos |-> LastOf(d, id)] \in Summaries
      BY <3>2, <3>3 DEF Summaries
    <3> QED BY <1>1, <2>1, <3>4
  <2>2. CASE ~ \E i \in 1..Len(d) : d[i].id = id
    BY <1>2, <2>2
  <2> QED BY <2>1, <2>2
<1>4. Loaded(d) \in Tables
  BY <1>3 DEF Tables, Loaded
<1>5. ASSUME NEW id \in Ids, Loaded(d)[id] # None
      PROVE  Loaded(d)[id].pos \in 1..Len(d) /\ d[Loaded(d)[id].pos] = Record(id, Loaded(d)[id].st)
  <2>1. \E i \in 1..Len(d) : d[i].id = id
    BY <1>2, <1>5
  <2>2. /\ Loaded(d)[id] = [st |-> d[LastOf(d, id)].st, pos |-> LastOf(d, id)]
        /\ LastOf(d, id) \in 1..Len(d) /\ d[LastOf(d, id)] \in RecordSet /\ d[LastOf(d, id)].id = id
    BY <1>1, <2>1
  <2>3. \A r \in RecordSet : r = Record(r.id, r.st)
    BY DEF RecordSet, Record
  <2>4. Loaded(d)[id].pos = LastOf(d, id) /\ Loaded(d)[id].st = d[LastOf(d, id)].st
    BY <2>2
  <2> QED BY <2>2, <2>3, <2>4
<1> QED BY <1>4, <1>5 DEF Describes, SavedItems, StreamsOf

\* What is saved in any order is what is loaded.
LEMMA SavedIs ==
  ASSUME NEW m \in Maps, NEW ids \in Orders(Present(m))
  PROVE  /\ Records(m, ids) \in Seq(RecordSet) /\ SavedItems(Records(m, ids)) = m
<1> DEFINE d == Records(m, ids)
<1>1. Present(m) \subseteq Ids /\ \A id \in Present(m) : m[id] \in Streams
  BY DEF Present, Maps
<1>2. /\ d \in Seq(RecordSet) /\ Len(d) = Len(ids)
      /\ \A i \in 1..Len(ids) : d[i] = Record(ids[i], m[ids[i]])
      /\ \A id \in Present(m) : d[Place(ids, id)] = Record(id, m[id])
  BY <1>1, RecordsAre
<1>3. /\ \A i \in 1..Len(ids) : ids[i] \in Present(m)
      /\ \A id \in Present(m) : Place(ids, id) \in 1..Len(ids)
  BY <1>1, Placed
<1>4. /\ Loaded(d) \in Tables /\ Describes(Loaded(d), d) /\ SavedItems(d) = StreamsOf(Loaded(d))
  BY <1>2, LoadedDescribes
<1> HIDE DEF d
<1>8. \A i \in 1..Len(ids) : d[i].id = ids[i] /\ d[i].st = m[ids[i]]
  BY <1>2, RecordFields
<1>9. \A id \in Present(m) : d[Place(ids, id)].id = id
  BY <1>2, RecordFields
<1>5. ASSUME NEW id \in Ids PROVE StreamsOf(Loaded(d))[id] = m[id]
  <2>1. CASE m[id] = None
    <3>1. ~ \E i \in 1..Len(d) : d[i].id = id
      BY <2>1, <1>8, <1>2, <1>3 DEF Present
    <3>2. Loaded(d)[id] = None
      BY <3>1 DEF Loaded
    <3> QED BY <2>1, <3>2 DEF StreamsOf
  <2>2. CASE m[id] # None
    <3>1. id \in Present(m)
      BY <2>2 DEF Present
    <3>2. \E i \in 1..Len(d) : d[i].id = id
      BY <3>1, <1>9, <1>2, <1>3
    <3>3. Loaded(d)[id] = [st |-> d[LastOf(d, id)].st, pos |-> LastOf(d, id)]
      BY <3>2 DEF Loaded
    <3>4. LastOf(d, id) \in 1..Len(d) /\ d[LastOf(d, id)].id = id
      BY <3>2, <1>2, LastThere
    <3>5. d[LastOf(d, id)].st = m[id]
      BY <3>4, <1>2, <1>8
    <3>6. Loaded(d)[id] # None
      <4>1. d[LastOf(d, id)].st \in Streams /\ LastOf(d, id) \in Nat
        BY <3>1, <3>4, <3>5, <1>1
      <4>2. Loaded(d)[id] \in [st : Streams, pos : Nat]
        BY <3>3, <4>1
      <4> QED BY <4>2, IndexedAssumption
    <3> QED BY <3>3, <3>5, <3>6 DEF StreamsOf
  <2> QED BY <2>1, <2>2
<1>6. m = [id \in Ids |-> m[id]]
  BY DEF Maps
<1>7. StreamsOf(Loaded(d)) = m
  BY <1>5, <1>6 DEF StreamsOf
<1> QED BY <1>2, <1>4, <1>7 DEF d

-----------------------------------------------------------------------------
(* The actions *)

\* The variables that an update of the index leaves alone.
Others == <<disk, legacy, lister, snapshot, moved>>

\* The streams of the index are a map, and the map that a reader gets.
LEMMA FieldsAreItems ==
  ASSUME IndexedIInv
  PROVE  Items = Fields /\ Fields \in Maps /\ \A id \in Ids : readable(index[id], data) <=> index[id] # None
<1>1. /\ ReadThrough(index, data) = StreamsOf(index) /\ StreamsOf(index) \in Maps
      /\ \A id \in Ids : readable(index[id], data) <=> index[id] # None
  BY ReadsWhatItHas DEF IndexedIInv, IndexedTypes
<1>2. Items = ReadThrough(index, data) /\ Fields = StreamsOf(index)
  BY DEF Items, Fields, ReadThrough, StreamsOf, readStream
<1> QED BY <1>1, <1>2

\* Records that are appended leave those described that are there.
LEMMA StillDescribed ==
  ASSUME NEW e \in Tables, NEW d \in Seq(RecordSet), NEW f \in Seq(RecordSet), Describes(e, d)
  PROVE  Describes(e, d \o f)
<1>1. /\ Len(d) \in Nat /\ Len(d \o f) \in Nat /\ Len(d) <= Len(d \o f)
      /\ \A i \in 1..Len(d) : i \in 1..Len(d \o f) /\ (d \o f)[i] = d[i]
  OBVIOUS
<1> QED BY <1>1 DEF Describes

\* Streams that are rewritten are described by their new records.
LEMMA RewrittenEffect ==
  ASSUME IndexedIInv, NEW S \in SUBSET Ids, NEW m, \A id \in S : m[id] \in Streams, Rewritten(m, S)
  PROVE  /\ IndexedIInv' /\ UNCHANGED <<disk, legacy>>
         /\ Items' = [id \in Ids |-> IF id \in S THEN m[id] ELSE Items[id]]
<1>0. /\ index \in Tables /\ data \in Seq(RecordSet) /\ disk \in Seq(RecordSet) \cup {None}
      /\ legacy \in [Ids -> Streams] \cup {None} /\ lister \in Tables /\ snapshot = StreamsOf(lister)
      /\ moved \in BOOLEAN /\ Describes(index, data) /\ (~moved => Describes(lister, data))
  BY DEF IndexedIInv, IndexedTypes
<1>1. PICK ids \in Orders(S) :
        /\ data' = data \o Records(m, ids)
        /\ index' = [id \in Ids |-> IF id \in S THEN appendStream(data, m, ids)[id] ELSE index[id]]
        /\ UNCHANGED <<disk, legacy, lister, snapshot, moved>>
  BY DEF Rewritten
<1> DEFINE f == Records(m, ids)
<1>2. /\ f \in Seq(RecordSet) /\ Len(f) = Len(ids)
      /\ \A id \in S : f[Place(ids, id)] = Record(id, m[id])
  BY RecordsAre
<1>3. Len(ids) \in Nat /\ \A id \in S : Place(ids, id) \in 1..Len(ids)
  BY Placed
<1>4. data' = data \o f
  BY <1>1
<1> HIDE DEF f
<1>5. ToSet(ids) = S
  BY DEF Orders
<1>6. ASSUME NEW id \in S
      PROVE  /\ index'[id] = [st |-> m[id], pos |-> Len(data) + Place(ids, id)]
             /\ index'[id] \in Summaries /\ index'[id].st = m[id]
             /\ index'[id].pos \in 1..Len(data') /\ data'[index'[id].pos] = Record(id, index'[id].st)
  <2>1. index'[id] = [st |-> m[id], pos |-> Len(data) + Place(ids, id)]
    BY <1>1, <1>5 DEF appendStream
  <2>2. Len(data) \in Nat /\ Place(ids, id) \in 1..Len(f) /\ Len(data') = Len(data) + Len(f)
    <3>1. Len(data) \in Nat
      BY <1>0
    <3>2. Place(ids, id) \in 1..Len(f)
      BY <1>2, <1>3
    <3>3. Len(data') = Len(data) + Len(f)
      BY <1>0, <1>2, <1>4
    <3> QED BY <3>1, <3>2, <3>3
  <2>3. Len(data) + Place(ids, id) \in 1..Len(data')
    BY <2>2, <1>2, <1>3
  <2>4. data'[Len(data) + Place(ids, id)] = f[Place(ids, id)]
    BY <2>2, <1>0, <1>2, <1>4
  <2>5. index'[id] \in Summaries
    <3>1. Len(data) + Place(ids, id) \in Nat
      BY <2>2, <1>3
    <3> QED BY <2>1, <3>1 DEF Summaries
  <2>6. index'[id].pos = Len(data) + Place(ids, id) /\ index'[id].st = m[id]
    BY <2>1
  <2> QED BY <1>2, <2>1, <2>3, <2>4, <2>5, <2>6
<1>7. ASSUME NEW id \in Ids \ S PROVE index'[id] = index[id]
  BY <1>1
<1>8. Describes(index, data') /\ (~moved => Describes(lister, data'))
  BY <1>0, <1>2, <1>4, StillDescribed
<1>9. index' \in Tables
  <2>1. \A id \in Ids : index'[id] \in Summaries \cup {None}
    BY <1>0, <1>6, <1>7 DEF Tables
  <2>2. index' = [id \in Ids |-> index'[id]]
    BY <1>1
  <2> QED BY <2>1, <2>2 DEF Tables
<1>10. Describes(index', data')
  BY <1>6, <1>7, <1>8 DEF Describes
<1>11. data' \in Seq(RecordSet)
  BY <1>0, <1>2, <1>4
<1>12. IndexedIInv'
  BY <1>0, <1>1, <1>8, <1>9, <1>10, <1>11 DEF IndexedIInv, IndexedTypes
<1>13. Items' = Fields' /\ Items = Fields
  <2>1. Items = Fields
    BY FieldsAreItems
  <2>2. Items' = Fields'
    <3>1. ReadThrough(index', data') = StreamsOf(index')
      BY <1>9, <1>10, <1>11, ReadsWhatItHas
    <3> QED BY <3>1 DEF Items, Fields, ReadThrough, StreamsOf, readStream
  <2> QED BY <2>1, <2>2
<1>14. ASSUME NEW id \in Ids PROVE Fields'[id] = IF id \in S THEN m[id] ELSE Fields[id]
  <2>1. CASE id \in S
    <3>1. index'[id] # None
      BY <1>6, <2>1, IndexedAssumption DEF Summaries
    <3>2. index'[id].st = m[id]
      BY <1>6, <2>1
    <3> QED BY <2>1, <3>1, <3>2 DEF Fields
  <2>2. CASE id \notin S
    BY <1>7, <2>2 DEF Fields
  <2> QED BY <2>1, <2>2
<1>15. Fields' = [id \in Ids |-> IF id \in S THEN m[id] ELSE Fields[id]]
  BY <1>14 DEF Fields
<1> QED BY <1>1, <1>12, <1>13, <1>15

\* Streams that are forgotten are not there, and the others stay as they are.
LEMMA ForgetEffect ==
  ASSUME IndexedIInv, NEW S, Forget(S)
  PROVE  IndexedIInv' /\ UNCHANGED <<disk, legacy>> /\ Items' = Without(Items, S)
<1>0. /\ index \in Tables /\ data \in Seq(RecordSet) /\ disk \in Seq(RecordSet) \cup {None}
      /\ legacy \in [Ids -> Streams] \cup {None} /\ lister \in Tables /\ snapshot = StreamsOf(lister)
      /\ moved \in BOOLEAN /\ Describes(index, data) /\ (~moved => Describes(lister, data))
  BY DEF IndexedIInv, IndexedTypes
<1>1. /\ index' = [id \in Ids |-> IF id \in S THEN None ELSE index[id]]
      /\ UNCHANGED <<data, disk, legacy, lister, snapshot, moved>>
  BY DEF Forget
<1>2. index' \in Tables
  BY <1>0, <1>1 DEF Tables
<1>3. Describes(index', data')
  BY <1>0, <1>1 DEF Describes
<1>4. IndexedIInv'
  BY <1>0, <1>1, <1>2, <1>3 DEF IndexedIInv, IndexedTypes
<1>5. Items' = [id \in Ids |-> IF id \in S THEN None ELSE Items[id]]
  <2>1. \A id \in Ids : ~readable(None, data)
    BY DEF readable
  <2>2. ASSUME NEW id \in Ids PROVE Items'[id] = IF id \in S THEN None ELSE Items[id]
    BY <1>1, <2>1 DEF Items, readable, readStream
  <2> QED BY <2>2 DEF Items
<1> QED BY <1>1, <1>4, <1>5 DEF Without

\* A step that gives a reader the map m, if it keeps the invariant.
Gives(m) == IndexedIInv' /\ UNCHANGED <<disk, legacy>> /\ Items' = m

\* A bulk upsert merges what it brings into the streams.
LEMMA UpsertGives ==
  ASSUME IndexedIInv, NEW b \in Batches, BulkUpsert(b) PROVE Gives(Upserted(Items, b))
<1> DEFINE u == Upserted(Items, b)
<1>1. Items = Fields /\ Items \in Maps
  BY FieldsAreItems
<1>2. /\ u \in Maps /\ DOMAIN b \subseteq Ids /\ Present(u) = Present(Items) \cup DOMAIN b
      /\ \A id \in Ids \ DOMAIN b : u[id] = Items[id]
  BY <1>1, UpsertedMap
<1>3. Rewritten(u, DOMAIN b)
  BY <1>1 DEF BulkUpsert
<1> HIDE DEF u
<1>4. \A id \in DOMAIN b : u[id] \in Streams
  BY <1>2 DEF Present, Maps
<1>5. /\ IndexedIInv' /\ UNCHANGED <<disk, legacy>>
      /\ Items' = [id \in Ids |-> IF id \in DOMAIN b THEN u[id] ELSE Items[id]]
  BY <1>2, <1>3, <1>4, RewrittenEffect
<1>6. u = [id \in Ids |-> u[id]]
  BY <1>2 DEF Maps
<1>7. Items' = u
  BY <1>2, <1>5, <1>6
<1> QED BY <1>5, <1>7 DEF Gives, u

\* Streams that are changed become those that F makes of them.
LEMMA ChangeGives ==
  ASSUME IndexedIInv, NEW S \in SUBSET Present(Items), NEW m,
         \A id \in S : m[id] \in Streams, Rewritten(m, S)
  PROVE  Gives([id \in Ids |-> IF id \in S THEN m[id] ELSE Items[id]])
<1>1. S \in SUBSET Ids
  BY DEF Present
<1> QED BY <1>1, RewrittenEffect DEF Gives

\* A field of a stream that is there is changed.
LEMMA FieldGives ==
  ASSUME IndexedIInv, NEW id \in Ids, NEW st, updateIndexedField(id, st),
         \A tt \in Streams : Items[id] = tt => st \in Streams
  PROVE  id \in Present(Items) /\ Gives([jd \in Ids |-> IF jd \in {id} THEN st ELSE Items[jd]])
<1>1. Items = Fields /\ Items \in Maps /\ (readable(index[id], data) <=> index[id] # None)
  BY FieldsAreItems
<1>2. readable(index[id], data) /\ Rewritten([Items EXCEPT ![id] = st], {id})
  BY DEF updateIndexedField
<1>3. Items[id] # None
  <2>1. index[id] # None /\ index[id] \in Summaries
    BY <1>1, <1>2 DEF IndexedIInv, IndexedTypes, Tables
  <2>2. index[id].st \in Streams
    BY <2>1 DEF Summaries
  <2>3. Items[id] = index[id].st
    BY <1>1, <2>1 DEF Fields
  <2> QED BY <2>2, <2>3, StreamAssumption
<1>4. Items[id] \in Streams /\ id \in Present(Items)
  BY <1>1, <1>3 DEF Maps, Present
<1>5. st \in Streams
  BY <1>4
<1>6. DOMAIN Items = Ids
  BY <1>1 DEF Maps
<1> DEFINE m == [Items EXCEPT ![id] = st]
<1>7. m[id] = st
  BY <1>6
<1>8. Rewritten(m, {id})
  BY <1>2
<1> HIDE DEF m
<1>9. Gives([jd \in Ids |-> IF jd \in {id} THEN m[jd] ELSE Items[jd]])
  BY <1>4, <1>5, <1>7, <1>8, ChangeGives
<1>10. [jd \in Ids |-> IF jd \in {id} THEN m[jd] ELSE Items[jd]] = [jd \in Ids |-> IF jd \in {id} THEN st ELSE Items[jd]]
  BY <1>7
<1> QED BY <1>4, <1>9, <1>10

\* The automatic matches of an account go.
LEMMA AutoTMDBGives ==
  ASSUME IndexedIInv, NEW a, IndexedClearAutoTMDB(a)
  PROVE  Gives([id \in Ids |-> IF id \in OfSource(Items, "m3u", a) \cap Present(Items)
                               THEN AutoTMDBCleared(Items[id]) ELSE Items[id]])
<1>1. Items = Fields /\ Items \in Maps
  BY FieldsAreItems
<1> DEFINE S == {id \in OfSource(Items, "m3u", a) : Items[id].tmdb > 0 /\ ~Items[id].manual}
           m == Changed(Items, S, LAMBDA st : [st EXCEPT !.tmdb = 0])
           n == [id \in Ids |-> IF id \in OfSource(Items, "m3u", a) \cap Present(Items)
                                THEN AutoTMDBCleared(Items[id]) ELSE Items[id]]
<1>2. Rewritten(m, S)
  BY <1>1 DEF IndexedClearAutoTMDB
<1>3. S \subseteq Present(Items) /\ Present(Items) \subseteq Ids /\ \A id \in Present(Items) : Items[id] \in Streams
  BY <1>1 DEF OfSource, OfKind, Present, Maps
<1>4. \A id \in Ids : n[id] = IF id \in S THEN m[id] ELSE Items[id]
  BY <1>3 DEF Changed, AutoTMDBCleared
<1>5. \A id \in S : m[id] = AutoTMDBCleared(Items[id])
  BY <1>3 DEF Changed, AutoTMDBCleared
<1>6. \A id \in S : m[id] \in Streams
  BY <1>3, <1>5, FieldUpdates
<1> HIDE DEF S, m
<1>7. Gives([id \in Ids |-> IF id \in S THEN m[id] ELSE Items[id]])
  BY <1>2, <1>3, <1>6, ChangeGives
<1>8. n = [id \in Ids |-> IF id \in S THEN m[id] ELSE Items[id]]
  BY <1>4
<1> QED BY <1>7, <1>8

\* The flag of an account is set in its streams.
LEMMA WireGuardGives ==
  ASSUME IndexedIInv, NEW a, NEW on \in BOOLEAN, IndexedUpdateWireGuard(a, on)
  PROVE  Gives([id \in Ids |-> IF id \in OfSource(Items, "m3u", a) \cap Present(Items)
                               THEN [Items[id] EXCEPT !.wg = on] ELSE Items[id]])
<1>1. Items = Fields /\ Items \in Maps
  BY FieldsAreItems
<1> DEFINE S == OfSource(Items, "m3u", a)
           m == Changed(Items, S, LAMBDA st : [st EXCEPT !.wg = on])
<1>2. Rewritten(m, S)
  BY <1>1 DEF IndexedUpdateWireGuard
<1>3. S \subseteq Present(Items) /\ Present(Items) \subseteq Ids /\ \A id \in Present(Items) : Items[id] \in Streams
  BY <1>1 DEF OfSource, OfKind, Present, Maps
<1>5. \A id \in S : m[id] = [Items[id] EXCEPT !.wg = on]
  BY <1>3 DEF Changed
<1>6. \A id \in S : m[id] \in Streams
  <2>1. \A st \in Streams : [st EXCEPT !.wg = on] \in Streams
    BY DEF Streams
  <2> QED BY <1>3, <1>5, <2>1
<1> HIDE DEF S, m
<1>7. Gives([id \in Ids |-> IF id \in S THEN m[id] ELSE Items[id]])
  BY <1>2, <1>3, <1>6, ChangeGives
<1>8. [id \in Ids |-> IF id \in S THEN m[id] ELSE Items[id]]
        = [id \in Ids |-> IF id \in S \cap Present(Items) THEN [Items[id] EXCEPT !.wg = on] ELSE Items[id]]
  BY <1>3, <1>5
<1> QED BY <1>7, <1>8 DEF S

\* A store that is cleared is empty.
LEMMA ClearGives == ASSUME IndexedIInv, IndexedClear PROVE Gives(Empty)
<1>1. /\ index' = Empty /\ data' = <<>> /\ moved' = TRUE
      /\ UNCHANGED <<disk, legacy, lister, snapshot>>
  BY DEF IndexedClear
<1>2. /\ disk \in Seq(RecordSet) \cup {None} /\ legacy \in [Ids -> Streams] \cup {None}
      /\ lister \in Tables /\ snapshot = StreamsOf(lister)
  BY DEF IndexedIInv, IndexedTypes
<1>3. index' \in Tables /\ data' \in Seq(RecordSet) /\ Describes(index', data')
  BY <1>1 DEF Tables, Empty, Describes
<1>4. IndexedIInv'
  BY <1>1, <1>2, <1>3 DEF IndexedIInv, IndexedTypes
<1>5. Items' = Empty
  <2>1. \A id \in Ids : Items'[id] = None
    BY <1>1 DEF Items, readable, Empty
  <2> QED BY <2>1 DEF Items, Empty
<1> QED BY <1>1, <1>4, <1>5 DEF Gives

\* What a start would load.
OnDisk == IF disk # None THEN SavedItems(disk) ELSE IF legacy # None THEN legacy ELSE Empty

\* A save moves the records, and what it writes are the streams.
LEMMA SaveEffect == ASSUME IndexedIInv, Save PROVE IndexedIInv' /\ Items' = Items /\ OnDisk' = Items
<1>0. /\ index \in Tables /\ data \in Seq(RecordSet) /\ disk \in Seq(RecordSet) \cup {None}
      /\ legacy \in [Ids -> Streams] \cup {None} /\ lister \in Tables /\ snapshot = StreamsOf(lister)
  BY DEF IndexedIInv, IndexedTypes
<1>1. Items = Fields /\ Items \in Maps /\ \A id \in Ids : readable(index[id], data) <=> index[id] # None
  BY FieldsAreItems
<1>2. PICK ids \in Orders(Present(Items)) :
        /\ data' = Records(Items, ids)
        /\ index' = [id \in Ids |-> IF id \in ToSet(ids) THEN [st |-> index[id].st, pos |-> Place(ids, id)]
                                    ELSE index[id]]
        /\ disk' = data' /\ moved' = TRUE
        /\ UNCHANGED <<legacy, lister, snapshot>>
  BY DEF Save
<1>3. ToSet(ids) = Present(Items) /\ Present(Items) \subseteq Ids
  BY DEF Orders, Present
<1>4. \A id \in Present(Items) : Items[id] \in Streams
  BY <1>1 DEF Present, Maps
<1>5. /\ data' \in Seq(RecordSet) /\ Len(data') = Len(ids)
      /\ \A id \in Present(Items) : data'[Place(ids, id)] = Record(id, Items[id])
  BY <1>2, <1>3, <1>4, RecordsAre
<1>6. \A id \in Present(Items) : Place(ids, id) \in 1..Len(ids)
  BY <1>3, Placed
<1>7. \A id \in Ids : id \in Present(Items) <=> index[id] # None
  <2>1. \A id \in Ids : index[id] # None => index[id].st # None
    BY <1>0, StreamAssumption DEF Tables, Summaries
  <2> QED BY <1>1, <2>1 DEF Fields, Present
<1>8. ASSUME NEW id \in Present(Items)
      PROVE  /\ index'[id] \in Summaries /\ index'[id].st = Items[id] /\ index'[id].pos = Place(ids, id)
  <2>1. index'[id] = [st |-> index[id].st, pos |-> Place(ids, id)]
    BY <1>2, <1>3
  <2>2. index[id].st = Items[id]
    BY <1>1, <1>3, <1>7 DEF Fields
  <2>3. Items[id] \in Streams /\ Place(ids, id) \in Nat
    BY <1>4, <1>6
  <2> QED BY <2>1, <2>2, <2>3 DEF Summaries
<1>9. \A id \in Ids \ Present(Items) : index'[id] = None
  BY <1>2, <1>3, <1>7
<1>10. index' \in Tables
  <2>1. \A id \in Ids : index'[id] \in Summaries \cup {None}
    BY <1>8, <1>9
  <2>2. index' = [id \in Ids |-> index'[id]]
    BY <1>2
  <2> QED BY <2>1, <2>2 DEF Tables
<1>11. Describes(index', data')
  BY <1>5, <1>6, <1>8, <1>9 DEF Describes
<1>12. IndexedIInv'
  BY <1>0, <1>2, <1>5, <1>10, <1>11 DEF IndexedIInv, IndexedTypes
<1>13. Items' = StreamsOf(index')
  <2>1. ReadThrough(index', data') = StreamsOf(index')
    BY <1>5, <1>10, <1>11, ReadsWhatItHas
  <2> QED BY <2>1 DEF Items, ReadThrough, readStream
<1>14. \A id \in Ids : StreamsOf(index')[id] = Items[id]
  <2>1. \A id \in Present(Items) : index'[id] # None
    BY <1>8, IndexedAssumption DEF Summaries
  <2>2. \A id \in Ids \ Present(Items) : Items[id] = None
    BY DEF Present
  <2> QED BY <1>8, <1>9, <2>1, <2>2 DEF StreamsOf
<1>15. Items' = Items
  BY <1>1, <1>13, <1>14 DEF StreamsOf, Maps
<1>16. SavedItems(data') = Items
  BY <1>1, <1>2, SavedIs
<1>17. disk' # None
  BY <1>2, <1>5, IndexedAssumption DEF RecordSet
<1> QED BY <1>2, <1>12, <1>15, <1>16, <1>17 DEF OnDisk

\* A process that starts has the streams of the file, or of the older one.
LEMMA LoadEffect == ASSUME IndexedIInv, Load PROVE IndexedIInv' /\ Items' = OnDisk /\ OnDisk' = OnDisk
<1>0. /\ disk \in Seq(RecordSet) \cup {None} /\ legacy \in [Ids -> Streams] \cup {None}
  BY DEF IndexedIInv, IndexedTypes
<1>1. lister' = Empty /\ snapshot' = Empty /\ moved' = FALSE /\ legacy' = legacy
  BY DEF Load
<1>2. Empty \in Tables /\ StreamsOf(Empty) = Empty /\ \A d : Describes(Empty, d)
  BY DEF Empty, Tables, StreamsOf, Describes
<1>3. ASSUME data' \in Seq(RecordSet), index' \in Tables, Describes(index', data'),
             disk' \in Seq(RecordSet) \cup {None}
      PROVE  IndexedIInv' /\ Items' = StreamsOf(index')
  <2>1. IndexedIInv'
    BY <1>0, <1>1, <1>2, <1>3 DEF IndexedIInv, IndexedTypes
  <2>2. ReadThrough(index', data') = StreamsOf(index')
    BY <1>3, ReadsWhatItHas
  <2> QED BY <2>1, <2>2 DEF Items, ReadThrough, readStream
<1>4. CASE disk # None /\ data' = disk /\ index' = Loaded(disk) /\ UNCHANGED disk
  <2>1. disk \in Seq(RecordSet)
    BY <1>0, <1>4
  <2>2. Loaded(disk) \in Tables /\ Describes(Loaded(disk), disk) /\ SavedItems(disk) = StreamsOf(Loaded(disk))
    BY <2>1, LoadedDescribes
  <2>3. IndexedIInv' /\ Items' = StreamsOf(index')
    BY <1>3, <1>4, <2>1, <2>2
  <2> QED BY <1>1, <1>4, <2>2, <2>3 DEF OnDisk
<1>5. CASE disk = None /\ legacy = None /\ data' = <<>> /\ index' = Empty /\ UNCHANGED disk
  <2>1. IndexedIInv' /\ Items' = StreamsOf(index')
    BY <1>2, <1>3, <1>5
  <2> QED BY <1>1, <1>2, <1>5, <2>1 DEF OnDisk
<1>6. CASE /\ disk = None /\ legacy # None
           /\ \E ids \in Orders(Present(legacy)) : data' = Records(legacy, ids)
           /\ index' = Loaded(data') /\ disk' = data'
  <2>1. PICK ids \in Orders(Present(legacy)) : data' = Records(legacy, ids)
    BY <1>6
  <2>2. legacy \in Maps
    BY <1>0, <1>6 DEF Maps
  <2>3. data' \in Seq(RecordSet) /\ SavedItems(data') = legacy
    BY <2>1, <2>2, SavedIs
  <2>4. Loaded(data') \in Tables /\ Describes(Loaded(data'), data') /\ SavedItems(data') = StreamsOf(Loaded(data'))
    BY <2>3, LoadedDescribes
  <2>5. IndexedIInv' /\ Items' = StreamsOf(index')
    BY <1>3, <1>6, <2>3, <2>4
  <2>6. disk' # None
    BY <1>6, <2>3, IndexedAssumption DEF RecordSet
  <2> QED BY <1>1, <1>6, <2>3, <2>4, <2>5, <2>6 DEF OnDisk
<1> QED BY <1>4, <1>5, <1>6 DEF Load

\* A List takes what the index has.
LEMMA ListTakeEffect ==
  ASSUME IndexedIInv, ListTake PROVE IndexedIInv' /\ UNCHANGED <<index, data, disk, legacy>>
<1>1. Items = StreamsOf(index)
  BY FieldsAreItems DEF Fields, StreamsOf
<1> QED BY <1>1 DEF ListTake, IndexedIInv, IndexedTypes

-----------------------------------------------------------------------------
(* The plain store behind the records *)

\* The operators of the plain store are those of this module.
LEMMA PlainStoreOperators ==
  /\ \A kind : PlainStore!SourcesOf(kind) = SourcesOf(kind)
  /\ PlainStore!Batches = Batches /\ PlainStore!Empty = Empty
  /\ \A m, b : PlainStore!Upserted(m, b) = Upserted(m, b)
  /\ \A m, S : PlainStore!Without(m, S) = Without(m, S)
  /\ \A m, kind, src : PlainStore!OfSource(m, kind, src) = OfSource(m, kind, src)
  /\ \A m, kind, src, keep : PlainStore!StaleOf(m, kind, src, keep) = StaleOf(m, kind, src, keep)
  /\ \A m, kind, known : PlainStore!OrphansOf(m, kind, known) = OrphansOf(m, kind, known)
<1>1. /\ \A kind : PlainStore!SourcesOf(kind) = SourcesOf(kind)
      /\ PlainStore!Batches = Batches /\ PlainStore!Empty = Empty
  BY DEF PlainStore!SourcesOf, SourcesOf, PlainStore!Batches, Batches, PlainStore!Empty, Empty
<1>2. \A m, b : PlainStore!Upserted(m, b) = Upserted(m, b)
  BY DEF PlainStore!Upserted, Upserted, PlainStore!Merged, Merged
<1>3. \A m, S : PlainStore!Without(m, S) = Without(m, S)
  BY DEF PlainStore!Without, Without
<1>4. \A m, kind, src : PlainStore!OfSource(m, kind, src) = OfSource(m, kind, src)
  BY DEF PlainStore!OfSource, OfSource, PlainStore!OfKind, OfKind, PlainStore!Present, Present
<1>5. \A m, kind, src, keep : PlainStore!StaleOf(m, kind, src, keep) = StaleOf(m, kind, src, keep)
  BY <1>4 DEF PlainStore!StaleOf, StaleOf
<1>6. \A m, kind, known : PlainStore!OrphansOf(m, kind, known) = OrphansOf(m, kind, known)
  BY DEF PlainStore!OrphansOf, OrphansOf, PlainStore!OfKind, OfKind, PlainStore!Present, Present
<1> QED BY <1>1, <1>2, <1>3, <1>4, <1>5, <1>6

\* The invariant holds again, and the step is one of the plain store or none.
Mapped == IndexedIInv' /\ (PlainStore!StoreNext \/ UNCHANGED PlainStore!storeVars)

\* A step that gives a reader the map m is one that makes the store m.
LEMMA GivesBecomes == ASSUME NEW m, Gives(m) PROVE IndexedIInv' /\ PlainStore!Becomes(m)
<1>1. OnDisk' = OnDisk
  BY DEF Gives, OnDisk, SavedItems, Loaded, LastOf
<1> QED BY <1>1 DEF Gives, PlainStore!Becomes, OnDisk

\* The deletions are those of the plain store.
LEMMA DeletionsMap ==
  ASSUME IndexedIInv,
         \/ \E a \in SourcesOf("m3u") :
              DeleteByAccountID(a) \/ \E keep \in SUBSET Ids : DeleteStaleByAccountID(a, keep)
         \/ \E s \in SourcesOf("satip") :
              DeleteBySatIPSourceID(s) \/ \E keep \in SUBSET Ids : DeleteStaleBySatIPSourceID(s, keep)
         \/ \E h \in SourcesOf("hdhr") :
              DeleteByHDHRSourceID(h) \/ \E keep \in SUBSET Ids : DeleteStaleByHDHRSourceID(h, keep)
         \/ \E known \in SUBSET SourcesOf("m3u") : DeleteOrphanedM3UStreams(known)
         \/ \E known \in SUBSET SourcesOf("satip") : DeleteOrphanedSatIPStreams(known)
         \/ \E known \in SUBSET SourcesOf("hdhr") : DeleteOrphanedHDHRStreams(known)
  PROVE  Mapped
<1>1. Items = Fields
  BY FieldsAreItems
<1>2. ASSUME NEW S, Forget(S) PROVE IndexedIInv' /\ PlainStore!Becomes(PlainStore!Without(Items, S))
  BY <1>2, ForgetEffect, GivesBecomes, PlainStoreOperators DEF Gives
<1>3. ASSUME NEW a \in SourcesOf("m3u"), DeleteByAccountID(a) PROVE Mapped
  <2>1. IndexedIInv' /\ PlainStore!DeleteByAccountID(a)
    BY <1>1, <1>2, <1>3, PlainStoreOperators DEF DeleteByAccountID, PlainStore!DeleteByAccountID
  <2> QED BY <2>1, PlainStoreOperators DEF Mapped, PlainStore!StoreNext
<1>4. ASSUME NEW a \in SourcesOf("m3u"), NEW keep \in SUBSET Ids, DeleteStaleByAccountID(a, keep) PROVE Mapped
  <2>1. IndexedIInv' /\ PlainStore!DeleteStaleByAccountID(a, keep)
    BY <1>1, <1>2, <1>4, PlainStoreOperators DEF DeleteStaleByAccountID, PlainStore!DeleteStaleByAccountID
  <2> QED BY <2>1, PlainStoreOperators DEF Mapped, PlainStore!StoreNext
<1>5. ASSUME NEW a \in SourcesOf("satip"), DeleteBySatIPSourceID(a) PROVE Mapped
  <2>1. IndexedIInv' /\ PlainStore!DeleteBySatIPSourceID(a)
    BY <1>1, <1>2, <1>5, PlainStoreOperators DEF DeleteBySatIPSourceID, PlainStore!DeleteBySatIPSourceID
  <2> QED BY <2>1, PlainStoreOperators DEF Mapped, PlainStore!StoreNext
<1>6. ASSUME NEW a \in SourcesOf("satip"), NEW keep \in SUBSET Ids, DeleteStaleBySatIPSourceID(a, keep) PROVE Mapped
  <2>1. IndexedIInv' /\ PlainStore!DeleteStaleBySatIPSourceID(a, keep)
    BY <1>1, <1>2, <1>6, PlainStoreOperators DEF DeleteStaleBySatIPSourceID, PlainStore!DeleteStaleBySatIPSourceID
  <2> QED BY <2>1, PlainStoreOperators DEF Mapped, PlainStore!StoreNext
<1>7. ASSUME NEW a \in SourcesOf("hdhr"), DeleteByHDHRSourceID(a) PROVE Mapped
  <2>1. IndexedIInv' /\ PlainStore!DeleteByHDHRSourceID(a)
    BY <1>1, <1>2, <1>7, PlainStoreOperators DEF DeleteByHDHRSourceID, PlainStore!DeleteByHDHRSourceID
  <2> QED BY <2>1, PlainStoreOperators DEF Mapped, PlainStore!StoreNext
<1>8. ASSUME NEW a \in SourcesOf("hdhr"), NEW keep \in SUBSET Ids, DeleteStaleByHDHRSourceID(a, keep) PROVE Mapped
  <2>1. IndexedIInv' /\ PlainStore!DeleteStaleByHDHRSourceID(a, keep)
    BY <1>1, <1>2, <1>8, PlainStoreOperators DEF DeleteStaleByHDHRSourceID, PlainStore!DeleteStaleByHDHRSourceID
  <2> QED BY <2>1, PlainStoreOperators DEF Mapped, PlainStore!StoreNext
<1>9. ASSUME NEW known \in SUBSET SourcesOf("m3u"), DeleteOrphanedM3UStreams(known) PROVE Mapped
  <2>1. IndexedIInv' /\ PlainStore!DeleteOrphanedM3UStreams(known)
    BY <1>1, <1>2, <1>9, PlainStoreOperators DEF DeleteOrphanedM3UStreams, PlainStore!DeleteOrphanedM3UStreams
  <2> QED BY <2>1, PlainStoreOperators DEF Mapped, PlainStore!StoreNext
<1>10. ASSUME NEW known \in SUBSET SourcesOf("satip"), DeleteOrphanedSatIPStreams(known) PROVE Mapped
  <2>1. IndexedIInv' /\ PlainStore!DeleteOrphanedSatIPStreams(known)
    BY <1>1, <1>2, <1>10, PlainStoreOperators DEF DeleteOrphanedSatIPStreams, PlainStore!DeleteOrphanedSatIPStreams
  <2> QED BY <2>1, PlainStoreOperators DEF Mapped, PlainStore!StoreNext
<1>11. ASSUME NEW known \in SUBSET SourcesOf("hdhr"), DeleteOrphanedHDHRStreams(known) PROVE Mapped
  <2>1. IndexedIInv' /\ PlainStore!DeleteOrphanedHDHRStreams(known)
    BY <1>1, <1>2, <1>11, PlainStoreOperators DEF DeleteOrphanedHDHRStreams, PlainStore!DeleteOrphanedHDHRStreams
  <2> QED BY <2>1, PlainStoreOperators DEF Mapped, PlainStore!StoreNext
<1> QED BY <1>3, <1>4, <1>5, <1>6, <1>7, <1>8, <1>9, <1>10, <1>11, Zenon

\* A deletion or a field update of one stream is that of the plain store.
LEMMA OfOneMap ==
  ASSUME IndexedIInv, NEW id \in Ids,
         \/ IndexedDelete(id) \/ updateIndexedField(id, WithTMDB(Items[id]))
         \/ updateIndexedField(id, WithManualTMDB(Items[id]))
         \/ updateIndexedField(id, WithProbe(Items[id]))
  PROVE  Mapped
<1>1. CASE IndexedDelete(id)
  <2>1. Gives(Without(Items, {id}))
    BY <1>1, ForgetEffect DEF IndexedDelete, Gives
  <2>2. IndexedIInv' /\ PlainStore!Delete(id)
    BY <2>1, GivesBecomes, PlainStoreOperators DEF PlainStore!Delete
  <2> QED BY <2>2 DEF Mapped, PlainStore!StoreNext
<1>2. CASE updateIndexedField(id, WithTMDB(Items[id]))
  <2>1. /\ id \in Present(Items)
        /\ Gives([jd \in Ids |-> IF jd \in {id} THEN WithTMDB(Items[id]) ELSE Items[jd]])
    BY <1>2, FieldUpdates, FieldGives
  <2>2. [jd \in Ids |-> IF jd \in {id} THEN WithTMDB(Items[id]) ELSE Items[jd]]
          = [jd \in Ids |-> IF jd \in {id} \cap Present(Items) THEN WithTMDB(Items[jd]) ELSE Items[jd]]
    BY <2>1
  <2>3. /\ IndexedIInv'
        /\ PlainStore!Becomes([jd \in Ids |-> IF jd \in {id} \cap Present(Items) THEN WithTMDB(Items[jd]) ELSE Items[jd]])
    BY <2>1, <2>2, GivesBecomes
  <2>4. PlainStore!UpdateTMDBID(id)
    BY <2>3 DEF PlainStore!UpdateTMDBID, PlainStore!Changed, PlainStore!Present, Present,
       PlainStore!WithTMDB, WithTMDB
  <2> QED BY <2>3, <2>4 DEF Mapped, PlainStore!StoreNext
<1>3. CASE updateIndexedField(id, WithManualTMDB(Items[id]))
  <2>1. /\ id \in Present(Items)
        /\ Gives([jd \in Ids |-> IF jd \in {id} THEN WithManualTMDB(Items[id]) ELSE Items[jd]])
    BY <1>3, FieldUpdates, FieldGives
  <2>2. [jd \in Ids |-> IF jd \in {id} THEN WithManualTMDB(Items[id]) ELSE Items[jd]]
          = [jd \in Ids |-> IF jd \in {id} \cap Present(Items) THEN WithManualTMDB(Items[jd]) ELSE Items[jd]]
    BY <2>1
  <2>3. /\ IndexedIInv'
        /\ PlainStore!Becomes([jd \in Ids |-> IF jd \in {id} \cap Present(Items) THEN WithManualTMDB(Items[jd]) ELSE Items[jd]])
    BY <2>1, <2>2, GivesBecomes
  <2>4. PlainStore!SetTMDBManual(id)
    BY <2>3 DEF PlainStore!SetTMDBManual, PlainStore!Changed, PlainStore!Present, Present,
       PlainStore!WithManualTMDB, WithManualTMDB
  <2> QED BY <2>3, <2>4 DEF Mapped, PlainStore!StoreNext
<1>4. CASE updateIndexedField(id, WithProbe(Items[id]))
  <2>1. /\ id \in Present(Items)
        /\ Gives([jd \in Ids |-> IF jd \in {id} THEN WithProbe(Items[id]) ELSE Items[jd]])
    BY <1>4, FieldUpdates, FieldGives
  <2>2. [jd \in Ids |-> IF jd \in {id} THEN WithProbe(Items[id]) ELSE Items[jd]]
          = [jd \in Ids |-> IF jd \in {id} \cap Present(Items) THEN WithProbe(Items[jd]) ELSE Items[jd]]
    BY <2>1
  <2>3. /\ IndexedIInv'
        /\ PlainStore!Becomes([jd \in Ids |-> IF jd \in {id} \cap Present(Items) THEN WithProbe(Items[jd]) ELSE Items[jd]])
    BY <2>1, <2>2, GivesBecomes
  <2>4. PlainStore!UpdateStreamProbeData(id)
    BY <2>3 DEF PlainStore!UpdateStreamProbeData, PlainStore!Changed, PlainStore!Present, Present,
       PlainStore!WithProbe, WithProbe
  <2> QED BY <2>3, <2>4 DEF Mapped, PlainStore!StoreNext
<1> QED BY <1>1, <1>2, <1>3, <1>4

\* The updates of the streams of an account are those of the plain store.
LEMMA OfAccountMap ==
  ASSUME IndexedIInv, NEW a \in SourcesOf("m3u"),
         IndexedClearAutoTMDB(a) \/ \E on \in BOOLEAN : IndexedUpdateWireGuard(a, on)
  PROVE  Mapped
<1>0. PlainStore!ListByAccountID(Items, a) = OfSource(Items, "m3u", a) /\ a \in PlainStore!SourcesOf("m3u")
  BY PlainStoreOperators DEF PlainStore!ListByAccountID
<1>1. CASE IndexedClearAutoTMDB(a)
  <2>1. IndexedIInv' /\ PlainStore!Becomes(
          [id \in Ids |-> IF id \in OfSource(Items, "m3u", a) \cap Present(Items)
                          THEN AutoTMDBCleared(Items[id]) ELSE Items[id]])
    BY <1>1, AutoTMDBGives, GivesBecomes
  <2>2. PlainStore!ClearAutoTMDBByAccountID(a)
    BY <1>0, <2>1 DEF PlainStore!ClearAutoTMDBByAccountID, PlainStore!Changed, PlainStore!Present, Present,
       PlainStore!AutoTMDBCleared, AutoTMDBCleared
  <2> QED BY <1>0, <2>1, <2>2 DEF Mapped, PlainStore!StoreNext
<1>2. ASSUME NEW on \in BOOLEAN, IndexedUpdateWireGuard(a, on) PROVE Mapped
  <2>1. IndexedIInv' /\ PlainStore!Becomes(
          [id \in Ids |-> IF id \in OfSource(Items, "m3u", a) \cap Present(Items)
                          THEN [Items[id] EXCEPT !.wg = on] ELSE Items[id]])
    BY <1>2, WireGuardGives, GivesBecomes
  <2>2. PlainStore!UpdateWireGuardByAccountID(a, on)
    BY <1>0, <2>1 DEF PlainStore!UpdateWireGuardByAccountID, PlainStore!Changed, PlainStore!Present, Present
  <2> QED BY <1>0, <2>1, <2>2 DEF Mapped, PlainStore!StoreNext
<1> QED BY <1>1, <1>2

\* Every step keeps the invariant and is one of the plain store, or none.
LEMMA IndexedMaps == ASSUME IndexedIInv, IndexedNext PROVE Mapped
<1>1. ASSUME NEW b \in Batches, BulkUpsert(b) PROVE Mapped
  <2>1. IndexedIInv' /\ PlainStore!BulkUpsert(b)
    BY <1>1, UpsertGives, GivesBecomes, PlainStoreOperators DEF PlainStore!BulkUpsert
  <2> QED BY <2>1, PlainStoreOperators DEF Mapped, PlainStore!StoreNext
<1>2. ASSUME IndexedClear PROVE Mapped
  <2>1. IndexedIInv' /\ PlainStore!Clear
    BY <1>2, ClearGives, GivesBecomes, PlainStoreOperators DEF PlainStore!Clear
  <2> QED BY <2>1 DEF Mapped, PlainStore!StoreNext
<1>3. ASSUME Save PROVE Mapped
  <2>1. IndexedIInv' /\ PlainStore!Save
    BY <1>3, SaveEffect DEF PlainStore!Save, OnDisk
  <2> QED BY <2>1 DEF Mapped, PlainStore!StoreNext
<1>4. ASSUME Load PROVE Mapped
  <2>1. IndexedIInv' /\ PlainStore!Load
    BY <1>4, LoadEffect DEF PlainStore!Load, OnDisk
  <2> QED BY <2>1 DEF Mapped, PlainStore!StoreNext
<1>5. ASSUME ListTake PROVE Mapped
  <2>1. IndexedIInv' /\ UNCHANGED <<index, data, disk, legacy>>
    BY <1>5, ListTakeEffect
  <2>2. Items' = Items /\ OnDisk' = OnDisk
    BY <2>1 DEF Items, readStream, OnDisk, SavedItems, Loaded, LastOf
  <2> QED BY <2>1, <2>2 DEF Mapped, PlainStore!storeVars, OnDisk
<1> QED BY <1>1, <1>2, <1>3, <1>4, <1>5, DeletionsMap, OfOneMap, OfAccountMap, Zenon DEF IndexedNext

\* The invariant holds at first.
LEMMA IndexedStart == IndexedInit => IndexedIInv
<1> SUFFICES ASSUME IndexedInit PROVE IndexedIInv
  OBVIOUS
<1>1. /\ index = Empty /\ data = <<>> /\ disk = None /\ lister = Empty /\ snapshot = Empty /\ moved = FALSE
      /\ legacy \in {None} \cup {[id \in Ids |-> f] : f \in Feed}
  BY DEF IndexedInit
<1>2. Empty \in Tables /\ StreamsOf(Empty) = Empty /\ \A d : Describes(Empty, d)
  BY DEF Empty, Tables, StreamsOf, Describes
<1>3. legacy \in [Ids -> Streams] \cup {None}
  BY <1>1, StreamAssumption
<1>4. data \in Seq(RecordSet)
  BY <1>1
<1>5. IndexedTypes
  BY <1>1, <1>2, <1>3, <1>4 DEF IndexedTypes
<1> QED BY <1>1, <1>2, <1>5 DEF IndexedIInv

\* Every step keeps it.
LEMMA IndexedKeeps == IndexedIInv /\ [IndexedNext]_indexedVars => IndexedIInv'
<1>1. CASE IndexedNext
  BY <1>1, IndexedMaps DEF Mapped
<1>2. CASE UNCHANGED indexedVars
  BY <1>2 DEF indexedVars, IndexedIInv, IndexedTypes
<1> QED BY <1>1, <1>2

\* Under it the index answers for the records, and so does a List.
LEMMA IndexedPromises == IndexedIInv => IndexedAnswers
<1> SUFFICES ASSUME IndexedIInv PROVE IndexedAnswers
  OBVIOUS
<1>1. IndexDescribesRecords
  <2>1. /\ Describes(index, data)
        /\ \A id \in Ids : readable(index[id], data) <=> index[id] # None
    BY FieldsAreItems DEF IndexedIInv
  <2> QED BY <2>1 DEF IndexDescribesRecords, Describes, Present
<1>2. ASSUME ~moved PROVE ListResult = {Record(id, snapshot[id]) : id \in Present(snapshot)}
  <2>1. lister \in Tables /\ data \in Seq(RecordSet) /\ Describes(lister, data) /\ snapshot = StreamsOf(lister)
    BY <1>2 DEF IndexedIInv, IndexedTypes
  <2>2. \A id \in Ids : /\ readable(lister[id], data) <=> lister[id] # None
                        /\ StreamsOf(lister)[id] = None <=> lister[id] = None
    BY <2>1, ReadsWhatItHas
  <2>3. {i \in Ids : readable(lister[i], data)} = Present(snapshot)
    BY <2>1, <2>2 DEF Present
  <2>4. ASSUME NEW id \in Present(snapshot)
        PROVE  Record(data[lister[id].pos].id, readStream(lister[id])) = Record(id, snapshot[id])
    <3>1. id \in Ids /\ lister[id] # None
      BY <2>1, <2>2, <2>4 DEF Present
    <3>2. data[lister[id].pos] = Record(id, lister[id].st)
      BY <2>1, <3>1 DEF Describes
    <3>3. snapshot[id] = lister[id].st
      BY <2>1, <3>1 DEF StreamsOf
    <3> QED BY <3>2, <3>3, RecordFields DEF readStream
  <2> QED BY <2>3, <2>4 DEF ListResult
<1> QED BY <1>1, <1>2 DEF IndexedAnswers, ListIsSnapshot

\* The invariant holds throughout.
LEMMA IndexedInvariance == IndexedSpec => []IndexedIInv
BY IndexedStart, IndexedKeeps, PTL DEF IndexedSpec

\* After any updates, saves, loads and restarts (BulkUpsert, updateField,
\* Save, Load) the index of IndexedStreamStore describes the record it points
\* at, and a List that runs between its two locks returns one moment.
THEOREM IndexIsRight == IndexedSpec => []IndexedAnswers
BY IndexedInvariance, IndexedPromises, PTL

\* Every operation of IndexedStreamStore, though it appends records, moves them
\* on Save and finds them again on Load, has the effect it has on the plain
\* store, on what a reader gets and on what a start would load.
THEOREM RecordsAreAStore == IndexedSpec => IndexedImplementsStore
<1>1. IndexedIInv /\ [IndexedNext]_indexedVars =>
        [indexedVars' # indexedVars => PlainStore!StoreNext]_(PlainStore!storeVars)
  BY IndexedMaps DEF Mapped
<1> QED BY <1>1, IndexedInvariance, PTL DEF IndexedSpec, IndexedImplementsStore

-----------------------------------------------------------------------------
(***************************************************************************)
(* The programme guide (Guide). Indexes, entries and programmes change in  *)
(* one critical section each, so the store is right at every step; what    *)
(* the goroutines do in turn is right as long as one works at a time.      *)
(***************************************************************************)

\* What the variables hold; a copy of the entries is one of the file or of
\* memory.
EntryRecords == [src : EpgSources, ch : GuideChannels]
EntryMaps == [GuideIds -> EntryRecords \cup {Absent}]
Programmes == [epg : GuideIds, slot : Slots]
MadeMaps == {<<>>} \cup UNION {[Listed[s] -> GuideIds] : s \in EpgSources}

GuideTypes ==
  /\ epgData \in EntryMaps /\ programs \subseteq Programmes
  /\ bySourceID \in [EpgSources -> SUBSET GuideIds]
  /\ programsByEPGID \in [GuideIds -> SUBSET Programmes]
  /\ epgByChannelID \in [GuideChannels -> GuideIds \cup {Absent}]

\* The indexes entry by entry; that a channel has one entry is part of it, for
\* its index finds each of them.
PointsRight ==
  /\ \A s \in EpgSources, id \in GuideIds :
       id \in bySourceID[s] <=> epgData[id] # Absent /\ epgData[id].src = s
  /\ \A id \in GuideIds : epgData[id] # Absent => epgByChannelID[epgData[id].ch] = id
  /\ \A ch \in GuideChannels : epgByChannelID[ch] # Absent =>
       /\ epgData[epgByChannelID[ch]] # Absent
       /\ epgData[epgByChannelID[ch]].ch = ch
  /\ \A id \in GuideIds, p \in Programmes : p \in programsByEPGID[id] <=> p \in programs /\ p.epg = id

StoreRight == GuideTypes /\ PointsRight

\* The file is a copy of the entries and programmes of such a store.
OneEntry(kept) ==
  \A a, b \in GuideIds : kept[a] # Absent /\ kept[b] # Absent /\ kept[a].ch = kept[b].ch => a = b

FileRight ==
  /\ file \in [data : EntryMaps, programs : SUBSET Programmes]
  /\ OneEntry(file.data)

\* The stages of a refresh or a deletion, and what it carries.
JobPlaces == {"fetch", "old", "create", "fill", "row", "drop", "dropSave"}
JobTypes ==
  /\ epgSources \in [EpgSources -> [etag : BOOLEAN, recent : BOOLEAN] \cup {Absent}]
  /\ gjob \in [GuideJobs -> [pc : JobPlaces \cup {"idle"}, src : EpgSources \cup {Absent}, todo : SUBSET GuideIds,
                             fill : SUBSET Programmes, made : MadeMaps]]
  /\ \A g \in GuideJobs : gjob[g].pc # "idle" => gjob[g].src \in EpgSources
  /\ overlapped \in BOOLEAN /\ reborn \in BOOLEAN

\* Goroutines that work one after the other: whoever fills in programmes does
\* so for entries that are there.
OneWorks ==
  ~overlapped =>
    /\ \A g, h \in GuideJobs : Working(g) /\ Working(h) => g = h
    /\ \A g \in GuideJobs : gjob[g].pc = "fill" => \A p \in gjob[g].fill : epgData[p.epg] # Absent

\* A source whose row is about to go has no entries left.
NoneLeftBehind ==
  ~reborn => \A g \in GuideJobs : gjob[g].pc = "dropSave" =>
               \A id \in Entries : epgData[id].src # gjob[g].src

GuideIInv ==
  StoreRight /\ FileRight /\ JobTypes /\ NoOrphanPrograms /\ OneWorks /\ NoGhostSource /\ NoneLeftBehind

-----------------------------------------------------------------------------
(* The store *)

\* The programmes of an entry go from the set and from the index.
LEMMA DropProgramsRight ==
  ASSUME StoreRight, NEW id \in GuideIds, DeleteProgramsByEPGDataID(id)
  PROVE  StoreRight' /\ epgData' = epgData /\ programs' \subseteq programs
BY DEF DeleteProgramsByEPGDataID, StoreRight, GuideTypes, PointsRight

\* A source's entries go with their programmes; the rest stays.
LEMMA DropSourceRight ==
  ASSUME StoreRight, NEW src \in EpgSources, DeleteBySourceID(src)
  PROVE  /\ StoreRight' /\ programs' \subseteq programs
         /\ \A id \in GuideIds : epgData'[id] # Absent => epgData[id] # Absent /\ epgData'[id] = epgData[id]
                                                       /\ epgData[id].src # src
         /\ \A p \in programs' : epgData[p.epg] # Absent => epgData'[p.epg] # Absent
<1> USE DEF StoreRight, GuideTypes, PointsRight
<1>1. /\ epgData' \in EntryMaps
      /\ \A id \in GuideIds : epgData'[id] = IF epgData[id] # Absent /\ epgData[id].src = src THEN Absent ELSE epgData[id]
  BY DEF DeleteBySourceID, EntryMaps
<1>2. /\ epgByChannelID' \in [GuideChannels -> GuideIds \cup {Absent}]
      /\ \A ch \in GuideChannels :
           epgByChannelID'[ch] = IF \E id \in bySourceID[src] \cap Entries : epgData[id].ch = ch THEN Absent
                                 ELSE epgByChannelID[ch]
  BY DEF DeleteBySourceID, ListBySourceID
<1>3. /\ programs' = programs \ UNION {programsByEPGID[id] : id \in bySourceID[src]}
      /\ programs' \subseteq programs
  BY DEF DeleteBySourceID
<1>4. /\ bySourceID' \in [EpgSources -> SUBSET GuideIds]
      /\ \A s \in EpgSources : bySourceID'[s] = IF s = src THEN {} ELSE bySourceID[s]
  BY DEF DeleteBySourceID
<1>5. /\ programsByEPGID' \in [GuideIds -> SUBSET Programmes]
      /\ \A id \in GuideIds : programsByEPGID'[id] = IF id \in bySourceID[src] THEN {} ELSE programsByEPGID[id]
  BY DEF DeleteBySourceID
<1>6. \A p \in programs : p \in programs' <=> p.epg \notin bySourceID[src]
  <2>1. \A p \in programs : p \in Programmes /\ p.epg \in GuideIds
    BY DEF Programmes
  <2> QED BY <1>3, <2>1
<1>7. \A s \in EpgSources, id \in GuideIds : id \in bySourceID'[s] <=> epgData'[id] # Absent /\ epgData'[id].src = s
  BY <1>1, <1>4
<1>8. \A id \in GuideIds : epgData'[id] # Absent => epgByChannelID'[epgData'[id].ch] = id
  <2> SUFFICES ASSUME NEW id \in GuideIds, epgData'[id] # Absent PROVE epgByChannelID'[epgData'[id].ch] = id
    OBVIOUS
  <2>1. epgData'[id] = epgData[id] /\ epgData[id] # Absent /\ epgData[id].src # src /\ epgData[id].ch \in GuideChannels
    BY <1>1 DEF EntryMaps, EntryRecords
  <2>2. ~\E a \in bySourceID[src] \cap Entries : epgData[a].ch = epgData[id].ch
    BY <2>1 DEF Entries
  <2> QED BY <1>2, <2>1, <2>2
<1>9. \A ch \in GuideChannels : epgByChannelID'[ch] # Absent =>
        epgData'[epgByChannelID'[ch]] # Absent /\ epgData'[epgByChannelID'[ch]].ch = ch
  <2> SUFFICES ASSUME NEW ch \in GuideChannels, epgByChannelID'[ch] # Absent
               PROVE  epgData'[epgByChannelID'[ch]] # Absent /\ epgData'[epgByChannelID'[ch]].ch = ch
    OBVIOUS
  <2>1. /\ epgByChannelID'[ch] = epgByChannelID[ch] /\ epgByChannelID[ch] \in GuideIds
        /\ epgData[epgByChannelID[ch]] # Absent /\ epgData[epgByChannelID[ch]].ch = ch
        /\ ~\E id \in bySourceID[src] \cap Entries : epgData[id].ch = ch
    BY <1>2
  <2>2. epgByChannelID[ch] \in Entries
    BY <2>1 DEF Entries
  <2>3. epgByChannelID[ch] \notin bySourceID[src]
    BY <2>1, <2>2
  <2>4. epgData'[epgByChannelID[ch]] = epgData[epgByChannelID[ch]]
    BY <1>1, <2>1, <2>3
  <2> QED BY <2>1, <2>4
<1>10. \A id \in GuideIds, p \in Programmes : p \in programsByEPGID'[id] <=> p \in programs' /\ p.epg = id
  BY <1>3, <1>5, <1>6
<1>11. \A p \in programs' : epgData[p.epg] # Absent => epgData'[p.epg] # Absent
  <2>1. \A p \in programs : p.epg \in GuideIds
    BY DEF Programmes
  <2> QED BY <1>1, <1>3, <1>6, <2>1
<1> QED BY <1>1, <1>2, <1>3, <1>4, <1>5, <1>7, <1>8, <1>9, <1>10, <1>11

\* The entries of a batch replace those of their channels.
LEMMA CreateRight ==
  ASSUME StoreRight, NEW src \in EpgSources, NEW made \in NewIds(Listed[src]), BulkCreateEPGData(src, made)
  PROVE  /\ StoreRight'
         /\ programs' \subseteq programs
         /\ \A id \in GuideIds : epgData'[id] # Absent =>
              epgData'[id].src = src \/ (epgData[id] # Absent /\ epgData'[id] = epgData[id])
         /\ \A p \in programs' : epgData[p.epg] # Absent => epgData'[p.epg] # Absent
         /\ made \in [Listed[src] -> GuideIds]
         /\ \A ch \in Listed[src] : epgData'[made[ch]] # Absent
<1> USE DEF StoreRight, GuideTypes, PointsRight
<1>1. /\ made \in [Listed[src] -> GuideIds] /\ Listed[src] \subseteq GuideChannels
      /\ \A a, b \in Listed[src] : made[a] = made[b] => a = b
      /\ \A ch \in Listed[src] : epgData[made[ch]] = Absent /\ (\A p \in programs : p.epg # made[ch])
  <2>1. /\ made \in [Listed[src] -> GuideIds \ Used]
        /\ \A a, b \in Listed[src] : made[a] = made[b] => a = b
    BY DEF NewIds, Smallest
  <2>2. \A id \in GuideIds \ Used : epgData[id] = Absent /\ (\A p \in programs : p.epg # id)
    BY DEF Used, Entries
  <2>3. Listed[src] \subseteq GuideChannels
    BY DEF GuideChannels
  <2> QED BY <2>1, <2>2, <2>3
<1>2. /\ \A ch \in Listed[src], s \in EpgSources : made[ch] \notin bySourceID[s]
      /\ \A ch \in Listed[src] : programsByEPGID[made[ch]] = {}
  BY <1>1
<1> DEFINE Outgoing == Replaced(made)
           Incoming == {made[ch] : ch \in Listed[src]}
<1>3. \A id \in GuideIds : id \in Outgoing <=> epgData[id] # Absent /\ epgData[id].ch \in Listed[src]
  <2>1. ASSUME NEW id \in GuideIds, id \in Outgoing PROVE epgData[id] # Absent /\ epgData[id].ch \in Listed[src]
    BY <1>1, <2>1 DEF Replaced
  <2>2. ASSUME NEW id \in GuideIds, epgData[id] # Absent, epgData[id].ch \in Listed[src] PROVE id \in Outgoing
    <3>1. epgByChannelID[epgData[id].ch] = id
      BY <2>2
    <3> QED BY <1>1, <2>2, <3>1, GuideAssumption DEF Replaced
  <2> QED BY <2>1, <2>2
<1>4. Outgoing \subseteq GuideIds /\ (\A ch \in Listed[src] : made[ch] \notin Outgoing)
  <2>1. Outgoing \subseteq GuideIds
    BY <1>1 DEF Replaced
  <2> QED BY <1>1, <1>3, <2>1
<1>5. /\ epgData' = [id \in GuideIds |->
                      IF \E ch \in Listed[src] : made[ch] = id
                      THEN [src |-> src, ch |-> CHOOSE ch \in Listed[src] : made[ch] = id]
                      ELSE IF id \in Outgoing THEN Absent ELSE epgData[id]]
      /\ programs' = programs \ UNION {programsByEPGID[id] : id \in Outgoing}
      /\ programsByEPGID' = [id \in GuideIds |-> IF id \in Outgoing THEN {} ELSE programsByEPGID[id]]
      /\ bySourceID' = [s \in EpgSources |-> (bySourceID[s] \ Outgoing) \cup (IF s = src THEN Incoming ELSE {})]
      /\ epgByChannelID' = [ch \in GuideChannels |-> IF ch \in Listed[src] THEN made[ch] ELSE epgByChannelID[ch]]
  <2>1. DOMAIN made = Listed[src]
    BY <1>1
  <2> QED BY <2>1 DEF BulkCreateEPGData
<1> HIDE DEF Outgoing, Incoming
<1>6. \A ch \in Listed[src] : /\ epgData'[made[ch]] \in EntryRecords /\ epgData'[made[ch]] # Absent
                              /\ epgData'[made[ch]].src = src /\ epgData'[made[ch]].ch = ch
  <2> SUFFICES ASSUME NEW ch \in Listed[src]
               PROVE  /\ epgData'[made[ch]] \in EntryRecords /\ epgData'[made[ch]] # Absent
                      /\ epgData'[made[ch]].src = src /\ epgData'[made[ch]].ch = ch
    OBVIOUS
  <2> DEFINE Chosen(id) == CHOOSE c \in Listed[src] : made[c] = id
  <2>1. Chosen(made[ch]) = ch
    <3>1. Chosen(made[ch]) \in Listed[src] /\ made[Chosen(made[ch])] = made[ch]
      OBVIOUS
    <3> HIDE DEF Chosen
    <3> QED BY <1>1, <3>1
  <2>2. epgData'[made[ch]] = [src |-> src, ch |-> Chosen(made[ch])]
    BY <1>1, <1>5
  <2> HIDE DEF Chosen
  <2>3. epgData'[made[ch]].src = src /\ epgData'[made[ch]].ch = ch
    BY <2>1, <2>2
  <2>4. epgData'[made[ch]] \in EntryRecords
    BY <1>1, <2>1, <2>2 DEF EntryRecords
  <2> QED BY <2>3, <2>4, GuideAssumption DEF EntryRecords
<1>7. \A id \in GuideIds : (\A ch \in Listed[src] : made[ch] # id) =>
        epgData'[id] = IF id \in Outgoing THEN Absent ELSE epgData[id]
  BY <1>5
<1>8. epgData' \in EntryMaps
  <2>1. ASSUME NEW id \in GuideIds PROVE epgData'[id] \in EntryRecords \cup {Absent}
    <3>1. CASE \E ch \in Listed[src] : made[ch] = id
      BY <1>6, <3>1
    <3>2. CASE \A ch \in Listed[src] : made[ch] # id
      BY <1>7, <3>2 DEF EntryMaps
    <3> QED BY <3>1, <3>2
  <2>2. DOMAIN epgData' = GuideIds /\ epgData' = [id \in GuideIds |-> epgData'[id]]
    BY <1>5
  <2> QED BY <2>1, <2>2 DEF EntryMaps
<1>9. \A ch \in Listed[src] : epgData'[made[ch]] # Absent
  BY <1>6
<1>10. \A id \in GuideIds : epgData'[id] # Absent /\ (\A ch \in Listed[src] : made[ch] # id) =>
         epgData'[id] = epgData[id] /\ epgData[id] # Absent /\ epgData[id].ch \notin Listed[src]
  BY <1>3, <1>7
<1>11. /\ programs' \subseteq programs
       /\ \A p \in programs : p \in programs' <=> p.epg \notin Outgoing
  <2>1. \A p \in programs : p \in Programmes /\ p.epg \in GuideIds
    BY DEF Programmes
  <2> QED BY <1>4, <1>5, <2>1
<1>12. GuideTypes'
  <2>1. bySourceID' \in [EpgSources -> SUBSET GuideIds]
    BY <1>1, <1>5 DEF Incoming
  <2>2. programsByEPGID' \in [GuideIds -> SUBSET Programmes]
    BY <1>5
  <2>3. epgByChannelID' \in [GuideChannels -> GuideIds \cup {Absent}]
    BY <1>1, <1>5
  <2> QED BY <1>8, <1>11, <2>1, <2>2, <2>3
<1>13. ASSUME NEW s \in EpgSources, NEW id \in GuideIds
       PROVE  id \in bySourceID'[s] <=> epgData'[id] # Absent /\ epgData'[id].src = s
  <2>1. CASE \E ch \in Listed[src] : made[ch] = id
    <3>1. PICK ch \in Listed[src] : made[ch] = id
      BY <2>1
    <3>2. epgData'[id] # Absent /\ epgData'[id].src = src
      BY <1>6, <1>9, <3>1
    <3>3. id \notin bySourceID[s] /\ id \in Incoming
      BY <1>2, <3>1 DEF Incoming
    <3> QED BY <1>5, <3>2, <3>3
  <2>2. CASE \A ch \in Listed[src] : made[ch] # id
    <3>1. id \notin Incoming
      BY <2>2 DEF Incoming
    <3> QED BY <1>5, <1>7, <2>2, <3>1
  <2> QED BY <2>1, <2>2
<1>14. ASSUME NEW id \in GuideIds, epgData'[id] # Absent
       PROVE  epgByChannelID'[epgData'[id].ch] = id
  <2>1. CASE \E ch \in Listed[src] : made[ch] = id
    <3>1. PICK ch \in Listed[src] : made[ch] = id
      BY <2>1
    <3>2. epgData'[id].ch = ch /\ ch \in GuideChannels
      BY <1>1, <1>6, <3>1
    <3>3. epgByChannelID'[ch] = made[ch]
      BY <1>5, <3>2
    <3> QED BY <3>1, <3>2, <3>3
  <2>2. CASE \A ch \in Listed[src] : made[ch] # id
    <3>1. epgData'[id] = epgData[id] /\ epgData[id] # Absent /\ epgData[id].ch \notin Listed[src]
      BY <1>10, <1>14, <2>2
    <3>2. epgData[id].ch \in GuideChannels
      BY <3>1 DEF EntryMaps, EntryRecords
    <3> QED BY <1>5, <3>1, <3>2
  <2> QED BY <2>1, <2>2
<1>15. ASSUME NEW ch \in GuideChannels, epgByChannelID'[ch] # Absent
       PROVE  epgData'[epgByChannelID'[ch]] # Absent /\ epgData'[epgByChannelID'[ch]].ch = ch
  <2>1. CASE ch \in Listed[src]
    BY <1>5, <1>6, <1>9, <2>1
  <2>2. CASE ch \notin Listed[src]
    <3>1. /\ epgByChannelID'[ch] = epgByChannelID[ch] /\ epgByChannelID[ch] \in GuideIds
          /\ epgData[epgByChannelID[ch]] # Absent /\ epgData[epgByChannelID[ch]].ch = ch
      BY <1>5, <1>15, <2>2
    <3>2. epgByChannelID[ch] \notin Outgoing /\ (\A c \in Listed[src] : made[c] # epgByChannelID[ch])
      BY <1>1, <1>3, <2>2, <3>1
    <3> QED BY <1>7, <3>1, <3>2
  <2> QED BY <2>1, <2>2
<1>16. \A id \in GuideIds, p \in Programmes : p \in programsByEPGID'[id] <=> p \in programs' /\ p.epg = id
  BY <1>5, <1>11
<1>17. \A p \in programs' : epgData[p.epg] # Absent => epgData'[p.epg] # Absent
  <2>1. \A p \in programs : p.epg \in GuideIds
    BY DEF Programmes
  <2> QED BY <1>7, <1>9, <1>11, <2>1
<1>18. \A id \in GuideIds : epgData'[id] # Absent =>
         epgData'[id].src = src \/ (epgData[id] # Absent /\ epgData'[id] = epgData[id])
  BY <1>6, <1>10
<1> QED BY <1>1, <1>9, <1>11, <1>12, <1>13, <1>14, <1>15, <1>16, <1>17, <1>18

\* Programmes of any entries go into the set and into the index.
LEMMA FillRight ==
  ASSUME StoreRight, NEW P \in SUBSET Programmes, BulkCreatePrograms(P)
  PROVE  StoreRight' /\ epgData' = epgData /\ programs' = programs \cup P
BY DEF BulkCreatePrograms, StoreRight, GuideTypes, PointsRight

\* A store that is loaded is made of entries of which a channel has one.
LEMMA LoadRight ==
  ASSUME NEW kept \in EntryMaps, OneEntry(kept), NEW progs \in SUBSET Programmes, LoadGuide(kept, progs)
  PROVE  StoreRight'
<1>1. PICK last \in [GuideChannels -> GuideIds \cup {Absent}] :
        /\ \A ch \in GuideChannels :
             LET S == {id \in GuideIds : kept[id] # Absent /\ kept[id].ch = ch}
             IN  IF S = {} THEN last[ch] = Absent ELSE last[ch] \in S
        /\ epgByChannelID' = last
  BY DEF LoadGuide
<1>2. /\ epgData' = kept /\ programs' = progs
      /\ bySourceID' = [s \in EpgSources |-> {id \in GuideIds : kept[id] # Absent /\ kept[id].src = s}]
      /\ programsByEPGID' = [id \in GuideIds |-> {p \in progs : p.epg = id}]
  BY DEF LoadGuide
<1>3. GuideTypes'
  BY <1>1, <1>2 DEF GuideTypes
<1>4. ASSUME NEW id \in GuideIds, kept[id] # Absent PROVE last[kept[id].ch] = id
  <2>1. kept[id].ch \in GuideChannels
    BY <1>4 DEF EntryMaps, EntryRecords
  <2>2. last[kept[id].ch] \in {a \in GuideIds : kept[a] # Absent /\ kept[a].ch = kept[id].ch}
    BY <1>1, <1>4, <2>1
  <2> QED BY <1>4, <2>2 DEF OneEntry
<1>5. \A ch \in GuideChannels : last[ch] # Absent => kept[last[ch]] # Absent /\ kept[last[ch]].ch = ch
  BY <1>1
<1> QED BY <1>1, <1>2, <1>3, <1>4, <1>5 DEF StoreRight, PointsRight

-----------------------------------------------------------------------------
(* The steps *)

\* A step that leaves the store alone leaves what is said of it.
LEMMA StoreStays ==
  ASSUME GuideIInv, StoreSame
  PROVE  StoreRight' /\ epgData' = epgData /\ programs' = programs /\ Entries' = Entries
BY DEF GuideIInv, StoreSame, indexes, StoreRight, GuideTypes, PointsRight, Entries

\* A job that goes on, ends or is begun, and whose store and file stay.
LEMMA RefreshSourceKeeps ==
  ASSUME GuideIInv, NEW g \in GuideJobs, NEW src \in EpgSources, RefreshSource(g, src)
  PROVE  GuideIInv'
<1>1. StoreRight' /\ epgData' = epgData /\ programs' = programs /\ Entries' = Entries
  BY StoreStays DEF RefreshSource
<1>2. file' = file /\ epgSources' = epgSources /\ overlapped' = overlapped /\ reborn' = reborn
  BY DEF RefreshSource
<1>3. \/ gjob' = [gjob EXCEPT ![g] = [pc |-> "fetch", src |-> src, todo |-> {}, fill |-> {}, made |-> <<>>]]
      \/ gjob' = gjob
  BY DEF RefreshSource, NoJob
<1>4. JobTypes'
  BY <1>2, <1>3 DEF GuideIInv, JobTypes, JobPlaces, MadeMaps
<1>5. /\ \A h \in GuideJobs : gjob'[h].pc \in {"fill", "dropSave", "old", "create", "drop"} => gjob'[h] = gjob[h]
      /\ \A h \in GuideJobs : Working(h)' => Working(h)
  BY <1>3 DEF GuideIInv, JobTypes, Working
<1>6. OneWorks' /\ NoneLeftBehind'
  BY <1>1, <1>2, <1>5 DEF GuideIInv, OneWorks, NoneLeftBehind
<1>7. FileRight' /\ NoOrphanPrograms' /\ NoGhostSource'
  BY <1>1, <1>2 DEF GuideIInv, FileRight, NoOrphanPrograms, NoGhostSource
<1> QED BY <1>1, <1>4, <1>6, <1>7 DEF GuideIInv

\* A source whose row was there keeps it; one that was gone stays gone.
LEMMA RowsStay ==
  ASSUME GuideIInv, NEW src \in EpgSources, NEW row \in [etag : BOOLEAN, recent : BOOLEAN] \cup {Absent},
         row = Absent <=> epgSources[src] = Absent,
         epgSources' = [epgSources EXCEPT ![src] = row]
  PROVE  /\ epgSources' \in [EpgSources -> [etag : BOOLEAN, recent : BOOLEAN] \cup {Absent}]
         /\ \A s \in EpgSources : epgSources'[s] = Absent <=> epgSources[s] = Absent
BY DEF GuideIInv, JobTypes

\* A fetch that brings nothing ends the job and may store the etag.
LEMMA FetchKeepsKeeps ==
  ASSUME GuideIInv, NEW g \in GuideJobs, FetchKeeps(g)
  PROVE  GuideIInv'
<1>1. StoreRight' /\ epgData' = epgData /\ programs' = programs /\ Entries' = Entries
  BY StoreStays DEF FetchKeeps
<1>2. /\ file' = file /\ overlapped' = overlapped /\ reborn' = reborn
      /\ gjob' = [gjob EXCEPT ![g] = [pc |-> "idle", src |-> Absent, todo |-> {}, fill |-> {}, made |-> <<>>]]
  BY DEF FetchKeeps, NoJob
<1>3. gjob[g].src \in EpgSources
  BY DEF FetchKeeps, GuideIInv, JobTypes
<1>4. /\ epgSources' \in [EpgSources -> [etag : BOOLEAN, recent : BOOLEAN] \cup {Absent}]
      /\ \A s \in EpgSources : epgSources'[s] = Absent <=> epgSources[s] = Absent
  <2>1. CASE epgSources' = epgSources
    BY <2>1 DEF GuideIInv, JobTypes
  <2>2. CASE epgSources' # epgSources /\ epgSources[gjob[g].src] = Absent
    <3>1. epgSources' = [epgSources EXCEPT ![gjob[g].src] = Absent]
      BY <2>2 DEF FetchKeeps
    <3> QED BY <1>3, <2>2, <3>1, RowsStay
  <2>3. CASE epgSources' # epgSources /\ epgSources[gjob[g].src] # Absent
    <3> DEFINE row == [epgSources[gjob[g].src] EXCEPT !.etag = TRUE]
    <3>1. epgSources[gjob[g].src] \in [etag : BOOLEAN, recent : BOOLEAN]
      BY <1>3, <2>3 DEF GuideIInv, JobTypes
    <3>2. row \in [etag : BOOLEAN, recent : BOOLEAN]
      BY <3>1
    <3>3. epgSources' = [epgSources EXCEPT ![gjob[g].src] = row]
      BY <2>3 DEF FetchKeeps
    <3>4. row # Absent
      BY <3>2, GuideAssumption
    <3> HIDE DEF row
    <3> QED BY <1>3, <2>3, <3>2, <3>3, <3>4, RowsStay
  <2> QED BY <2>1, <2>2, <2>3
<1>5. JobTypes'
  BY <1>2, <1>4 DEF GuideIInv, JobTypes, MadeMaps
<1>6. /\ \A h \in GuideJobs : gjob'[h].pc # "idle" => gjob'[h] = gjob[h]
      /\ \A h \in GuideJobs : Working(h)' => Working(h)
  BY <1>2 DEF GuideIInv, JobTypes, Working
<1>7. OneWorks' /\ NoneLeftBehind'
  BY <1>1, <1>2, <1>6 DEF GuideIInv, OneWorks, NoneLeftBehind
<1>8. NoGhostSource'
  <2>1. \A id \in Entries : epgData[id].src \in EpgSources
    BY DEF Entries, GuideIInv, StoreRight, GuideTypes, EntryMaps, EntryRecords
  <2> QED BY <1>1, <1>2, <1>4, <2>1 DEF GuideIInv, NoGhostSource
<1>9. FileRight' /\ NoOrphanPrograms'
  BY <1>1, <1>2 DEF GuideIInv, FileRight, NoOrphanPrograms
<1> QED BY <1>1, <1>5, <1>7, <1>8, <1>9 DEF GuideIInv

\* The row of a refreshed source is written back, unless the source is gone.
LEMMA RefreshRowKeeps ==
  ASSUME GuideIInv, NEW g \in GuideJobs, RefreshRow(g)
  PROVE  GuideIInv'
<1>1. StoreRight' /\ epgData' = epgData /\ programs' = programs /\ Entries' = Entries
  BY StoreStays DEF RefreshRow
<1>2. /\ file' = file /\ overlapped' = overlapped /\ reborn' = reborn
      /\ gjob' = [gjob EXCEPT ![g] = [pc |-> "idle", src |-> Absent, todo |-> {}, fill |-> {}, made |-> <<>>]]
  BY DEF RefreshRow, NoJob
<1>3. gjob[g].src \in EpgSources
  BY DEF RefreshRow, GuideIInv, JobTypes
<1>4. /\ epgSources' \in [EpgSources -> [etag : BOOLEAN, recent : BOOLEAN] \cup {Absent}]
      /\ \A s \in EpgSources : epgSources'[s] = Absent <=> epgSources[s] = Absent
  <2>1. CASE epgSources[gjob[g].src] = Absent
    <3>1. epgSources' = [epgSources EXCEPT ![gjob[g].src] = Absent]
      BY <2>1 DEF RefreshRow
    <3> QED BY <1>3, <2>1, <3>1, RowsStay
  <2>2. CASE epgSources[gjob[g].src] # Absent
    <3> DEFINE row == [etag |-> FALSE, recent |-> TRUE]
    <3>1. epgSources' = [epgSources EXCEPT ![gjob[g].src] = row]
      BY <2>2 DEF RefreshRow
    <3>2. row \in [etag : BOOLEAN, recent : BOOLEAN]
      OBVIOUS
    <3> HIDE DEF row
    <3>3. row # Absent
      BY <3>2, GuideAssumption
    <3> QED BY <1>3, <2>2, <3>1, <3>2, <3>3, RowsStay
  <2> QED BY <2>1, <2>2
<1>5. JobTypes'
  BY <1>2, <1>4 DEF GuideIInv, JobTypes, MadeMaps
<1>6. /\ \A h \in GuideJobs : gjob'[h].pc # "idle" => gjob'[h] = gjob[h]
      /\ \A h \in GuideJobs : Working(h)' => Working(h)
  BY <1>2 DEF GuideIInv, JobTypes, Working
<1>7. OneWorks' /\ NoneLeftBehind'
  BY <1>1, <1>2, <1>6 DEF GuideIInv, OneWorks, NoneLeftBehind
<1>8. NoGhostSource'
  <2>1. \A id \in Entries : epgData[id].src \in EpgSources
    BY DEF Entries, GuideIInv, StoreRight, GuideTypes, EntryMaps, EntryRecords
  <2> QED BY <1>1, <1>2, <1>4, <2>1 DEF GuideIInv, NoGhostSource
<1>9. FileRight' /\ NoOrphanPrograms'
  BY <1>1, <1>2 DEF GuideIInv, FileRight, NoOrphanPrograms
<1> QED BY <1>1, <1>5, <1>7, <1>8, <1>9 DEF GuideIInv

\* Of a job's stages only those of the worker itself change.
LEMMA FetchParsesKeeps ==
  ASSUME GuideIInv, NEW g \in GuideJobs, FetchParses(g)
  PROVE  GuideIInv'
<1>1. StoreRight' /\ epgData' = epgData /\ programs' = programs /\ Entries' = Entries
  BY StoreStays DEF FetchParses
<1>2. /\ file' = file /\ reborn' = reborn /\ overlapped' = (overlapped \/ \E h \in GuideJobs \ {g} : Working(h))
      /\ gjob' = [gjob EXCEPT ![g].pc = "old", ![g].todo = ListBySourceID(gjob[g].src)]
      /\ gjob[g].pc = "fetch"
  BY DEF FetchParses, Noted
<1>3. gjob[g].src \in EpgSources /\ ListBySourceID(gjob[g].src) \in SUBSET GuideIds
  BY DEF FetchParses, GuideIInv, JobTypes, ListBySourceID, Entries
<1>4. /\ epgSources' \in [EpgSources -> [etag : BOOLEAN, recent : BOOLEAN] \cup {Absent}]
      /\ \A s \in EpgSources : epgSources'[s] = Absent <=> epgSources[s] = Absent
  <2>1. CASE epgSources[gjob[g].src] = Absent
    <3>1. epgSources' = [epgSources EXCEPT ![gjob[g].src] = Absent]
      BY <2>1 DEF FetchParses
    <3> QED BY <1>3, <2>1, <3>1, RowsStay
  <2>2. CASE epgSources[gjob[g].src] # Absent
    <3> DEFINE row == [epgSources[gjob[g].src] EXCEPT !.etag = TRUE]
    <3>1. epgSources[gjob[g].src] \in [etag : BOOLEAN, recent : BOOLEAN]
      BY <1>3, <2>2 DEF GuideIInv, JobTypes
    <3>2. row \in [etag : BOOLEAN, recent : BOOLEAN]
      BY <3>1
    <3>3. epgSources' = [epgSources EXCEPT ![gjob[g].src] = row]
      BY <2>2 DEF FetchParses
    <3>4. row # Absent
      BY <3>2, GuideAssumption
    <3> HIDE DEF row
    <3> QED BY <1>3, <2>2, <3>2, <3>3, <3>4, RowsStay
  <2> QED BY <2>1, <2>2
<1>5. /\ gjob'[g].pc = "old" /\ gjob'[g].src = gjob[g].src /\ gjob'[g].todo = ListBySourceID(gjob[g].src)
      /\ gjob'[g].fill = gjob[g].fill /\ gjob'[g].made = gjob[g].made
      /\ gjob'[g] \in [pc : JobPlaces \cup {"idle"}, src : EpgSources \cup {Absent}, todo : SUBSET GuideIds,
                       fill : SUBSET Programmes, made : MadeMaps]
      /\ \A h \in GuideJobs : h # g => gjob'[h] = gjob[h]
  BY <1>2, <1>3 DEF GuideIInv, JobTypes, JobPlaces
<1>6. JobTypes'
  BY <1>2, <1>3, <1>4, <1>5 DEF GuideIInv, JobTypes
<1>7. OneWorks'
  <2>1. ~overlapped' => \A h \in GuideJobs : h # g => ~Working(h)
    BY <1>2
  <2>2. \A h \in GuideJobs : h # g => (Working(h)' <=> Working(h)) /\ gjob'[h].pc = gjob[h].pc
    BY <1>5 DEF Working
  <2> QED BY <1>1, <1>5, <2>1, <2>2 DEF OneWorks, Working
<1>10. NoneLeftBehind'
  <2>1. \A h \in GuideJobs : gjob'[h].pc = "dropSave" => gjob'[h] = gjob[h]
    BY <1>5
  <2> QED BY <1>1, <1>2, <2>1 DEF GuideIInv, NoneLeftBehind
<1>8. NoGhostSource'
  <2>1. \A id \in Entries : epgData[id].src \in EpgSources
    BY DEF Entries, GuideIInv, StoreRight, GuideTypes, EntryMaps, EntryRecords
  <2> QED BY <1>1, <1>2, <1>4, <2>1 DEF GuideIInv, NoGhostSource
<1>9. FileRight' /\ NoOrphanPrograms'
  BY <1>1, <1>2 DEF GuideIInv, FileRight, NoOrphanPrograms
<1> QED BY <1>1, <1>6, <1>7, <1>8, <1>9, <1>10 DEF GuideIInv

\* A deletion begins as a refresh that has parsed its file does.
LEMMA DeleteSourceKeeps ==
  ASSUME GuideIInv, NEW g \in GuideJobs, NEW src \in EpgSources, DeleteSource(g, src)
  PROVE  GuideIInv'
<1>1. StoreRight' /\ epgData' = epgData /\ programs' = programs /\ Entries' = Entries
  BY StoreStays DEF DeleteSource
<1>2. /\ file' = file /\ epgSources' = epgSources /\ reborn' = reborn
      /\ overlapped' = (overlapped \/ \E h \in GuideJobs \ {g} : Working(h))
      /\ gjob' = [gjob EXCEPT ![g] = [NoJob EXCEPT !.pc = "drop", !.src = src, !.todo = ListBySourceID(src)]]
  BY DEF DeleteSource, Noted
<1>3. ListBySourceID(src) \in SUBSET GuideIds
  BY DEF ListBySourceID, Entries
<1>5. /\ gjob'[g].pc = "drop" /\ gjob'[g].src = src
      /\ gjob'[g] \in [pc : JobPlaces \cup {"idle"}, src : EpgSources \cup {Absent}, todo : SUBSET GuideIds,
                       fill : SUBSET Programmes, made : MadeMaps]
      /\ \A h \in GuideJobs : h # g => gjob'[h] = gjob[h]
  <2>1. NoJob \in [pc : JobPlaces \cup {"idle"}, src : EpgSources \cup {Absent}, todo : SUBSET GuideIds,
                  fill : SUBSET Programmes, made : MadeMaps]
    BY DEF NoJob, MadeMaps
  <2> QED BY <1>2, <1>3, <2>1 DEF GuideIInv, JobTypes, JobPlaces
<1>4. JobTypes'
  BY <1>2, <1>5 DEF GuideIInv, JobTypes
<1>6. OneWorks' /\ NoneLeftBehind'
  <2>1. ~overlapped' => \A h \in GuideJobs : h # g => ~Working(h)
    BY <1>2
  <2>2. \A h \in GuideJobs : h # g => (Working(h)' <=> Working(h)) /\ gjob'[h].pc = gjob[h].pc
    BY <1>5 DEF Working
  <2>3. OneWorks'
    BY <1>1, <1>5, <2>1, <2>2 DEF OneWorks, Working
  <2> QED BY <1>1, <1>2, <1>5, <2>3 DEF GuideIInv, NoneLeftBehind
<1>7. FileRight' /\ NoOrphanPrograms' /\ NoGhostSource'
  BY <1>1, <1>2 DEF GuideIInv, FileRight, NoOrphanPrograms, NoGhostSource
<1> QED BY <1>1, <1>4, <1>6, <1>7 DEF GuideIInv

\* Time passes over a row.
LEMMA GuideExpireKeeps ==
  ASSUME GuideIInv, NEW src \in EpgSources, GuideExpire(src)
  PROVE  GuideIInv'
<1>1. StoreRight' /\ epgData' = epgData /\ programs' = programs /\ Entries' = Entries
  BY StoreStays DEF GuideExpire
<1>2. file' = file /\ gjob' = gjob /\ overlapped' = overlapped /\ reborn' = reborn
  BY DEF GuideExpire
<1>3. /\ epgSources' \in [EpgSources -> [etag : BOOLEAN, recent : BOOLEAN] \cup {Absent}]
      /\ \A s \in EpgSources : epgSources'[s] = Absent <=> epgSources[s] = Absent
  <2> DEFINE row == [epgSources[src] EXCEPT !.recent = FALSE]
  <2>1. epgSources[src] \in [etag : BOOLEAN, recent : BOOLEAN] /\ epgSources[src] # Absent
    BY DEF GuideExpire, GuideIInv, JobTypes
  <2>2. row \in [etag : BOOLEAN, recent : BOOLEAN]
    BY <2>1
  <2>3. epgSources' = [epgSources EXCEPT ![src] = row]
    BY DEF GuideExpire
  <2>4. row # Absent
    BY <2>2, GuideAssumption
  <2> HIDE DEF row
  <2> QED BY <2>1, <2>2, <2>3, <2>4, RowsStay
<1>4. JobTypes'
  BY <1>2, <1>3 DEF GuideIInv, JobTypes
<1>5. OneWorks' /\ NoneLeftBehind'
  BY <1>1, <1>2 DEF GuideIInv, OneWorks, NoneLeftBehind, Working
<1>6. NoGhostSource'
  <2>1. \A id \in Entries : epgData[id].src \in EpgSources
    BY DEF Entries, GuideIInv, StoreRight, GuideTypes, EntryMaps, EntryRecords
  <2> QED BY <1>1, <1>2, <1>3, <2>1 DEF GuideIInv, NoGhostSource
<1>7. FileRight' /\ NoOrphanPrograms'
  BY <1>1, <1>2 DEF GuideIInv, FileRight, NoOrphanPrograms
<1> QED BY <1>1, <1>4, <1>5, <1>6, <1>7 DEF GuideIInv

\* The old programmes go while their entries stay.
LEMMA DropProgramsKeeps ==
  ASSUME GuideIInv, NEW g \in GuideJobs, DropPrograms(g)
  PROVE  GuideIInv'
<1>1. PICK id \in gjob[g].todo : DeleteProgramsByEPGDataID(id) /\ gjob' = [gjob EXCEPT ![g].todo = @ \ {id}]
  BY DEF DropPrograms
<1>2. id \in GuideIds
  BY <1>1 DEF GuideIInv, JobTypes
<1>3. StoreRight' /\ epgData' = epgData /\ programs' \subseteq programs
  BY <1>1, <1>2, DropProgramsRight DEF GuideIInv
<1>4. Entries' = Entries
  BY <1>3 DEF Entries
<1>5. file' = file /\ epgSources' = epgSources /\ overlapped' = overlapped /\ reborn' = reborn
  BY DEF DropPrograms
<1>6. \A h \in GuideJobs : gjob'[h].pc = gjob[h].pc /\ gjob'[h].src = gjob[h].src /\ gjob'[h].fill = gjob[h].fill
  BY <1>1 DEF GuideIInv, JobTypes
<1>7. JobTypes'
  BY <1>1, <1>5, <1>6 DEF GuideIInv, JobTypes
<1>8. OneWorks' /\ NoneLeftBehind'
  BY <1>3, <1>4, <1>5, <1>6 DEF GuideIInv, OneWorks, NoneLeftBehind, Working
<1>9. FileRight' /\ NoOrphanPrograms' /\ NoGhostSource'
  BY <1>3, <1>4, <1>5 DEF GuideIInv, FileRight, NoOrphanPrograms, NoGhostSource
<1> QED BY <1>3, <1>7, <1>8, <1>9 DEF GuideIInv

\* So do those of a source that is deleted.
LEMMA DeleteSourceProgramsKeeps ==
  ASSUME GuideIInv, NEW g \in GuideJobs, DeleteSourcePrograms(g)
  PROVE  GuideIInv'
<1>1. PICK id \in gjob[g].todo : DeleteProgramsByEPGDataID(id) /\ gjob' = [gjob EXCEPT ![g].todo = @ \ {id}]
  BY DEF DeleteSourcePrograms
<1>2. id \in GuideIds
  BY <1>1 DEF GuideIInv, JobTypes
<1>3. StoreRight' /\ epgData' = epgData /\ programs' \subseteq programs
  BY <1>1, <1>2, DropProgramsRight DEF GuideIInv
<1>4. Entries' = Entries
  BY <1>3 DEF Entries
<1>5. file' = file /\ epgSources' = epgSources /\ overlapped' = overlapped /\ reborn' = reborn
  BY DEF DeleteSourcePrograms
<1>6. \A h \in GuideJobs : gjob'[h].pc = gjob[h].pc /\ gjob'[h].src = gjob[h].src /\ gjob'[h].fill = gjob[h].fill
  BY <1>1 DEF GuideIInv, JobTypes
<1>7. JobTypes'
  BY <1>1, <1>5, <1>6 DEF GuideIInv, JobTypes
<1>8. OneWorks' /\ NoneLeftBehind'
  BY <1>3, <1>4, <1>5, <1>6 DEF GuideIInv, OneWorks, NoneLeftBehind, Working
<1>9. FileRight' /\ NoOrphanPrograms' /\ NoGhostSource'
  BY <1>3, <1>4, <1>5 DEF GuideIInv, FileRight, NoOrphanPrograms, NoGhostSource
<1> QED BY <1>3, <1>7, <1>8, <1>9 DEF GuideIInv

\* The old entries go; the worker is the only one unless two have overlapped.
LEMMA DropEntriesKeeps ==
  ASSUME GuideIInv, NEW g \in GuideJobs, DropEntries(g)
  PROVE  GuideIInv'
<1>1. /\ gjob[g].pc = "old" /\ DeleteBySourceID(gjob[g].src) /\ gjob' = [gjob EXCEPT ![g].pc = "create"]
      /\ file' = file /\ epgSources' = epgSources /\ overlapped' = overlapped /\ reborn' = reborn
  BY DEF DropEntries, Step
<1>2. gjob[g].src \in EpgSources
  BY <1>1 DEF GuideIInv, JobTypes
<1>3. /\ StoreRight' /\ programs' \subseteq programs
      /\ \A id \in GuideIds : epgData'[id] # Absent => epgData[id] # Absent /\ epgData'[id] = epgData[id]
                                                    /\ epgData[id].src # gjob[g].src
      /\ \A p \in programs' : epgData[p.epg] # Absent => epgData'[p.epg] # Absent
  BY <1>1, <1>2, DropSourceRight DEF GuideIInv
<1>4. /\ Entries' \subseteq Entries
      /\ \A id \in Entries' : epgData'[id] = epgData[id] /\ epgData[id].src # gjob[g].src
  BY <1>3 DEF Entries
<1>5. /\ gjob'[g].pc = "create" /\ \A h \in GuideJobs : h # g => gjob'[h] = gjob[h]
      /\ \A h \in GuideJobs : gjob'[h].src = gjob[h].src
  BY <1>1 DEF GuideIInv, JobTypes
<1>6. JobTypes'
  BY <1>1, <1>2 DEF GuideIInv, JobTypes, JobPlaces
<1>7. OneWorks'
  <2>1. Working(g) /\ \A h \in GuideJobs : Working(h)' => Working(h)
    BY <1>1, <1>5 DEF Working
  <2>2. \A h \in GuideJobs : gjob'[h].pc = "fill" => h # g /\ Working(h)
    BY <1>5 DEF Working
  <2> QED BY <1>1, <2>1, <2>2 DEF GuideIInv, OneWorks
<1>8. NoneLeftBehind'
  BY <1>1, <1>4, <1>5 DEF GuideIInv, NoneLeftBehind
<1>9. NoOrphanPrograms'
  <2>1. \A p \in programs' : p.epg \in GuideIds
    BY <1>3 DEF StoreRight, GuideTypes, Programmes
  <2> QED BY <1>1, <1>3, <2>1 DEF GuideIInv, NoOrphanPrograms, Entries
<1>10. FileRight' /\ NoGhostSource'
  BY <1>1, <1>4 DEF GuideIInv, FileRight, NoGhostSource
<1> QED BY <1>3, <1>6, <1>7, <1>8, <1>9, <1>10 DEF GuideIInv

\* After a source's entries have gone, there are none while its row is to go.
LEMMA DeleteSourceEntriesKeeps ==
  ASSUME GuideIInv, NEW g \in GuideJobs, DeleteSourceEntries(g)
  PROVE  GuideIInv'
<1>1. /\ gjob[g].pc = "drop" /\ DeleteBySourceID(gjob[g].src) /\ gjob' = [gjob EXCEPT ![g].pc = "dropSave"]
      /\ file' = file /\ epgSources' = epgSources /\ overlapped' = overlapped /\ reborn' = reborn
  BY DEF DeleteSourceEntries, Step
<1>2. gjob[g].src \in EpgSources
  BY <1>1 DEF GuideIInv, JobTypes
<1>3. /\ StoreRight' /\ programs' \subseteq programs
      /\ \A id \in GuideIds : epgData'[id] # Absent => epgData[id] # Absent /\ epgData'[id] = epgData[id]
                                                    /\ epgData[id].src # gjob[g].src
      /\ \A p \in programs' : epgData[p.epg] # Absent => epgData'[p.epg] # Absent
  BY <1>1, <1>2, DropSourceRight DEF GuideIInv
<1>4. /\ Entries' \subseteq Entries
      /\ \A id \in Entries' : epgData'[id] = epgData[id] /\ epgData[id].src # gjob[g].src
  BY <1>3 DEF Entries
<1>5. /\ gjob'[g].pc = "dropSave" /\ \A h \in GuideJobs : h # g => gjob'[h] = gjob[h]
      /\ \A h \in GuideJobs : gjob'[h].src = gjob[h].src
  BY <1>1 DEF GuideIInv, JobTypes
<1>6. JobTypes'
  BY <1>1, <1>2 DEF GuideIInv, JobTypes, JobPlaces
<1>7. OneWorks'
  <2>1. Working(g) /\ \A h \in GuideJobs : Working(h)' => Working(h)
    BY <1>1, <1>5 DEF Working
  <2>2. \A h \in GuideJobs : gjob'[h].pc = "fill" => h # g /\ Working(h)
    BY <1>5 DEF Working
  <2> QED BY <1>1, <2>1, <2>2 DEF GuideIInv, OneWorks
<1>8. NoneLeftBehind'
  BY <1>1, <1>4, <1>5 DEF GuideIInv, NoneLeftBehind
<1>9. NoOrphanPrograms'
  <2>1. \A p \in programs' : p.epg \in GuideIds
    BY <1>3 DEF StoreRight, GuideTypes, Programmes
  <2> QED BY <1>1, <1>3, <2>1 DEF GuideIInv, NoOrphanPrograms, Entries
<1>10. FileRight' /\ NoGhostSource'
  BY <1>1, <1>4 DEF GuideIInv, FileRight, NoGhostSource
<1> QED BY <1>3, <1>6, <1>7, <1>8, <1>9, <1>10 DEF GuideIInv

\* The new entries are of a source that there is, or the model says that it is
\* reborn; the programmes to come are of these entries.
LEMMA CreateEntriesKeeps ==
  ASSUME GuideIInv, NEW g \in GuideJobs, CreateEntries(g)
  PROVE  GuideIInv'
<1> DEFINE src == gjob[g].src
<1>1. PICK made \in NewIds(Listed[src]) :
        /\ BulkCreateEPGData(src, made)
        /\ gjob' = [gjob EXCEPT ![g].pc = "fill", ![g].made = made,
                                ![g].fill = FileProgrammes(made)]
  BY DEF CreateEntries
<1>2. /\ gjob[g].pc = "create" /\ file' = file /\ epgSources' = epgSources /\ overlapped' = overlapped
      /\ reborn' = (reborn \/ epgSources[src] = Absent
                      \/ \E h \in GuideJobs : gjob[h].src = src /\ gjob[h].pc = "dropSave")
  BY DEF CreateEntries
<1>3. src \in EpgSources
  BY <1>2 DEF GuideIInv, JobTypes
<1> HIDE DEF src
<1>4. /\ StoreRight' /\ programs' \subseteq programs
      /\ \A id \in GuideIds : epgData'[id] # Absent =>
           epgData'[id].src = src \/ (epgData[id] # Absent /\ epgData'[id] = epgData[id])
      /\ \A p \in programs' : epgData[p.epg] # Absent => epgData'[p.epg] # Absent
      /\ made \in [Listed[src] -> GuideIds]
      /\ \A ch \in Listed[src] : epgData'[made[ch]] # Absent
  BY <1>1, <1>3, CreateRight DEF GuideIInv
<1>5. \A id \in Entries' : epgData'[id].src = src \/ (id \in Entries /\ epgData'[id] = epgData[id])
  BY <1>4 DEF Entries
<1> DEFINE fills == FileProgrammes(made)
<1>6. fills \in SUBSET Programmes /\ \A p \in fills : epgData'[p.epg] # Absent
  BY <1>4 DEF Programmes, FileProgrammes
<1>7. made \in MadeMaps
  BY <1>3, <1>4 DEF MadeMaps
<1>8. gjob' = [gjob EXCEPT ![g].pc = "fill", ![g].made = made, ![g].fill = fills]
  BY <1>1
<1> HIDE DEF fills
<1>9. /\ gjob'[g].pc = "fill" /\ gjob'[g].src = gjob[g].src /\ gjob'[g].fill = fills
      /\ gjob'[g] \in [pc : JobPlaces \cup {"idle"}, src : EpgSources \cup {Absent}, todo : SUBSET GuideIds,
                       fill : SUBSET Programmes, made : MadeMaps]
      /\ \A h \in GuideJobs : h # g => gjob'[h] = gjob[h]
  BY <1>6, <1>7, <1>8 DEF GuideIInv, JobTypes, JobPlaces
<1>10. JobTypes'
  BY <1>2, <1>3, <1>8, <1>9 DEF GuideIInv, JobTypes
<1>11. OneWorks'
  <2>1. Working(g) /\ \A h \in GuideJobs : Working(h)' => Working(h)
    BY <1>2, <1>9 DEF Working
  <2>2. \A h \in GuideJobs : gjob'[h].pc = "fill" => Working(h)'
    BY DEF Working
  <2> QED BY <1>2, <1>6, <1>9, <2>1, <2>2 DEF GuideIInv, OneWorks
<1>12. NoneLeftBehind'
  <2>1. ASSUME ~reborn', NEW h \in GuideJobs, gjob'[h].pc = "dropSave", NEW id \in Entries'
        PROVE  epgData'[id].src # gjob'[h].src
    <3>1. ~reborn /\ gjob'[h] = gjob[h] /\ gjob[h].src # src
      BY <1>2, <1>9, <2>1
    <3> QED BY <1>5, <2>1, <3>1 DEF GuideIInv, NoneLeftBehind
  <2> QED BY <2>1 DEF NoneLeftBehind
<1>13. NoOrphanPrograms'
  <2>1. \A p \in programs' : p.epg \in GuideIds
    BY <1>4 DEF StoreRight, GuideTypes, Programmes
  <2> QED BY <1>2, <1>4, <2>1 DEF GuideIInv, NoOrphanPrograms, Entries
<1>14. FileRight' /\ NoGhostSource'
  BY <1>2, <1>5 DEF GuideIInv, FileRight, NoGhostSource
<1> QED BY <1>4, <1>10, <1>11, <1>12, <1>13, <1>14 DEF GuideIInv

\* The programmes are of entries that are there, unless two have overlapped.
LEMMA FillProgramsKeeps ==
  ASSUME GuideIInv, NEW g \in GuideJobs, FillPrograms(g)
  PROVE  GuideIInv'
<1>1. PICK P \in SUBSET gjob[g].fill : BulkCreatePrograms(P) /\ gjob' = [gjob EXCEPT ![g].fill = @ \ P]
  BY DEF FillPrograms
<1>2. /\ gjob[g].pc = "fill" /\ file' = file /\ epgSources' = epgSources
      /\ overlapped' = overlapped /\ reborn' = reborn
  BY DEF FillPrograms
<1>3. P \in SUBSET Programmes
  BY <1>1 DEF GuideIInv, JobTypes
<1>4. StoreRight' /\ epgData' = epgData /\ programs' = programs \cup P
  BY <1>1, <1>3, FillRight DEF GuideIInv
<1>5. Entries' = Entries
  BY <1>4 DEF Entries
<1>6. \A h \in GuideJobs : gjob'[h].pc = gjob[h].pc /\ gjob'[h].src = gjob[h].src /\ gjob'[h].fill \subseteq gjob[h].fill
  BY <1>1 DEF GuideIInv, JobTypes
<1>7. JobTypes'
  BY <1>1, <1>2, <1>6 DEF GuideIInv, JobTypes
<1>8. OneWorks' /\ NoneLeftBehind'
  BY <1>2, <1>4, <1>5, <1>6 DEF GuideIInv, OneWorks, NoneLeftBehind, Working
<1>9. NoOrphanPrograms'
  <2>1. ~overlapped => \A p \in P : p.epg \in GuideIds /\ epgData[p.epg] # Absent
    BY <1>1, <1>2, <1>3 DEF GuideIInv, OneWorks, Programmes
  <2> QED BY <1>2, <1>4, <1>5, <2>1 DEF GuideIInv, NoOrphanPrograms, Entries
<1>10. FileRight' /\ NoGhostSource'
  BY <1>2, <1>4, <1>5 DEF GuideIInv, FileRight, NoGhostSource
<1> QED BY <1>4, <1>7, <1>8, <1>9, <1>10 DEF GuideIInv

\* What is saved is a copy of the store.
LEMMA SaveGuideRight ==
  ASSUME GuideIInv, SaveGuide
  PROVE  FileRight' /\ (~overlapped => \A p \in file'.programs : file'.data[p.epg] # Absent)
BY DEF GuideIInv, SaveGuide, StoreRight, GuideTypes, PointsRight, FileRight, OneEntry, NoOrphanPrograms, Entries

\* A refresh ends with the file.
LEMMA FillSaveKeeps ==
  ASSUME GuideIInv, NEW g \in GuideJobs, FillSave(g)
  PROVE  GuideIInv'
<1>1. StoreRight' /\ epgData' = epgData /\ programs' = programs /\ Entries' = Entries
  BY StoreStays DEF FillSave
<1>2. /\ SaveGuide /\ epgSources' = epgSources /\ overlapped' = overlapped /\ reborn' = reborn
      /\ gjob' = [gjob EXCEPT ![g].pc = "row", ![g].made = <<>>] /\ gjob[g].pc = "fill"
  BY DEF FillSave
<1>3. gjob[g].src \in EpgSources
  BY <1>2 DEF GuideIInv, JobTypes
<1>4. /\ gjob'[g].pc = "row" /\ gjob'[g].src = gjob[g].src
      /\ gjob'[g] \in [pc : JobPlaces \cup {"idle"}, src : EpgSources \cup {Absent}, todo : SUBSET GuideIds,
                       fill : SUBSET Programmes, made : MadeMaps]
      /\ \A h \in GuideJobs : h # g => gjob'[h] = gjob[h]
  <2>1. <<>> \in MadeMaps
    BY DEF MadeMaps
  <2> QED BY <1>2, <2>1 DEF GuideIInv, JobTypes, JobPlaces
<1>5. JobTypes'
  BY <1>2, <1>3, <1>4 DEF GuideIInv, JobTypes
<1>6. OneWorks' /\ NoneLeftBehind'
  <2>1. /\ \A h \in GuideJobs : gjob'[h].pc \in {"fill", "dropSave"} => gjob'[h] = gjob[h]
        /\ \A h \in GuideJobs : Working(h)' => Working(h)
    BY <1>4 DEF Working
  <2>2. OneWorks'
    BY <1>1, <1>2, <2>1 DEF GuideIInv, OneWorks
  <2>3. NoneLeftBehind'
    BY <1>1, <1>2, <2>1 DEF GuideIInv, NoneLeftBehind
  <2> QED BY <2>2, <2>3
<1>7. FileRight' /\ NoOrphanPrograms' /\ NoGhostSource'
  BY <1>1, <1>2, SaveGuideRight DEF GuideIInv, NoOrphanPrograms, NoGhostSource
<1> QED BY <1>1, <1>5, <1>6, <1>7 DEF GuideIInv

\* The row goes last, when no entry refers to it any more.
LEMMA DeleteSourceRowKeeps ==
  ASSUME GuideIInv, NEW g \in GuideJobs, DeleteSourceRow(g)
  PROVE  GuideIInv'
<1>1. StoreRight' /\ epgData' = epgData /\ programs' = programs /\ Entries' = Entries
  BY StoreStays DEF DeleteSourceRow
<1>2. /\ SaveGuide /\ epgSources' = [epgSources EXCEPT ![gjob[g].src] = Absent]
      /\ overlapped' = overlapped /\ reborn' = reborn /\ gjob[g].pc = "dropSave"
      /\ gjob' = [gjob EXCEPT ![g] = [pc |-> "idle", src |-> Absent, todo |-> {}, fill |-> {}, made |-> <<>>]]
  BY DEF DeleteSourceRow, NoJob
<1>3. gjob[g].src \in EpgSources
  BY <1>2 DEF GuideIInv, JobTypes
<1>4. JobTypes'
  BY <1>2, <1>3 DEF GuideIInv, JobTypes, MadeMaps
<1>5. /\ \A h \in GuideJobs : gjob'[h].pc # "idle" => gjob'[h] = gjob[h]
      /\ \A h \in GuideJobs : Working(h)' => Working(h)
  BY <1>2 DEF GuideIInv, JobTypes, Working
<1>6. OneWorks' /\ NoneLeftBehind'
  BY <1>1, <1>2, <1>5 DEF GuideIInv, OneWorks, NoneLeftBehind
<1>7. FileRight' /\ NoOrphanPrograms'
  BY <1>1, <1>2, SaveGuideRight DEF GuideIInv, NoOrphanPrograms
<1>8. NoGhostSource'
  <2>1. \A id \in Entries : epgData[id].src \in EpgSources
    BY DEF Entries, GuideIInv, StoreRight, GuideTypes, EntryMaps, EntryRecords
  <2>2. ~reborn => \A id \in Entries : epgData[id].src # gjob[g].src
    BY <1>2 DEF GuideIInv, NoneLeftBehind
  <2>3. \A s \in EpgSources : s # gjob[g].src => epgSources'[s] = epgSources[s]
    BY <1>2, <1>3 DEF GuideIInv, JobTypes
  <2> QED BY <1>1, <1>2, <2>1, <2>2, <2>3 DEF GuideIInv, NoGhostSource
<1> QED BY <1>1, <1>4, <1>6, <1>7, <1>8 DEF GuideIInv

\* A start makes the store of the file, without the entries of sources that are
\* gone; no job is under way.
LEMMA GuideRestartKeeps ==
  ASSUME GuideIInv, GuideRestart
  PROVE  GuideIInv'
<1> DEFINE kept == [id \in GuideIds |-> IF id \in GuideGone THEN Absent ELSE file.data[id]]
           progs == {p \in file.programs : p.epg \notin GuideGone}
<1>1. /\ LoadGuide(kept, progs) /\ file' = (IF GuideGone = {} THEN file ELSE [data |-> kept, programs |-> progs])
      /\ gjob' = [h \in GuideJobs |-> NoJob] /\ reborn' = FALSE
      /\ epgSources' = epgSources /\ overlapped' = overlapped
  BY DEF GuideRestart
<1>2. file.data \in EntryMaps /\ file.programs \in SUBSET Programmes /\ OneEntry(file.data)
  BY DEF GuideIInv, FileRight
<1>3. kept \in EntryMaps /\ progs \in SUBSET Programmes
  BY <1>2 DEF EntryMaps
<1>4. \A id \in GuideIds : kept[id] # Absent => kept[id] = file.data[id] /\ id \notin GuideGone
  OBVIOUS
<1>5. progs \subseteq file.programs /\ \A p \in progs : p.epg \in GuideIds /\ p.epg \notin GuideGone
  BY <1>2 DEF Programmes
<1>6. \A id \in GuideIds : id \notin GuideGone => kept[id] = file.data[id]
  OBVIOUS
<1> HIDE DEF kept, progs
<1>7. OneEntry(kept)
  BY <1>2, <1>4 DEF OneEntry
<1>8. StoreRight' /\ epgData' = kept /\ programs' = progs
  BY <1>1, <1>3, <1>7, LoadRight DEF LoadGuide
<1>9. \A id \in Entries' : epgSources'[epgData'[id].src] # Absent
  BY <1>1, <1>4, <1>8 DEF Entries, GuideGone
<1>10. ~overlapped => \A p \in progs : kept[p.epg] # Absent
  BY <1>5, <1>6 DEF GuideIInv, NoOrphanPrograms
<1>11. FileRight' /\ (~overlapped => \A p \in file'.programs : file'.data[p.epg] # Absent)
  <2>1. CASE GuideGone = {}
    BY <1>1, <2>1 DEF GuideIInv, FileRight, NoOrphanPrograms
  <2>2. CASE GuideGone # {}
    <3>1. file' = [data |-> kept, programs |-> progs]
      BY <1>1, <2>2
    <3> QED BY <1>3, <1>7, <1>10, <3>1 DEF FileRight
  <2> QED BY <2>1, <2>2
<1>12. NoOrphanPrograms'
  BY <1>1, <1>5, <1>8, <1>10, <1>11 DEF NoOrphanPrograms, Entries
<1>13. NoGhostSource'
  BY <1>9 DEF NoGhostSource
<1>14. \A h \in GuideJobs : gjob'[h].pc = "idle"
  BY <1>1 DEF NoJob
<1>15. JobTypes'
  BY <1>1 DEF GuideIInv, JobTypes, NoJob, MadeMaps
<1>16. OneWorks' /\ NoneLeftBehind'
  BY <1>14 DEF OneWorks, NoneLeftBehind, Working
<1> QED BY <1>8, <1>11, <1>12, <1>13, <1>15, <1>16 DEF GuideIInv

-----------------------------------------------------------------------------
(* The theorem *)

\* The guide is empty at first.
LEMMA GuideStart == GuideInit => GuideIInv
<1> SUFFICES ASSUME GuideInit PROVE GuideIInv
  OBVIOUS
<1>1. StoreRight
  BY DEF GuideInit, StoreRight, GuideTypes, PointsRight, EntryMaps
<1>2. file.data = epgData /\ file.programs = {} /\ file = [data |-> epgData, programs |-> {}]
  BY DEF GuideInit
<1>3. FileRight
  BY <1>1, <1>2 DEF FileRight, OneEntry, GuideInit, StoreRight, GuideTypes
<1>4. \A g \in GuideJobs : gjob[g].pc = "idle"
  BY DEF GuideInit, NoJob
<1>5. JobTypes
  <2>1. NoJob \in [pc : JobPlaces \cup {"idle"}, src : EpgSources \cup {Absent}, todo : SUBSET GuideIds,
                  fill : SUBSET Programmes, made : MadeMaps]
    BY DEF NoJob, MadeMaps
  <2> QED BY <1>4, <2>1 DEF GuideInit, JobTypes
<1>6. OneWorks /\ NoneLeftBehind
  BY <1>4 DEF OneWorks, NoneLeftBehind, Working
<1>7. NoOrphanPrograms /\ NoGhostSource
  BY <1>2 DEF GuideInit, NoOrphanPrograms, NoGhostSource, Entries
<1> QED BY <1>1, <1>3, <1>5, <1>6, <1>7 DEF GuideIInv

\* Every step keeps the invariant.
LEMMA GuideKeeps == GuideIInv /\ [GuideNext]_guideVars => GuideIInv'
<1> SUFFICES ASSUME GuideIInv, [GuideNext]_guideVars PROVE GuideIInv'
  OBVIOUS
<1>1. CASE UNCHANGED guideVars
  BY <1>1 DEF guideVars, GuideIInv, StoreRight, GuideTypes, PointsRight, FileRight, OneEntry, JobTypes,
              NoOrphanPrograms, Entries, OneWorks, Working, NoGhostSource, NoneLeftBehind
<1>2. CASE GuideSteps
  <2>1. PICK g \in GuideJobs :
          \/ FetchKeeps(g) \/ FetchParses(g) \/ DropPrograms(g) \/ DropEntries(g) \/ CreateEntries(g)
          \/ FillPrograms(g) \/ FillSave(g) \/ RefreshRow(g)
          \/ DeleteSourcePrograms(g) \/ DeleteSourceEntries(g) \/ DeleteSourceRow(g)
    BY <1>2 DEF GuideSteps
  <2> QED BY <2>1, FetchKeepsKeeps, FetchParsesKeeps, DropProgramsKeeps, DropEntriesKeeps, CreateEntriesKeeps,
             FillProgramsKeeps, FillSaveKeeps, RefreshRowKeeps, DeleteSourceProgramsKeeps,
             DeleteSourceEntriesKeeps, DeleteSourceRowKeeps
<1>3. CASE GuideRequests
  BY <1>3, RefreshSourceKeeps, DeleteSourceKeeps, GuideExpireKeeps, GuideRestartKeeps DEF GuideRequests
<1> QED BY <1>1, <1>2, <1>3 DEF GuideNext

\* So the invariant holds in every behaviour.
LEMMA GuideInvariance == GuideSpec => []GuideIInv
BY GuideStart, GuideKeeps, PTL DEF GuideSpec

\* What the indexes hold is what a scan of the entries and programmes finds.
LEMMA IndexesFollow == StoreRight => IndexesAgree
<1> SUFFICES ASSUME StoreRight PROVE IndexesAgree
  OBVIOUS
<1> USE DEF StoreRight, GuideTypes, PointsRight
<1>1. \A src \in EpgSources : bySourceID[src] = {id \in Entries : epgData[id].src = src}
  BY DEF Entries
<1>2. ASSUME NEW ch \in GuideChannels
      PROVE  IF \E id \in Entries : epgData[id].ch = ch
             THEN epgByChannelID[ch] \in {id \in Entries : epgData[id].ch = ch}
             ELSE epgByChannelID[ch] = Absent
  <2>1. CASE \E id \in Entries : epgData[id].ch = ch
    BY <2>1 DEF Entries
  <2>2. CASE ~\E id \in Entries : epgData[id].ch = ch
    <3>1. epgByChannelID[ch] = Absent \/ epgByChannelID[ch] \in GuideIds
      OBVIOUS
    <3> QED BY <2>2, <3>1 DEF Entries
  <2> QED BY <2>1, <2>2
<1>3. \A id \in GuideIds : programsByEPGID[id] = {p \in programs : p.epg = id}
  <2>1. \A id \in GuideIds : programsByEPGID[id] \subseteq Programmes
    OBVIOUS
  <2>2. programs \subseteq Programmes
    OBVIOUS
  <2> QED BY <2>1, <2>2
<1> QED BY <1>1, <1>2, <1>3 DEF IndexesAgree

\* What a channel's entry lists are its programmes.
LEMMA ListedRight ==
  ASSUME StoreRight, NEW ch \in GuideChannels, epgByChannelID[ch] # Absent
  PROVE  /\ epgByChannelID[ch] \in Entries /\ epgData[epgByChannelID[ch]].ch = ch
         /\ \A id \in Entries : epgData[id].ch = ch => id = epgByChannelID[ch]
         /\ ListPrograms(epgByChannelID[ch]) = {p \in programs : p.epg = epgByChannelID[ch]}
<1> USE DEF StoreRight, GuideTypes, PointsRight
<1>1. epgByChannelID[ch] \in GuideIds
  OBVIOUS
<1>2. programsByEPGID[epgByChannelID[ch]] \subseteq Programmes /\ programs \subseteq Programmes
  BY <1>1
<1>3. ListPrograms(epgByChannelID[ch]) = {p \in programs : p.epg = epgByChannelID[ch]}
  BY <1>1, <1>2 DEF ListPrograms
<1> QED BY <1>1, <1>3 DEF Entries

\* A channel has one entry; of the programmes that run now one begins last, for
\* programmes run for two of the units in which they begin.
LEMMA OneEntryFollows == StoreRight => OneEntryPerChannel
<1> SUFFICES ASSUME StoreRight PROVE OneEntryPerChannel
  OBVIOUS
<1>1. \A a, b \in Entries : epgData[a].ch = epgData[b].ch => a = b
  BY DEF StoreRight, PointsRight, Entries
<1>2. \A p \in programs : p.slot \in Nat
  BY GuideAssumption DEF StoreRight, GuideTypes, Programmes
<1>3. ASSUME NEW ch \in GuideChannels, NEW now \in Slots
      PROVE  GetNowByChannelID(ch, now) = {} <=>
               ~\E p \in programs : Running(p, now) /\ p.epg \in Entries /\ epgData[p.epg].ch = ch
  <2>1. CASE epgByChannelID[ch] = Absent
    <3>1. GetNowByChannelID(ch, now) = {}
      BY <2>1 DEF GetNowByChannelID, ListNowPlaying
    <3>2. ~\E p \in programs : p.epg \in Entries /\ epgData[p.epg].ch = ch
      BY <2>1, GuideAssumption DEF StoreRight, PointsRight, Entries
    <3> QED BY <3>1, <3>2
  <2>2. CASE epgByChannelID[ch] # Absent
    <3> DEFINE L == ListNowPlaying(ch, now)
    <3>1. L = {p \in programs : p.epg = epgByChannelID[ch] /\ Running(p, now)}
      BY <2>2, ListedRight DEF ListNowPlaying
    <3>2. (\E p \in programs : Running(p, now) /\ p.epg \in Entries /\ epgData[p.epg].ch = ch) <=> L # {}
      BY <2>2, <3>1, ListedRight
    <3>3. \A p \in L : p.slot \in Nat /\ p.slot <= now /\ now < p.slot + 2
      BY <1>2, <3>1 DEF Running
    <3>4. GetNowByChannelID(ch, now) = {p \in L : \A q \in L : q.slot <= p.slot}
      BY DEF GetNowByChannelID
    <3> HIDE DEF L
    <3>5. ASSUME L # {} PROVE \E p \in L : \A q \in L : q.slot <= p.slot
      <4>1. now \in Nat
        BY GuideAssumption
      <4>2. CASE \E p \in L : p.slot = now
        BY <3>3, <4>1, <4>2
      <4>3. CASE \A p \in L : p.slot # now
        <5>1. \A p \in L : p.slot + 1 = now
          BY <3>3, <4>1, <4>3
        <5> QED BY <3>3, <3>5, <4>1, <5>1
      <4> QED BY <4>2, <4>3
    <3> QED BY <3>2, <3>4, <3>5
  <2> QED BY <2>1, <2>2
<1>4. ASSUME NEW ch \in GuideChannels, NEW now \in Slots
      PROVE  {e.p : e \in {g \in ListForGuide(now, now + 1) : g.ch = ch}} = ListNowPlaying(ch, now)
  <2> DEFINE shown == {y \in GuideChannels \X programs :
                         /\ epgByChannelID[y[1]] # Absent /\ y[2] \in ListPrograms(epgByChannelID[y[1]])
                         /\ y[2].slot < now + 1 /\ y[2].slot + 2 > now}
  <2>1. ListForGuide(now, now + 1) = {[ch |-> x[1], p |-> x[2]] : x \in shown}
    BY DEF ListForGuide
  <2>2. \A p \in programs : (p.slot < now + 1 /\ p.slot + 2 > now) <=> Running(p, now)
    BY <1>2, GuideAssumption DEF Running
  <2>3. ASSUME NEW p, p \in {e.p : e \in {g \in ListForGuide(now, now + 1) : g.ch = ch}}
        PROVE  p \in ListNowPlaying(ch, now)
    <3>1. PICK e \in ListForGuide(now, now + 1) : e.ch = ch /\ e.p = p
      BY <2>3
    <3>2. PICK x \in shown : e = [ch |-> x[1], p |-> x[2]]
      BY <2>1, <3>1
    <3>3. x[1] = ch /\ x[2] = p /\ p \in programs
      BY <3>1, <3>2
    <3>4. /\ epgByChannelID[ch] # Absent /\ p \in ListPrograms(epgByChannelID[ch])
          /\ p.slot < now + 1 /\ p.slot + 2 > now
      BY <3>2, <3>3
    <3> QED BY <2>2, <3>3, <3>4 DEF ListNowPlaying
  <2>4. ASSUME NEW p \in ListNowPlaying(ch, now)
        PROVE  p \in {e.p : e \in {g \in ListForGuide(now, now + 1) : g.ch = ch}}
    <3>1. epgByChannelID[ch] # Absent /\ p \in ListPrograms(epgByChannelID[ch]) /\ Running(p, now)
      BY <2>4 DEF ListNowPlaying
    <3>2. p \in programs
      BY <3>1 DEF ListPrograms
    <3>3. <<ch, p>> \in shown
      BY <2>2, <3>1, <3>2
    <3> HIDE DEF shown
    <3>4. [ch |-> ch, p |-> p] \in ListForGuide(now, now + 1)
      BY <2>1, <3>3
    <3> QED BY <3>4
  <2> QED BY <2>3, <2>4
<1> QED BY <1>1, <1>3, <1>4 DEF OneEntryPerChannel

\* The indexes of the guide answer what a scan of its entries and programmes
\* would, a channel has one entry, programmes do not outlive their entry unless
\* two goroutines have worked at once, and a source that was deleted leaves no
\* entry unless a refresh of it was under way: whatever the sources list, however
\* refreshes, deletions and restarts interleave.
THEOREM GuideIsSound == GuideSpec => []GuideSound
<1>1. GuideIInv => GuideSound
  BY IndexesFollow, OneEntryFollows DEF GuideIInv, GuideSound
<1> QED BY <1>1, GuideInvariance, PTL

=============================================================================
