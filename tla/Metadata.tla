------------------------------ MODULE Metadata ------------------------------
(***************************************************************************)
(* The TMDB client with its two stores: the cache of answers, kept for     *)
(* ever, and the metadata made from them.  A sync resolves the titles of   *)
(* the streams one by one; a listing starts another, a user may pick a     *)
(* match by hand or have a title looked up again, all at the same time.    *)
(***************************************************************************)
EXTENDS Naturals, Sequences, FiniteSets, FiniteSetsExt, SequencesExt

CONSTANTS
  Libraries, \* the streams there may be, each in the order of the listing
  Title,     \* stream -> [name, kind]; kind "movie" or "tv"
  Ids,       \* ids that the service may answer with
  Seasons,   \* seasons that it names of a series
  Workers,   \* goroutines
  None

Titles == {Title[s] : s \in DOMAIN Title}
Entries == {"movie", "tv"} \X Ids

VARIABLES
  library,      \* the streams with a title; ingest is not part of this module
  key,          \* an API key is set
  search,       \* title -> id of the first cached result, or 0
  detail,       \* entry -> "none", "good", or "bad": an error body, cached like any other
  season,       \* <<id, season>> -> the same
  meta,         \* entry -> [seasons, collection], or None
  collections,  \* ids of the collections that are stored
  tmdb,         \* stream -> [id, manual]
  worker,       \* goroutine -> what it is doing
  syncing, total, done,
  crossed,      \* two syncs found the flag down at the same time
  picked,       \* stream -> the id that a user picked for it, or 0
  raced,        \* streams picked while a resolution was about to write
  pickedTitle,  \* title -> the id that a rematch has left in the cache, or 0
  unsettled,    \* titles looked up again since, or being looked up then
  known,        \* id -> seasons whose episodes were stored
  disturbed     \* series worked on twice at once, without a key, or through a crash

metaVars == <<library, key, search, detail, season, meta, collections, tmdb, worker, syncing, total, done,
              crossed, picked, raced, pickedTitle, unsettled, known, disturbed>>
history == <<crossed, picked, raced, pickedTitle, unsettled, known, disturbed>>
caches == <<library, key, search, detail, season>>
stores == <<meta, collections, tmdb>>
counters == <<syncing, total, done>>

Idle == [pc |-> "idle", mode |-> None, todo |-> <<>>, series |-> {}, stream |-> None, title |-> None,
         id |-> 0, fetch |-> FALSE, answer |-> None, left |-> {}, row |-> {}]

MetaInit ==
  /\ library \in Libraries
  /\ key = TRUE
  /\ search = [t \in Titles |-> 0]
  /\ detail = [e \in Entries |-> "none"] /\ season = [p \in Ids \X Seasons |-> "none"]
  /\ meta = [e \in Entries |-> None] /\ collections = {}
  /\ tmdb = [s \in DOMAIN Title |-> [id |-> 0, manual |-> FALSE]]
  /\ worker = [w \in Workers |-> Idle]
  /\ syncing = FALSE /\ total = 0 /\ done = 0
  /\ crossed = FALSE /\ picked = [s \in DOMAIN Title |-> 0] /\ raced = {}
  /\ pickedTitle = [t \in Titles |-> 0] /\ unsettled = {}
  /\ known = [i \in Ids |-> {}] /\ disturbed = {}

At(w, pc) == worker[w].pc = pc
Goto(w, pc) == worker' = [worker EXCEPT ![w].pc = pc]
Entry(w) == <<worker[w].title.kind, worker[w].id>>
WorksOn(w, id) == worker[w].pc # "idle" /\ worker[w].title # None /\ worker[w].title.kind = "tv" /\ worker[w].id = id
Syncs(w) == worker[w].mode \in {"sync", "view"} /\ worker[w].pc \notin {"look", "begin"}

-----------------------------------------------------------------------------
(* Which titles a sync takes up *)

Known(s) == tmdb[s].id # 0 /\ meta[<<Title[s].kind, tmdb[s].id>>] # None
FirstOfTitle(list) == SelectSeq(list, LAMBDA s : list[SelectInSeq(list, LAMBDA r : Title[r] = Title[s])] = s)

\* A listing asks for the titles it found no metadata for, by id or by name.
LookupSeries(s) ==
  IF Known(s) THEN tmdb[s].id
  ELSE IF search[Title[s]] # 0 /\ meta[<<Title[s].kind, search[Title[s]]>>] # None THEN search[Title[s]] ELSE 0

\* Those of them whose id has metadata, or whose search has been answered, are
\* passed over.
ToSync(list) ==
  FirstOfTitle(SelectSeq(list, LAMBDA s : ~ Known(s) /\ search[Title[s]] = 0))
SeriesNeedingEpisodes ==
  {id \in Ids : meta[<<"tv", id>>] # None /\ meta[<<"tv", id>>].seasons = {}}

\* Metadata of cached answers: the row of the first result, with the seasons
\* that are cached too; rows that are there stay.
FromCache(e) ==
  [seasons |-> IF e[1] = "tv" /\ detail[e] = "good" THEN {n \in Seasons : season[<<e[2], n>>] = "good"} ELSE {},
   collection |-> e[1] = "movie" /\ detail[e] = "good"]
PopulateMetadataFromCache(list) ==
  LET new == {e \in Entries : meta[e] = None /\ \E s \in list : ~ Known(s) /\ e = <<Title[s].kind, search[Title[s]]>>}
  IN
  /\ meta' = [e \in Entries |-> IF e \in new THEN FromCache(e) ELSE meta[e]]
  /\ collections' = collections \cup {e[2] : e \in {d \in new : FromCache(d).collection}}
  /\ known' = [i \in Ids |-> IF <<"tv", i>> \in new THEN FromCache(<<"tv", i>>).seasons ELSE known[i]]
  /\ disturbed' = disturbed \cup {e[2] : e \in {d \in new : \E w \in Workers : WorksOn(w, d[2])}}

FlagDown == ~ syncing

\* The flag is read here and raised in the next step.
Take(w, mode, list) ==
  /\ FlagDown /\ (list # <<>> \/ SeriesNeedingEpisodes # {})
  /\ worker' = [worker EXCEPT ![w] = [Idle EXCEPT !.pc = "begin", !.mode = mode, !.todo = list, !.series = SeriesNeedingEpisodes]]
  /\ crossed' = (crossed \/ \E v \in Workers : At(v, "begin"))

SyncTMDB(w) ==
  /\ At(w, "idle")
  /\ PopulateMetadataFromCache(ToSet(library))
  /\ worker' = [worker EXCEPT ![w] = [Idle EXCEPT !.pc = "look", !.mode = "sync"]]
  /\ UNCHANGED <<caches, tmdb, counters, crossed, picked, raced, pickedTitle, unsettled>>

SyncLook(w) ==
  /\ At(w, "look")
  /\ \/ Take(w, "sync", ToSync(library))
     \/ /\ ~ FlagDown \/ (ToSync(library) = <<>> /\ SeriesNeedingEpisodes = {})
        /\ worker' = [worker EXCEPT ![w] = Idle] /\ UNCHANGED crossed
  /\ UNCHANGED <<caches, stores, counters, picked, raced, pickedTitle, unsettled, known, disturbed>>

VODLibrary(w) ==
  /\ At(w, "idle")
  /\ Take(w, "view", ToSync(SelectSeq(library, LAMBDA s : LookupSeries(s) = 0)))
  /\ UNCHANGED <<caches, stores, counters, picked, raced, pickedTitle, unsettled, known, disturbed>>

ResetDone == 0

SyncBegin(w) ==
  /\ At(w, "begin")
  /\ syncing' = TRUE /\ total' = Len(worker[w].todo) + Cardinality(worker[w].series) /\ done' = ResetDone
  /\ Goto(w, "next")
  /\ UNCHANGED <<caches, stores, history>>

SyncNext(w) ==
  LET me == worker[w] IN
  /\ At(w, "next") /\ key /\ (me.todo # <<>> \/ me.series # {})
  /\ worker' = [worker EXCEPT ![w] =
       IF me.todo # <<>>
       THEN [me EXCEPT !.pc = "search", !.stream = Head(me.todo), !.title = Title[Head(me.todo)], !.todo = Tail(me.todo), !.fetch = FALSE, !.id = 0]
       ELSE [me EXCEPT !.pc = "details", !.fetch = TRUE, !.title = [name |-> None, kind |-> "tv"],
                       !.id = Min(me.series), !.series = @ \ {Min(me.series)}]]
  /\ disturbed' = IF me.todo = <<>> /\ \E v \in Workers \ {w} : WorksOn(v, Min(me.series)) THEN disturbed \cup {Min(me.series)} ELSE disturbed
  /\ UNCHANGED <<caches, stores, counters, crossed, picked, raced, pickedTitle, unsettled, known>>

SyncEnd(w) ==
  /\ At(w, "next") /\ (~ key \/ (worker[w].todo = <<>> /\ worker[w].series = {}))
  /\ syncing' = FALSE
  /\ worker' = [worker EXCEPT ![w] = Idle]
  /\ UNCHANGED <<caches, stores, total, done, history>>

-----------------------------------------------------------------------------
(* Search, details and seasons *)

CachedSearch(t) == search[t]

Begins(w, id) ==
  disturbed' = IF worker[w].title.kind = "tv" /\ id # 0 /\ \E v \in Workers \ {w} : WorksOn(v, id) THEN disturbed \cup {id} ELSE disturbed

Search(w) ==
  LET t == worker[w].title IN
  /\ At(w, "search")
  /\ worker' = [worker EXCEPT ![w].pc = IF ~ key THEN "resolved" ELSE IF CachedSearch(t) # 0 THEN "details" ELSE "answer",
                              ![w].id = IF key THEN CachedSearch(t) ELSE 0]
  /\ IF key THEN Begins(w, CachedSearch(t)) ELSE UNCHANGED disturbed
  /\ UNCHANGED <<caches, stores, counters, crossed, picked, raced, pickedTitle, unsettled, known>>

\* An answer without results is not cached.
SearchAnswer(w) ==
  LET t == worker[w].title IN
  /\ At(w, "answer")
  /\ \E id \in Ids \cup {0} :
       /\ search' = IF id = 0 THEN search ELSE [search EXCEPT ![t] = id]
       /\ worker' = [worker EXCEPT ![w].id = id, ![w].pc = IF id = 0 THEN "resolved" ELSE "details"]
       /\ Begins(w, id)
  /\ UNCHANGED <<library, key, detail, season, stores, counters, crossed, picked, raced, pickedTitle, unsettled, known>>

\* What is asked without a key is answered with an empty map, before the cache
\* is looked at; any body that parses is cached.
Ask(cached) ==
  IF ~ key THEN {"empty"} ELSE IF cached # "none" THEN {cached} ELSE {"good", "bad", "error"}
Kept(cached, answer) == IF answer \in {"good", "bad"} THEN answer ELSE cached

Details(w) ==
  LET e == Entry(w) IN
  /\ At(w, "details")
  /\ \E answer \in Ask(detail[e]) :
       /\ detail' = [detail EXCEPT ![e] = Kept(@, answer)]
       /\ worker' = [worker EXCEPT ![w].answer = answer,
            ![w].pc = IF worker[w].fetch THEN "seasons" ELSE IF worker[w].mode = "rematch" /\ answer = "error" THEN "failed" ELSE "store",
            ![w].left = IF e[1] = "tv" /\ answer = "good" THEN Seasons ELSE {}]
  /\ disturbed' = IF key \/ e[1] = "movie" THEN disturbed ELSE disturbed \cup {e[2]}
  /\ UNCHANGED <<library, key, search, season, stores, counters, crossed, picked, raced, pickedTitle, unsettled, known>>

\* A film's collection is stored before the film.
SetCollection(w) ==
  /\ At(w, "store") /\ worker[w].title.kind = "movie" /\ worker[w].answer = "good"
  /\ worker[w].id \notin collections
  /\ collections' = collections \cup {worker[w].id}
  /\ UNCHANGED <<caches, meta, tmdb, worker, counters, history>>

NewRow(e, answer) == [seasons |-> {}, collection |-> e[1] = "movie" /\ answer = "good"]

\* The row replaces the one that is there: the episodes come back season by
\* season.
SetRow(w) ==
  LET me == worker[w] IN
  /\ At(w, "store") /\ (me.title.kind = "movie" /\ me.answer = "good" => me.id \in collections)
  /\ meta' = [meta EXCEPT ![Entry(w)] = NewRow(Entry(w), me.answer)]
  /\ Goto(w, "seasons")
  /\ UNCHANGED <<caches, collections, tmdb, counters, history>>

SeasonCached(id, n) == season[<<id, n>>]

Season(w) ==
  LET me == worker[w]
      n == Min(me.left) IN
  /\ At(w, "seasons") /\ me.left # {}
  /\ \E answer \in Ask(SeasonCached(me.id, n)) :
       /\ season' = [season EXCEPT ![<<me.id, n>>] = Kept(@, answer)]
       /\ worker' = IF answer = "good" THEN [worker EXCEPT ![w].pc = "read"] ELSE [worker EXCEPT ![w].left = @ \ {n}]
  /\ disturbed' = IF key THEN disturbed ELSE disturbed \cup {me.id}
  /\ UNCHANGED <<library, key, search, detail, stores, counters, crossed, picked, raced, pickedTitle, unsettled, known>>

\* The bolt store reads the row in one transaction and writes it in another.
GetSeries(w) ==
  /\ At(w, "read")
  /\ worker' = IF meta[Entry(w)] = None THEN [worker EXCEPT ![w].pc = "seasons", ![w].left = @ \ {Min(@)}]
               ELSE [worker EXCEPT ![w].pc = "write", ![w].row = meta[Entry(w)].seasons]
  /\ UNCHANGED <<caches, stores, counters, history>>

SetSeasonEpisodes(w) ==
  LET me == worker[w]
      rows == me.row \cup {Min(me.left)} IN
  /\ At(w, "write")
  /\ meta' = [meta EXCEPT ![Entry(w)].seasons = rows]
  /\ known' = [known EXCEPT ![me.id] = @ \cup rows]
  /\ worker' = [worker EXCEPT ![w].pc = "seasons", ![w].left = @ \ {Min(@)}]
  /\ UNCHANGED <<caches, collections, tmdb, counters, crossed, picked, raced, pickedTitle, unsettled, disturbed>>

Resolved(w) ==
  /\ At(w, "seasons") /\ worker[w].left = {}
  /\ Goto(w, IF worker[w].fetch THEN "counted" ELSE "resolved")
  /\ UNCHANGED <<caches, stores, counters, history>>

-----------------------------------------------------------------------------
(* What a resolved title changes *)

\* (Slip: the stream is written whatever it has.)
WriteAlways(s) == TRUE
WithoutId(s) == tmdb[s].id = 0

\* A sync of the worker looks whether the stream has an id, and writes it in a
\* later step.
OnResolved(w) ==
  LET me == worker[w] IN
  /\ At(w, "resolved")
  /\ worker' = CASE me.mode = "sync" /\ me.id # 0 /\ WithoutId(me.stream) -> [worker EXCEPT ![w].pc = "update"]
                 [] me.mode \in {"sync", "view"} /\ ~ (me.mode = "sync" /\ me.id # 0 /\ WithoutId(me.stream)) -> [worker EXCEPT ![w].pc = "counted"]
                 [] me.mode = "invalidate" -> [worker EXCEPT ![w] = Idle]
                 [] me.mode = "rematch" -> [worker EXCEPT ![w].pc = "remember"]
  /\ UNCHANGED <<caches, stores, counters, history>>

UpdateTMDBID(w) ==
  /\ At(w, "update")
  /\ tmdb' = [tmdb EXCEPT ![worker[w].stream].id = worker[w].id]
  /\ Goto(w, "counted")
  /\ UNCHANGED <<caches, meta, collections, counters, history>>

Counted(w) ==
  /\ At(w, "counted")
  /\ done' = done + 1
  /\ worker' = [worker EXCEPT ![w].pc = "next", ![w].id = 0, ![w].title = None]
  /\ UNCHANGED <<caches, stores, syncing, total, history>>

-----------------------------------------------------------------------------
(* Requests *)

\* The stream is written first; metadata is fetched afterwards and may fail.
Rematch(w, s, id) ==
  /\ At(w, "idle")
  /\ tmdb' = [tmdb EXCEPT ![s] = [id |-> id, manual |-> TRUE]]
  /\ picked' = [picked EXCEPT ![s] = id]
  /\ raced' = IF \E v \in Workers : (At(v, "update") /\ worker[v].stream = s) \/ (At(v, "relate") /\ s \in ToSet(worker[v].todo))
              THEN raced \cup {s} ELSE raced
  /\ worker' = [worker EXCEPT ![w] = [Idle EXCEPT !.pc = "details", !.mode = "rematch", !.stream = s, !.title = Title[s], !.id = id]]
  /\ disturbed' = IF Title[s].kind = "tv" /\ \E v \in Workers : WorksOn(v, id) THEN disturbed \cup {id} ELSE disturbed
  /\ UNCHANGED <<caches, meta, collections, counters, crossed, pickedTitle, unsettled, known>>

RematchFails(w) ==
  /\ At(w, "failed")
  /\ worker' = [worker EXCEPT ![w] = Idle]
  /\ UNCHANGED <<caches, stores, counters, history>>

UpdateSearchCacheForName(w) ==
  LET t == worker[w].title IN
  /\ At(w, "remember")
  /\ search' = [search EXCEPT ![t] = worker[w].id]
  /\ pickedTitle' = [pickedTitle EXCEPT ![t] = worker[w].id]
  /\ unsettled' = IF \E v \in Workers : At(v, "answer") /\ worker[v].title = t THEN unsettled \cup {t} ELSE unsettled
  /\ Goto(w, "related")
  /\ UNCHANGED <<library, key, detail, season, stores, counters, crossed, picked, raced, known, disturbed>>

\* The other streams of a series that have no id yet get the same one.
UpdateRelatedStreams(w) ==
  LET me == worker[w] IN
  /\ At(w, "related")
  /\ worker' = [worker EXCEPT ![w].pc = "relate",
       ![w].todo = IF me.title.kind = "tv" THEN SelectSeq(library, LAMBDA s : s # me.stream /\ Title[s] = me.title /\ tmdb[s].id = 0) ELSE <<>>]
  /\ UNCHANGED <<caches, stores, counters, history>>

UpdateRelated(w) ==
  LET me == worker[w] IN
  /\ At(w, "relate")
  /\ \/ /\ me.todo # <<>>
        /\ tmdb' = [tmdb EXCEPT ![Head(me.todo)].id = me.id]
        /\ worker' = [worker EXCEPT ![w].todo = Tail(@)]
     \/ /\ me.todo = <<>>
        /\ worker' = [worker EXCEPT ![w] = Idle]
        /\ UNCHANGED tmdb
  /\ UNCHANGED <<caches, meta, collections, counters, history>>

InvalidateCache(w, t) ==
  /\ At(w, "idle")
  /\ search' = [search EXCEPT ![t] = 0]
  /\ unsettled' = unsettled \cup {t}
  /\ worker' = [worker EXCEPT ![w] = [Idle EXCEPT !.pc = "search", !.mode = "invalidate", !.title = t]]
  /\ UNCHANGED <<library, key, detail, season, stores, counters, crossed, picked, raced, pickedTitle, known, disturbed>>

ChangeKey ==
  /\ key' = ~ key
  /\ UNCHANGED <<library, search, detail, season, stores, worker, counters, history>>

\* Both stores write through; a crash ends the goroutines.
MetaRestart ==
  /\ worker' = [w \in Workers |-> Idle]
  /\ syncing' = FALSE /\ total' = 0 /\ done' = 0 /\ crossed' = FALSE
  /\ disturbed' = disturbed \cup {id \in Ids : \E w \in Workers : WorksOn(w, id)}
  /\ UNCHANGED <<caches, stores, picked, raced, pickedTitle, unsettled, known>>

MetaSteps ==
  \E w \in Workers :
    \/ SyncLook(w) \/ SyncBegin(w) \/ SyncNext(w) \/ SyncEnd(w)
    \/ Search(w) \/ SearchAnswer(w) \/ Details(w) \/ SetCollection(w) \/ SetRow(w)
    \/ Season(w) \/ GetSeries(w) \/ SetSeasonEpisodes(w) \/ Resolved(w)
    \/ OnResolved(w) \/ UpdateTMDBID(w) \/ Counted(w)
    \/ RematchFails(w) \/ UpdateSearchCacheForName(w) \/ UpdateRelatedStreams(w) \/ UpdateRelated(w)

MetaRequests ==
  \/ \E w \in Workers : SyncTMDB(w) \/ VODLibrary(w)
  \/ \E w \in Workers, s \in ToSet(library), id \in Ids : Rematch(w, s, id)
  \/ \E w \in Workers, t \in Titles : InvalidateCache(w, t)
  \/ ChangeKey \/ MetaRestart

-----------------------------------------------------------------------------
(* Properties *)

\* A match that a user picked stays, whatever the syncs resolve, unless one had
\* found the stream without an id just before.
ManualKept == \A s \in DOMAIN Title : tmdb[s].manual => tmdb[s].id = picked[s] \/ s \in raced

\* A stream that was given an id by itself finds metadata under it.
ResolvedHasMetadata ==
  \A s \in DOMAIN Title : tmdb[s].id # 0 /\ ~ tmdb[s].manual => meta[<<Title[s].kind, tmdb[s].id>>] # None

\* A film that names a collection finds it, whoever is writing.
CollectionsKnown == \A id \in Ids : meta[<<"movie", id>>] # None /\ meta[<<"movie", id>>].collection => id \in collections

\* Resolving a series again loses none of its episodes, although its row is
\* replaced by an empty one first; not so if two goroutines work on it, if the
\* key is taken away meanwhile or the program stops.
EpisodesSurvive ==
  \A id \in Ids \ disturbed : meta[<<"tv", id>>] # None /\ (\A w \in Workers : ~ WorksOn(w, id)) =>
    meta[<<"tv", id>>].seasons = known[id]

\* One sync runs at a time, and its progress never passes its total, unless two
\* began at the same moment.
OneSync == ~ crossed => Cardinality({w \in Workers : Syncs(w)}) <= 1 /\ done <= total

\* A title that was matched by hand is found under that match by name too, until
\* somebody has it looked up again.
LookupFollowsManual ==
  \A t \in Titles \ unsettled : pickedTitle[t] # 0 => search[t] = pickedTitle[t]

=============================================================================
