-------------------------- MODULE JellyfinLibrary --------------------------
(***************************************************************************)
(* The library a Jellyfin client browses (pkg/jellyfin: vod.go, helpers.go *)
(* and the live TV part of channels.go).  The server keeps no state for a  *)
(* client: every answer is computed from the streams present when it is    *)
(* asked.  What a client sees is put together from several answers: the    *)
(* pages of a listing, then the seasons of a series, then the episodes of  *)
(* each season, found again by identifiers made of a hash of the series'   *)
(* name.  The library may change between two answers.                      *)
(*                                                                         *)
(* A name is its place in the alphabet, so that names can be sorted; a     *)
(* date is a number, 0 when it is not known.                               *)
(***************************************************************************)
EXTENDS Naturals, FiniteSets, Sequences, SequencesExt

CONSTANTS
  Catalogue,  \* the streams there can be: id -> [type, local, name, date, genres, series, season, episode]
  hashString, \* name, or 0 for none -> 32-bit hash
  Queries,    \* what a client asks for: [view, term, genres, sortBy, desc]
  PageSize,
  Latest,     \* the limit of latestItems
  Programs,   \* the guide: tvg id -> sequence of [start, stop]
  MaxNow

VARIABLES
  library,    \* the streams present
  walk,       \* the client: what it asked and what it has been answered
  now

libraryVars == <<library, walk, now>>

NoQuery == [view |-> "", term |-> {}, genres |-> {}, sortBy |-> "", desc |-> FALSE]

NoWalk == [pc |-> "idle", query |-> NoQuery, got |-> << >>, total |-> 0, stable |-> TRUE,
           series |-> << >>, seasons |-> << >>, episodes |-> << >>, detail |-> << >>, narrowed |-> TRUE]

-----------------------------------------------------------------------------
(* Identifiers.                                                            *)

seriesKey(st) == IF st.series # 0 THEN st.series ELSE st.name

seriesIDFromName(name) == <<"cccc", hashString[name]>>

seasonItemID(name, num) == <<"cccd", hashString[name], num>>

parseSeasonItemID(id) == [hash |-> id[2], season |-> id[3]]

resolveSeriesID(id) == IF id[1] = "cccd" THEN <<"cccc", parseSeasonItemID(id).hash>> ELSE id

(* An episode without a season belongs to the first. *)
epSeason(st) == IF st.season = 0 THEN 1 ELSE st.season

-----------------------------------------------------------------------------
(* Lists.                                                                  *)

ListByVODType(type) == {id \in library : Catalogue[id].type = type}

matchesGenres(item, filter) == filter \subseteq item.genres

enrichMovieItem(id) ==
  [id |-> <<"id", id>>, name |-> Catalogue[id].name, date |-> Catalogue[id].date,
   genres |-> Catalogue[id].genres, children |-> 0]

buildMovieItems(term, genres) ==
  {i \in {enrichMovieItem(id) : id \in {d \in ListByVODType("movie") : Catalogue[d].local}} :
     (term # {} => i.name \in term) /\ matchesGenres(i, genres)}

(* A series is dated and classed by its name's entry in the metadata. *)
enrichSeriesItem(name, children) ==
  [id |-> seriesIDFromName(name), name |-> name, date |-> name, genres |-> {}, children |-> children]

buildSeriesItems(term, genres) ==
  LET local == {d \in ListByVODType("series") : Catalogue[d].local}
      episodes(name) == {d \in local : seriesKey(Catalogue[d]) = name}
      names == {n \in {seriesKey(Catalogue[d]) : d \in local} : term # {} => n \in term}
  IN  {i \in {enrichSeriesItem(n, Cardinality(episodes(n))) : n \in names} :
         matchesGenres(i, genres)}

Items(q) == IF q.view = "movies" THEN buildMovieItems(q.term, q.genres)
            ELSE buildSeriesItems(q.term, q.genres)

SortKey(item, sortBy) == IF sortBy = "PremiereDate" THEN item.date ELSE item.name

(* sort.Slice leaves items of one key in any order. *)
sortItems(items, sortBy, desc) ==
  {s \in [1 .. Cardinality(items) -> items] :
     /\ IsInjective(s)
     /\ \A i, j \in DOMAIN s :
          i < j => IF desc THEN SortKey(s[i], sortBy) >= SortKey(s[j], sortBy)
                           ELSE SortKey(s[i], sortBy) <= SortKey(s[j], sortBy)}

paginateAndRespond(s, start, limit) ==
  IF start >= Len(s) THEN << >>
  ELSE SubSeq(s, start + 1, IF start + limit > Len(s) THEN Len(s) ELSE start + limit)

latestItems(view) ==
  {paginateAndRespond(s, 0, Latest) :
     s \in sortItems(Items([NoQuery EXCEPT !.view = view]), "PremiereDate", TRUE)}

(* The streams of the series with this identifier. *)
OfSeries(id) ==
  {d \in ListByVODType("series") : seriesIDFromName(seriesKey(Catalogue[d])) = resolveSeriesID(id)}

InSeason(ds, num) == {d \in ds : epSeason(Catalogue[d]) = num}

(* A series without streams is shown with a first season, under no name    *)
(* (0), whose identifier does not lead back to the series.                 *)
listSeasons(id) ==
  LET ds == OfSeries(id)
      name == IF ds = {} THEN 0 ELSE seriesKey(Catalogue[CHOOSE d \in ds : TRUE])
      nums == IF ds = {} THEN {1} ELSE {epSeason(Catalogue[d]) : d \in ds}
      item(n) == [id |-> seasonItemID(name, n), season |-> n,
                  children |-> Cardinality(InSeason(ds, n))]
  IN  SetToSortSeq({item(n) : n \in nums}, LAMBDA a, b : a.season < b.season)

(* One stream for each episode number, in the order of the numbers; which  *)
(* of several is the store's order.                                        *)
listEpisodes(id, season) ==
  LET ds == {d \in OfSeries(id) : season > 0 => epSeason(Catalogue[d]) = season}
      number(d) == <<epSeason(Catalogue[d]), Catalogue[d].episode>>
      first(d) == [id |-> <<"id", d>>, season |-> number(d)[1], episode |-> number(d)[2]]
      chosen == {k \in SUBSET ds : /\ {number(d) : d \in k} = {number(d) : d \in ds}
                                   /\ \A c, d \in k : number(c) = number(d) => c = d}
  IN  {SetToSortSeq({first(d) : d \in k},
                    LAMBDA a, b : a.season < b.season \/ (a.season = b.season /\ a.episode < b.episode)) :
         k \in chosen}

findSeriesItem(id) == OfSeries(id) # {}

findSeasonItem(id) ==
  InSeason({d \in ListByVODType("series") : hashString[seriesKey(Catalogue[d])] = parseSeasonItemID(id).hash},
           parseSeasonItemID(id).season) # {}

(* What kind of item an identifier is found to be. *)
itemDetail(id) ==
  CASE id[1] = "id" /\ id[2] \in library ->
         IF Catalogue[id[2]].type = "series" THEN "Episode" ELSE "Movie"
    [] id[1] = "cccc" /\ findSeriesItem(id) -> "Series"
    [] id[1] = "cccd" /\ findSeasonItem(id) -> "Season"
    [] OTHER -> "Unknown"

-----------------------------------------------------------------------------
(* Live TV.                                                                *)

Airing(p, t) == t > p.start /\ t < p.stop

nowPlaying(tvg) == SelectSeq(Programs[tvg], LAMBDA p : Airing(p, now))

(* The hours around now are shown: the last one and the next day. *)
liveTvPrograms(tvg, isAiring, notAired) ==
  SelectSeq(Programs[tvg], LAMBDA p : /\ isAiring => Airing(p, now)
                                      /\ notAired => p.stop >= now
                                      /\ p.stop + 1 >= now /\ p.start <= now + 24)

-----------------------------------------------------------------------------
LibraryInit ==
  /\ library = DOMAIN Catalogue
  /\ walk = NoWalk /\ now = 0

(* A client opens a view: it begins a listing anew. *)
Browse(q) ==
  /\ walk.pc \in {"idle", "done"}
  /\ walk' = [NoWalk EXCEPT !.pc = "pages", !.query = q]
  /\ UNCHANGED <<library, now>>

(* listItems: the next page, from an ordering made for this request. *)
listItems ==
  /\ walk.pc = "pages"
  /\ \E s \in sortItems(Items(walk.query), walk.query.sortBy, walk.query.desc) :
       LET got == walk.got \o paginateAndRespond(s, Len(walk.got), PageSize)
       IN  walk' = [walk EXCEPT
             !.got = got, !.total = Len(s),
             !.pc = IF Len(got) < Len(s) /\ got # walk.got THEN "pages"
                    ELSE IF walk.query.view = "tv" THEN "list" ELSE "done"]
  /\ UNCHANGED <<library, now>>

OpenSeries(i) ==
  /\ walk.pc = "list" /\ i \in DOMAIN walk.got
  /\ walk' = [walk EXCEPT !.pc = "series", !.series = walk.got[i].id,
                          !.seasons = listSeasons(walk.got[i].id)]
  /\ UNCHANGED <<library, now>>

(* The seasons are opened one after the other: as the episodes of a show   *)
(* in a season, or as the items below the season, of which only the series *)
(* is read.                                                                *)
OfShow(season) == listEpisodes(walk.series, parseSeasonItemID(season).season)
ItemsBelow(season) == listEpisodes(season, 0)

OpenSeason(ofShow) ==
  LET season == Head(walk.seasons).id IN
  /\ walk.pc = "series" /\ walk.seasons # << >>
  /\ \E eps \in IF ofShow THEN OfShow(season) ELSE ItemsBelow(season) :
       walk' = [walk EXCEPT !.seasons = Tail(@), !.episodes = @ \o eps,
                            !.detail = <<itemDetail(season)>>, !.narrowed = @ /\ ofShow,
                            !.pc = IF Tail(walk.seasons) = << >> THEN "done" ELSE "series"]
  /\ UNCHANGED <<library, now>>

(* A stream appears or goes: the answers no longer speak of one library. *)
ChangeLibrary(id) ==
  /\ library' = IF id \in library THEN library \ {id} ELSE library \cup {id}
  /\ walk' = [walk EXCEPT !.stable = (walk.pc = "idle")]
  /\ UNCHANGED now

PassTime ==
  /\ now < MaxNow /\ now' = now + 1
  /\ UNCHANGED <<library, walk>>

LibrarySteps ==
  listItems \/ (\E ofShow \in BOOLEAN : OpenSeason(ofShow)) \/ \E i \in 1 .. Cardinality(DOMAIN Catalogue) : OpenSeries(i)
LibraryRequests ==
  (\E q \in Queries : Browse(q)) \/ (\E id \in DOMAIN Catalogue : ChangeLibrary(id)) \/ PassTime

-----------------------------------------------------------------------------
(* Paging through a listing of a library that does not change, sorted by   *)
(* something no two items share, a client is given every item and none     *)
(* twice (paginateAndRespond, sortItems); items that share the sort key    *)
(* may be in another order for each page.                                  *)
PagesAddUp ==
  LET items == Items(walk.query)
      keys == {SortKey(i, walk.query.sortBy) : i \in items}
  IN  walk.pc \notin {"idle", "pages"} /\ walk.stable /\ Cardinality(keys) = Cardinality(items) =>
        Len(walk.got) = Cardinality(items) /\ ToSet(walk.got) = items

(* Going through all seasons of a series, a client meets every episode     *)
(* number of the series, unless the library changed or the name of another *)
(* series has the same hash; and it meets each once, unless it asked for   *)
(* the items below a season, which are those of every season (listSeasons, *)
(* listItems, listEpisodes).                                               *)
EpisodesReachable ==
  LET names == {n \in {seriesKey(Catalogue[d]) : d \in ListByVODType("series")} :
                  seriesIDFromName(n) = walk.series}
      ds == {d \in ListByVODType("series") : seriesKey(Catalogue[d]) \in names}
  IN  walk.pc = "done" /\ walk.series # << >> /\ walk.stable /\ Cardinality(names) = 1 =>
        /\ {Catalogue[e.id[2]].episode : e \in ToSet(walk.episodes)} = {Catalogue[d].episode : d \in ds}
        /\ walk.narrowed => \A i, j \in DOMAIN walk.episodes :
             walk.episodes[i].season = walk.episodes[j].season
             /\ walk.episodes[i].episode = walk.episodes[j].episode => i = j

(* An identifier handed out in an answer is found again as what it was     *)
(* given for, while the library does not change (itemDetail).              *)
IdsResolve ==
  walk.stable =>
    /\ \A i \in DOMAIN walk.got :
         itemDetail(walk.got[i].id) = IF walk.query.view = "tv" THEN "Series" ELSE "Movie"
    /\ \A i \in DOMAIN walk.seasons : itemDetail(walk.seasons[i].id) = "Season"
    /\ walk.detail # << >> => walk.detail[1] = "Season"

(* The newest items shown on the home page leave out none that is newer    *)
(* than one they show (latestItems).                                       *)
LatestAreNewest ==
  \A s \in latestItems("movies") :
    \A i \in buildMovieItems({}, {}) \ ToSet(s) : \A j \in DOMAIN s : s[j].date >= i.date

(* What a channel is said to show now is among its programmes, also when   *)
(* only those that air, or have not ended, are asked for.                  *)
CurrentIsListed ==
  \A tvg \in DOMAIN Programs, a, b \in BOOLEAN :
    ToSet(nowPlaying(tvg)) \subseteq ToSet(liveTvPrograms(tvg, a, b))
=============================================================================
