--------------------------- MODULE MCCatalogue ---------------------------
(***************************************************************************)
(* How the server comes to know what can be watched: the two stream        *)
(* stores, the refresh of accounts and sources, the guide, the metadata of *)
(* films and series, and the channel lineup. They meet in store calls that *)
(* are critical sections of their own, so each behaviour is one of the     *)
(* component in focus, and the others stay as they begin.                  *)
(***************************************************************************)
EXTENDS StreamBolt, StreamIndexed, Guide, TLC

CONSTANTS Pair

\* A film and a live stream of one account, whose groups nest, and a stream of
\* each kind of tuner; the last has no group.
Stream(kind, src, group, name, vod) ==
  [kind |-> kind, src |-> src, group |-> group, name |-> name, vod |-> vod, tmdb |-> 0,
   manual |-> FALSE, wg |-> FALSE, probed |-> FALSE]
MCFeed == {Stream("m3u", "a", <<"A">>, "n", "movie"), Stream("m3u", "a", <<"A", "B">>, "n", ""),
           Stream("satip", "s", <<"A">>, "m", ""), Stream("hdhr", "h", <<>>, "n", "")}

\* A search for a name, for what all names have, and for an id.
MCKeys == {f.name : f \in MCFeed} \X Ids
MCMatching == [name |-> {"n"} \X Ids, all |-> MCKeys, id |-> {k \in MCKeys : k[2] = CHOOSE i \in Ids : TRUE}]
MCKeyRank == CHOOSE f \in [MCKeys -> 1..Cardinality(MCKeys)] : \A j, k \in MCKeys : f[j] = f[k] => j = k

\* A source of each kind, and two accounts with the same streams.
MCSources == {"a", "b", "x", "s", "h"}
MCKind == [a |-> "m3u", b |-> "m3u", x |-> "xtream", s |-> "satip", h |-> "hdhr"]
MCPart == <<"live", "vod">>
MCListing == [s \in MCSources |-> <<{1, 2}, {2}>>]

\* Two guides that list a channel both, and a channel that one lists only.
MCListed == [e |-> {"c1", "c2"}, f |-> {"c1"}]

\* A series of two streams, and a film.
MCTitle == [a |-> [name |-> "show", kind |-> "tv"], b |-> [name |-> "show", kind |-> "tv"],
            c |-> [name |-> "film", kind |-> "movie"]]

VARIABLES
  focus,  \* the component this behaviour is about
  used,   \* the requests made so far
  accounts, streams, ingestChannels, status, server, job, deleting, editing,
  assigning, spoiled, unloaded, excused, revived,
  library, key, search, detail, season, meta, collections, tmdb, worker, syncing,
  total, done, crossed, picked, raced, pickedTitle, unsettled, known, disturbed,
  lineupChannels, groups, logos, made, handler, by, edited

I == INSTANCE Ingest WITH
  Sources <- MCSources, Kind <- MCKind, Ids <- {1, 2}, Part <- MCPart,
  Listing <- MCListing, Setups <- {{}, {"a"}, {"x"}, {"s"}, {"h"}, {"a", "b"}},
  Versions <- {1, 2}, Refreshers <- Pair, Channels <- {"c1"},
  channels <- ingestChannels
M == INSTANCE Metadata WITH
  Libraries <- {<<"a", "b">>, <<"c">>}, Title <- MCTitle, Ids <- {1, 2},
  Seasons <- {1}, Workers <- Pair
L == INSTANCE Lineup WITH
  Users <- {"u", "v"}, Names <- {"n1"}, Urls <- {"x"}, Streams <- {"s"}, MaxRows <- 2,
  MaxFails <- 1, Handlers <- Pair, channels <- lineupChannels

ingestVars == <<accounts, streams, ingestChannels, status, server, job, deleting,
  editing, assigning, spoiled, unloaded, excused, revived>>
metadataVars == <<library, key, search, detail, season, meta, collections, tmdb,
  worker, syncing, total, done, crossed, picked, raced, pickedTitle, unsettled, known,
  disturbed>>
lineupVars == <<lineupChannels, groups, logos, made, handler, by, edited>>

catalogueVars == <<focus, used, boltVars, indexedVars, ingestVars, guideVars, metadataVars, lineupVars>>

CatalogueInit ==
  /\ focus \in {"buckets", "records", "ingest", "guide", "metadata", "lineup"} /\ used = 0
  /\ BoltInit
  /\ IndexedInit
  /\ I!IngestInit
  /\ GuideInit
  /\ M!MetaInit
  /\ L!LineupInit
  /\ focus = "buckets" \/ main = Empty
  /\ focus = "records" \/ legacy = None
  /\ focus = "ingest" \/ accounts = [s \in MCSources |-> None]
  /\ focus = "metadata" \/ library = <<"c">>

\* A request of the component in focus, of which there are at most bound.
Request(bound) == used < bound /\ used' = used + 1

BucketsNext ==
  /\ focus = "buckets"
  /\ \/ Rebuild /\ UNCHANGED used
     \/ Request(4) /\ BoltRequests
  /\ UNCHANGED <<focus, indexedVars, ingestVars, guideVars, metadataVars, lineupVars>>

RecordsNext ==
  /\ focus = "records"
  /\ Request(4) /\ IndexedNext
  /\ UNCHANGED <<focus, boltVars, ingestVars, guideVars, metadataVars, lineupVars>>

IngestNext ==
  /\ focus = "ingest"
  /\ \/ I!Steps /\ UNCHANGED used
     \* One more for the Xtream account: a channel may lose a stream that is back.
     \/ Request(IF accounts["x"] = None THEN 3 ELSE 4) /\ I!Requests
  /\ UNCHANGED <<focus, boltVars, indexedVars, guideVars, metadataVars, lineupVars>>

GuidesNext ==
  /\ focus = "guide"
  /\ \/ GuideSteps /\ UNCHANGED used
     \/ Request(3) /\ GuideRequests
  /\ UNCHANGED <<focus, boltVars, indexedVars, ingestVars, metadataVars, lineupVars>>

MetadataNext ==
  /\ focus = "metadata"
  /\ \/ M!MetaSteps /\ UNCHANGED used
     \/ Request(2) /\ M!MetaRequests
  /\ UNCHANGED <<focus, boltVars, indexedVars, ingestVars, guideVars, lineupVars>>

LineupNext ==
  /\ focus = "lineup"
  /\ \/ L!LineupSteps /\ UNCHANGED used
     \/ Request(4) /\ L!LineupRequests
  /\ UNCHANGED <<focus, boltVars, indexedVars, ingestVars, guideVars, metadataVars>>

CatalogueNext == BucketsNext \/ RecordsNext \/ IngestNext \/ GuidesNext \/ MetadataNext \/ LineupNext

CatalogueSpec == CatalogueInit /\ [][CatalogueNext]_catalogueVars

Symmetry == Permutations(Pair)

-----------------------------------------------------------------------------
\* A playlist whose ETag is stored has been loaded, streams are routed as their
\* account says when nobody works on it, and a channel refers to streams that
\* exist or whose removal is being cleaned up; a channel that lost all its
\* streams to a refresh is gone, one keeps the streams that exist, and a stream
\* disappears only by an actor that works on its source; a request
\* changes the channels of its own user only, no edit undoes an assignment of
\* streams made since it read the channel, an address has one logo, and a
\* channel's logo exists or was deleted since. (Ingest, Lineup, with their
\* exceptions.)
ChangesKeep ==
  /\ [](focus = "ingest" =>
         /\ I!EtagMeansLoaded
         /\ I!RoutedAsAccount
         /\ I!ChannelsRefer)
  /\ I!NoEmptiedChannel
  /\ I!OnlyOwnersDelete
  /\ I!KeepsWhatExists
  /\ [](focus = "lineup" =>
         /\ L!OneLogoPerURL
         /\ L!LogosRefer)
  /\ L!OthersUntouched
  /\ L!EditKeepsStreams

\* A match that a user picked stays and is found by name, a stream that was
\* given an id finds metadata under it, a film its collection, resolving a
\* series again loses no episode, and one sync runs at a time. (Metadata, with
\* its exceptions.)
MetadataSound ==
  focus = "metadata" =>
    /\ M!ManualKept
    /\ M!ResolvedHasMetadata
    /\ M!CollectionsKnown
    /\ M!EpisodesSurvive
    /\ M!OneSync
    /\ M!LookupFollowsManual

=============================================================================
