--------------------------- MODULE MCClients ---------------------------
(***************************************************************************)
(* What players and other programs see of the server, and the tunnels it   *)
(* reaches the world through: the Jellyfin catalogue and its sign-in and   *)
(* HLS streams, the library of recordings, the published playlist, guide,  *)
(* lineup and DLNA tree, playback sessions, the WireGuard services. They   *)
(* meet only in stores that other modules describe, so each behaviour is   *)
(* one of the component in focus, and the others stay as they begin.       *)
(***************************************************************************)
EXTENDS Playback, WireGuard, WireGuardMulti, RecordingLibrary, TLC

CONSTANTS Pair

MCProfiles == [Browser |-> sessionArgs("mp4", "default", "default", "mse", 0),
               Webm |-> sessionArgs("webm", "h264", "opus", "mse", 0),
               Small |-> sessionArgs("webm", "copy", "opus", "mse", 480),
               TV |-> sessionArgs("mpegts", "av1", "", "", 0)]
MCStreams == [s1 |-> StrategyInput(TRUE, FALSE, FALSE, "h265", "opus"),
              s2 |-> StrategyInput(FALSE, TRUE, FALSE, "", "ac3")]
MCChannels == [c1 |-> <<"s1", "s2">>]
\* A title with its minute, and the name that is tried next.
MCBaseNames == <<"x", "x_1">>
\* Two recordings have the same base name.
MCFiles == [f1 |-> [base |-> "news"], f2 |-> [base |-> "news"], f3 |-> [base |-> "film"]]
\* A client told by its port, and one by the headers it sends.
MCClientRules == <<[port |-> 9090, rules |-> <<>>, profile |-> "TV"],
                   [port |-> 0, rules |-> <<{"vlc", "kodi"}, {"kodi"}>>, profile |-> "TV"]>>

\* Four films and six episodes; two episodes are copies of one, one is of no
\* series, and some carry no season.
Entry(type, local, name, date, genres, series, season, episode) ==
  [type |-> type, local |-> local, name |-> name, date |-> date, genres |-> genres,
   series |-> series, season |-> season, episode |-> episode]
MCCatalogue ==
  [m1 |-> Entry("movie", TRUE, 1, 0, {"a"}, 0, 0, 0), m2 |-> Entry("movie", TRUE, 2, 5, {"a", "b"}, 0, 0, 0),
   m3 |-> Entry("movie", TRUE, 3, 5, {"b"}, 0, 0, 0), m4 |-> Entry("movie", FALSE, 4, 2, {}, 0, 0, 0),
   e1 |-> Entry("series", TRUE, 5, 0, {}, 9, 0, 1), e2 |-> Entry("series", TRUE, 6, 0, {}, 9, 2, 2),
   e3 |-> Entry("series", FALSE, 6, 0, {}, 9, 2, 2), e4 |-> Entry("series", TRUE, 7, 0, {}, 0, 0, 1),
   e5 |-> Entry("series", FALSE, 7, 0, {}, 9, 1, 3), e6 |-> Entry("series", TRUE, 8, 0, {}, 3, 1, 1)]
\* A hash that maps the series 3 and 9 to one value.
MCHash == [n \in 0..9 |-> n % 6]
MCQueries == {[view |-> v, term |-> {}, genres |-> g, sortBy |-> s, desc |-> d] :
                v \in {"movies", "tv"}, g \in {{}, {"a"}}, s \in {"", "PremiereDate"}, d \in BOOLEAN}
MCPrograms == [t1 |-> <<[start |-> 0, stop |-> 2], [start |-> 2, stop |-> 4]>>]

Channel(id, group, tvg) == [id |-> id, enabled |-> TRUE, group |-> group, tvg |-> tvg]
MCLineup == <<Channel("c1", "g1", "t1"), Channel("c2", "g1", "None"), Channel("c3", "None", "t1")>>

\* A private host, one that is not on the list of hosts to route, one that is.
MCHosts == {[private |-> TRUE, listed |-> TRUE], [private |-> FALSE, listed |-> FALSE],
            [private |-> FALSE, listed |-> TRUE]}

MCOrder == <<"p", "q">>

VARIABLES
  focus,  \* the component this behaviour is about
  used,   \* the requests made so far
  library, walk, now,
  list, tokens, saved, file, cut, jellyfinClient, hls, jellyfinViewer,
  channels, groups, restricted, favorites, recordings, epgData, listedPrograms, doc,
  publishClient

L == INSTANCE JellyfinLibrary WITH
  Catalogue <- MCCatalogue, hashString <- MCHash, Queries <- MCQueries, PageSize <- 2,
  Latest <- 2, Programs <- MCPrograms, MaxNow <- 4
J == INSTANCE JellyfinServer WITH
  Users <- [u1 |-> "a", u2 |-> "b", u3 |-> "b"], Clients <- Pair, MaxSegs <- 3,
  MaxGen <- 2, Viewers <- {"v1"}, client <- jellyfinClient, viewer <- jellyfinViewer
U == INSTANCE Publish WITH
  StartChannels <- MCLineup, Groups <- {"g1", "g2"}, TvgIds <- {"t1"},
  Streams <- {"s1"}, Pages <- {0, 2}, Restrictions <- {{}, {"g1"}}, MaxEntries <- 2,
  None <- "None", client <- publishClient

libraryVars == <<library, walk, now>>
jellyfinVars == <<list, tokens, saved, file, cut, jellyfinClient, hls,
  jellyfinViewer>>
publishVars == <<channels, groups, restricted, favorites, recordings, epgData,
  listedPrograms, doc, publishClient>>

clientsVars == <<focus, used, libraryVars, jellyfinVars, libVars, publishVars, playVars, wgVars, multiVars>>

ClientsInit ==
  /\ focus \in {"library", "jellyfin", "recordings", "publish", "play", "tunnel", "tunnels"} /\ used = 0
  /\ L!LibraryInit
  /\ J!ServerInit
  /\ LibInit
  /\ U!PublishInit
  /\ PlayInit
  /\ WireGuardInit
  /\ MultiInit
  /\ focus = "jellyfin" \/ list = <<"u1", "u2">>
  \* An older recording is the first user's.
  /\ owner = <<>> \/ (focus = "recordings" /\ owner = <<"u1">> /\ files[<<"recording", "x", "ts">>] = 1)
  /\ focus = "publish" \/ restricted = {}
  /\ focus = "tunnel" \/ (~tunnelEnabled /\ config = "")
  /\ focus = "tunnels" \/ profiles = [p \in {"p", "q"} |-> "off"]

\* A request of the component in focus, of which there are at most bound.
Request(bound) == used < bound /\ used' = used + 1

LibraryNext ==
  /\ focus = "library"
  /\ \/ L!LibrarySteps /\ UNCHANGED used
     \/ Request(3) /\ L!LibraryRequests
  /\ UNCHANGED <<focus, jellyfinVars, libVars, publishVars, playVars, wgVars,
       multiVars>>

JellyfinNext ==
  /\ focus = "jellyfin"
  /\ \/ J!ServerSteps /\ UNCHANGED used
     \/ Request(4) /\ J!ServerRequests
  /\ UNCHANGED <<focus, libraryVars, libVars, publishVars, playVars, wgVars,
       multiVars>>

RecordingsNext ==
  /\ focus = "recordings"
  /\ \/ LibSteps /\ UNCHANGED used
     \/ Request(4) /\ LibRequests
  /\ UNCHANGED <<focus, libraryVars, jellyfinVars, publishVars, playVars, wgVars,
       multiVars>>

PublishNext ==
  /\ focus = "publish"
  /\ \/ U!PublishSteps /\ UNCHANGED used
     \/ Request(3) /\ U!PublishRequests
  /\ UNCHANGED <<focus, libraryVars, jellyfinVars, libVars, playVars, wgVars,
       multiVars>>

PlayNext ==
  /\ focus = "play"
  /\ \/ PlaySteps /\ UNCHANGED used
     \/ Request(3) /\ PlayRequests
  /\ UNCHANGED <<focus, libraryVars, jellyfinVars, libVars, publishVars,
       wgVars, multiVars>>

TunnelNext ==
  /\ focus = "tunnel"
  /\ \/ WireGuardSteps /\ UNCHANGED used
     \/ Request(2) /\ WireGuardRequests
  /\ UNCHANGED <<focus, libraryVars, jellyfinVars, libVars, publishVars,
       playVars, multiVars>>

TunnelsNext ==
  /\ focus = "tunnels"
  /\ \/ MultiSteps /\ UNCHANGED used
     \/ Request(3) /\ MultiRequests
  /\ UNCHANGED <<focus, libraryVars, jellyfinVars, libVars, publishVars,
       playVars, wgVars>>

ClientsNext == LibraryNext \/ JellyfinNext \/ RecordingsNext \/ PublishNext \/ PlayNext \/ TunnelNext \/ TunnelsNext

ClientsSpec == ClientsInit /\ [][ClientsNext]_clientsVars

Symmetry == Permutations(Pair)

-----------------------------------------------------------------------------
\* A client that pages through a list, walks the seasons of a series, opens an
\* id it was given or looks at the newest and current items misses nothing and
\* meets nothing twice while the library does not change; it is let in as the
\* user it logged in as; and it is served whole segments. (JellyfinLibrary,
\* JellyfinServer, with their exceptions.)
JellyfinSound ==
  /\ focus = "library" =>
       /\ L!PagesAddUp
       /\ L!EpisodesReachable
       /\ L!IdsResolve
       /\ L!LatestAreNewest
       /\ L!CurrentIsListed
  /\ focus = "jellyfin" =>
       /\ J!TokenIsItsUsers
       /\ J!SegmentsWhole

\* The guide, the playlist, the lineup of a tuner and the DLNA tree show the
\* same channels, a client that pages through a container gets each item once,
\* and an item can be opened by its id. (Publish, with its exceptions.)
ListsAgree ==
  focus = "publish" =>
    /\ U!GuideMatchesPlaylist
    /\ U!TreeIsLineup
    /\ U!PagesComplete
    /\ U!ItemsResolve

=============================================================================
