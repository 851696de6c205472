# Verification of tvproxy

tvproxy takes live TV and video on demand (M3U and Xtream playlists, HDHomeRun,
SAT>IP, files), and serves it to browsers, players, DLNA and Jellyfin clients,
copied or transcoded, live or recorded. This directory holds TLA+ models of it,
the TLC configurations that check them, and TLAPS proofs. Paths below are
relative to the repository; `PROJECT.json` maps every definition to its lines.

## 1. Inventory

### The parts and their state

| Part | State it keeps | Operations that change it |
|---|---|---|
| Session manager (`pkg/session/manager.go`, `session.go`) | the map key -> Session; per session its consumers, flags, done channel, context, seek and stop functions, directory | GetOrCreateWithConsumer, AddRecordingConsumer, RemoveConsumer, stopAndCleanup, cleanupDoneSession, RestartWithSeek, Shutdown, the pipeline goroutine |
| Media pipelines (`pkg/session/gopipeline.go`, `runGo*`, `pkg/lib/av/demuxloop`) | native resources of seven kinds of pipeline, the stopped and latched flags | constructors, PushVideo, PushAudio, ResetForSeek, EndOfStream, Stop |
| Demuxer (`pkg/lib/av/demux`, `selector`, `pkg/session/demux.go`) | format context, chosen tracks, time base, seek channel | NewDemuxSession, ReadPacket with its retries, Reconnect, SeekTo, Close |
| Segment delivery (`pkg/lib/av/mux`, `pkg/session/watcher.go`, `pkg/handler/vod.go`) | segment numbers and files, queued fsnotify events, index, init pointers, generation | writes, flushes, Reset, Close, RequestSeek, the event loop, the handlers |
| Growing-file reader (`pkg/session/tail.go`) | file position, seek version | Read |
| Playback (`pkg/service/vod.go`, `strategy.go`, `client.go`, `pkg/handler/vod.go`) | sessions, the profile a client is given, viewers | StartWatching and its variants, StopWatching |
| Live fan-out (`pkg/service/proxy.go`, `activity.go`) | a connection per channel with its clients, the list of viewers | ProxyStream, tryJoinExisting, startUpstream, proxyLoop, removeClient |
| Recording service and store (`pkg/service/vod_recording.go`, `pkg/store/recording.go`) | recordings per channel with their timers, `meta.json` per active directory, the library of finished files | StartRecording, StopRecording, the timers, CompleteRecording, RecoverRecordings, Delete |
| Scheduler (`pkg/service/scheduler.go`, `pkg/store/scheduled_recording.go`, `pkg/worker/scheduler.go`) | the stored schedules and their file | Schedule, Delete, Tick, ClearAndSave, Load |
| Ingest (`pkg/service/m3u.go`, `satip.go`, `hdhr_source.go`, their workers) | accounts and sources, their etags and counts, the streams | refreshes, scans, edits, deletions, start-up clean-up |
| Stream stores (`pkg/store/stream*.go`) | streams in memory, in an append-only file with an index of positions, or in bolt buckets with seven indexes | upserts, deletions by source, field updates, Save, Load, rebuilds |
| Programme guide (`pkg/service/epg.go`, `pkg/store/epg.go`) | entries, three indexes, programmes, a file | refreshSource, DeleteBySourceID, clean-ups |
| Metadata (`pkg/tmdb`, `pkg/handler/tmdb.go`) | cached answers, rows of films, series and collections, ids of streams, the progress of a sync | Sync, lookups, resolve, SetSeasonEpisodes, Match, Rematch |
| Lineup (`pkg/store/channel.go`, `channel_group.go`, `logo.go`, their services and handlers) | channels with their streams and fail counts, groups, logos | CRUD, AssignStreams |
| Published views (`pkg/service/output.go`, `dlna.go`, `hdhr.go`) | none: lists read from the stores | playlist, guide, lineup, Browse |
| Jellyfin server (`pkg/jellyfin`) | tokens and their file | sign-in, listings, HLS playlists and segments |
| Tunnels (`pkg/service/wireguard.go`, `wireguard_multi.go`, `pkg/session/wgpool.go`, `wgproxy.go`) | the tunnel or a tunnel per profile, the active one, the pool with its fail counts, proxies | Reconfigure, SyncProfiles, health checks, Do, GetOrCreate |
| Accounts (`pkg/store/user.go`, `pkg/service/auth.go`, `pkg/middleware/auth.go`) | users, invitations, tokens | Login, RefreshToken, CreateInvite, AcceptInvite, edits |
| Profiles and clients (`pkg/store/profile.go`, `client.go`, `pkg/service/seed.go`) | stream profiles, clients, revision | seeding, edits, deletions |
| Settings, source profiles, favourites | a map, a list, a list per user | Set, Update, ensureProfile, Add, Remove |
| Tuner emulation (`pkg/worker/hdhr_server.go`, `pkg/store/hdhr_device.go`) | devices, a server per device | sync, startServer, CRUD |
| HDHomeRun sources (`pkg/store/hdhr_source.go`) | sources with their devices, a file | AddDevice, autoLinkDevices, save |
| Backup (`pkg/service/backup.go`, `export.go`) | none | Backup, Restore, Export, Import |

### How they interact

A handler calls VODService, ProxyService or the Jellyfin server. VODService
calls the session manager, which starts one goroutine per session; that opens
the demuxer, builds a pipeline and runs the demux loop; the pipeline writes a
file or segments into the directory of the *stream*; the watcher's goroutine
sees the files through fsnotify; handlers read the watcher's fields or tail the
file. A recording is a consumer of the session plus a `meta.json` and a timer.
The scheduler calls VODService from a ticker and from requests. After a restart
RecoverRecordings starts again what `meta.json` says was recording.

Beside that, workers and requests fill and edit stores: ingest writes streams
and takes the deleted ones out of channels, the guide is filled from sources,
the metadata sync writes ids to streams. Each store call is a critical section;
nothing holds a lock over two of them. Playlist, guide, lineup, tree and the
Jellyfin catalogue are made from several lists read one after the other.

### What is hard

* Lookup and use are separate critical sections: of a session, a connection, a
  tunnel, a row. So are the removal of the last consumer and the teardown.
* Teardown waits for a pipeline with or without the manager's lock; a restart
  replaces context and done channel while the old pipeline still runs.
* All sessions of a stream share one directory, in turn and at once.
* Timers, ticks, requests, recovery and shutdown stop and start the same
  recording.
* A crash may fall between any two writes: of `meta.json`, of a store's file
  (most are overwritten in place), of the transactions that rebuild an index, of
  the saves of a seeding or a restore.
* A seek runs on the read goroutine while others stop the pipeline, read the
  index, or ask for another seek; old segments are still in flight. A source
  that is reopened begins its time anew.
* Two refreshes of one source, or a refresh and an edit or a deletion, each work
  with the row as they read it.
* Native resources, listeners and tunnels are released by hand on every path.

`PROJECT.json` lists these hazards at their lines, with the properties that
cover them, or why none does.

### What makes each part correct

* Session manager: at most one live session per key; a session is opened and
  closed once; an unused one is reclaimed; its directory is removed only when
  its pipelines have stopped; the lock is released; a recording is not torn down.
* Pipelines and demuxer: what a push touches is there; everything acquired is
  released; a cancelled pipeline ends; time goes back only by a seek or a reopen.
* Segments: numbered without reuse; positions stable within a generation; init
  segments come back after a seek; an answered seek has taken effect.
* Streams: every viewer is served or told to stop, gets what it asked for in a
  form it was told of, and leaves nothing behind.
* Recordings: one per channel; each has an auto-stop and lets go of its session;
  a finished one stays until it is deleted, by its owner.
* Scheduler: a schedule is marked before it records, resolved in the end, not
  revived after deletion; a booking that was acknowledged survives a restart.
* Ingest and stores: an index agrees with what it indexes, memory with the file,
  a skipped refresh with what it would load, a channel with its streams.
* Views: playlist, guide, lineup and tree show the same channels; pages add up;
  an id leads back to what it was handed out for.
* Tunnels: none is lost while it is up; what is to be routed is routed.
* Accounts: an invitation works once, a deleted user stays deleted, a token's
  rights lag by no more than its lifetime.

## 2. The modules

| Module | Models | Built on |
|---|---|---|
| `SessionLifecycle` | abstract: the life of a session as callers may rely on it | - |
| `SessionManager` | the manager and its goroutines | implements `SessionLifecycle` |
| `RecordingContract` | abstract: what VODService promises about recordings | - |
| `Recording` | VODService's recordings and the recording store, over sessions seen from above | implements `RecordingContract` |
| `Scheduler` | the scheduler, its store and its worker | extends `RecordingContract` |
| `ScheduleFile` | the file of the schedules and how it is written | below `Scheduler` |
| `RecordingLibrary` | the files of a stream's recordings, their metadata and the active directory | after `Recording` |
| `Pipeline` | one media pipeline and the goroutine that runs it | below `SessionManager` |
| `Demux` | the body of that goroutine: demuxer, retries, seeks, the demux loop | beside `Pipeline` |
| `Segments` | demuxer seek channel, muxer, watcher, MSE handlers | - |
| `Tail` | viewers of a growing file | beside `SessionManager` |
| `Playback` | strategy, client detection, StartWatching and its handlers | above `SessionManager` |
| `ProxyFanout` | live connections shared by viewers, the activity list | - |
| `StreamOps`, `StreamStore` | abstract: the plain stream store | - |
| `StreamIndexed`, `StreamBolt` | the two other stream stores | implement `StreamStore` |
| `Ingest` | refreshes of M3U, Xtream, SAT>IP and HDHomeRun sources | above the stream store |
| `Guide` | the programme guide and its refreshes | - |
| `Metadata` | TMDB sync, look-ups and matches | - |
| `Lineup` | channels, groups, logos | - |
| `Publish` | playlist, guide, lineup, DLNA tree | over `Lineup`'s and `Guide`'s rows |
| `JellyfinLibrary`, `JellyfinServer` | the catalogue; sign-in and HLS delivery | - |
| `WireGuard`, `WireGuardMulti` | one tunnel; a tunnel per profile, the pool, the proxies | - |
| `Accounts`, `Profiles`, `Settings`, `Favorites`, `TunerDevices`, `HdhrSources`, `Backup` | the stores and services of these names | - |
| `MC*` | small instances for TLC; `MCDelivery`, `MCHousehold`, `MCClients` and `MCCatalogue` put components together | - |
| `SessionManagerProofs`, `RecordingProofs`, `SchedulerProofs`, `SegmentsProofs` | theorems about the modules of these names | those modules |
| `DeliveryProofs` | theorems about `Pipeline`, `ProxyFanout`, `Tail`, `Demux` | those modules |
| `HouseholdProofs` | theorems about `Accounts`, `TunerDevices`, and by `MCHousehold`'s instances about `Favorites`, `HdhrSources`, `ScheduleFile` | those modules |
| `ClientsProofs` | theorems about `Playback`, `WireGuard`, `WireGuardMulti`, `RecordingLibrary` | those modules |
| `CatalogueProofs` | theorems about `StreamBolt`, `StreamIndexed`, `Guide` | those modules |

An action is one critical section, one transaction, or one blocking step of a
goroutine: what the code does between taking a lock and giving it back cannot be
interleaved, everything else can. A request that reads, works and writes back
is an entry in `handler`, `actor`, `job` or `work` that carries what it has read.
Variables that no code has (`raced`, `overlapped`, `spoiled`, `cut`, `excused`,
`disturbed`, ...) record that an exception happened which a property names; no
guard reads them.

**SessionManager.** `pc[c]` is where the call of consumer `c` stands,
`teardown[s]` and `reason[s]` where the goroutine that tears `s` down stands and
who started it, `pipe[s][g]` the pipeline of the `g`-th start of `s`; `closed`
and `cancelled` are the done channels and contexts by that generation, `waitOn`
the channel a teardown waits for. `Locked` holds while GetOrCreateWithConsumer
replaces a dead session with `Manager.mu` held. `files` are sessions whose output
is on disk, `dirs` the directories; `DirOf` maps a key to its stream's directory.

**Recording, Scheduler, ScheduleFile, RecordingLibrary.** `recordings` and
`timers` are VODService's maps; `fired` the timer closures that have started,
`stopping` the stops between their three steps, `starting` a start between its
two; `index` and `meta` the store's memory and disk; `recovering` what
RecoverRecordings has yet to do. The session manager appears as "none", "live" or
"dead" per channel. In Scheduler every store access and every call into VODService
is a step; VODService is `RecordingContract`, which `Recording` is shown to
implement. ScheduleFile refines its store: a change is a change of the rows, a
truncation and a write. RecordingLibrary goes on where a recording is completed:
names, metadata, deletions, a new session in the same directory.

**Pipeline, Demux, Segments, Tail.** In Pipeline `held` are the struct fields that
are not nil, `live` the native resources that are allocated. A constructor is a
sequence of steps with what each opens and what each closes when it fails; a step
that the job does not call for is passed over. In
Demux a packet is its frame number, so time stamps can be compared with
positions; `fc` says whether there is an open input; the sink is known by the
time stamps it was given. In Segments the epoch of a packet counts the seeks
before it; `rpc` is the position inside a seek, `events` the fsnotify queue.
In Tail a write carries the seek version at which it was made.

**Playback, ProxyFanout.** Playback takes the manager's GetOrCreateWithConsumer as
one step and adds what SessionManager leaves open: which stream, profile, codec
and delivery are chosen, what the viewer is told, who is listed as active. In
ProxyFanout `connection` is the map's entry for the channel, `clients[k]` the
list of connection `k`, `loop[k]` its goroutine, `target[k]` the connection that
goroutine has found in the map.

**Stream stores, Ingest.** StreamStore is the specification; StreamBolt says
`ImplementsStore` and StreamIndexed `IndexedImplementsStore`, both `[][StoreNext]`
under a mapping of their buckets and positions to its map. In StreamIndexed a
position is the number of a record, and an index entry has the fields that the
code keeps of a stream beside the position. All three compute with the operators
of StreamOps. In Ingest a refresh is a `job` with what it has
fetched, `streams` the store's map; `Listing` is what the server of a source
answers in each version, and a scan or a refresh may miss parts of it: the films or
series of a provider, the muxes that are not heard. `unloaded`, `spoiled`, `excused`
and `revived` record what the exceptions name.

**Guide, Metadata, Lineup, Publish, Jellyfin.** Readers are operators over the
rows (`GetNowByChannelID`, `browseGroup`, `listEpisodes`): properties compare them
with each other and with a scan. Where a client puts answers together, `walk` and
`client` hold what it was given so far.

## 3. The runs

Bounds and why they are enough. The properties are about a pair: two sessions of
a key, a viewer and a recording, two requests on one row, a refresh and an edit,
two seeks. A third adds interleavings of steps that touch other entries of the
same maps. Requests are bounded by number, what goroutines do after a request is
not bounded; identities are used once, so behaviours end.

| Run | Checks | Instance |
|---|---|---|
| `session_sharing` | sessions that are shared, left and joined | 2 keys over one directory, 2 sessions, 1 viewer, 1 recorder, no restart |
| `session_restart` | the same with seeks that restart the pipeline, and the wait under the manager's lock | 1 key, 2 sessions, 1 viewer, 1 recorder, 1 seeker, 1 restart |
| `recording` | Recording against RecordingContract | 2 recordings of a channel, clock 0..3 |
| `scheduler` | the safety of Scheduler | 2 schedules, 3 programmes, symmetry of the schedules |
| `segments` | segments, watcher and seeks | 1 track, 2 seeks, 2 segments, 1 leftover file |
| `delivery` | Pipeline, Demux, Tail, ProxyFanout; the liveness of Scheduler | every job, 2 seeks; 2 frames per source, 2 seeks; 3 writes, 2 versions; 2 viewers, 2 tries; 1 schedule beside a manual recording, clock 0..3 |
| `household` | Accounts, Profiles, Settings, Favorites, TunerDevices, HdhrSources, ScheduleFile, Backup | 2 goroutines each, 3 to 5 requests |
| `clients` | JellyfinLibrary, JellyfinServer, RecordingLibrary, Publish, Playback, WireGuard, WireGuardMulti | 2 clients, viewers or goroutines each, 2 to 4 requests |
| `catalogue` | StreamBolt, StreamIndexed, Ingest, Guide, Metadata, Lineup | 2 goroutines, 2 streams or ids each, 2 to 4 requests |

The last four runs check several components. These meet only in single store
calls that other modules describe (or, in `delivery`, in an interface of which
the other side is modelled), so a product of their behaviours
would add no case: the variable `focus` picks a component in the initial state,
only that component moves, and a property is claimed for its focus. `used` counts
the requests that were made; `Request(n)` in each MC module is the bound.

The instances meet the interesting cases: both goroutines in one row, two
sources that list one stream, two names with one hash, two recordings of one
name, a port that another device asked for, a group that was deleted, a token
file that was lost, a crash in every write that is modelled as more than one
step. For one part of each property `PROJECT.json` lists a mutant: the property fails
when a definition it depends on is changed as a plausible mistake would change
it.

A property of a run is one sentence about the system, and in most runs the
conjunction of parts that are stated, each with its own comment, in the modules
of the components; the name of a part that fails is found by checking it alone.
The session runs check their properties one by one: EmptyIsReclaimed,
CleanedAfterPipeline, EmptyIsRemoved and ImplementsFairLifecycle in
`session_sharing`; TypeOK, MapHoldsTheLive, ImplementsLifecycle and LockReleased
in `session_restart`. Single properties too are DeletedIsFinal (`scheduler`),
ImplementsContract and RecorderReleased (`recording`: Recording implements
RecordingContract), ReadToTheEnd (`delivery`: Tail), and ImplementsStore and
IndexedImplementsStore (`catalogue`: StreamBolt and StreamIndexed implement
StreamStore). A conjunction whose parts are all of one module that a theorem is
about is defined in that module, where the proof uses it; the others
(ForwardOnly, EverythingEnds, StoresSound, FilesSound, OthersKept,
JellyfinSound, ListsAgree, ChangesKeep, MetadataSound) are in the MC modules.
FilesSound is proved there too: the constants of its three instances are
`MCHousehold`'s own. The parts are:

| Run | Property | Its parts |
|---|---|---|
| `recording` | RecorderInvariant | Recording: TypeOK, NoOrphanRecorder, AutoStopArmed |
| `scheduler` | ScheduleInvariant | Scheduler: TypeOK, MarkedBeforeStarted |
| `segments` | SegmentsInvariant | Segments: TypeOK, SeekBumped |
| `segments` | NumbersStay | Segments: WrittenOnce, StablePositions |
| `segments` | GoesOn | Segments: InitReturns, EverySegmentListed, SeekAnswered |
| `delivery` | PipelineSound | Pipeline: PipelineTypes, ReadyWhileRunning, ReleasedAtEnd, CrashCauses |
| `delivery` | ViewersServed | ProxyFanout: ClosedOnce, ServedOrTold, DeliversOwn, ActivityHonest |
| `delivery` | SourceReadRight | Demux: ReadsOpenInput, PositionsAfterSeek, EndIsNoError, EndsReleased |
| `delivery` | ForwardOnly | Demux: NeverBackInTime, BestTrackRead; Tail: NothingOlder |
| `delivery` | EverythingEnds | Pipeline: CancelledEnds; ProxyFanout: UpstreamReleased; Demux: CancelEnds; Tail: ReadersEnd; Scheduler: EventuallyResolved, ScheduledRecordingEnds |
| `household` | AccountsSound | Accounts: InviteUsedOnce, ClaimsLagBounded, DeletedIsFinal, OneUserPerName |
| `household` | StoresSound | Profiles: OneOfEachSystemProfile, NoTwinClientProfiles, OwnProfileKept, NotModifiedIsCurrent; Settings: SourceNamesUnique, DebugFlagFollows; Backup: RestoreResolves, RestoreComplete, ImportPlaces |
| `household` | TunersServed | TunerDevices: NoLeakedListener, ServersFollowDevices, AutoPortsDistinct, RefusedByRival |
| `household` | FilesSound | Favorites: FileIsCache, FavoritesKept, ListsFavorites; HdhrSources: AlwaysLoads, FileIsCurrent; ScheduleFile: LoadsUnlessCut, BookingsSaved, NoDoubleBooking |
| `household` | OthersKept | Backup: ImportKeeps; HdhrSources: LinksFreeTuners |
| `clients` | JellyfinSound | JellyfinLibrary: PagesAddUp, EpisodesReachable, IdsResolve, LatestAreNewest, CurrentIsListed; JellyfinServer: TokenIsItsUsers, SegmentsWhole |
| `clients` | RecordingsKept | RecordingLibrary: OnlyOwnersPlay, KeptUntilDeleted, SessionKept |
| `clients` | ListsAgree | Publish: GuideMatchesPlaylist, TreeIsLineup, PagesComplete, ItemsResolve |
| `clients` | PlaysAsTold | Playback: PlayableOutput, DeliveryAsTold, WatchesAsked, ListedViewersWatch |
| `clients` | TunnelSound | WireGuard: NoLeakedTunnel, SettledIsCurrent, ExitAddressCurrent |
| `clients` | TunnelsSound | WireGuardMulti: ActiveRoutes, NoTunnelLost, DirectIsLastResort, ProxiesActiveTunnel, OneListener |
| `catalogue` | IndexesAnswer | StreamBolt: SameAnswers, CountCovers |
| `catalogue` | IndexedAnswers | StreamIndexed: IndexDescribesRecords, ListIsSnapshot |
| `catalogue` | GuideSound | Guide: IndexesAgree, OneEntryPerChannel, NoOrphanPrograms, NoGhostSource |
| `catalogue` | ChangesKeep | Ingest: EtagMeansLoaded, RoutedAsAccount, ChannelsRefer, NoEmptiedChannel, OnlyOwnersDelete, KeepsWhatExists; Lineup: OneLogoPerURL, LogosRefer, OthersUntouched, EditKeepsStreams |
| `catalogue` | MetadataSound | Metadata: ManualKept, ResolvedHasMetadata, CollectionsKnown, EpisodesSurvive, OneSync, LookupFollowsManual |

`Segments.cfg` with both tracks and one seeker (`Tracks = {"video", "audio"}`,
`Polls = {1}`, no leftover) passes too, with 113,644 states; both tracks and two
seekers are too many.

Deadlock is not checked anywhere: every instance comes to rest when its
identities and requests have been used; that nobody waits for ever is stated by
the liveness properties.

Each of the following runs refutes what a document of the repository says:

| Run | The claim | What the code does |
|---|---|---|
| `session_recording_kept` | RECORDING-DESIGN.md:112, a recording goes on when the viewer leaves | a recording that joins after RemoveConsumer's check is torn down |
| `recording_saved` | RECORDING-DESIGN.md:116, stopping preserves the file | completion asks for a file nobody writes |
| `segments_fresh` | FIXES.md:379, the generation invalidates old segments | a request of the new generation gets an old segment |

Properties that hold name their exceptions, and the exceptions are behaviours of
the code that a reader should know of. The models contain them all:

* a session leaves the map before its pipeline has stopped, so two pipelines of
  a channel can run side by side (README.md:24 says one): ImplementsLifecycle
  speaks of live sessions, not of pipelines;
* another session of the stream removes the shared directory with the output of
  a recording in it (`manager.go:212`), and `meta.json` of a recording channel
  is rewritten as an active one or removed, so RecoverRecordings does not find
  it after a restart (`manager.go:471`);
* a seek that exchanges the done channel while a dead session is being replaced,
  after the cancel, leaves the manager's lock held until the new pipeline ends,
  or for ever if the channel waited for is the one exchanged (`manager.go:124-125`,
  `377-379`; LockReleased: Overtaken);
* a timer closure that has started stops whatever the channel records by then;
* the end of one schedule stops a recording that another user's longer schedule
  relies on, and two requests at once are both accepted although they overlap
  (`raced`; pkg/openapi/spec.yaml:1568);
* a pipeline that is reset after it was stopped keeps a resampler for good, and
  a muxer whose Reset failed is used by the next packet (CrashCauses);
* a seek that meets a full channel is refused, which is only logged, and the
  client is told 200 (SeekBumped);
* two first viewers of a channel replace each other's connection: the older loop
  finds the newer connection in the map, and may close a client's channel a
  second time, which panics (`overlapped`, `stranded` in ProxyFanout);
* a WebM profile whose audio codec the source already has gets aac, and one that
  scales a source nobody has probed gets H.264; an AV1 source that is scaled by a
  copying profile goes into a transport stream (PlayableOutput);
* files of one name share a session (WatchesAsked), and so do two recordings of
  one base name their metadata; metadata that could not be written leaves what was
  there (OnlyOwnersPlay: `faulted`);
* a completion removes the active directory of whoever records there by then, a
  recording that began after the stop gave its lock back or that another channel
  makes of the stream (`vod_recording.go:129-130`, `recording.go:260`), and so does
  RecoverRecordings that of one that began while the program started
  (`vod_recording.go:262`; SessionKept: `crossed`); two completions that look for a
  free name at once choose the same, and the later overwrites the other's file
  (KeptUntilDeleted: `collided`); one that finds nothing to move leaves the directory
  behind (GiveUp);
* an unknown token is registered to the first user (TokenIsItsUsers names the
  lost file, after which that is what happens to every client);
* the items below a season (`Items?parentId=<season>`) are the episodes of every
  season of its series (`pkg/jellyfin/vod.go:88-90`, `392-407`), so a client that
  goes through the seasons in this way is told each episode once per season
  (EpisodesReachable: `narrowed`);
* a refresh token is accepted as a bearer token, so a claim of administration may
  lag by its lifetime (ClaimsLagBounded says by the lifetime of the token at hand,
  `middleware/auth.go:54-93`);
* a channel whose group was deleted is in playlist and lineup but in no
  container of the tree (TreeIsLineup);
* the ETag of a playlist is stored before it has been read, so one that cannot be
  parsed, or whose streams cannot be stored, is not asked for again until it
  changes (EtagMeansLoaded: `unloaded`);
* a listing of films or series that cannot be had counts as empty, and a mux that
  the discovery hears nothing of is no part of the scan, nor is a scan that hears
  none at all an error: the refresh deletes their streams and takes them out of the
  channels (`m3u.go:172-184`, `discover.go:143-148`, `scanner.go:14-17`,
  `satip.go:222-240`; OnlyOwnersDelete: `missed`). Kept are the streams of a mux that
  was heard and is silent when it is scanned, unless its frequency is no whole
  number: the scan's key is rounded and the URL's is not (`seeds.go:31-37`,
  `satip.go:309-332`);
* nothing keeps two hard resets apart, or a reset and a request: while the defaults
  are seeded call by call, a client profile can be made twice under one name
  (NoTwinClientProfiles: `crowded`);
* deletions of whole sources leave their streams in channels, and so does the
  clearing of a SAT>IP source for a stream that is stored while it runs
  (`satip.go:280`, `290`; ChannelsRefer: `excused`); a stream that is stored anew
  between its deletion and the clean-up is taken out of the channels although it
  exists (KeepsWhatExists: `revived`);
* two refreshes of a guide source at once leave programmes nothing deletes
  (NoOrphanPrograms), two Reconfigures at once a tunnel nothing closes
  (NoLeakedTunnel), two syncs at once a progress beyond its total (OneSync);
* a tunnel that fails while the program starts is not tried again until its
  settings change (SettledIsCurrent); reconnected tunnels are closed in the pool
  for good (ProxiesActiveTunnel). A direct success makes the direct connection
  the preferred one, and so does a tunnel with more than a thousand failures
  (DirectIsLastResort: `rescued`, `worn`);
* a tunnel that is closed, or cannot reach a host, does not fail for the pool: its
  proxy answers 502, which counts as a success, resets the tunnel's fail count and
  is returned without a try of the others (`wgproxy.go:57-61`, `wgpool.go:71-86`;
  DoSucceeds). Failures are an answer 403 and a sender that has left. What a profile
  does not route (private hosts, hosts not on its list) its entry sends directly
  (`transport.go:87-98`), so DirectIsLastResort is about hosts that every tunnel
  routes;
* the favourites' file is overwritten in place and a load ignores what it cannot
  parse, so a stop in mid-write loses every favourite of the user without a word
  (`pkg/store/favorite.go:44-48`, `60`; FavoritesKept: `lost`, Torn);
* a rebuild of the bolt indexes that a crash cuts short is not repeated
  (SameAnswers); files that are overwritten in place may be cut (LoadsUnlessCut,
  TokenIsItsUsers), and two saves of the HDHomeRun sources at once write one
  temporary file (AlwaysLoads);
* a row that was read before an edit and written after it undoes the edit
  (InviteUsedOnce, ManualKept, LinksFreeTuners, OneUserPerName for the missing
  check of names);
* a port that is taken is not tried again (RefusedByRival).

## 4. Fairness

Only goroutines of the process that have something to do are fair; users never
are, and crashes need not happen.

* SessionManager: a call of RemoveConsumer or a replacement that has begun, every
  teardown, a pipeline that opens (the demuxer has a timeout) and one that is
  cancelled. Restarts are left out of `session_sharing`: with them the wrong
  done channel may be closed, and a teardown need not end. LockReleased, which is
  about one such wait, is checked with them in `session_restart` and names the
  order in which it fails (Overtaken). That run has GoingSpec: some goroutine goes
  on while one can (one fairness condition where FairSpec has one for each).
  Consumers, sessions and restarts are used once, so the goroutines have finitely
  many steps to take, and in the end each has taken those it can.
* Recording: the clock, the second half of a start, the steps of a stop.
* Scheduler: the clock, the ticker's goroutine and what it calls, the auto-stop;
  a request may stall anywhere. EventuallyResolved is claimed while the process
  stays up.
* Pipeline: the constructor's steps, the look at the context in every turn of the
  loop, the stop after it. Reads return, by packet, end, error or timeout.
* Demux: the session's goroutine; reads return as above.
* Tail: the goroutine of each viewer's request. Nothing makes a session end:
  ReadersEnd speaks of those that have ended.
* ProxyFanout: the steps of each viewer's request and of each loop.
* Segments: the read goroutine takes and finishes seeks, the watcher's goroutine
  handles its queue.

In `delivery` these conditions are stated for the component in focus. The other
components have safety properties only: their requests end or fail with their
caller, and nothing in the code promises when.

## 5. What is proved

Eight modules hold theorems about twenty others, for every value of the
constants that their assumptions allow. Each follows the same line: an inductive
invariant (`IInv`, or `TailIInv`, `GuideIInv`, ... where a module is about several
components), which TLC has checked on the instance of the run; the initial states
have it; a lemma per action or per conjunct that the action can disturb; it
implies the property that the run checks.

| Module | Theorem | States |
|---|---|---|
| `SessionManagerProofs` | TypeCorrect, MapCorrect, EmptyCorrect | TypeOK, MapHoldsTheLive, EmptyIsReclaimed are invariants |
| | Refinement | SessionManager implements the safety part of SessionLifecycle |
| | CleanupCorrect | with `MaxGen = 0`, CleanedAfterPipeline is an invariant |
| `RecordingProofs` | RecorderCorrect | RecorderInvariant is an invariant |
| | ContractKept | Recording implements RecordingContract |
| `SchedulerProofs` | ScheduleCorrect | ScheduleInvariant is an invariant |
| | DeletedStays | the action property DeletedIsFinal |
| `SegmentsProofs` | SegmentsCorrect | SegmentsInvariant is an invariant |
| | NumbersKept | the action properties of NumbersStay |
| `DeliveryProofs` | PipelineIsSound | PipelineSound is an invariant of Pipeline |
| | ViewersAreServed | ViewersServed is an invariant of ProxyFanout |
| | ReadersReachTheEnd, SeeksAreHeeded | ReadToTheEnd is an invariant of Tail; the action property NothingOlder |
| | SourceIsReadRight, TimeGoesOn | SourceReadRight is an invariant of Demux; the action property NeverBackInTime |
| `HouseholdProofs` | AccountsCorrect | AccountsSound is an invariant of Accounts |
| | TunersAreServed | TunersServed is an invariant of TunerDevices |
| | FilesAreSound | FilesSound is an invariant of MCHousehold (Favorites, HdhrSources, ScheduleFile) |
| `ClientsProofs` | PlayIsAsTold | PlaysAsTold is an invariant of Playback |
| | TunnelIsSound | TunnelSound is an invariant of WireGuard |
| | TunnelsAreSound | TunnelsSound is an invariant of WireGuardMulti |
| | RecordingsAreKept | RecordingsKept (an invariant and two action properties) holds of RecordingLibrary |
| `CatalogueProofs` | ReadersAreRight | IndexesAnswer is an invariant of StreamBolt |
| | WritesAreRight | StreamBolt implements StreamStore, unless a rebuild was cut short |
| | IndexIsRight | IndexedAnswers is an invariant of StreamIndexed |
| | RecordsAreAStore | StreamIndexed implements StreamStore |
| | GuideIsSound | GuideSound is an invariant of Guide |

**SessionManager**, from `ConstantsAssumption` (recorders are consumers, the
segmented sessions are sessions, `DirOf` maps keys to directories, `None` is
neither a key nor a session, `MaxGen` is a natural number). The inductive
invariant is `TypeOK /\ MapHoldsTheLive /\ EmptyIsReclaimed /\ LocalsOK`.
LocalsOK says what the goroutines' local variables are worth between two critical
sections: a caller that replaces a session holds the lock, alone, and the entry
of its key is empty; a caller that has found or emptied a session holds one that
was created; a spawned stopAndCleanup has a session. Without it MapHoldsTheLive
is not inductive, since a replacement writes the map from what it read earlier.
`Refinement` maps the map to `live` and each session's `keyOf` and `teardown` to
its status; every action opens, closes or finishes sessions or is a stutter.
`CleanupCorrect` adds `DoneInv`: a closed done channel means an ended pipeline,
and a session that is gone had its channel closed. With restarts the property is
false: a late markDone of the old pipeline closes the channel the teardown waits
for.

**Recording**, from `RecordingAssumption` (durations are natural numbers, the
clock is bounded, `None` is not an entry). A stop clears timers and consumers by
the recording's identity, so the invariant adds IdsOnce, that an identity (a
fresh uuid) belongs to one recording, and StartAlone, that between the two halves
of a start the channel is free and the new identity is nowhere else: without
them the stop of one recording could take the timer or the consumer of another.
`ContractKept` takes the map of recordings as it is and the channels that have a
session; StartBegin is at most a session that comes, StartFinish the contract's
Start, StopBegin its Stop, whatever the code does in between a change of the
sessions or a stutter.

**Scheduler**, on top of RecordingContract, from `SchedulerAssumption` (the
identities are the schedules' and one for what no schedule started; programmes
and margins are natural numbers and end within the clock). A call marks its
schedule some steps before it starts the recording, and the schedule may be
deleted, failed or completed in between. MarkedBeforeCalled says that it never
becomes pending again, and RequestsKnown that whoever works on a schedule works
on one that was created; DeletedStays needs the second, since a late update
writes only a row that is there.

**Segments**, from `SegmentsAssumption` (video, audio or both; finitely many
seekers; the bounds are natural numbers). Two arguments meet in the read
goroutine. SeekOrder counts seeks: a seek raises the generation once, between its
taking and its answer, and no more are taken than were asked for, so the answer
is later than the request. For the numbers, NumbersOnward says that what this
pipeline has written is below the number it writes next, Listed that the index
lists files, and Queue that the fsnotify events of a track are in the order of
its numbers and, in a directory that was empty, after all that the index has:
that is why the index grows at its end, though addSegment sorts it.

**Pipeline**, from `PipelineAssumption` (jobs are of the seven kinds, the bound is
a natural number). `Acquired(j, n)` is what the first steps of a job's constructor
open. BuildingRight says that a constructor at work holds just that, or has
dropped the audio and is about to make the muxer; ReadyRight what a pipeline that
was built has, and that it is alive until it is stopped; StoppedRight that a
stopped one has nothing but what a late reset made. That a constructor opens each
part once and closes on failure all it has is checked for each of the seven lists
of steps by itself (ConstructorRight): the lists are literals, so no induction over
them is needed.

**ProxyFanout**, from `ProxyAssumption` (the tries are a natural number, `None` is
no connection). The property excepts the behaviours in which a connection is
opened before the one before it has ended (`overlapped`), so the invariant has a
part for all behaviours (types, what was looked up, that a loop's opener is past
its opening) and a part `Sole` while `~overlapped`: one connection is alive, each
loop has found its own, the one that is being opened is in the map, nobody is
told before it is a client or twice by one that works, and a loop at its end has
only clients that came too late. ServedOrTold alone is not inductive: leaving,
notifying and joining look the connection up and use it later.

**Tail**, without an assumption. Following says that a reader is within the file
and that what it has still to read is not older than the seek it has seen; a write
carries its seek version, and WritesKnown that none is of the future. NothingOlder
follows, since a read moves the position of one reader only.

**Demux**, from `DemuxAssumption` (positions and offsets are integers). Onward is
the point: the packet that was read, and the next one the input will give, are not
behind the last one pushed unless the sink was reset or the source reopened since;
it takes the time base into account, which is set by the first packet and cleared
by a seek. Positions says that after a seek time stamps are positions, Reasons why
a goroutine ended, InputOpen in which phases there is an open input and a sink.

**Accounts**, from `AccountsAssumption` (ids are numbers given in order, there
is a name and a password, lifetimes are natural numbers). A request writes back
the row it read, so the invariant relates the copies that requests hold to the
store: InvitationSpent (after the acceptance nobody holds a copy that could
accept again), AdminsKnown (the administrators in the store, in the copies and in
the tokens), NamesKnown (a copy has the name of its row unless that was renamed),
FreshIds (an id that was not given is nowhere).

**TunerDevices**, from `TunerAssumption` (ids and ports are numbers, finitely many
ids). A port is chosen in one critical section and stored in another: PortsAbove
says that a port on its way to the store is above those of all other rows,
PortsKept that a row on its way back has the port it was read with, which keeps
the automatic ports distinct. The worker's sync works on a copy of the rows:
Follows relates the servers to the copy that was applied last, Snapshots says that
copies were taken from rows with distinct ports.

FilesAreSound is about `Spec` of MCHousehold, whose behaviours are each of one
component, so its invariant is the three components' invariants side by side.
`FilesAssumption` asks for finitely many requests and tuners, for bounds and slots
that are numbers, and that a nil pointer is neither a request nor a value.

* **ScheduleFile.** Unmixed, while no reset has saved beside another save: one save
  at a time is past its encoding, the file is cut only while it writes, and rows that
  differ from the file are rows that it has encoded or that somebody has still to
  encode. Unraced, until a request has created a row that another one's check had
  missed: memory, the file and the data on its way to it are without overlap, so a
  start after a crash has none either.
* **HdhrSources.** Who opens the temporary file anew finds an inode that nobody has
  (FreeInode, by counting), so the temporary file is never the file itself,
  however saves overlap. Uncrossed, while they do not: the temporary file is what
  the one save wrote, and a change that is not saved has somebody who still takes a
  snapshot.
* **Favorites.** The cache and the readers have slices of the same arrays. Reading
  says of each reader which places hold what: an addition writes behind every slice
  that no removal has shortened, and a removal in place moves favourites of the
  reader's time only. What a change writes is what the slice shows after it
  (SaveKeeps), unless the write failed (`unsaved`); FavoritesKept follows until the
  program stops then (`lost`).

**Playback**, from `PlayAssumption` (a channel's streams are streams; streams,
channels and recordings have different keys). Whatever source, profile and kind of
request, the options a session is started with can be played (OptsPlayable): that
part is about the operators of strategy and composition, case by case. The
invariant is about the rest: a session's source is of its key, a viewer's request
is of the key under which it looked for a session, and a session that a viewer
knows was started, so one that took its place has another number.

**WireGuard**, from `TunnelAssumption` (`NoTunnel` is no number). The properties
except behaviours in which two actors worked at once (`overlapped`). Until then
one actor at most is at work (OneAtWork), Stage says what it has done so far, and
Service what the fingerprint of the last connection tells about the tunnel.

**WireGuardMulti**, from `MultiAssumption` (profiles are listed once, `Direct` and
`NoEntry` are no profiles). OneHolder holds in every behaviour: a tunnel that is up
has one holder, a profile or the goroutine that has just made it, so closing one
profile's tunnel closes nobody else's. Undisturbed holds until two goroutines have
connected one profile (`tunnelsOverlapped`): each open tunnel is held, the active
profile is up, and the pool's entry of a profile has its tunnel until the profile is
disconnected. Requests of the pool share only the entries with that. Fail counts are
read without the lock, so a request need not end up with a sorted list: Sorting says
that it has each entry it has reached once, and Trying that the direct connection is
last, which only needs that no tunnel has more failures than that began with when
the direct connection is inserted; each entry is among the failed or the left. For
a host that all tunnels route, only the direct entry is sent directly.

**RecordingLibrary**, from `LibAssumption` (the bound is a natural number).
NameTaken: the name that a completion has chosen is free until its file is there,
and then nobody else's, unless two chose it (`collided`). MetaRight: the metadata of
a file whose completion is through is its owner's, unless the name is `faulted`; a
write of metadata faults the names it shares it with. Together: recordings under way
beside each other, or beside a recovery, are `crossed`, so a completion that removes
the directory of one that is not crossed is its own. LaterSession: a recording found
in a directory that is about to be removed began after the deletion looked, which is
the other exception of SessionKept.

**StreamBolt**, from `StreamAssumption` (finitely many ids, what the feed brings
is a stream, `None` is none). The indexes are ready when they are `EntriesOf` all
streams and the group tree counts them (`Exact`); a removal takes out exactly
what was put in, and Incremented and Decremented say that counts of disjoint sets
add up. A rebuild is several transactions: Wiping and Filling say how much is
there after each, and Loading that a start finds either a reason to rebuild or
the right indexes. A rebuild begins when there are streams and no groups, and the group
tree is wiped last, so a crash in the wipe is seen by the next start; the fill
puts groups there at once, so a crash in it is not, which is the exception
`cutShort`. WritesAreRight follows: while the store is ready what a write finds
through an index (ListedIn) is what a scan finds (OfSource, OrphansOf), so each
write is the plain store's.

**StreamIndexed**, from `IndexedAssumption` (the bound is a natural number, `None`
is neither an entry nor a list of records). Every entry of the index points at the
record it summarises, and so do the entries that a List has taken, until the
records are moved. Rewriting the file keeps, of the records that are in use, one
for each stream: that the index which Load makes of them is the one there was needs
the last record of a stream, which exists because numbers have a greatest element
below a bound. RecordsAreAStore then goes action by action: what is found through
the index is what the plain store's map has.

**Guide**, from `GuideAssumption` (slots are numbers, `Absent` is neither an id nor a
record). The indexes are right entry by entry in every state (StoreRight), and what
was saved is of one entry per channel (FileRight), so a start has a store to begin
with. OneWorks says what a refresh that works alone knows of the entries it fills,
NoneLeftBehind that a source whose row is about to go has none left; both name
their exception (`overlapped`, `reborn`).

Where a proof needs an element that is least or greatest in a finite set, it takes
a minimal counterexample by a well-founded order of the library (numbers, or
finite sets by inclusion), since the induction theorems themselves cannot be used.

What the assumptions ask is true of the program: sets of goroutines, ids and rows
that exist at a time are finite, a nil pointer or a missing map entry is not a
value, uuids are not used twice. TLC evaluates each of them in the runs.

Only model-checked, and why:

* all liveness and what needs ENABLED: outside the prover's reach. So are
  LockReleased, EmptyIsRemoved, ImplementsFairLifecycle, RecorderReleased, GoesOn and
  EverythingEnds;
* what is computed by induction over data: BestTrackRead (the best of a list of
  tracks), the pages and sorted listings of JellyfinLibrary, Publish and Metadata,
  ImportPlaces (an import is a function that is recursive over its file);
* JellyfinServer, Ingest, Lineup, Profiles, Settings and most of Backup: in the
  prover's reach but not proved (StoresSound, OthersKept, ChangesKeep and the
  second half of JellyfinSound);
* CleanedAfterPipeline with restarts, which is false, and the refuted claims.

## 6. Abstractions and omissions

* Names, times, URLs and file contents are identities, places in an order, or
  the properties the code looks for in them. A hash is a constant function that
  maps two of the names to one value.
* Data races the code has (unlocked fields, slices shared after an unlock) are
  steps that interleave at any point.
* SessionManager leaves out a session's error, which no decision of the manager
  depends on. Its pipeline is four states; Pipeline and Demux say what happens
  inside, and Playback uses the manager as one step; the correspondence of these
  interfaces is by name and not by a stated refinement.
* Segments: a failed SeekTo is followed by the same steps as one that worked and
  is not told apart; a flush always produces a file; names sort as numbers, which
  holds up to 9999; the kernel's event queue does not overflow.
* Pipeline: subtitles are dropped by every pipeline and are not modelled.
* Demux: every frame is a keyframe. Follow, a cached StreamInfo and the tee are
  never used by the program.
* JellyfinServer: a web player's seek, which resets the muxer of a session that
  a Jellyfin player shares, is left out.
* StreamBolt: which keys of the name bucket contain a query, and their order, are
  constants; the texts of index keys are sequences, so a separator inside a name is
  not modelled. BoltCrash is the end of the process: the file is opened without
  sync and synced by Save only (`stream_bolt.go:42`, `572`), so nothing is said of
  what a machine that stops leaves in it. ClearAutoTMDB of
  a hard refresh appears in the stream stores and not in Ingest.
* Accounts: ClearAndSave of resets and restores is left out (Backup has it as one
  step; ScheduleFile models that it saves after it has given the lock back).
  A users.json that was cut in mid-write is refused by the next start, which is
  fatal, so the restarts of Accounts find whole files.
* Guide: ids are given out in order, so that behaviours that differ in random
  ids only are one.
* Ingest: accounts and sources exist from the start in the set-ups given; their
  creation only writes a row. An enrolment, which writes the account's row a second
  time, is left out. Of a batch-wise store call, what is stored before it fails is
  any part of the listing. The Xtream account gets four requests, the others three.
* Backup: settings, logos, accounts, guide sources and devices are copied like
  the rows that are modelled.

### Not modelled

* Legacy HLS sessions (`pkg/hls`): main creates the manager and its clean-up
  worker, and nothing asks it for a session.
* Codec libraries, media helpers, muxer internals: native code and parsing; what
  of them matters to other components (allocation, failure) is in Pipeline.
* The HTTP layer, formats and the web UI; image caches; scanners that run as
  tools; migrations and configuration: no state that a step of another actor
  meets.
* Worker manager and shutdown: goroutines started in a row and cancelled by one
  context. Discovery: announces rows; its advertisers follow the device rows by
  the loop that TunerDevices models.

## 7. Plan

The modules of the plan are written, and of the 24 invariants that the runs check
20 are proved, with the two refinements of the stream store, those of the session
lifecycle and the recording contract, and five properties of steps. Next are, in
this order: Ingest's ChannelsRefer and NoEmptiedChannel; Profiles; JellyfinServer's
TokenIsItsUsers. None of these modules uses a RECURSIVE operator.
