--------------------------- MODULE MCHousehold ---------------------------
(***************************************************************************)
(* What the users of one server keep in it, and the requests that change   *)
(* it: users, tokens and invitations, stream profiles and clients,         *)
(* settings, favourites, tuner devices, HDHomeRun sources, the schedule's  *)
(* file, backups. Each has stores, locks and files of its own, so each     *)
(* behaviour is one of the component in focus, and the others stay as they *)
(* begin.                                                                  *)
(***************************************************************************)
EXTENDS Accounts, TunerDevices, Sequences, TLC

CONSTANTS
  Items, Readers,                  \* what can be a favourite, and who lists them
  Tuners, SourceNames, MaxSources, \* HDHomeRun tuners and sources
  Slots, MaxBookings               \* what can be booked, on one channel

ASSUME FilesAssumption ==
  /\ IsFiniteSet(Handlers) /\ None \notin Handlers /\ IsFiniteSet(Tuners)
  /\ MaxSources \in Nat /\ MaxBookings \in Nat
  /\ Slots \subseteq Nat \X Nat
  /\ None \notin [array : Nat, len : Nat]
  /\ None \notin [slice : [array : Nat, len : Nat], was : SUBSET Items, since : SUBSET Items, moved : BOOLEAN]

\* The slots of three overlapping broadcasts.
Broadcasts == {<<1, 3>>, <<2, 4>>, <<3, 5>>}

MCGroupSets == {{}, {"g"}}

VARIABLES
  focus,  \* the component this behaviour is about
  used,   \* the requests made so far
  profiles, clients, profileFile, clientFile, profilesNext, profilesHandler, boot,
  rev, view, unbumped, excused, crowded,
  settingsSources, stored, debug, setter, apart, settingsRenamed,
  arrays, cache, favoritesFile, reader, answers, wanted, unsaved, lost,
  hdhrSources, ids, disk, content, hdhrHandler, crossed, hdhrLoaded,
  rows, made, lock, scheduleFile, scheduleHandler, raced, mixed, cut, scheduleLoaded,
  db, backupNext, job, saved, exported, making

P == INSTANCE Profiles WITH
  SystemNames <- <<"Direct">>, DefaultNames <- <<"Browser">>, UserNames <- {"x", "Browser"},
  MaxIds <- 9, MaxRev <- 4, next <- profilesNext, handler <- profilesHandler
S == INSTANCE Settings WITH
  SeededNames <- <<"IPTV", "HDHomeRun", "VOD">>,
  EnsuredNames <- <<"HDHomeRun", "VOD">>, UserNames <- {"x", "VOD"}, MaxRows <- 4,
  sources <- settingsSources, renamed <- settingsRenamed
F == INSTANCE Favorites WITH
  file <- favoritesFile
H == INSTANCE HdhrSources WITH
  Devices <- Tuners, Names <- SourceNames, sources <- hdhrSources,
  handler <- hdhrHandler, loaded <- hdhrLoaded
C == INSTANCE ScheduleFile WITH
  MaxRows <- MaxBookings, file <- scheduleFile, handler <- scheduleHandler,
  loaded <- scheduleLoaded
B == INSTANCE Backup WITH
  Names <- {"a", "b"}, Owners <- {"", "u"}, StreamSets <- {<<>>, <<"s1">>},
  MaxId <- 8, next <- backupNext

profilesVars == <<profiles, clients, profileFile, clientFile, profilesNext,
  profilesHandler, boot, rev, view, unbumped, excused, crowded>>
settingsVars == <<settingsSources, stored, debug, setter, apart, settingsRenamed>>
favoritesVars == <<arrays, cache, favoritesFile, reader, answers, wanted, unsaved, lost>>
hdhrVars == <<hdhrSources, ids, disk, content, hdhrHandler, crossed, hdhrLoaded>>
scheduleVars == <<rows, made, lock, scheduleFile, scheduleHandler, raced, mixed, cut,
  scheduleLoaded>>
backupVars == <<db, backupNext, job, saved, exported, making>>

vars == <<focus, used, accountVars, profilesVars, settingsVars, favoritesVars, deviceVars, hdhrVars, scheduleVars, backupVars>>

Init ==
  /\ focus \in {"accounts", "profiles", "settings", "favorites", "devices", "hdhr", "schedule", "backup"} /\ used = 0
  /\ AccountsInit
  /\ P!ProfilesInit
  /\ S!SettingsInit
  /\ F!FavoritesInit
  /\ DevicesInit
  /\ H!HdhrInit
  /\ C!ScheduleInit
  /\ B!BackupInit

\* A request of the component in focus, of which there are at most bound.
Request(bound) == used < bound /\ used' = used + 1

AccountsNext ==
  /\ focus = "accounts"
  /\ \/ AccountsSteps /\ UNCHANGED used
     \/ Request(5) /\ AccountsRequests
  /\ UNCHANGED <<focus, profilesVars, settingsVars, favoritesVars, deviceVars,
       hdhrVars, scheduleVars, backupVars>>

ProfilesNext ==
  /\ focus = "profiles"
  /\ \/ P!ProfilesSteps /\ UNCHANGED used
     \/ Request(4) /\ P!ProfilesRequests
  /\ UNCHANGED <<focus, accountVars, settingsVars, favoritesVars, deviceVars,
       hdhrVars, scheduleVars, backupVars>>

SettingsNext ==
  /\ focus = "settings"
  /\ \/ S!SettingsSteps /\ UNCHANGED used
     \/ Request(5) /\ S!SettingsRequests
  /\ UNCHANGED <<focus, accountVars, profilesVars, favoritesVars, deviceVars,
       hdhrVars, scheduleVars, backupVars>>

FavoritesNext ==
  /\ focus = "favorites"
  /\ \/ F!FavoritesSteps /\ UNCHANGED used
     \/ Request(5) /\ F!FavoritesRequests
  /\ UNCHANGED <<focus, accountVars, profilesVars, settingsVars, deviceVars, hdhrVars,
       scheduleVars, backupVars>>

DevicesNext ==
  /\ focus = "devices"
  /\ \/ DevicesSteps /\ UNCHANGED used
     \/ Request(4) /\ DevicesRequests
  /\ UNCHANGED <<focus, accountVars, profilesVars, settingsVars, favoritesVars,
       hdhrVars, scheduleVars, backupVars>>

HdhrNext ==
  /\ focus = "hdhr"
  /\ \/ H!HdhrSteps /\ UNCHANGED used
     \/ Request(3) /\ H!HdhrRequests
  /\ UNCHANGED <<focus, accountVars, profilesVars, settingsVars, favoritesVars,
       deviceVars, scheduleVars, backupVars>>

ScheduleNext ==
  /\ focus = "schedule"
  /\ \/ C!ScheduleSteps /\ UNCHANGED used
     \/ Request(4) /\ C!ScheduleRequests
  /\ UNCHANGED <<focus, accountVars, profilesVars, settingsVars, favoritesVars,
       deviceVars, hdhrVars, backupVars>>

BackupNext ==
  /\ focus = "backup"
  /\ \/ B!BackupSteps /\ UNCHANGED used
     \/ Request(4) /\ B!BackupRequests
  /\ UNCHANGED <<focus, accountVars, profilesVars, settingsVars, favoritesVars,
       deviceVars, hdhrVars, scheduleVars>>

Next == AccountsNext \/ ProfilesNext \/ SettingsNext \/ FavoritesNext \/ DevicesNext \/ HdhrNext \/ ScheduleNext \/ BackupNext

Spec == Init /\ [][Next]_vars

Symmetry == Permutations(Handlers) \cup Permutations(Tuners)

-----------------------------------------------------------------------------
\* After starts, crashes, resets and edits in any order each system profile
\* and source profile is there once, seeding leaves no profile of a cut
\* attempt, a client keeps the profile made with it, and neither a browser's
\* copy of a list nor the debug flag is out of date. After a restore of a
\* backup that nobody disturbed every reference resolves that did before, and
\* the rows are those there were; after an import each exported channel is
\* there, a new one in the group of the exported name. (Profiles, Settings,
\* Backup, with the exceptions they name.)
StoresSound ==
  /\ focus = "profiles" =>
       /\ P!OneOfEachSystemProfile
       /\ P!NoTwinClientProfiles
       /\ P!OwnProfileKept
       /\ P!NotModifiedIsCurrent
  /\ focus = "settings" =>
       /\ S!SourceNamesUnique
       /\ S!DebugFlagFollows
  /\ focus = "backup" =>
       /\ B!RestoreResolves
       /\ B!RestoreComplete
       /\ B!ImportPlaces

\* The files of favourites, HDHomeRun sources and bookings are what memory
\* holds when nobody saves and no save has failed. Those of the sources can be
\* loaded whenever the program stops; those of bookings and favourites unless it
\* stopped while it wrote them: then the bookings are refused, and the
\* favourites, which are otherwise what the user made them, are lost. A list shows
\* favourites of one moment, and no two live bookings of a channel overlap.
\* (Favorites, HdhrSources, ScheduleFile, with the overlaps and crashes they
\* name.)
FilesSound ==
  /\ focus = "favorites" =>
       /\ F!FileIsCache
       /\ F!FavoritesKept
       /\ F!ListsFavorites
  /\ focus = "hdhr" =>
       /\ H!AlwaysLoads
       /\ H!FileIsCurrent
  /\ focus = "schedule" =>
       /\ C!LoadsUnlessCut
       /\ C!BookingsSaved
       /\ C!NoDoubleBooking

\* An import leaves alone what is there, and linking the tuners found on the
\* network takes none from another source, when no other request came in
\* between. (Backup, HdhrSources.)
OthersKept ==
  /\ B!ImportKeeps
  /\ H!LinksFreeTuners

=============================================================================
