------------------------------- MODULE Backup -------------------------------
(***************************************************************************)
(* Backup and restore (service/backup.go) and export and import            *)
(* (service/export.go).  A backup lists one store after the other while    *)
(* users go on working; a restore clears all stores and creates the rows   *)
(* anew, store by store.  Rows refer to each other by id, which a backup   *)
(* keeps and an export replaces by names; a channel's id is made of its    *)
(* name and owner whenever it is created.  Settings, logos, accounts,      *)
(* guide sources and tuner devices are copied in the same way and are left *)
(* out, as are the further stores of a full export.                        *)
(***************************************************************************)
EXTENDS Naturals, Sequences, FiniteSets, SequencesExt, Functions

CONSTANTS
  Names,      \* names of groups, channels and clients
  Owners,     \* users, and "" for a channel that nobody owns
  StreamSets, \* sequences of streams a channel is given
  MaxId       \* bounds the ids ever made

VARIABLES
  db,         \* the stores
  next,       \* the next id
  job,        \* the backup, restore, export or import that is running
  saved,      \* the last backup
  exported,   \* the last export
  making      \* a client whose profile is made and which is not yet

backupVars == <<db, next, job, saved, exported, making>>

NoData == [users |-> {}, profiles |-> {}, clients |-> {}, groups |-> {}, channels |-> << >>, recs |-> {}]
NoJob == [pc |-> "idle", data |-> NoData, from |-> NoData, clean |-> TRUE]
NoSaved == [made |-> FALSE, clean |-> FALSE, data |-> NoData, from |-> NoData]
NoExport == [made |-> FALSE, clean |-> FALSE, groups |-> {}, channels |-> << >>]
NoClient == [name |-> "", profile |-> 0]

BackupInit ==
  /\ db = [NoData EXCEPT !.users = {"admin"}, !.profiles = {[id |-> 1, name |-> "Direct"], [id |-> 2, name |-> "Web"]},
                         !.clients = {[name |-> "Web", profile |-> 2]}]
  /\ next = 3 /\ job = NoJob /\ saved = NoSaved /\ exported = NoExport /\ making = NoClient

(* The references of a set of stores that lead nowhere. *)
Dangling(d) ==
  {c.name : c \in {x \in d.clients : \A p \in d.profiles : p.id # x.profile}}
    \cup {c.id : c \in {x \in ToSet(d.channels) : x.group # 0 /\ \A g \in d.groups : g.id # x.group}}

deterministicChannelID(name, owner) == <<name, owner>>

-----------------------------------------------------------------------------
(* What users do meanwhile. *)

Edit(d) ==
  /\ db' = d /\ job' = [job EXCEPT !.clean = FALSE]
  /\ UNCHANGED <<saved, exported>>

(* A client gets a profile of its own, which is made first. *)
CreateClientProfile(name) ==
  /\ making = NoClient /\ next <= MaxId
  /\ \A p \in db.profiles : p.name # name
  /\ Edit([db EXCEPT !.profiles = @ \cup {[id |-> next, name |-> name]}])
  /\ making' = [name |-> name, profile |-> next] /\ next' = next + 1

CreateClient ==
  /\ making # NoClient /\ making' = NoClient
  /\ Edit([db EXCEPT !.clients = @ \cup {making}])
  /\ UNCHANGED next

CreateGroup(name) ==
  /\ next <= MaxId
  /\ Edit([db EXCEPT !.groups = @ \cup {[id |-> next, name |-> name]}])
  /\ next' = next + 1 /\ UNCHANGED making

DeleteGroup(g) ==
  /\ Edit([db EXCEPT !.groups = @ \ {g}])
  /\ UNCHANGED <<next, making>>

FindIndex(channels, id) == IF \E i \in DOMAIN channels : channels[i].id = id
                           THEN CHOOSE i \in DOMAIN channels :
                                  channels[i].id = id /\ \A j \in DOMAIN channels : channels[j].id = id => i <= j
                           ELSE 0

CreateChannel(name, owner, group, streams) ==
  /\ Len(db.channels) < 2
  /\ Edit([db EXCEPT !.channels = Append(@, [id |-> deterministicChannelID(name, owner), name |-> name,
                                             owner |-> owner, group |-> group, streams |-> streams])])
  /\ UNCHANGED <<next, making>>

(* The channel keeps its id. *)
RenameChannel(i, name) ==
  /\ Edit([db EXCEPT !.channels[i].name = name])
  /\ UNCHANGED <<next, making>>

Book(i) ==
  /\ Edit([db EXCEPT !.recs = @ \cup {db.channels[i].id}])
  /\ UNCHANGED <<next, making>>

-----------------------------------------------------------------------------
(* Backup: one list after the other.  The streams of a channel are not in  *)
(* the list.                                                               *)

Lists == <<"users", "profiles", "clients", "channels", "groups", "recs">>

Listed(store) ==
  IF store # "channels" THEN db[store]
  ELSE [i \in DOMAIN db.channels |-> [db.channels[i] EXCEPT !.streams = << >>]]

StartBackup ==
  /\ job.pc = "idle"
  /\ job' = [NoJob EXCEPT !.pc = Lists[1], !.from = db]
  /\ UNCHANGED <<db, next, saved, exported, making>>

BackupStep(i) ==
  /\ job.pc = Lists[i] /\ i < Len(Lists)
  /\ job' = [job EXCEPT !.data[Lists[i]] = Listed(Lists[i]), !.pc = Lists[i + 1]]
  /\ UNCHANGED <<db, next, saved, exported, making>>

BackupDone ==
  /\ job.pc = Lists[Len(Lists)]
  /\ saved' = [made |-> TRUE, clean |-> job.clean, from |-> job.from,
               data |-> [job.data EXCEPT ![Lists[Len(Lists)]] = Listed(Lists[Len(Lists)])]]
  /\ job' = NoJob
  /\ UNCHANGED <<db, next, exported, making>>

-----------------------------------------------------------------------------
(* Restore. *)

Seeded == [NoData EXCEPT !.profiles = {[id |-> next, name |-> "Direct"], [id |-> next + 1, name |-> "Web"]},
                         !.clients = {[name |-> "Web", profile |-> next + 1]}]

(* HardReset clears the stores and seeds profiles and clients. *)
RestoreReset ==
  /\ job.pc = "idle" /\ saved.made /\ next < MaxId
  /\ job' = [NoJob EXCEPT !.pc = "reUsers", !.data = saved.data]
  /\ db' = Seeded /\ next' = next + 2
  /\ UNCHANGED <<saved, exported, making>>

RestoreStep(from, to, d) ==
  /\ job.pc = from
  /\ job' = [job EXCEPT !.pc = to] /\ db' = d
  /\ UNCHANGED <<next, saved, exported, making>>

RestoreUsers == RestoreStep("reUsers", "reProfiles", [db EXCEPT !.users = job.data.users])

\* Slip: the seeded profiles stay, and those of the same name are not created.
ProfilesUncleared ==
  RestoreStep("reProfiles", "reClients",
    [db EXCEPT !.profiles = @ \cup {p \in job.data.profiles : \A q \in db.profiles : q.name # p.name}])

RestoreProfiles == RestoreStep("reProfiles", "reClients", [db EXCEPT !.profiles = job.data.profiles])

RestoreClients == RestoreStep("reClients", "reGroups", [db EXCEPT !.clients = job.data.clients])

RestoreGroups == RestoreStep("reGroups", "reChannels", [db EXCEPT !.groups = @ \cup job.data.groups])

(* Every channel is created, with the id of its present name. *)
Recreated(c) == [c EXCEPT !.id = deterministicChannelID(c.name, c.owner)]

RestoreChannels ==
  RestoreStep("reChannels", "reRecs",
    [db EXCEPT !.channels = @ \o [i \in DOMAIN job.data.channels |-> Recreated(job.data.channels[i])]])

RestoreRecs == RestoreStep("reRecs", "restored", [db EXCEPT !.recs = @ \cup job.data.recs])

-----------------------------------------------------------------------------
(* Export and import. *)

GroupName(d, id) == IF \E g \in d.groups : g.id = id THEN (CHOOSE g \in d.groups : g.id = id).name ELSE ""

Export ==
  /\ job.pc = "idle"
  /\ exported' = [made |-> TRUE, clean |-> TRUE, groups |-> {g.name : g \in db.groups},
        channels |-> [i \in DOMAIN db.channels |->
           [name |-> db.channels[i].name, group |-> GroupName(db, db.channels[i].group),
            streams |-> db.channels[FindIndex(db.channels, db.channels[i].id)].streams]]]
  /\ UNCHANGED <<db, next, job, saved, making>>

NewGroups == {n \in exported.groups : \A g \in db.groups : g.name # n}

ImportGroups ==
  /\ job.pc = "idle" /\ exported.made /\ next + Cardinality(NewGroups) <= MaxId + 1
  /\ LET names == SetToSeq(NewGroups) IN
     db' = [db EXCEPT !.groups = @ \cup {[id |-> next + i - 1, name |-> names[i]] : i \in DOMAIN names}]
  /\ next' = next + Cardinality(NewGroups)
  /\ job' = [NoJob EXCEPT !.pc = "imChannels", !.data = db', !.from = db]
  /\ UNCHANGED <<saved, exported, making>>

GroupNameToID(d, name) == IF \E g \in d.groups : g.name = name THEN (CHOOSE g \in d.groups : g.name = name).id ELSE 0

(* AssignStreams finds the first channel of the id. *)
Created(channels, ec, groups) ==
  LET id == deterministicChannelID(ec.name, "")
      more == Append(channels, [id |-> id, name |-> ec.name, owner |-> "",
                                group |-> IF ec.group = "" THEN 0 ELSE GroupNameToID(groups, ec.group), streams |-> << >>])
  IN  IF ec.streams = << >> THEN more ELSE [more EXCEPT ![FindIndex(more, id)].streams = ec.streams]

\* Slip: channels are created although there are some of their name.
EvenExisting(ecs) == ecs

Missing(ecs) == SelectSeq(ecs, LAMBDA ec : \A i \in DOMAIN db.channels : db.channels[i].name # ec.name)

ImportChannels ==
  LET more == Missing(exported.channels)
      upTo[n \in 0 .. Len(more)] == IF n = 0 THEN db.channels ELSE Created(upTo[n - 1], more[n], job.data)
  IN  /\ job.pc = "imChannels"
      /\ db' = [db EXCEPT !.channels = upTo[Len(more)]]
      /\ job' = [job EXCEPT !.pc = "imported"]
      /\ UNCHANGED <<next, saved, exported, making>>

Acknowledge ==
  /\ job.pc \in {"restored", "imported"} /\ job' = NoJob
  /\ UNCHANGED <<db, next, saved, exported, making>>

(* The program is stopped: what ran is not taken up again. *)
Restart ==
  /\ job' = NoJob /\ making' = NoClient
  /\ UNCHANGED <<db, next, saved, exported>>

BackupSteps ==
  \/ CreateClient \/ BackupDone \/ \E i \in DOMAIN Lists : BackupStep(i)
  \/ RestoreUsers \/ RestoreProfiles \/ RestoreClients \/ RestoreGroups \/ RestoreChannels \/ RestoreRecs
  \/ ImportChannels \/ Acknowledge

BackupRequests ==
  \/ StartBackup \/ RestoreReset \/ Export \/ ImportGroups \/ Restart
  \/ \E n \in Names : CreateClientProfile(n) \/ CreateGroup(n)
  \/ \E g \in db.groups : DeleteGroup(g)
  \/ \E n \in Names, o \in Owners, s \in StreamSets, g \in {0} \cup {x.id : x \in db.groups} : CreateChannel(n, o, g, s)
  \/ \E i \in DOMAIN db.channels : Book(i) \/ \E n \in Names : RenameChannel(i, n)

-----------------------------------------------------------------------------
Restored == job.pc = "restored" /\ job.clean /\ saved.clean

(* After a restore of a backup that was taken while nobody changed a row,  *)
(* every client has its profile and every channel its group, unless the    *)
(* reference led nowhere when the backup was taken (Restore keeps the ids  *)
(* and replaces the profiles that the reset seeded).                       *)
RestoreResolves ==
  Restored => Dangling(db) \subseteq
    Dangling(saved.data) \cup {Recreated(c).id : c \in {x \in ToSet(saved.data.channels) : x.id \in Dangling(saved.data)}}

(* Such a restore brings back the users, profiles, clients, groups,        *)
(* bookings and channels there were, and nothing else remains.  (Not the   *)
(* streams of the channels, which no backup has; and a channel that was    *)
(* renamed comes back under another id.)                                   *)
RestoreComplete ==
  Restored =>
    /\ \A store \in {"users", "profiles", "clients", "groups", "recs"} : db[store] = saved.from[store]
    /\ [i \in DOMAIN db.channels |-> <<db.channels[i].name, db.channels[i].owner, db.channels[i].group>>]
         = [i \in DOMAIN saved.from.channels |->
              <<saved.from.channels[i].name, saved.from.channels[i].owner, saved.from.channels[i].group>>]

(* An import leaves the channels and groups alone that are there, whatever *)
(* they were changed to since the export; but a channel that was renamed   *)
(* still has the id of its old name, and an imported channel of that name  *)
(* gives it its streams (Import, AssignStreams).                           *)
ImportKeeps ==
  [][(\E step \in {<<"idle", "imChannels">>, <<"imChannels", "imported">>} : step = <<job.pc, job'.pc>>) =>
       /\ db.groups \subseteq db'.groups
       /\ \A i \in DOMAIN db.channels :
            db'.channels[i] = db.channels[i] \/ db.channels[i].id[1] # db.channels[i].name]_backupVars

(* After an import each exported channel is there; one that was not there  *)
(* before is in the group of the exported name, which there is once unless *)
(* it was there twice (Import finds groups and channels by name).          *)
ImportPlaces ==
  job.pc = "imported" /\ job.clean =>
    \A k \in DOMAIN exported.channels :
      LET ec == exported.channels[k]
          named(n) == {g.id : g \in {x \in db.groups : x.name = n}}
          before(n) == {g.id : g \in {x \in job.from.groups : x.name = n}}
      IN  /\ \E i \in DOMAIN db.channels : db.channels[i].name = ec.name
          /\ (\A i \in DOMAIN job.from.channels : job.from.channels[i].name # ec.name) /\ ec.group # "" =>
               \E i \in DOMAIN db.channels : db.channels[i].name = ec.name /\ db.channels[i].group \in named(ec.group)
          /\ ec.group # "" => Cardinality(named(ec.group)) <= 1 \/ named(ec.group) = before(ec.group)
=============================================================================
