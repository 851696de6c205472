------------------------------ MODULE Profiles ------------------------------
(***************************************************************************)
(* Stream profiles and client definitions: two stores, each saved to its   *)
(* own file, that refer to one another, seeded at start and cleared and    *)
(* seeded again by a hard reset.  The list of profiles is served with an   *)
(* entity tag, so that a browser keeps its copy while the tag is current.  *)
(***************************************************************************)
EXTENDS Naturals, FiniteSets, Sequences

CONSTANTS
  SystemNames,   \* names of the profiles that every installation has
  DefaultNames,  \* names of the clients that a new installation has
  UserNames,     \* names that requests use
  MaxIds,        \* bound on the ids ever given
  MaxRev,        \* bound on the tag
  Handlers,
  None

VARIABLES
  profiles,   \* set of [id, name, kind]
  clients,    \* set of [id, name, profile, own, rules]; "own" was made with it
  profileFile, clientFile,
  next,       \* the next id
  handler,    \* goroutine -> what it is doing
  boot,       \* "up", or what the starting program still has to save
  rev,        \* the tag of the list of profiles
  view,       \* what the browser holds, as [etag, list]
  unbumped,   \* profiles changed without a new tag
  excused,    \* profiles deleted under a client, by one of the known ways
  crowded     \* client profiles were made while a reset went on

profileVars == <<profiles, clients, profileFile, clientFile, next, handler, boot, rev, view, unbumped, excused, crowded>>

Idle == [pc |-> "idle", row |-> None, id |-> None]
Resetting == {"saveCleared", "clearClients", "saveNoClients", "seedSystem", "saveSystem", "clear", "remove",
              "seedProfile", "seedClient", "saveProfiles", "saveClients"}
Resets == \E k \in Handlers : handler[k].pc \in Resetting

ById(id) == {p \in profiles : p.id = id}
NameFree(name) == \A p \in profiles : p.name # name

-----------------------------------------------------------------------------
(* Seeding *)

SeedSystemProfiles(rows, id) ==
  rows \cup {[id |-> id + n, name |-> SystemNames[n], kind |-> "system"] :
              n \in {k \in DOMAIN SystemNames : \A p \in rows : ~ (p.kind = "system" /\ p.name = SystemNames[k])}}

RemoveClientProfiles(rows) == {p \in rows : p.kind # "client"}

SeededProfiles(rows, id) ==
  RemoveClientProfiles(rows) \cup {[id |-> id + n, name |-> DefaultNames[n], kind |-> "client"] : n \in DOMAIN DefaultNames}
SeededClients(id) ==
  {[id |-> id + n, name |-> DefaultNames[n], profile |-> id + n, own |-> id + n, rules |-> TRUE] : n \in DOMAIN DefaultNames}

\* A program that starts loads both files, adds the system profiles and, if it
\* has no clients, seeds them; both files are saved at the end of the seeding.
Load(ps, cs) ==
  LET system == SeedSystemProfiles(ps, next)
      id == next + Cardinality(DOMAIN SystemNames)
  IN
  /\ id + Cardinality(DOMAIN DefaultNames) < MaxIds
  /\ next' = id + Cardinality(DOMAIN DefaultNames)
  /\ \/ cs # {} /\ profiles' = system /\ clients' = cs /\ boot' = "up"
     \/ cs = {} /\ profiles' = SeededProfiles(system, id) /\ clients' = SeededClients(id) /\ boot' = "saveProfiles"

ProfilesInit ==
  LET system == SeedSystemProfiles({}, 0)
      id == Cardinality(DOMAIN SystemNames) IN
  /\ profiles = SeededProfiles(system, id) /\ clients = SeededClients(id)
  /\ profileFile = profiles /\ clientFile = clients
  /\ next = id + Cardinality(DOMAIN DefaultNames)
  /\ handler = [h \in Handlers |-> Idle] /\ boot = "up"
  /\ rev = 0 /\ view = [etag |-> None, list |-> {}] /\ unbumped = FALSE /\ excused = {} /\ crowded = FALSE

BootSave ==
  /\ \/ boot = "saveProfiles" /\ profileFile' = profiles /\ boot' = "saveClients" /\ UNCHANGED clientFile
     \/ boot = "saveClients" /\ clientFile' = clients /\ boot' = "up" /\ UNCHANGED profileFile
  /\ UNCHANGED <<profiles, clients, next, handler, rev, view, unbumped, excused, crowded>>

\* A crash may come at any moment, in the middle of a start too.  The new tag
\* is taken from the clock.
ProfilesRestart ==
  /\ Load(profileFile, clientFile)
  /\ handler' = [h \in Handlers |-> Idle]
  /\ rev < MaxRev /\ rev' = rev + 1
  /\ excused' = excused \cup {c.own : c \in {d \in clientFile : \A p \in profileFile : p.id # d.own}}
  /\ UNCHANGED <<profileFile, clientFile, view, unbumped, crowded>>

-----------------------------------------------------------------------------
(* Requests for profiles *)

SetProfiles(rows) == profiles' = rows /\ profileFile' = rows
Step(h, pc, row, id) == handler' = [handler EXCEPT ![h] = [pc |-> pc, row |-> row, id |-> id]]
Serving(h, pc) == boot = "up" /\ handler[h].pc = pc

ProfileCreate(h, name) ==
  /\ Serving(h, "idle") /\ NameFree(name) /\ next < MaxIds
  /\ SetProfiles(profiles \cup {[id |-> next + 1, name |-> name, kind |-> "user"]})
  /\ next' = next + 1
  /\ Step(h, "bump", None, None)
  /\ UNCHANGED <<clients, clientFile, boot, rev, view, unbumped, excused, crowded>>

\* System profiles are not edited and client profiles not renamed; the name is
\* not looked for again when the row is written.
ProfileUpdateRead(h, p, name) ==
  /\ Serving(h, "idle") /\ p.kind # "system"
  /\ name = p.name \/ (p.kind # "client" /\ NameFree(name))
  /\ Step(h, "update", [p EXCEPT !.name = name], p.id)
  /\ UNCHANGED <<profiles, clients, profileFile, clientFile, next, boot, rev, view, unbumped, excused, crowded>>

ProfileUpdate(h) ==
  /\ Serving(h, "update")
  /\ \/ ById(handler[h].id) # {} /\ SetProfiles((profiles \ ById(handler[h].id)) \cup {handler[h].row}) /\ Step(h, "bump", None, None)
     \/ ById(handler[h].id) = {} /\ Step(h, "idle", None, None) /\ UNCHANGED <<profiles, profileFile>>
  /\ UNCHANGED <<clients, clientFile, next, boot, rev, view, unbumped, excused, crowded>>

\* Clients that use the profile are not looked for.
ProfileDelete(h, p) ==
  /\ Serving(h, "idle") /\ p.kind = "user"
  /\ SetProfiles(profiles \ {p})
  /\ Step(h, "bump", None, None)
  /\ UNCHANGED <<clients, clientFile, next, boot, rev, view, unbumped, excused, crowded>>

NewTag == rev' = rev + 1

Bump(h) ==
  /\ Serving(h, "bump") /\ rev < MaxRev
  /\ NewTag
  /\ unbumped' = FALSE
  /\ Step(h, "idle", None, None)
  /\ UNCHANGED <<profiles, clients, profileFile, clientFile, next, boot, view, excused, crowded>>

\* The tag is read before the list, which another request may change between.
ListRead(h) ==
  /\ Serving(h, "idle") /\ view.etag # rev
  /\ Step(h, "list", None, rev)
  /\ UNCHANGED <<profiles, clients, profileFile, clientFile, next, boot, rev, view, unbumped, excused, crowded>>

List(h) ==
  /\ Serving(h, "list")
  /\ view' = [etag |-> handler[h].id, list |-> profiles]
  /\ Step(h, "idle", None, None)
  /\ UNCHANGED <<profiles, clients, profileFile, clientFile, next, boot, rev, unbumped, excused, crowded>>

-----------------------------------------------------------------------------
(* Requests for clients *)

\* Another request has found the profile unused and is about to delete it.
Overtaken(id) == IF \E k \in Handlers : handler[k].pc = "deleteProfile" /\ handler[k].id = id THEN {id} ELSE {}
\* A client that is still being created or edited will use the profile.
Expected(id) ==
  IF \E k \in Handlers : \/ handler[k].pc \in {"client", "updateClient"} /\ handler[k].id = id
                         \/ handler[k].pc = "seedClient" /\ handler[k].row.own = id
  THEN {id} ELSE {}

SetClients(rows) == clients' = rows /\ clientFile' = rows

\* The client's profile is made first, in the other store.
CreateClientProfile(h, name) ==
  /\ Serving(h, "idle") /\ NameFree(name) /\ next < MaxIds
  /\ SetProfiles(profiles \cup {[id |-> next + 1, name |-> name, kind |-> "client"]})
  /\ next' = next + 1 /\ unbumped' = TRUE
  /\ crowded' = (crowded \/ Resets)
  /\ Step(h, "client", [id |-> next + 1, name |-> name, profile |-> next + 1, own |-> next + 1, rules |-> FALSE], next + 1)
  /\ UNCHANGED <<clients, clientFile, boot, rev, view, excused>>

\* A client whose save fails is an error to the caller, and is there.
CreateClient(h) ==
  /\ Serving(h, "client")
  /\ clients' = clients \cup {handler[h].row}
  /\ \/ clientFile' = clients' /\ Step(h, "rules", None, handler[h].id)
     \/ UNCHANGED clientFile /\ Step(h, "undo", None, handler[h].id)
  /\ excused' = excused \cup Overtaken(handler[h].id)
  /\ UNCHANGED <<profiles, profileFile, next, boot, rev, view, unbumped, crowded>>

CreateUndo(h) ==
  /\ Serving(h, "undo")
  /\ SetProfiles(profiles \ ById(handler[h].id)) /\ unbumped' = TRUE
  /\ excused' = excused \cup {handler[h].id}
  /\ Step(h, "idle", None, None)
  /\ UNCHANGED <<clients, clientFile, next, boot, rev, view, crowded>>

SetMatchRules(h) ==
  /\ Serving(h, "rules")
  /\ SetClients({IF c.id = handler[h].id THEN [c EXCEPT !.rules = TRUE] ELSE c : c \in clients})
  /\ Step(h, "idle", None, None)
  /\ UNCHANGED <<profiles, profileFile, next, boot, rev, view, unbumped, excused, crowded>>

\* A client may be given any profile; without one in the request, the one that
\* was read is written back.
UpdateClientRead(h, c, id) ==
  /\ Serving(h, "idle")
  /\ Step(h, "updateClient", [c EXCEPT !.profile = id], id)
  /\ UNCHANGED <<profiles, clients, profileFile, clientFile, next, boot, rev, view, unbumped, excused, crowded>>

UpdateClient(h) ==
  /\ Serving(h, "updateClient")
  /\ SetClients({IF c.id = handler[h].row.id THEN [c EXCEPT !.profile = handler[h].id] ELSE c : c \in clients})
  /\ Step(h, "idle", None, None)
  /\ excused' = excused \cup Overtaken(handler[h].id)
  /\ UNCHANGED <<profiles, profileFile, next, boot, rev, view, unbumped, crowded>>

DeleteClient(h, c) ==
  /\ Serving(h, "idle")
  /\ SetClients(clients \ {c})
  /\ Step(h, "referenced", None, c.profile)
  /\ UNCHANGED <<profiles, profileFile, next, boot, rev, view, unbumped, excused, crowded>>

IsStreamProfileReferenced(id) == \E c \in clients : c.profile = id

DeleteCheck(h) ==
  LET id == handler[h].id IN
  /\ Serving(h, "referenced")
  /\ \/ /\ \E p \in ById(id) : p.kind # "system"
        /\ ~ IsStreamProfileReferenced(id)
        /\ Step(h, "deleteProfile", None, id)
     \/ /\ (\A p \in ById(id) : p.kind = "system") \/ IsStreamProfileReferenced(id)
        /\ Step(h, "idle", None, None)
  /\ UNCHANGED <<profiles, clients, profileFile, clientFile, next, boot, rev, view, unbumped, excused, crowded>>

DeleteOwnProfile(h) ==
  /\ Serving(h, "deleteProfile")
  /\ SetProfiles(profiles \ ById(handler[h].id)) /\ unbumped' = TRUE
  /\ Step(h, "idle", None, None)
  /\ excused' = excused \cup Expected(handler[h].id)
  /\ UNCHANGED <<clients, clientFile, next, boot, rev, view, crowded>>

-----------------------------------------------------------------------------
(* DataResetter.HardReset, store after store *)

OnlyMemory == UNCHANGED <<profileFile, clientFile, boot, rev, view>>

\* Nothing keeps two resets apart. ClearAndSave saves after it has given the
\* lock back.
HardReset(h) ==
  /\ Serving(h, "idle")
  /\ profiles' = {} /\ unbumped' = TRUE
  /\ excused' = excused \cup 1..next
  /\ crowded' = (crowded \/ Resets)
  /\ Step(h, "saveCleared", None, None)
  /\ UNCHANGED <<clients, next>> /\ OnlyMemory

ResetClients(h) ==
  /\ Serving(h, "clearClients")
  /\ clients' = {}
  /\ Step(h, "saveNoClients", None, None)
  /\ UNCHANGED <<profiles, next, unbumped, excused, crowded>> /\ OnlyMemory

ResetSystem(h) ==
  /\ Serving(h, "seedSystem") /\ next + Cardinality(DOMAIN SystemNames) < MaxIds
  /\ profiles' = SeedSystemProfiles(profiles, next) /\ unbumped' = TRUE
  /\ next' = next + Cardinality(DOMAIN SystemNames)
  /\ Step(h, "saveSystem", None, None)
  /\ UNCHANGED <<clients, excused, crowded>> /\ OnlyMemory

\* seedClientDefaultsForce works in memory, call after call, and saves at its
\* end.
ResetClear(h) ==
  /\ Serving(h, "clear")
  /\ clients' = {}
  /\ Step(h, "remove", None, None)
  /\ UNCHANGED <<profiles, next, unbumped, excused, crowded>> /\ OnlyMemory

ResetRemove(h) ==
  /\ Serving(h, "remove")
  /\ profiles' = RemoveClientProfiles(profiles) /\ unbumped' = TRUE
  /\ excused' = excused \cup 1..next
  /\ Step(h, "seedProfile", None, 1)
  /\ UNCHANGED <<clients, next, crowded>> /\ OnlyMemory

ResetProfile(h) ==
  LET n == handler[h].id
      id == next + 1 IN
  /\ Serving(h, "seedProfile") /\ next < MaxIds
  /\ profiles' = profiles \cup {[id |-> id, name |-> DefaultNames[n], kind |-> "client"]} /\ unbumped' = TRUE
  /\ next' = id
  /\ Step(h, "seedClient", [id |-> id, name |-> DefaultNames[n], profile |-> id, own |-> id, rules |-> TRUE], n)
  /\ UNCHANGED <<clients, excused, crowded>> /\ OnlyMemory

ResetClient(h) ==
  LET n == handler[h].id IN
  /\ Serving(h, "seedClient")
  /\ clients' = clients \cup {handler[h].row}
  /\ excused' = excused \cup Overtaken(handler[h].row.own)
  /\ IF n < Len(DefaultNames) THEN Step(h, "seedProfile", None, n + 1) ELSE Step(h, "saveProfiles", None, None)
  /\ UNCHANGED <<profiles, next, unbumped, crowded>> /\ OnlyMemory

\* A save writes what is in memory by then.
ResetSaveProfiles(h) ==
  /\ profileFile' = profiles
  /\ \/ Serving(h, "saveCleared") /\ Step(h, "clearClients", None, None)
     \/ Serving(h, "saveSystem") /\ Step(h, "clear", None, None)
     \/ Serving(h, "saveProfiles") /\ Step(h, "saveClients", None, None)
  /\ UNCHANGED <<profiles, clients, clientFile, next, boot, rev, view, unbumped, excused, crowded>>

ResetSaveClients(h) ==
  /\ clientFile' = clients
  /\ \/ Serving(h, "saveNoClients") /\ Step(h, "seedSystem", None, None)
     \/ Serving(h, "saveClients") /\ Step(h, "idle", None, None)
  /\ UNCHANGED <<profiles, clients, profileFile, next, boot, rev, view, unbumped, excused, crowded>>

ProfilesSteps ==
  \/ BootSave
  \/ \E h \in Handlers :
       \/ ProfileUpdate(h) \/ Bump(h) \/ List(h)
       \/ CreateClient(h) \/ CreateUndo(h) \/ UpdateClient(h) \/ SetMatchRules(h) \/ DeleteCheck(h) \/ DeleteOwnProfile(h)
       \/ ResetClients(h) \/ ResetSystem(h) \/ ResetClear(h) \/ ResetRemove(h)
       \/ ResetProfile(h) \/ ResetClient(h) \/ ResetSaveProfiles(h) \/ ResetSaveClients(h)

ProfilesRequests ==
  \/ ProfilesRestart
  \/ \E h \in Handlers : ListRead(h) \/ HardReset(h)
  \/ \E h \in Handlers, name \in UserNames : ProfileCreate(h, name) \/ CreateClientProfile(h, name)
  \/ \E h \in Handlers, p \in profiles : ProfileDelete(h, p) \/ \E name \in UserNames \cup {p.name} : ProfileUpdateRead(h, p, name)
  \/ \E h \in Handlers, c \in clients : DeleteClient(h, c) \/ \E id \in {c.profile} \cup {p.id : p \in profiles} : UpdateClientRead(h, c, id)

-----------------------------------------------------------------------------
(* Properties *)

Quiet == boot = "up" /\ \A h \in Handlers : handler[h].pc \notin Resetting

\* Starting again and again, after crashes and resets, leaves one of each
\* system profile, not none and not two.
OneOfEachSystemProfile ==
  Quiet => \A n \in DOMAIN SystemNames : Cardinality({p \in profiles : p.kind = "system" /\ p.name = SystemNames[n]}) = 1

\* Seeding that was cut between its two saves is repeated without leaving the
\* profiles of the first attempt behind, unless another made client profiles
\* while it went on: a second reset, or a request that finds the name free.
NoTwinClientProfiles ==
  Quiet /\ ~ crowded => \A p, q \in profiles : p.kind = "client" /\ q.kind = "client" /\ p.name = q.name => p = q

\* A client that uses the profile made with it keeps it, whatever happens to
\* the other clients that use it; a failed save, a reset, and a use that begins
\* while the profile is being deleted are the exceptions.
OwnProfileKept ==
  \A c \in clients : c.profile = c.own => ById(c.own) # {} \/ c.own \in excused

\* A list the browser may keep is the current one: while the tag is the one it
\* was served with, only the stores' own users have changed the profiles.
NotModifiedIsCurrent ==
  view.etag = rev /\ ~ unbumped /\ (\A h \in Handlers : handler[h].pc # "bump") => view.list = profiles

=============================================================================
