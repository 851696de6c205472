------------------------------- MODULE Lineup -------------------------------
(***************************************************************************)
(* The line-up: channels, channel groups and logos, each a slice behind a  *)
(* lock that is saved before the lock is given back.  A handler reads a    *)
(* row, resolves its logo and writes the row back in separate critical     *)
(* sections.  A channel's id is computed from its name and owner.          *)
(***************************************************************************)
EXTENDS Naturals, Sequences, SequencesExt, FiniteSets

CONSTANTS
  Users,
  Names,
  Urls,       \* logo addresses
  Streams,
  MaxRows,    \* bound on the rows ever made of one kind
  MaxFails,   \* bound on a channel's fail count
  Handlers,   \* request goroutines
  None

VARIABLES
  channels,   \* sequence of [id, owner, name, logo, group, fails, streams]
  groups,     \* set of [id, owner, name]
  logos,      \* set of [id, url]
  made,       \* number of ids given, by kind
  handler,    \* goroutine -> what it is doing
  by,         \* the user whom the last step served
  edited      \* ids of logos that were given another address, or deleted

lineupVars == <<channels, groups, logos, made, handler, by, edited>>

Idle == [pc |-> "idle", user |-> None, id |-> None, row |-> None, url |-> None, streams |-> {}]

LineupInit ==
  /\ channels = <<>> /\ groups = {} /\ logos = {}
  /\ made = [channel |-> 0, group |-> 0, logo |-> 0]
  /\ handler = [h \in Handlers |-> Idle]
  /\ by = None /\ edited = {}

-----------------------------------------------------------------------------
(* The stores *)

deterministicChannelID(name, user) == <<name, user>>

\* The index of the first channel with this id, or 0: ids need not be unique.
findIndex(id) == SelectInSeq(channels, LAMBDA c : c.id = id)
GetByIDForUser(id, user) == findIndex(id) # 0 /\ channels[findIndex(id)].owner = user

Create(row, user) == Append(channels, [row EXCEPT !.id = deterministicChannelID(row.name, user)])

\* (Slip: the whole entry is written back, with its streams.)
WholeEntry(i, row) == [channels EXCEPT ![i] = row]
Update(i, row) == [channels EXCEPT ![i] = [row EXCEPT !.streams = channels[i].streams]]

AssignStreams(i, streams) == [channels EXCEPT ![i].streams = streams]

GetByURL(url) == {l \in logos : l.url = url}

LogoId(url) == IF GetByURL(url) = {} THEN made.logo + 1 ELSE Min({l.id : l \in GetByURL(url)})

LogoCreate(url) ==
  \/ GetByURL(url) # {} /\ UNCHANGED <<logos, made>>
  \/ GetByURL(url) = {} /\ made.logo < MaxRows
     /\ logos' = logos \cup {[id |-> made.logo + 1, url |-> url]} /\ made' = [made EXCEPT !.logo = @ + 1]

-----------------------------------------------------------------------------
(* Channels *)

\* A handler that has its row looks up the logo's address; without a logo the
\* row's logo is cleared.
resolveLogoID(row, logo, url) ==
  [row EXCEPT !.logo = IF logo # None THEN logo
                       ELSE IF url # None /\ GetByURL(url) # {} THEN LogoId(url) ELSE None]
NeedsLogo(logo, url) == logo = None /\ url # None /\ GetByURL(url) = {}

Begin(h, pc, user, row, logo, url) ==
  /\ handler[h].pc = "idle"
  /\ handler' = [handler EXCEPT ![h] =
       [Idle EXCEPT !.pc = pc, !.user = user, !.row = resolveLogoID(row, logo, url), !.url = IF NeedsLogo(logo, url) THEN url ELSE None]]
  /\ by' = user
  /\ UNCHANGED <<channels, groups, logos, made, edited>>

CreateRequest(h, user, name, group, logo, url) ==
  /\ made.channel < MaxRows
  /\ Begin(h, "create", user, [id |-> None, owner |-> user, name |-> name, logo |-> None, group |-> group, fails |-> 0, streams |-> {}], logo, url)

UpdateRequest(h, user, id, name, group, logo, url) ==
  /\ GetByIDForUser(id, user)
  /\ Begin(h, "update", user, [channels[findIndex(id)] EXCEPT !.name = name, !.group = group], logo, url)

CreateLogo(h) ==
  /\ handler[h].pc # "idle" /\ handler[h].url # None
  /\ LogoCreate(handler[h].url)
  /\ handler' = [handler EXCEPT ![h].url = None, ![h].row.logo = LogoId(handler[h].url)]
  /\ by' = handler[h].user
  /\ UNCHANGED <<channels, groups, edited>>

CreateChannel(h) ==
  /\ handler[h].pc = "create" /\ handler[h].url = None
  /\ channels' = Create(handler[h].row, handler[h].user)
  /\ made' = [made EXCEPT !.channel = @ + 1]
  /\ handler' = [handler EXCEPT ![h] = Idle] /\ by' = handler[h].user
  /\ UNCHANGED <<groups, logos, edited>>

\* The entry is looked up again; it may be gone.
UpdateForUser(h) ==
  LET row == handler[h].row IN
  /\ handler[h].pc = "update" /\ handler[h].url = None
  /\ channels' = IF GetByIDForUser(row.id, handler[h].user) THEN Update(findIndex(row.id), row) ELSE channels
  /\ handler' = [handler EXCEPT ![h] = Idle] /\ by' = handler[h].user
  /\ UNCHANGED <<groups, logos, made, edited>>

DeleteForUser(user, id) ==
  /\ GetByIDForUser(id, user)
  /\ channels' = RemoveAt(channels, findIndex(id))
  /\ by' = user
  /\ UNCHANGED <<groups, logos, made, handler, edited>>

\* The owner is checked, then the streams, and then the channel is looked up
\* again by its id alone.
AssignStreamsForUser(h, user, id, streams) ==
  /\ handler[h].pc = "idle" /\ GetByIDForUser(id, user)
  /\ handler' = [handler EXCEPT ![h] = [Idle EXCEPT !.pc = "assign", !.user = user, !.id = id, !.streams = streams]]
  /\ by' = user
  /\ UNCHANGED <<channels, groups, logos, made, edited>>

assignStreams(h) ==
  LET i == findIndex(handler[h].id) IN
  /\ handler[h].pc = "assign"
  /\ channels' = IF i = 0 THEN channels ELSE AssignStreams(i, handler[h].streams)
  /\ handler' = [handler EXCEPT ![h] = Idle] /\ by' = handler[h].user
  /\ UNCHANGED <<groups, logos, made, edited>>

\* Any user may count the failures of any channel.
IncrementFailCount(user, id) ==
  /\ findIndex(id) # 0 /\ channels[findIndex(id)].fails < MaxFails
  /\ channels' = [channels EXCEPT ![findIndex(id)].fails = @ + 1]
  /\ by' = user
  /\ UNCHANGED <<groups, logos, made, handler, edited>>

ResetFailCount(user, id) ==
  /\ findIndex(id) # 0
  /\ channels' = [channels EXCEPT ![findIndex(id)].fails = 0]
  /\ by' = user
  /\ UNCHANGED <<groups, logos, made, handler, edited>>

-----------------------------------------------------------------------------
(* Groups and logos *)

CreateChannelGroup(user, name) ==
  /\ made.group < MaxRows
  /\ made' = [made EXCEPT !.group = @ + 1]
  /\ groups' = groups \cup {[id |-> made.group + 1, owner |-> user, name |-> name]}
  /\ by' = user
  /\ UNCHANGED <<channels, logos, handler, edited>>

\* The handler reads the group and writes it back; only the name can differ.
UpdateChannelGroup(user, g, name) ==
  /\ g.owner = user
  /\ groups' = (groups \ {g}) \cup {[g EXCEPT !.name = name]}
  /\ by' = user
  /\ UNCHANGED <<channels, logos, made, handler, edited>>

\* Channels of the group keep its id.
DeleteChannelGroup(user, g) ==
  /\ g.owner = user
  /\ groups' = groups \ {g}
  /\ by' = user
  /\ UNCHANGED <<channels, logos, made, handler, edited>>

\* Logos belong to nobody.
LogoRequest(url) ==
  /\ LogoCreate(url)
  /\ by' = None
  /\ UNCHANGED <<channels, groups, handler, edited>>

\* The new address is not compared with those of the other logos.
UpdateLogo(l, url) ==
  /\ logos' = (logos \ {l}) \cup {[l EXCEPT !.url = url]}
  /\ edited' = IF url = l.url THEN edited ELSE edited \cup {l.id}
  /\ by' = None
  /\ UNCHANGED <<channels, groups, made, handler>>

DeleteLogo(l) ==
  /\ logos' = logos \ {l}
  /\ edited' = edited \cup {l.id} /\ by' = None
  /\ UNCHANGED <<channels, groups, made, handler>>

\* Every change was saved under its lock: a crash loses the requests only.
LineupRestart ==
  /\ handler' = [h \in Handlers |-> Idle]
  /\ by' = None
  /\ UNCHANGED <<channels, groups, logos, made, edited>>

ChannelIds == {channels[i].id : i \in DOMAIN channels}
GroupIds == {None} \cup {g.id : g \in groups}
LogoIds == {None} \cup {l.id : l \in logos}

LineupSteps == \E h \in Handlers : CreateLogo(h) \/ CreateChannel(h) \/ UpdateForUser(h) \/ assignStreams(h)

LineupRequests ==
  \/ \E h \in Handlers, user \in Users, name \in Names, logo \in LogoIds, url \in Urls \cup {None} :
       \E group \in GroupIds :
         \/ CreateRequest(h, user, name, group, logo, url)
         \/ \E id \in ChannelIds : UpdateRequest(h, user, id, name, group, logo, url)
  \/ \E user \in Users, id \in ChannelIds : DeleteForUser(user, id) \/ IncrementFailCount(user, id) \/ ResetFailCount(user, id)
  \/ \E h \in Handlers, user \in Users, id \in ChannelIds, streams \in SUBSET Streams : AssignStreamsForUser(h, user, id, streams)
  \/ \E user \in Users, name \in Names : CreateChannelGroup(user, name)
  \/ \E user \in Users, g \in groups : DeleteChannelGroup(user, g) \/ \E name \in Names : UpdateChannelGroup(user, g, name)
  \/ \E url \in Urls : LogoRequest(url) \/ \E l \in logos : UpdateLogo(l, url)
  \/ \E l \in logos : DeleteLogo(l)
  \/ LineupRestart

-----------------------------------------------------------------------------
(* Properties *)

Own(user) ==
  LET mine == SelectSeq(channels, LAMBDA c : c.owner = user)
  IN  [i \in DOMAIN mine |-> [mine[i] EXCEPT !.fails = 0]]

\* A request changes the channels and groups of its own user only (fail counts
\* aside), although streams are assigned by id after the owner was checked.
OthersUntouched ==
  [][\A user \in Users : user # by' =>
       Own(user)' = Own(user) /\ {g \in groups : g.owner = user}' = {g \in groups : g.owner = user}]_lineupVars

\* No edit of a channel undoes an assignment of streams made since the edit
\* read the channel.
EditKeepsStreams ==
  [][Len(channels') = Len(channels) =>
       \A i \in DOMAIN channels : channels'[i].streams # channels[i].streams =>
         [channels'[i] EXCEPT !.streams = {}] = [channels[i] EXCEPT !.streams = {}]]_lineupVars

\* Two requests that bring the same new address share one logo; only an edit
\* can give an address to two logos.
OneLogoPerURL == \A l, k \in logos : l.url = k.url => l = k \/ l.id \in edited \/ k.id \in edited

\* A channel's logo exists, or was deleted after the channel got it.
LogosRefer ==
  \A i \in DOMAIN channels : channels[i].logo # None =>
    channels[i].logo \in edited \cup {l.id : l \in logos}

=============================================================================
