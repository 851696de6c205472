------------------------------ MODULE Publish -------------------------------
(***************************************************************************)
(* What the program shows of its channels: the playlist and the guide      *)
(* (service/output.go), the lineup of an emulated tuner (service/hdhr.go)  *)
(* and the tree of the DLNA media server (service/dlna.go).  All of them   *)
(* select from the same channels, each with code of its own, and a client  *)
(* puts them together: it looks up in the guide the ids of the playlist,   *)
(* and pages through the containers that the tree's root told it of.       *)
(***************************************************************************)
EXTENDS Naturals, Sequences, FiniteSets, SequencesExt, FiniteSetsExt

CONSTANTS
  StartChannels, \* the channels at the start, in the store's order
  Groups,        \* channel groups
  TvgIds,        \* ids of channels in guides
  Streams,       \* streams that are favourites
  Pages,         \* page sizes that clients ask for, 0 for everything
  Restrictions,  \* sets of groups a user may be restricted to, {} for none
  MaxEntries,    \* bounds the guide entries ever created
  None

VARIABLES
  channels,      \* sequence of [id, enabled, group, tvg]
  groups,        \* the groups that exist
  restricted,    \* the groups of the plain user, or of a tuner device
  favorites,     \* the user's favourites, channels and streams
  recordings,    \* sequence of [name, owner]
  epgData,       \* the guide's entries: [id, ch]
  listedPrograms,\* the entries that have their programmes
  doc,           \* the guide that is being written
  client         \* a DLNA client

publishVars == <<channels, groups, restricted, favorites, recordings, epgData, listedPrograms, doc, client>>

NoDoc == [pc |-> "idle", chs |-> << >>, only |-> {}, entries |-> {}, todo |-> {}, channels |-> {}, programmes |-> {}]
NoClient == [pc |-> "idle", user |-> "admin", root |-> {}, obj |-> None, got |-> << >>, total |-> 0,
             clean |-> TRUE]

PublishInit ==
  /\ channels = StartChannels /\ groups = Groups
  /\ restricted \in Restrictions
  /\ favorites = SetToSeq(Streams) \o [i \in DOMAIN StartChannels |-> StartChannels[i].id]
  /\ recordings = <<[name |-> "rec1", owner |-> "plain"], [name |-> "rec2", owner |-> "admin"],
                    [name |-> "rec3", owner |-> "plain"]>>
  /\ epgData = {[id |-> 1, ch |-> t] : t \in TvgIds} /\ listedPrograms = {1}
  /\ doc = NoDoc /\ client = NoClient

-----------------------------------------------------------------------------
(* The playlist and a tuner's lineup.  (An empty set of groups stands for  *)
(* no restriction.)                                                        *)

channelEPGID(c) == IF c.tvg # None THEN c.tvg ELSE c.id

generateM3U(chs, only) ==
  LET shown == SelectSeq(chs, LAMBDA c : c.enabled /\ (only # {} => c.group \in only))
  IN  [i \in DOMAIN shown |-> [id |-> channelEPGID(shown[i]), url |-> shown[i].id,
                               title |-> IF shown[i].group \in groups THEN shown[i].group ELSE None]]

buildLineup(chs, only) ==
  LET shown == SelectSeq(chs, LAMBDA c : c.enabled /\ (only # {} => c.group \in only))
  IN  [i \in DOMAIN shown |-> [number |-> i, url |-> shown[i].id]]

-----------------------------------------------------------------------------
(* The guide: the channels, the entries and the programmes of each entry   *)
(* are read one after the other.                                           *)

Mine(c, only) == c.enabled /\ (only # {} => c.group \in only)

generateEPG(only) ==
  /\ doc.pc \in {"idle", "done"}
  /\ doc' = [NoDoc EXCEPT !.pc = "entries", !.chs = channels, !.only = only]
  /\ UNCHANGED <<channels, groups, restricted, favorites, recordings, epgData, listedPrograms, client>>

writeXMLChannel(entries) ==
  {e.ch : e \in entries}
    \cup {channelEPGID(doc.chs[i]) : i \in {j \in DOMAIN doc.chs : Mine(doc.chs[j], doc.only) /\ doc.chs[j].tvg = None}}

enabledTvgIDs ==
  {doc.chs[i].tvg : i \in {j \in DOMAIN doc.chs : Mine(doc.chs[j], doc.only)}} \ {None}

ListEPGData ==
  LET entries == {e \in epgData : e.ch \in enabledTvgIDs} IN
  /\ doc.pc = "entries"
  /\ doc' = [doc EXCEPT !.pc = "programmes", !.entries = entries, !.todo = entries,
                        !.channels = writeXMLChannel(entries)]
  /\ UNCHANGED <<channels, groups, restricted, favorites, recordings, epgData, listedPrograms, client>>

writeXMLProgramme(e) == IF e.id \in listedPrograms THEN {e.ch} ELSE {}

ListPrograms(e) ==
  /\ doc.pc = "programmes" /\ e \in doc.todo
  /\ doc' = [doc EXCEPT !.todo = @ \ {e}, !.programmes = @ \cup writeXMLProgramme(e)]
  /\ UNCHANGED <<channels, groups, restricted, favorites, recordings, epgData, listedPrograms, client>>

GuideWritten ==
  /\ doc.pc = "programmes" /\ doc.todo = {}
  /\ doc' = [doc EXCEPT !.pc = "done"]
  /\ UNCHANGED <<channels, groups, restricted, favorites, recordings, epgData, listedPrograms, client>>

-----------------------------------------------------------------------------
(* The DLNA tree. *)

resolveUserGroupFilter(user) == IF user = "plain" THEN restricted ELSE {}

groupedChannelCounts(only) ==
  [groups |-> {<<g, Cardinality({i \in DOMAIN channels : channels[i].enabled /\ channels[i].group = g})>> :
                 g \in {h \in groups : (only = {} \/ h \in only)
                                       /\ \E i \in DOMAIN channels : channels[i].enabled /\ channels[i].group = h}},
   ungrouped |-> IF only # {} THEN 0
                 ELSE Cardinality({i \in DOMAIN channels : channels[i].enabled /\ channels[i].group = None})]

(* The containers below the root with the number of children it tells. *)
browseRoot(user) ==
  LET n == groupedChannelCounts(resolveUserGroupFilter(user)) IN
  n.groups \cup (IF n.ungrouped > 0 THEN {<<"ungrouped", n.ungrouped>>} ELSE {})

browseGroup(obj, user) ==
  LET only == resolveUserGroupFilter(user)
      shown == SelectSeq(channels, LAMBDA c : c.enabled /\ c.group = IF obj = "ungrouped" THEN None ELSE obj)
  IN  IF only # {} /\ obj # "ungrouped" /\ obj \notin only THEN << >>
      ELSE [i \in DOMAIN shown |-> shown[i].id]

ById(id) == {channels[i] : i \in {j \in DOMAIN channels : channels[j].id = id}}

\* A favourite that is neither an enabled channel nor a stream is not shown.
browseFavorites ==
  SelectSeq(favorites, LAMBDA f : (\E c \in ById(f) : c.enabled) \/ f \in Streams)

browseRecordings(user) ==
  LET shown == SelectSeq(recordings, LAMBDA r : user = "plain" => r.owner = user)
  IN  [i \in DOMAIN shown |-> shown[i].name]

handleBrowse(obj, user) ==
  CASE obj = "favorites" -> browseFavorites
    [] obj = "recordings" -> browseRecordings(user)
    [] OTHER -> browseGroup(obj, user)

Page(items, start, count) ==
  LET total == Len(items)
      n == IF count = 0 THEN total ELSE count
  IN  SubSeq(items, start + 1, IF start + n > total THEN total ELSE start + n)

\* Slip: the parent of a channel is the container of channels without a group.
AlwaysUngrouped(id) == {"ungrouped" : c \in {d \in ById(id) : d.enabled}}

\* The parent that the item's own metadata names; none if it is not found.
browseChannelItem(id) ==
  {IF c.group = None THEN "ungrouped" ELSE c.group : c \in {d \in ById(id) : d.enabled}}

OpenRoot(user) ==
  /\ client' = [NoClient EXCEPT !.pc = "root", !.user = user, !.root = browseRoot(user)]
  /\ UNCHANGED <<channels, groups, restricted, favorites, recordings, epgData, listedPrograms, doc>>

(* A container is read from its beginning until all that it tells of has   *)
(* come, or nothing more comes.                                            *)
Browse(obj, count) ==
  LET items == handleBrowse(obj, client.user)
      page == Page(items, Len(client.got), count)
  IN  /\ \/ client.pc = "root" /\ obj \in {r[1] : r \in client.root} \cup {"favorites", "recordings"}
         \/ client.pc = "paging" /\ obj = client.obj
      /\ client' = [client EXCEPT !.obj = obj, !.got = @ \o page, !.total = Len(items),
                      !.pc = IF page = << >> \/ Len(client.got \o page) >= Len(items) THEN "read" ELSE "paging"]
      /\ UNCHANGED <<channels, groups, restricted, favorites, recordings, epgData, listedPrograms, doc>>

-----------------------------------------------------------------------------
(* What others change meanwhile. *)

Dirty == client' = [client EXCEPT !.clean = FALSE]

EditChannel(i, enabled, group, tvg) ==
  /\ channels' = [channels EXCEPT ![i] = [@ EXCEPT !.enabled = enabled, !.group = group, !.tvg = tvg]]
  /\ channels' # channels /\ Dirty
  /\ UNCHANGED <<groups, restricted, favorites, recordings, epgData, listedPrograms, doc>>

DeleteChannel(i) ==
  /\ channels' = RemoveAt(channels, i) /\ Dirty
  /\ UNCHANGED <<groups, restricted, favorites, recordings, epgData, listedPrograms, doc>>

(* Its channels keep the id of the group. *)
DeleteGroup(g) ==
  /\ g \in groups /\ groups' = groups \ {g} /\ Dirty
  /\ UNCHANGED <<channels, restricted, favorites, recordings, epgData, listedPrograms, doc>>

SetGroups(only) ==
  /\ restricted # only /\ restricted' = only /\ Dirty
  /\ UNCHANGED <<channels, groups, favorites, recordings, epgData, listedPrograms, doc>>

(* A refresh of the guide: its programmes go, then its entries are made    *)
(* anew, under new ids, for the channels that the new guide has.           *)
DropPrograms ==
  /\ listedPrograms # {} /\ listedPrograms' = {}
  /\ UNCHANGED <<channels, groups, restricted, favorites, recordings, epgData, doc, client>>

NewGuide(tvgs) ==
  LET id == Max({0} \cup {e.id : e \in epgData} \cup listedPrograms) + 1 IN
  /\ listedPrograms = {} /\ id <= MaxEntries
  /\ epgData' = {[id |-> id, ch |-> t] : t \in tvgs} /\ listedPrograms' = {id}
  /\ UNCHANGED <<channels, groups, restricted, favorites, recordings, doc, client>>

PublishSteps ==
  \/ ListEPGData \/ GuideWritten \/ \E e \in doc.todo : ListPrograms(e)
  \/ \E obj \in Groups \cup {"ungrouped", "favorites", "recordings"}, n \in Pages : Browse(obj, n)

PublishRequests ==
  \/ \E only \in Restrictions : generateEPG(only) \/ SetGroups(only)
  \/ \E user \in {"plain", "admin"} : OpenRoot(user)
  \/ \E i \in DOMAIN channels :
       \/ DeleteChannel(i)
       \/ \E on \in BOOLEAN, g \in groups \cup {None}, t \in TvgIds \cup {None} : EditChannel(i, on, g, t)
  \/ \E g \in groups : DeleteGroup(g)
  \/ DropPrograms \/ \E tvgs \in SUBSET TvgIds : NewGuide(tvgs)

-----------------------------------------------------------------------------
(* A guide that has been written has an entry for the channel of each of   *)
(* its programmes, only channels of the playlist that is made of the same  *)
(* channels, and, but for channels whose guide entry was missing, all of   *)
(* them, whatever a refresh does meanwhile (generateEPG, generateM3U).     *)
GuideMatchesPlaylist ==
  doc.pc = "done" =>
    LET playlist == generateM3U(doc.chs, doc.only)
        ids == {playlist[i].id : i \in DOMAIN playlist}
    IN  /\ doc.programmes \subseteq doc.channels
        /\ doc.channels \subseteq ids
        /\ ids \ doc.channels \subseteq TvgIds \ {e.ch : e \in doc.entries}

(* The channels in the containers below the DLNA root are those of the     *)
(* user's playlist and of the lineup of a tuner with the same groups,      *)
(* except for channels whose group has been deleted, which no container    *)
(* shows (browseRoot, browseGroup, generateM3U, buildLineup).              *)
TreeIsLineup ==
  \A user \in {"plain", "admin"} :
    LET only == resolveUserGroupFilter(user)
        m3u == {generateM3U(channels, only)[i].url : i \in DOMAIN generateM3U(channels, only)}
        lineup == {buildLineup(channels, only)[i].url : i \in DOMAIN buildLineup(channels, only)}
        orphans == {c.id : c \in {d \in ToSet(channels) : d.group \notin groups \cup {None}}}
    IN  /\ UNION {ToSet(browseGroup(r[1], user)) : r \in browseRoot(user)} = m3u \ orphans
        /\ m3u = lineup

(* A client that reads a container page by page, with nothing changed      *)
(* since it opened the root, gets each item once, as many as it was told   *)
(* by the root and by the pages.                                           *)
PagesComplete ==
  client.pc = "read" /\ client.clean =>
    /\ IsInjective(client.got) /\ Len(client.got) = client.total
    /\ \A r \in client.root : r[1] = client.obj => Len(client.got) = r[2]
    /\ client.got = handleBrowse(client.obj, client.user)

(* An item found in a group can be opened by its id, and says that it is   *)
(* in that group (browseGroup, browseChannelItem).                         *)
ItemsResolve ==
  client.clean /\ client.obj \notin {None, "favorites", "recordings"} =>
    \A id \in ToSet(client.got) : browseChannelItem(id) = {client.obj}
=============================================================================
