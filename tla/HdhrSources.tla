---------------------------- MODULE HdhrSources ----------------------------
(***************************************************************************)
(* The HDHomeRun sources and their file (store/hdhr_source.go), and the    *)
(* requests that link tuners to them (service/hdhr_source.go).  A tuner is *)
(* added by reading all sources, changing a copy and storing the copy, in  *)
(* two critical sections.  Every change is followed by save, which holds   *)
(* no lock but to take a snapshot: it writes a file ".tmp", always the     *)
(* same one, and renames it.  Two saves at once therefore write to one     *)
(* file, and the one renamed first is still being written by the other.    *)
(***************************************************************************)
EXTENDS Naturals, FiniteSets, Sequences, SequencesExt

CONSTANTS
  Devices,    \* the tuners on the network
  Names,      \* names a user gives to a source
  Handlers,   \* requests
  MaxSources, \* bounds the sources ever created
  None

VARIABLES
  sources,    \* HDHRSourceStoreImpl.sources
  ids,        \* number of sources ever created
  disk,       \* the inodes of the file and of the temporary file, 0 if there is none
  content,    \* what each inode holds: sources, or a part of them
  handler,    \* per request
  crossed,    \* two saves overlapped, since the program was started
  loaded      \* the program could load its sources when it was last started

hdhrVars == <<sources, ids, disk, content, handler, crossed, loaded>>

Whole(rows) == [torn |-> FALSE, rows |-> rows]
Torn == [torn |-> TRUE, rows |-> << >>]
Inodes == 0 .. Cardinality(Handlers) + 1
NoSource == [id |-> 0, name |-> None, devices |-> << >>]
NoHandler == [pc |-> "idle", todo |-> None, row |-> NoSource, seen |-> << >>, snap |-> << >>,
              node |-> 0, alone |-> TRUE]

HdhrInit ==
  /\ sources = << >> /\ ids = 0
  /\ disk = [file |-> 1, tmp |-> 0] /\ content = [n \in Inodes |-> Whole(<< >>)]
  /\ handler = [h \in Handlers |-> NoHandler]
  /\ crossed = FALSE /\ loaded = TRUE

Goto(h, from, with) == handler[h].pc = from /\ handler' = [handler EXCEPT ![h] = with]

Ids(devs) == {devs[i] : i \in DOMAIN devs}
Linked == UNION {Ids(sources[i].devices) : i \in DOMAIN sources}

-----------------------------------------------------------------------------
(* The requests. *)

(* A source made by the user; one without tuners is given those found on   *)
(* the network that no source has.                                         *)
CreateSource(h, name) ==
  /\ Goto(h, "idle", [NoHandler EXCEPT !.pc = "create", !.todo = "link",
                                       !.row = [NoSource EXCEPT !.name = name]])
  /\ UNCHANGED <<sources, ids, disk, content, crossed, loaded>>

(* udpDiscoverHDHR and fetchDiscover: those that answer in time, in any    *)
(* order; then the sources are listed.                                     *)
autoLinkDevices(h) ==
  /\ \E found \in SUBSET (Devices \ Linked) : \E order \in SetToSeqs(found) :
       Goto(h, "link", [handler[h] EXCEPT !.pc = IF found = {} THEN "idle" ELSE "update",
                                          !.todo = "auto", !.row.devices = order])
  /\ UNCHANGED <<sources, ids, disk, content, crossed, loaded>>

(* A tuner goes to the first source, or to a new one. *)
AddDevice(h, d) ==
  /\ handler[h].pc = "idle"
  /\ sources # << >> => d \notin Ids(sources[1].devices)
  /\ handler' = [handler EXCEPT ![h] =
       IF sources = << >>
       THEN [NoHandler EXCEPT !.pc = "create",
                              !.row = [NoSource EXCEPT !.name = "HDHomeRun", !.devices = <<d>>]]
       ELSE [NoHandler EXCEPT !.pc = "update", !.seen = sources,
                              !.row = [sources[1] EXCEPT !.devices = Append(@, d)]]]
  /\ UNCHANGED <<sources, ids, disk, content, crossed, loaded>>

(* The store's changes; save follows each. *)

Create(h) ==
  /\ \A i \in DOMAIN sources : sources[i].name # handler[h].row.name
  /\ ids < MaxSources /\ ids' = ids + 1
  /\ sources' = Append(sources, [handler[h].row EXCEPT !.id = ids + 1])
  /\ Goto(h, "create", [handler[h] EXCEPT !.pc = "snap", !.row.id = ids + 1, !.seen = sources'])
  /\ UNCHANGED <<disk, content, crossed, loaded>>

CreateFails(h) ==
  /\ \E i \in DOMAIN sources : sources[i].name = handler[h].row.name
  /\ Goto(h, "create", NoHandler)
  /\ UNCHANGED <<sources, ids, disk, content, crossed, loaded>>

Update(h) ==
  /\ \E i \in DOMAIN sources : sources[i].id = handler[h].row.id
  /\ sources' = [i \in DOMAIN sources |->
                   IF sources[i].id = handler[h].row.id THEN handler[h].row ELSE sources[i]]
  /\ Goto(h, "update", [handler[h] EXCEPT !.pc = "snap"])
  /\ UNCHANGED <<ids, disk, content, crossed, loaded>>

UpdateFails(h) ==
  /\ \A i \in DOMAIN sources : sources[i].id # handler[h].row.id
  /\ Goto(h, "update", NoHandler)
  /\ UNCHANGED <<sources, ids, disk, content, crossed, loaded>>

Delete(h, i) ==
  /\ i \in DOMAIN sources
  /\ sources' = RemoveAt(sources, i)
  /\ Goto(h, "idle", [NoHandler EXCEPT !.pc = "snap"])
  /\ UNCHANGED <<ids, disk, content, crossed, loaded>>

-----------------------------------------------------------------------------
(* save. *)

Saving == {h \in Handlers : handler[h].pc \in {"open", "write", "rename", "remove"}}

Snapshot(h) ==
  /\ Goto(h, "snap", [handler[h] EXCEPT !.pc = "open", !.snap = sources])
  /\ crossed' = (crossed \/ Saving # {})
  /\ UNCHANGED <<sources, ids, disk, content, loaded>>

\* Slip: the file itself is written.
OpenFile(h) ==
  /\ Goto(h, "open", [handler[h] EXCEPT !.pc = "write", !.node = disk.file, !.alone = TRUE])
  /\ content' = [content EXCEPT ![disk.file] = Torn]
  /\ UNCHANGED <<sources, ids, disk, crossed, loaded>>

(* The temporary file is made, or emptied when another save left it. *)
OpenTmp(h) ==
  LET used == {disk.file} \cup {handler[g].node : g \in Handlers}
      node == IF disk.tmp # 0 THEN disk.tmp ELSE CHOOSE n \in Inodes \ {0} : n \notin used
  IN  /\ handler[h].pc = "open"
      /\ handler' = [g \in Handlers |->
           IF g = h THEN [handler[h] EXCEPT !.pc = "write", !.node = node, !.alone = TRUE]
           ELSE IF handler[g].node = node THEN [handler[g] EXCEPT !.alone = FALSE]
           ELSE handler[g]]
      /\ disk' = [disk EXCEPT !.tmp = node]
      /\ content' = [content EXCEPT ![node] = Torn]
      /\ UNCHANGED <<sources, ids, crossed, loaded>>

(* Writes of two to one file mix. *)
Write(h) ==
  /\ handler[h].pc = "write"
  /\ \E c \in IF handler[h].alone /\ content[handler[h].node] = Torn
              THEN {Whole(handler[h].snap)} ELSE {Whole(handler[h].snap), Torn} :
       content' = [content EXCEPT ![handler[h].node] = c]
  /\ handler' = [handler EXCEPT ![h].pc = "rename"]
  /\ UNCHANGED <<sources, ids, disk, crossed, loaded>>

After(h) == IF handler[h].todo = "link" THEN [handler[h] EXCEPT !.pc = "link", !.node = 0]
            ELSE NoHandler

Rename(h) ==
  /\ disk.tmp # 0
  /\ Goto(h, "rename", After(h))
  /\ disk' = [file |-> disk.tmp, tmp |-> 0]
  /\ UNCHANGED <<sources, ids, content, crossed, loaded>>

(* The other save has renamed it. *)
RenameFails(h) ==
  /\ disk.tmp = 0
  /\ Goto(h, "rename", [handler[h] EXCEPT !.pc = "remove"])
  /\ UNCHANGED <<sources, ids, disk, content, crossed, loaded>>

RemoveTmp(h) ==
  /\ Goto(h, "remove", NoHandler)
  /\ disk' = [disk EXCEPT !.tmp = 0]
  /\ UNCHANGED <<sources, ids, content, crossed, loaded>>

(* The program is stopped at any time and started again: Load reads the    *)
(* file, and a file that it cannot read ends the program.                  *)
Restart ==
  /\ loaded
  /\ handler' = [h \in Handlers |-> NoHandler]
  /\ loaded' = ~content[disk.file].torn
  /\ sources' = content[disk.file].rows
  /\ crossed' = (crossed /\ content[disk.file].torn)
  /\ UNCHANGED <<ids, disk, content>>

HdhrSteps ==
  loaded /\ \E h \in Handlers :
    \/ autoLinkDevices(h) \/ Create(h) \/ CreateFails(h) \/ Update(h) \/ UpdateFails(h)
    \/ Snapshot(h) \/ OpenTmp(h) \/ Write(h) \/ Rename(h) \/ RenameFails(h) \/ RemoveTmp(h)

HdhrRequests ==
  loaded /\ \/ \E h \in Handlers, n \in Names : CreateSource(h, n)
            \/ \E h \in Handlers, d \in Devices : AddDevice(h, d)
            \/ \E h \in Handlers, i \in 1 .. MaxSources : Delete(h, i)
            \/ Restart

-----------------------------------------------------------------------------
(* Whenever the program is stopped it can be started again, unless two     *)
(* changes of the sources were being saved at once (save writes a          *)
(* temporary file and renames it).                                         *)
AlwaysLoads == crossed \/ (loaded /\ ~content[disk.file].torn)

(* When no request is under way the file holds the sources that are in     *)
(* memory, unless two saves overlapped: the older snapshot may then have   *)
(* been written last.                                                      *)
FileIsCurrent ==
  (\A h \in Handlers : handler[h].pc = "idle") /\ ~crossed /\ loaded =>
    content[disk.file].rows = sources

(* The tuners of a source are changed in a copy.  When no other request    *)
(* came in between, storing the copy takes no tuner from any source, and   *)
(* linking what was found on the network gives the source no tuner that    *)
(* another one has (autoLinkDevices, AddDevice).                           *)
LinksFreeTuners ==
  [][\A h \in Handlers :
       handler[h].pc = "update" /\ handler'[h].pc = "snap" /\ handler[h].seen = sources =>
         /\ \A i \in DOMAIN sources : Ids(sources[i].devices) \subseteq Ids(sources'[i].devices)
         /\ handler[h].todo = "auto" =>
              \A i, j \in DOMAIN sources' :
                sources'[i].id = handler[h].row.id /\ i # j =>
                  Ids(sources'[i].devices) \cap Ids(sources'[j].devices) = {}]_hdhrVars
=============================================================================
