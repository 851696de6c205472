-------------------------- MODULE RecordingLibrary --------------------------
(***************************************************************************)
(* The recordings of one stream, in the stream's directory                 *)
(* (store/recording.go, and the operations of service and handler on       *)
(* them).  Sessions record into "active".  The completion of a recording   *)
(* moves the file to "recorded" under a name made of its title and the     *)
(* minute it stopped, writes metadata beside it that says whose it is, and *)
(* removes "active".  Older versions left recordings in "recording".       *)
(* Nothing holds a lock: completions, deletions, new recordings of the     *)
(* stream (by this or another channel) and the recovery after a start      *)
(* interleave, and a crash may come between any two of their steps.        *)
(*                                                                         *)
(* A name is a base and an extension; the metadata's name is the base's.   *)
(* probe.json is left out: a directory that holds nothing else is empty.   *)
(***************************************************************************)
EXTENDS Naturals, FiniteSets, Sequences

CONSTANTS
  Users,
  BaseNames,  \* sequence: a title with its minute, then _1, _2, ...
  Exts,
  Deleters,   \* requests that delete
  MaxIds,     \* bounds the recordings ever made
  Nobody      \* the owner of a recording without metadata

ASSUME LibAssumption == MaxIds \in Nat

VARIABLES
  files,      \* the media files: name -> the recording in it
  meta,       \* the metadata files: [dir, base] -> owner
  owner,      \* whose each recording is
  activeDir,     \* the recordings that have the directory "active"
  completer,  \* recording -> [pc, name], where its completion is
  deleter,    \* per request
  recover,    \* where RecoverRecordings is after a start
  faulted,    \* names whose metadata was not written, or was overwritten
  crossed,    \* recordings that were under way beside another, or a recovery
  collided    \* names that two completions have chosen at once

libVars == <<files, meta, owner, activeDir, completer, deleter, recover, faulted, crossed, collided>>

Ids == 1 .. MaxIds
Dirs == {"recorded", "recording"}
Names == Dirs \X {BaseNames[i] : i \in DOMAIN BaseNames} \X Exts
Metas == Dirs \X {BaseNames[i] : i \in DOMAIN BaseNames}

NoCompletion == [pc |-> "idle", name |-> <<>>]
NoDelete == [pc |-> "idle", base |-> "", ext |-> "", saw |-> 0]

NoFiles == [n \in Names |-> 0]
NoMeta == [m \in Metas |-> Nobody]

\* An older version may have left a recording.
LibInit ==
  /\ \/ files = NoFiles /\ meta = NoMeta /\ owner = << >>
     \/ \E u \in Users, e \in Exts :
          /\ files = [NoFiles EXCEPT ![<<"recording", BaseNames[1], e>>] = 1]
          /\ meta = [NoMeta EXCEPT ![<<"recording", BaseNames[1]>>] = u]
          /\ owner = <<u>>
  /\ activeDir = {} /\ completer = [i \in Ids |-> NoCompletion] /\ deleter = [d \in Deleters |-> NoDelete]
  /\ recover = "start" /\ faulted = {} /\ crossed = {} /\ collided = {}

\* The recordings that this process has begun and not yet finished.
Unfinished == {i \in Ids : completer[i].pc # "idle"}

-----------------------------------------------------------------------------
(* A recording of the stream begins: its metadata takes the place of what  *)
(* is in "active".                                                         *)
Begin(u) ==
  LET id == Len(owner) + 1 IN
  /\ Len(owner) < MaxIds
  /\ owner' = Append(owner, u)
  /\ activeDir' = activeDir \cup {id}
  /\ completer' = [completer EXCEPT ![id].pc = "recording"]
  /\ crossed' = IF Unfinished = {} /\ recover' = "no" THEN crossed ELSE crossed \cup Unfinished \cup {id}
  /\ UNCHANGED <<files, meta, deleter, faulted, collided>>

WriteSessionMeta(u) == recover' = recover /\ Begin(u)

Complete(i, from, to) == completer[i].pc = from /\ completer' = [completer EXCEPT ![i].pc = to]
EndCompletion(i) == completer' = [completer EXCEPT ![i] = NoCompletion]

(* CompleteRecording: the first name that is free, *)
FreeBase(i, ext) ==
  /\ files[<<"recorded", BaseNames[i], ext>>] = 0
  /\ \A j \in 1 .. i - 1 : files[<<"recorded", BaseNames[j], ext>>] # 0

Choose(i, name) ==
  /\ completer[i].pc = "recording"
  /\ completer' = [completer EXCEPT ![i] = [pc |-> "move", name |-> name]]
  /\ collided' = IF \E j \in Ids \ {i} : completer[j].pc \in {"move", "copy"} /\ completer[j].name = name
                 THEN collided \cup {name} ELSE collided
  /\ UNCHANGED <<files, meta, owner, activeDir, deleter, recover, faulted, crossed>>

\* Slip: the name is taken whether it is free or not.
AnyName(i, ext) == Choose(i, <<"recorded", BaseNames[1], ext>>)

CompleteRecording(i, ext) ==
  \E b \in DOMAIN BaseNames : FreeBase(b, ext) /\ Choose(i, <<"recorded", BaseNames[b], ext>>)

(* or none, when every name is taken, or the session has gone before;      *)
(* the file is moved to that name, over what is there by now, or copied    *)
(* when it cannot be moved, unless there is none.  Without it all stays as *)
(* it is, "active" too.                                                    *)
GiveUp(i) ==
  /\ completer[i].pc \in {"recording", "move"}
  /\ EndCompletion(i)
  /\ UNCHANGED <<files, meta, owner, activeDir, deleter, recover, faulted, crossed, collided>>

moveOrCopy(i) ==
  /\ \/ Complete(i, "move", "meta")
     \/ Complete(i, "move", "copy")
  /\ activeDir # {}
  /\ files' = [files EXCEPT ![completer[i].name] = i]
  /\ UNCHANGED <<meta, owner, activeDir, deleter, recover, faulted, crossed, collided>>

\* A copy that fails is removed.
CopyEnds(i) ==
  /\ \/ Complete(i, "copy", "meta") /\ UNCHANGED files
     \/ /\ completer[i].pc = "copy" /\ EndCompletion(i)
        /\ files' = [files EXCEPT ![completer[i].name] = 0]
  /\ UNCHANGED <<meta, owner, activeDir, deleter, recover, faulted, crossed, collided>>

(* Other recordings with the base of this one, and so its metadata. *)
Twins(n) == {m \in Names : m # n /\ m[1] = n[1] /\ m[2] = n[2] /\ files[m] # 0}

(* Its metadata is written, a failure of which is only logged, *)
WriteMeta(i) ==
  LET n == completer[i].name IN
  /\ Complete(i, "meta", "clean")
  /\ \/ /\ meta' = [meta EXCEPT ![<<n[1], n[2]>>] = owner[i]]
        /\ faulted' = IF files[n] = i THEN (faulted \cup Twins(n)) \ {n} ELSE faulted \cup Twins(n) \cup {n}
     \/ faulted' = faulted \cup {n} /\ UNCHANGED meta
  /\ UNCHANGED <<files, owner, activeDir, deleter, recover, crossed, collided>>

(* and "active" is removed, whoever records there by now. *)
RemoveActive(i) ==
  /\ completer[i].pc = "clean" /\ EndCompletion(i)
  /\ activeDir' = {}
  /\ UNCHANGED <<files, meta, owner, deleter, recover, faulted, crossed, collided>>

-----------------------------------------------------------------------------
(* Reading: a recording without metadata is listed for everyone, but is    *)
(* played or deleted by nobody but an administrator.                       *)

scanRecordingDir(u) ==
  {n \in Names : files[n] # 0 /\ meta[<<n[1], n[2]>>] \in {Nobody, u}}

GetMeta(base) ==
  IF meta[<<"recorded", base>>] # Nobody THEN meta[<<"recorded", base>>]
  ELSE meta[<<"recording", base>>]

FilePath(base, ext) ==
  IF files[<<"recorded", base, ext>>] # 0 THEN files[<<"recorded", base, ext>>]
  ELSE files[<<"recording", base, ext>>]

Authorized(u, base) == GetMeta(base) = u

Goto(d, from, to) == deleter[d].pc = from /\ deleter' = [deleter EXCEPT ![d].pc = to]

DeleteCompletedRecording(d, u, isAdmin, base, ext) ==
  /\ deleter[d].pc = "idle" /\ (isAdmin \/ Authorized(u, base))
  /\ deleter' = [deleter EXCEPT ![d] = [NoDelete EXCEPT !.pc = "file", !.base = base, !.ext = ext]]
  /\ UNCHANGED <<files, meta, owner, activeDir, completer, recover, faulted, crossed, collided>>

(* Delete: a file that is not in "recorded" is not looked for elsewhere. *)
DeleteFile(d) ==
  /\ Goto(d, "file", "meta")
  /\ files' = [files EXCEPT ![<<"recorded", deleter[d].base, deleter[d].ext>>] = 0]
  /\ UNCHANGED <<meta, owner, activeDir, completer, recover, faulted, crossed, collided>>

DeleteMeta(d) ==
  /\ Goto(d, "meta", "look")
  /\ meta' = [meta EXCEPT ![<<"recorded", deleter[d].base>>] = Nobody]
  /\ UNCHANGED <<files, owner, activeDir, completer, recover, faulted, crossed, collided>>

ProbeOnly == (\A n \in Names : files[n] = 0) /\ (\A m \in Metas : meta[m] = Nobody) /\ activeDir = {}

LookAtDir(d) ==
  /\ deleter[d].pc = "look"
  /\ deleter' = [deleter EXCEPT ![d].pc = IF ProbeOnly THEN "rmdir" ELSE "idle",
                                ![d].saw = Len(owner)]
  /\ UNCHANGED <<files, meta, owner, activeDir, completer, recover, faulted, crossed, collided>>

RemoveDir(d) ==
  /\ Goto(d, "rmdir", "idle")
  /\ files' = NoFiles /\ meta' = NoMeta
  /\ activeDir' = {}
  /\ UNCHANGED <<owner, completer, recover, faulted, crossed, collided>>

-----------------------------------------------------------------------------
(* Completions and requests end with the process; the files stay as they   *)
(* are, that of a copy in part.                                            *)
Crash ==
  /\ faulted' = faulted \cup {completer[i].name : i \in {j \in Ids : completer[j].pc \in {"copy", "meta"}}}
  /\ completer' = [i \in Ids |-> NoCompletion] /\ deleter' = [d \in Deleters |-> NoDelete]
  /\ recover' = "start"
  /\ UNCHANGED <<files, meta, owner, activeDir, crossed, collided>>

(* RecoverRecordings, beside the requests of a program that has started:   *)
(* what is in "active", from before or since, is listed,                   *)
ListActiveRecordings ==
  /\ recover = "start"
  /\ recover' = IF activeDir = {} THEN "no" ELSE "listed"
  /\ UNCHANGED <<files, meta, owner, activeDir, completer, deleter, faulted, crossed, collided>>

(* and removed, when its time is over or its channel records already, or   *)
(* else recorded on.                                                       *)
RemoveActiveSession ==
  /\ recover = "listed" /\ recover' = "no"
  /\ activeDir' = {}
  /\ UNCHANGED <<files, meta, owner, completer, deleter, faulted, crossed, collided>>

RecordOn ==
  /\ recover = "listed" /\ recover' = "no"
  /\ \E i \in activeDir : (\A j \in activeDir : j <= i) /\ Begin(owner[i])

LibSteps ==
  \/ \E i \in Ids : moveOrCopy(i) \/ CopyEnds(i) \/ WriteMeta(i) \/ RemoveActive(i) \/ GiveUp(i)
  \/ \E d \in Deleters : DeleteFile(d) \/ DeleteMeta(d) \/ LookAtDir(d) \/ RemoveDir(d)
  \/ ListActiveRecordings \/ RemoveActiveSession \/ RecordOn

LibRequests ==
  \/ \E u \in Users : WriteSessionMeta(u)
  \/ \E i \in Ids, e \in Exts : CompleteRecording(i, e)
  \/ Crash
  \/ \E d \in Deleters, u \in Users, isAdmin \in BOOLEAN, b \in DOMAIN BaseNames, e \in Exts :
       DeleteCompletedRecording(d, u, isAdmin, BaseNames[b], e)

LibSpec == LibInit /\ [][LibSteps \/ LibRequests]_libVars

-----------------------------------------------------------------------------
(* A finished recording is listed for and played by its owner only, but    *)
(* where its metadata is not written yet, could not be (the write failed   *)
(* or a crash came before it), is that of another recording with the same  *)
(* base, or was removed by a deletion that crossed with the completion     *)
(* (List, GetCompletedRecordingPath, CompleteRecording, Delete).           *)
OnlyOwnersPlay ==
  \A u \in Users, n \in Names :
    (/\ n[1] = "recorded" /\ files[n] # 0 /\ n \notin faulted
     /\ ~ \E i \in Ids : completer[i].pc \in {"copy", "meta"} /\ completer[i].name = n
     /\ meta[<<n[1], n[2]>>] # Nobody
     /\ Authorized(u, n[2]) \/ n \in scanRecordingDir(u))
    => owner[FilePath(n[2], n[3])] = u

(* A finished recording is taken from the library only by a deletion of    *)
(* its name, or with the stream's directory, but where two completions     *)
(* chose one name at once (CompleteRecording looks for a free name, and    *)
(* moves the file over whatever has it by then).                           *)
KeptUntilDeleted ==
  [][\A n \in Names \ collided :
       (/\ files[n] # 0 /\ files'[n] # files[n]
        /\ ~ \E i \in Ids : completer[i].pc = "copy" /\ completer[i].name = n) =>
         \E d \in Deleters : \/ deleter[d].pc = "rmdir"
                             \/ /\ deleter[d].pc = "file"
                                /\ n = <<"recorded", deleter[d].base, deleter[d].ext>>]_libVars

(* A recording that is the stream's only one from its beginning on, and    *)
(* did not begin while a start still recovered, keeps its directory until  *)
(* its own completion removes it, but for a deletion that looked at the    *)
(* directory before it began (Delete reads the directory, then removes all *)
(* of it; CompleteRecording and RecoverRecordings remove "active" whoever  *)
(* has it by then).                                                        *)
SessionKept ==
  [][\A i \in activeDir \ activeDir' :
       i \in Unfinished \ crossed =>
         \/ completer[i].pc = "clean"
         \/ \E d \in Deleters : deleter[d].pc = "rmdir" /\ deleter[d].saw < i]_libVars

(* Whatever completions, deletions, recordings, recoveries and crashes     *)
(* interleave, with the exceptions that each part names: a finished        *)
(* recording is its owner's and stays until it is deleted, and a recording *)
(* under way keeps its directory.                                          *)
RecordingsKept == []OnlyOwnersPlay /\ KeptUntilDeleted /\ SessionKept
=============================================================================
