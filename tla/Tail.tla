-------------------------------- MODULE Tail --------------------------------
(***************************************************************************)
(* Readers of a session's growing file: tailSession waits for the file     *)
(* (pkg/session/manager.go), TailReader follows it (pkg/session/tail.go),  *)
(* while the pipeline goroutine writes and ends and viewers seek           *)
(* (Session.Seek, pkg/session/session.go).                                 *)
(*                                                                         *)
(* The file is a sequence of writes.  A write is known by the seek version *)
(* at which it was made: the version is raised before the demuxer is asked *)
(* to move, so packets of the old position may still follow.               *)
(***************************************************************************)
EXTENDS Naturals, Sequences

CONSTANTS
  Readers,
  FileRetryCount,  \* Settings.VOD.FileRetryCount
  MaxWrites,       \* bound on the writes of the pipeline
  MaxVersion       \* bound on the seeks

VARIABLES
  file,     \* the writes so far
  isDone,   \* Session.isDone
  isFailed, \* Session.getError is set
  version,  \* Session.seekVersion
  viewer    \* per viewer: its step, tries, version, offset, what it got last

tailVars == <<file, isDone, isFailed, version, viewer>>

(* pc: what it does next, or how it ended ("eof", "error").  seen: length  *)
(* of the file when it last read; last: the version of the write it        *)
(* delivered last; left: the viewer's request is cancelled.                *)
NewViewer == [pc |-> "idle", tries |-> 0, version |-> 0, offset |-> 0, seen |-> 0,
              last |-> 0, left |-> FALSE]

TailInit ==
  /\ file = << >> /\ isDone = FALSE /\ isFailed = FALSE /\ version = 0
  /\ viewer = [v \in Readers |-> NewViewer]

Move(v, from, with) == viewer[v].pc = from /\ viewer' = [viewer EXCEPT ![v] = with]

-----------------------------------------------------------------------------
(* The pipeline goroutine and the session.                                 *)

WriteFile ==
  /\ ~isDone /\ Len(file) < MaxWrites
  /\ file' = Append(file, version)
  /\ UNCHANGED <<isDone, isFailed, version, viewer>>

MarkDone ==
  /\ ~isDone /\ isDone' = TRUE /\ isFailed' \in BOOLEAN
  /\ UNCHANGED <<file, version, viewer>>

Seek ==
  /\ version < MaxVersion /\ version' = version + 1
  /\ UNCHANGED <<file, isDone, isFailed, viewer>>

-----------------------------------------------------------------------------
(* tailSession.                                                            *)

TailFile(v) ==
  /\ Move(v, "idle", [viewer[v] EXCEPT !.pc = "open"])
  /\ UNCHANGED <<file, isDone, isFailed, version>>

(* newTailReader: a session that was sought in is followed from its end.   *)
\* Slip: every reader starts at the beginning of the file.
FromStart(v) ==
  /\ file # << >> /\ viewer[v].tries < FileRetryCount
  /\ Move(v, "open", [viewer[v] EXCEPT !.pc = "read", !.version = version])
  /\ UNCHANGED <<file, isDone, isFailed, version>>

newTailReader(v) ==
  /\ file # << >> /\ viewer[v].tries < FileRetryCount
  /\ Move(v, "open", [viewer[v] EXCEPT !.pc = "read", !.version = version,
                                       !.offset = IF version > 0 THEN Len(file) ELSE 0])
  /\ UNCHANGED <<file, isDone, isFailed, version>>

NoFileYet(v) ==
  /\ file = << >> /\ viewer[v].tries < FileRetryCount
  /\ Move(v, "open", [viewer[v] EXCEPT !.pc = "absent"])
  /\ UNCHANGED <<file, isDone, isFailed, version>>

WaitForFile(v) ==
  /\ Move(v, "absent",
          [viewer[v] EXCEPT !.pc = IF isDone \/ viewer[v].left THEN "error" ELSE "open",
                            !.tries = IF isDone \/ viewer[v].left THEN @ ELSE @ + 1])
  /\ UNCHANGED <<file, isDone, isFailed, version>>

GiveUp(v) ==
  /\ viewer[v].tries = FileRetryCount
  /\ Move(v, "open", [viewer[v] EXCEPT !.pc = "error"])
  /\ UNCHANGED <<file, isDone, isFailed, version>>

-----------------------------------------------------------------------------
(* TailReader.Read: the version, the file, the end of the session, in this *)
(* order, each looked at by itself.                                        *)

SeeVersion(v) ==
  /\ Move(v, "read",
          [viewer[v] EXCEPT !.pc = "data", !.version = version,
                            !.offset = IF version # viewer[v].version THEN Len(file) ELSE @])
  /\ UNCHANGED <<file, isDone, isFailed, version>>

\* Slip: the last write is taken for unfinished.
LeavesLast(v) ==
  LET at == viewer[v].offset
  IN  /\ Move(v, "data",
              IF at + 1 < Len(file)
              THEN [viewer[v] EXCEPT !.pc = "read", !.offset = at + 1, !.seen = Len(file),
                                     !.last = file[at + 1]]
              ELSE [viewer[v] EXCEPT !.pc = "end", !.seen = Len(file)])
      /\ UNCHANGED <<file, isDone, isFailed, version>>

ReadFile(v) ==
  LET at == viewer[v].offset
  IN  /\ Move(v, "data",
              IF at < Len(file)
              THEN [viewer[v] EXCEPT !.pc = "read", !.offset = at + 1, !.seen = Len(file),
                                     !.last = file[at + 1]]
              ELSE [viewer[v] EXCEPT !.pc = "end", !.seen = Len(file)])
      /\ UNCHANGED <<file, isDone, isFailed, version>>

SeeDone(v) ==
  /\ Move(v, "end", [viewer[v] EXCEPT !.pc = CASE isDone -> "eof"
                                               [] ~isDone /\ viewer[v].left -> "error"
                                               [] OTHER -> "read"])
  /\ UNCHANGED <<file, isDone, isFailed, version>>

LeaveTail(v) ==
  /\ ~viewer[v].left
  /\ viewer' = [viewer EXCEPT ![v].left = TRUE]
  /\ UNCHANGED <<file, isDone, isFailed, version>>

ReaderSteps(v) == newTailReader(v) \/ NoFileYet(v) \/ WaitForFile(v) \/ GiveUp(v)
                  \/ SeeVersion(v) \/ ReadFile(v) \/ SeeDone(v)

TailNext ==
  \/ WriteFile \/ MarkDone \/ Seek
  \/ \E v \in Readers : TailFile(v) \/ ReaderSteps(v) \/ LeaveTail(v)

(* A viewer's request goroutine runs; nothing makes the session end.       *)
TailFairness == \A v \in Readers : WF_tailVars(ReaderSteps(v))

TailSpec == TailInit /\ [][TailNext]_tailVars /\ TailFairness

-----------------------------------------------------------------------------
(* A viewer told that the file is over has read all that was there when it *)
(* last read, unless a seek made it skip: only what was written between    *)
(* that read and the look at isDone is lost.                               *)
ReadToTheEnd == \A v \in Readers : viewer[v].pc = "eof" => viewer[v].offset = viewer[v].seen

(* After a reader has seen a seek it delivers nothing that was written     *)
(* before the seek was asked for.                                          *)
NothingOlder ==
  [][\A v \in Readers : viewer[v].pc = "data" /\ viewer'[v].pc = "read" =>
       viewer'[v].last >= viewer[v].version]_tailVars

(* A viewer of a session that is done gets its end, or an error, and is    *)
(* not left polling.                                                       *)
ReadersEnd ==
  \A v \in Readers : isDone /\ viewer[v].pc # "idle" ~> viewer[v].pc \in {"eof", "error"}
=============================================================================
