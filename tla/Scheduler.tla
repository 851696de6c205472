----------------------------- MODULE Scheduler -----------------------------
(***************************************************************************)
(* Scheduled recordings in tvproxy: SchedulerService over the scheduled    *)
(* recording store, ticked by SchedulerWorker, beside the API requests     *)
(* that schedule and delete, on top of what VODService promises            *)
(* (RecordingContract).                                                    *)
(*                                                                         *)
(* The store is a file written on every change, so a crash loses only the  *)
(* calls under way.  Every store access and every call of VODService is a  *)
(* step of its own; the lists of a tick are worked off in any order.       *)
(***************************************************************************)
EXTENDS RecordingContract, TLC

CONSTANTS
  Schedules,   \* identities of scheduled recordings (uuids, used once)
  Manual,      \* the owner of a recording that no schedule started
  Users,
  Windows,     \* the programs: pairs of start and stop time
  StartCutoff, LeadTime, RecordStopBuffer

ASSUME SchedulerAssumption ==
  /\ Manual \notin Schedules /\ RecIds = Schedules \cup {Manual}
  /\ Windows \subseteq [start : Nat, stop : Nat]
  /\ StartCutoff \in Nat /\ LeadTime \in Nat /\ RecordStopBuffer \in Nat
  /\ \A w \in Windows : w.stop + RecordStopBuffer <= MaxTime

VARIABLES
  now,      \* time.Now()
  status,   \* of a schedule; "none", "checked" and "deleted" are not in the store
  rec,      \* what it asks for, once it is checked
  calls,    \* startRecording calls and status updates under way
  deletes,  \* Delete calls under way
  phase,    \* where the worker's Tick is
  tickNow,  \* the time that startPendingRecordings read first, 0 when it is done
  todo      \* the rest of the list it works on

schedVars == <<status, rec, calls, deletes>>
workerVars == <<phase, tickNow, todo>>
vars == <<contractVars, now, schedVars, workerVars>>

Stored == {"pending", "recording", "completed", "failed"}
Requests == [ch : Channels, user : Users, start : Nat, stop : Nat]
CallSteps == {"mark", "start", "fail", "complete", "look"}

InStore(id) == status[id] \in Stored
WithStatus(st) == {id \in Schedules : status[id] = st}

Init ==
  /\ ContractInit
  /\ now = 0
  /\ status = [id \in Schedules |-> "none"]
  /\ rec = [id \in Schedules |-> None]
  /\ calls = {} /\ deletes = {}
  /\ phase = "idle" /\ tickNow = 0 /\ todo = {}

-----------------------------------------------------------------------------
(* The store *)

\* updateField changes only a schedule that is there.  (Slip: it writes one
\* that is not.)
Upsert(id, st) == status' = [status EXCEPT ![id] = st]
UpdateStatus(id, st) ==
  status' = IF InStore(id) THEN [status EXCEPT ![id] = st] ELSE status

\* ListByChannelAndTimeRange
Overlapping(r) ==
  {id \in WithStatus("pending") \cup WithStatus("recording") :
     /\ rec[id].ch = r.ch /\ rec[id].user = r.user
     /\ rec[id].start < r.stop /\ rec[id].stop > r.start}

-----------------------------------------------------------------------------
(* startRecording *)

\* The order of its steps: the status first, then VODService.  (Slip: the
\* recording is started before the schedule is marked.)
StartFirst == "start"
FirstStep == "mark"

Call(by, id, step) == [by |-> by, id |-> id, step |-> step]
MoveTo(c, step) == calls' = (calls \ {c}) \cup {[c EXCEPT !.step = step]}
Return(c) == calls' = calls \ {c}

\* A schedule that is no longer in the store is not started.
MarkRecording(c) ==
  /\ up /\ c \in calls /\ c.step = "mark"
  /\ UpdateStatus(c.id, "recording")
  /\ \/ InStore(c.id) /\ MoveTo(c, "start")
     \/ ~InStore(c.id) /\ Return(c)
  /\ UNCHANGED <<contractVars, now, rec, deletes, workerVars>>

StopTime(id) == rec[id].stop + RecordStopBuffer

\* VODService.StartRecording: started, ErrAlreadyRecording, or another error.
StartVod(c) ==
  /\ up /\ c \in calls /\ c.step = "start"
  /\ \/ /\ Start(rec[c.id].ch, c.id, StopTime(c.id))
        /\ Return(c)
     \/ /\ recordings[rec[c.id].ch] # None
        /\ Return(c) /\ UNCHANGED contractVars
     \/ /\ recordings[rec[c.id].ch] = None
        /\ MoveTo(c, "fail") /\ UNCHANGED contractVars
  /\ UNCHANGED <<now, status, rec, deletes, workerVars>>

\* The last UpdateStatus of a call that failed, or of a schedule that is over.
Conclude(c) ==
  /\ up /\ c \in calls
  /\ \/ c.step = "fail" /\ UpdateStatus(c.id, "failed")
     \/ c.step = "complete" /\ UpdateStatus(c.id, "completed")
  /\ Return(c)
  /\ UNCHANGED <<contractVars, now, rec, deletes, workerVars>>

-----------------------------------------------------------------------------
(* The API *)

\* Schedule up to its checks.
ScheduleCheck(id, r) ==
  /\ up /\ status[id] = "none"
  /\ r.start + StartCutoff >= now /\ r.stop > r.start
  /\ Overlapping(r) = {}
  /\ status' = [status EXCEPT ![id] = "checked"]
  /\ rec' = [rec EXCEPT ![id] = r]
  /\ UNCHANGED <<contractVars, now, calls, deletes, workerVars>>

\* Create; a program that starts now or soon is started by the request.
ScheduleCreate(id) ==
  /\ up /\ status[id] = "checked"
  /\ status' = [status EXCEPT ![id] = "pending"]
  /\ \/ /\ rec[id].start < now + LeadTime
        /\ calls' = calls \cup {Call("api", id, FirstStep)}
     \/ /\ rec[id].start >= now + LeadTime
        /\ UNCHANGED calls
  /\ UNCHANGED <<contractVars, now, rec, deletes, workerVars>>

\* Delete reads the schedule, stops the channel if it was recording by then,
\* and drops the schedule.
DeleteRead(id) ==
  /\ up /\ InStore(id) /\ \A d \in deletes : d.id # id
  /\ deletes' = deletes \cup
       {[id |-> id, step |-> IF status[id] = "recording" THEN "stop" ELSE "drop"]}
  /\ UNCHANGED <<contractVars, now, status, rec, calls, workerVars>>

DeleteStop(d) ==
  /\ up /\ d \in deletes /\ d.step = "stop"
  /\ deletes' = (deletes \ {d}) \cup {[d EXCEPT !.step = "drop"]}
  /\ \/ Stop(rec[d.id].ch)
     \/ recordings[rec[d.id].ch] = None /\ UNCHANGED contractVars
  /\ UNCHANGED <<now, status, rec, calls, workerVars>>

DeleteDrop(d) ==
  /\ up /\ d \in deletes /\ d.step = "drop"
  /\ deletes' = deletes \ {d}
  /\ status' = [status EXCEPT ![d.id] = "deleted"]
  /\ UNCHANGED <<contractVars, now, rec, calls, workerVars>>

-----------------------------------------------------------------------------
(* Tick *)

WorkerFree == \A c \in calls : c.by # "worker"

\* A schedule is over after its stop time.
Over(id, t) == rec[id].stop < t

\* startPendingRecordings: first the pending schedules that were missed...
TickBegin ==
  /\ up /\ phase = "idle"
  /\ phase' = "expire" /\ tickNow' = now
  /\ todo' = {id \in WithStatus("pending") : Over(id, now)}
  /\ UNCHANGED <<contractVars, now, schedVars>>

ExpireOne(id) ==
  /\ up /\ phase = "expire" /\ id \in todo
  /\ todo' = todo \ {id}
  /\ status' = [status EXCEPT ![id] = "deleted"]
  /\ UNCHANGED <<contractVars, now, rec, calls, deletes, phase, tickNow>>

\* ... then those that are due.
ListPending ==
  /\ up /\ phase = "expire" /\ todo = {}
  /\ phase' = "pending"
  /\ todo' = {id \in WithStatus("pending") : rec[id].start <= tickNow}
  /\ tickNow' = 0
  /\ UNCHANGED <<contractVars, now, schedVars>>

PendingOne(id) ==
  /\ up /\ phase = "pending" /\ id \in todo /\ WorkerFree
  /\ todo' = todo \ {id}
  /\ calls' = calls \cup {Call("worker", id, FirstStep)}
  /\ UNCHANGED <<contractVars, now, status, rec, deletes, phase, tickNow>>

\* monitorActiveRecordings
ListActive ==
  /\ up /\ phase = "pending" /\ todo = {} /\ WorkerFree
  /\ phase' = "active"
  /\ todo' = WithStatus("recording")
  /\ UNCHANGED <<contractVars, now, schedVars, tickNow>>

\* A schedule that is over stops whatever its channel records.
MonitorStop(id) ==
  /\ up /\ phase = "active" /\ id \in todo /\ WorkerFree
  /\ Over(id, now)
  /\ todo' = todo \ {id}
  /\ calls' = calls \cup {Call("worker", id, "complete")}
  /\ \/ Stop(rec[id].ch)
     \/ recordings[rec[id].ch] = None /\ UNCHANGED contractVars
  /\ UNCHANGED <<now, status, rec, deletes, phase, tickNow>>

\* One that goes on is started again if its channel has no session, unless
\* its time has run out since.
MonitorGoesOn(id) ==
  /\ up /\ phase = "active" /\ id \in todo /\ WorkerFree
  /\ ~Over(id, now)
  /\ todo' = todo \ {id}
  /\ calls' = calls \cup {Call("worker", id, "look")}
  /\ UNCHANGED <<contractVars, now, status, rec, deletes, phase, tickNow>>

MonitorLook(c) ==
  /\ up /\ c \in calls /\ c.step = "look"
  /\ \/ rec[c.id].ch \in sessions /\ Return(c)
     \/ /\ rec[c.id].ch \notin sessions
        /\ MoveTo(c, IF Over(c.id, now) THEN "fail" ELSE FirstStep)
  /\ UNCHANGED <<contractVars, now, status, rec, deletes, workerVars>>

TickEnd ==
  /\ up /\ phase = "active" /\ todo = {} /\ WorkerFree
  /\ phase' = "idle"
  /\ UNCHANGED <<contractVars, now, schedVars, tickNow, todo>>

-----------------------------------------------------------------------------
(* The rest of the process *)

Advance ==
  /\ now < MaxTime
  /\ now' = now + 1
  /\ UNCHANGED <<contractVars, schedVars, workerVars>>

\* Recordings of the record button and of RecoverRecordings, stops by users,
\* and sessions that come and go.  A recording may be stopped at any time, so
\* one stop time stands for all that lie ahead.
Others ==
  /\ \E ch \in Channels :
       \/ Start(ch, Manual, MaxTime)
       \/ Stop(ch) \/ SessionComes(ch) \/ SessionGoes(ch)
  /\ UNCHANGED <<now, schedVars, workerVars>>

\* The auto-stop timer of a recording.
Due(ch) == recordings[ch].stop <= now

AutoStop(ch) ==
  /\ recordings[ch] # None /\ Due(ch)
  /\ Stop(ch)
  /\ UNCHANGED <<now, schedVars, workerVars>>

Crash ==
  /\ Down
  /\ status' = [id \in Schedules |-> IF status[id] = "checked" THEN "deleted" ELSE status[id]]
  /\ calls' = {} /\ deletes' = {}
  /\ phase' = "idle" /\ tickNow' = 0 /\ todo' = {}
  /\ UNCHANGED <<now, rec>>

Restart == Up /\ UNCHANGED <<now, schedVars, workerVars>>

-----------------------------------------------------------------------------
ApiStep ==
  \/ \E id \in Schedules :
       \/ \E ch \in Channels, u \in Users, w \in Windows :
            ScheduleCheck(id, [ch |-> ch, user |-> u, start |-> w.start, stop |-> w.stop])
       \/ ScheduleCreate(id) \/ DeleteRead(id)
  \/ \E d \in deletes : DeleteStop(d) \/ DeleteDrop(d)

CallStep(c) == MarkRecording(c) \/ StartVod(c) \/ Conclude(c) \/ MonitorLook(c)

TickStep ==
  \/ TickBegin \/ ListPending \/ ListActive \/ TickEnd
  \/ \E id \in todo : ExpireOne(id) \/ PendingOne(id) \/ MonitorStop(id) \/ MonitorGoesOn(id)

Next ==
  \/ ApiStep \/ (\E c \in calls : CallStep(c)) \/ TickStep
  \/ Advance \/ Others \/ (\E ch \in Channels : AutoStop(ch)) \/ Crash \/ Restart

Spec == Init /\ [][Next]_vars

\* The worker's ticker, its calls, the timers and the clock go on; users,
\* viewers and crashes are free, and a request may stall anywhere.
FairSpec ==
  /\ Spec
  /\ WF_vars(Advance)
  /\ WF_vars(TickStep)
  /\ WF_vars(\E c \in calls : c.by = "worker" /\ CallStep(c))
  /\ WF_vars(\E ch \in Channels : AutoStop(ch))

-----------------------------------------------------------------------------
(* Properties *)

\* Every variable has its type.
TypeOK ==
  /\ up \in BOOLEAN /\ sessions \subseteq Channels
  /\ recordings \in [Channels -> Entries \cup {None}]
  /\ now \in Times /\ tickNow \in Times
  /\ status \in [Schedules -> Stored \cup {"none", "checked", "deleted"}]
  /\ rec \in [Schedules -> Requests \cup {None}]
  /\ calls \subseteq [by : {"api", "worker"}, id : Schedules, step : CallSteps]
  /\ deletes \subseteq [id : Schedules, step : {"stop", "drop"}]
  /\ phase \in {"idle", "expire", "pending", "active"}
  /\ todo \subseteq Schedules

\* A schedule is marked in the store before its recording runs, so that after
\* a crash at any point monitorActiveRecordings knows of it and
\* startPendingRecordings does not start it a second time.
MarkedBeforeStarted ==
  \A ch \in Channels :
    (recordings[ch] # None /\ recordings[ch].id \in Schedules)
      => status[recordings[ch].id] \notin {"none", "checked", "pending"}

\* What the scheduler keeps true at every moment, crashes included: its types,
\* and that every recording it started is marked in the store.
ScheduleInvariant == TypeOK /\ MarkedBeforeStarted

\* No late UpdateStatus, of a tick or of a request, brings a deleted schedule
\* back.
DeletedIsFinal ==
  [][\A id \in Schedules : status[id] = "deleted" => status'[id] = "deleted"]_vars

\* Every schedule comes to an end while the process stays up: it is missed and
\* removed, completed, failed or deleted.
EventuallyResolved ==
  <>[]up => \A id \in Schedules :
              status[id] \in {"pending", "recording"}
                ~> status[id] \in {"completed", "failed", "deleted"}

\* A recording that a schedule started ends, even if the schedule is deleted
\* or completed while it is being started.
ScheduledRecordingEnds ==
  \A ch \in Channels, id \in Schedules :
    (recordings[ch] # None /\ recordings[ch].id = id)
      ~> (recordings[ch] = None \/ recordings[ch].id # id)

-----------------------------------------------------------------------------
\* For the run: programs of one and two time units, one after the other and
\* overlapping, and schedules whose identities are opaque uuids.
MCWindows == {[start |-> 0, stop |-> 1], [start |-> 1, stop |-> 2], [start |-> 0, stop |-> 2]}
Symmetry == Permutations(Schedules)

=============================================================================
