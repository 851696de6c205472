-------------------------- MODULE SchedulerProofs --------------------------
(***************************************************************************)
(* The safety of Scheduler for any channels, schedules, programs, margins  *)
(* and bound on the clock, on top of what RecordingContract promises.      *)
(*                                                                         *)
(* MarkedBeforeStarted is not inductive: a call that is about to start a   *)
(* recording has marked its schedule some steps ago, and meanwhile the     *)
(* schedule may have been deleted, failed or completed, but it never       *)
(* becomes pending again.                                                  *)
(***************************************************************************)
EXTENDS Scheduler, TLAPS

\* A status that only a schedule whose recording was never started has.
NotStarted == {"none", "checked", "pending"}

\* A call that has marked its schedule finds it marked, or gone, when it
\* starts the recording.
MarkedBeforeCalled ==
  \A c \in calls : c.step = "start" => status[c.id] \notin NotStarted

\* Whoever works on a schedule works on one that was created, and one that was
\* checked asks for a program whose recording ends within the clock.
RequestsKnown ==
  /\ \A c \in calls : status[c.id] # "none"
  /\ \A d \in deletes : status[d.id] # "none"
  /\ \A id \in todo : status[id] # "none"
  /\ \A id \in Schedules : status[id] # "none" =>
       rec[id] \in Requests /\ rec[id].stop + RecordStopBuffer <= MaxTime

\* The inductive invariant.
IInv == ScheduleInvariant /\ MarkedBeforeCalled /\ RequestsKnown

Statuses == Stored \cup {"none", "checked", "deleted"}
Calls == [by : {"api", "worker"}, id : Schedules, step : CallSteps]

-----------------------------------------------------------------------------
(* Lemmas *)

\* At the start nothing is scheduled.
LEMMA InitIInv == Init => IInv
<1> SUFFICES ASSUME Init PROVE IInv
  OBVIOUS
<1>1. 0 \in Times
  BY ContractAssumption DEF Times
<1>2. TypeOK
  BY <1>1 DEF Init, ContractInit, TypeOK
<1>3. MarkedBeforeStarted /\ MarkedBeforeCalled /\ RequestsKnown
  BY DEF Init, ContractInit, MarkedBeforeStarted, MarkedBeforeCalled, RequestsKnown
<1> QED BY <1>2, <1>3 DEF IInv, ScheduleInvariant

\* No step makes a schedule that left NotStarted come back to it, none forgets
\* a schedule, and none changes what a checked one asks for.
Onward ==
  /\ \A id \in Schedules : status[id] \notin NotStarted => status'[id] \notin NotStarted
  /\ \A id \in Schedules : status[id] # "none" => status'[id] # "none"
  /\ status' \in [Schedules -> Statuses]
  /\ rec' \in [Schedules -> Requests \cup {None}]
  /\ \A id \in Schedules : status'[id] # "none" =>
       rec'[id] \in Requests /\ rec'[id].stop + RecordStopBuffer <= MaxTime

\* UpdateStatus of a call moves a stored schedule on and creates none.
LEMMA UpdateOnward ==
  ASSUME IInv, NEW id \in Schedules, NEW st \in {"recording", "completed", "failed"},
         UpdateStatus(id, st), UNCHANGED rec
  PROVE  Onward
  BY DEF IInv, ScheduleInvariant, TypeOK, RequestsKnown, UpdateStatus, InStore, Stored, Onward, NotStarted, Statuses

\* Nothing moves a schedule back.
LEMMA StepOnward ==
  ASSUME IInv, [Next]_vars
  PROVE  Onward
<1> USE DEF IInv, ScheduleInvariant, schedVars, workerVars
<1>0. ASSUME UNCHANGED <<status, rec>> PROVE Onward
  BY <1>0 DEF TypeOK, RequestsKnown, Onward, Statuses
<1>1. ASSUME NEW id \in Schedules, NEW ch \in Channels, NEW u \in Users, NEW w \in Windows,
             ScheduleCheck(id, [ch |-> ch, user |-> u, start |-> w.start, stop |-> w.stop])
      PROVE  Onward
  <2> DEFINE r == [ch |-> ch, user |-> u, start |-> w.start, stop |-> w.stop]
  <2>1. r \in Requests /\ r.stop + RecordStopBuffer <= MaxTime
    BY SchedulerAssumption DEF Requests
  <2>2. /\ status[id] = "none" /\ status' = [status EXCEPT ![id] = "checked"]
        /\ rec' = [rec EXCEPT ![id] = r]
    BY <1>1 DEF ScheduleCheck
  <2> HIDE DEF r
  <2> QED BY <2>1, <2>2 DEF TypeOK, RequestsKnown, Onward, Statuses, NotStarted
<1>2. ASSUME NEW id \in Schedules, ScheduleCreate(id) PROVE Onward
  BY <1>2 DEF ScheduleCreate, TypeOK, RequestsKnown, Onward, Statuses, Stored, NotStarted
<1>3. ASSUME NEW id \in Schedules, DeleteRead(id) PROVE Onward
  BY <1>0, <1>3 DEF DeleteRead
<1>4. ASSUME NEW d \in deletes, DeleteStop(d) PROVE Onward
  BY <1>0, <1>4 DEF DeleteStop
<1>5. ASSUME NEW d \in deletes, DeleteDrop(d) PROVE Onward
  BY <1>5 DEF DeleteDrop, TypeOK, RequestsKnown, Onward, Statuses, NotStarted
<1>6. ASSUME NEW c \in calls, CallStep(c) PROVE Onward
  <2>1. c.id \in Schedules
    BY DEF TypeOK
  <2>2. CASE MarkRecording(c)
    BY <2>1, <2>2, UpdateOnward DEF MarkRecording
  <2>3. CASE StartVod(c) \/ MonitorLook(c)
    BY <1>0, <2>3 DEF StartVod, MonitorLook
  <2>4. CASE Conclude(c)
    BY <2>1, <2>4, UpdateOnward DEF Conclude
  <2> QED BY <1>6, <2>2, <2>3, <2>4 DEF CallStep
<1>7. ASSUME TickStep PROVE Onward
  <2>1. ASSUME NEW id \in todo, ExpireOne(id) PROVE Onward
    BY <2>1 DEF ExpireOne, TypeOK, RequestsKnown, Onward, Statuses, NotStarted
  <2>2. ASSUME NEW id \in todo, PendingOne(id) \/ MonitorStop(id) \/ MonitorGoesOn(id) PROVE Onward
    BY <1>0, <2>2 DEF PendingOne, MonitorStop, MonitorGoesOn
  <2>3. CASE TickBegin \/ ListPending \/ ListActive \/ TickEnd
    BY <1>0, <2>3 DEF TickBegin, ListPending, ListActive, TickEnd
  <2> QED BY <1>7, <2>1, <2>2, <2>3 DEF TickStep
<1>8. ASSUME Crash PROVE Onward
  BY <1>8 DEF Crash, TypeOK, RequestsKnown, Onward, Statuses, NotStarted
<1>9. ASSUME Advance \/ Others \/ (\E ch \in Channels : AutoStop(ch)) \/ Restart PROVE Onward
  BY <1>0, <1>9 DEF Advance, Others, AutoStop, Restart
<1>10. ASSUME UNCHANGED vars PROVE Onward
  BY <1>0, <1>10 DEF vars
<1> QED
  BY <1>1, <1>2, <1>3, <1>4, <1>5, <1>6, <1>7, <1>8, <1>9, <1>10 DEF Next, ApiStep

\* What VODService answers is a state it may be in.
ContractTypes ==
  /\ up \in BOOLEAN /\ sessions \subseteq Channels
  /\ recordings \in [Channels -> Entries \cup {None}]

\* A step of the service keeps its types.
LEMMA ContractStep ==
  ASSUME ContractTypes, NEW ch \in Channels,
         \/ \E id \in RecIds, stop \in Times : Start(ch, id, stop)
         \/ Stop(ch) \/ SessionComes(ch) \/ SessionGoes(ch) \/ Down \/ Up \/ UNCHANGED contractVars
  PROVE  ContractTypes'
<1> USE DEF ContractTypes
<1>1. ASSUME NEW id \in RecIds, NEW stop \in Times, Start(ch, id, stop) PROVE ContractTypes'
  <2>1. [id |-> id, stop |-> stop] \in Entries
    BY DEF Entries
  <2> QED BY <1>1, <2>1 DEF Start
<1>2. CASE Stop(ch)
  BY <1>2 DEF Stop
<1>3. CASE SessionComes(ch) \/ SessionGoes(ch)
  BY <1>3 DEF SessionComes, SessionGoes
<1>4. CASE Down \/ Up \/ UNCHANGED contractVars
  BY <1>4 DEF Down, Up, contractVars
<1> QED BY <1>1, <1>2, <1>3, <1>4

\* A call whose step starts a recording starts it for its own schedule, with a
\* stop time that the clock reaches.
LEMMA StartTypes ==
  ASSUME IInv, NEW c \in calls
  PROVE  /\ c \in Calls /\ c.id \in Schedules /\ c.id \in RecIds
         /\ rec[c.id].ch \in Channels /\ StopTime(c.id) \in Times
<1>1. c \in Calls /\ status[c.id] # "none"
  BY DEF IInv, ScheduleInvariant, TypeOK, Calls, RequestsKnown
<1>2. rec[c.id] \in Requests /\ rec[c.id].stop + RecordStopBuffer <= MaxTime
  BY <1>1 DEF Calls, IInv, RequestsKnown
<1> QED BY <1>1, <1>2, SchedulerAssumption, ContractAssumption DEF Calls, Requests, StopTime, Times

\* What the rest of a step writes.
OwnTypes ==
  /\ now \in Times /\ tickNow \in Times
  /\ calls \subseteq Calls
  /\ deletes \subseteq [id : Schedules, step : {"stop", "drop"}]
  /\ phase \in {"idle", "expire", "pending", "active"}
  /\ todo \subseteq Schedules

\* Every step keeps the types: of the service's variables by its contract, of
\* the store by StepOnward, and of the calls and lists here.
LEMMA TypeStep ==
  ASSUME IInv, [Next]_vars
  PROVE  TypeOK'
<1> USE DEF schedVars, workerVars
<1>a. TypeOK
  BY DEF IInv, ScheduleInvariant
<1>b. ContractTypes /\ OwnTypes
  BY <1>a DEF TypeOK, ContractTypes, OwnTypes, Calls
<1>c. 0 \in Times
  BY ContractAssumption DEF Times
<1>d. ASSUME NEW by \in {"api", "worker"}, NEW id \in Schedules, NEW step \in CallSteps
      PROVE  Call(by, id, step) \in Calls
  BY DEF Call, Calls
<1>e. FirstStep \in CallSteps
  BY DEF FirstStep, CallSteps
<1>f. ASSUME NEW c \in calls, NEW step \in CallSteps, MoveTo(c, step) \/ Return(c) PROVE calls' \subseteq Calls
  <2>1. c \in Calls
    BY <1>b DEF OwnTypes
  <2>2. [c EXCEPT !.step = step] \in Calls
    BY <2>1 DEF Calls
  <2> QED BY <1>b, <1>f, <2>2 DEF OwnTypes, MoveTo, Return
<1>1. ContractTypes'
  <2>1. ASSUME UNCHANGED contractVars PROVE ContractTypes'
    BY <1>b, <2>1 DEF ContractTypes, contractVars
  <2>2. ASSUME NEW c \in calls, CallStep(c) PROVE ContractTypes'
    <3>1. CASE StartVod(c)
      BY <1>b, <3>1, StartTypes, ContractStep DEF StartVod
    <3> QED BY <2>1, <2>2, <3>1 DEF CallStep, MarkRecording, Conclude, MonitorLook
  <2>3. ASSUME NEW d \in deletes, DeleteStop(d) PROVE ContractTypes'
    <3>1. d.id \in Schedules /\ status[d.id] # "none"
      BY <1>b DEF OwnTypes, IInv, RequestsKnown
    <3>2. rec[d.id].ch \in Channels
      BY <3>1 DEF IInv, RequestsKnown, Requests
    <3> QED BY <1>b, <2>3, <3>2, ContractStep DEF DeleteStop
  <2>4. ASSUME NEW id \in todo, MonitorStop(id) PROVE ContractTypes'
    <3>1. id \in Schedules /\ status[id] # "none"
      BY <1>b DEF OwnTypes, IInv, RequestsKnown
    <3>2. rec[id].ch \in Channels
      BY <3>1 DEF IInv, RequestsKnown, Requests
    <3> QED BY <1>b, <2>4, <3>2, ContractStep DEF MonitorStop
  <2>5. ASSUME ApiStep PROVE ContractTypes'
    BY <2>1, <2>3, <2>5 DEF ApiStep, ScheduleCheck, ScheduleCreate, DeleteRead, DeleteDrop
  <2>6. ASSUME TickStep PROVE ContractTypes'
    BY <2>1, <2>4, <2>6
    DEF TickStep, TickBegin, ListPending, ListActive, TickEnd, ExpireOne, PendingOne, MonitorGoesOn
  <2>7. ASSUME Others PROVE ContractTypes'
    <3>1. Manual \in RecIds /\ MaxTime \in Times
      BY SchedulerAssumption, ContractAssumption DEF Times
    <3> QED BY <1>b, <2>7, <3>1, ContractStep DEF Others
  <2>8. ASSUME NEW ch \in Channels, AutoStop(ch) PROVE ContractTypes'
    BY <1>b, <2>8, ContractStep DEF AutoStop
  <2>9. ASSUME Crash \/ Restart PROVE ContractTypes'
    BY <1>b, <2>9 DEF Crash, Restart, Down, Up, ContractTypes
  <2>10. ASSUME Advance \/ UNCHANGED vars PROVE ContractTypes'
    BY <2>1, <2>10 DEF Advance, vars
  <2> QED BY <2>2, <2>5, <2>6, <2>7, <2>8, <2>9, <2>10 DEF Next
<1>2. OwnTypes'
  <2>1. ASSUME UNCHANGED <<now, tickNow, calls, deletes, phase, todo>> PROVE OwnTypes'
    BY <1>b, <2>1 DEF OwnTypes
  <2>2. ASSUME NEW c \in calls, CallStep(c) PROVE OwnTypes'
    <3>1. calls' \subseteq Calls
      BY <2>2, <1>e, <1>f DEF CallStep, MarkRecording, StartVod, Conclude, MonitorLook, CallSteps
    <3>2. UNCHANGED <<now, tickNow, deletes, phase, todo>>
      BY <2>2 DEF CallStep, MarkRecording, StartVod, Conclude, MonitorLook
    <3> QED BY <1>b, <3>1, <3>2 DEF OwnTypes
  <2>3. ASSUME NEW id \in Schedules, ScheduleCreate(id) PROVE OwnTypes'
    BY <1>b, <1>d, <1>e, <2>3 DEF ScheduleCreate, OwnTypes
  <2>4. ASSUME NEW id \in Schedules, DeleteRead(id) PROVE OwnTypes'
    BY <1>b, <2>4 DEF DeleteRead, OwnTypes
  <2>5. ASSUME NEW d \in deletes, DeleteStop(d) \/ DeleteDrop(d) PROVE OwnTypes'
    <3>1. [d EXCEPT !.step = "drop"] \in [id : Schedules, step : {"stop", "drop"}]
      BY <1>b DEF OwnTypes
    <3> QED BY <1>b, <2>5, <3>1 DEF DeleteStop, DeleteDrop, OwnTypes
  <2>6. ASSUME ApiStep PROVE OwnTypes'
    <3>1. ASSUME NEW id \in Schedules, NEW r, ScheduleCheck(id, r) PROVE OwnTypes'
      BY <2>1, <3>1 DEF ScheduleCheck
    <3> QED BY <2>3, <2>4, <2>5, <2>6, <3>1 DEF ApiStep
  <2>7. ASSUME TickBegin \/ ListPending \/ ListActive \/ TickEnd PROVE OwnTypes'
    BY <1>b, <1>c, <2>7 DEF TickBegin, ListPending, ListActive, TickEnd, OwnTypes, WithStatus
  <2>8. ASSUME NEW id \in todo, ExpireOne(id) \/ PendingOne(id) \/ MonitorStop(id) \/ MonitorGoesOn(id)
        PROVE  OwnTypes'
    <3>1. id \in Schedules
      BY <1>b DEF OwnTypes
    <3>2. Call("worker", id, FirstStep) \in Calls /\ Call("worker", id, "complete") \in Calls /\ Call("worker", id, "look") \in Calls
      BY <1>d, <1>e, <3>1 DEF CallSteps
    <3> QED BY <1>b, <2>8, <3>2 DEF ExpireOne, PendingOne, MonitorStop, MonitorGoesOn, OwnTypes
  <2>9. ASSUME TickStep PROVE OwnTypes'
    BY <2>7, <2>8, <2>9 DEF TickStep
  <2>10. ASSUME Advance PROVE OwnTypes'
    BY <1>b, <2>10, ContractAssumption DEF Advance, OwnTypes, Times
  <2>11. ASSUME Crash PROVE OwnTypes'
    BY <1>b, <1>c, <2>11 DEF Crash, OwnTypes
  <2>12. ASSUME Others \/ (\E ch \in Channels : AutoStop(ch)) \/ Restart \/ UNCHANGED vars PROVE OwnTypes'
    BY <2>1, <2>12 DEF Others, AutoStop, Restart, vars
  <2> QED BY <2>2, <2>6, <2>9, <2>10, <2>11, <2>12 DEF Next
<1>3. Onward
  BY StepOnward
<1> QED BY <1>1, <1>2, <1>3 DEF ContractTypes, OwnTypes, Onward, TypeOK, Calls, Statuses

-----------------------------------------------------------------------------
(* The invariant *)

\* Whoever starts to work on a schedule has found it in the store, and nobody
\* forgets a schedule that somebody works on.
LEMMA KnownStep ==
  ASSUME IInv, [Next]_vars
  PROVE  RequestsKnown'
<1> USE DEF schedVars, workerVars
<1>0. Onward
  BY StepOnward
<1>a. /\ calls \subseteq Calls /\ deletes \subseteq [id : Schedules, step : {"stop", "drop"}]
      /\ todo \subseteq Schedules /\ status \in [Schedules -> Statuses]
  BY DEF IInv, ScheduleInvariant, TypeOK, Calls, Statuses
<1>b. RequestsKnown
  BY DEF IInv
<1>c. ASSUME \A c \in calls' : c.id \in Schedules /\ (status[c.id] # "none" \/ status'[c.id] # "none"),
             \A d \in deletes' : d.id \in Schedules /\ status[d.id] # "none",
             \A id \in todo' : id \in Schedules /\ status[id] # "none"
      PROVE  RequestsKnown'
  BY <1>0, <1>c DEF RequestsKnown, Onward
<1>d. /\ \A c \in calls : c.id \in Schedules /\ status[c.id] # "none"
      /\ \A d \in deletes : d.id \in Schedules /\ status[d.id] # "none"
      /\ \A id \in todo : id \in Schedules /\ status[id] # "none"
  BY <1>a, <1>b DEF RequestsKnown, Calls
<1>e. ASSUME UNCHANGED <<calls, deletes, todo>> PROVE RequestsKnown'
  BY <1>c, <1>d, <1>e
<1>1. ASSUME NEW c \in calls, CallStep(c) PROVE RequestsKnown'
  <2>1. \A step \in CallSteps : [c EXCEPT !.step = step].id = c.id
    BY <1>a DEF Calls
  <2>2. \A x \in calls' : x.id \in Schedules /\ status[x.id] # "none"
    BY <1>1, <1>d, <2>1
    DEF CallStep, MarkRecording, StartVod, Conclude, MonitorLook, MoveTo, Return, CallSteps, FirstStep
  <2>3. UNCHANGED <<deletes, todo>>
    BY <1>1 DEF CallStep, MarkRecording, StartVod, Conclude, MonitorLook
  <2> QED BY <1>c, <1>d, <2>2, <2>3
<1>2. ASSUME NEW id \in Schedules, ScheduleCreate(id) PROVE RequestsKnown'
  <2>1. status[id] # "none" /\ status'[id] # "none"
    BY <1>2, <1>a DEF ScheduleCreate
  <2>2. Call("api", id, FirstStep).id = id
    BY DEF Call
  <2>3. calls' \subseteq calls \cup {Call("api", id, FirstStep)} /\ UNCHANGED <<deletes, todo>>
    BY <1>2 DEF ScheduleCreate
  <2> QED BY <1>c, <1>d, <2>1, <2>2, <2>3
<1>3. ASSUME NEW id \in Schedules, DeleteRead(id) PROVE RequestsKnown'
  <2>1. status[id] # "none"
    BY <1>3 DEF DeleteRead, InStore, Stored
  <2> QED BY <1>3, <1>c, <1>d, <2>1 DEF DeleteRead
<1>4. ASSUME NEW d \in deletes, DeleteStop(d) \/ DeleteDrop(d) PROVE RequestsKnown'
  <2>1. [d EXCEPT !.step = "drop"].id = d.id
    BY <1>a
  <2>2. UNCHANGED <<calls, todo>> /\ deletes' \subseteq deletes \cup {[d EXCEPT !.step = "drop"]}
    BY <1>4 DEF DeleteStop, DeleteDrop
  <2> QED BY <1>c, <1>d, <2>1, <2>2
<1>5. ASSUME TickBegin \/ ListPending \/ ListActive \/ TickEnd PROVE RequestsKnown'
  <2>1. UNCHANGED <<calls, deletes>>
    BY <1>5 DEF TickBegin, ListPending, ListActive, TickEnd
  <2>2. todo' \subseteq todo \cup WithStatus("pending") \cup WithStatus("recording")
    BY <1>5 DEF TickBegin, ListPending, ListActive, TickEnd
  <2> QED BY <1>c, <1>d, <2>1, <2>2 DEF WithStatus
<1>6. ASSUME NEW id \in todo, ExpireOne(id) \/ PendingOne(id) \/ MonitorStop(id) \/ MonitorGoesOn(id)
      PROVE  RequestsKnown'
  <2>1. \A by, step : Call(by, id, step).id = id
    BY DEF Call
  <2>2. /\ todo' \subseteq todo /\ UNCHANGED deletes
        /\ \A c \in calls' : c \in calls \/ c.id = id
    BY <1>6, <2>1 DEF ExpireOne, PendingOne, MonitorStop, MonitorGoesOn
  <2> QED BY <1>c, <1>d, <2>2
<1>7. ASSUME Crash PROVE RequestsKnown'
  BY <1>7, <1>c DEF Crash
<1>8. ASSUME Advance \/ Others \/ (\E ch \in Channels : AutoStop(ch)) \/ Restart \/ UNCHANGED vars PROVE RequestsKnown'
  BY <1>8, <1>e DEF Advance, Others, AutoStop, Restart, vars
<1>9. ASSUME NEW id \in Schedules, NEW r, ScheduleCheck(id, r) PROVE RequestsKnown'
  BY <1>9, <1>e DEF ScheduleCheck
<1> QED BY <1>1, <1>2, <1>3, <1>4, <1>5, <1>6, <1>7, <1>8, <1>9 DEF Next, ApiStep, TickStep

\* A call reaches its start only through its UpdateStatus, whose schedule no
\* later step takes back.
LEMMA CalledStep ==
  ASSUME IInv, [Next]_vars
  PROVE  MarkedBeforeCalled'
<1> USE DEF schedVars, workerVars
<1>0. Onward
  BY StepOnward
<1>a. calls \subseteq Calls /\ status \in [Schedules -> Statuses] /\ todo \subseteq Schedules
  BY DEF IInv, ScheduleInvariant, TypeOK, Calls, Statuses
<1>b. MarkedBeforeCalled
  BY DEF IInv
<1>c. ASSUME \A c \in calls' : c \in calls \/ c.step # "start" PROVE MarkedBeforeCalled'
  BY <1>0, <1>a, <1>b, <1>c DEF MarkedBeforeCalled, Onward, Calls
<1>d. \A by, id : /\ Call(by, id, FirstStep).step # "start" /\ Call(by, id, "complete").step # "start"
                  /\ Call(by, id, "look").step # "start"
  BY DEF Call, FirstStep
<1>1. ASSUME NEW c \in calls, MarkRecording(c) PROVE MarkedBeforeCalled'
  <2>1. c \in Calls /\ c.id \in Schedules
    BY <1>a DEF Calls
  <2>2. CASE InStore(c.id) /\ MoveTo(c, "start")
    <3>1. status'[c.id] = "recording"
      BY <1>1, <1>a, <2>1, <2>2 DEF MarkRecording, UpdateStatus
    <3>2. [c EXCEPT !.step = "start"].id = c.id
      BY <2>1 DEF Calls
    <3> QED BY <1>0, <1>a, <1>b, <2>2, <3>1, <3>2 DEF MoveTo, MarkedBeforeCalled, Onward, NotStarted, Calls
  <2>3. CASE Return(c)
    BY <1>c, <2>3 DEF Return
  <2> QED BY <1>1, <2>2, <2>3 DEF MarkRecording
<1>2. ASSUME NEW c \in calls, StartVod(c) \/ Conclude(c) \/ MonitorLook(c) PROVE MarkedBeforeCalled'
  <2>1. c \in Calls
    BY <1>a
  <2>2. \A step \in {"mark", "fail"} : [c EXCEPT !.step = step].step # "start"
    BY <2>1 DEF Calls
  <2> QED BY <1>2, <1>c, <2>2 DEF StartVod, Conclude, MonitorLook, MoveTo, Return, FirstStep
<1>3. ASSUME ApiStep PROVE MarkedBeforeCalled'
  <2>1. ASSUME NEW id \in Schedules, ScheduleCreate(id) PROVE MarkedBeforeCalled'
    BY <2>1, <1>c, <1>d DEF ScheduleCreate
  <2>2. ASSUME NEW id \in Schedules, NEW r, ScheduleCheck(id, r) PROVE MarkedBeforeCalled'
    BY <2>2, <1>c DEF ScheduleCheck
  <2>3. ASSUME NEW id \in Schedules, DeleteRead(id) PROVE MarkedBeforeCalled'
    BY <2>3, <1>c DEF DeleteRead
  <2>4. ASSUME NEW d \in deletes, DeleteStop(d) \/ DeleteDrop(d) PROVE MarkedBeforeCalled'
    BY <2>4, <1>c DEF DeleteStop, DeleteDrop
  <2> QED BY <1>3, <2>1, <2>2, <2>3, <2>4 DEF ApiStep
<1>4. ASSUME TickStep PROVE MarkedBeforeCalled'
  <2>1. \A c \in calls' : c \in calls \/ c.step # "start"
    BY <1>4, <1>d
    DEF TickStep, TickBegin, ListPending, ListActive, TickEnd, ExpireOne, PendingOne, MonitorStop, MonitorGoesOn
  <2> QED BY <1>c, <2>1
<1>5. ASSUME Crash PROVE MarkedBeforeCalled'
  BY <1>5, <1>c DEF Crash
<1>6. ASSUME Advance \/ Others \/ (\E ch \in Channels : AutoStop(ch)) \/ Restart \/ UNCHANGED vars PROVE MarkedBeforeCalled'
  BY <1>6, <1>c DEF Advance, Others, AutoStop, Restart, vars
<1> QED BY <1>1, <1>2, <1>3, <1>4, <1>5, <1>6 DEF Next, CallStep

\* A recording of a schedule comes from a call at its start step only.
LEMMA StartedStep ==
  ASSUME IInv, [Next]_vars
  PROVE  MarkedBeforeStarted'
<1> USE DEF schedVars, workerVars
<1>0. Onward
  BY StepOnward
<1>a. recordings \in [Channels -> Entries \cup {None}] /\ MarkedBeforeStarted /\ MarkedBeforeCalled
  BY DEF IInv, ScheduleInvariant, TypeOK
<1>b. ASSUME \A ch \in Channels : recordings'[ch] \in {recordings[ch], None} PROVE MarkedBeforeStarted'
  BY <1>0, <1>a, <1>b DEF MarkedBeforeStarted, Onward, NotStarted
<1>c. ASSUME NEW ch \in Channels, Stop(ch) \/ SessionComes(ch) \/ SessionGoes(ch) \/ UNCHANGED contractVars
      PROVE  \A x \in Channels : recordings'[x] \in {recordings[x], None}
  BY <1>a, <1>c DEF Stop, SessionComes, SessionGoes, contractVars
<1>d. ASSUME UNCHANGED contractVars PROVE MarkedBeforeStarted'
  BY <1>b, <1>d DEF contractVars
<1>1. ASSUME NEW c \in calls, StartVod(c) PROVE MarkedBeforeStarted'
  <2>1. c.id \in Schedules /\ rec[c.id].ch \in Channels
    BY StartTypes
  <2>2. CASE Start(rec[c.id].ch, c.id, StopTime(c.id))
    <3>1. status'[c.id] \notin NotStarted
      BY <1>0, <1>1, <1>a, <2>1 DEF StartVod, MarkedBeforeCalled, Onward
    <3>2. recordings' = [recordings EXCEPT ![rec[c.id].ch] = [id |-> c.id, stop |-> StopTime(c.id)]]
      BY <2>2 DEF Start
    <3>3. ASSUME NEW ch \in Channels, recordings'[ch] # None, recordings'[ch].id \in Schedules
          PROVE  status'[recordings'[ch].id] \notin NotStarted
      <4>1. CASE ch = rec[c.id].ch
        BY <1>a, <2>1, <3>1, <3>2, <4>1
      <4>2. CASE ch # rec[c.id].ch
        BY <1>0, <1>a, <3>2, <3>3, <4>2 DEF MarkedBeforeStarted, Onward, NotStarted
      <4> QED BY <4>1, <4>2
    <3> QED BY <3>3 DEF MarkedBeforeStarted, NotStarted
  <2> QED BY <1>1, <1>d, <2>2 DEF StartVod
<1>2. ASSUME Others PROVE MarkedBeforeStarted'
  <2>1. ASSUME NEW ch \in Channels, Start(ch, Manual, MaxTime) PROVE MarkedBeforeStarted'
    <3>1. recordings' = [recordings EXCEPT ![ch] = [id |-> Manual, stop |-> MaxTime]]
      BY <2>1 DEF Start
    <3>2. \A x \in Channels : recordings'[x] # recordings[x] => recordings'[x].id \notin Schedules
      BY <1>a, <3>1, SchedulerAssumption
    <3> QED BY <1>0, <1>a, <3>2 DEF MarkedBeforeStarted, Onward, NotStarted
  <2> QED BY <1>2, <1>b, <1>c, <2>1 DEF Others
<1>3. ASSUME ApiStep PROVE MarkedBeforeStarted'
  <2>1. ASSUME NEW d \in deletes, DeleteStop(d) PROVE MarkedBeforeStarted'
    <3>1. rec[d.id].ch \in Channels
      BY DEF IInv, ScheduleInvariant, TypeOK, RequestsKnown, Requests
    <3> QED BY <1>b, <1>c, <2>1, <3>1 DEF DeleteStop
  <2>2. ASSUME NEW id \in Schedules, NEW r, ScheduleCheck(id, r) PROVE MarkedBeforeStarted'
    BY <1>d, <2>2 DEF ScheduleCheck
  <2> QED BY <1>3, <1>d, <2>1, <2>2 DEF ApiStep, ScheduleCreate, DeleteRead, DeleteDrop
<1>4. ASSUME TickStep PROVE MarkedBeforeStarted'
  <2>1. ASSUME NEW id \in todo, MonitorStop(id) PROVE MarkedBeforeStarted'
    <3>1. rec[id].ch \in Channels
      BY DEF IInv, ScheduleInvariant, TypeOK, RequestsKnown, Requests
    <3> QED BY <1>b, <1>c, <2>1, <3>1 DEF MonitorStop
  <2> QED
    BY <1>4, <1>d, <2>1
    DEF TickStep, TickBegin, ListPending, ListActive, TickEnd, ExpireOne, PendingOne, MonitorGoesOn
<1>5. ASSUME NEW ch \in Channels, AutoStop(ch) PROVE MarkedBeforeStarted'
  BY <1>5, <1>b, <1>c DEF AutoStop
<1>6. ASSUME Crash \/ Restart PROVE MarkedBeforeStarted'
  BY <1>6, <1>b DEF Crash, Restart, Down, Up
<1>7. ASSUME NEW c \in calls, MarkRecording(c) \/ Conclude(c) \/ MonitorLook(c) PROVE MarkedBeforeStarted'
  BY <1>7, <1>d DEF MarkRecording, Conclude, MonitorLook
<1>8. ASSUME Advance \/ UNCHANGED vars PROVE MarkedBeforeStarted'
  BY <1>8, <1>d DEF Advance, vars
<1> QED BY <1>1, <1>2, <1>3, <1>4, <1>5, <1>6, <1>7, <1>8 DEF Next, CallStep

\* The inductive invariant holds throughout.
LEMMA Invariance == Spec => []IInv
<1>1. IInv /\ [Next]_vars => IInv'
  BY TypeStep, KnownStep, CalledStep, StartedStep DEF IInv, ScheduleInvariant
<1> QED BY InitIInv, <1>1, PTL DEF Spec

\* At every moment, crashes included, every recording that the scheduler
\* started is marked in the store, so that it is monitored and not started
\* twice.
THEOREM ScheduleCorrect == Spec => []ScheduleInvariant
<1>1. IInv => ScheduleInvariant
  BY DEF IInv
<1> QED BY <1>1, Invariance, PTL

\* A deleted schedule stays deleted: every update looks whether its schedule is
\* still in the store, and an identity is created once.
LEMMA DeletedStep ==
  ASSUME IInv, [Next]_vars, NEW id \in Schedules, status[id] = "deleted"
  PROVE  status'[id] = "deleted"
<1> USE DEF schedVars, workerVars
<1>a. status \in [Schedules -> Statuses] /\ calls \subseteq Calls /\ deletes \subseteq [id : Schedules, step : {"stop", "drop"}]
  BY DEF IInv, ScheduleInvariant, TypeOK, Calls, Statuses
<1>1. ASSUME NEW x \in Schedules, NEW st, UpdateStatus(x, st) PROVE status'[id] = "deleted"
  BY <1>1, <1>a DEF UpdateStatus, InStore, Stored
<1>2. ASSUME NEW c \in calls, CallStep(c) PROVE status'[id] = "deleted"
  <2>1. c.id \in Schedules
    BY <1>a DEF Calls
  <2> QED BY <1>1, <1>2, <2>1 DEF CallStep, MarkRecording, StartVod, Conclude, MonitorLook
<1>3. ASSUME ApiStep PROVE status'[id] = "deleted"
  <2>1. ASSUME NEW x \in Schedules, NEW r, ScheduleCheck(x, r) PROVE status'[id] = "deleted"
    BY <1>a, <2>1 DEF ScheduleCheck
  <2>2. ASSUME NEW x \in Schedules, ScheduleCreate(x) \/ DeleteRead(x) PROVE status'[id] = "deleted"
    BY <1>a, <2>2 DEF ScheduleCreate, DeleteRead
  <2>3. ASSUME NEW d \in deletes, DeleteStop(d) \/ DeleteDrop(d) PROVE status'[id] = "deleted"
    BY <1>a, <2>3 DEF DeleteStop, DeleteDrop
  <2> QED BY <1>3, <2>1, <2>2, <2>3 DEF ApiStep
<1>4. ASSUME TickStep PROVE status'[id] = "deleted"
  BY <1>4, <1>a
  DEF TickStep, TickBegin, ListPending, ListActive, TickEnd, ExpireOne, PendingOne, MonitorStop, MonitorGoesOn
<1>5. ASSUME Advance \/ Others \/ (\E ch \in Channels : AutoStop(ch)) \/ Crash \/ Restart \/ UNCHANGED vars
      PROVE  status'[id] = "deleted"
  BY <1>5, <1>a DEF Advance, Others, AutoStop, Crash, Restart, vars
<1> QED BY <1>2, <1>3, <1>4, <1>5 DEF Next

\* No late UpdateStatus, of a tick or of a request, brings a deleted schedule
\* back.
THEOREM DeletedStays == Spec => DeletedIsFinal
<1>1. IInv /\ [Next]_vars => [\A id \in Schedules : status[id] = "deleted" => status'[id] = "deleted"]_vars
  BY DeletedStep
<1> QED BY <1>1, Invariance, PTL DEF Spec, DeletedIsFinal

=============================================================================
