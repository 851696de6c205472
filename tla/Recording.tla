----------------------------- MODULE Recording -----------------------------
(***************************************************************************)
(* Recording in tvproxy: VODService.recordings with its auto-stop timers,  *)
(* the recording consumer it keeps in a session, and RecordingStore, whose *)
(* meta.json files are what a restarted process recovers from.             *)
(*                                                                         *)
(* The session manager is seen from above: the steps of SessionManager     *)
(* that end in the same map entry are one step here, and every channel     *)
(* plays one stream, so a channel stands for its "active" directory too.   *)
(***************************************************************************)
EXTENDS Naturals, FiniteSets

CONSTANTS
  Channels,
  RecIds,      \* identities of recordings (and of their consumers), used once
  Durations,   \* how far in the future a recording may be asked to stop
  MaxTime,     \* bound on the clock
  None

ASSUME RecordingAssumption ==
  /\ MaxTime \in Nat
  /\ Durations \subseteq Nat
  /\ None \notin [id : RecIds, stop : 0..MaxTime]
  /\ None \notin [id : RecIds, stop : 0..MaxTime, ch : Channels]

Times == 0..MaxTime

VARIABLES
  now,        \* time.Now()
  up,         \* the process is running
  session,    \* the session of a channel: none, live or dead (pipeline done)
  viewer,     \* the channels whose session has a viewer
  recorders,  \* the recording consumers in the session of a channel
  recorded,   \* the channels whose session has Recorded set
  wasRec,     \* the channels whose session has wasRecording set
  recordings, \* VODService.recordings: recording and stop time, or None
  starting,   \* the startRecordingInternal that holds VODService.mu, or None
  timers,     \* armed auto-stop timers
  fired,      \* AfterFunc goroutines that have started and want to stop a channel
  stopping,   \* stopRecordingInternal calls that have left the critical section
  index,      \* RecordingStore.sessions, in memory
  meta,       \* active/meta.json, on disk
  output,     \* the channels whose active directory holds pipeline output
  saved,      \* the recordings moved to the recorded directory
  scan,       \* RecoverRecordings has yet to list the active recordings
  recovering, \* what it has yet to look at
  usedIds     \* the identities taken so far

sessionVars == <<session, viewer, recorders, recorded, wasRec>>
recVars == <<recordings, starting, timers, fired, stopping>>
diskVars == <<meta, output, saved>>
recoverVars == <<scan, recovering>>
vars == <<now, up, sessionVars, recVars, index, diskVars, recoverVars, usedIds>>

\* What meta.json says: nothing, an active session, or a recording to resume.
Metas == {None} \cup [status : {"active"}, stop : {0}]
                \cup [status : {"recording"}, stop : Times]
ActiveMeta == [status |-> "active", stop |-> 0]
RecordingMeta(stop) == [status |-> "recording", stop |-> stop]

Entries == [id : RecIds, stop : Times]

Init ==
  /\ now = 0 /\ up = TRUE
  /\ session = [ch \in Channels |-> "none"]
  /\ viewer = {} /\ recorded = {} /\ wasRec = {}
  /\ recorders = [ch \in Channels |-> {}]
  /\ recordings = [ch \in Channels |-> None]
  /\ starting = None
  /\ timers = {} /\ fired = {} /\ stopping = {}
  /\ index = [ch \in Channels |-> None]
  /\ meta = [ch \in Channels |-> None]
  /\ output = {} /\ saved = {}
  /\ scan = FALSE /\ recovering = {} /\ usedIds = {}

-----------------------------------------------------------------------------
(* The session manager from above *)

\* RemoveAll of the active directory of ch.
RemoveActiveDir(ch) ==
  /\ meta' = [meta EXCEPT ![ch] = None]
  /\ output' = output \ {ch}
  /\ UNCHANGED saved

\* WriteSessionMeta: the file, then the index.
WriteSessionMeta(ch, m) ==
  /\ meta' = [meta EXCEPT ![ch] = m]
  /\ index' = [index EXCEPT ![ch] = m]

\* A new session of ch; a dead one it replaces loses its directory unless it
\* was recorded.
CreateSession(ch) ==
  /\ session' = [session EXCEPT ![ch] = "live"]
  /\ WriteSessionMeta(ch, ActiveMeta)
  /\ output' = IF session[ch] = "dead" /\ ch \notin recorded THEN output \ {ch} ELSE output
  /\ recorded' = recorded \ {ch}

\* StartWatching: create, replace or join.
Watch(ch) ==
  /\ up /\ ch \notin viewer
  /\ viewer' = viewer \cup {ch}
  /\ \/ /\ session[ch] = "live"
        /\ UNCHANGED <<session, recorders, recorded, wasRec, index, meta, output>>
     \/ /\ session[ch] # "live"
        /\ CreateSession(ch)
        /\ recorders' = [recorders EXCEPT ![ch] = {}]
        /\ wasRec' = wasRec \ {ch}
  /\ UNCHANGED <<now, up, recVars, saved, recoverVars, usedIds>>

\* RemoveConsumer and, for the last one out, stopAndCleanup.
Release(ch, viewers, recs) ==
  /\ viewer' = viewers
  /\ IF session[ch] # "none" /\ ch \notin viewers /\ recs = {}
       THEN /\ session' = [session EXCEPT ![ch] = "none"]
            /\ recorders' = [recorders EXCEPT ![ch] = {}]
            /\ recorded' = recorded \ {ch} /\ wasRec' = wasRec \ {ch}
            /\ IF ch \in recorded \cup wasRec THEN UNCHANGED diskVars ELSE RemoveActiveDir(ch)
       ELSE /\ recorders' = [recorders EXCEPT ![ch] = recs]
            /\ UNCHANGED <<session, recorded, wasRec, diskVars>>

StopWatching(ch) ==
  /\ up /\ ch \in viewer
  /\ Release(ch, viewer \ {ch}, recorders[ch])
  /\ UNCHANGED <<now, up, recVars, index, recoverVars, usedIds>>

\* The pipeline makes its output file, or ends.
PipelineWrites(ch) ==
  /\ up /\ session[ch] = "live" /\ ch \notin output
  /\ output' = output \cup {ch}
  /\ UNCHANGED <<now, up, sessionVars, recVars, index, meta, saved, recoverVars, usedIds>>

PipelineEnds(ch) ==
  /\ up /\ session[ch] = "live"
  /\ session' = [session EXCEPT ![ch] = "dead"]
  /\ UNCHANGED <<now, up, viewer, recorders, recorded, wasRec, recVars, index, diskVars,
                 recoverVars, usedIds>>

-----------------------------------------------------------------------------
(* Starting a recording *)

VodLocked == starting # None

\* ErrAlreadyRecording refuses a second recording of a channel.  (Slip: the
\* test is forgotten.)
Unchecked(ch) == TRUE
MayRecord(ch) == recordings[ch] = None

\* startRecordingInternal up to finalizeRecordingStart: the recording joins
\* the session of the channel, even a dead one, or gets a session of its own.
StartBegin(id, ch, stop) ==
  /\ up /\ ~VodLocked /\ id \notin usedIds
  /\ MayRecord(ch)
  /\ usedIds' = usedIds \cup {id}
  /\ starting' = [id |-> id, stop |-> stop, ch |-> ch]
  /\ recorders' = [recorders EXCEPT ![ch] = @ \cup {id}]
  /\ wasRec' = wasRec \cup {ch}
  /\ \/ /\ session[ch] # "none"
        /\ recorded' = recorded \cup {ch}
        /\ UNCHANGED <<session, index, meta, output>>
     \/ /\ session[ch] = "none"
        /\ CreateSession(ch)
  /\ UNCHANGED <<now, up, viewer, recordings, timers, fired, stopping, saved>>

\* StartRecording from the API: the stop time comes from the caller.
StartRecording(id, ch, d) ==
  /\ now + d \in Times
  /\ StartBegin(id, ch, now + d)
  /\ UNCHANGED recoverVars

\* time.AfterFunc, which runs at once when the deadline is over.
ArmTimer == timers \cup {starting}

\* finalizeRecordingStart: timer, map entry, meta.json; then the unlock.
StartFinish ==
  /\ up /\ VodLocked
  /\ recordings' = [recordings EXCEPT
                      ![starting.ch] = [id |-> starting.id, stop |-> starting.stop]]
  /\ timers' = ArmTimer
  /\ WriteSessionMeta(starting.ch, RecordingMeta(starting.stop))
  /\ starting' = None
  /\ UNCHANGED <<now, up, sessionVars, fired, stopping, output, saved, recoverVars, usedIds>>

-----------------------------------------------------------------------------
(* Stopping a recording *)

\* The runtime starts the goroutine of a timer that is due.
TimerFires(t) ==
  /\ up /\ t \in timers /\ t.stop <= now
  /\ timers' = timers \ {t}
  /\ fired' = fired \cup {t}
  /\ UNCHANGED <<now, up, sessionVars, recordings, starting, stopping, index, diskVars,
                 recoverVars, usedIds>>

\* The critical section of stopRecordingInternal and Timer.Stop, which does
\* not stop a goroutine that has started.
StopBegin(ch) ==
  /\ recordings[ch] # None
  /\ recordings' = [recordings EXCEPT ![ch] = None]
  /\ timers' = {t \in timers : t.id # recordings[ch].id}
  /\ stopping' = stopping \cup
       {[id |-> recordings[ch].id, ch |-> ch, stop |-> recordings[ch].stop, step |-> "complete"]}

StopRecording(ch) ==
  /\ up /\ ~VodLocked
  /\ StopBegin(ch)
  /\ UNCHANGED <<now, up, sessionVars, starting, fired, index, diskVars, recoverVars, usedIds>>

\* A timer goroutine stops whatever the channel records now, or finds nothing.
AutoStop(t) ==
  /\ up /\ ~VodLocked /\ t \in fired
  /\ fired' = fired \ {t}
  /\ \/ StopBegin(t.ch)
     \/ recordings[t.ch] = None /\ UNCHANGED <<recordings, timers, stopping>>
  /\ UNCHANGED <<now, up, sessionVars, starting, index, diskVars, recoverVars, usedIds>>

\* The file completeRecording asks CompleteRecording to move.  Pipelines write
\* their output under a name made of the stream's name and the time.
CompletedFile == "source.ts"
PipelineFile == "output"
ActiveFiles(ch) == IF ch \in output THEN {PipelineFile} ELSE {}

\* completeRecording: on success the active directory is gone, on failure the
\* error is logged and nothing has changed.
CompleteRecording(x) ==
  /\ up /\ x \in stopping /\ x.step = "complete"
  /\ stopping' = (stopping \ {x}) \cup {[x EXCEPT !.step = "release"]}
  /\ IF session[x.ch] # "none" /\ CompletedFile \in ActiveFiles(x.ch)
       THEN /\ saved' = saved \cup {x.id}
            /\ meta' = [meta EXCEPT ![x.ch] = None]
            /\ output' = output \ {x.ch}
            /\ index' = [index EXCEPT ![x.ch] = None]
       ELSE UNCHANGED <<index, diskVars>>
  /\ UNCHANGED <<now, up, sessionVars, recordings, starting, timers, fired, recoverVars, usedIds>>

\* RemoveConsumer for the recording's consumer ends the call.  (Slip: the call
\* returns without it.)
ConsumerKept(x) == recorders[x.ch]
ConsumersLeft(x) == recorders[x.ch] \ {x.id}

ReleaseRecorder(x) ==
  /\ up /\ x \in stopping /\ x.step = "release"
  /\ stopping' = stopping \ {x}
  /\ Release(x.ch, viewer, ConsumersLeft(x))
  /\ UNCHANGED <<now, up, recordings, starting, timers, fired, index, recoverVars, usedIds>>

-----------------------------------------------------------------------------
(* Time, shutdown, crash and recovery *)

Advance ==
  /\ now < MaxTime
  /\ now' = now + 1
  /\ UNCHANGED <<up, sessionVars, recVars, index, diskVars, recoverVars, usedIds>>

\* Everything in memory is lost.
ForgetMemory ==
  /\ up' = FALSE
  /\ session' = [ch \in Channels |-> "none"]
  /\ viewer' = {} /\ recorded' = {} /\ wasRec' = {}
  /\ recorders' = [ch \in Channels |-> {}]
  /\ recordings' = [ch \in Channels |-> None]
  /\ starting' = None
  /\ timers' = {} /\ fired' = {} /\ stopping' = {}
  /\ index' = [ch \in Channels |-> None]
  /\ scan' = FALSE /\ recovering' = {}

Crash ==
  /\ up
  /\ ForgetMemory
  /\ UNCHANGED <<now, diskVars, usedIds>>

\* VODService.Shutdown and Manager.Shutdown: directories are kept only for
\* recorded sessions and sessions with a recording consumer.
Shutdown ==
  /\ up /\ ~VodLocked
  /\ ForgetMemory
  /\ LET kept == {ch \in Channels :
                    session[ch] = "none" \/ ch \in recorded \/ recorders[ch] # {}} IN
       /\ meta' = [ch \in Channels |-> IF ch \in kept THEN meta[ch] ELSE None]
       /\ output' = output \cap kept
  /\ UNCHANGED <<now, saved, usedIds>>

\* NewRecordingStore rebuilds the index from the files, and RecoverRecordings
\* starts in a goroutine of its own, beside the API and the scheduler.
Restart ==
  /\ ~up /\ up' = TRUE
  /\ index' = meta
  /\ scan' = TRUE /\ UNCHANGED recovering
  /\ UNCHANGED <<now, sessionVars, recVars, diskVars, usedIds>>

\* ListActiveRecordings
RecoverScan ==
  /\ up /\ scan /\ scan' = FALSE
  /\ recovering' = {[ch |-> ch, stop |-> index[ch].stop] :
                      ch \in {c \in Channels : index[c] # None /\ index[c].status = "recording"}}
  /\ UNCHANGED <<now, up, sessionVars, recVars, index, diskVars, usedIds>>

\* A recording whose time is over, or that cannot be started again (a
\* recording of the channel is running, or its stream cannot be resolved), is
\* removed with its active directory.
RecoverRemove(m) ==
  /\ up /\ m \in recovering
  /\ \/ m.stop < now
     \/ ~VodLocked /\ (recordings[m.ch] # None \/ session[m.ch] = "none")
  /\ recovering' = recovering \ {m}
  /\ index' = [index EXCEPT ![m.ch] = None]
  /\ RemoveActiveDir(m.ch)
  /\ UNCHANGED <<now, up, sessionVars, recVars, scan, usedIds>>

RecoverStart(m, id) ==
  /\ m \in recovering /\ m.stop >= now
  /\ StartBegin(id, m.ch, m.stop)
  /\ recovering' = recovering \ {m}
  /\ UNCHANGED scan

-----------------------------------------------------------------------------
SessionStep ==
  \E ch \in Channels : Watch(ch) \/ StopWatching(ch) \/ PipelineWrites(ch) \/ PipelineEnds(ch)

StopStep ==
  \/ \E t \in timers : TimerFires(t)
  \/ \E t \in fired : AutoStop(t)
  \/ \E x \in stopping : CompleteRecording(x) \/ ReleaseRecorder(x)

RecoverStep ==
  \/ RecoverScan
  \/ \E m \in recovering : RecoverRemove(m) \/ \E id \in RecIds : RecoverStart(m, id)

ProcessStep == Advance \/ Crash \/ Shutdown \/ Restart

UserStep ==
  \/ \E id \in RecIds, ch \in Channels, d \in Durations : StartRecording(id, ch, d)
  \/ \E ch \in Channels : StopRecording(ch)

Next == SessionStep \/ UserStep \/ StartFinish \/ StopStep \/ RecoverStep \/ ProcessStep

Spec == Init /\ [][Next]_vars

\* The goroutines of the process go on and time passes; nobody has to record,
\* to watch or to crash, and a process that is down may stay down.
Fairness ==
  /\ WF_vars(Advance) /\ WF_vars(StartFinish) /\ WF_vars(StopStep)

FairSpec == Spec /\ Fairness

-----------------------------------------------------------------------------
(* Properties *)

\* Every variable has its type.
TypeOK ==
  /\ now \in Times /\ up \in BOOLEAN /\ scan \in BOOLEAN
  /\ session \in [Channels -> {"none", "live", "dead"}]
  /\ viewer \subseteq Channels /\ recorded \subseteq Channels /\ wasRec \subseteq Channels
  /\ recorders \in [Channels -> SUBSET RecIds]
  /\ recordings \in [Channels -> Entries \cup {None}]
  /\ starting \in [id : RecIds, stop : Times, ch : Channels] \cup {None}
  /\ timers \subseteq [id : RecIds, stop : Times, ch : Channels]
  /\ fired \subseteq [id : RecIds, stop : Times, ch : Channels]
  /\ stopping \subseteq [id : RecIds, stop : Times, ch : Channels,
                        step : {"complete", "release"}]
  /\ index \in [Channels -> Metas] /\ meta \in [Channels -> Metas]
  /\ output \subseteq Channels /\ saved \subseteq RecIds
  /\ recovering \subseteq [ch : Channels, stop : Times]
  /\ usedIds \subseteq RecIds

\* A recording consumer in a session belongs to a recording that runs, starts
\* or is being stopped: no stop, crash, replacement or recovery leaves one
\* behind that would keep the session and its tuner for ever.
NoOrphanRecorder ==
  \A ch \in Channels : \A r \in recorders[ch] :
    \/ recordings[ch] # None /\ recordings[ch].id = r
    \/ starting # None /\ starting.id = r
    \/ \E x \in stopping : x.id = r /\ x.ch = ch

\* Every entry of VODService.recordings has an auto-stop to come: its own
\* timer, or a timer goroutine of the channel that has already started.
AutoStopArmed ==
  \A ch \in Channels : recordings[ch] # None =>
    \/ \E t \in timers : t.id = recordings[ch].id /\ t.ch = ch
    \/ \E t \in fired : t.ch = ch

\* The recorder at every moment: its types, no recording consumer without its
\* recording, and no recording without an auto-stop, so that no stop, crash,
\* replacement or recovery leaves a tuner taken for ever.
RecorderInvariant == TypeOK /\ NoOrphanRecorder /\ AutoStopArmed

\* VODService keeps its promise to callers: one recording per channel at a
\* time, started by nobody while another runs.
SessionChannels == {ch \in Channels : session[ch] # "none"}
Contract == INSTANCE RecordingContract WITH sessions <- SessionChannels
ImplementsContract == Contract!ContractSpec

\* A recording lets go of its session in the end: the timer stops it if
\* nobody does, and stopRecordingInternal runs to its RemoveConsumer.
RecorderReleased ==
  \A ch \in Channels, r \in RecIds : r \in recorders[ch] ~> r \notin recorders[ch]

\* RECORDING-DESIGN.md:116: stopping a recording preserves its file in the
\* recordings directory; so the stop of a recording with output saves it.
StopPreserves ==
  [][\A x \in stopping :
       (x.step = "complete" /\ x \notin stopping' /\ up' /\ x.ch \in output
          /\ session[x.ch] = "live") => x.id \in saved']_vars

=============================================================================
