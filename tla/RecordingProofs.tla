-------------------------- MODULE RecordingProofs --------------------------
(***************************************************************************)
(* The safety of Recording for any channels, identities, durations and     *)
(* bound on the clock, and that it keeps the promise of RecordingContract. *)
(*                                                                         *)
(* Neither NoOrphanRecorder nor AutoStopArmed is inductive alone: a stop   *)
(* clears timers and consumers by the identity of the recording, so both   *)
(* rest on identities being used once.                                     *)
(***************************************************************************)
EXTENDS Recording, TLAPS

\* A recording under way, between StartBegin and StartFinish, finds its
\* channel free, and its identity is in no other session and no other entry.
StartAlone ==
  starting # None =>
    /\ recordings[starting.ch] = None
    /\ \A ch \in Channels : starting.id \in recorders[ch] => ch = starting.ch
    /\ \A ch \in Channels : recordings[ch] # None => recordings[ch].id # starting.id

\* An identity belongs to one recording, and is taken once it is in use.
IdsOnce ==
  /\ \A ch \in Channels : recorders[ch] \subseteq usedIds
  /\ \A ch \in Channels : recordings[ch] # None => recordings[ch].id \in usedIds
  /\ starting # None => starting.id \in usedIds
  /\ \A a, b \in Channels :
       recordings[a] # None /\ recordings[b] # None /\ recordings[a].id = recordings[b].id => a = b

\* The inductive invariant.
IInv == RecorderInvariant /\ StartAlone /\ IdsOnce

-----------------------------------------------------------------------------
(* Types *)

\* The service that was just made records nothing.
LEMMA InitIInv == Init => IInv
<1> SUFFICES ASSUME Init PROVE IInv
  OBVIOUS
<1>1. 0 \in Times /\ None \in Metas
  BY RecordingAssumption DEF Times, Metas
<1>2. TypeOK
  BY <1>1 DEF Init, TypeOK
<1>3. NoOrphanRecorder /\ AutoStopArmed /\ StartAlone /\ IdsOnce
  BY DEF Init, NoOrphanRecorder, AutoStopArmed, StartAlone, IdsOnce
<1> QED BY <1>2, <1>3 DEF IInv, RecorderInvariant

\* What meta.json may be given.
LEMMA MetaTypes ==
  /\ ActiveMeta \in Metas /\ None \in Metas
  /\ \A stop \in Times : RecordingMeta(stop) \in Metas
  BY DEF ActiveMeta, RecordingMeta, Metas

\* createSession keeps the types of what it writes.
LEMMA CreateSessionTypes ==
  ASSUME TypeOK, NEW ch \in Channels, CreateSession(ch)
  PROVE  /\ session' \in [Channels -> {"none", "live", "dead"}]
         /\ index' \in [Channels -> Metas] /\ meta' \in [Channels -> Metas]
         /\ output' \subseteq Channels /\ recorded' \subseteq Channels
  BY MetaTypes DEF TypeOK, CreateSession, WriteSessionMeta

\* RemoveConsumer and its cleanup keep the types of what they write.
LEMMA ReleaseTypes ==
  ASSUME TypeOK, NEW ch \in Channels, NEW V \in SUBSET Channels, NEW R \in SUBSET RecIds, Release(ch, V, R)
  PROVE  /\ session' \in [Channels -> {"none", "live", "dead"}]
         /\ viewer' \subseteq Channels /\ recorded' \subseteq Channels /\ wasRec' \subseteq Channels
         /\ recorders' \in [Channels -> SUBSET RecIds]
         /\ meta' \in [Channels -> Metas] /\ output' \subseteq Channels /\ saved' \subseteq RecIds
  BY MetaTypes DEF TypeOK, Release, RemoveActiveDir, diskVars

\* A start, from the API or a recovery, keeps the types.
LEMMA StartBeginTypes ==
  ASSUME TypeOK, NEW id \in RecIds, NEW ch \in Channels, NEW stop \in Times, StartBegin(id, ch, stop),
         scan' \in BOOLEAN, recovering' \subseteq [ch : Channels, stop : Times]
  PROVE  TypeOK'
<1>1. /\ session' \in [Channels -> {"none", "live", "dead"}]
      /\ index' \in [Channels -> Metas] /\ meta' \in [Channels -> Metas]
      /\ output' \subseteq Channels /\ recorded' \subseteq Channels
  <2>1. CASE CreateSession(ch)
    BY <2>1, CreateSessionTypes
  <2>2. CASE session[ch] # "none"
    BY <2>2 DEF StartBegin, TypeOK, CreateSession
  <2> QED BY <2>1, <2>2 DEF StartBegin
<1>2. starting' \in [id : RecIds, stop : Times, ch : Channels]
  BY DEF StartBegin
<1>3. /\ recorders' \in [Channels -> SUBSET RecIds]
      /\ wasRec' \subseteq Channels /\ usedIds' \subseteq RecIds
  BY DEF StartBegin, TypeOK
<1>4. UNCHANGED <<now, up, viewer, recordings, timers, fired, stopping, saved>>
  BY DEF StartBegin
<1> QED BY <1>1, <1>2, <1>3, <1>4 DEF TypeOK

\* The critical section of a stop keeps the types of what it writes.
LEMMA StopBeginTypes ==
  ASSUME TypeOK, NEW ch \in Channels, StopBegin(ch)
  PROVE  /\ recordings' \in [Channels -> Entries \cup {None}]
         /\ timers' \subseteq [id : RecIds, stop : Times, ch : Channels]
         /\ stopping' \subseteq [id : RecIds, stop : Times, ch : Channels,
                                 step : {"complete", "release"}]
  BY DEF TypeOK, StopBegin, Entries

\* Every step keeps the types.
LEMMA TypeStep ==
  ASSUME IInv, Next
  PROVE  TypeOK'
<1> USE DEF IInv, RecorderInvariant, sessionVars, recVars, diskVars, recoverVars
<1>1. ASSUME NEW ch \in Channels, Watch(ch) PROVE TypeOK'
  <2>1. CASE CreateSession(ch)
    BY <1>1, <2>1, CreateSessionTypes DEF Watch, TypeOK
  <2>2. CASE UNCHANGED <<session, recorders, recorded, wasRec, index, meta, output>>
    BY <1>1, <2>2 DEF Watch, TypeOK
  <2> QED BY <1>1, <2>1, <2>2 DEF Watch
<1>2. ASSUME NEW ch \in Channels, StopWatching(ch) PROVE TypeOK'
  <2>1. viewer \ {ch} \in SUBSET Channels /\ recorders[ch] \in SUBSET RecIds
    BY DEF TypeOK
  <2> QED BY <1>2, <2>1, ReleaseTypes DEF StopWatching, TypeOK
<1>3. ASSUME NEW ch \in Channels, PipelineWrites(ch) PROVE TypeOK'
  BY <1>3 DEF PipelineWrites, TypeOK
<1>4. ASSUME NEW ch \in Channels, PipelineEnds(ch) PROVE TypeOK'
  BY <1>4 DEF PipelineEnds, TypeOK
<1>5. ASSUME NEW id \in RecIds, NEW ch \in Channels, NEW d \in Durations, StartRecording(id, ch, d) PROVE TypeOK'
  BY <1>5, StartBeginTypes DEF StartRecording, TypeOK
<1>6. ASSUME NEW ch \in Channels, StopRecording(ch) PROVE TypeOK'
  BY <1>6, StopBeginTypes DEF StopRecording, TypeOK
<1>7. ASSUME StartFinish PROVE TypeOK'
  <2>1. starting \in [id : RecIds, stop : Times, ch : Channels]
    BY <1>7 DEF StartFinish, VodLocked, TypeOK
  <2>2. /\ recordings' \in [Channels -> Entries \cup {None}]
        /\ timers' \subseteq [id : RecIds, stop : Times, ch : Channels]
    BY <1>7, <2>1 DEF StartFinish, ArmTimer, TypeOK, Entries
  <2>3. index' \in [Channels -> Metas] /\ meta' \in [Channels -> Metas]
    BY <1>7, <2>1, MetaTypes DEF StartFinish, WriteSessionMeta, TypeOK
  <2> QED BY <1>7, <2>2, <2>3 DEF StartFinish, TypeOK
<1>8. ASSUME NEW t \in timers, TimerFires(t) PROVE TypeOK'
  BY <1>8 DEF TimerFires, TypeOK
<1>9. ASSUME NEW t \in fired, AutoStop(t) PROVE TypeOK'
  <2>1. t.ch \in Channels
    BY DEF TypeOK
  <2> QED BY <1>9, <2>1, StopBeginTypes DEF AutoStop, TypeOK
<1>10. ASSUME NEW x \in stopping, CompleteRecording(x) PROVE TypeOK'
  <2>1. x \in [id : RecIds, stop : Times, ch : Channels, step : {"complete", "release"}]
    BY DEF TypeOK
  <2>2. stopping' \subseteq [id : RecIds, stop : Times, ch : Channels, step : {"complete", "release"}]
    BY <1>10, <2>1 DEF CompleteRecording, TypeOK
  <2>3. /\ index' \in [Channels -> Metas] /\ meta' \in [Channels -> Metas]
        /\ output' \subseteq Channels /\ saved' \subseteq RecIds
    BY <1>10, <2>1, MetaTypes DEF CompleteRecording, TypeOK
  <2> QED BY <1>10, <2>2, <2>3 DEF CompleteRecording, TypeOK
<1>11. ASSUME NEW x \in stopping, ReleaseRecorder(x) PROVE TypeOK'
  <2>1. x.ch \in Channels /\ ConsumersLeft(x) \in SUBSET RecIds /\ viewer \in SUBSET Channels
    BY DEF TypeOK, ConsumersLeft
  <2> QED BY <1>11, <2>1, ReleaseTypes DEF ReleaseRecorder, TypeOK
<1>12. ASSUME Advance PROVE TypeOK'
  BY <1>12, RecordingAssumption DEF Advance, TypeOK, Times
<1>13. ASSUME Crash \/ Shutdown PROVE TypeOK'
  <2>1. meta' \in [Channels -> Metas] /\ output' \subseteq Channels
    BY <1>13, MetaTypes DEF Crash, Shutdown, TypeOK
  <2>2. ForgetMemory /\ UNCHANGED <<now, saved, usedIds>>
    BY <1>13 DEF Crash, Shutdown
  <2> QED BY <2>1, <2>2, MetaTypes DEF ForgetMemory, TypeOK
<1>14. ASSUME Restart PROVE TypeOK'
  BY <1>14 DEF Restart, TypeOK
<1>15. ASSUME RecoverScan PROVE TypeOK'
  <2>1. \A ch \in Channels : index[ch] # None /\ index[ch].status = "recording" => index[ch].stop \in Times
    BY DEF TypeOK, Metas
  <2>2. recovering' \subseteq [ch : Channels, stop : Times]
    BY <1>15, <2>1 DEF RecoverScan
  <2> QED BY <1>15, <2>2 DEF RecoverScan, TypeOK
<1>16. ASSUME NEW m \in recovering, RecoverRemove(m) PROVE TypeOK'
  <2>1. m.ch \in Channels
    BY DEF TypeOK
  <2> QED BY <1>16, <2>1, MetaTypes DEF RecoverRemove, RemoveActiveDir, TypeOK
<1>17. ASSUME NEW m \in recovering, NEW id \in RecIds, RecoverStart(m, id) PROVE TypeOK'
  <2>1. m.ch \in Channels /\ m.stop \in Times
    BY DEF TypeOK
  <2> QED BY <1>17, <2>1, StartBeginTypes DEF RecoverStart, TypeOK
<1> QED
  BY <1>1, <1>2, <1>3, <1>4, <1>5, <1>6, <1>7, <1>8, <1>9, <1>10, <1>11, <1>12, <1>13, <1>14, <1>15, <1>16, <1>17
  DEF Next, SessionStep, UserStep, StopStep, RecoverStep, ProcessStep

-----------------------------------------------------------------------------
(* What a step does to the recordings: the sessions' own steps let go of   *)
(* consumers at most.                                                      *)

bookVars == <<recordings, starting, timers, fired, stopping, usedIds>>

\* Steps of viewers, pipelines, time and recovery leave the books as they are.
LEMMA QuietSteps ==
  ASSUME TypeOK, SessionStep \/ Advance \/ Restart \/ RecoverScan \/ (\E m \in recovering : RecoverRemove(m))
  PROVE  /\ UNCHANGED bookVars
         /\ \A ch \in Channels : recorders'[ch] \subseteq recorders[ch]
<1> USE DEF TypeOK, bookVars, sessionVars, recVars, diskVars, recoverVars
<1>1. CASE SessionStep
  <2>1. ASSUME NEW ch \in Channels, Watch(ch)
        PROVE  UNCHANGED bookVars /\ \A c \in Channels : recorders'[c] \subseteq recorders[c]
    BY <2>1 DEF Watch
  <2>2. ASSUME NEW ch \in Channels, StopWatching(ch)
        PROVE  UNCHANGED bookVars /\ \A c \in Channels : recorders'[c] \subseteq recorders[c]
    BY <2>2 DEF StopWatching, Release
  <2>3. ASSUME NEW ch \in Channels, PipelineWrites(ch) \/ PipelineEnds(ch)
        PROVE  UNCHANGED bookVars /\ UNCHANGED recorders
    BY <2>3 DEF PipelineWrites, PipelineEnds
  <2> QED BY <1>1, <2>1, <2>2, <2>3 DEF SessionStep
<1>2. CASE Advance
  BY <1>2 DEF Advance
<1>3. CASE Restart
  BY <1>3 DEF Restart
<1>4. CASE RecoverScan
  BY <1>4 DEF RecoverScan
<1>5. CASE \E m \in recovering : RecoverRemove(m)
  BY <1>5 DEF RecoverRemove
<1> QED BY <1>1, <1>2, <1>3, <1>4, <1>5

\* RemoveConsumer of a recording takes its own consumer out of its channel,
\* and all of them if the session ends.
LEMMA ReleaseStep ==
  ASSUME TypeOK, NEW x \in stopping, ReleaseRecorder(x)
  PROVE  /\ UNCHANGED <<recordings, starting, timers, fired, usedIds>>
         /\ stopping' = stopping \ {x}
         /\ x.ch \in Channels
         /\ recorders'[x.ch] \subseteq recorders[x.ch] \ {x.id}
         /\ \A ch \in Channels : recorders'[ch] \subseteq recorders[ch]
<1>1. x.ch \in Channels
  BY DEF TypeOK
<1> QED BY <1>1 DEF ReleaseRecorder, Release, ConsumersLeft, TypeOK

\* A start in an unused identity, from the API or a recovery.
Begins(id, ch) ==
  /\ id \notin usedIds /\ starting = None /\ recordings[ch] = None
  /\ usedIds' = usedIds \cup {id}
  /\ starting' # None /\ starting'.id = id /\ starting'.ch = ch
  /\ recorders' = [recorders EXCEPT ![ch] = @ \cup {id}]
  /\ UNCHANGED <<recordings, timers, fired, stopping>>

\* startRecordingInternal begins only in a free channel, with an identity of
\* its own.
LEMMA BeginStep ==
  ASSUME NEW id \in RecIds, NEW ch \in Channels, NEW stop \in Times, StartBegin(id, ch, stop)
  PROVE  Begins(id, ch)
<1>1. starting' = [id |-> id, stop |-> stop, ch |-> ch]
  BY DEF StartBegin
<1>2. starting' # None
  BY <1>1, RecordingAssumption DEF Times
<1> QED BY <1>1, <1>2 DEF StartBegin, Begins, VodLocked, MayRecord

\* The entry that finalizeRecordingStart writes, and its timer.
Finishes(e, t) ==
  /\ starting # None /\ e # None /\ e.id = starting.id
  /\ t.id = starting.id /\ t.ch = starting.ch /\ starting.ch \in Channels
  /\ recordings' = [recordings EXCEPT ![starting.ch] = e]
  /\ timers' = timers \cup {t} /\ starting' = None
  /\ UNCHANGED <<recorders, fired, stopping, usedIds>>

\* finalizeRecordingStart writes the entry of the recording under way.
LEMMA FinishStep ==
  ASSUME TypeOK, StartFinish
  PROVE  \E e, t : Finishes(e, t)
<1>1. starting \in [id : RecIds, stop : Times, ch : Channels] /\ starting # None
  BY DEF StartFinish, VodLocked, TypeOK
<1> DEFINE e == [id |-> starting.id, stop |-> starting.stop]
<1>2. e # None /\ e.id = starting.id
  BY <1>1, RecordingAssumption DEF Times
<1>3. Finishes(e, starting)
  BY <1>1, <1>2 DEF StartFinish, ArmTimer, Finishes, sessionVars
<1> QED BY <1>3

\* The entry leaves the map, with its timer, for a call of
\* stopRecordingInternal.
Stops(ch, x) ==
  /\ recordings[ch] # None
  /\ recordings' = [recordings EXCEPT ![ch] = None]
  /\ timers' = {t \in timers : t.id # recordings[ch].id}
  /\ stopping' = stopping \cup {x} /\ x.id = recordings[ch].id /\ x.ch = ch
  /\ starting = None
  /\ UNCHANGED <<recorders, starting, usedIds>>

\* The critical section of stopRecordingInternal hands its entry to one call.
LEMMA StopStarts ==
  ASSUME TypeOK, NEW ch \in Channels, StopBegin(ch), ~VodLocked, UNCHANGED <<recorders, starting, usedIds>>
  PROVE  \E x : Stops(ch, x)
<1> DEFINE x == [id |-> recordings[ch].id, ch |-> ch, stop |-> recordings[ch].stop, step |-> "complete"]
<1>1. Stops(ch, x)
  BY DEF StopBegin, Stops, VodLocked
<1> QED BY <1>1

\* A call of stopRecordingInternal goes from its file to its consumer.
Goes(x, y) ==
  /\ y.id = x.id /\ y.ch = x.ch
  /\ stopping' = (stopping \ {x}) \cup {y}
  /\ UNCHANGED <<recorders, recordings, starting, timers, fired, usedIds>>

\* completeRecording, with or without its file, keeps the books.
LEMMA CompleteStep ==
  ASSUME TypeOK, NEW x \in stopping, CompleteRecording(x)
  PROVE  \E y : Goes(x, y)
<1> DEFINE y == [x EXCEPT !.step = "release"]
<1>1. x \in [id : RecIds, stop : Times, ch : Channels, step : {"complete", "release"}]
  BY DEF TypeOK
<1>2. y.id = x.id /\ y.ch = x.ch
  BY <1>1
<1>3. Goes(x, y)
  BY <1>2 DEF Goes, CompleteRecording, sessionVars
<1> QED BY <1>3

\* A process that ends has nothing left in its books.
LEMMA ForgetStep ==
  ASSUME Crash \/ Shutdown
  PROVE  /\ \A ch \in Channels : recorders'[ch] = {} /\ recordings'[ch] = None
         /\ starting' = None /\ UNCHANGED usedIds
  BY DEF Crash, Shutdown, ForgetMemory

\* The steps by what they do to the books.
BookKinds ==
  \/ UNCHANGED bookVars /\ \A ch \in Channels : recorders'[ch] \subseteq recorders[ch]
  \/ \E id \in RecIds, ch \in Channels : Begins(id, ch)
  \/ \E e, t : Finishes(e, t)
  \/ \E ch \in Channels : \E x : Stops(ch, x) /\ (UNCHANGED fired \/ \E t : t.ch = ch /\ fired' = fired \ {t})
  \/ \E t \in fired : /\ t.ch \in Channels /\ recordings[t.ch] = None /\ fired' = fired \ {t}
                      /\ UNCHANGED <<recorders, recordings, starting, timers, stopping, usedIds>>
  \/ \E t \in timers : /\ timers' = timers \ {t} /\ fired' = fired \cup {t}
                       /\ UNCHANGED <<recorders, recordings, starting, stopping, usedIds>>
  \/ \E x \in stopping : \E y : Goes(x, y)
  \/ \E x \in stopping : /\ UNCHANGED <<recordings, starting, timers, fired, usedIds>>
                         /\ stopping' = stopping \ {x}
                         /\ x.ch \in Channels
                         /\ recorders'[x.ch] \subseteq recorders[x.ch] \ {x.id}
                         /\ \A ch \in Channels : recorders'[ch] \subseteq recorders[ch]
  \/ /\ \A ch \in Channels : recorders'[ch] = {} /\ recordings'[ch] = None
     /\ starting' = None /\ UNCHANGED usedIds

\* Every step is of one of these kinds.
LEMMA StepKinds ==
  ASSUME TypeOK, Next
  PROVE  BookKinds
<1>1. ASSUME SessionStep \/ Advance \/ Restart \/ RecoverScan \/ (\E m \in recovering : RecoverRemove(m))
      PROVE  BookKinds
  BY <1>1, QuietSteps DEF BookKinds
<1>2. ASSUME NEW id \in RecIds, NEW ch \in Channels, NEW d \in Durations, StartRecording(id, ch, d)
      PROVE  BookKinds
  BY <1>2, BeginStep DEF StartRecording, BookKinds
<1>3. ASSUME NEW m \in recovering, NEW id \in RecIds, RecoverStart(m, id) PROVE BookKinds
  <2>1. m.ch \in Channels /\ m.stop \in Times
    BY DEF TypeOK
  <2> QED BY <1>3, <2>1, BeginStep DEF RecoverStart, BookKinds
<1>4. ASSUME StartFinish PROVE BookKinds
  BY <1>4, FinishStep DEF BookKinds
<1>5. ASSUME NEW ch \in Channels, StopRecording(ch) PROVE BookKinds
  <2>1. UNCHANGED <<recorders, starting, usedIds>> /\ UNCHANGED fired /\ ~VodLocked
    BY <1>5 DEF StopRecording, sessionVars
  <2>2. PICK x : Stops(ch, x)
    BY <1>5, <2>1, StopStarts DEF StopRecording
  <2> QED BY <2>1, <2>2 DEF BookKinds
<1>6. ASSUME NEW t \in fired, AutoStop(t) PROVE BookKinds
  <2>1. /\ UNCHANGED <<recorders, starting, usedIds>> /\ fired' = fired \ {t} /\ ~VodLocked
        /\ t.ch \in Channels
    BY <1>6 DEF AutoStop, sessionVars, TypeOK
  <2>2. CASE StopBegin(t.ch)
    <3>1. PICK x : Stops(t.ch, x)
      BY <2>2, <2>1, StopStarts
    <3> QED BY <2>1, <3>1 DEF BookKinds
  <2>3. CASE recordings[t.ch] = None /\ UNCHANGED <<recordings, timers, stopping>>
    BY <2>1, <2>3 DEF BookKinds
  <2> QED BY <1>6, <2>2, <2>3 DEF AutoStop
<1>7. ASSUME NEW t \in timers, TimerFires(t) PROVE BookKinds
  BY <1>7 DEF TimerFires, BookKinds, sessionVars
<1>8. ASSUME NEW x \in stopping, CompleteRecording(x) PROVE BookKinds
  BY <1>8, CompleteStep DEF BookKinds
<1>9. ASSUME NEW x \in stopping, ReleaseRecorder(x) PROVE BookKinds
  BY <1>9, ReleaseStep DEF BookKinds
<1>10. ASSUME Crash \/ Shutdown PROVE BookKinds
  BY <1>10, ForgetStep DEF BookKinds
<1> QED
  BY <1>1, <1>2, <1>3, <1>4, <1>5, <1>6, <1>7, <1>8, <1>9, <1>10
  DEF Next, UserStep, StopStep, RecoverStep, ProcessStep

-----------------------------------------------------------------------------
(* The invariant *)

\* Whatever a step does to the books, an identity stays with one recording,
\* and one that is being started finds its channel free.
LEMMA BookStep ==
  ASSUME IInv, BookKinds
  PROVE  StartAlone' /\ IdsOnce'
<1> USE DEF IInv, StartAlone, IdsOnce
<1>0. recordings \in [Channels -> Entries \cup {None}] /\ recorders \in [Channels -> SUBSET RecIds]
  BY DEF RecorderInvariant, TypeOK
<1>1. CASE UNCHANGED bookVars /\ \A ch \in Channels : recorders'[ch] \subseteq recorders[ch]
  BY <1>1 DEF bookVars
<1>2. ASSUME NEW id \in RecIds, NEW ch \in Channels, Begins(id, ch) PROVE StartAlone' /\ IdsOnce'
  BY <1>0, <1>2 DEF Begins
<1>3. ASSUME NEW e, NEW t, Finishes(e, t) PROVE StartAlone' /\ IdsOnce'
  BY <1>0, <1>3 DEF Finishes
<1>4. ASSUME NEW ch \in Channels, NEW x, Stops(ch, x) PROVE StartAlone' /\ IdsOnce'
  BY <1>0, <1>4 DEF Stops
<1>5. CASE UNCHANGED <<recorders, recordings, starting, usedIds>>
  BY <1>5
<1>6. CASE /\ UNCHANGED <<recordings, starting, usedIds>>
           /\ \A ch \in Channels : recorders'[ch] \subseteq recorders[ch]
  BY <1>6
<1>7. CASE /\ \A ch \in Channels : recorders'[ch] = {} /\ recordings'[ch] = None
           /\ starting' = None /\ UNCHANGED usedIds
  BY <1>7
<1> QED BY <1>1, <1>2, <1>3, <1>4, <1>5, <1>6, <1>7 DEF BookKinds, Goes

\* No step leaves a recording consumer without its recording: a stop carries
\* the identity until RemoveConsumer has taken the consumer out.
LEMMA OrphanStep ==
  ASSUME IInv, BookKinds
  PROVE  NoOrphanRecorder'
<1> USE DEF IInv, RecorderInvariant, NoOrphanRecorder
<1>0. recordings \in [Channels -> Entries \cup {None}] /\ recorders \in [Channels -> SUBSET RecIds]
  BY DEF TypeOK
<1>1. CASE UNCHANGED bookVars /\ \A ch \in Channels : recorders'[ch] \subseteq recorders[ch]
  BY <1>1 DEF bookVars
<1>2. ASSUME NEW id \in RecIds, NEW ch \in Channels, Begins(id, ch) PROVE NoOrphanRecorder'
  BY <1>0, <1>2 DEF Begins
<1>3. ASSUME NEW e, NEW t, Finishes(e, t) PROVE NoOrphanRecorder'
  BY <1>0, <1>3 DEF Finishes, StartAlone
<1>4. ASSUME NEW ch \in Channels, NEW x, Stops(ch, x) PROVE NoOrphanRecorder'
  BY <1>0, <1>4 DEF Stops
<1>5. CASE UNCHANGED <<recorders, recordings, starting, stopping>>
  BY <1>5
<1>6. ASSUME NEW x \in stopping, NEW y, Goes(x, y) PROVE NoOrphanRecorder'
  BY <1>6 DEF Goes
<1>7. ASSUME NEW x \in stopping, UNCHANGED <<recordings, starting>>, stopping' = stopping \ {x}, x.ch \in Channels,
             recorders'[x.ch] \subseteq recorders[x.ch] \ {x.id},
             \A ch \in Channels : recorders'[ch] \subseteq recorders[ch]
      PROVE  NoOrphanRecorder'
  BY <1>7
<1>8. CASE \A ch \in Channels : recorders'[ch] = {} /\ recordings'[ch] = None
  BY <1>8
<1> QED BY <1>1, <1>2, <1>3, <1>4, <1>5, <1>6, <1>7, <1>8 DEF BookKinds

\* No step leaves a recording without an auto-stop: a stop drops the timers of
\* its own recording only, and a goroutine that comes too late finds nothing.
LEMMA ArmedStep ==
  ASSUME IInv, BookKinds
  PROVE  AutoStopArmed'
<1> USE DEF IInv, RecorderInvariant, AutoStopArmed
<1>0. recordings \in [Channels -> Entries \cup {None}] /\ recorders \in [Channels -> SUBSET RecIds]
  BY DEF TypeOK
<1>1. CASE UNCHANGED <<recordings, timers, fired>>
  BY <1>1
<1>2. ASSUME NEW e, NEW t, Finishes(e, t) PROVE AutoStopArmed'
  BY <1>0, <1>2 DEF Finishes
<1>3. ASSUME NEW ch \in Channels, NEW x, Stops(ch, x),
             UNCHANGED fired \/ \E t : t.ch = ch /\ fired' = fired \ {t}
      PROVE  AutoStopArmed'
  BY <1>0, <1>3 DEF Stops, IdsOnce
<1>4. ASSUME NEW t \in fired, recordings[t.ch] = None, fired' = fired \ {t}, UNCHANGED <<recordings, timers>>
      PROVE  AutoStopArmed'
  BY <1>4
<1>5. ASSUME NEW t \in timers, timers' = timers \ {t}, fired' = fired \cup {t}, UNCHANGED recordings
      PROVE  AutoStopArmed'
  BY <1>5
<1>6. CASE \A ch \in Channels : recordings'[ch] = None
  BY <1>6
<1> QED BY <1>1, <1>2, <1>3, <1>4, <1>5, <1>6 DEF BookKinds, bookVars, Begins, Goes

\* The invariant is kept by every step, crashes and recoveries included.
LEMMA NextIInv == IInv /\ [Next]_vars => IInv'
<1>1. ASSUME IInv, Next PROVE IInv'
  BY <1>1, TypeStep, StepKinds, BookStep, OrphanStep, ArmedStep DEF IInv, RecorderInvariant
<1>2. ASSUME IInv, UNCHANGED vars PROVE IInv'
  BY <1>2
  DEF vars, sessionVars, recVars, diskVars, recoverVars, IInv, RecorderInvariant, TypeOK, NoOrphanRecorder,
      AutoStopArmed, StartAlone, IdsOnce
<1> QED BY <1>1, <1>2

\* The inductive invariant holds throughout.
LEMMA Invariance == Spec => []IInv
  BY InitIInv, NextIInv, PTL DEF Spec

\* Whatever is started, stopped, watched, crashed and recovered: no recording
\* consumer stays in a session without its recording, and every entry of
\* VODService.recordings has an auto-stop to come.
THEOREM RecorderCorrect == Spec => []RecorderInvariant
<1>1. IInv => RecorderInvariant
  BY DEF IInv
<1> QED BY <1>1, Invariance, PTL

-----------------------------------------------------------------------------
(* Recording implements RecordingContract                                  *)

\* The service promises nothing about a step that leaves its promise alone.
LEMMA ContractStutter ==
  ASSUME UNCHANGED <<up, recordings, session>>
  PROVE  UNCHANGED Contract!contractVars
  BY DEF Contract!contractVars, SessionChannels

\* A session that appears beside the recordings.
LEMMA SessionAppears ==
  ASSUME TypeOK, up, NEW ch \in Channels, session' = [session EXCEPT ![ch] = "live"], UNCHANGED <<up, recordings>>
  PROVE  [Contract!ContractNext]_(Contract!contractVars)
<1> USE DEF TypeOK, SessionChannels
<1>1. SessionChannels' = SessionChannels \cup {ch}
  OBVIOUS
<1>2. CASE ch \in SessionChannels
  <2>1. SessionChannels' = SessionChannels
    BY <1>1, <1>2
  <2> QED BY <2>1 DEF Contract!contractVars
<1>3. CASE ch \notin SessionChannels
  <2>1. Contract!SessionComes(ch)
    BY <1>1, <1>3 DEF Contract!SessionComes
  <2> QED BY <2>1 DEF Contract!ContractNext
<1> QED BY <1>2, <1>3

\* RemoveConsumer, of a viewer or of a recording: the session stays or goes.
LEMMA SessionLeaves ==
  ASSUME TypeOK, up, NEW ch \in Channels, NEW V \in SUBSET Channels, NEW R \in SUBSET RecIds,
         Release(ch, V, R), UNCHANGED <<up, recordings>>
  PROVE  [Contract!ContractNext]_(Contract!contractVars)
<1> USE DEF TypeOK, SessionChannels
<1>1. CASE UNCHANGED session
  BY <1>1, ContractStutter
<1>2. CASE session[ch] # "none" /\ session' = [session EXCEPT ![ch] = "none"]
  <2>1. ch \in SessionChannels /\ SessionChannels' = SessionChannels \ {ch}
    BY <1>2
  <2>2. Contract!SessionGoes(ch)
    BY <2>1 DEF Contract!SessionGoes
  <2> QED BY <2>2 DEF Contract!ContractNext
<1> QED BY <1>1, <1>2 DEF Release

\* A start shows to the callers when finalizeRecordingStart writes the entry;
\* before that it brings a session at most.
LEMMA StartBeginContract ==
  ASSUME TypeOK, NEW id \in RecIds, NEW ch \in Channels, NEW stop \in Times, StartBegin(id, ch, stop)
  PROVE  [Contract!ContractNext]_(Contract!contractVars)
<1>1. up /\ UNCHANGED <<up, recordings>>
  BY DEF StartBegin
<1>2. CASE UNCHANGED session
  BY <1>1, <1>2, ContractStutter
<1>3. CASE CreateSession(ch)
  BY <1>1, <1>3, SessionAppears DEF CreateSession
<1> QED BY <1>2, <1>3 DEF StartBegin

\* The stop of a recording is the stop the contract speaks of: the session
\* goes later, with the consumer.
LEMMA StopBeginContract ==
  ASSUME TypeOK, up, NEW ch \in Channels, StopBegin(ch), UNCHANGED <<up, session>>
  PROVE  Contract!ContractNext
<1>1. Contract!Stop(ch)
  BY DEF Contract!Stop, StopBegin, SessionChannels
<1> QED BY <1>1 DEF Contract!ContractNext

\* Every step of the service keeps its promise or does not touch it.
LEMMA ContractStep ==
  ASSUME IInv, [Next]_vars
  PROVE  [Contract!ContractNext]_(Contract!contractVars)
<1> USE DEF IInv, RecorderInvariant, sessionVars, recVars, diskVars, recoverVars
<1>0. TypeOK
  OBVIOUS
<1>1. ASSUME NEW ch \in Channels, Watch(ch) PROVE [Contract!ContractNext]_(Contract!contractVars)
  <2>1. up /\ UNCHANGED <<up, recordings>>
    BY <1>1 DEF Watch
  <2>2. UNCHANGED session \/ session' = [session EXCEPT ![ch] = "live"]
    BY <1>1 DEF Watch, CreateSession
  <2> QED BY <1>0, <2>1, <2>2, ContractStutter, SessionAppears
<1>2. ASSUME NEW ch \in Channels, StopWatching(ch) PROVE [Contract!ContractNext]_(Contract!contractVars)
  <2>1. viewer \ {ch} \in SUBSET Channels /\ recorders[ch] \in SUBSET RecIds
    BY DEF TypeOK
  <2> QED BY <1>0, <1>2, <2>1, SessionLeaves DEF StopWatching
<1>3. ASSUME NEW ch \in Channels, PipelineWrites(ch) PROVE [Contract!ContractNext]_(Contract!contractVars)
  BY <1>3, ContractStutter DEF PipelineWrites
<1>4. ASSUME NEW ch \in Channels, PipelineEnds(ch) PROVE [Contract!ContractNext]_(Contract!contractVars)
  <2>1. SessionChannels' = SessionChannels
    BY <1>4 DEF PipelineEnds, SessionChannels, TypeOK
  <2> QED BY <1>4, <2>1 DEF PipelineEnds, Contract!contractVars
<1>5. ASSUME NEW id \in RecIds, NEW ch \in Channels, NEW d \in Durations, StartRecording(id, ch, d)
      PROVE  [Contract!ContractNext]_(Contract!contractVars)
  BY <1>0, <1>5, StartBeginContract DEF StartRecording
<1>6. ASSUME NEW ch \in Channels, StopRecording(ch) PROVE [Contract!ContractNext]_(Contract!contractVars)
  BY <1>0, <1>6, StopBeginContract DEF StopRecording
<1>7. ASSUME StartFinish PROVE [Contract!ContractNext]_(Contract!contractVars)
  <2>1. starting \in [id : RecIds, stop : Times, ch : Channels] /\ recordings[starting.ch] = None
    BY <1>7 DEF StartFinish, VodLocked, TypeOK, StartAlone
  <2>2. starting.ch \in Channels /\ starting.id \in RecIds /\ starting.stop \in Contract!Times
    BY <2>1 DEF Times, Contract!Times
  <2>3. Contract!Start(starting.ch, starting.id, starting.stop)
    BY <1>7, <2>1 DEF StartFinish, Contract!Start, SessionChannels
  <2> QED BY <2>2, <2>3 DEF Contract!ContractNext
<1>8. ASSUME NEW t \in timers, TimerFires(t) PROVE [Contract!ContractNext]_(Contract!contractVars)
  BY <1>8, ContractStutter DEF TimerFires
<1>9. ASSUME NEW t \in fired, AutoStop(t) PROVE [Contract!ContractNext]_(Contract!contractVars)
  <2>1. t.ch \in Channels /\ up /\ UNCHANGED <<up, session>>
    BY <1>9 DEF AutoStop, TypeOK
  <2>2. StopBegin(t.ch) \/ UNCHANGED recordings
    BY <1>9 DEF AutoStop
  <2> QED BY <1>0, <2>1, <2>2, StopBeginContract, ContractStutter
<1>10. ASSUME NEW x \in stopping, CompleteRecording(x) PROVE [Contract!ContractNext]_(Contract!contractVars)
  BY <1>10, ContractStutter DEF CompleteRecording
<1>11. ASSUME NEW x \in stopping, ReleaseRecorder(x) PROVE [Contract!ContractNext]_(Contract!contractVars)
  <2>1. x.ch \in Channels /\ ConsumersLeft(x) \in SUBSET RecIds /\ viewer \in SUBSET Channels
    BY DEF TypeOK, ConsumersLeft
  <2> QED BY <1>0, <1>11, <2>1, SessionLeaves DEF ReleaseRecorder
<1>12. ASSUME Advance PROVE [Contract!ContractNext]_(Contract!contractVars)
  BY <1>12, ContractStutter DEF Advance
<1>13. ASSUME Crash \/ Shutdown PROVE [Contract!ContractNext]_(Contract!contractVars)
  <2>1. up /\ ForgetMemory
    BY <1>13 DEF Crash, Shutdown
  <2>2. Contract!Down
    BY <2>1 DEF ForgetMemory, Contract!Down, SessionChannels
  <2> QED BY <2>2 DEF Contract!ContractNext
<1>14. ASSUME Restart PROVE [Contract!ContractNext]_(Contract!contractVars)
  <2>1. Contract!Up
    BY <1>14 DEF Restart, Contract!Up, SessionChannels
  <2> QED BY <2>1 DEF Contract!ContractNext
<1>15. ASSUME RecoverScan \/ \E m \in recovering : RecoverRemove(m)
       PROVE  [Contract!ContractNext]_(Contract!contractVars)
  BY <1>15, ContractStutter DEF RecoverScan, RecoverRemove
<1>16. ASSUME NEW m \in recovering, NEW id \in RecIds, RecoverStart(m, id)
       PROVE  [Contract!ContractNext]_(Contract!contractVars)
  <2>1. m.ch \in Channels /\ m.stop \in Times
    BY DEF TypeOK
  <2> QED BY <1>0, <1>16, <2>1, StartBeginContract DEF RecoverStart
<1>17. ASSUME UNCHANGED vars PROVE [Contract!ContractNext]_(Contract!contractVars)
  BY <1>17, ContractStutter DEF vars
<1> QED
  BY <1>1, <1>2, <1>3, <1>4, <1>5, <1>6, <1>7, <1>8, <1>9, <1>10, <1>11, <1>12, <1>13, <1>14, <1>15, <1>16, <1>17
  DEF Next, SessionStep, UserStep, StopStep, RecoverStep, ProcessStep

\* The recording service keeps its promise to the API, the scheduler and the
\* recovery: a channel records once at a time, a start finds it free, and a
\* recording keeps its owner and its stop time until a stop or the end of the
\* process.
THEOREM ContractKept == Spec => ImplementsContract
<1>1. Init => Contract!ContractInit
  BY DEF Init, Contract!ContractInit, SessionChannels
<1>2. IInv /\ [Next]_vars => [Contract!ContractNext]_(Contract!contractVars)
  BY ContractStep
<1> QED BY <1>1, <1>2, Invariance, PTL DEF Spec, ImplementsContract, Contract!ContractSpec

=============================================================================
