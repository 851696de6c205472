--------------------------- MODULE SessionManager ---------------------------
(***************************************************************************)
(* The session manager of pkg/session: one Session per key (a channel or a *)
(* stream ID), shared by its viewers and its recording, a pipeline         *)
(* goroutine per (re)start, and the goroutines that tear a session down.   *)
(*                                                                         *)
(* Every action is one critical section or one blocking step of a          *)
(* goroutine: Manager.mu guards the map, Session.mu the consumers, and the *)
(* steps between them (cancel, the wait for done, the removal of the       *)
(* directory) run under no lock, or with Manager.mu held for a whole       *)
(* replacement (Locked).                                                   *)
(***************************************************************************)
EXTENDS Naturals, FiniteSets

CONSTANTS
  Keys,       \* keys of Manager.sessions (StartOpts.ChannelID)
  Dirs,       \* the "active" directories of the streams
  DirOf,      \* the directory of the stream a key plays; keys may share one
  SessIds,    \* identities of Session objects, used once each (a bound)
  Segmented,  \* the sessions delivered as MSE or HLS segments
  Consumers,  \* consumer identities, each is added at most once
  Recorders,  \* the consumers of type ConsumerRecording
  Seekers,    \* calls of RestartWithSeek, each runs once (a bound)
  MaxGen,     \* bound on the restarts of one session
  None

ASSUME ConstantsAssumption ==
  /\ DirOf \in [Keys -> Dirs]
  /\ Segmented \subseteq SessIds
  /\ Recorders \subseteq Consumers
  /\ MaxGen \in Nat
  /\ None \notin Keys \cup SessIds

\* Each start of a pipeline has its own context and its own done channel.
Gens == 0..MaxGen

VARIABLES
  sessions,     \* Manager.sessions
  keyOf,        \* Session.ChannelID; None: the object does not exist yet
  consumers,    \* Session.consumers
  recorded,     \* the sessions with Recorded set
  wasRecording, \* the sessions with wasRecording set
  seekable,     \* the sessions with a non-nil seekFunc
  gen,          \* which generation Session.cancel, done and doneOnce belong to
  closed,       \* the closed done channels of a session
  cancelled,    \* the cancelled contexts of a session
  pipe,         \* state of the pipeline goroutine of each generation
  pending,      \* the sessions a spawned stopAndCleanup has yet to handle
  teardown,     \* progress of the goroutine that tears a session down
  reason,       \* which function tears it down
  waitOn,       \* the done channel that goroutine waits for
  pc,           \* where the caller that owns a consumer is
  at,           \* the *Session that caller holds
  asked,        \* the key that caller uses
  seekPc,       \* where a RestartWithSeek call is
  seekAt,       \* the *Session it holds
  dirs,         \* the directories that exist
  files         \* the sessions whose output is on disk

sessVars == <<keyOf, consumers, recorded, wasRecording, seekable>>
pipeVars == <<gen, closed, cancelled, pipe>>
tearVars == <<pending, teardown, reason, waitOn>>
callVars == <<pc, at, asked>>
seekVars == <<seekPc, seekAt>>
diskVars == <<dirs, files>>
vars == <<sessions, sessVars, pipeVars, tearVars, callVars, seekVars, diskVars>>

Phases == {"none", "unlinked", "cancelled", "waiting", "gone"}
Reasons == {"none", "stop", "replace", "shutdown"}

Init ==
  /\ sessions = [k \in Keys |-> None]
  /\ keyOf = [s \in SessIds |-> None]
  /\ consumers = [s \in SessIds |-> {}]
  /\ recorded = {} /\ wasRecording = {} /\ seekable = {}
  /\ gen = [s \in SessIds |-> 0]
  /\ closed = [s \in SessIds |-> {}]
  /\ cancelled = [s \in SessIds |-> {}]
  /\ pipe = [s \in SessIds |-> [g \in Gens |-> "none"]]
  /\ pending = {}
  /\ teardown = [s \in SessIds |-> "none"]
  /\ reason = [s \in SessIds |-> "none"]
  /\ waitOn = [s \in SessIds |-> 0]
  /\ pc = [c \in Consumers |-> "fresh"]
  /\ at = [c \in Consumers |-> None]
  /\ asked = [c \in Consumers |-> None]
  /\ seekPc = [q \in Seekers |-> "idle"]
  /\ seekAt = [q \in Seekers |-> None]
  /\ dirs = {} /\ files = {}

-----------------------------------------------------------------------------
(* Helpers *)

Created == {s \in SessIds : keyOf[s] # None}
Fresh == {s \in SessIds : keyOf[s] = None}
Registered(s) == keyOf[s] # None /\ sessions[keyOf[s]] = s
Dir(s) == DirOf[keyOf[s]]

\* GetOrCreateWithConsumer holds Manager.mu while it replaces a dead session.
Locked == \E c \in Consumers : pc[c] = "replacing"

\* Session.isDone looks at the current done channel.
IsDone(s) == gen[s] \in closed[s]

HasRecordingConsumer(s) == consumers[s] \cap Recorders # {}

AddConsumer(s, c) ==
  /\ consumers' = [consumers EXCEPT ![s] = @ \cup {c}]
  /\ wasRecording' = wasRecording \cup (IF c \in Recorders THEN {s} ELSE {})

AnySession(s) == TRUE  \* slip: the current != s test is lost

\* stopAndCleanup goes on only for the session that is still in the map.
IsCurrent(s) == sessions[keyOf[s]] = s

OneLeft(left) == Cardinality(left) = 1  \* slip: counts before removing

\* RemoveConsumer acts on the consumer that left nobody behind.
LastOut(left) == left = {}

NoCancel(s) == cancelled' = cancelled  \* slip: the context is never cancelled

\* s.cancel() cancels the context of the current generation.
Cancel(s) == cancelled' = [cancelled EXCEPT ![s] = @ \cup {gen[s]}]

\* slip: the channel of the next start is closed
MarkNext(s) == closed' = [closed EXCEPT ![s] = @ \cup {gen[s] + 1}]

\* slip: the doneOnce of the first start is kept, and closes only one channel
MarkOnce(s) == closed' = IF closed[s] = {} THEN [closed EXCEPT ![s] = {gen[s]}] ELSE closed

\* Session.markDone closes whatever channel the session has now.
MarkDone(s) == closed' = [closed EXCEPT ![s] = @ \cup {gen[s]}]

\* The call of c goes to step p, holding session s; between calls the owner
\* of a consumer keeps only the key it asked for.
Goto(c, p, s, k) ==
  /\ pc' = [pc EXCEPT ![c] = p]
  /\ at' = [at EXCEPT ![c] = s]
  /\ asked' = [asked EXCEPT ![c] = k]

NoWait(s) == TRUE  \* slip: cleans up without waiting for the pipeline

\* <-s.done returns: the channel the goroutine evaluated is closed.
DoneReceived(s) == waitOn[s] \in closed[s]

\* Which sessions keep their directory: the three paths test different fields.
Preserved(s) ==
  \/ s \in recorded
  \/ reason[s] = "stop" /\ s \in wasRecording
  \/ reason[s] = "shutdown" /\ HasRecordingConsumer(s)

-----------------------------------------------------------------------------
(* GetOrCreateWithConsumer *)

JoinExisting(c, k) ==
  /\ pc[c] = "fresh" /\ ~Locked
  /\ sessions[k] # None
  /\ ~IsDone(sessions[k])
  /\ AddConsumer(sessions[k], c)
  /\ Goto(c, "attached", None, k)
  /\ UNCHANGED <<sessions, keyOf, recorded, seekable, pipeVars, tearVars,
                 seekVars, diskVars>>

\* The session is dead: cleanupDoneSession unlinks it, with the lock kept.
ReplaceDone(c, k) ==
  /\ pc[c] = "fresh" /\ ~Locked
  /\ sessions[k] # None
  /\ IsDone(sessions[k])
  /\ sessions' = [sessions EXCEPT ![k] = None]
  /\ teardown' = [teardown EXCEPT ![sessions[k]] = "unlinked"]
  /\ reason' = [reason EXCEPT ![sessions[k]] = "replace"]
  /\ Goto(c, "replacing", sessions[k], k)
  /\ UNCHANGED <<sessVars, pipeVars, pending, waitOn, seekVars, diskVars>>

\* slip: the map is not looked at again before the session is stored
CheckThenAct(c, k) ==
  \/ pc[c] = "fresh" /\ ~Locked
  \/ pc[c] = "replacing" /\ asked[c] = k /\ teardown[at[c]] = "gone"

\* c may create a session for k: there is none, or it has replaced a dead one.
MayCreate(c, k) ==
  \/ pc[c] = "fresh" /\ ~Locked /\ sessions[k] = None
  \/ pc[c] = "replacing" /\ asked[c] = k /\ teardown[at[c]] = "gone"

StartSession(c, k, s) ==
  /\ MayCreate(c, k)
  /\ s \in Fresh
  /\ dirs' = dirs \cup {DirOf[k]}
  /\ keyOf' = [keyOf EXCEPT ![s] = k]
  /\ AddConsumer(s, c)
  /\ sessions' = [sessions EXCEPT ![k] = s]
  /\ pipe' = [pipe EXCEPT ![s][0] = "opening"]
  /\ Goto(c, "attached", None, k)
  /\ UNCHANGED <<recorded, seekable, gen, closed, cancelled, tearVars,
                 seekVars, files>>

\* MkdirAll fails: the lock is released and the caller gets an error.
CreateFails(c, k) ==
  /\ MayCreate(c, k)
  /\ Goto(c, "over", None, None)
  /\ UNCHANGED <<sessions, sessVars, pipeVars, tearVars, seekVars, diskVars>>

-----------------------------------------------------------------------------
(* AddRecordingConsumer: the map is read under the lock, the rest is not.  *)

AddRecLookup(c, k) ==
  /\ pc[c] = "fresh" /\ c \in Recorders /\ ~Locked
  /\ sessions[k] # None
  /\ Goto(c, "adding", sessions[k], k)
  /\ UNCHANGED <<sessions, sessVars, pipeVars, tearVars, seekVars, diskVars>>

AddRecApply(c) ==
  /\ pc[c] = "adding"
  /\ AddConsumer(at[c], c)
  /\ recorded' = recorded \cup {at[c]}
  /\ Goto(c, "attached", None, asked[c])
  /\ UNCHANGED <<sessions, keyOf, seekable, pipeVars, tearVars, seekVars, diskVars>>

-----------------------------------------------------------------------------
(* RemoveConsumer: look up, remove, check for a recording, spawn.          *)

RemoveLookup(c) ==
  /\ pc[c] = "attached" /\ ~Locked
  /\ LET s == sessions[asked[c]] IN
       Goto(c, IF s = None THEN "over" ELSE "found", s, None)
  /\ UNCHANGED <<sessions, sessVars, pipeVars, tearVars, seekVars, diskVars>>

RemoveApply(c) ==
  /\ pc[c] = "found"
  /\ consumers' = [consumers EXCEPT ![at[c]] = @ \ {c}]
  /\ \/ LastOut(consumers[at[c]] \ {c}) /\ Goto(c, "emptied", at[c], None)
     \/ ~LastOut(consumers[at[c]] \ {c}) /\ Goto(c, "over", None, None)
  /\ UNCHANGED <<sessions, keyOf, recorded, wasRecording, seekable, pipeVars,
                 tearVars, seekVars, diskVars>>

RemoveCheck(c) ==
  /\ pc[c] = "emptied"
  /\ pending' = IF HasRecordingConsumer(at[c]) THEN pending ELSE pending \cup {at[c]}
  /\ Goto(c, "over", None, None)
  /\ UNCHANGED <<sessions, sessVars, pipeVars, teardown, reason, waitOn, seekVars, diskVars>>

-----------------------------------------------------------------------------
(* Tearing a session down *)

\* The critical section of stopAndCleanup; a session that is no longer the
\* one registered is left alone.
StopAndCleanup(s) ==
  /\ s \in pending /\ ~Locked
  /\ pending' = pending \ {s}
  /\ \/ /\ IsCurrent(s)
        /\ sessions' = [sessions EXCEPT ![keyOf[s]] = None]
        /\ teardown' = [teardown EXCEPT ![s] = "unlinked"]
        /\ reason' = [reason EXCEPT ![s] = "stop"]
     \/ /\ ~IsCurrent(s)
        /\ UNCHANGED <<sessions, teardown, reason>>
  /\ UNCHANGED <<sessVars, pipeVars, waitOn, callVars, seekVars, diskVars>>

\* Shutdown takes every session out of the map, then tears them down one by one.
Shutdown ==
  /\ ~Locked
  /\ \E k \in Keys : sessions[k] # None
  /\ \A s \in SessIds : reason[s] = "shutdown" => teardown[s] = "gone"
  /\ sessions' = [k \in Keys |-> None]
  /\ teardown' = [s \in SessIds |-> IF Registered(s) THEN "unlinked" ELSE teardown[s]]
  /\ reason' = [s \in SessIds |-> IF Registered(s) THEN "shutdown" ELSE reason[s]]
  /\ UNCHANGED <<sessVars, pipeVars, pending, waitOn, callVars, seekVars, diskVars>>

\* s.cancel()
TearCancel(s) ==
  /\ teardown[s] = "unlinked"
  /\ reason[s] = "shutdown" =>
       \A t \in SessIds : reason[t] = "shutdown" => teardown[t] \in {"unlinked", "gone"}
  /\ teardown' = [teardown EXCEPT ![s] = "cancelled"]
  /\ Cancel(s)
  /\ UNCHANGED <<sessions, sessVars, gen, closed, pipe, pending, reason, waitOn, callVars,
                 seekVars, diskVars>>

\* <-s.done evaluates s.done ...
TearWait(s) ==
  /\ teardown[s] = "cancelled"
  /\ teardown' = [teardown EXCEPT ![s] = "waiting"]
  /\ waitOn' = [waitOn EXCEPT ![s] = gen[s]]
  /\ UNCHANGED <<sessions, sessVars, pipeVars, pending, reason, callVars, seekVars, diskVars>>

\* ... and returns when that channel is closed; then the directory goes,
\* with everything any session of the stream keeps in it.
TearFinish(s) ==
  /\ teardown[s] = "waiting" /\ DoneReceived(s)
  /\ teardown' = [teardown EXCEPT ![s] = "gone"]
  /\ IF Preserved(s)
       THEN UNCHANGED diskVars
       ELSE /\ dirs' = dirs \ {Dir(s)}
            /\ files' = {t \in files : Dir(t) # Dir(s)}
  /\ UNCHANGED <<sessions, sessVars, pipeVars, pending, reason, waitOn, callVars, seekVars>>

-----------------------------------------------------------------------------
(* RestartWithSeek *)

SeekLookup(q, k) ==
  /\ seekPc[q] = "idle" /\ ~Locked
  /\ sessions[k] # None
  /\ seekPc' = [seekPc EXCEPT ![q] = "found"]
  /\ seekAt' = [seekAt EXCEPT ![q] = sessions[k]]
  /\ UNCHANGED <<sessions, sessVars, pipeVars, tearVars, callVars, diskVars>>

\* Session.Seek hands the position to the seekFunc and the call returns.
SeekInPlace(q) ==
  /\ seekPc[q] = "found" /\ seekAt[q] \in seekable
  /\ seekPc' = [seekPc EXCEPT ![q] = "over"]
  /\ seekAt' = [seekAt EXCEPT ![q] = None]
  /\ UNCHANGED <<sessions, sessVars, pipeVars, tearVars, callVars, diskVars>>

SeekStop(q) ==
  /\ seekPc[q] = "found" /\ seekAt[q] \notin seekable
  /\ seekPc' = [seekPc EXCEPT ![q] = "stopping"]
  /\ Cancel(seekAt[q])
  /\ UNCHANGED <<sessions, sessVars, gen, closed, pipe, tearVars, callVars, seekAt, diskVars>>

\* The wait ends when done is closed or after three seconds, whichever is
\* first, so it bounds nothing: the old pipeline may still be at work when
\* the session gets its new context, channel and pipeline.
SeekSwap(q) ==
  LET s == seekAt[q] IN
  /\ seekPc[q] = "stopping" /\ gen[s] < MaxGen
  /\ seekPc' = [seekPc EXCEPT ![q] = "over"]
  /\ seekAt' = [seekAt EXCEPT ![q] = None]
  /\ dirs' = dirs \cup {Dir(s)}
  /\ files' = files \ {s}
  /\ gen' = [gen EXCEPT ![s] = @ + 1]
  /\ pipe' = [pipe EXCEPT ![s][gen[s] + 1] = "opening"]
  /\ UNCHANGED <<sessions, keyOf, consumers, recorded, wasRecording, seekable, closed,
                 cancelled, tearVars, callVars>>

-----------------------------------------------------------------------------
(* runPipeline; the context is only looked at once the stream is open.     *)

\* The stream opens and the sink is made: a file needs the directory, a
\* segmented sink makes it again.
PipelineOpen(s, g) ==
  /\ pipe[s][g] = "opening"
  /\ Dir(s) \in dirs \/ s \in Segmented
  /\ pipe' = [pipe EXCEPT ![s][g] = "running"]
  /\ seekable' = seekable \cup {s}
  /\ dirs' = dirs \cup {Dir(s)}
  /\ files' = files \cup {s}
  /\ UNCHANGED <<sessions, keyOf, consumers, recorded, wasRecording, gen, closed,
                 cancelled, tearVars, callVars, seekVars>>

\* The demuxer or the sink cannot be opened.
PipelineFail(s, g) ==
  /\ pipe[s][g] = "opening"
  /\ pipe' = [pipe EXCEPT ![s][g] = "ended"]
  /\ MarkDone(s)
  /\ UNCHANGED <<sessions, keyOf, consumers, recorded, wasRecording, seekable, gen,
                 cancelled, tearVars, callVars, seekVars, diskVars>>

\* The demux loop returns: its context is cancelled, or the source ended or broke.
PipelineEnd(s, g) ==
  /\ pipe[s][g] = "running"
  /\ pipe' = [pipe EXCEPT ![s][g] = "ended"]
  /\ MarkDone(s)
  /\ UNCHANGED <<sessions, keyOf, consumers, recorded, wasRecording, seekable, gen,
                 cancelled, tearVars, callVars, seekVars, diskVars>>

-----------------------------------------------------------------------------
GetOrCreate(c, k) ==
  \/ JoinExisting(c, k)
  \/ ReplaceDone(c, k)
  \/ \E s \in SessIds : StartSession(c, k, s)
  \/ CreateFails(c, k)

RemoveConsumer(c) == RemoveLookup(c) \/ RemoveApply(c) \/ RemoveCheck(c)

Teardown(s) == TearCancel(s) \/ TearWait(s) \/ TearFinish(s)

RestartWithSeek(q) == SeekInPlace(q) \/ SeekStop(q) \/ SeekSwap(q)

Next ==
  \/ \E c \in Consumers, k \in Keys : GetOrCreate(c, k) \/ AddRecLookup(c, k)
  \/ \E c \in Consumers : AddRecApply(c) \/ RemoveConsumer(c)
  \/ \E s \in SessIds : StopAndCleanup(s) \/ Teardown(s)
  \/ Shutdown
  \/ \E q \in Seekers : RestartWithSeek(q) \/ \E k \in Keys : SeekLookup(q, k)
  \/ \E s \in SessIds, g \in Gens :
       PipelineOpen(s, g) \/ PipelineFail(s, g) \/ PipelineEnd(s, g)

Spec == Init /\ [][Next]_vars

\* Goroutines that have started go on; a pipeline opens or gives up (the
\* demuxer has a timeout), and a cancelled one ends.  Callers are not fair:
\* nobody has to watch, to leave or to seek.
Fairness ==
  /\ \A c \in Consumers : WF_vars(RemoveApply(c)) /\ WF_vars(RemoveCheck(c))
  /\ \A c \in Consumers : WF_vars(\E k \in Keys : pc[c] = "replacing" /\ GetOrCreate(c, k))
  /\ \A s \in SessIds : WF_vars(StopAndCleanup(s)) /\ WF_vars(Teardown(s))
  /\ \A s \in SessIds, g \in Gens :
       /\ WF_vars(PipelineOpen(s, g) \/ PipelineFail(s, g))
       /\ WF_vars(g \in cancelled[s] /\ PipelineEnd(s, g))

FairSpec == Spec /\ Fairness

\* The same when it does not matter who goes on: some goroutine does, while one
\* can. Identities and restarts are used once, so in the end all have.
GoroutineStep ==
  \/ \E c \in Consumers :
       RemoveApply(c) \/ RemoveCheck(c) \/ \E k \in Keys : pc[c] = "replacing" /\ GetOrCreate(c, k)
  \/ \E s \in SessIds : StopAndCleanup(s) \/ Teardown(s)
  \/ \E s \in SessIds, g \in Gens :
       PipelineOpen(s, g) \/ PipelineFail(s, g) \/ (g \in cancelled[s] /\ PipelineEnd(s, g))

GoingSpec == Spec /\ WF_vars(GoroutineStep)

-----------------------------------------------------------------------------
(* Properties *)

\* Every variable has its type (Manager and Session fields, and the local
\* variables of the goroutines).
TypeOK ==
  /\ sessions \in [Keys -> SessIds \cup {None}]
  /\ keyOf \in [SessIds -> Keys \cup {None}]
  /\ consumers \in [SessIds -> SUBSET Consumers]
  /\ recorded \subseteq SessIds /\ wasRecording \subseteq SessIds
  /\ seekable \subseteq SessIds
  /\ gen \in [SessIds -> Gens]
  /\ closed \in [SessIds -> SUBSET Gens]
  /\ cancelled \in [SessIds -> SUBSET Gens]
  /\ pipe \in [SessIds -> [Gens -> {"none", "opening", "running", "ended"}]]
  /\ pending \subseteq SessIds
  /\ teardown \in [SessIds -> Phases]
  /\ reason \in [SessIds -> Reasons]
  /\ waitOn \in [SessIds -> Gens]
  /\ pc \in [Consumers -> {"fresh", "replacing", "adding", "attached", "found",
                           "emptied", "over"}]
  /\ at \in [Consumers -> SessIds \cup {None}]
  /\ asked \in [Consumers -> Keys \cup {None}]
  /\ seekPc \in [Seekers -> {"idle", "found", "stopping", "over"}]
  /\ seekAt \in [Seekers -> SessIds \cup {None}]
  /\ dirs \subseteq Dirs
  /\ files \subseteq SessIds

\* The map holds exactly the sessions nobody tears down: no goroutine tears
\* down a session that can still be joined, and no session falls out of the
\* map without a goroutine that will stop its pipeline (stopAndCleanup,
\* cleanupDoneSession and Shutdown race for the same map entries).
MapHoldsTheLive ==
  /\ \A k \in Keys : sessions[k] # None =>
       keyOf[sessions[k]] = k /\ teardown[sessions[k]] = "none"
  /\ \A s \in Created : teardown[s] = "none" => Registered(s)

\* A session that nobody uses is on its way out: whoever removed the last
\* consumer has yet to check for a recording, or stopAndCleanup is spawned.
\* The lookup, the removal and the check of RemoveConsumer are separate.
EmptyIsReclaimed ==
  \A s \in SessIds : Registered(s) /\ consumers[s] = {} =>
    s \in pending \/ \E c \in Consumers : pc[c] = "emptied" /\ at[c] = s

\* The directory of a session is removed only after its pipelines have
\* stopped writing (the <-s.done in every teardown path).
CleanedAfterPipeline ==
  \A s \in SessIds : teardown[s] = "gone" =>
    \A g \in Gens : pipe[s][g] \notin {"opening", "running"}

\* A seek gave a session that is being replaced a new pipeline after its
\* context had been cancelled: nobody cancels the new one.
Overtaken ==
  \E c \in Consumers :
    /\ pc[c] = "replacing" /\ teardown[at[c]] \in {"cancelled", "waiting"}
    /\ gen[at[c]] \notin cancelled[at[c]]

\* Manager.mu is not held for ever by a caller that replaces a dead session:
\* the channel it waits for under the lock is closed, also when RestartWithSeek,
\* which takes no lock, has exchanged it, except when the exchange falls
\* after the cancel: then the lock is held for as long as the new pipeline
\* runs, or for ever if it was the channel waited for that was exchanged.
LockReleased == Locked ~> (~Locked \/ Overtaken)

\* A session without consumers leaves the map or is joined again.
EmptyIsRemoved ==
  \A s \in SessIds :
    (Registered(s) /\ consumers[s] = {}) ~> (~Registered(s) \/ consumers[s] # {})

\* RECORDING-DESIGN.md:112: a recording goes on when its viewer leaves, so
\* stopAndCleanup never takes out a session with a recording consumer.
RecordingKeepsSession ==
  [][\A s \in SessIds :
       (teardown[s] = "none" /\ reason'[s] = "stop") => ~HasRecordingConsumer(s)]_vars

\* The life of each Session as SessionLifecycle sees it.
Status == [s \in SessIds |->
  CASE keyOf[s] = None -> "unused"
    [] keyOf[s] # None /\ teardown[s] = "none" -> "live"
    [] keyOf[s] # None /\ teardown[s] = "gone" -> "closed"
    [] OTHER -> "closing"]

Lifecycle == INSTANCE SessionLifecycle WITH live <- sessions, status <- Status

\* The manager implements SessionLifecycle: one live session per key, opened
\* once and closed once, whatever the callers and the goroutines do.
ImplementsLifecycle == Lifecycle!Safety

\* With the goroutines fair every closing session is closed in the end.
ImplementsFairLifecycle == Lifecycle!Spec

-----------------------------------------------------------------------------
\* For the runs: all keys play one stream, whose directory they share, a channel
\* and the stream itself, or a channel alone.
OneDir == [k \in Keys |-> CHOOSE d \in Dirs : TRUE]
=============================================================================
