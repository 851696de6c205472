------------------------------ MODULE Pipeline ------------------------------
(***************************************************************************)
(* One media pipeline of a session: pkg/session/gopipeline.go and the      *)
(* goroutine that runs it (runPipeline and runGo* in                       *)
(* pkg/session/manager.go, pkg/lib/av/demuxloop).                          *)
(*                                                                         *)
(* A pipeline owns native resources (files, codec contexts, resamplers,    *)
(* muxers) that the garbage collector does not free.  Its constructor      *)
(* acquires them one by one and must release the ones it holds when a step *)
(* fails; the read goroutine pushes packets through them and resets them   *)
(* on a seek; another goroutine may stop the pipeline at any moment.       *)
(*                                                                         *)
(*   held   the parts whose struct field is not nil                        *)
(*   live   the parts whose native resource is allocated                   *)
(*                                                                         *)
(* The mutex p.mu makes each of PushVideo, PushAudio, ResetForSeek and     *)
(* Stop one step.  Frames and packets are abstracted to the outcome of     *)
(* pushing them.                                                           *)
(***************************************************************************)
EXTENDS Naturals, Sequences

CONSTANTS
  Jobs,      \* the pipelines a session may be asked to run
  MaxSeeks   \* bound on the seeks requested in one pipeline's life

Parts == {"file", "muxer", "videoDec", "deint", "scaler", "videoEnc",
          "audioDec", "audioResample", "audioEnc", "audioFifo"}

Kinds == {"streamCopy", "audioTranscode", "fullTranscode", "mseTranscode",
          "mseCopy", "hlsCopy", "hlsTranscode"}

(* A job: the pipeline's kind, whether the source has a video track and a  *)
(* selected audio track, and whether a deinterlacer, a scaler and (where   *)
(* the kind makes it optional) a resampler are called for.                 *)
JobType == [kind : Kinds, video : BOOLEAN, audio : BOOLEAN,
            deint : BOOLEAN, scale : BOOLEAN, resample : BOOLEAN]

ASSUME PipelineAssumption == Jobs \subseteq JobType /\ MaxSeeks \in Nat

VARIABLES
  job,        \* the job the goroutine runs
  phase,      \* where the goroutine is
  step,       \* the constructor step it takes next
  held, live,
  stopped,    \* p.stopped
  latched,    \* p.audioLatched
  stopFn,     \* s.stopPipeline is set to this pipeline's Stop
  teardown,   \* how far the goroutine that ends the session has come
  seekReq,    \* a request waits in the demuxer's seekCh
  seeks,      \* seeks requested so far
  failed,     \* the demux loop returned an error
  sessErr,    \* s.err is set
  resetLost,  \* a muxer Reset failed and no later one succeeded
  lateReset   \* ResetForSeek ran on a stopped pipeline

pipelineVars == <<job, phase, step, held, live, stopped, latched, stopFn, teardown,
                  seekReq, seeks, failed, sessErr, resetLost, lateReset>>

-----------------------------------------------------------------------------
(* Which pipeline a session gets.                                          *)

(* What the client asked for and what the source holds.  out is the        *)
(* requested video codec: "copy" stands for "", "copy" and "default",      *)
(* "same" for one whose base codec is the source's.                        *)
DescriptorType ==
  [delivery : {"stream", "mse", "hls"}, out : {"copy", "same", "other"},
   forced : BOOLEAN, video : BOOLEAN, audio : BOOLEAN,
   deint : BOOLEAN, scale : BOOLEAN, resample : BOOLEAN]

(* resolveNeedsTranscode: a source without video has codec "". *)
NeedsTranscode(d) == d.out # "copy" /\ (~d.video \/ d.out = "other")

(* forceDecode: a bitrate is set, or the output is smaller than the source. *)
ForceDecode(d) == NeedsTranscode(d) \/ d.forced \/ (d.scale /\ d.video)

(* runPipeline's branches; with needsTranscode the codecs differ, so the   *)
(* branch that compares outCodec with srcCodec is never taken.             *)
ChoosePipeline(d) ==
  CASE d.delivery = "hls" -> IF ForceDecode(d) THEN "hlsTranscode" ELSE "hlsCopy"
    [] d.delivery = "mse" -> IF ForceDecode(d) THEN "mseTranscode" ELSE "mseCopy"
    [] d.delivery = "stream" ->
         IF ~NeedsTranscode(d) THEN "streamCopy"
         ELSE IF d.video /\ d.out = "same" THEN "audioTranscode"
         ELSE "fullTranscode"

JobOf(d) == [kind |-> ChoosePipeline(d), video |-> d.video, audio |-> d.audio,
             deint |-> d.deint, scale |-> d.scale, resample |-> d.resample]

-----------------------------------------------------------------------------
(* The constructors.  A step acquires the parts in opens, is taken only if *)
(* the job says so (when), and on failure closes the parts in closes       *)
(* before the constructor returns; Parts stands for p.close(), which       *)
(* closes every field that is not nil.                                     *)

Step(opens, when, closes) == [opens |-> opens, when |-> when, closes |-> closes]

Sink == {"muxer", "file"}

StreamCopySteps ==
  << Step({"file"}, "always", {}),
     Step({"muxer"}, "always", {"file"}),
     Step({}, "video", Sink),      \* codec parameters, AddStream
     Step({}, "audio", Sink),
     Step({}, "always", Sink) >>   \* WriteHeader

AudioTranscodeSteps ==
  << Step({"file"}, "always", {}),
     Step({"muxer"}, "always", {"file"}),
     Step({}, "video", Sink),
     Step({"audioDec"}, "audio", Sink),
     Step({"audioResample"}, "resample", Sink \cup {"audioDec"}),
     Step({"audioEnc", "audioFifo"}, "audio",
          Sink \cup {"audioDec", "audioResample"}),
     Step({}, "audio", Parts),
     Step({}, "always", Parts) >>

(* The codec-ID step is the first to read info.Video, which may be nil. *)
FullTranscodeVideoSteps ==
  << Step({"file"}, "always", {}),
     Step({"muxer"}, "always", {"file"}),
     Step({}, "videoInfo", Sink),
     Step({"videoDec"}, "always", Parts),
     Step({"deint"}, "deint", Parts),
     Step({"scaler"}, "scale", Parts),
     Step({"videoEnc"}, "always", Parts),
     Step({}, "always", Parts) >>  \* output codec, AddStream

FullTranscodeAudioSteps ==
  << Step({"audioDec"}, "audio", Parts),
     Step({"audioResample"}, "resample", Parts),
     Step({"audioEnc", "audioFifo"}, "audio", Parts),
     Step({}, "audio", Parts),
     Step({}, "always", Parts) >>

MSETranscodeVideoSteps ==
  << Step({}, "always", {}),       \* the segments directory
     Step({"videoDec"}, "videoInfo", {}),
     Step({"deint"}, "deint", Parts),
     Step({"scaler"}, "scale", Parts),
     Step({"videoEnc"}, "always", Parts),
     Step({}, "always", Parts) >>  \* output codec

MSETranscodeAudioSteps ==
  << Step({"audioDec"}, "audio", Parts),
     Step({"audioResample"}, "audio", Parts),
     Step({"audioEnc", "audioFifo"}, "audio", Parts),
     Step({"muxer"}, "always", Parts) >>

(* A copy pipeline goes on without audio when a part of its audio path     *)
(* cannot be built (see BuildWithoutAudio); it refuses a source without    *)
(* video.                                                                  *)
MSECopySteps ==
  << Step({}, "always", {}),
     Step({}, "needVideo", {}),
     Step({"audioDec"}, "audio", {}),
     Step({"audioResample"}, "audio", {"audioDec"}),
     Step({"audioEnc", "audioFifo"}, "audio", {"audioDec", "audioResample"}),
     Step({"muxer"}, "always", Parts) >>

HLSCopySteps == MSECopySteps

HLSTranscodeVideoSteps == MSETranscodeVideoSteps

HLSTranscodeAudioSteps == MSETranscodeAudioSteps

StepsOf == [streamCopy     |-> StreamCopySteps,
            audioTranscode |-> AudioTranscodeSteps,
            fullTranscode  |-> FullTranscodeVideoSteps \o FullTranscodeAudioSteps,
            mseTranscode   |-> MSETranscodeVideoSteps \o MSETranscodeAudioSteps,
            mseCopy        |-> MSECopySteps,
            hlsCopy        |-> HLSCopySteps,
            hlsTranscode   |-> HLSTranscodeVideoSteps \o HLSTranscodeAudioSteps]

Transcodes(j) == j.kind \in {"fullTranscode", "mseTranscode", "hlsTranscode"}

CopiesToSegments(j) == j.kind \in {"mseCopy", "hlsCopy"}

WritesSegments(j) == CopiesToSegments(j) \/ j.kind \in {"mseTranscode", "hlsTranscode"}

CallsFor(j, s) ==
  CASE s.when = "video"    -> j.video
    [] s.when = "audio"    -> j.audio
    [] s.when = "resample" -> j.audio /\ j.resample
    [] s.when = "deint"    -> j.deint
    [] s.when = "scale"    -> j.scale
    [] s.when \in {"always", "videoInfo", "needVideo"} -> TRUE

Steps == StepsOf[job.kind]

-----------------------------------------------------------------------------
(* What an operation on an open pipeline touches.                          *)

UsedByVideo(j) ==
  {"muxer"} \cup (IF Transcodes(j)
                  THEN {"videoDec", "videoEnc"} \cup (held \cap {"deint", "scaler"})
                  ELSE {})

UsedByAudio(j) ==
  {"muxer"} \cup (IF j.kind = "streamCopy" THEN {}
                  ELSE {"audioDec", "audioEnc"} \cup (held \cap {"audioResample"}))

(* The early returns of PushVideo and PushAudio. *)
TakesVideo == ~stopped /\ (Transcodes(job) \/ job.video)

TakesAudio == /\ ~stopped
              /\ ~latched
              /\ job.audio
              /\ job.kind = "streamCopy" \/ "audioDec" \in held

(* Stop closes every field that is not nil, once. *)
ClosedParts == IF stopped THEN live ELSE live \ held

(* Only the HLS muxer checks for itself that its context is there. *)
Guarded(j) == IF j.kind \in {"hlsCopy", "hlsTranscode"} THEN {"muxer"} ELSE {}

-----------------------------------------------------------------------------
PipelineInit ==
  /\ job \in Jobs
  /\ phase = "building"
  /\ step = 1
  /\ held = {} /\ live = {}
  /\ stopped = FALSE /\ latched = FALSE
  /\ stopFn = FALSE /\ teardown = "none"
  /\ seekReq = FALSE /\ seeks = 0
  /\ failed = FALSE /\ sessErr = FALSE
  /\ resetLost = FALSE /\ lateReset = FALSE

(* The constructor, one step at a time. *)

Building == phase = "building" /\ step <= Len(Steps)

ThisStep == Steps[step]

Called == CallsFor(job, ThisStep)

Soft == CopiesToSegments(job) /\ ThisStep.when = "audio"

(* NewDemuxSession fails: no pipeline is built. *)
DemuxFails ==
  /\ phase = "building" /\ step = 1
  /\ phase' = "ended"
  /\ sessErr' = TRUE
  /\ UNCHANGED <<job, step, held, live, stopped, latched, stopFn, teardown,
                 seekReq, seeks, failed, resetLost, lateReset>>

NewParts == IF Called THEN ThisStep.opens ELSE {}

(* A step succeeds, or is not called for.  The FIFO allocates nothing      *)
(* before its first Write.                                                 *)
Build ==
  /\ Building
  /\ ThisStep.when \in {"videoInfo", "needVideo"} => job.video
  /\ held' = held \cup NewParts
  /\ live' = live \cup (NewParts \ {"audioFifo"})
  /\ step' = step + 1
  /\ UNCHANGED <<job, phase, stopped, latched, stopFn, teardown, seekReq,
                 seeks, failed, sessErr, resetLost, lateReset>>

(* A step fails: the constructor closes what the step lists and returns an *)
(* error, which becomes the session's.                                     *)
BuildFails ==
  /\ Building
  /\ Called /\ ~Soft
  /\ ~(ThisStep.when = "videoInfo" /\ ~job.video)
  /\ live' = live \ (ThisStep.closes \cap held)
  /\ phase' = "ended"
  /\ sessErr' = TRUE
  /\ UNCHANGED <<job, step, held, stopped, latched, stopFn, teardown, seekReq,
                 seeks, failed, resetLost, lateReset>>

(* A copy pipeline drops its audio: audioDec becomes nil, a closed         *)
(* resampler keeps its pointer, and only the muxer is left to build.       *)
BuildWithoutAudio ==
  /\ Building
  /\ Called /\ Soft
  /\ live' = live \ ThisStep.closes
  /\ held' = held \ {"audioDec"}
  /\ step' = Len(Steps)
  /\ UNCHANGED <<job, phase, stopped, latched, stopFn, teardown, seekReq,
                 seeks, failed, sessErr, resetLost, lateReset>>

(* A transcoding constructor reads info.Video of a source without video. *)
NilVideo ==
  /\ Building
  /\ ThisStep.when = "videoInfo"
  /\ ~job.video
  /\ phase' = "crashed"
  /\ UNCHANGED <<job, step, held, live, stopped, latched, stopFn, teardown,
                 seekReq, seeks, failed, sessErr, resetLost, lateReset>>

(* The constructor returned: s.SetStopPipeline. *)
Register ==
  /\ phase = "building" /\ step > Len(Steps)
  /\ phase' = IF WritesSegments(job) THEN "watching" ELSE "running"
  /\ stopFn' = TRUE
  /\ UNCHANGED <<job, step, held, live, stopped, latched, teardown, seekReq,
                 seeks, failed, sessErr, resetLost, lateReset>>

(* NewWatcher, for the pipelines that write segments. *)
Watch ==
  /\ phase = "watching"
  /\ phase' = "running"
  /\ UNCHANGED <<job, step, held, live, stopped, latched, stopFn, teardown,
                 seekReq, seeks, failed, sessErr, resetLost, lateReset>>

WatchFails ==
  /\ phase = "watching"
  /\ phase' = "ended"
  /\ sessErr' = TRUE
  /\ live' = ClosedParts
  /\ stopped' = TRUE
  /\ UNCHANGED <<job, step, held, latched, stopFn, teardown, seekReq, seeks,
                 failed, resetLost, lateReset>>

-----------------------------------------------------------------------------
(* The demux loop.  A video packet that goes through changes nothing here. *)

EndLoop(err) == phase' = "stopping" /\ failed' = err

PushVideoFails ==
  /\ phase = "running"
  /\ TakesVideo
  /\ UsedByVideo(job) \ live \subseteq Guarded(job)
  /\ EndLoop(TRUE)
  /\ UNCHANGED <<job, step, held, live, stopped, latched, stopFn, teardown,
                 seekReq, seeks, sessErr, resetLost, lateReset>>

PushAudio ==
  /\ phase = "running"
  /\ TakesAudio
  /\ UsedByAudio(job) \subseteq live
  /\ live' = live \cup (held \cap {"audioFifo"})
  /\ UNCHANGED <<job, phase, step, held, stopped, latched, stopFn, teardown,
                 seekReq, seeks, failed, sessErr, resetLost, lateReset>>

(* An audio error is latched and the video goes on; only the plain stream  *)
(* copy returns it.  The error may come before or after the FIFO's first   *)
(* allocation.                                                             *)
PushAudioFails ==
  /\ phase = "running"
  /\ TakesAudio
  /\ UsedByAudio(job) \ live \subseteq Guarded(job)
  /\ live' \in {live, live \cup (held \cap {"audioFifo"})}
  /\ \/ job.kind = "streamCopy" /\ EndLoop(TRUE) /\ UNCHANGED latched
     \/ job.kind # "streamCopy" /\ latched' = TRUE /\ UNCHANGED <<phase, failed>>
  /\ UNCHANGED <<job, step, held, stopped, stopFn, teardown, seekReq, seeks,
                 sessErr, resetLost, lateReset>>

(* A push reaches a part whose native resource is gone. *)
PushCrashes ==
  /\ phase = "running"
  /\ \/ TakesVideo /\ ~(UsedByVideo(job) \ live \subseteq Guarded(job))
     \/ TakesAudio /\ ~(UsedByAudio(job) \ live \subseteq Guarded(job))
  /\ phase' = "crashed"
  /\ UNCHANGED <<job, step, held, live, stopped, latched, stopFn, teardown,
                 seekReq, seeks, failed, sessErr, resetLost, lateReset>>

(* io.EOF: sink.EndOfStream() stops the pipeline. *)
EndOfStream ==
  /\ phase = "running"
  /\ EndLoop(FALSE)
  /\ live' = ClosedParts
  /\ stopped' = TRUE
  /\ UNCHANGED <<job, step, held, latched, stopFn, teardown, seekReq, seeks,
                 sessErr, resetLost, lateReset>>

ReadFails ==
  /\ phase = "running"
  /\ EndLoop(TRUE)
  /\ UNCHANGED <<job, step, held, live, stopped, latched, stopFn, teardown,
                 seekReq, seeks, sessErr, resetLost, lateReset>>

(* ctx.Err() at the head of the loop. *)
CancelSeen == teardown = "cancelled"

SeeCancel ==
  /\ phase = "running"
  /\ CancelSeen
  /\ EndLoop(FALSE)
  /\ UNCHANGED <<job, step, held, live, stopped, latched, stopFn, teardown,
                 seekReq, seeks, sessErr, resetLost, lateReset>>

(* RunWithSink returned: gp.Stop(), and the error unless ctx is cancelled. *)
Finish ==
  /\ phase = "stopping"
  /\ phase' = "ended"
  /\ live' = ClosedParts
  /\ stopped' = TRUE
  /\ sessErr' = (sessErr \/ (failed /\ teardown # "cancelled"))
  /\ UNCHANGED <<job, step, held, latched, stopFn, teardown, seekReq, seeks,
                 failed, resetLost, lateReset>>

-----------------------------------------------------------------------------
(* Seeks: Demuxer.RequestSeek from another goroutine, taken by the read    *)
(* goroutine between two frames, whatever has happened to the pipeline.    *)

RequestSeek ==
  /\ phase = "running"
  /\ ~seekReq
  /\ seeks < MaxSeeks
  /\ seekReq' = TRUE
  /\ seeks' = seeks + 1
  /\ UNCHANGED <<job, phase, step, held, live, stopped, latched, stopFn,
                 teardown, failed, sessErr, resetLost, lateReset>>

(* A slip of the next operator: the resampler's old context is dropped and *)
(* no new one is made.                                                     *)
FreedOnly == live \ {"audioFifo", "audioResample"}

(* ResetForSeek frees the FIFO and replaces the resampler's context: it    *)
(* allocates one even if Stop has closed the resampler.                    *)
ResetParts == (live \ {"audioFifo"}) \cup (held \cap {"audioResample"})

(* The stream copy has no ResetForSeek. *)
SeekPlain ==
  /\ phase = "running" /\ seekReq
  /\ job.kind = "streamCopy"
  /\ seekReq' = FALSE
  /\ UNCHANGED <<job, phase, step, held, live, stopped, latched, stopFn,
                 teardown, seeks, failed, sessErr, resetLost, lateReset>>

(* onSeek; a muxer that writes segments is rebuilt unless it is closed. *)
SeekReset ==
  /\ phase = "running" /\ seekReq
  /\ job.kind # "streamCopy"
  /\ seekReq' = FALSE
  /\ latched' = FALSE
  /\ live' = ResetParts \cup (IF WritesSegments(job) /\ ~stopped THEN {"muxer"} ELSE {})
  /\ resetLost' = (resetLost /\ stopped)
  /\ lateReset' = (lateReset \/ stopped)
  /\ UNCHANGED <<job, phase, step, held, stopped, stopFn, teardown, seeks,
                 failed, sessErr>>

(* The muxer cannot be rebuilt (the init segment cannot be written, say):  *)
(* its old context is gone, and ResetForSeek ignores the error.            *)
SeekResetFails ==
  /\ phase = "running" /\ seekReq
  /\ WritesSegments(job) /\ ~stopped
  /\ seekReq' = FALSE
  /\ latched' = FALSE
  /\ live' = ResetParts \ {"muxer"}
  /\ resetLost' = TRUE
  /\ UNCHANGED <<job, phase, step, held, stopped, stopFn, teardown, seeks,
                 failed, sessErr, lateReset>>

-----------------------------------------------------------------------------
(* Another goroutine ends the session: s.StopPipeline(), then s.cancel().  *)

StopPipeline ==
  /\ teardown = "none" /\ phase # "crashed"
  /\ teardown' = "stopped"
  /\ stopFn' = FALSE
  /\ \/ stopFn /\ live' = ClosedParts /\ stopped' = TRUE
     \/ ~stopFn /\ UNCHANGED <<live, stopped>>
  /\ UNCHANGED <<job, phase, step, held, latched, seekReq, seeks, failed,
                 sessErr, resetLost, lateReset>>

Cancel ==
  /\ teardown = "stopped" /\ phase # "crashed"
  /\ teardown' = "cancelled"
  /\ UNCHANGED <<job, phase, step, held, live, stopped, latched, stopFn,
                 seekReq, seeks, failed, sessErr, resetLost, lateReset>>

Construct == DemuxFails \/ Build \/ BuildFails \/ BuildWithoutAudio \/ NilVideo
               \/ Register \/ Watch \/ WatchFails

Loop == PushVideoFails \/ PushAudio \/ PushAudioFails \/ PushCrashes
          \/ EndOfStream \/ ReadFails \/ SeeCancel \/ Finish
          \/ SeekPlain \/ SeekReset \/ SeekResetFails

PipelineNext == Construct \/ Loop \/ RequestSeek \/ StopPipeline \/ Cancel

PipelineSpec == PipelineInit /\ [][PipelineNext]_pipelineVars

(* The goroutine takes its constructor steps, looks at ctx in every turn   *)
(* of its loop, and stops the pipeline when the loop returns.              *)
FairPipelineSpec == PipelineSpec /\ WF_pipelineVars(Construct) /\ WF_pipelineVars(SeeCancel) /\ WF_pipelineVars(Finish)

-----------------------------------------------------------------------------
(* Every variable has its type. *)
PipelineTypes ==
  /\ job \in Jobs
  /\ phase \in {"building", "watching", "running", "stopping", "ended", "crashed"}
  /\ step \in 1 .. Len(Steps) + 1
  /\ held \subseteq Parts /\ live \subseteq held \cup {"audioDec"}
  /\ stopped \in BOOLEAN /\ latched \in BOOLEAN /\ stopFn \in BOOLEAN
  /\ teardown \in {"none", "stopped", "cancelled"}
  /\ seekReq \in BOOLEAN /\ seeks \in 0 .. MaxSeeks
  /\ failed \in BOOLEAN /\ sessErr \in BOOLEAN
  /\ resetLost \in BOOLEAN /\ lateReset \in BOOLEAN

(* While a pipeline takes packets, every native resource a push would      *)
(* touch is allocated, whatever seeks, stops and failed audio parts came   *)
(* before; the one exception is a muxer whose Reset failed.                *)
ReadyWhileRunning ==
  phase = "running" /\ ~resetLost =>
    /\ TakesVideo => UsedByVideo(job) \subseteq live
    /\ TakesAudio => UsedByAudio(job) \subseteq live

(* When the goroutine has ended, every resource it acquired is released,   *)
(* on every failure path of every constructor too; the one exception is    *)
(* the resampler of a pipeline that was reset after it was stopped.        *)
ReleasedAtEnd ==
  phase = "ended" => live \subseteq (IF lateReset THEN {"audioResample"} ELSE {})

(* The process is brought down in two ways only: a transcoding pipeline    *)
(* for a source without video, and a packet for a fragmented muxer whose   *)
(* Reset failed.                                                           *)
CrashCauses ==
  phase = "crashed" =>
    \/ Transcodes(job) /\ ~job.video
    \/ resetLost /\ job.kind \in {"mseCopy", "mseTranscode"}

(* What a push touches is allocated, what was acquired is released in the  *)
(* end, and the process is brought down in two ways only.                  *)
PipelineSound == PipelineTypes /\ ReadyWhileRunning /\ ReleasedAtEnd /\ CrashCauses

(* A cancelled pipeline comes to its end (markDone), unless the process    *)
(* is brought down.                                                        *)
CancelledEnds == teardown = "cancelled" ~> phase \in {"ended", "crashed"}

=============================================================================
