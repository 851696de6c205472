--------------------------- MODULE MCDelivery ---------------------------
(***************************************************************************)
(* What carries a stream to its viewers and recordings: the pipeline of a  *)
(* session, the goroutine that reads its source, the readers of its        *)
(* growing file, the connection that the viewers of a proxied channel      *)
(* share, and the scheduler's worker, which sees the recording service     *)
(* through RecordingContract. They share no state, so each behaviour is    *)
(* one of the component in focus, and the others stay as they begin.       *)
(***************************************************************************)
EXTENDS Pipeline, Demux, ProxyFanout, Tail

\* Every job a session can ask for, and the audio transcode, which no session
\* reaches but which gopipeline.go offers.
MCJobs ==
  {JobOf(d) : d \in DescriptorType}
    \cup {j \in JobType : j.kind = "audioTranscode" /\ ~j.deint /\ ~j.scale}

\* A recording in two languages with a description; the live source of a
\* channel; a film without a language asked for.
Track(i, lang, isAD, codec, channels) ==
  [index |-> i, lang |-> lang, isAD |-> isAD, codec |-> codec, channels |-> channels]
Tracks == <<Track(1, "en", TRUE, "aac", 2), Track(2, "fr", FALSE, "ac3", 6),
            Track(3, "fr", FALSE, "aac", 2), Track(4, "fr", FALSE, "aac", 2)>>
Source(isLive, tracks, lang, mode, offset) ==
  [live |-> isLive, start |-> 1, tracks |-> tracks, lang |-> lang, mode |-> mode, seekOffset |-> offset]
MCSources == {Source(TRUE, <<>>, "", "hls", 0), Source(FALSE, Tracks, "en", "full", 2),
              Source(FALSE, Tracks, "", "audio", 0)}

\* Programs of one and two time units, one after the other and overlapping.
MCWindows == {[start |-> 0, stop |-> 1], [start |-> 1, stop |-> 2], [start |-> 0, stop |-> 2]}

VARIABLES
  focus,  \* the component this behaviour is about
  up, recordings, sessions, now, status, rec, calls, deletes, schedulerPhase, tickNow,
  todo

C == INSTANCE Scheduler WITH
  Channels <- {"ch"}, RecIds <- {"s", "manual"}, MaxTime <- 3, Schedules <- {"s"},
  Manual <- "manual", Users <- {"u"}, Windows <- MCWindows, StartCutoff <- 1,
  LeadTime <- 1, RecordStopBuffer <- 1, phase <- schedulerPhase

schedulerVars == <<up, recordings, sessions, now, status, rec, calls, deletes,
  schedulerPhase, tickNow, todo>>

deliveryVars == <<focus, pipelineVars, proxyVars, demuxVars, tailVars, schedulerVars>>

DeliveryInit ==
  /\ focus \in {"pipeline", "fanout", "demux", "readers", "scheduler"}
  /\ PipelineInit
  /\ ProxyInit
  /\ DemuxInit
  /\ TailInit
  /\ C!Init
  /\ focus = "pipeline" \/ job = CHOOSE j \in Jobs : TRUE
  /\ focus = "demux" \/ source = CHOOSE s \in Sources : TRUE

PipelinesNext ==
  /\ focus = "pipeline"
  /\ PipelineNext
  /\ UNCHANGED <<focus, proxyVars, demuxVars, tailVars, schedulerVars>>

FanoutNext ==
  /\ focus = "fanout"
  /\ ProxyNext
  /\ UNCHANGED <<focus, pipelineVars, demuxVars, tailVars, schedulerVars>>

SourceNext ==
  /\ focus = "demux"
  /\ DemuxNext
  /\ UNCHANGED <<focus, pipelineVars, proxyVars, tailVars, schedulerVars>>

ReadersNext ==
  /\ focus = "readers"
  /\ TailNext
  /\ UNCHANGED <<focus, pipelineVars, proxyVars, demuxVars, schedulerVars>>

SchedulerNext ==
  /\ focus = "scheduler"
  /\ C!Next
  /\ UNCHANGED <<focus, pipelineVars, proxyVars, demuxVars, tailVars>>

DeliveryNext == PipelinesNext \/ FanoutNext \/ SourceNext \/ ReadersNext \/ SchedulerNext

\* The component in focus is scheduled fairly; the others do not move.
DeliveryFairness ==
  /\ WF_pipelineVars(focus = "pipeline" /\ Construct)
  /\ WF_pipelineVars(focus = "pipeline" /\ SeeCancel)
  /\ WF_pipelineVars(focus = "pipeline" /\ Finish)
  /\ \A v \in Viewers : WF_proxyVars(focus = "fanout" /\ ViewerSteps(v))
  /\ \A k \in Conns : WF_proxyVars(focus = "fanout" /\ proxyLoop(k))
  /\ WF_demuxVars(focus = "demux" /\ DemuxSteps)
  /\ \A v \in Readers : WF_tailVars(focus = "readers" /\ ReaderSteps(v))
  /\ WF_schedulerVars(focus = "scheduler" /\ C!Advance)
  /\ WF_schedulerVars(focus = "scheduler" /\ C!TickStep)
  /\ WF_schedulerVars(focus = "scheduler" /\ (\E c \in calls : c.by = "worker" /\ C!CallStep(c)))
  /\ WF_schedulerVars(focus = "scheduler" /\ C!AutoStop("ch"))

DeliverySpec == DeliveryInit /\ [][DeliveryNext]_deliveryVars /\ DeliveryFairness

-----------------------------------------------------------------------------
\* The time stamps the sink is given go back only after a seek or a reopening
\* of the source, and a reader that has seen a seek delivers nothing from
\* before it; and the audio track that the sink is given is the one that is
\* wanted most, though two places choose one. (Demux, Tail.)
ForwardOnly ==
  /\ NeverBackInTime
  /\ [](focus = "demux" => BestTrackRead)
  /\ NothingOlder

\* A cancelled pipeline comes to its end, no upstream connection outlives its
\* viewers, a cancelled read goroutine ends whatever its retries do, a viewer
\* of a session that is done gets its end, and every schedule and every
\* recording that one started come to an end while the process stays up, even
\* if the schedule is deleted meanwhile. (Pipeline, ProxyFanout, Demux, Tail,
\* Scheduler.)
EverythingEnds ==
  /\ CancelledEnds
  /\ UpstreamReleased
  /\ CancelEnds
  /\ ReadersEnd
  /\ C!EventuallyResolved
  /\ C!ScheduledRecordingEnds

=============================================================================
