------------------------------- MODULE Demux --------------------------------
(***************************************************************************)
(* Reading one source: the body of a session's pipeline goroutine from     *)
(* NewDemuxSession to the end (pkg/session/demux.go, runGoHLS,             *)
(* runGoFullTranscode and runGoAudioTranscode of pkg/session/manager.go),  *)
(* the demux loop (pkg/lib/av/demuxloop) and the demuxer with its retries  *)
(* and its seek channel (pkg/lib/av/demux), against viewers that seek and  *)
(* a session that is cancelled.                                            *)
(*                                                                         *)
(* A packet is the number of its frame in the source: that is its raw      *)
(* time stamp.  Every frame is a keyframe, so a seek lands where it asks.  *)
(* The sink (a pipeline of Pipeline.tla) is known by the time stamps it is *)
(* given.  Follow, a cached StreamInfo and the tee are never used by the   *)
(* program and are left out; so is the choice of protocol options.         *)
(***************************************************************************)
EXTENDS Integers, Sequences, FiniteSets, SequencesExt

CONSTANTS
  Sources,    \* sources and what is wanted of them, see below
  Frames,     \* number of the last frame of a source
  Seekers     \* the seek requests that may come

(* A source is a record: live, it has no end; start, its first raw time    *)
(* stamp; tracks, its audio tracks in order; lang, the language preferred  *)
(* or ""; mode, the pipeline; seekOffset, where to start.                  *)
ASSUME DemuxAssumption ==
  /\ Frames \in Int
  /\ \A s \in Sources : s.start \in Int /\ s.seekOffset \in Int

VARIABLES
  source,   \* the source and what is wanted of it, fixed at the start
  demuxPhase,    \* what the pipeline goroutine does next
  fc,       \* Demuxer.fc is an open format context
  audioIdx, \* Demuxer.audioIdx
  basePTS,  \* Demuxer.basePTS
  pos,      \* the frame the format context reads next
  retry,    \* passes made through retryDelays in this ReadPacket
  pkt,      \* the packet read: [raw, pts]
  lastPTS,  \* time stamp of the last packet pushed, or -1
  restarted,\* the sink was reset or the source reopened since that push
  sought,   \* a seek succeeded and the source was not reopened since
  ctx,      \* the session is cancelled
  seekFunc, \* Session.seekFunc is set
  seekCh,   \* Demuxer.seekCh
  seeker,   \* per request: "idle", "waiting", "done", "failed", "refused"
  sink,     \* the pipeline: "none", "open", "stopped"
  ended     \* how it ended: eof, the demuxer's error, the session's error

sourceVars == <<fc, audioIdx, basePTS, pos>>
seekVars == <<seekFunc, seekCh, seeker>>
sinkVars == <<lastPTS, restarted, sought, sink>>
demuxVars == <<source, demuxPhase, sourceVars, retry, pkt, sinkVars, ctx, seekVars, ended>>

retryDelays == <<1, 2, 4>>

NoPacket == [raw |-> -1, pts |-> -1]

-----------------------------------------------------------------------------
(* Choosing the audio track.                                               *)

codecPriority ==
  [aac |-> 50, mp2 |-> 40, ac3 |-> 30, eac3 |-> 20, dts |-> 10, other |-> 0]

WithoutAD(tracks) ==
  LET plain == SelectSeq(tracks, LAMBDA t : ~t.isAD)
  IN  IF plain = << >> THEN tracks ELSE plain

InLanguage(tracks, lang) ==
  LET matching == SelectSeq(tracks, LAMBDA t : t.lang = lang)
  IN  IF lang = "" \/ matching = << >> THEN tracks ELSE matching

Better(t, best) ==
  \/ codecPriority[t.codec] > codecPriority[best.codec]
  \/ codecPriority[t.codec] = codecPriority[best.codec] /\ t.channels > best.channels

SelectAudio(tracks, lang) ==
  LET candidates == InLanguage(WithoutAD(tracks), lang)
  IN  IF tracks = << >> THEN -1
      ELSE FoldLeft(LAMBDA best, t : IF Better(t, best) THEN t ELSE best,
                    Head(candidates), Tail(candidates)).index

(* The demuxer's own choice, made before the session's: the first track,   *)
(* or the first in the language.                                           *)
selectAudio(tracks, lang) ==
  LET inLang == SelectSeq(tracks, LAMBDA t : t.lang = lang)
  IN  CASE tracks = << >> -> -1
        [] lang # "" /\ inLang # << >> -> Head(inLang).index
        [] OTHER -> Head(tracks).index

(* SetAudioTrack refuses an index that is not an audio stream of the       *)
(* source; NewDemuxSession goes on with what the demuxer had.              *)
SetAudioTrack(tracks, idx, current) ==
  IF \E i \in DOMAIN tracks : tracks[i].index = idx THEN idx ELSE current

-----------------------------------------------------------------------------
DemuxInit ==
  /\ source \in Sources
  /\ demuxPhase = "open" /\ fc = FALSE /\ audioIdx = -1 /\ basePTS = -1
  /\ pos = source.start /\ retry = 0 /\ pkt = NoPacket
  /\ lastPTS = -1 /\ restarted = TRUE /\ sought = FALSE
  /\ ctx = FALSE /\ seekFunc = FALSE /\ seekCh = << >>
  /\ seeker = [k \in Seekers |-> "idle"] /\ sink = "none"
  /\ ended = [eof |-> FALSE, demuxErr |-> FALSE, error |-> FALSE]

Moves(from, to) == demuxPhase = from /\ demuxPhase' = to

(* NewDemuxer, finishDemuxerSetup and setIndicesFromStreams, then the      *)
(* session's own choice of track.                                          *)
NewDemuxSession ==
  /\ Moves("open", "build")
  /\ fc' = TRUE
  /\ audioIdx' = SetAudioTrack(source.tracks, SelectAudio(source.tracks, source.lang),
                               selectAudio(source.tracks, source.lang))
  /\ UNCHANGED <<source, basePTS, pos, retry, pkt, sinkVars, ctx, seekVars, ended>>

NewDemuxSessionFails ==
  /\ Moves("open", "ended")
  /\ ended' = [ended EXCEPT !.error = TRUE]
  /\ UNCHANGED <<source, sourceVars, retry, pkt, sinkVars, ctx, seekVars>>

(* The pipeline of the job is made and registered for StopPipeline; the    *)
(* HLS job watches its directory as well.                                  *)
MakePipeline(mode, next) ==
  /\ source.mode = mode /\ Moves("build", next)
  /\ sink' = "open"
  /\ UNCHANGED <<source, sourceVars, retry, pkt, lastPTS, restarted, sought, ctx, seekVars, ended>>

runGoHLS == MakePipeline("hls", "watch")
runGoFullTranscode == MakePipeline("full", "begin")
runGoAudioTranscode == MakePipeline("audio", "begin")

MakePipelineFails ==
  /\ Moves("build", "close")
  /\ ended' = [ended EXCEPT !.error = TRUE]
  /\ UNCHANGED <<source, sourceVars, retry, pkt, sinkVars, ctx, seekVars>>

WatchOutput ==
  /\ Moves("watch", "begin")
  /\ UNCHANGED <<source, sourceVars, retry, pkt, sinkVars, ctx, seekVars, ended>>

WatchOutputFails ==
  /\ Moves("watch", "close")
  /\ sink' = "stopped"
  /\ ended' = [ended EXCEPT !.error = TRUE]
  /\ UNCHANGED <<source, sourceVars, retry, pkt, lastPTS, restarted, sought, ctx, seekVars>>

(* SeekFrame lands on the frame, or on the first one when it is earlier;   *)
(* the time stamps are positions from then on.                             *)
Landing(at) == IF at < source.start THEN source.start ELSE at

SeekTo(at) ==
  /\ pos' = Landing(at)
  /\ basePTS' = 0
  /\ sought' = TRUE

SeekToFails == UNCHANGED <<pos, basePTS, sought>>

(* A session restarted elsewhere in a film begins with a seek; a failure   *)
(* is only logged.  Then viewers can seek.                                 *)
Begin(mode) ==
  /\ source.mode = mode /\ Moves("begin", "loop")
  /\ \/ source.seekOffset > 0 /\ ~source.live /\ SeekTo(source.seekOffset)
     \/ SeekToFails
  /\ seekFunc' = TRUE
  /\ UNCHANGED <<source, fc, audioIdx, retry, pkt, lastPTS, restarted, sink, ctx, seekCh, seeker,
                 ended>>

BeginHLS == Begin("hls")
BeginFullTranscode == Begin("full")
BeginAudioTranscode == Begin("audio")

-----------------------------------------------------------------------------
(* demuxloop.Run: the context is looked at before and after each read.     *)

SeeCancelled ==
  /\ ctx /\ demuxPhase \in {"loop", "got"} /\ demuxPhase' = "stop"
  /\ UNCHANGED <<source, sourceVars, retry, pkt, sinkVars, ctx, seekVars, ended>>

CallRead ==
  /\ ~ctx /\ Moves("loop", "read")
  /\ UNCHANGED <<source, sourceVars, retry, pkt, sinkVars, ctx, seekVars, ended>>

(* readPacketOnce serves a seek before it reads; onSeek resets the sink    *)
(* even when SeekTo failed.                                                *)
ServeSeek ==
  /\ demuxPhase = "read" /\ seekCh # << >>
  /\ \/ SeekTo(Head(seekCh).at) /\ seeker' = [seeker EXCEPT ![Head(seekCh).by] = "done"]
     \/ SeekToFails /\ seeker' = [seeker EXCEPT ![Head(seekCh).by] = "failed"]
  /\ seekCh' = Tail(seekCh)
  /\ restarted' = TRUE
  /\ UNCHANGED <<source, demuxPhase, fc, audioIdx, retry, pkt, lastPTS, sink, ctx, seekFunc, ended>>

(* A source that is live goes on; its last time stamp here stands for all  *)
(* later ones.                                                             *)
AfterFrame == IF pos < Frames THEN pos + 1 ELSE IF source.live THEN pos ELSE Frames + 1

ReadFrame ==
  /\ Moves("read", "got")
  /\ seekCh = << >> /\ pos <= Frames
  /\ basePTS' = IF basePTS < 0 THEN pos ELSE basePTS
  /\ pkt' = [raw |-> pos, pts |-> pos - basePTS']
  /\ pos' = AfterFrame
  /\ retry' = 0
  /\ UNCHANGED <<source, fc, audioIdx, sinkVars, ctx, seekVars, ended>>

(* Another stream's packet is skipped and the next one read. *)
SkipFrame ==
  /\ demuxPhase = "read" /\ seekCh = << >> /\ pos < Frames
  /\ pos' = pos + 1
  /\ UNCHANGED <<source, demuxPhase, fc, audioIdx, basePTS, retry, pkt, sinkVars, ctx, seekVars, ended>>

AtEnd == source.live \/ pos > Frames

ReadEnd ==
  /\ Moves("read", "stop")
  /\ seekCh = << >> /\ AtEnd
  /\ ended' = [ended EXCEPT !.eof = TRUE]
  /\ UNCHANGED <<source, sourceVars, retry, pkt, sinkVars, ctx, seekVars>>

(* An error that is not transient ends the loop on the first read; every   *)
(* error of a later one is retried.                                        *)
isTransient == retry > 0

ReadPacketFails ==
  /\ demuxPhase = "read" /\ seekCh = << >>
  /\ \/ retry < Len(retryDelays) /\ demuxPhase' = "sleep" /\ UNCHANGED ended
     \/ /\ retry = Len(retryDelays) \/ ~isTransient
        /\ demuxPhase' = "stop"
        /\ ended' = [ended EXCEPT !.demuxErr = TRUE]
  /\ UNCHANGED <<source, sourceVars, retry, pkt, sinkVars, ctx, seekVars>>

(* The source is reopened and read from its beginning, or from now on when *)
(* it is live; the tracks chosen stay chosen.                              *)
Reconnect ==
  /\ Moves("sleep", "read")
  /\ retry' = retry + 1
  /\ fc' = TRUE
  /\ basePTS' = -1
  /\ pos' = IF source.live THEN pos ELSE source.start
  /\ restarted' = TRUE /\ sought' = FALSE
  /\ UNCHANGED <<source, audioIdx, pkt, lastPTS, sink, ctx, seekVars, ended>>

\* Slip: the read is tried although the source could not be reopened.
ReadsAnyway ==
  /\ Moves("sleep", "read")
  /\ retry' = retry + 1
  /\ fc' = FALSE
  /\ UNCHANGED <<source, audioIdx, basePTS, pos, pkt, sinkVars, ctx, seekVars, ended>>

ReconnectFails ==
  /\ demuxPhase = "sleep"
  /\ retry' = retry + 1
  /\ fc' = FALSE
  /\ \/ retry' < Len(retryDelays) /\ UNCHANGED <<demuxPhase, ended>>
     \/ /\ retry' = Len(retryDelays)
        /\ demuxPhase' = "stop"
        /\ ended' = [ended EXCEPT !.demuxErr = TRUE]
  /\ UNCHANGED <<source, audioIdx, basePTS, pos, pkt, sinkVars, ctx, seekVars>>

Push ==
  /\ ~ctx /\ Moves("got", "loop")
  /\ lastPTS' = pkt.pts /\ restarted' = FALSE
  /\ pkt' = NoPacket
  /\ UNCHANGED <<source, sourceVars, retry, sought, sink, ctx, seekVars, ended>>

PushFails ==
  /\ ~ctx /\ Moves("got", "stop")
  /\ ended' = [ended EXCEPT !.demuxErr = TRUE]
  /\ UNCHANGED <<source, sourceVars, retry, pkt, sinkVars, ctx, seekVars>>

(* The sink is stopped; an error is the session's unless it was cancelled. *)
EndPipeline(mode) ==
  /\ source.mode = mode /\ Moves("stop", "close")
  /\ sink' = "stopped"
  /\ ended' = [ended EXCEPT !.error = ended.demuxErr /\ ~ctx]
  /\ UNCHANGED <<source, sourceVars, retry, pkt, lastPTS, restarted, sought, ctx, seekVars>>

FinishHLS == EndPipeline("hls")
FinishFullTranscode == EndPipeline("full")
FinishAudioTranscode == EndPipeline("audio")

Close ==
  /\ Moves("close", "ended")
  /\ fc' = FALSE
  /\ UNCHANGED <<source, audioIdx, basePTS, pos, retry, pkt, sinkVars, ctx, seekVars, ended>>

-----------------------------------------------------------------------------
(* The others: a viewer that seeks, and the session's cancel.              *)

(* Session.Seek without a seekFunc answers false; RequestSeek waits for    *)
(* the result, or is refused when another request waits.                   *)
AskSeek(k, at) ==
  /\ seeker[k] = "idle" /\ seekFunc
  /\ \/ /\ seekCh = << >>
        /\ seekCh' = << [by |-> k, at |-> at] >>
        /\ seeker' = [seeker EXCEPT ![k] = "waiting"]
     \/ /\ seekCh # << >>
        /\ seeker' = [seeker EXCEPT ![k] = "refused"]
        /\ UNCHANGED seekCh
  /\ UNCHANGED <<source, demuxPhase, sourceVars, retry, pkt, sinkVars, ctx, seekFunc, ended>>

CancelSession ==
  /\ ~ctx /\ ctx' = TRUE
  /\ UNCHANGED <<source, demuxPhase, sourceVars, retry, pkt, sinkVars, seekVars, ended>>

OpenSteps == NewDemuxSession \/ NewDemuxSessionFails
             \/ runGoHLS \/ runGoFullTranscode \/ runGoAudioTranscode \/ MakePipelineFails
             \/ WatchOutput \/ WatchOutputFails
             \/ BeginHLS \/ BeginFullTranscode \/ BeginAudioTranscode
ReadSteps == ServeSeek \/ ReadFrame \/ SkipFrame \/ ReadEnd \/ ReadPacketFails
             \/ Reconnect \/ ReconnectFails
LoopSteps == SeeCancelled \/ CallRead \/ Push \/ PushFails
             \/ FinishHLS \/ FinishFullTranscode \/ FinishAudioTranscode \/ Close
DemuxSteps == OpenSteps \/ ReadSteps \/ LoopSteps

DemuxRequests == CancelSession \/ \E k \in Seekers, at \in {0, Frames} : AskSeek(k, at)

DemuxNext == DemuxSteps \/ DemuxRequests

(* The goroutine runs: a read returns (its time-out is at least 5 s), and  *)
(* a live source does not keep it skipping packets for ever.               *)
DemuxFairness == WF_demuxVars(DemuxSteps)

DemuxSpec == DemuxInit /\ [][DemuxNext]_demuxVars /\ DemuxFairness

-----------------------------------------------------------------------------
(* The read goroutine touches the format context only while it is open:    *)
(* a failed Reconnect leaves none, and the loop over retryDelays must not  *)
(* read or seek before one succeeds.                                       *)
ReadsOpenInput == demuxPhase \in {"read", "got", "build", "watch", "begin"} => fc

(* How much a listener wants a track, the reasons in order: not a          *)
(* description, the language, the codec, the channels.                     *)
Rank(t, lang) ==
  10000 * (IF t.isAD THEN 0 ELSE 1) + 1000 * (IF t.lang = lang THEN 1 ELSE 0)
  + 10 * codecPriority[t.codec] + t.channels

(* The track that is read is one no other is wanted more than, and the     *)
(* first of these, though the demuxer and the session choose by different  *)
(* rules.                                                                  *)
BestTrackRead ==
  demuxPhase \notin {"open", "ended"} /\ source.tracks # << >> =>
    \E i \in DOMAIN source.tracks :
      /\ source.tracks[i].index = audioIdx
      /\ \A j \in DOMAIN source.tracks :
           LET mine == Rank(source.tracks[i], source.lang)
               other == Rank(source.tracks[j], source.lang)
           IN  mine > other \/ (mine = other /\ i <= j)

(* After a seek the time stamps are positions in the source, so that the   *)
(* player's clock and the position it asked for agree.                     *)
PositionsAfterSeek == demuxPhase = "got" /\ sought => pkt.pts = pkt.raw

(* A source that came to its end is told to the sink and is no error, also *)
(* when the end is met after a reconnect.                                  *)
EndIsNoError == ended.eof => ~ended.demuxErr /\ ~ended.error

(* The session ends with nothing open, and with a reason: the end of the   *)
(* source, an error, or a cancel.                                          *)
EndsReleased ==
  demuxPhase = "ended" => /\ ~fc /\ sink # "open"
                          /\ ended.eof \/ ended.error \/ ctx

(* Nothing is read from an input that is not open, after a seek the time   *)
(* stamps are positions, the end of a source is no error, and the session  *)
(* ends with nothing open and with a reason.                               *)
SourceReadRight == ReadsOpenInput /\ PositionsAfterSeek /\ EndIsNoError /\ EndsReleased

(* The time stamps the sink is given go back only after a seek, which      *)
(* resets it, or after the source was reopened.                            *)
NeverBackInTime == [][lastPTS' < lastPTS => restarted]_demuxVars

(* A cancelled session's goroutine ends, whatever the retries are doing.   *)
CancelEnds == ctx ~> demuxPhase = "ended"
=============================================================================
