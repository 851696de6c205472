------------------------------ MODULE Segments ------------------------------
(***************************************************************************)
(* How the segments of an MSE session travel from the read goroutine to a  *)
(* player, and what a seek does to the ones under way: the demuxer's seek  *)
(* channel (pkg/lib/av/demux), the fragmented muxer (pkg/lib/av/mux), the  *)
(* directory and its fsnotify events, the Watcher (pkg/session/watcher.go) *)
(* and the HTTP handlers (pkg/handler/vod.go).                             *)
(*                                                                         *)
(* The epoch of a packet is the number of seeks taken before it was read,  *)
(* plus one; the watcher's generation counts the same seeks, so a segment  *)
(* belongs to generation g when its epoch is g.  A file left behind by an  *)
(* earlier session of the directory has epoch 0.                           *)
(***************************************************************************)
EXTENDS Naturals, Sequences, FiniteSets, SequencesExt

CONSTANTS
  Tracks,       \* the tracks of the muxer, among "video" and "audio"
  Seekers,      \* the seek requests that may come
  Polls,        \* the segment numbers the player asks for
  MaxSegments,  \* bound on the segments of a track
  MaxLeftover   \* bound on the files an earlier session left

ASSUME SegmentsAssumption ==
  /\ Tracks \subseteq {"video", "audio"} /\ Tracks # {}
  /\ Polls \subseteq 1 .. MaxSegments
  /\ MaxSegments \in Nat /\ MaxLeftover \in 0 .. MaxSegments
  /\ IsFiniteSet(Seekers)

VARIABLES
  rpc,         \* what the read goroutine does next
  toReset,     \* the tracks the running muxer Reset has still to rebuild
  seekCh,      \* the demuxer's channel of seek requests
  serving,     \* the request being served, or NoOne
  epoch,       \* epoch of the packets being read
  seq,         \* per track, the number of the next segment
  pending,     \* per track, whether packets wait in the open fragment
  broken,      \* tracks that a Reset could not rebuild
  closed,      \* the muxer is closed
  files,       \* per track, the epochs of the segment files 1, 2, ...
  events,      \* fsnotify events not yet handled
  generation, init, index,  \* the watcher's fields
  seeker,      \* per seeker: its state and the generations it met
  request,     \* the segment request that polls the index
  served,      \* the last segment served: [gen, epoch]
  fresh        \* the directory was empty at the start

muxVars == <<seq, pending, broken, closed, files>>
watchVars == <<generation, init, index>>
readVars == <<rpc, toReset, seekCh, serving, epoch>>
clientVars == <<request, served>>
vars == <<readVars, muxVars, events, watchVars, seeker, clientVars, fresh>>

NoOne == "none"

NoRequest == [track |-> NoOne, gen |-> 0, seq |-> 0]

MaxEpoch == 1 + Cardinality(Seekers)

-----------------------------------------------------------------------------
(* The watcher's index: segment numbers, sorted by file name (the numbers  *)
(* are padded to four digits, so up to 9999 the names sort as they do).    *)

Added(idx, n) == InsertAt(idx, Cardinality({i \in DOMAIN idx : idx[i] <= n}) + 1, n)

SegmentEvent(t) == [kind |-> "segment", track |-> t, seq |-> seq[t]]

InitEvent(t) == [kind |-> "init", track |-> t, seq |-> 0]

(* flushFragment: the segment replaces a file of the same name. *)
Written(t) ==
  IF seq[t] <= Len(files[t]) THEN ReplaceAt(files[t], seq[t], epoch)
  ELSE Append(files[t], epoch)

(* Slips of the next operator: the documented order, muxer first; the      *)
(* answer before the resets.                                               *)
MuxerFirst(p) ==
  [read |-> "muxer", muxer |-> "bump", bump |-> "inits", inits |-> "index",
   index |-> "answer", answer |-> "read"][p]
AnswerFirst(p) ==
  [read |-> "answer", answer |-> "bump", bump |-> "inits", inits |-> "index",
   index |-> "muxer", muxer |-> "read"][p]

(* A seek on the read goroutine: onSeek is Watcher.Reset, field by field,  *)
(* then ResetForSeek; the result is sent when it returns.                  *)
AfterPhase(p) ==
  [read |-> "bump", bump |-> "inits", inits |-> "index", index |-> "muxer",
   muxer |-> "answer", answer |-> "read"][p]

-----------------------------------------------------------------------------
(* The session starts: the constructor wrote the init segments, NewWatcher *)
(* scanned the directory.                                                  *)
Init ==
  /\ rpc = "read" /\ toReset = {} /\ seekCh = <<>> /\ serving = NoOne
  /\ epoch = 1
  /\ seq = [t \in Tracks |-> 1]
  /\ pending = [t \in Tracks |-> FALSE]
  /\ broken = {} /\ closed = FALSE
  /\ events = <<>>
  /\ generation = 1
  /\ init = [t \in Tracks |-> TRUE]
  /\ \E n \in 0 .. MaxLeftover :
       /\ files = [t \in Tracks |-> [i \in 1 .. n |-> 0]]
       /\ index = [t \in Tracks |-> [i \in 1 .. n |-> i]]
       /\ fresh = (n = 0)
  /\ seeker = [k \in Seekers |-> [pc |-> "idle", asked |-> 0, answer |-> 0,
                                  refused |-> FALSE]]
  /\ request = NoRequest
  /\ served = [gen |-> 0, epoch |-> 0]

(* WriteVideoPacket and WriteAudioPacket.  A video packet may end the open *)
(* fragment before it joins the next; an audio packet may end its own.     *)
(* The bound keeps room for the segment that a Reset or Close flushes.     *)
Takes(t) == rpc = "read" /\ ~closed /\ t \in Tracks \ broken

Fill(t) ==
  /\ Takes(t)
  /\ ~pending[t]
  /\ seq[t] <= MaxSegments
  /\ pending' = [pending EXCEPT ![t] = TRUE]
  /\ UNCHANGED <<readVars, seq, broken, closed, files, events, watchVars,
                 seeker, clientVars, fresh>>

Flush(t) ==
  /\ Takes(t)
  /\ t = "video" => pending[t] /\ seq[t] < MaxSegments
  /\ seq[t] <= MaxSegments
  /\ pending' = [pending EXCEPT ![t] = (t = "video")]
  /\ files' = [files EXCEPT ![t] = Written(t)]
  /\ events' = Append(events, SegmentEvent(t))
  /\ seq' = [seq EXCEPT ![t] = @ + 1]
  /\ UNCHANGED <<readVars, broken, closed, watchVars, seeker, clientVars, fresh>>

(* FragmentedMuxer.Close, by the goroutine that stops the pipeline or at   *)
(* the end of the loop; the muxer's mutex keeps it out of a Reset.         *)
Close(next) ==
  /\ ~closed
  /\ closed' = TRUE
  /\ rpc' = next
  /\ files' = [t \in Tracks |-> IF pending[t] THEN Written(t) ELSE files[t]]
  /\ events' = events \o (IF "video" \in Tracks /\ pending["video"]
                          THEN <<SegmentEvent("video")>> ELSE <<>>)
                      \o (IF "audio" \in Tracks /\ pending["audio"]
                          THEN <<SegmentEvent("audio")>> ELSE <<>>)
  /\ seq' = [t \in Tracks |-> IF pending[t] THEN seq[t] + 1 ELSE seq[t]]
  /\ pending' = [t \in Tracks |-> FALSE]
  /\ UNCHANGED <<toReset, seekCh, serving, epoch, broken, watchVars, seeker,
                 clientVars, fresh>>

Stop == toReset = {} /\ Close(rpc)

LoopEnds ==
  /\ rpc = "read"
  /\ \/ Close("ended")
     \/ /\ closed
        /\ rpc' = "ended"
        /\ UNCHANGED <<toReset, seekCh, serving, epoch, muxVars, events,
                       watchVars, seeker, clientVars, fresh>>

-----------------------------------------------------------------------------
(* Seeks.                                                                  *)

ChannelHasRoom == Len(seekCh) < 1

(* RequestSeek: the request waits for its result, or is refused at once. *)
RequestSeek(k) ==
  /\ seeker[k].pc = "idle"
  /\ ChannelHasRoom
  /\ seekCh' = Append(seekCh, k)
  /\ seeker' = [seeker EXCEPT ![k].pc = "waiting", ![k].asked = generation]
  /\ UNCHANGED <<rpc, toReset, serving, epoch, muxVars, events, watchVars,
                 clientVars, fresh>>

SeekRefused(k) ==
  /\ seeker[k].pc = "idle"
  /\ ~ChannelHasRoom
  /\ seeker' = [seeker EXCEPT ![k].pc = "returned", ![k].asked = generation,
                              ![k].refused = TRUE]
  /\ UNCHANGED <<readVars, muxVars, events, watchVars, clientVars, fresh>>

(* MSESeek answers with the generation it reads now. *)
ReportGeneration(k) ==
  /\ seeker[k].pc = "returned"
  /\ seeker' = [seeker EXCEPT ![k].pc = "reported", ![k].answer = generation]
  /\ UNCHANGED <<readVars, muxVars, events, watchVars, clientVars, fresh>>

(* readPacketOnce takes a request and moves the source; a SeekTo that      *)
(* fails is followed by the same steps.                                    *)
TakeSeek ==
  /\ rpc = "read" /\ seekCh # <<>>
  /\ serving' = Head(seekCh)
  /\ seekCh' = Tail(seekCh)
  /\ epoch' = epoch + 1
  /\ rpc' = AfterPhase("read")
  /\ toReset' = IF closed THEN {} ELSE Tracks \ broken
  /\ UNCHANGED <<muxVars, events, watchVars, seeker, clientVars, fresh>>

BumpGeneration ==
  /\ rpc = "bump"
  /\ generation' = generation + 1
  /\ rpc' = AfterPhase("bump")
  /\ UNCHANGED <<toReset, seekCh, serving, epoch, muxVars, events, init, index,
                 seeker, clientVars, fresh>>

ClearInits ==
  /\ rpc = "inits"
  /\ init' = [t \in Tracks |-> FALSE]
  /\ rpc' = AfterPhase("inits")
  /\ UNCHANGED <<toReset, seekCh, serving, epoch, muxVars, events, generation,
                 index, seeker, clientVars, fresh>>

ClearIndex ==
  /\ rpc = "index"
  /\ index' = [t \in Tracks |-> <<>>]
  /\ rpc' = AfterPhase("index")
  /\ UNCHANGED <<toReset, seekCh, serving, epoch, muxVars, events, generation,
                 init, seeker, clientVars, fresh>>

(* A slip of the next operator: numbering starts again. *)
FromOne(t) == 1

(* The rebuilt track goes on from the number after the flushed fragment. *)
SeqAfterReset(t) == IF pending[t] THEN seq[t] + 1 ELSE seq[t]

(* FragmentedMuxer.Reset, one track at a time: the open fragment, read     *)
(* before the seek, is flushed, then a new track muxer writes its init     *)
(* segment, or fails to.                                                   *)
ResetTrack(t) ==
  /\ rpc = "muxer"
  /\ t \in toReset
  /\ t = "audio" => "video" \notin toReset
  /\ toReset' = toReset \ {t}
  /\ pending' = [pending EXCEPT ![t] = FALSE]
  /\ seq' = [seq EXCEPT ![t] = SeqAfterReset(t)]
  /\ files' = [files EXCEPT
                 ![t] = IF pending[t]
                        THEN LET old == epoch - 1 IN
                             IF seq[t] <= Len(@) THEN ReplaceAt(@, seq[t], old)
                             ELSE Append(@, old)
                        ELSE @]
  /\ \E ok \in BOOLEAN :
       /\ broken' = IF ok THEN broken ELSE broken \cup {t}
       /\ events' = events \o (IF pending[t] THEN <<SegmentEvent(t)>> ELSE <<>>)
                           \o (IF ok THEN <<InitEvent(t)>> ELSE <<>>)
  /\ UNCHANGED <<rpc, seekCh, serving, epoch, closed, watchVars, seeker,
                 clientVars, fresh>>

MuxerReset ==
  /\ rpc = "muxer"
  /\ toReset = {}
  /\ rpc' = AfterPhase("muxer")
  /\ UNCHANGED <<toReset, seekCh, serving, epoch, muxVars, events, watchVars,
                 seeker, clientVars, fresh>>

SendResult ==
  /\ rpc = "answer"
  /\ seeker' = [seeker EXCEPT ![serving].pc = "returned"]
  /\ serving' = NoOne
  /\ rpc' = AfterPhase("answer")
  /\ UNCHANGED <<toReset, seekCh, epoch, muxVars, events, watchVars, clientVars,
                 fresh>>

-----------------------------------------------------------------------------
(* The watcher's goroutine. *)
HandleEvent ==
  /\ events # <<>>
  /\ LET e == Head(events) IN
       \/ /\ e.kind = "init"
          /\ init' = [init EXCEPT ![e.track] = TRUE]
          /\ UNCHANGED index
       \/ /\ e.kind = "segment"
          /\ index' = [index EXCEPT ![e.track] = Added(@, e.seq)]
          /\ UNCHANGED init
  /\ events' = Tail(events)
  /\ UNCHANGED <<readVars, muxVars, generation, seeker, clientVars, fresh>>

(* MSESegment: the generation is compared once (410 if it differs), then   *)
(* the index is polled for five seconds.                                   *)
CheckGeneration(t, n) ==
  /\ request = NoRequest
  /\ request' = [track |-> t, gen |-> generation, seq |-> n]
  /\ UNCHANGED <<readVars, muxVars, events, watchVars, seeker, served, fresh>>

ServeSegment ==
  /\ request # NoRequest
  /\ request.seq <= Len(index[request.track])
  /\ served' = [gen |-> request.gen,
                epoch |-> files[request.track][index[request.track][request.seq]]]
  /\ request' = NoRequest
  /\ UNCHANGED <<readVars, muxVars, events, watchVars, seeker, fresh>>

SegmentNotFound ==
  /\ request # NoRequest
  /\ request.seq > Len(index[request.track])
  /\ request' = NoRequest
  /\ UNCHANGED <<readVars, muxVars, events, watchVars, seeker, served, fresh>>

SeekSteps == TakeSeek \/ BumpGeneration \/ ClearInits \/ ClearIndex
               \/ (\E t \in Tracks : ResetTrack(t)) \/ MuxerReset \/ SendResult

Next ==
  \/ \E t \in Tracks : Fill(t) \/ Flush(t)
  \/ Stop \/ LoopEnds
  \/ \E k \in Seekers : RequestSeek(k) \/ SeekRefused(k) \/ ReportGeneration(k)
  \/ SeekSteps
  \/ HandleEvent
  \/ \E t \in Tracks, n \in Polls : CheckGeneration(t, n)
  \/ ServeSegment \/ SegmentNotFound

Spec == Init /\ [][Next]_vars

(* The read goroutine looks at the seek channel between two frames and     *)
(* finishes a seek it began (reads have a timeout); the watcher's          *)
(* goroutine handles what is queued.  Nobody has to read on, seek, stop or *)
(* fetch.                                                                  *)
FairSpec == Spec /\ WF_vars(SeekSteps) /\ WF_vars(HandleEvent)

-----------------------------------------------------------------------------
(* Every variable has its type. *)
TypeOK ==
  /\ rpc \in {"read", "bump", "inits", "index", "muxer", "answer", "ended"}
  /\ toReset \subseteq Tracks
  /\ seekCh \in Seq(Seekers) /\ Len(seekCh) <= 1
  /\ serving \in Seekers \cup {NoOne}
  /\ epoch \in 1 .. MaxEpoch
  /\ seq \in [Tracks -> 1 .. MaxSegments + 1]
  /\ pending \in [Tracks -> BOOLEAN]
  /\ broken \subseteq Tracks /\ closed \in BOOLEAN
  /\ files \in [Tracks -> Seq(0 .. MaxEpoch)]
  /\ events \in Seq([kind : {"init", "segment"}, track : Tracks, seq : 0 .. MaxSegments])
  /\ generation \in 1 .. MaxEpoch
  /\ init \in [Tracks -> BOOLEAN]
  /\ index \in [Tracks -> Seq(1 .. MaxSegments)]
  /\ seeker \in [Seekers -> [pc : {"idle", "waiting", "returned", "reported"},
                             asked : 0 .. MaxEpoch, answer : 0 .. MaxEpoch,
                             refused : BOOLEAN]]
  /\ request \in [track : Tracks \cup {NoOne}, gen : 0 .. MaxEpoch, seq : 0 .. MaxSegments]
  /\ served \in [gen : 0 .. MaxEpoch, epoch : 0 .. MaxEpoch]
  /\ fresh \in BOOLEAN

(* A segment this pipeline has written is never written again, however     *)
(* seeks, stops and rebuilt tracks interleave: numbering continues, so a   *)
(* player that is reading it reads one segment.                            *)
WrittenOnce ==
  [][\A t \in Tracks : \A n \in 1 .. Len(files[t]) :
       files[t][n] >= 1 => files'[t][n] = files[t][n]]_vars

(* Between two seeks the n-th segment of a generation stays the n-th: a    *)
(* retry of a request by number gets the same segment, in a directory that *)
(* was empty when the session began.                                       *)
StablePositions ==
  [][fresh /\ rpc # "index" =>
       \A t \in Tracks : IsPrefix(index[t], index'[t])]_vars

(* A seek that was not refused answers with a later generation than the    *)
(* one in force when it was asked for.                                     *)
SeekBumped ==
  \A k \in Seekers : seeker[k].pc = "reported" /\ ~seeker[k].refused =>
                       seeker[k].answer > seeker[k].asked

(* The invariant of segment delivery: the types, and a later generation    *)
(* for every seek.                                                         *)
SegmentsInvariant == TypeOK /\ SeekBumped

(* What a player fetched under a number stays under it: the file is not    *)
(* written again, and the place in the index does not move between seeks.  *)
NumbersStay == WrittenOnce /\ StablePositions

(* An init segment cleared by a seek comes back, unless the muxer is       *)
(* closed or could not be rebuilt.                                         *)
InitReturns ==
  \A t \in Tracks : ~init[t] ~> (init[t] \/ closed \/ t \in broken)

(* A segment read in generation g gets into the index, or g is over. *)
EverySegmentListed ==
  \A t \in Tracks, n \in 1 .. MaxSegments, g \in 1 .. MaxEpoch :
    (n <= Len(files[t]) /\ files[t][n] = g) ~>
      (n \in ToSet(index[t]) \/ generation > g)

(* A seek that waits is answered, unless the read goroutine ends. *)
SeekAnswered ==
  \A k \in Seekers : seeker[k].pc = "waiting" ~>
                       (seeker[k].pc # "waiting" \/ rpc = "ended")

(* After any number of seeks the stream goes on: init segments come back,  *)
(* segments get listed and seeks are answered, unless the session ends.    *)
GoesOn == InitReturns /\ EverySegmentListed /\ SeekAnswered

(* "generation counter invalidates old segments": a segment served for a   *)
(* generation was read in it.                                              *)
ServedFresh == served.gen = served.epoch

=============================================================================
