------------------------------- MODULE Ingest -------------------------------
(***************************************************************************)
(* The refresh of playlist accounts (M3U and Xtream), SAT>IP sources and   *)
(* HDHomeRun sources into the stream store, and what it does to channels.  *)
(* Workers and requests refresh, edit and delete sources at the same time; *)
(* every store call is a critical section of its own.                      *)
(***************************************************************************)
EXTENDS Naturals, FiniteSets

CONSTANTS
  Sources,     \* accounts and sources
  Kind,        \* source -> "m3u", "xtream", "satip" or "hdhr"
  Ids,         \* stream ids, computed from the stream's URL or service number
  Part,        \* stream id -> the Xtream listing or the mux it comes from
  Listing,     \* source -> version of its content -> the stream ids listed
  Setups,      \* the sets of sources to begin with
  Versions,    \* versions of a source's content
  Refreshers,  \* goroutines that refresh or edit
  Channels,
  None

VARIABLES
  accounts,    \* source -> [etag, wg], or None when deleted
  streams,     \* stream id -> [src, wg], or None
  channels,    \* channel -> the stream ids assigned, or None when deleted
  status,      \* the status trackers
  server,      \* source -> the version its server has
  job,         \* refresher -> what it is doing
  deleting,    \* sources whose streams are deleted and whose record is not yet
  editing,     \* goroutine -> the account that it updates and the copy it has read, or None
  assigning,   \* channel -> the checked streams it is about to get, or None
  spoiled,     \* sources on which actors overlapped, or that had a stream taken over
  unloaded,    \* sources whose etag was stored and whose playlist was not
  excused,     \* streams that were deleted without a look at the channels
  revived      \* streams that were stored anew between their deletion and the clean-up

ingestVars == <<accounts, streams, channels, status, server, job, deleting, editing, assigning,
                spoiled, unloaded, excused, revived>>

Parts == {Part[id] : id \in Ids}
NoEtag == 0
Idle == [pc |-> "idle", src |-> None, copy |-> None, listed |-> {}, missed |-> {}, keep |-> {}, new |-> {},
         gone |-> {}]
Present == {id \in Ids : streams[id] # None}
Of(src) == {id \in Present : streams[id].src = src}
Busy(src) == \E r \in Refreshers : job[r].src = src
Edited(src) == \E r \in Refreshers : editing[r] # None /\ editing[r].src = src
\* Another begins to work on the source.
Overlap(src) == spoiled' = IF Busy(src) \/ Edited(src) THEN spoiled \cup {src} ELSE spoiled
Going == UNION {job[r].gone : r \in Refreshers}

IngestInit ==
  /\ \E there \in Setups :
       accounts = [s \in Sources |-> IF s \in there THEN [etag |-> NoEtag, wg |-> FALSE] ELSE None]
  /\ streams = [id \in Ids |-> None]
  /\ channels = [c \in Channels |-> {}]
  /\ status = [s \in Sources |-> ""]
  /\ server = [s \in Sources |-> 1]
  /\ job = [r \in Refreshers |-> Idle]
  /\ deleting = {} /\ editing = [r \in Refreshers |-> None] /\ assigning = [c \in Channels |-> None]
  /\ spoiled = {} /\ unloaded = {} /\ excused = {} /\ revived = {}

-----------------------------------------------------------------------------
(* Store calls *)

\* A row that is gone is not brought back by an update.
Row(src, row) == IF accounts[src] = None THEN accounts ELSE [accounts EXCEPT ![src] = row]

BulkUpsert(src, S, wg) ==
  streams' = [id \in Ids |-> IF id \in S THEN [src |-> src, wg |-> wg] ELSE streams[id]]
DeleteStreams(S) == streams' = [id \in Ids |-> IF id \in S THEN None ELSE streams[id]]

\* A channel that loses its last stream is deleted.
RemoveStreamMappings(S) ==
  [c \in Channels |-> IF channels[c] = None \/ (channels[c] # {} /\ channels[c] \subseteq S)
                      THEN None ELSE channels[c] \ S]

Go(r, pc) == job' = [job EXCEPT ![r].pc = pc]
SetStatus(src, st) == status' = [status EXCEPT ![src] = st]

-----------------------------------------------------------------------------
(* Refresh *)

Rest == <<server, deleting, editing, assigning>>
Notes == <<spoiled, unloaded, excused, revived>>
OnlyJob == UNCHANGED <<accounts, streams, channels, Notes, Rest>>

Fetch(r, src) ==
  /\ job' = [job EXCEPT ![r] = [Idle EXCEPT !.pc = "fetch", !.src = src, !.copy = accounts[src]]]
  /\ SetStatus(src, "running")
  /\ UNCHANGED <<accounts, streams, channels, unloaded, excused, revived, Rest>>

Begin(r, src) == job[r].pc = "idle" /\ accounts[src] # None /\ Fetch(r, src) /\ Overlap(src)

RefreshAccount(r, src) == Kind[src] \in {"m3u", "xtream"} /\ Begin(r, src)
SatIPScanSource(r, src) == Kind[src] = "satip" /\ Begin(r, src)
HDHRScanSource(r, src) == Kind[src] = "hdhr" /\ Begin(r, src)

\* HardRefreshAccount writes back the row that it read, without the etag, be it
\* there or not, and RefreshAccount reads it again.
HardRefreshRead(r, src) ==
  /\ job[r].pc = "idle" /\ Kind[src] \in {"m3u", "xtream"} /\ accounts[src] # None
  /\ job' = [job EXCEPT ![r] = [Idle EXCEPT !.pc = "hard", !.src = src, !.copy = accounts[src]]]
  /\ Overlap(src)
  /\ UNCHANGED <<accounts, streams, channels, status, unloaded, excused, revived, Rest>>

HardRefreshAccount(r) ==
  /\ job[r].pc = "hard" /\ Go(r, "again")
  /\ accounts' = Row(job[r].src, [job[r].copy EXCEPT !.etag = NoEtag])
  /\ UNCHANGED <<streams, channels, status, Notes, Rest>>

HardRefreshAgain(r) ==
  /\ job[r].pc = "again" /\ accounts[job[r].src] # None
  /\ Fetch(r, job[r].src) /\ UNCHANGED spoiled

HardRefreshGone(r) ==
  /\ job[r].pc = "again" /\ accounts[job[r].src] = None
  /\ job' = [job EXCEPT ![r] = Idle]
  /\ OnlyJob /\ UNCHANGED status

\* The download, the login, the device or the lineup fails.
FetchFails(r) ==
  /\ job[r].pc = "fetch" /\ Go(r, "failed")
  /\ OnlyJob /\ UNCHANGED status

\* FetchConditional: the server says that the etag is current.
Unchanged304(r) ==
  LET src == job[r].src IN
  /\ job[r].pc = "fetch" /\ Kind[src] = "m3u" /\ job[r].copy.etag = server[src]
  /\ job' = [job EXCEPT ![r] = Idle]
  /\ SetStatus(src, "done") /\ OnlyJob

\* A refresh has got a listing, but for the parts that it missed and those that
\* were silent; it keeps what is there of the latter.
Got(r, missed, silent) ==
  LET src == job[r].src
      all == Listing[src][server[src]]
      new == {id \in all : Part[id] \notin missed \cup silent} IN
  job' = [job EXCEPT ![r].pc = "upsert", ![r].listed = all, ![r].missed = missed, ![r].new = new,
                     ![r].keep = new \cup {id \in Of(src) : Part[id] \in silent}]

\* The etag of the answer is stored before the body is read.
refreshM3UAccount(r) ==
  LET src == job[r].src IN
  /\ job[r].pc = "fetch" /\ Kind[src] = "m3u" /\ job[r].copy.etag # server[src]
  /\ accounts' = Row(src, [accounts[src] EXCEPT !.etag = server[src]])
  /\ job' = [job EXCEPT ![r].pc = "parse", ![r].listed = Listing[src][server[src]]]
  /\ UNCHANGED <<streams, channels, status, Notes, Rest>>

ParsePlaylist(r) ==
  /\ job[r].pc = "parse"
  /\ job' = [job EXCEPT ![r].pc = "upsert", ![r].new = job[r].listed, ![r].keep = job[r].listed]
  /\ OnlyJob /\ UNCHANGED status

ParseFails(r) ==
  /\ job[r].pc = "parse" /\ Go(r, "failed")
  /\ unloaded' = unloaded \cup {job[r].src}
  /\ UNCHANGED <<accounts, streams, channels, status, spoiled, excused, revived, Rest>>

\* A listing of movies or series that cannot be had is left out, so that its
\* streams count as gone.
refreshXtreamAccount(r, missed) ==
  /\ job[r].pc = "fetch" /\ Kind[job[r].src] = "xtream" /\ "live" \notin missed
  /\ Got(r, missed, {})
  /\ OnlyJob /\ UNCHANGED status

\* A mux that the discovery hears nothing of is no part of the scan, and one
\* whose frequency is no whole number has a key that none of its streams' URLs
\* gives: both are missed, be it all of them.  Of the other muxes that are
\* silent when they are scanned, the streams are kept.
scanSource(r, missed, silent) ==
  /\ job[r].pc = "fetch" /\ Kind[job[r].src] = "satip"
  /\ Got(r, missed, silent)
  /\ OnlyJob /\ UNCHANGED status

fetchLineup(r) ==
  /\ job[r].pc = "fetch" /\ Kind[job[r].src] = "hdhr"
  /\ Got(r, {}, {})
  /\ OnlyJob /\ UNCHANGED status

\* upsertAndFinalize, in its four critical sections.  The streams get the
\* routing of the row as it was read.
Upserts(r, S) ==
  /\ job[r].pc = "upsert"
  /\ BulkUpsert(job[r].src, S, job[r].copy.wg)
  /\ excused' = excused \ S /\ revived' = revived \cup (S \cap Going)
  /\ spoiled' = spoiled \cup ({streams[id].src : id \in S \cap Present} \ {job[r].src})
  /\ UNCHANGED <<accounts, channels, status, Rest>>

FinalizeUpsert(r) == Upserts(r, job[r].new) /\ Go(r, "stale") /\ unloaded' = unloaded \ {job[r].src}

\* BulkUpsert stores a batch at a time, and ends with the first that fails.
UpsertFails(r) ==
  /\ \E S \in SUBSET job[r].new : S # job[r].new /\ Upserts(r, S)
  /\ Go(r, "failed") /\ unloaded' = unloaded \cup {job[r].src}

DeleteStale(r) ==
  LET gone == Of(job[r].src) \ job[r].keep IN
  /\ job[r].pc = "stale"
  /\ DeleteStreams(gone)
  /\ job' = [job EXCEPT ![r].pc = "mappings", ![r].gone = gone]
  /\ UNCHANGED <<accounts, channels, status, Notes, Rest>>

CleanMappings(r) ==
  /\ job[r].pc = "mappings"
  /\ channels' = RemoveStreamMappings(job[r].gone)
  /\ job' = [job EXCEPT ![r].pc = "finish", ![r].gone = {}]
  /\ UNCHANGED <<accounts, streams, status, Notes, Rest>>

\* The time, the stream count and the status; an HDHR scan does not notice that
\* its source is gone.
Finish(r) ==
  LET src == job[r].src IN
  /\ job[r].pc = "finish" /\ (Kind[src] = "hdhr" \/ accounts[src] # None)
  /\ job' = [job EXCEPT ![r] = Idle]
  /\ SetStatus(src, "done") /\ OnlyJob

FinishGone(r) ==
  /\ job[r].pc = "finish" /\ Kind[job[r].src] # "hdhr" /\ accounts[job[r].src] = None
  /\ Go(r, "failed")
  /\ OnlyJob /\ UNCHANGED status

Fail(r) ==
  LET src == job[r].src IN
  /\ job[r].pc = "failed"
  /\ job' = [job EXCEPT ![r] = Idle]
  /\ SetStatus(src, "error") /\ OnlyJob

-----------------------------------------------------------------------------
(* Requests *)

Quiet == UNCHANGED <<status, server, job, unloaded, revived>>

\* DeleteAccount and DeleteSource leave the channels alone.
DeleteAccount(src) ==
  /\ accounts[src] # None /\ src \notin deleting
  /\ DeleteStreams(Of(src)) /\ excused' = excused \cup Of(src)
  /\ deleting' = deleting \cup {src}
  /\ spoiled' = spoiled \cup {src}
  /\ Quiet /\ UNCHANGED <<accounts, channels, editing, assigning>>

DeleteAccountRow(src) ==
  /\ src \in deleting
  /\ accounts' = [accounts EXCEPT ![src] = None]
  /\ deleting' = deleting \ {src}
  /\ Quiet /\ UNCHANGED <<streams, channels, editing, assigning, spoiled, excused>>

\* ClearSource: SAT>IP cleans the channels of the streams it has listed, HDHR
\* does not.
ClearSatIPList(r, src) ==
  /\ job[r].pc = "idle" /\ Kind[src] = "satip" /\ accounts[src] # None
  /\ job' = [job EXCEPT ![r] = [Idle EXCEPT !.pc = "clear", !.src = src, !.gone = Of(src)]]
  /\ Overlap(src)
  /\ UNCHANGED <<accounts, streams, channels, status, unloaded, excused, revived, Rest>>

ClearSatIPSource(r) ==
  LET src == job[r].src IN
  /\ job[r].pc = "clear" /\ Go(r, "cleared")
  /\ DeleteStreams(Of(src)) /\ excused' = excused \cup (Of(src) \ job[r].gone)
  /\ UNCHANGED <<accounts, channels, status, spoiled, unloaded, revived, Rest>>

ClearSatIPMappings(r) ==
  /\ job[r].pc = "cleared"
  /\ channels' = RemoveStreamMappings(job[r].gone)
  /\ job' = [job EXCEPT ![r] = Idle]
  /\ UNCHANGED <<accounts, streams, status, Notes, Rest>>

ClearHDHRSource(src) ==
  /\ Kind[src] = "hdhr"
  /\ DeleteStreams(Of(src)) /\ excused' = excused \cup Of(src)
  /\ Quiet /\ UNCHANGED <<accounts, channels, deleting, editing, assigning, spoiled>>

\* The update of an account: the row is read, changed and written, and then
\* the streams get its routing.
UpdateAccountRead(r, src) ==
  /\ editing[r] = None /\ Kind[src] \in {"m3u", "xtream"} /\ accounts[src] # None
  /\ editing' = [editing EXCEPT ![r] = [src |-> src, row |-> accounts[src], stored |-> FALSE]]
  /\ Overlap(src)
  /\ Quiet /\ UNCHANGED <<accounts, streams, channels, deleting, assigning, excused>>

UpdateAccount(r, on) ==
  LET src == editing[r].src
      row == [editing[r].row EXCEPT !.wg = on] IN
  /\ editing[r] # None /\ ~editing[r].stored
  /\ accounts' = Row(src, row)
  /\ editing' = [editing EXCEPT ![r] = IF accounts[src] = None THEN None ELSE [@ EXCEPT !.row = row, !.stored = TRUE]]
  /\ Quiet /\ UNCHANGED <<streams, channels, deleting, assigning, spoiled, excused>>

UpdateWireGuard(r) ==
  LET src == editing[r].src IN
  /\ editing[r] # None /\ editing[r].stored
  /\ streams' = [id \in Ids |-> IF id \in Of(src) THEN [streams[id] EXCEPT !.wg = editing[r].row.wg] ELSE streams[id]]
  /\ editing' = [editing EXCEPT ![r] = None]
  /\ Quiet /\ UNCHANGED <<accounts, channels, deleting, assigning, spoiled, excused>>

\* assignStreams checks every stream and assigns them afterwards.
AssignStreamsCheck(c, S) ==
  /\ channels[c] # None /\ assigning[c] = None /\ S \subseteq Present /\ S # {}
  /\ assigning' = [assigning EXCEPT ![c] = S]
  /\ Quiet /\ UNCHANGED <<accounts, streams, channels, deleting, editing, spoiled, excused>>

AssignStreams(c) ==
  /\ assigning[c] # None
  /\ channels' = [channels EXCEPT ![c] = IF @ = None THEN None ELSE assigning[c]]
  /\ excused' = excused \cup (assigning[c] \ Present)
  /\ assigning' = [assigning EXCEPT ![c] = None]
  /\ Quiet /\ UNCHANGED <<accounts, streams, deleting, editing, spoiled>>

CreateChannel(c) ==
  /\ channels[c] = None
  /\ channels' = [channels EXCEPT ![c] = {}]
  /\ Quiet /\ UNCHANGED <<accounts, streams, deleting, editing, assigning, spoiled, excused>>

Publish(src) ==
  /\ server[src] + 1 \in Versions
  /\ server' = [server EXCEPT ![src] = @ + 1]
  /\ UNCHANGED <<accounts, streams, channels, status, job, deleting, editing, assigning, Notes>>

\* A crash and the next start, which deletes the streams of unknown sources,
\* but cleans the channels only of the streams of playlist accounts.
Unknown == {id \in Present : accounts[streams[id].src] = None}
Playlist(S) == {id \in S : Kind[streams[id].src] \in {"m3u", "xtream"}}
Restart ==
  /\ DeleteStreams(Unknown)
  /\ channels' = RemoveStreamMappings(Playlist(Unknown))
  /\ excused' = excused \cup Going \cup (Unknown \ Playlist(Unknown))
  /\ spoiled' = spoiled \cup {s \in Sources : Busy(s) \/ s \in deleting \/ Edited(s)}
  /\ status' = [s \in Sources |-> ""]
  /\ job' = [r \in Refreshers |-> Idle]
  /\ deleting' = {} /\ editing' = [r \in Refreshers |-> None] /\ assigning' = [c \in Channels |-> None]
  /\ UNCHANGED <<accounts, server, unloaded, revived>>

-----------------------------------------------------------------------------
\* What the goroutines do by themselves.
Steps ==
  \/ \E r \in Refreshers :
       \/ HardRefreshAccount(r) \/ HardRefreshAgain(r) \/ HardRefreshGone(r)
       \/ FetchFails(r) \/ Unchanged304(r) \/ refreshM3UAccount(r) \/ ParsePlaylist(r) \/ ParseFails(r)
       \/ fetchLineup(r)
       \/ \E missed \in SUBSET Parts :
            refreshXtreamAccount(r, missed) \/ \E silent \in SUBSET (Parts \ missed) : scanSource(r, missed, silent)
       \/ FinalizeUpsert(r) \/ UpsertFails(r) \/ DeleteStale(r) \/ CleanMappings(r)
       \/ Finish(r) \/ FinishGone(r) \/ Fail(r) \/ ClearSatIPSource(r) \/ ClearSatIPMappings(r)
       \/ UpdateWireGuard(r) \/ \E on \in BOOLEAN : UpdateAccount(r, on)
  \/ \E src \in Sources : DeleteAccountRow(src)
  \/ \E c \in Channels : AssignStreams(c)

\* What workers, users and the world start.
Requests ==
  \/ \E r \in Refreshers, src \in Sources :
       \/ RefreshAccount(r, src) \/ HardRefreshRead(r, src) \/ UpdateAccountRead(r, src)
       \/ SatIPScanSource(r, src) \/ HDHRScanSource(r, src) \/ ClearSatIPList(r, src)
  \/ \E src \in Sources : DeleteAccount(src) \/ ClearHDHRSource(src) \/ Publish(src)
  \/ \E c \in Channels : CreateChannel(c) \/ \E S \in SUBSET Ids : AssignStreamsCheck(c, S)
  \/ Restart

IngestNext == Steps \/ Requests

IngestSpec == IngestInit /\ [][IngestNext]_ingestVars

-----------------------------------------------------------------------------
(* Properties *)

\* A playlist whose etag is stored has been loaded, so the next refresh may
\* skip it.  The exceptions are an account whose playlist could not be read or
\* stored after the etag was, one on which two actors worked at once or that a
\* restart interrupted, and one with a stream that another account took over by
\* listing the same URL.
EtagMeansLoaded ==
  \A src \in Sources \ (spoiled \cup unloaded) :
    Kind[src] = "m3u" /\ ~Busy(src) /\ accounts[src] # None /\ accounts[src].etag # NoEtag
      => Listing[src][accounts[src].etag] \subseteq Present

\* Streams are routed as their account says, through a tunnel or not, when
\* nobody works on the account.
RoutedAsAccount ==
  \A src \in Sources \ spoiled :
    Kind[src] \in {"m3u", "xtream"} /\ ~Busy(src) /\ ~Edited(src) /\ accounts[src] # None =>
      \A id \in Of(src) : streams[id].wg = accounts[src].wg

\* A channel refers to streams that exist, or whose removal a refresh is about
\* to clean up; the exceptions are streams deleted with their source, or stored
\* while it is cleared, those of a crash between the two, and those deleted
\* between check and assignment.
ChannelsRefer ==
  \A c \in Channels : channels[c] # None =>
    \A id \in channels[c] : id \in Present \cup Going \cup excused

\* A channel that had streams and lost them all to a refresh is gone, instead
\* of listed with nothing to play.
NoEmptiedChannel ==
  [][\A c \in Channels : channels[c] \notin {None, {}} => channels'[c] # {}]_ingestVars

\* A channel loses, but by an assignment, only streams that do not exist, unless
\* a refresh stored a stream anew (that another account lists too, or that is
\* back) after it was deleted and before the channels were cleaned up.
KeepsWhatExists ==
  [][\A c \in Channels :
       channels[c] # None /\ assigning'[c] = assigning[c] =>
         \A id \in channels[c] :
           channels'[c] = None \/ id \notin channels'[c] => streams'[id] = None \/ id \in revived]_ingestVars

\* A stream disappears only by an actor that works on the source it belongs to
\* at that time, whoever listed it before, or by a restart; and by a refresh
\* only when the source does not list it, or in a part that could not be had
\* (movies or series, a mux that was not heard), unless two worked at once.
OnlyOwnersDelete ==
  [][\A id \in Present : streams'[id] = None =>
       LET src == streams[id].src IN
       \/ \E r \in Refreshers :
            /\ job[r].src = src /\ job[r].pc = "stale" /\ job'[r].pc = "mappings"
            /\ id \in job[r].listed => Part[id] \in job[r].missed \/ src \in spoiled
       \/ \E r \in Refreshers : job[r].src = src /\ job[r].pc = "clear" /\ job'[r].pc = "cleared"
       \/ src \in deleting' \ deleting
       \/ Kind[src] = "hdhr" /\ UNCHANGED job
       \/ accounts[src] = None]_ingestVars

=============================================================================
