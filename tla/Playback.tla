------------------------------ MODULE Playback ------------------------------
(***************************************************************************)
(* What a viewer is given: the choice of stream, profile and codecs        *)
(* (pkg/service/strategy.go, vod.go, client.go), the session it joins, the *)
(* answer of the HTTP handler (pkg/handler/vod.go) and the list of active  *)
(* viewers (pkg/service/activity.go).                                      *)
(*                                                                         *)
(* A session is shared by its key, whatever the profile of those who come  *)
(* later: the session manager itself is SessionManager.tla, and here it is *)
(* one atomic GetOrCreateWithConsumer.  Codecs, containers and deliveries  *)
(* are the program's strings; URLs are reduced to the properties the code  *)
(* looks for in them.                                                      *)
(***************************************************************************)
EXTENDS Naturals, Sequences, FiniteSets, SequencesExt

CONSTANTS
  Profiles,    \* stream profiles by name: [container, video, audio, delivery, height]
  Streams,     \* streams by id: [rtsp, vod, local, video, audio]
  Channels,    \* channels by id: the sequence of their streams
  Files,       \* recordings by path: [base]
  Clients,     \* the enabled clients, by priority: [port, rules, profile]
  Viewers,
  MaxSessions, \* bound on the sessions started
  None

Bases == {Files[f].base : f \in DOMAIN Files}

sessionArgs(container, video, audio, delivery, height) ==
  [container |-> container, video |-> video, audio |-> audio, delivery |-> delivery, height |-> height]
StrategyInput(rtsp, vod, local, video, audio) ==
  [rtsp |-> rtsp, vod |-> vod, local |-> local, video |-> video, audio |-> audio]

(* Streams, channels and file names do not share ids.                      *)
ASSUME PlayAssumption ==
  /\ \A c \in DOMAIN Channels : Channels[c] \in Seq(DOMAIN Streams)
  /\ DOMAIN Streams \cap DOMAIN Channels = {}
  /\ Bases \cap (DOMAIN Streams \cup DOMAIN Channels) = {}

VARIABLES
  active,    \* the streams that are active
  enabled,   \* the channels that are enabled
  sessions,  \* by key: the session, or NoSession
  started,   \* number of sessions started
  viewer,    \* per viewer: its request and what it was answered
  activity   \* ActivityService.viewers: the consumers listed

playVars == <<active, enabled, sessions, started, viewer, activity>>

Keys == DOMAIN Streams \cup DOMAIN Channels \cup Bases

NoOpts == [source |-> None, profile |-> None, container |-> "", video |-> "", audio |-> "", delivery |-> ""]

NoSession == [id |-> 0, opts |-> NoOpts, consumers |-> {}, done |-> FALSE]

NoViewer == [pc |-> "idle", key |-> None, asked |-> None, opts |-> NoOpts, session |-> 0, delivery |-> ""]

-----------------------------------------------------------------------------
(* Client detection: the first enabled client, by priority, whose port and *)
(* rules fit the request and whose profile exists.  A rule is the set of   *)
(* requests it accepts.                                                    *)

matchRule(r, rule) == r.agent \in rule

matchesAllRules(r, client) == \A i \in DOMAIN client.rules : matchRule(r, client.rules[i])

matchesClient(r, client) ==
  /\ client.port > 0 => client.port = r.port
  /\ IF client.rules = << >> THEN client.port > 0 ELSE matchesAllRules(r, client)

MatchClient(r) ==
  LET fits(c) == matchesClient(r, c) /\ c.profile \in DOMAIN Profiles
      i == SelectInSeq(Clients, fits)
  IN  IF i = 0 THEN None ELSE Clients[i].profile

-----------------------------------------------------------------------------
(* Codecs.                                                                 *)

Unset == {"", "default"}

baseVideoCodec(c) == IF c \in {"hvc1", "hev1", "h265"} THEN "h265" ELSE c

Or(codec, default) == IF codec = "" THEN default ELSE codec

resolveVideoAction(source, client, height) ==
  IF client \in Unset \cup {"copy"} THEN IF height > 0 THEN Or(source, "hvc1") ELSE "copy"
  ELSE IF baseVideoCodec(source) = baseVideoCodec(client) /\ height = 0 THEN "copy"
  ELSE client

resolveAudioAction(source, client, container) ==
  IF client \in Unset THEN
    IF container = "webm" THEN "opus" ELSE IF source = "aac" THEN "copy" ELSE "aac"
  ELSE IF client \in {"copy", source} THEN "copy"
  ELSE client

classifyStream(in) ==
  CASE in.rtsp -> "live-satip"
    [] ~in.rtsp /\ in.vod -> IF in.local THEN "vod-local" ELSE "vod-remote"
    [] OTHER -> "live-iptv"

(* Live: a copy of the audio is never kept. *)
liveStrategy(in, out) ==
  LET audio == resolveAudioAction(Or(in.audio, "aac"), out.audio, out.container)
  IN  [video |-> resolveVideoAction(Or(in.video, "h264"), out.video, out.height),
       audio |-> IF audio = "copy" THEN "aac" ELSE audio]

vodRemoteStrategy(in, out) ==
  LET source == Or(in.audio, "aac")
      audio == resolveAudioAction(source, out.audio, out.container)
  IN  [video |-> out.video,
       audio |-> IF audio = "copy" /\ source # "aac" THEN "aac" ELSE audio]

vodLocalStrategy(in, out) == vodRemoteStrategy(in, out)

resolveSessionStrategy(in, out) ==
  CASE classifyStream(in) \in {"live-satip", "live-iptv"} -> liveStrategy(in, out)
    [] classifyStream(in) = "vod-remote" -> vodRemoteStrategy(in, out)
    [] OTHER -> vodLocalStrategy(in, out)

-----------------------------------------------------------------------------
(* A profile made into the arguments of a session.                         *)

WebmAudio == {"opus", "vorbis"}
WebmVideo == {"vp8", "vp9", "av1", "default", "copy", ""}
Mp4Audio == {"aac", "mp3", "opus", "flac"}
Mp4Video == {"h264", "hvc1", "hev1", "av1", "default", "copy", ""}

Fit(codec, accepted, fallback) == IF codec \in accepted THEN codec ELSE fallback

(* For media source extensions the codecs are made to fit the container. *)
ForMSE(sa) ==
  IF sa.delivery # "mse" THEN sa
  ELSE IF sa.container = "webm"
       THEN sessionArgs("webm", Fit(sa.video, WebmVideo, "vp9"), Fit(sa.audio, WebmAudio, "opus"),
                        "mse", sa.height)
       ELSE sessionArgs("mp4", Fit(sa.video, Mp4Video, "hvc1"), Fit(sa.audio, Mp4Audio, "aac"),
                        "mse", sa.height)

AvoidAV1InTS(sa) ==
  IF sa.video = "av1" /\ sa.container \in {"mpegts", "ts"}
  THEN sessionArgs("mp4", sa.video, sa.audio, sa.delivery, sa.height) ELSE sa

composeSessionArgs(p) ==
  LET sp == Profiles[p]
  IN  IF p \notin DOMAIN Profiles THEN sessionArgs("mp4", "", "", "", 0)
      ELSE AvoidAV1InTS(ForMSE(sessionArgs(sp.container, sp.video,
             IF sp.audio \in Unset THEN "aac" ELSE sp.audio, Or(sp.delivery, "stream"), sp.height)))

(* The options of a session for a stream: what is copied for MSE is named  *)
(* by the source's codec when it is known.                                 *)
StartOpts(source, in, p) ==
  LET sa == composeSessionArgs(p)
      st == resolveSessionStrategy(in, sa)
      mse == sa.delivery = "mse"
  IN  [source |-> source, profile |-> p, container |-> sa.container,
       video |-> IF mse /\ st.video = "copy" /\ in.video # "" THEN in.video ELSE st.video,
       audio |-> IF mse THEN Fit(st.audio, Mp4Audio \cup WebmAudio, "aac") ELSE st.audio,
       delivery |-> sa.delivery]

(* A channel's stream is taken for live, whatever it is by itself.         *)
ChannelOpts(s, p) ==
  LET in == Streams[s]
  IN  StartOpts(s, StrategyInput(in.rtsp, FALSE, in.local, in.video, in.audio), p)

HLSOpts(s) ==
  [source |-> s, profile |-> "Jellyfin", container |-> "ts", video |-> "copy", audio |-> "aac",
   delivery |-> "hls"]

FileOpts(f, p) ==
  LET sa == composeSessionArgs(p)
  IN  [source |-> f, profile |-> p, container |-> sa.container, video |-> sa.video,
       audio |-> sa.audio, delivery |-> sa.delivery]

-----------------------------------------------------------------------------
PlayInit ==
  /\ active = DOMAIN Streams /\ enabled = DOMAIN Channels
  /\ sessions = [k \in Keys |-> NoSession] /\ started = 0
  /\ viewer = [v \in Viewers |-> NoViewer] /\ activity = {}

Ask(v, key, asked, opts) ==
  /\ viewer[v].pc = "idle"
  /\ viewer' = [viewer EXCEPT ![v] = [NoViewer EXCEPT !.pc = "join", !.key = key,
                                                     !.asked = asked, !.opts = opts]]
  /\ UNCHANGED <<active, enabled, sessions, started, activity>>

(* The first stream of the channel that is active. *)
resolveStreamForChannel(ch) ==
  LET i == SelectInSeq(Channels[ch], LAMBDA s : s \in active)
  IN  IF ch \notin enabled \/ i = 0 THEN None ELSE Channels[ch][i]

StartWatching(v, ch, p) ==
  LET s == resolveStreamForChannel(ch)
  IN  s # None /\ Ask(v, ch, s, ChannelOpts(s, p))

StartWatchingStream(v, s, p) == s \in active /\ Ask(v, s, s, StartOpts(s, Streams[s], p))

StartWatchingStreamHLS(v, s) == s \in active /\ Ask(v, s, s, HLSOpts(s))

(* A file's session is known by the base of its name. *)
StartWatchingFile(v, f, p) == Ask(v, Files[f].base, f, FileOpts(f, p))

(* GetOrCreateWithConsumer: a session that is done is replaced, another is *)
(* joined as it is.                                                        *)
JoinSession(v) ==
  LET k == viewer[v].key
  IN  /\ viewer[v].pc = "join" /\ sessions[k].id > 0 /\ ~sessions[k].done
      /\ sessions' = [sessions EXCEPT ![k].consumers = @ \cup {v}]
      /\ viewer' = [viewer EXCEPT ![v].pc = "note", ![v].session = sessions[k].id]
      /\ UNCHANGED <<active, enabled, started, activity>>

CreateSession(v) ==
  LET k == viewer[v].key
  IN  /\ viewer[v].pc = "join" /\ started < MaxSessions
      /\ sessions[k].id = 0 \/ sessions[k].done
      /\ started' = started + 1
      /\ sessions' = [sessions EXCEPT ![k] = [id |-> started + 1, opts |-> viewer[v].opts,
                                              consumers |-> {v}, done |-> FALSE]]
      /\ viewer' = [viewer EXCEPT ![v].pc = "note", ![v].session = started + 1]
      /\ UNCHANGED <<active, enabled, activity>>

CreateSessionFails(v) ==
  /\ viewer[v].pc = "join" /\ ~(sessions[viewer[v].key].id > 0 /\ ~sessions[viewer[v].key].done)
  /\ viewer' = [viewer EXCEPT ![v] = NoViewer]
  /\ sessions' = [sessions EXCEPT ![viewer[v].key] = NoSession]
  /\ UNCHANGED <<active, enabled, started, activity>>

ActivityAdd(v) ==
  /\ viewer[v].pc = "note"
  /\ viewer' = [viewer EXCEPT ![v].pc = "answer"]
  /\ activity' = activity \cup {v}
  /\ UNCHANGED <<active, enabled, sessions, started>>

(* The handler looks the session up again for its delivery. *)
\* Slip: the delivery of the viewer's own profile is answered.
AnswerProfile(v) ==
  /\ viewer[v].pc = "answer"
  /\ viewer' = [viewer EXCEPT ![v].pc = "watching", ![v].delivery = viewer[v].opts.delivery]
  /\ UNCHANGED <<active, enabled, sessions, started, activity>>

PlayedAs(delivery) == IF delivery \in {"mse", "hls"} THEN delivery ELSE "stream"

Answer(v) ==
  /\ viewer[v].pc = "answer"
  /\ viewer' = [viewer EXCEPT ![v].pc = "watching",
                              ![v].delivery = PlayedAs(sessions[viewer[v].key].opts.delivery)]
  /\ UNCHANGED <<active, enabled, sessions, started, activity>>

(* The session goes with its last consumer. *)
RemoveConsumer(k, v) ==
  IF v \in sessions[k].consumers /\ sessions[k].consumers = {v} THEN NoSession
  ELSE [sessions[k] EXCEPT !.consumers = @ \ {v}]

StopWatching(v) ==
  /\ viewer[v].pc = "watching"
  /\ activity' = activity \ {v}
  /\ sessions' = [sessions EXCEPT ![viewer[v].key] = RemoveConsumer(viewer[v].key, v)]
  /\ viewer' = [viewer EXCEPT ![v] = NoViewer]
  /\ UNCHANGED <<active, enabled, started>>

(* The pipeline of a session ends by itself; the session stays. *)
SessionDone(k) ==
  /\ sessions[k].id > 0 /\ ~sessions[k].done
  /\ sessions' = [sessions EXCEPT ![k].done = TRUE]
  /\ UNCHANGED <<active, enabled, started, viewer, activity>>

SetActive(s) ==
  /\ active' = IF s \in active THEN active \ {s} ELSE active \cup {s}
  /\ UNCHANGED <<enabled, sessions, started, viewer, activity>>

SetEnabled(ch) ==
  /\ enabled' = IF ch \in enabled THEN enabled \ {ch} ELSE enabled \cup {ch}
  /\ UNCHANGED <<active, sessions, started, viewer, activity>>

PlaySteps ==
  \/ \E v \in Viewers : JoinSession(v) \/ CreateSession(v) \/ CreateSessionFails(v)
                        \/ ActivityAdd(v) \/ Answer(v)
  \/ \E k \in Keys : SessionDone(k)

(* A profile is asked for by name, or is the one of the client detected;   *)
(* the one of a request no client fits is None.                            *)
Agents == UNION {UNION {Clients[i].rules[j] : j \in DOMAIN Clients[i].rules} : i \in DOMAIN Clients}

AskedProfiles ==
  DOMAIN Profiles \cup {MatchClient([agent |-> a, port |-> 8080]) : a \in Agents}

PlayRequests ==
  \/ \E v \in Viewers, p \in AskedProfiles :
       \/ \E ch \in DOMAIN Channels : StartWatching(v, ch, p)
       \/ \E s \in DOMAIN Streams : StartWatchingStream(v, s, p)
       \/ \E f \in DOMAIN Files : StartWatchingFile(v, f, p)
  \/ \E v \in Viewers, s \in DOMAIN Streams : StartWatchingStreamHLS(v, s)
  \/ \E v \in Viewers : StopWatching(v)
  \/ \E s \in DOMAIN Streams : SetActive(s)
  \/ \E ch \in DOMAIN Channels : SetEnabled(ch)

PlaySpec == PlayInit /\ [][PlaySteps \/ PlayRequests]_playVars

-----------------------------------------------------------------------------
SourceOf(o) == IF o.source \in DOMAIN Streams THEN Streams[o.source] ELSE [video |-> "", audio |-> ""]

(* A source that was never probed is taken for H.264 if it is scaled.      *)
TakenForH264(o) ==
  /\ SourceOf(o).video = "" /\ o.video = "h264"
  /\ o.profile \in DOMAIN Profiles /\ Profiles[o.profile].height > 0

FitsMSE(o) ==
  /\ o.container \in {"mp4", "webm"}
  /\ \/ o.video \in (IF o.container = "webm" THEN WebmVideo ELSE Mp4Video) \cup {SourceOf(o).video}
     \/ TakenForH264(o)
  /\ \/ o.audio \in IF o.container = "webm" THEN WebmAudio ELSE Mp4Audio \cup WebmAudio
     \/ o.container = "webm" /\ SourceOf(o).audio \in WebmAudio

NoAV1InTS(o) == o.video = "av1" => o.container \notin {"mpegts", "ts"} \/ SourceOf(o).video = "av1"

Playable(o) == (o.delivery = "mse" => FitsMSE(o)) /\ NoAV1InTS(o)

(* Whatever the profile and the source, a session for media source         *)
(* extensions has a container and codecs that a browser takes together, or *)
(* those the source has; and AV1 is not put into a transport stream.       *)
(* Exceptions the code makes: a WebM profile whose audio codec the source  *)
(* already has gets aac, and one that scales what it copies is given H.264 *)
(* when the source is not known; a height with a copied AV1 source.        *)
PlayableOutput == \A k \in Keys : sessions[k].id > 0 => Playable(sessions[k].opts)

(* A viewer is told the delivery of the session it joined, not of the      *)
(* profile it asked with: as long as that session is the current one, the  *)
(* player it starts is the right one.                                      *)
DeliveryAsTold ==
  \A v \in Viewers : viewer[v].pc = "watching" /\ sessions[viewer[v].key].id = viewer[v].session =>
    viewer[v].delivery = PlayedAs(sessions[viewer[v].key].opts.delivery)

(* What a viewer watches is what it asked for: its stream, or a stream of  *)
(* its channel, or a recording with the name of its own.                   *)
WatchesAsked ==
  \A v \in Viewers : viewer[v].pc = "watching" /\ sessions[viewer[v].key].id = viewer[v].session =>
    LET got == sessions[viewer[v].key].opts.source
        asked == viewer[v].asked
        k == viewer[v].key
    IN  \/ got = asked
        \/ k \in DOMAIN Channels /\ got \in ToSet(Channels[k])
        \/ asked \in DOMAIN Files /\ got \in DOMAIN Files /\ Files[got].base = Files[asked].base

(* A session that runs has a consumer, and the list of active viewers      *)
(* names only viewers that have not left.                                  *)
ListedViewersWatch ==
  /\ \A k \in Keys : sessions[k].id > 0 => sessions[k].consumers # {}
  /\ activity \subseteq {v \in Viewers : viewer[v].pc # "idle"}

(* A session has a container and codecs that its player takes together, a  *)
(* viewer is told the delivery of the session it joined, watches what it   *)
(* asked for, and is listed only until it leaves.                          *)
PlaysAsTold == PlayableOutput /\ DeliveryAsTold /\ WatchesAsked /\ ListedViewersWatch
=============================================================================
