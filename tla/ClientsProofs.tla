---------------------------- MODULE ClientsProofs ---------------------------
(***************************************************************************)
(* The safety of Playback for any profiles, streams, channels, files,      *)
(* clients and viewers, of WireGuard for any configurations and actors, of *)
(* RecordingLibrary for any users, names and deletions, and of             *)
(* WireGuardMulti for any profiles, workers and requests.                  *)
(***************************************************************************)
EXTENDS Playback, WireGuard, RecordingLibrary, WireGuardMulti, FiniteSetTheorems, SequenceTheorems,
        WellFoundedInduction, TLAPS

-----------------------------------------------------------------------------
(***************************************************************************)
(* Profiles, codecs and sessions (Playback).  What a session is started    *)
(* with is one of the options that its key's streams and files give, each  *)
(* of which can be played; sessions are numbered, and a viewer's belongs to*)
(* its key.                                                                *)
(***************************************************************************)

TSContainers == {"mpegts", "ts"}
\* What the arguments made from a profile promise.
ArgsFit(sa) ==
  /\ sa.delivery = "mse" =>
       \/ (sa.container = "webm" /\ sa.audio \in WebmAudio /\ sa.video \in WebmVideo)
       \/ (sa.container = "mp4" /\ sa.audio \in Mp4Audio /\ sa.video \in Mp4Video)
  /\ sa.video = "av1" => sa.container \notin TSContainers

\* The streams, channels and files that belong to a key.
Belongs(k, source) ==
  \/ k \in DOMAIN Streams /\ source = k
  \/ k \in DOMAIN Channels /\ source \in ToSet(Channels[k])
  \/ source \in DOMAIN Files /\ Files[source].base = k

-----------------------------------------------------------------------------
(* Codecs *)

\* For media source extensions the container and codecs are made to fit.
LEMMA FitForMSE ==
  ASSUME NEW sa
  PROVE  LET m == ForMSE(sa) IN
           /\ m.height = sa.height
           /\ m.delivery = "mse" => \/ (m.container = "webm" /\ m.audio \in WebmAudio /\ m.video \in WebmVideo)
                                    \/ (m.container = "mp4" /\ m.audio \in Mp4Audio /\ m.video \in Mp4Video)
<1>1. CASE sa.delivery # "mse"
  BY <1>1 DEF ForMSE
<1>2. CASE sa.delivery = "mse" /\ sa.container = "webm"
  <2>1. Fit(sa.audio, WebmAudio, "opus") \in WebmAudio /\ Fit(sa.video, WebmVideo, "vp9") \in WebmVideo
    BY DEF Fit, WebmAudio, WebmVideo
  <2> QED BY <1>2, <2>1 DEF ForMSE, sessionArgs
<1>3. CASE sa.delivery = "mse" /\ sa.container # "webm"
  <2>1. Fit(sa.audio, Mp4Audio, "aac") \in Mp4Audio /\ Fit(sa.video, Mp4Video, "hvc1") \in Mp4Video
    BY DEF Fit, Mp4Audio, Mp4Video
  <2> QED BY <1>3, <2>1 DEF ForMSE, sessionArgs
<1> QED BY <1>1, <1>2, <1>3

\* Giving up a transport stream with AV1 does not undo that.
LEMMA ArgsFitAfter ==
  ASSUME NEW sa
  PROVE  ArgsFit(AvoidAV1InTS(ForMSE(sa))) /\ AvoidAV1InTS(ForMSE(sa)).height = sa.height
<1> DEFINE m == ForMSE(sa)
<1>1. /\ m.height = sa.height
      /\ m.delivery = "mse" => \/ (m.container = "webm" /\ m.audio \in WebmAudio /\ m.video \in WebmVideo)
                               \/ (m.container = "mp4" /\ m.audio \in Mp4Audio /\ m.video \in Mp4Video)
  BY FitForMSE
<1> HIDE DEF m
<1>2. CASE m.video = "av1" /\ m.container \in TSContainers
  <2>1. AvoidAV1InTS(m) = sessionArgs("mp4", m.video, m.audio, m.delivery, m.height)
    BY <1>2 DEF AvoidAV1InTS, TSContainers
  <2>2. m.container # "webm" /\ m.container # "mp4" /\ "mp4" \notin TSContainers
    BY <1>2 DEF TSContainers
  <2> QED BY <1>1, <2>1, <2>2 DEF ArgsFit, sessionArgs, m
<1>3. CASE ~(m.video = "av1" /\ m.container \in TSContainers)
  <2>1. AvoidAV1InTS(m) = m
    BY <1>3 DEF AvoidAV1InTS, TSContainers
  <2> QED BY <1>1, <1>3, <2>1 DEF ArgsFit, m
<1> QED BY <1>2, <1>3

\* So do the arguments of a profile, and of one that is not there.
LEMMA ComposedArgsFit ==
  ASSUME NEW p
  PROVE  /\ ArgsFit(composeSessionArgs(p))
         /\ composeSessionArgs(p).height > 0 => p \in DOMAIN Profiles /\ Profiles[p].height > 0
<1>1. CASE p \notin DOMAIN Profiles
  <2>1. composeSessionArgs(p) = sessionArgs("mp4", "", "", "", 0)
    BY <1>1 DEF composeSessionArgs
  <2>2. "" # "mse" /\ "" # "av1"
    OBVIOUS
  <2>3. LET sa == sessionArgs("mp4", "", "", "", 0) IN sa.delivery = "" /\ sa.video = "" /\ sa.height = 0
    BY DEF sessionArgs
  <2>4. ~(0 > 0)
    OBVIOUS
  <2> QED BY <2>1, <2>2, <2>3, <2>4, Zenon DEF ArgsFit
<1>2. CASE p \in DOMAIN Profiles
  <2> DEFINE sp == Profiles[p]
             a == IF sp.audio \in Unset THEN "aac" ELSE sp.audio
             d == Or(sp.delivery, "stream")
             sa == sessionArgs(sp.container, sp.video, a, d, sp.height)
  <2>1. composeSessionArgs(p) = AvoidAV1InTS(ForMSE(sa))
    BY <1>2 DEF composeSessionArgs
  <2>2. sa.height = sp.height
    BY DEF sessionArgs
  <2> HIDE DEF sa
  <2> QED BY <1>2, <2>1, <2>2, ArgsFitAfter
<1> QED BY <1>1, <1>2

\* The video of a session is copied, the profile's, or the source's by name; the
\* last only if the profile scales what it copies.
LEMMA VideoChosen ==
  ASSUME NEW in, NEW sa
  PROVE  LET v == resolveSessionStrategy(in, sa).video IN
           v \in {"copy", sa.video} \/ (v = Or(in.video, "h264") /\ sa.height > 0)
<1> DEFINE source == Or(in.video, "h264")
           r == resolveVideoAction(source, sa.video, sa.height)
<1>1. source # ""
  BY DEF Or
<1>2. resolveSessionStrategy(in, sa).video \in {sa.video, r}
  BY DEF resolveSessionStrategy, liveStrategy, vodRemoteStrategy, vodLocalStrategy
<1>3. r \in {"copy", sa.video} \/ (r = source /\ sa.height > 0)
  <2>1. CASE sa.video \in Unset \cup {"copy"} /\ sa.height > 0
    <3>1. r = Or(source, "hvc1")
      BY <2>1, Zenon DEF resolveVideoAction
    <3> QED BY <1>1, <2>1, <3>1, Zenon DEF Or
  <2>2. CASE ~(sa.video \in Unset \cup {"copy"} /\ sa.height > 0)
    BY <2>2, Zenon DEF resolveVideoAction
  <2> QED BY <2>1, <2>2
<1> HIDE DEF r
<1> QED BY <1>2, <1>3

\* The audio of a session in WebM is the profile's, unless the source has it already.
LEMMA WebmAudioChosen ==
  ASSUME NEW in, NEW sa, sa.container = "webm", sa.audio \in WebmAudio
  PROVE  \/ resolveSessionStrategy(in, sa).audio = sa.audio
         \/ in.audio \in WebmAudio
<1> DEFINE source == Or(in.audio, "aac")
           r == resolveAudioAction(source, sa.audio, sa.container)
<1>1. sa.audio \notin Unset /\ sa.audio # "copy" /\ sa.audio # "aac" /\ "" \notin WebmAudio
  BY DEF Unset, WebmAudio
<1>2. r = sa.audio \/ (r = "copy" /\ source = sa.audio)
  BY <1>1 DEF resolveAudioAction
<1>3. source = sa.audio => in.audio \in WebmAudio
  BY <1>1 DEF Or
<1>4. r # "copy" => resolveSessionStrategy(in, sa).audio = r
  BY DEF resolveSessionStrategy, liveStrategy, vodRemoteStrategy, vodLocalStrategy
<1> HIDE DEF r, source
<1> QED BY <1>1, <1>2, <1>3, <1>4

\* The options of a session for a stream can be played.
LEMMA StartOptsPlayable ==
  ASSUME NEW s \in DOMAIN Streams, NEW in, in.video = Streams[s].video, in.audio = Streams[s].audio, NEW p
  PROVE  Playable(StartOpts(s, in, p))
<1> DEFINE sa == composeSessionArgs(p)
           st == resolveSessionStrategy(in, sa)
           o == StartOpts(s, in, p)
           mse == sa.delivery = "mse"
<1>1. /\ ArgsFit(sa)
      /\ sa.height > 0 => p \in DOMAIN Profiles /\ Profiles[p].height > 0
  BY ComposedArgsFit
<1>2. st.video \in {"copy", sa.video} \/ (st.video = Or(in.video, "h264") /\ sa.height > 0)
  BY VideoChosen
<1>3. sa.container = "webm" /\ sa.audio \in WebmAudio => st.audio = sa.audio \/ in.audio \in WebmAudio
  BY WebmAudioChosen
<1>4. /\ o.source = s /\ o.profile = p /\ o.container = sa.container /\ o.delivery = sa.delivery
      /\ o.video = (IF mse /\ st.video = "copy" /\ in.video # "" THEN in.video ELSE st.video)
      /\ o.audio = (IF mse THEN Fit(st.audio, Mp4Audio \cup WebmAudio, "aac") ELSE st.audio)
  BY DEF StartOpts
<1>5. SourceOf(o) = Streams[s]
  BY <1>4 DEF SourceOf
<1> HIDE DEF o, st, sa
<1>6. o.video \in {"copy", sa.video, in.video} \/ (in.video = "" /\ o.video = "h264" /\ sa.height > 0)
  BY <1>2, <1>4 DEF Or
<1>7. NoAV1InTS(o)
  <2>1. o.video = "av1" => sa.video = "av1" \/ in.video = "av1"
    BY <1>6
  <2> QED BY <2>1, <1>1, <1>4, <1>5 DEF NoAV1InTS, ArgsFit, TSContainers
<1>8. ASSUME mse PROVE FitsMSE(o)
  <2>1. \/ sa.container = "webm" /\ sa.audio \in WebmAudio /\ sa.video \in WebmVideo
        \/ sa.container = "mp4" /\ sa.audio \in Mp4Audio /\ sa.video \in Mp4Video
    BY <1>1, <1>8 DEF ArgsFit
  <2>2. \/ o.video \in (IF o.container = "webm" THEN WebmVideo ELSE Mp4Video) \cup {SourceOf(o).video}
        \/ TakenForH264(o)
    <3>1. "copy" \in WebmVideo /\ "copy" \in Mp4Video /\ "mp4" # "webm"
      BY DEF WebmVideo, Mp4Video
    <3>2. CASE o.video \in {"copy", sa.video, in.video}
      BY <2>1, <3>1, <3>2, <1>4, <1>5
    <3>3. CASE in.video = "" /\ o.video = "h264" /\ sa.height > 0
      BY <3>3, <1>1, <1>4, <1>5 DEF TakenForH264
    <3> QED BY <3>2, <3>3, <1>6
  <2>3. \/ o.audio \in (IF o.container = "webm" THEN WebmAudio ELSE Mp4Audio \cup WebmAudio)
        \/ o.container = "webm" /\ SourceOf(o).audio \in WebmAudio
    <3>1. CASE o.container = "webm"
      <4>1. sa.container = "webm" /\ sa.audio \in WebmAudio
        BY <2>1, <3>1, <1>4
      <4>2. st.audio = sa.audio => o.audio = sa.audio
        BY <4>1, <1>4, <1>8 DEF Fit
      <4> QED BY <3>1, <4>1, <4>2, <1>3, <1>5
    <3>2. CASE o.container # "webm"
      <4>1. "aac" \in Mp4Audio
        BY DEF Mp4Audio
      <4> QED BY <3>2, <4>1, <1>4, <1>8 DEF Fit
    <3> QED BY <3>1, <3>2
  <2> QED BY <2>1, <2>2, <2>3, <1>4 DEF FitsMSE
<1> QED BY <1>4, <1>7, <1>8 DEF Playable, o

\* A file is played as its profile says.
LEMMA FileOptsPlayable ==
  ASSUME NEW f, NEW p
  PROVE  Playable(FileOpts(f, p))
<1> DEFINE sa == composeSessionArgs(p)
           o == FileOpts(f, p)
<1>1. ArgsFit(sa)
  BY ComposedArgsFit
<1>2. o.container = sa.container /\ o.video = sa.video /\ o.audio = sa.audio /\ o.delivery = sa.delivery
  BY DEF FileOpts
<1> HIDE DEF o, sa
<1>3. NoAV1InTS(o)
  BY <1>1, <1>2 DEF ArgsFit, NoAV1InTS, TSContainers
<1>4. ASSUME o.delivery = "mse" PROVE FitsMSE(o)
  <2>1. \/ (o.container = "webm" /\ o.audio \in WebmAudio /\ o.video \in WebmVideo)
        \/ (o.container = "mp4" /\ o.audio \in Mp4Audio /\ o.video \in Mp4Video)
    BY <1>1, <1>2, <1>4 DEF ArgsFit
  <2>2. "mp4" # "webm"
    OBVIOUS
  <2> QED BY <2>1, <2>2 DEF FitsMSE
<1> QED BY <1>3, <1>4 DEF Playable, o

\* All the options a session can be started with.
AllOpts ==
  {StartOpts(s, Streams[s], p) : s \in DOMAIN Streams, p \in AskedProfiles}
    \cup {ChannelOpts(s, p) : s \in DOMAIN Streams, p \in AskedProfiles}
    \cup {HLSOpts(s) : s \in DOMAIN Streams} \cup {FileOpts(f, p) : f \in DOMAIN Files, p \in AskedProfiles}
    \cup {NoOpts}

\* Whatever is asked for, what is started can be played.
LEMMA OptsPlayable ==
  ASSUME NEW o \in AllOpts
  PROVE  Playable(o)
<1>1. ASSUME NEW s \in DOMAIN Streams, NEW p PROVE Playable(ChannelOpts(s, p))
  <2> DEFINE in == StrategyInput(Streams[s].rtsp, FALSE, Streams[s].local, Streams[s].video, Streams[s].audio)
  <2>1. in.video = Streams[s].video /\ in.audio = Streams[s].audio
    BY DEF StrategyInput
  <2>2. ChannelOpts(s, p) = StartOpts(s, in, p)
    BY DEF ChannelOpts
  <2> HIDE DEF in
  <2> QED BY <2>1, <2>2, StartOptsPlayable
<1>2. Playable(NoOpts)
  <2>1. NoOpts.delivery = "" /\ NoOpts.video = ""
    BY DEF NoOpts
  <2> QED BY <2>1 DEF Playable, NoAV1InTS
<1>3. ASSUME NEW s \in DOMAIN Streams PROVE Playable(HLSOpts(s))
  <2>1. HLSOpts(s).delivery = "hls" /\ HLSOpts(s).video = "copy"
    BY DEF HLSOpts
  <2> QED BY <2>1 DEF Playable, NoAV1InTS
<1> QED BY <1>1, <1>2, <1>3, StartOptsPlayable, FileOptsPlayable DEF AllOpts

-----------------------------------------------------------------------------
(* The inductive invariant *)

PlayPcs == {"idle", "join", "note", "answer", "watching"}
Sources == DOMAIN Streams \cup DOMAIN Files
SessionType == [id : Nat, opts : AllOpts, consumers : SUBSET Viewers, done : BOOLEAN]
ViewerType == [pc : PlayPcs, key : Keys \cup {None}, asked : Sources \cup {None}, opts : AllOpts,
               session : Nat, delivery : {"", "mse", "hls", "stream"}]

PlayTypes ==
  /\ active \subseteq DOMAIN Streams /\ started \in Nat
  /\ sessions \in [Keys -> SessionType] /\ viewer \in [Viewers -> ViewerType]

\* Sessions are numbered as they start; each is of a stream or file of its key,
\* and somebody's.
SessionsSound ==
  \A k \in Keys :
    /\ sessions[k].id <= started
    /\ sessions[k].id > 0 => Belongs(k, sessions[k].opts.source) /\ sessions[k].consumers # {}

\* What a viewer asked for is of its key, and so is what it would start; the
\* session it knows has started.
Knows(v) ==
  /\ viewer[v].pc # "idle" =>
       /\ viewer[v].key \in Keys /\ Belongs(viewer[v].key, viewer[v].asked)
       /\ viewer[v].opts.source = viewer[v].asked
  /\ viewer[v].pc \in {"note", "answer", "watching"} => viewer[v].session \in 1..started

PlayIInv ==
  /\ PlayTypes /\ SessionsSound /\ DeliveryAsTold
  /\ \A v \in Viewers : Knows(v)
  /\ activity \subseteq {v \in Viewers : viewer[v].pc \in {"answer", "watching"}}

-----------------------------------------------------------------------------
(* The operators *)

\* Numbers have a smallest one.
LEMMA SmallestExists ==
  ASSUME NEW S \in SUBSET Nat, S # {}
  PROVE  \E m \in S : \A x \in S : m <= x
<1> DEFINE R == OpToRel(<, Nat)
<1>1. IsWellFoundedOn(R, Nat)
  BY NatLessThanWellFounded
<1>2. \A x, y \in Nat : y < x => <<y, x>> \in R
  BY DEF OpToRel
<1> HIDE DEF R
<1>3. PICK m \in S : \A y \in S : ~ (<<y, m>> \in R)
  BY <1>1, WFMin
<1>4. m \in Nat /\ \A x \in S : x \in Nat /\ ~(x < m)
  BY <1>2, <1>3
<1>5. \A x \in S : m <= x
  BY <1>4
<1> QED BY <1>3, <1>5

\* The first stream of a channel that passes a test is one of its streams.
LEMMA ResolvedOfChannel ==
  ASSUME NEW ch \in DOMAIN Channels, NEW s, s = resolveStreamForChannel(ch), s # None
  PROVE  s \in ToSet(Channels[ch]) /\ s \in DOMAIN Streams
<1> DEFINE seq == Channels[ch]
           hits == {i \in 1..Len(seq) : seq[i] \in active}
           i == SelectInSeq(seq, LAMBDA x : x \in active)
<1>1. s = seq[i] /\ i # 0
  BY DEF resolveStreamForChannel
<1>2. i = IF hits # {} THEN CHOOSE m \in hits : \A x \in hits : m <= x ELSE 0
  BY DEF SelectInSeq, Min
<1>3. seq \in Seq(DOMAIN Streams)
  BY PlayAssumption
<1> HIDE DEF i
<1>4. hits # {} /\ hits \subseteq Nat
  BY <1>1, <1>2
<1>5. \E m \in hits : \A x \in hits : m <= x
  BY <1>4, SmallestExists
<1>6. i \in 1..Len(seq)
  BY <1>2, <1>4, <1>5
<1> QED BY <1>1, <1>3, <1>6 DEF ToSet

\* Those who share a session by its key asked for the same.
LEMMA SameKey ==
  ASSUME NEW k, NEW got, NEW asked, Belongs(k, got), Belongs(k, asked)
  PROVE  \/ got = asked
         \/ k \in DOMAIN Channels /\ got \in ToSet(Channels[k])
         \/ asked \in DOMAIN Files /\ got \in DOMAIN Files /\ Files[got].base = Files[asked].base
<1>1. \A f \in DOMAIN Files : Files[f].base \in Bases
  BY DEF Bases
<1> QED BY <1>1, PlayAssumption DEF Belongs

\* What belongs to a key makes it one.
LEMMA KeyOf ==
  ASSUME NEW k, NEW s, Belongs(k, s)
  PROVE  k \in Keys
BY DEF Belongs, Keys, Bases

-----------------------------------------------------------------------------
(* The steps *)

\* What is asked for can be started: a session for it belongs to its key.
LEMMA OptsForKey ==
  ASSUME NEW p \in AskedProfiles
  PROVE  /\ \A s \in DOMAIN Streams :
              /\ StartOpts(s, Streams[s], p) \in AllOpts /\ StartOpts(s, Streams[s], p).source = s
              /\ ChannelOpts(s, p) \in AllOpts /\ ChannelOpts(s, p).source = s
              /\ HLSOpts(s) \in AllOpts /\ HLSOpts(s).source = s
         /\ \A f \in DOMAIN Files : FileOpts(f, p) \in AllOpts /\ FileOpts(f, p).source = f
<1>1. ASSUME NEW s \in DOMAIN Streams
      PROVE  /\ StartOpts(s, Streams[s], p) \in AllOpts
             /\ ChannelOpts(s, p) \in AllOpts /\ HLSOpts(s) \in AllOpts
  BY DEF AllOpts
<1>2. ASSUME NEW s, NEW in PROVE StartOpts(s, in, p).source = s
  BY DEF StartOpts
<1>3. ASSUME NEW s PROVE ChannelOpts(s, p).source = s /\ HLSOpts(s).source = s
  BY <1>2 DEF ChannelOpts, HLSOpts
<1>4. ASSUME NEW f \in DOMAIN Files PROVE FileOpts(f, p) \in AllOpts /\ FileOpts(f, p).source = f
  BY DEF AllOpts, FileOpts
<1> QED BY <1>1, <1>2, <1>3, <1>4

\* No session and no viewer are of their types.
LEMMA NothingFits == NoOpts \in AllOpts /\ NoSession \in SessionType /\ NoViewer \in ViewerType
<1>1. NoOpts \in AllOpts
  BY DEF AllOpts
<1>2. NoSession \in SessionType
  BY <1>1 DEF NoSession, SessionType
<1>3. NoViewer \in ViewerType
  BY <1>1 DEF NoViewer, ViewerType, PlayPcs
<1> QED BY <1>1, <1>2, <1>3

\* A server that starts.
LEMMA PlayStart == PlayInit => PlayIInv
<1> SUFFICES ASSUME PlayInit PROVE PlayIInv
  OBVIOUS
<1>1. NoSession \in SessionType /\ NoSession.id = 0
  BY NothingFits DEF NoSession
<1>2. NoViewer \in ViewerType /\ NoViewer.pc = "idle"
  BY NothingFits DEF NoViewer
<1> QED BY <1>1, <1>2 DEF PlayInit, PlayIInv, PlayTypes, SessionsSound, DeliveryAsTold, Knows

\* A viewer asks for a stream or a file, by a key that it belongs to.
LEMMA AskKeeps ==
  ASSUME PlayIInv, NEW v \in Viewers, NEW key, NEW asked \in Sources, NEW opts \in AllOpts,
         Belongs(key, asked), opts.source = asked, Ask(v, key, asked, opts)
  PROVE  PlayIInv'
<1>1. key \in Keys
  BY KeyOf
<1>2. viewer' = [viewer EXCEPT ![v] = viewer'[v]]
  BY DEF Ask, PlayIInv, PlayTypes
<1>3. /\ viewer'[v].pc = "join" /\ viewer'[v].key = key /\ viewer'[v].asked = asked
      /\ viewer'[v].opts = opts /\ viewer'[v] \in ViewerType
  BY <1>1 DEF Ask, PlayIInv, PlayTypes, NoViewer, ViewerType, PlayPcs
<1>4. PlayTypes'
  BY <1>2, <1>3 DEF Ask, PlayIInv, PlayTypes
<1>5. SessionsSound'
  BY DEF Ask, PlayIInv, SessionsSound
<1>6. \A w \in Viewers \ {v} : viewer'[w] = viewer[w]
  BY <1>2 DEF PlayIInv, PlayTypes
<1>7. \A w \in Viewers : Knows(w)'
  <2>1. Knows(v)'
    BY <1>1, <1>3 DEF Knows
  <2>2. ASSUME NEW w \in Viewers \ {v} PROVE Knows(w)'
    <3>1. Knows(w) /\ started' = started
      BY DEF Ask, PlayIInv
    <3> QED BY <1>6, <3>1 DEF Knows
  <2> QED BY <2>1, <2>2
<1>8. DeliveryAsTold'
  BY <1>3, <1>6 DEF Ask, PlayIInv, DeliveryAsTold
<1>9. activity' \subseteq {w \in Viewers : viewer'[w].pc \in {"answer", "watching"}}
  BY <1>6 DEF Ask, PlayIInv
<1> QED BY <1>4, <1>5, <1>7, <1>8, <1>9 DEF PlayIInv

\* So it does, whatever it asks for.
LEMMA WatchingKeeps ==
  ASSUME PlayIInv, NEW v \in Viewers, NEW p \in AskedProfiles,
         \/ \E ch \in DOMAIN Channels : StartWatching(v, ch, p)
         \/ \E s \in DOMAIN Streams : StartWatchingStream(v, s, p) \/ StartWatchingStreamHLS(v, s)
         \/ \E f \in DOMAIN Files : StartWatchingFile(v, f, p)
  PROVE  PlayIInv'
<1>1. ASSUME NEW ch \in DOMAIN Channels, StartWatching(v, ch, p) PROVE PlayIInv'
  <2> DEFINE s == resolveStreamForChannel(ch)
  <2>1. s # None /\ Ask(v, ch, s, ChannelOpts(s, p))
    BY <1>1 DEF StartWatching
  <2>2. s \in ToSet(Channels[ch]) /\ s \in DOMAIN Streams
    BY <2>1, ResolvedOfChannel
  <2> HIDE DEF s
  <2>3. Belongs(ch, s) /\ s \in Sources
    BY <2>2 DEF Belongs, Sources
  <2> QED BY <2>1, <2>2, <2>3, OptsForKey, AskKeeps
<1>2. ASSUME NEW s \in DOMAIN Streams, StartWatchingStream(v, s, p) \/ StartWatchingStreamHLS(v, s)
      PROVE PlayIInv'
  <2>1. Belongs(s, s) /\ s \in Sources
    BY DEF Belongs, Sources
  <2> QED BY <1>2, <2>1, OptsForKey, AskKeeps DEF StartWatchingStream, StartWatchingStreamHLS
<1>3. ASSUME NEW f \in DOMAIN Files, StartWatchingFile(v, f, p) PROVE PlayIInv'
  <2>1. Belongs(Files[f].base, f) /\ f \in Sources
    BY DEF Belongs, Sources
  <2> QED BY <1>3, <2>1, OptsForKey, AskKeeps DEF StartWatchingFile
<1> QED BY <1>1, <1>2, <1>3

\* A viewer that moves on from where it is keeps what it asked for.
LEMMA MoveKeeps ==
  ASSUME PlayIInv, NEW v \in Viewers, viewer' = [viewer EXCEPT ![v] = viewer'[v]], viewer'[v] \in ViewerType,
         viewer[v].pc # "idle", viewer'[v].key = viewer[v].key, viewer'[v].asked = viewer[v].asked,
         viewer'[v].opts = viewer[v].opts, started' >= started, started' \in Nat,
         viewer'[v].pc \in {"note", "answer", "watching"} => viewer'[v].session \in 1..started'
  PROVE  /\ viewer' \in [Viewers -> ViewerType] /\ \A w \in Viewers \ {v} : viewer'[w] = viewer[w]
         /\ \A w \in Viewers : Knows(w)'
<1>1. viewer' \in [Viewers -> ViewerType] /\ \A w \in Viewers \ {v} : viewer'[w] = viewer[w]
  BY DEF PlayIInv, PlayTypes
<1>2. Knows(v)'
  BY DEF PlayIInv, Knows
<1>3. ASSUME NEW w \in Viewers \ {v} PROVE Knows(w)'
  <2>1. Knows(w) /\ started \in Nat
    BY DEF PlayIInv, PlayTypes
  <2> QED BY <1>1, <2>1 DEF Knows
<1> QED BY <1>1, <1>2, <1>3

\* The session of its key is joined as it is.
LEMMA JoinKeeps ==
  ASSUME PlayIInv, NEW v \in Viewers, JoinSession(v)
  PROVE  PlayIInv'
<1> DEFINE k == viewer[v].key
<1>1. /\ k \in Keys /\ viewer[v] \in ViewerType /\ sessions[k] \in SessionType /\ sessions[k].id <= started
      /\ started \in Nat /\ sessions \in [Keys -> SessionType] /\ viewer[v].pc = "join" /\ sessions[k].id > 0
  BY DEF JoinSession, PlayIInv, PlayTypes, SessionsSound, Knows
<1>2. /\ viewer' = [viewer EXCEPT ![v] = viewer'[v]] /\ viewer'[v] \in ViewerType /\ viewer'[v].pc = "note"
      /\ viewer'[v].key = k /\ viewer'[v].asked = viewer[v].asked /\ viewer'[v].opts = viewer[v].opts
      /\ viewer'[v].session = sessions[k].id
  BY <1>1 DEF JoinSession, PlayIInv, PlayTypes, ViewerType, SessionType, PlayPcs
<1>3. sessions[k].id \in 1..started /\ started' = started
  BY <1>1 DEF JoinSession, SessionType
<1>4. /\ viewer' \in [Viewers -> ViewerType] /\ \A w \in Viewers \ {v} : viewer'[w] = viewer[w]
      /\ \A w \in Viewers : Knows(w)'
  BY <1>1, <1>2, <1>3, MoveKeeps
<1>5. /\ sessions' \in [Keys -> SessionType]
      /\ \A j \in Keys : /\ sessions'[j].id = sessions[j].id /\ sessions'[j].opts = sessions[j].opts
                         /\ sessions[j].consumers # {} => sessions'[j].consumers # {}
  BY <1>1 DEF JoinSession, SessionType
<1>6. SessionsSound'
  BY <1>3, <1>5 DEF PlayIInv, SessionsSound
<1>7. DeliveryAsTold'
  <2> SUFFICES ASSUME NEW w \in Viewers, viewer'[w].pc = "watching",
                      sessions'[viewer'[w].key].id = viewer'[w].session
               PROVE  viewer'[w].delivery = PlayedAs(sessions'[viewer'[w].key].opts.delivery)
    BY DEF DeliveryAsTold
  <2>1. w # v /\ viewer'[w] = viewer[w]
    BY <1>2, <1>4
  <2>2. viewer[w].key \in Keys
    BY <2>1 DEF PlayIInv, Knows
  <2> QED BY <2>1, <2>2, <1>5 DEF PlayIInv, DeliveryAsTold
<1>8. activity' \subseteq {w \in Viewers : viewer'[w].pc \in {"answer", "watching"}}
  BY <1>1, <1>4 DEF JoinSession, PlayIInv
<1>9. active' \subseteq DOMAIN Streams
  BY DEF JoinSession, PlayIInv, PlayTypes
<1> QED BY <1>1, <1>3, <1>4, <1>5, <1>6, <1>7, <1>8, <1>9 DEF PlayIInv, PlayTypes

\* The sessions of the other keys and their viewers stay as they are when one
\* session is replaced, ends or changes its consumers.
LEMMA SessionsKeep ==
  ASSUME PlayIInv, NEW k \in Keys, sessions' = [sessions EXCEPT ![k] = sessions'[k]], sessions'[k] \in SessionType,
         started' \in Nat, started' >= started, sessions'[k].id <= started',
         sessions'[k].id > 0 => Belongs(k, sessions'[k].opts.source) /\ sessions'[k].consumers # {}
  PROVE  /\ sessions' \in [Keys -> SessionType] /\ \A j \in Keys \ {k} : sessions'[j] = sessions[j]
         /\ SessionsSound'
<1>1. sessions' \in [Keys -> SessionType] /\ \A j \in Keys \ {k} : sessions'[j] = sessions[j]
  BY DEF PlayIInv, PlayTypes
<1>2. ASSUME NEW j \in Keys \ {k}
      PROVE  /\ sessions'[j].id <= started'
             /\ sessions'[j].id > 0 => Belongs(j, sessions'[j].opts.source) /\ sessions'[j].consumers # {}
  <2>1. sessions[j].id \in Nat /\ sessions[j].id <= started /\ started \in Nat
    BY DEF PlayIInv, PlayTypes, SessionsSound, SessionType
  <2> QED BY <1>1, <2>1 DEF PlayIInv, SessionsSound
<1> QED BY <1>1, <1>2 DEF SessionsSound

\* What viewers were told stays true when a session gives way to another or to
\* none, or keeps its number and its options.
LEMMA ToldStays ==
  ASSUME PlayIInv, NEW k \in Keys, \A j \in Keys \ {k} : sessions'[j] = sessions[j],
         \/ sessions'[k].id = 0 \/ sessions'[k].id > started
         \/ sessions'[k].id = sessions[k].id /\ sessions'[k].opts = sessions[k].opts,
         sessions'[k].id \in Nat,
         \A w \in Viewers : viewer'[w] = viewer[w] \/ viewer'[w].pc # "watching"
  PROVE  DeliveryAsTold'
<1> SUFFICES ASSUME NEW w \in Viewers, viewer'[w].pc = "watching",
                    sessions'[viewer'[w].key].id = viewer'[w].session
             PROVE  viewer'[w].delivery = PlayedAs(sessions'[viewer'[w].key].opts.delivery)
  BY DEF DeliveryAsTold
<1> DEFINE j == viewer[w].key
<1>1. viewer'[w] = viewer[w] /\ viewer[w].pc = "watching"
  OBVIOUS
<1>2. j \in Keys /\ viewer[w].session \in 1..started /\ started \in Nat
  BY <1>1 DEF PlayIInv, Knows, PlayTypes
<1>3. sessions'[j].id = viewer[w].session
  BY <1>1
<1> HIDE DEF j
<1>4. sessions'[j].id = sessions[j].id /\ sessions'[j].opts = sessions[j].opts
  BY <1>2, <1>3
<1> QED BY <1>1, <1>2, <1>3, <1>4 DEF PlayIInv, DeliveryAsTold, j

\* A session is started for a viewer, in the place of one that is done.
LEMMA CreateKeeps ==
  ASSUME PlayIInv, NEW v \in Viewers, CreateSession(v)
  PROVE  PlayIInv'
<1> DEFINE k == viewer[v].key
<1>1. /\ k \in Keys /\ viewer[v] \in ViewerType /\ started \in Nat /\ sessions \in [Keys -> SessionType]
      /\ viewer[v].pc = "join" /\ Belongs(k, viewer[v].opts.source) /\ started' = started + 1
      /\ viewer \in [Viewers -> ViewerType] /\ started + 1 \in Nat
  BY DEF CreateSession, PlayIInv, PlayTypes, Knows
<1>2. /\ viewer' = [viewer EXCEPT ![v] = viewer'[v]] /\ viewer'[v] \in ViewerType /\ viewer'[v].pc = "note"
      /\ viewer'[v].key = k /\ viewer'[v].asked = viewer[v].asked /\ viewer'[v].opts = viewer[v].opts
      /\ viewer'[v].session = started + 1
  BY <1>1 DEF CreateSession, ViewerType, PlayPcs
<1>3. started + 1 \in 1..started' /\ started' \in Nat /\ started' >= started
  BY <1>1
<1>4. /\ viewer' \in [Viewers -> ViewerType] /\ \A w \in Viewers \ {v} : viewer'[w] = viewer[w]
      /\ \A w \in Viewers : Knows(w)'
  BY <1>1, <1>2, <1>3, MoveKeeps
<1>5. /\ sessions' = [sessions EXCEPT ![k] = sessions'[k]] /\ sessions'[k].id = started + 1
      /\ sessions'[k].opts = viewer[v].opts /\ sessions'[k].consumers = {v} /\ sessions'[k].done = FALSE
  BY <1>1 DEF CreateSession
<1>6. sessions'[k] \in SessionType
  <2>1. viewer[v].opts \in AllOpts /\ {v} \subseteq Viewers
    BY <1>1 DEF ViewerType
  <2>2. sessions'[k] = [id |-> started + 1, opts |-> viewer[v].opts, consumers |-> {v}, done |-> FALSE]
    BY <1>1 DEF CreateSession
  <2> QED BY <1>1, <2>1, <2>2 DEF SessionType
<1>7. /\ sessions' \in [Keys -> SessionType] /\ \A j \in Keys \ {k} : sessions'[j] = sessions[j]
      /\ SessionsSound'
  <2>1. k \in Keys /\ started' \in Nat /\ started' >= started /\ sessions'[k].id <= started'
    BY <1>1, <1>3, <1>5
  <2>2. sessions'[k].id > 0 => Belongs(k, sessions'[k].opts.source) /\ sessions'[k].consumers # {}
    BY <1>1, <1>5
  <2>3. sessions' = [sessions EXCEPT ![k] = sessions'[k]] /\ sessions'[k] \in SessionType
    BY <1>5, <1>6
  <2> HIDE DEF k
  <2> QED BY <2>1, <2>2, <2>3, SessionsKeep
<1>8. DeliveryAsTold'
  BY <1>1, <1>2, <1>3, <1>4, <1>5, <1>7, ToldStays
<1>9. activity' \subseteq {w \in Viewers : viewer'[w].pc \in {"answer", "watching"}}
  BY <1>1, <1>4 DEF CreateSession, PlayIInv
<1>10. active' \subseteq DOMAIN Streams
  BY DEF CreateSession, PlayIInv, PlayTypes
<1> QED BY <1>3, <1>4, <1>7, <1>8, <1>9, <1>10 DEF PlayIInv, PlayTypes

\* A viewer that is gone knows nothing.
LEMMA GoneKnowsNothing ==
  ASSUME PlayIInv, NEW v \in Viewers, viewer' = [viewer EXCEPT ![v] = NoViewer], started' = started
  PROVE  /\ viewer' \in [Viewers -> ViewerType] /\ viewer'[v].pc = "idle"
         /\ \A w \in Viewers \ {v} : viewer'[w] = viewer[w]
         /\ \A w \in Viewers : Knows(w)'
<1>1. NoViewer \in ViewerType /\ NoViewer.pc = "idle"
  BY NothingFits DEF NoViewer
<1>2. /\ viewer' \in [Viewers -> ViewerType] /\ viewer'[v].pc = "idle"
      /\ \A w \in Viewers \ {v} : viewer'[w] = viewer[w]
  BY <1>1 DEF PlayIInv, PlayTypes
<1>3. ASSUME NEW w \in Viewers PROVE Knows(w)'
  BY <1>2 DEF PlayIInv, Knows
<1> QED BY <1>2, <1>3

\* Its key is left with no session by a start that fails.
LEMMA FailKeeps ==
  ASSUME PlayIInv, NEW v \in Viewers, CreateSessionFails(v)
  PROVE  PlayIInv'
<1> DEFINE k == viewer[v].key
<1>1. /\ k \in Keys /\ started \in Nat /\ started' = started /\ viewer[v].pc = "join"
      /\ viewer' = [viewer EXCEPT ![v] = NoViewer] /\ sessions \in [Keys -> SessionType]
      /\ sessions' = [sessions EXCEPT ![k] = NoSession]
  BY DEF CreateSessionFails, PlayIInv, PlayTypes, Knows
<1>2. /\ viewer' \in [Viewers -> ViewerType] /\ viewer'[v].pc = "idle"
      /\ \A w \in Viewers \ {v} : viewer'[w] = viewer[w]
      /\ \A w \in Viewers : Knows(w)'
  BY <1>1, GoneKnowsNothing
<1>3. sessions' = [sessions EXCEPT ![k] = sessions'[k]] /\ sessions'[k] \in SessionType /\ sessions'[k].id = 0
  BY <1>1, NothingFits DEF NoSession
<1>4. /\ sessions' \in [Keys -> SessionType] /\ \A j \in Keys \ {k} : sessions'[j] = sessions[j]
      /\ SessionsSound'
  <2>1. started' \in Nat /\ started' >= started /\ sessions'[k].id <= started' /\ ~(sessions'[k].id > 0)
    BY <1>1, <1>3
  <2> QED BY <1>1, <1>3, <2>1, SessionsKeep
<1>5. DeliveryAsTold'
  BY <1>1, <1>2, <1>3, <1>4, ToldStays
<1>6. activity' \subseteq {w \in Viewers : viewer'[w].pc \in {"answer", "watching"}}
  BY <1>1, <1>2 DEF CreateSessionFails, PlayIInv
<1>7. active' \subseteq DOMAIN Streams
  BY DEF CreateSessionFails, PlayIInv, PlayTypes
<1> QED BY <1>1, <1>2, <1>4, <1>5, <1>6, <1>7 DEF PlayIInv, PlayTypes

\* The viewer is put on the list.
LEMMA ActivityKeeps ==
  ASSUME PlayIInv, NEW v \in Viewers, ActivityAdd(v)
  PROVE  PlayIInv'
<1>1. /\ viewer[v] \in ViewerType /\ started \in Nat /\ viewer[v].pc = "note" /\ started' = started
      /\ viewer \in [Viewers -> ViewerType] /\ viewer[v].session \in 1..started
  BY DEF ActivityAdd, PlayIInv, PlayTypes, Knows
<1>2. /\ viewer' = [viewer EXCEPT ![v] = viewer'[v]] /\ viewer'[v] \in ViewerType /\ viewer'[v].pc = "answer"
      /\ viewer'[v].key = viewer[v].key /\ viewer'[v].asked = viewer[v].asked
      /\ viewer'[v].opts = viewer[v].opts /\ viewer'[v].session = viewer[v].session
  BY <1>1 DEF ActivityAdd, ViewerType, PlayPcs
<1>3. /\ viewer' \in [Viewers -> ViewerType] /\ \A w \in Viewers \ {v} : viewer'[w] = viewer[w]
      /\ \A w \in Viewers : Knows(w)'
  BY <1>1, <1>2, MoveKeeps
<1>4. sessions' = sessions /\ active' = active
  BY DEF ActivityAdd
<1>5. DeliveryAsTold'
  <2> SUFFICES ASSUME NEW w \in Viewers, viewer'[w].pc = "watching" PROVE viewer'[w] = viewer[w]
    BY <1>4 DEF PlayIInv, DeliveryAsTold
  <2> QED BY <1>2, <1>3
<1>6. activity' \subseteq {w \in Viewers : viewer'[w].pc \in {"answer", "watching"}}
  BY <1>2, <1>3 DEF ActivityAdd, PlayIInv
<1> QED BY <1>1, <1>3, <1>4, <1>5, <1>6 DEF PlayIInv, PlayTypes, SessionsSound

\* It is told the delivery of the session that its key has now.
LEMMA AnswerKeeps ==
  ASSUME PlayIInv, NEW v \in Viewers, Answer(v)
  PROVE  PlayIInv'
<1>1. /\ viewer[v] \in ViewerType /\ started \in Nat /\ viewer[v].pc = "answer" /\ started' = started
      /\ viewer \in [Viewers -> ViewerType] /\ viewer[v].session \in 1..started
  BY DEF Answer, PlayIInv, PlayTypes, Knows
<1>2. PlayedAs(sessions[viewer[v].key].opts.delivery) \in {"", "mse", "hls", "stream"}
  BY DEF PlayedAs
<1>3. /\ viewer' = [viewer EXCEPT ![v] = viewer'[v]] /\ viewer'[v] \in ViewerType /\ viewer'[v].pc = "watching"
      /\ viewer'[v].key = viewer[v].key /\ viewer'[v].asked = viewer[v].asked
      /\ viewer'[v].opts = viewer[v].opts /\ viewer'[v].session = viewer[v].session
      /\ viewer'[v].delivery = PlayedAs(sessions[viewer[v].key].opts.delivery)
  BY <1>1, <1>2 DEF Answer, ViewerType, PlayPcs
<1>4. /\ viewer' \in [Viewers -> ViewerType] /\ \A w \in Viewers \ {v} : viewer'[w] = viewer[w]
      /\ \A w \in Viewers : Knows(w)'
  BY <1>1, <1>3, MoveKeeps
<1>5. sessions' = sessions /\ active' = active /\ activity' = activity
  BY DEF Answer
<1>6. DeliveryAsTold'
  BY <1>3, <1>4, <1>5 DEF PlayIInv, DeliveryAsTold
<1>7. activity' \subseteq {w \in Viewers : viewer'[w].pc \in {"answer", "watching"}}
  BY <1>3, <1>4, <1>5 DEF PlayIInv
<1> QED BY <1>1, <1>4, <1>5, <1>6, <1>7 DEF PlayIInv, PlayTypes, SessionsSound

\* A viewer stops, and the session goes with its last consumer.
LEMMA StopKeeps ==
  ASSUME PlayIInv, NEW v \in Viewers, StopWatching(v)
  PROVE  PlayIInv'
<1> DEFINE k == viewer[v].key
<1>1. /\ k \in Keys /\ started \in Nat /\ started' = started /\ viewer[v].pc = "watching"
      /\ viewer' = [viewer EXCEPT ![v] = NoViewer] /\ sessions \in [Keys -> SessionType]
      /\ sessions' = [sessions EXCEPT ![k] = RemoveConsumer(k, v)] /\ sessions[k] \in SessionType
  BY DEF StopWatching, PlayIInv, PlayTypes, Knows
<1>2. /\ viewer' \in [Viewers -> ViewerType] /\ viewer'[v].pc = "idle"
      /\ \A w \in Viewers \ {v} : viewer'[w] = viewer[w]
      /\ \A w \in Viewers : Knows(w)'
  BY <1>1, GoneKnowsNothing
<1>3. sessions' = [sessions EXCEPT ![k] = sessions'[k]] /\ sessions'[k] = RemoveConsumer(k, v)
  BY <1>1
<1>4. /\ sessions'[k] \in SessionType /\ sessions'[k].id <= started
      /\ \/ sessions'[k].id = 0
         \/ /\ sessions'[k].id = sessions[k].id /\ sessions'[k].opts = sessions[k].opts
            /\ sessions[k].consumers # {} => sessions'[k].consumers # {}
  <2>1. CASE v \in sessions[k].consumers /\ sessions[k].consumers = {v}
    BY <1>1, <1>3, <2>1, NothingFits DEF RemoveConsumer, NoSession
  <2>2. CASE ~(v \in sessions[k].consumers /\ sessions[k].consumers = {v})
    <3>1. sessions'[k] = [sessions[k] EXCEPT !.consumers = @ \ {v}]
      BY <1>3, <2>2 DEF RemoveConsumer
    <3>2. sessions[k].id <= started
      BY <1>1 DEF PlayIInv, SessionsSound
    <3> QED BY <1>1, <2>2, <3>1, <3>2 DEF SessionType
  <2> QED BY <2>1, <2>2
<1>5. sessions'[k].id > 0 => Belongs(k, sessions'[k].opts.source) /\ sessions'[k].consumers # {}
  BY <1>1, <1>4 DEF PlayIInv, SessionsSound
<1>6. /\ sessions' \in [Keys -> SessionType] /\ \A j \in Keys \ {k} : sessions'[j] = sessions[j]
      /\ SessionsSound'
  <2>1. started' \in Nat /\ started' >= started /\ sessions'[k].id <= started'
    BY <1>1, <1>4
  <2> QED BY <1>1, <1>3, <1>4, <1>5, <2>1, SessionsKeep
<1>7. DeliveryAsTold'
  <2>1. sessions'[k].id \in Nat
    BY <1>4 DEF SessionType
  <2> QED BY <1>1, <1>2, <1>4, <1>6, <2>1, ToldStays
<1>8. activity' \subseteq {w \in Viewers : viewer'[w].pc \in {"answer", "watching"}}
  BY <1>2 DEF StopWatching, PlayIInv
<1>9. active' \subseteq DOMAIN Streams
  BY DEF StopWatching, PlayIInv, PlayTypes
<1> QED BY <1>1, <1>2, <1>6, <1>7, <1>8, <1>9 DEF PlayIInv, PlayTypes

\* A session that ends by itself stays where it is.
LEMMA DoneKeeps ==
  ASSUME PlayIInv, NEW k \in Keys, SessionDone(k)
  PROVE  PlayIInv'
<1>1. /\ started \in Nat /\ started' = started /\ viewer' = viewer /\ activity' = activity /\ active' = active
      /\ sessions \in [Keys -> SessionType] /\ sessions[k] \in SessionType
  BY DEF SessionDone, PlayIInv, PlayTypes
<1>2. /\ sessions' = [sessions EXCEPT ![k] = sessions'[k]] /\ sessions'[k] \in SessionType
      /\ sessions'[k].id = sessions[k].id /\ sessions'[k].opts = sessions[k].opts
      /\ sessions'[k].consumers = sessions[k].consumers
  BY <1>1 DEF SessionDone, SessionType
<1>3. /\ sessions[k].id <= started
      /\ sessions[k].id > 0 => Belongs(k, sessions[k].opts.source) /\ sessions[k].consumers # {}
  BY DEF PlayIInv, SessionsSound
<1>4. /\ sessions' \in [Keys -> SessionType] /\ \A j \in Keys \ {k} : sessions'[j] = sessions[j]
      /\ SessionsSound'
  BY <1>1, <1>2, <1>3, SessionsKeep
<1>5. DeliveryAsTold'
  <2>1. sessions'[k].id \in Nat
    BY <1>2 DEF SessionType
  <2> QED BY <1>1, <1>2, <1>4, <2>1, ToldStays
<1> QED BY <1>1, <1>4, <1>5 DEF PlayIInv, PlayTypes, Knows

\* Every step keeps the invariant.
LEMMA PlayKeeps == PlayIInv /\ [PlaySteps \/ PlayRequests]_playVars => PlayIInv'
<1> SUFFICES ASSUME PlayIInv, [PlaySteps \/ PlayRequests]_playVars PROVE PlayIInv'
  OBVIOUS
<1>1. CASE PlaySteps
  BY <1>1, JoinKeeps, CreateKeeps, FailKeeps, ActivityKeeps, AnswerKeeps, DoneKeeps DEF PlaySteps
<1>2. ASSUME NEW s \in DOMAIN Streams, SetActive(s) PROVE PlayIInv'
  <2>1. active' \subseteq DOMAIN Streams
    BY <1>2 DEF SetActive, PlayIInv, PlayTypes
  <2> QED BY <1>2, <2>1 DEF SetActive, PlayIInv, PlayTypes, SessionsSound, DeliveryAsTold, Knows
<1>3. ASSUME NEW ch \in DOMAIN Channels, SetEnabled(ch) PROVE PlayIInv'
  BY <1>3 DEF SetEnabled, PlayIInv, PlayTypes, SessionsSound, DeliveryAsTold, Knows
<1>4. ASSUME NEW v \in Viewers, NEW s \in DOMAIN Streams, StartWatchingStreamHLS(v, s) PROVE PlayIInv'
  <2>1. HLSOpts(s) \in AllOpts /\ HLSOpts(s).source = s /\ Belongs(s, s) /\ s \in Sources
    BY DEF AllOpts, HLSOpts, Belongs, Sources
  <2> QED BY <1>4, <2>1, AskKeeps DEF StartWatchingStreamHLS
<1>5. CASE PlayRequests
  BY <1>2, <1>3, <1>4, <1>5, WatchingKeeps, StopKeeps DEF PlayRequests
<1>6. CASE UNCHANGED playVars
  BY <1>6 DEF playVars, PlayIInv, PlayTypes, SessionsSound, DeliveryAsTold, Knows
<1> QED BY <1>1, <1>5, <1>6

-----------------------------------------------------------------------------
(* The promises *)

\* The invariant has all that is promised.
LEMMA PlayPromises == PlayIInv => PlaysAsTold
<1> SUFFICES ASSUME PlayIInv PROVE PlaysAsTold
  OBVIOUS
<1>1. PlayableOutput
  <2>1. \A k \in Keys : sessions[k].opts \in AllOpts
    BY DEF PlayIInv, PlayTypes, SessionType
  <2> QED BY <2>1, OptsPlayable DEF PlayableOutput
<1>2. WatchesAsked
  <2> SUFFICES ASSUME NEW v \in Viewers, viewer[v].pc = "watching",
                      sessions[viewer[v].key].id = viewer[v].session
               PROVE  LET got == sessions[viewer[v].key].opts.source
                          asked == viewer[v].asked
                          k == viewer[v].key
                      IN  \/ got = asked
                          \/ k \in DOMAIN Channels /\ got \in ToSet(Channels[k])
                          \/ asked \in DOMAIN Files /\ got \in DOMAIN Files /\ Files[got].base = Files[asked].base
    BY DEF WatchesAsked
  <2> DEFINE k == viewer[v].key
  <2>1. k \in Keys /\ viewer[v].session \in 1..started /\ Belongs(k, viewer[v].asked) /\ started \in Nat
    BY DEF PlayIInv, PlayTypes, Knows
  <2>2. Belongs(k, sessions[k].opts.source)
    BY <2>1 DEF PlayIInv, SessionsSound
  <2> HIDE DEF k
  <2> QED BY <2>1, <2>2, SameKey DEF k
<1>3. ListedViewersWatch
  BY DEF PlayIInv, SessionsSound, ListedViewersWatch
<1> QED BY <1>1, <1>2, <1>3 DEF PlayIInv, PlaysAsTold

\* Whatever the profiles, streams, channels and files, and however viewers come and
\* go: what runs can be played, and every viewer is told so and watches what it asked for.
THEOREM PlayIsAsTold == PlaySpec => []PlaysAsTold
<1>1. PlaySpec => []PlayIInv
  BY PlayStart, PlayKeeps, PTL DEF PlaySpec
<1> QED BY <1>1, PlayPromises, PTL

-----------------------------------------------------------------------------
(***************************************************************************)
(* The tunnel of the single WireGuard service (WireGuard).  As long as no  *)
(* two actors worked at once, the one at work is the only one that knows   *)
(* more than the settled state.                                            *)
(***************************************************************************)

TunnelPcs == {"free", "set", "close", "check", "closing", "noted", "off", "connect", "up", "print", "store"}
AnyConfig == Configs \cup {NoConfig, NoTunnel}
ActorRec == [pc : TunnelPcs, fp : BOOLEAN \X AnyConfig, tun : Nat \cup {NoTunnel}, conf : AnyConfig]

WireTypes ==
  /\ tunnelEnabled \in BOOLEAN /\ config \in Configs \cup {NoConfig}
  /\ overlapped \in BOOLEAN /\ bootFailed \in BOOLEAN
  /\ tunnel \in Nat \cup {NoTunnel} /\ exitIP \in Nat \cup {NoTunnel}
  /\ lastConfig \in BOOLEAN \X AnyConfig
  /\ made \in Seq(AnyConfig) /\ open \subseteq 1..Len(made) /\ asking \subseteq Nat
  /\ actor \in [Actors -> ActorRec]
  /\ \A a \in Actors : actor[a].pc \in {"print", "store"} => actor[a].tun \in Nat
  /\ \A a \in Actors : actor[a].pc = "set" => actor[a].conf \in Configs

\* What an actor has done so far, as long as it works by itself.
Stage(a) ==
  LET me == actor[a] IN
  /\ me.pc \notin {"print", "store"} => me.tun = NoTunnel
  /\ me.pc \in {"closing", "noted", "off"} => ~tunnelEnabled
  /\ me.pc \in {"noted", "check", "off", "connect", "up", "print", "store"} => tunnel = NoTunnel
  /\ me.pc = "off" => me.fp = <<FALSE, config>>
  /\ me.pc \in {"connect", "up", "print", "store"} => tunnelEnabled
  /\ me.pc \in {"up", "print", "store"} => exitIP = NoTunnel /\ me.conf = config
  /\ me.pc \in {"print", "store"} => me.tun \in open /\ made[me.tun] = me.conf
  /\ me.pc = "store" => me.fp = <<TRUE, config>>

\* What the fingerprint of the last connection tells about the tunnel.
Service ==
  /\ tunnel = NoTunnel /\ lastConfig[1] = TRUE => bootFailed \/ lastConfig[2] = NoConfig
  /\ tunnel # NoTunnel => tunnel \in open /\ lastConfig = <<TRUE, made[tunnel]>>
  /\ tunnel # NoTunnel /\ exitIP # NoTunnel => exitIP = tunnel

OneAtWork == \A a, b \in Actors : a # b /\ actor[a].pc # "free" => actor[b].pc = "free"

Calm ==
  /\ OneAtWork /\ Service
  /\ open \subseteq {tunnel} \cup {actor[a].tun : a \in Actors}
  /\ \A a \in Actors : Stage(a)

WireIInv == WireTypes /\ (~overlapped => Calm)

-----------------------------------------------------------------------------

\* The tunnel of the start, if one could be made, is the service's.
LEMMA WireStart == WireGuardInit => WireIInv
<1> SUFFICES ASSUME WireGuardInit PROVE WireIInv
  OBVIOUS
<1>1. /\ tunnelEnabled \in BOOLEAN /\ config \in Configs \cup {NoConfig}
      /\ lastConfig = <<tunnelEnabled, config>> /\ exitIP = NoTunnel /\ overlapped = FALSE
      /\ actor = [a \in Actors |-> Free]
  BY DEF WireGuardInit, ConfigFingerprint
<1>2. \A a \in Actors : actor[a] = Free
  BY <1>1
<1>3. Free \in ActorRec /\ Free.pc = "free" /\ Free.tun = NoTunnel
  BY DEF Free, ActorRec, TunnelPcs, AnyConfig, NoFingerprint
<1>4. \/ /\ tunnel = NoTunnel /\ made = <<>> /\ open = {} /\ asking = {} /\ bootFailed \in BOOLEAN
         /\ tunnelEnabled => config = NoConfig \/ bootFailed
      \/ tunnel = 1 /\ made = <<config>> /\ open = {1} /\ asking = {1} /\ bootFailed = FALSE /\ tunnelEnabled
  BY DEF WireGuardInit, hasConfig
<1>5. WireTypes
  <2>0. /\ lastConfig \in BOOLEAN \X AnyConfig /\ actor \in [Actors -> ActorRec]
        /\ \A a \in Actors : actor[a].pc = "free"
    BY <1>1, <1>2, <1>3 DEF AnyConfig
  <2>1. CASE tunnel = NoTunnel /\ made = <<>> /\ open = {} /\ asking = {} /\ bootFailed \in BOOLEAN
    <3>1. made \in Seq(AnyConfig)
      BY <2>1
    <3> QED BY <2>0, <2>1, <3>1, <1>1 DEF WireTypes
  <2>2. CASE tunnel = 1 /\ made = <<config>> /\ open = {1} /\ asking = {1} /\ bootFailed = FALSE
    <3>1. made \in Seq(AnyConfig) /\ Len(made) = 1 /\ 1..Len(made) = {1}
      BY <2>2, <1>1 DEF AnyConfig
    <3>2. 1 \in Nat /\ {1} \subseteq 1..Len(made) /\ FALSE \in BOOLEAN
      BY <3>1
    <3> QED BY <2>0, <2>2, <3>1, <3>2, <1>1 DEF WireTypes
  <2> QED BY <1>4, <2>1, <2>2
<1>6. \A a \in Actors : Stage(a)
  BY <1>2, <1>3 DEF Stage
<1>7. OneAtWork
  BY <1>2, <1>3 DEF OneAtWork
<1>8. Service /\ open \subseteq {tunnel}
  <2>1. CASE tunnel = NoTunnel /\ open = {} /\ (tunnelEnabled => config = NoConfig \/ bootFailed)
    BY <2>1, <1>1 DEF Service
  <2>2. CASE tunnel = 1 /\ made = <<config>> /\ open = {1} /\ tunnelEnabled
    <3>1. made[1] = config /\ lastConfig = <<TRUE, config>>
      BY <2>2, <1>1
    <3>2. tunnel # NoTunnel
      BY <2>2, TunnelAssumption
    <3> QED BY <2>2, <3>1, <3>2, <1>1 DEF Service
  <2> QED BY <1>4, <2>1, <2>2
<1> QED BY <1>5, <1>6, <1>7, <1>8 DEF WireIInv, Calm

Resting(a) == \A b \in Actors \ {a} : actor[b].pc = "free"

\* Tunnels have numbers, so that none of them is none.
LEMMA NoTunnelClosed ==
  ASSUME WireTypes
  PROVE  open \subseteq Nat /\ NoTunnel \notin open
<1>1. open \subseteq 1..Len(made) /\ Len(made) \in Nat
  BY DEF WireTypes
<1>2. 1..Len(made) \subseteq Nat
  BY <1>1
<1>3. open \subseteq Nat
  BY <1>1, <1>2
<1> QED BY <1>3, TunnelAssumption

\* While the others rest, an open tunnel is the service's or the actor's.
LEMMA OpenIsOurs ==
  ASSUME WireTypes, Calm, NEW a \in Actors, Resting(a)
  PROVE  open \subseteq {tunnel, actor[a].tun}
<1>1. \A b \in Actors \ {a} : actor[b].tun = NoTunnel
  BY DEF Calm, Stage, Resting
<1>2. NoTunnel \notin open
  BY NoTunnelClosed
<1> QED BY <1>1, <1>2 DEF Calm

\* What is left to show of a step of one actor.
LEMMA CalmAfter ==
  ASSUME WireTypes, Calm, NEW a \in Actors, Resting(a), \A b \in Actors \ {a} : actor'[b] = actor[b],
         Stage(a)', Service', open' \subseteq {tunnel', actor'[a].tun}
  PROVE  Calm'
<1>1. \A b \in Actors \ {a} : actor'[b].pc = "free" /\ actor'[b].tun = NoTunnel
  BY DEF Calm, Stage, Resting
<1>2. \A b \in Actors : Stage(b)'
  BY <1>1 DEF Stage
<1>3. OneAtWork'
  BY <1>1 DEF OneAtWork
<1> QED BY <1>2, <1>3 DEF Calm

\* An actor at work works alone, and so does one that begins.
LEMMA WorksAlone ==
  ASSUME Calm, NEW a \in Actors, actor[a].pc # "free"
  PROVE  Resting(a)
BY DEF Calm, OneAtWork, Resting

\* Whoever begins while another is at work is noted.
LEMMA BeginsAlone ==
  ASSUME WireTypes, NEW a \in Actors, Noted(a), ~overlapped'
  PROVE  ~overlapped /\ Resting(a)
BY DEF WireTypes, Noted, Alone, Resting

\* The service closes its tunnel and knows of no connection any more.
LEMMA Closing ==
  ASSUME WireTypes, closeLocked
  PROVE  /\ tunnel' = NoTunnel /\ open' \subseteq open \ {tunnel}
         /\ lastConfig' \in BOOLEAN \X AnyConfig
         /\ (tunnel # NoTunnel => lastConfig' = <<FALSE, NoTunnel>>) /\ (tunnel = NoTunnel => lastConfig' = lastConfig)
BY DEF closeLocked, WireTypes, NoFingerprint, AnyConfig

-----------------------------------------------------------------------------
(* The steps *)

\* The settings are written one after the other.
LEMMA ConnectSetKeeps ==
  ASSUME WireIInv, NEW a \in Actors, ConnectSet(a)
  PROVE  WireIInv'
<1>1. /\ actor[a].pc = "set" /\ Noted(a)
      /\ UNCHANGED <<tunnel, lastConfig, state, exitIP, open, made, asking, bootFailed>>
  BY DEF ConnectSet, Rest
<1>2. \/ actor' = actor
      \/ actor' = [actor EXCEPT ![a].pc = "close"]
  BY DEF ConnectSet, At
<1>3. tunnelEnabled' \in BOOLEAN /\ config' \in Configs \cup {NoConfig}
  BY <1>1 DEF ConnectSet, Settings, WireIInv, WireTypes
<1>4. overlapped' \in BOOLEAN
  BY <1>1 DEF Noted, Alone, WireIInv, WireTypes
<1>5. WireTypes'
  <2>1. /\ actor' \in [Actors -> ActorRec] /\ actor'[a].pc \in {"set", "close"} /\ actor'[a].conf = actor[a].conf
        /\ \A b \in Actors \ {a} : actor'[b] = actor[b]
    BY <1>1, <1>2 DEF WireIInv, WireTypes, ActorRec, TunnelPcs
  <2>2. \A b \in Actors : /\ actor'[b].pc \in {"print", "store"} => actor'[b].tun \in Nat
                          /\ actor'[b].pc = "set" => actor'[b].conf \in Configs
    BY <2>1, <1>1 DEF WireIInv, WireTypes
  <2> QED BY <2>1, <2>2, <1>1, <1>3, <1>4 DEF WireIInv, WireTypes
<1>6. ASSUME ~overlapped' PROVE Calm'
  <2>1. Calm /\ Resting(a) /\ WireTypes
    BY <1>1, <1>6, BeginsAlone DEF WireIInv
  <2>2. Service' /\ open' \subseteq {tunnel', actor[a].tun}
    BY <2>1, <1>1, OpenIsOurs DEF Calm, Service
  <2>3. actor'[a].pc \in {"set", "close"} /\ actor'[a].tun = actor[a].tun /\ \A b \in Actors \ {a} : actor'[b] = actor[b]
    BY <1>1, <1>2, <2>1 DEF WireTypes, ActorRec
  <2>4. Stage(a)'
    BY <1>1, <2>1, <2>3 DEF Calm, Stage
  <2> QED BY <2>1, <2>2, <2>3, <2>4, CalmAfter
<1> QED BY <1>5, <1>6 DEF WireIInv

\* A request begins: its first step touches neither tunnel nor fingerprint.
LEMMA BeginKeeps ==
  ASSUME WireIInv, NEW a \in Actors, actor[a].pc = "free", Noted(a), config' = config,
         UNCHANGED <<tunnel, lastConfig, exitIP, open, made, asking, bootFailed>>,
         \/ \E c \in Configs : actor' = [actor EXCEPT ![a] = [Free EXCEPT !.pc = "set", !.conf = c]] /\ tunnelEnabled' = tunnelEnabled
         \/ actor' = [actor EXCEPT ![a].pc = "close"] /\ tunnelEnabled' = tunnelEnabled
         \/ actor' = [actor EXCEPT ![a].pc = "closing"] /\ tunnelEnabled' = FALSE
  PROVE  WireIInv'
<1>1. overlapped' \in BOOLEAN
  BY DEF Noted, Alone, WireIInv, WireTypes
<1>2. tunnelEnabled' \in BOOLEAN
  BY DEF WireIInv, WireTypes
<1>3. \A c \in Configs : [Free EXCEPT !.pc = "set", !.conf = c] \in ActorRec
  BY DEF Free, ActorRec, TunnelPcs, AnyConfig, NoFingerprint
<1>4. /\ actor' \in [Actors -> ActorRec] /\ actor'[a].pc \in {"set", "close", "closing"}
      /\ actor'[a].pc = "set" => actor'[a].conf \in Configs
      /\ actor'[a].pc = "closing" => ~tunnelEnabled'
      /\ actor[a].tun = NoTunnel => actor'[a].tun = NoTunnel
      /\ \A b \in Actors \ {a} : actor'[b] = actor[b]
  <2>1. CASE \E c \in Configs : actor' = [actor EXCEPT ![a] = [Free EXCEPT !.pc = "set", !.conf = c]]
    <3>1. PICK c \in Configs : actor' = [actor EXCEPT ![a] = [Free EXCEPT !.pc = "set", !.conf = c]]
      BY <2>1
    <3>2. actor'[a] = [Free EXCEPT !.pc = "set", !.conf = c]
      BY <3>1 DEF WireIInv, WireTypes
    <3>3. actor'[a].pc = "set" /\ actor'[a].conf = c /\ actor'[a].tun = NoTunnel
      BY <3>2 DEF Free
    <3> QED BY <3>1, <3>3, <1>3 DEF WireIInv, WireTypes
  <2>2. CASE actor' = [actor EXCEPT ![a].pc = "close"]
    BY <2>2 DEF WireIInv, WireTypes, ActorRec, TunnelPcs
  <2>3. CASE actor' = [actor EXCEPT ![a].pc = "closing"] /\ tunnelEnabled' = FALSE
    BY <2>3 DEF WireIInv, WireTypes, ActorRec, TunnelPcs
  <2> QED BY <2>1, <2>2, <2>3
<1>5. WireTypes'
  BY <1>1, <1>2, <1>4 DEF WireIInv, WireTypes
<1>6. ASSUME ~overlapped' PROVE Calm'
  <2>1. Calm /\ Resting(a) /\ WireTypes
    BY <1>6, BeginsAlone DEF WireIInv
  <2>2. actor[a].tun = NoTunnel
    BY <2>1 DEF Calm, Stage
  <2>3. Service' /\ open' \subseteq {tunnel', actor'[a].tun}
    BY <2>1, <2>2, <1>4, OpenIsOurs DEF Calm, Service
  <2>4. Stage(a)'
    BY <2>2, <1>4 DEF Stage
  <2> QED BY <2>1, <2>3, <2>4, <1>4, CalmAfter
<1> QED BY <1>5, <1>6 DEF WireIInv

\* A setting that is changed while nobody works is seen by the next to begin.
LEMMA ChangeSettingKeeps ==
  ASSUME WireIInv, NEW on \in BOOLEAN, NEW c \in Configs \cup {NoConfig}, ChangeSetting(on, c)
  PROVE  WireIInv'
<1>1. /\ tunnelEnabled' = on /\ config' = c
      /\ overlapped' = (overlapped \/ \E a \in Actors : actor[a].pc # "free")
      /\ UNCHANGED <<tunnel, lastConfig, state, exitIP, open, actor, made, asking, bootFailed>>
  BY DEF ChangeSetting, Rest
<1>2. overlapped' \in BOOLEAN
  BY <1>1 DEF WireIInv, WireTypes
<1>3. WireTypes'
  BY <1>1, <1>2 DEF WireIInv, WireTypes
<1>4. ASSUME ~overlapped' PROVE Calm'
  <2>1. Calm /\ \A a \in Actors : actor[a].pc = "free"
    BY <1>1, <1>4 DEF WireIInv
  <2>2. \A a \in Actors : Stage(a)'
    BY <2>1, <1>1 DEF Calm, Stage
  <2> QED BY <2>1, <2>2, <1>1 DEF Calm, OneAtWork, Service
<1> QED BY <1>3, <1>4 DEF WireIInv

\* The service's tunnel is closed, by a request that disconnects or reconfigures.
LEMMA CloseKeeps ==
  ASSUME WireIInv, NEW a \in Actors, ReconfigureClose(a) \/ DisconnectClose(a)
  PROVE  WireIInv'
<1> DEFINE l == IF actor[a].pc = "close" THEN "check" ELSE "noted"
<1>1. /\ actor[a].pc \in {"close", "closing"} /\ closeLocked
      /\ actor' = [actor EXCEPT ![a].pc = l] /\ exitIP' \in {exitIP, NoTunnel}
      /\ UNCHANGED <<tunnelEnabled, config, made, asking, bootFailed, overlapped>>
  BY DEF ReconfigureClose, DisconnectClose, At, Settings, Rest
<1>2. l = (IF actor[a].pc = "close" THEN "check" ELSE "noted") /\ l \in {"check", "noted"}
  OBVIOUS
<1> HIDE DEF l
<1>3. WireTypes
  BY DEF WireIInv
<1>4. /\ tunnel' = NoTunnel /\ open' \subseteq open \ {tunnel} /\ lastConfig' \in BOOLEAN \X AnyConfig
      /\ (tunnel # NoTunnel => lastConfig' = <<FALSE, NoTunnel>>) /\ (tunnel = NoTunnel => lastConfig' = lastConfig)
  BY <1>1, <1>3, Closing
<1>5. /\ actor' \in [Actors -> ActorRec] /\ actor'[a].pc = l /\ actor'[a].tun = actor[a].tun
      /\ \A b \in Actors \ {a} : actor'[b] = actor[b]
  <2>1. actor[a] \in ActorRec /\ actor \in [Actors -> ActorRec] /\ l \in TunnelPcs
    BY <1>2, <1>3 DEF WireTypes, TunnelPcs
  <2>2. [actor[a] EXCEPT !.pc = l] \in ActorRec /\ [actor[a] EXCEPT !.pc = l].pc = l
        /\ [actor[a] EXCEPT !.pc = l].tun = actor[a].tun
    BY <2>1 DEF ActorRec
  <2>3. actor'[a] = [actor[a] EXCEPT !.pc = l]
    BY <1>1, <2>1
  <2> QED BY <1>1, <2>1, <2>2, <2>3
<1>6. WireTypes'
  <2>1. tunnel' \in Nat \cup {NoTunnel} /\ exitIP' \in Nat \cup {NoTunnel} /\ open' \subseteq 1..Len(made')
    BY <1>1, <1>3, <1>4 DEF WireTypes
  <2>2. \A b \in Actors : actor'[b].pc \in {"print", "store"} => actor'[b].tun \in Nat
    BY <1>2, <1>3, <1>5 DEF WireTypes
  <2>3. \A b \in Actors : actor'[b].pc = "set" => actor'[b].conf \in Configs
    BY <1>2, <1>3, <1>5 DEF WireTypes
  <2> QED BY <2>1, <2>2, <2>3, <1>1, <1>3, <1>4, <1>5 DEF WireTypes
<1>7. ASSUME ~overlapped' PROVE Calm'
  <2>1. Calm /\ Resting(a)
    BY <1>1, <1>7, WorksAlone DEF WireIInv
  <2>2. actor[a].tun = NoTunnel
    BY <2>1, <1>1 DEF Calm, Stage
  <2>6. open \subseteq {tunnel, NoTunnel} /\ NoTunnel \notin open
    BY <2>1, <2>2, <1>3, OpenIsOurs, NoTunnelClosed
  <2>3. open' = {}
    BY <2>6, <1>4
  <2>4. Service'
    <3>1. tunnel # NoTunnel => lastConfig'[1] = FALSE
      <4>1. <<FALSE, NoTunnel>>[1] = FALSE
        OBVIOUS
      <4> QED BY <4>1, <1>4
    <3>2. tunnel = NoTunnel => (lastConfig'[1] = TRUE => bootFailed' \/ lastConfig'[2] = NoConfig)
      BY <2>1, <1>1, <1>4 DEF Calm, Service
    <3> QED BY <3>1, <3>2, <1>4 DEF Service
  <2>5. Stage(a)'
    <3>1. (actor[a].pc = "closing" => ~tunnelEnabled') /\ (l = "noted" => actor[a].pc = "closing")
      BY <2>1, <1>1, <1>2 DEF Calm, Stage
    <3> QED BY <2>2, <3>1, <1>2, <1>4, <1>5 DEF Stage
  <2> QED BY <2>1, <2>3, <2>4, <2>5, <1>3, <1>5, CalmAfter
<1> QED BY <1>6, <1>7 DEF WireIInv

\* A disconnect and a reconfiguration that found the tunnel switched off note the
\* settings they leave.
LEMMA NoteKeeps ==
  ASSUME WireIInv, NEW a \in Actors, DisconnectNote(a) \/ ReconfigureOff(a)
  PROVE  WireIInv'
<1>1. /\ actor[a].pc \in {"noted", "off"} /\ actor' = [actor EXCEPT ![a] = Free] /\ bootFailed' = FALSE
      /\ lastConfig' = IF actor[a].pc = "off" THEN actor[a].fp ELSE <<tunnelEnabled, config>>
      /\ UNCHANGED <<tunnelEnabled, config, tunnel, exitIP, open, made, asking, overlapped>>
  BY DEF DisconnectNote, ReconfigureOff, Done, Settings, ConfigFingerprint
<1>2. WireTypes /\ actor[a] \in ActorRec
  BY DEF WireIInv, WireTypes
<1>3. Free \in ActorRec /\ Free.pc = "free" /\ Free.tun = NoTunnel
  BY DEF Free, ActorRec, TunnelPcs, AnyConfig, NoFingerprint
<1>4. actor' \in [Actors -> ActorRec] /\ actor'[a] = Free /\ \A b \in Actors \ {a} : actor'[b] = actor[b]
  BY <1>1, <1>2, <1>3 DEF WireTypes
<1>5. lastConfig' \in BOOLEAN \X AnyConfig
  <2>1. actor[a].fp \in BOOLEAN \X AnyConfig /\ <<tunnelEnabled, config>> \in BOOLEAN \X AnyConfig
    BY <1>2 DEF WireTypes, ActorRec, AnyConfig
  <2> QED BY <2>1, <1>1
<1>6. WireTypes'
  BY <1>1, <1>2, <1>3, <1>4, <1>5 DEF WireTypes
<1>7. ASSUME ~overlapped' PROVE Calm'
  <2>1. Calm /\ Resting(a)
    BY <1>1, <1>7, WorksAlone DEF WireIInv
  <2>2. /\ actor[a].tun = NoTunnel /\ tunnel = NoTunnel /\ ~tunnelEnabled
        /\ actor[a].pc = "off" => actor[a].fp = <<FALSE, config>>
    BY <2>1, <1>1 DEF Calm, Stage
  <2>3. lastConfig'[1] = FALSE
    <3>1. <<FALSE, config>>[1] = FALSE /\ <<tunnelEnabled, config>>[1] = FALSE
      BY <2>2, <1>2 DEF WireTypes
    <3> QED BY <3>1, <2>2, <1>1
  <2>4. Service' /\ open' \subseteq {tunnel', NoTunnel}
    BY <2>1, <2>2, <2>3, <1>1, <1>2, OpenIsOurs DEF Service
  <2>5. Stage(a)'
    BY <1>3, <1>4 DEF Stage
  <2> QED BY <2>1, <2>4, <2>5, <1>2, <1>3, <1>4, CalmAfter
<1> QED BY <1>6, <1>7 DEF WireIInv

\* A reconfiguration reads the settings, and goes on to connect if they ask for
\* a tunnel.
LEMMA ReconfigureKeeps ==
  ASSUME WireIInv, NEW a \in Actors, Reconfigure(a)
  PROVE  WireIInv'
<1> DEFINE l == IF tunnelEnabled THEN "connect" ELSE "off"
           fp == <<tunnelEnabled, config>>
<1>1. /\ actor[a].pc = "check" /\ actor' = [actor EXCEPT ![a].fp = fp, ![a].pc = l]
      /\ UNCHANGED <<tunnelEnabled, config, tunnel, lastConfig, exitIP, open, made, asking, bootFailed, overlapped>>
  BY DEF Reconfigure, Settings, Rest, ConfigFingerprint
<1>2. WireTypes /\ actor[a] \in ActorRec
  BY DEF WireIInv, WireTypes
<1>3. fp \in BOOLEAN \X AnyConfig /\ l \in {"connect", "off"} /\ (l = "connect" <=> tunnelEnabled)
      /\ (~tunnelEnabled => fp = <<FALSE, config>>)
  BY <1>2 DEF WireTypes, AnyConfig
<1> HIDE DEF l, fp
<1>4. /\ actor' \in [Actors -> ActorRec] /\ actor'[a].pc = l /\ actor'[a].tun = actor[a].tun /\ actor'[a].fp = fp
      /\ \A b \in Actors \ {a} : actor'[b] = actor[b]
  BY <1>1, <1>2, <1>3 DEF WireTypes, ActorRec, TunnelPcs
<1>5. WireTypes'
  BY <1>1, <1>2, <1>3, <1>4 DEF WireTypes
<1>6. ASSUME ~overlapped' PROVE Calm'
  <2>1. Calm /\ Resting(a)
    BY <1>1, <1>6, WorksAlone DEF WireIInv
  <2>2. Service' /\ open' \subseteq {tunnel', actor'[a].tun}
    BY <2>1, <1>1, <1>2, <1>4, OpenIsOurs DEF Calm, Service
  <2>3. Stage(a)'
    BY <2>1, <1>1, <1>3, <1>4 DEF Calm, Stage
  <2> QED BY <2>1, <2>2, <2>3, <1>2, <1>4, CalmAfter
<1> QED BY <1>5, <1>6 DEF WireIInv

\* The configuration is read when the connection begins.
LEMMA doConnectKeeps ==
  ASSUME WireIInv, NEW a \in Actors, doConnect(a)
  PROVE  WireIInv'
<1>1. /\ actor[a].pc = "connect" /\ actor' = [actor EXCEPT ![a].pc = "up", ![a].conf = config] /\ exitIP' = NoTunnel
      /\ UNCHANGED <<tunnelEnabled, config, tunnel, lastConfig, open, made, asking, bootFailed, overlapped>>
  BY DEF doConnect, Settings, Rest
<1>2. WireTypes /\ actor[a] \in ActorRec /\ config \in AnyConfig
  BY DEF WireIInv, WireTypes, AnyConfig
<1>3. /\ actor' \in [Actors -> ActorRec] /\ actor'[a].pc = "up" /\ actor'[a].tun = actor[a].tun /\ actor'[a].conf = config
      /\ \A b \in Actors \ {a} : actor'[b] = actor[b]
  BY <1>1, <1>2 DEF WireTypes, ActorRec, TunnelPcs
<1>4. WireTypes'
  BY <1>1, <1>2, <1>3 DEF WireTypes
<1>5. ASSUME ~overlapped' PROVE Calm'
  <2>1. Calm /\ Resting(a)
    BY <1>1, <1>5, WorksAlone DEF WireIInv
  <2>2. Service' /\ open' \subseteq {tunnel', actor'[a].tun}
    BY <2>1, <1>1, <1>2, <1>3, OpenIsOurs DEF Calm, Service
  <2>3. Stage(a)'
    BY <2>1, <1>1, <1>3 DEF Calm, Stage
  <2> QED BY <2>1, <2>2, <2>3, <1>2, <1>3, CalmAfter
<1> QED BY <1>4, <1>5 DEF WireIInv

\* Without a tunnel the fingerprint stays what it was.
LEMMA TunnelFailsKeeps ==
  ASSUME WireIInv, NEW a \in Actors, TunnelFails(a)
  PROVE  WireIInv'
<1>1. /\ actor[a].pc = "up" /\ actor' = [actor EXCEPT ![a] = Free]
      /\ UNCHANGED <<tunnelEnabled, config, tunnel, lastConfig, exitIP, open, made, asking, bootFailed, overlapped>>
  BY DEF TunnelFails, Done, Settings, Rest
<1>2. WireTypes
  BY DEF WireIInv
<1>3. Free \in ActorRec /\ Free.pc = "free" /\ Free.tun = NoTunnel
  BY DEF Free, ActorRec, TunnelPcs, AnyConfig, NoFingerprint
<1>4. actor' \in [Actors -> ActorRec] /\ actor'[a] = Free /\ \A b \in Actors \ {a} : actor'[b] = actor[b]
  BY <1>1, <1>2, <1>3 DEF WireTypes
<1>5. WireTypes'
  BY <1>1, <1>2, <1>3, <1>4 DEF WireTypes
<1>6. ASSUME ~overlapped' PROVE Calm'
  <2>1. Calm /\ Resting(a)
    BY <1>1, <1>6, WorksAlone DEF WireIInv
  <2>2. actor[a].tun = NoTunnel
    BY <2>1, <1>1 DEF Calm, Stage
  <2>3. Service' /\ open' \subseteq {tunnel', actor'[a].tun}
    BY <2>1, <2>2, <1>1, <1>2, <1>3, <1>4, OpenIsOurs DEF Calm, Service
  <2>4. Stage(a)'
    BY <1>3, <1>4 DEF Stage
  <2> QED BY <2>1, <2>3, <2>4, <1>2, <1>4, CalmAfter
<1> QED BY <1>5, <1>6 DEF WireIInv

\* A new tunnel is its maker's until it is stored.
LEMMA NewTunnelKeeps ==
  ASSUME WireIInv, NEW a \in Actors, NewTunnel(a)
  PROVE  WireIInv'
<1> DEFINE t == Len(made) + 1
<1>1. /\ actor[a].pc = "up" /\ made' = Append(made, actor[a].conf) /\ open' = open \cup {t}
      /\ actor' = [actor EXCEPT ![a].pc = "print", ![a].tun = t]
      /\ UNCHANGED <<tunnelEnabled, config, tunnel, lastConfig, exitIP, asking, bootFailed, overlapped>>
  BY DEF NewTunnel, Settings
<1>2. WireTypes /\ actor[a] \in ActorRec /\ actor[a].conf \in AnyConfig
  BY DEF WireIInv, WireTypes, ActorRec
<1>3. /\ made' \in Seq(AnyConfig) /\ Len(made') = t /\ t \in Nat /\ 1..Len(made) \subseteq 1..t /\ t \in 1..t
      /\ made'[t] = actor[a].conf /\ \A i \in 1..Len(made) : made'[i] = made[i]
  BY <1>1, <1>2 DEF WireTypes
<1> HIDE DEF t
<1>4. /\ actor' \in [Actors -> ActorRec] /\ actor'[a].pc = "print" /\ actor'[a].tun = t /\ actor'[a].conf = actor[a].conf
      /\ \A b \in Actors \ {a} : actor'[b] = actor[b]
  BY <1>1, <1>2, <1>3 DEF WireTypes, ActorRec, TunnelPcs
<1>5. WireTypes'
  BY <1>1, <1>2, <1>3, <1>4 DEF WireTypes
<1>6. ASSUME ~overlapped' PROVE Calm'
  <2>1. Calm /\ Resting(a)
    BY <1>1, <1>6, WorksAlone DEF WireIInv
  <2>2. actor[a].tun = NoTunnel /\ tunnel = NoTunnel
    BY <2>1, <1>1 DEF Calm, Stage
  <2>3. open = {}
    BY <2>1, <2>2, <1>2, OpenIsOurs, NoTunnelClosed
  <2>4. Service'
    BY <2>1, <2>2, <1>1 DEF Calm, Service
  <2>5. Stage(a)'
    <3>1. tunnelEnabled /\ exitIP = NoTunnel /\ actor[a].conf = config
      BY <2>1, <1>1 DEF Calm, Stage
    <3>2. t \in open' /\ made'[t] = actor[a].conf
      BY <1>1, <1>3
    <3> QED BY <2>2, <3>1, <3>2, <1>1, <1>4 DEF Stage
  <2> QED BY <2>1, <2>3, <2>4, <2>5, <1>1, <1>2, <1>4, CalmAfter
<1> QED BY <1>5, <1>6 DEF WireIInv

\* The fingerprint that is noted is that of the tunnel's configuration.
LEMMA ReadFingerprintKeeps ==
  ASSUME WireIInv, NEW a \in Actors, ReadFingerprint(a)
  PROVE  WireIInv'
<1> DEFINE fp == <<tunnelEnabled, config>>
<1>1. /\ actor[a].pc = "print" /\ actor' = [actor EXCEPT ![a].pc = "store", ![a].fp = fp]
      /\ UNCHANGED <<tunnelEnabled, config, tunnel, lastConfig, exitIP, open, made, asking, bootFailed, overlapped>>
  BY DEF ReadFingerprint, Settings, Rest, ConfigFingerprint
<1>2. WireTypes /\ actor[a] \in ActorRec
  BY DEF WireIInv, WireTypes
<1>3. fp \in BOOLEAN \X AnyConfig /\ (tunnelEnabled => fp = <<TRUE, config>>)
  BY <1>2 DEF WireTypes, AnyConfig
<1> HIDE DEF fp
<1>4. /\ actor' \in [Actors -> ActorRec] /\ actor'[a].pc = "store" /\ actor'[a].tun = actor[a].tun
      /\ actor'[a].conf = actor[a].conf /\ actor'[a].fp = fp
      /\ \A b \in Actors \ {a} : actor'[b] = actor[b]
  BY <1>1, <1>2, <1>3 DEF WireTypes, ActorRec, TunnelPcs
<1>5. WireTypes'
  BY <1>1, <1>2, <1>4 DEF WireTypes
<1>6. ASSUME ~overlapped' PROVE Calm'
  <2>1. Calm /\ Resting(a)
    BY <1>1, <1>6, WorksAlone DEF WireIInv
  <2>2. Service' /\ open' \subseteq {tunnel', actor'[a].tun}
    BY <2>1, <1>1, <1>2, <1>4, OpenIsOurs DEF Calm, Service
  <2>3. /\ tunnel = NoTunnel /\ tunnelEnabled /\ exitIP = NoTunnel /\ actor[a].conf = config
        /\ actor[a].tun \in open /\ made[actor[a].tun] = actor[a].conf
    BY <2>1, <1>1 DEF Calm, Stage
  <2>4. Stage(a)'
    <3>1. actor'[a].fp = <<TRUE, config>>
      BY <2>3, <1>3, <1>4
    <3>2. actor'[a].conf = config /\ actor'[a].tun \in open' /\ made'[actor'[a].tun] = actor'[a].conf
      BY <2>3, <1>1, <1>4
    <3> QED BY <2>3, <3>1, <3>2, <1>1, <1>4 DEF Stage
  <2> QED BY <2>1, <2>2, <2>4, <1>2, <1>4, CalmAfter
<1> QED BY <1>5, <1>6 DEF WireIInv

\* The tunnel that is stored is the one that is open: the service had none.
LEMMA StoreTunnelKeeps ==
  ASSUME WireIInv, NEW a \in Actors, StoreTunnel(a)
  PROVE  WireIInv'
<1>1. /\ actor[a].pc = "store" /\ actor' = [actor EXCEPT ![a] = Free] /\ bootFailed' = FALSE
      /\ tunnel' = actor[a].tun /\ lastConfig' = actor[a].fp /\ asking' = asking \cup {actor[a].tun}
      /\ UNCHANGED <<tunnelEnabled, config, exitIP, open, made, overlapped>>
  BY DEF StoreTunnel, Done, Settings
<1>2. WireTypes /\ actor[a] \in ActorRec /\ actor[a].tun \in Nat /\ actor[a].fp \in BOOLEAN \X AnyConfig
  BY <1>1 DEF WireIInv, WireTypes, ActorRec
<1>3. Free \in ActorRec /\ Free.pc = "free" /\ Free.tun = NoTunnel
  BY DEF Free, ActorRec, TunnelPcs, AnyConfig, NoFingerprint
<1>4. actor' \in [Actors -> ActorRec] /\ actor'[a] = Free /\ \A b \in Actors \ {a} : actor'[b] = actor[b]
  BY <1>1, <1>2, <1>3 DEF WireTypes
<1>5. WireTypes'
  BY <1>1, <1>2, <1>3, <1>4 DEF WireTypes
<1>6. ASSUME ~overlapped' PROVE Calm'
  <2>1. Calm /\ Resting(a)
    BY <1>1, <1>6, WorksAlone DEF WireIInv
  <2>2. /\ tunnel = NoTunnel /\ exitIP = NoTunnel /\ actor[a].tun \in open
        /\ made[actor[a].tun] = config /\ actor[a].fp = <<TRUE, config>>
    BY <2>1, <1>1 DEF Calm, Stage
  <2>3. Service'
    BY <2>2, <1>1, <1>2, TunnelAssumption DEF Service
  <2>4. open' \subseteq {tunnel'}
    BY <2>1, <2>2, <1>1, <1>2, OpenIsOurs, NoTunnelClosed
  <2>5. Stage(a)'
    BY <1>3, <1>4 DEF Stage
  <2> QED BY <2>1, <2>3, <2>4, <2>5, <1>2, <1>4, CalmAfter
<1> QED BY <1>5, <1>6 DEF WireIInv

\* A late answer for a tunnel that is gone is not shown.
LEMMA fetchExitIPKeeps ==
  ASSUME WireIInv, NEW t \in asking, fetchExitIP(t)
  PROVE  WireIInv'
<1>1. /\ asking' = asking \ {t} /\ exitIP' \in {exitIP, IF tunnel = t THEN t ELSE exitIP}
      /\ UNCHANGED <<tunnelEnabled, config, tunnel, lastConfig, open, made, actor, bootFailed, overlapped>>
  BY DEF fetchExitIP, ForTunnel, Settings
<1>2. t \in Nat
  BY DEF WireIInv, WireTypes
<1>3. WireTypes'
  BY <1>1, <1>2 DEF WireIInv, WireTypes
<1>4. ASSUME ~overlapped' PROVE Calm'
  <2>1. Calm
    BY <1>1, <1>4 DEF WireIInv
  <2>2. tunnel = NoTunnel => exitIP' = exitIP
    BY <1>1, <1>2, TunnelAssumption
  <2>3. \A a \in Actors : Stage(a)'
    BY <2>1, <2>2, <1>1 DEF Calm, Stage
  <2>4. Service'
    BY <2>1, <2>2, <1>1 DEF Calm, Service
  <2> QED BY <2>1, <2>3, <2>4, <1>1 DEF Calm, OneAtWork
<1> QED BY <1>3, <1>4 DEF WireIInv

-----------------------------------------------------------------------------

\* Each step of the service keeps the invariant.
LEMMA WireKeeps ==
  ASSUME WireIInv, [WireGuardSteps \/ WireGuardRequests]_wgVars
  PROVE  WireIInv'
<1>1. ASSUME NEW a \in Actors, NEW c \in Configs, Connect(a, c) PROVE WireIInv'
  BY <1>1, BeginKeeps DEF Connect, Noted, Settings, Rest
<1>2. ASSUME NEW a \in Actors, Reconnect(a) PROVE WireIInv'
  BY <1>2, BeginKeeps DEF Reconnect, At, Settings, Rest
<1>3. ASSUME NEW a \in Actors, Disconnect(a) PROVE WireIInv'
  BY <1>3, BeginKeeps DEF Disconnect, At, Settings, Rest
<1>4. ASSUME UNCHANGED wgVars PROVE WireIInv'
  <2>1. WireTypes' <=> WireTypes
    BY <1>4 DEF wgVars, WireTypes
  <2>2. (\A a \in Actors : Stage(a)') <=> (\A a \in Actors : Stage(a))
    BY <1>4 DEF wgVars, Stage
  <2>3. (Service' <=> Service) /\ (OneAtWork' <=> OneAtWork)
    BY <1>4 DEF wgVars, Service, OneAtWork
  <2> QED BY <2>1, <2>2, <2>3, <1>4 DEF wgVars, WireIInv, Calm
<1>5. CASE WireGuardSteps
  BY <1>2, <1>5, ConnectSetKeeps, CloseKeeps, NoteKeeps, ReconfigureKeeps, doConnectKeeps, TunnelFailsKeeps,
     NewTunnelKeeps, ReadFingerprintKeeps, StoreTunnelKeeps, fetchExitIPKeeps DEF WireGuardSteps, SyncIfChanged
<1>6. CASE WireGuardRequests
  BY <1>1, <1>2, <1>3, <1>6, ChangeSettingKeeps DEF WireGuardRequests
<1> QED BY <1>4, <1>5, <1>6

\* The promises of the service are part of the invariant.
LEMMA WirePromises == WireIInv => TunnelSound
<1> SUFFICES ASSUME WireIInv PROVE TunnelSound
  OBVIOUS
<1>1. NoLeakedTunnel /\ ExitAddressCurrent
  BY DEF WireIInv, Calm, Service, NoLeakedTunnel, ExitAddressCurrent
<1>2. SettledIsCurrent
  <2> SUFFICES ASSUME ConfigFingerprint = lastConfig, ~overlapped
               PROVE  IF tunnel = NoTunnel THEN ~tunnelEnabled \/ ~hasConfig \/ bootFailed
                      ELSE tunnelEnabled /\ made[tunnel] = config /\ tunnel \in open
    BY DEF SettledIsCurrent
  <2>1. Service /\ lastConfig = <<tunnelEnabled, config>> /\ tunnelEnabled \in BOOLEAN
    BY DEF WireIInv, WireTypes, Calm, ConfigFingerprint
  <2>2. CASE tunnel = NoTunnel
    <3>1. lastConfig[1] = tunnelEnabled /\ lastConfig[2] = config
      BY <2>1
    <3> QED BY <2>1, <2>2, <3>1 DEF Service, hasConfig
  <2>3. CASE tunnel # NoTunnel
    <3>1. <<tunnelEnabled, config>> = <<TRUE, made[tunnel]>> /\ tunnel \in open
      BY <2>1, <2>3 DEF Service
    <3>2. tunnelEnabled = TRUE /\ config = made[tunnel]
      BY <3>1
    <3> QED BY <2>3, <3>1, <3>2
  <2> QED BY <2>2, <2>3
<1> QED BY <1>1, <1>2 DEF TunnelSound

\* In every reachable state the service knows its open tunnels, a settled one
\* runs what the settings say, and the exit address shown is that of the tunnel.
THEOREM TunnelIsSound == WireGuardSpec => []TunnelSound
<1>1. WireGuardInit => WireIInv
  BY WireStart
<1>2. WireIInv /\ [WireGuardSteps \/ WireGuardRequests]_wgVars => WireIInv'
  BY WireKeeps
<1>3. WireIInv => TunnelSound
  BY WirePromises
<1> QED BY <1>1, <1>2, <1>3, PTL DEF WireGuardSpec

-----------------------------------------------------------------------------
(***************************************************************************)
(* The library of recordings (RecordingLibrary).                           *)
(***************************************************************************)

Stages == {"idle", "recording", "move", "copy", "meta", "clean"}
Completions == [pc : Stages, name : Names \cup {<<>>}]

\* What the variables hold.
LibTypes ==
  /\ files \in [Names -> Nat]
  /\ meta \in [Metas -> Users \cup {Nobody}]
  /\ owner \in Seq(Users)
  /\ activeDir \subseteq 1 .. Len(owner)
  /\ \A n \in Names : files[n] <= Len(owner)
  /\ completer \in [Ids -> Completions]

\* Who completes has begun, and has chosen a name before it moves the file.
Named ==
  \A i \in Ids :
    /\ completer[i].pc # "idle" => i <= Len(owner)
    /\ completer[i].pc \in {"move", "copy", "meta", "clean"} =>
         completer[i].name \in Names /\ completer[i].name[1] = "recorded"

\* A completion that moves or copies its file is on its way to that name.
Moving(i) == completer[i].pc \in {"move", "copy"}

\* The name that a completion has chosen is free until its file is there, and
\* nobody else's, unless two have chosen it.
NameTaken ==
  \A i \in Ids : Moving(i) /\ completer[i].name \notin collided =>
    /\ \A j \in Ids : Moving(j) /\ completer[j].name = completer[i].name => j = i
    /\ completer[i].pc = "move" => files[completer[i].name] = 0
    /\ completer[i].pc = "copy" => files[completer[i].name] \in {0, i}

\* The metadata of a file whose completion is through is its owner's.
Pending(n) == \E i \in Ids : completer[i].pc \in {"copy", "meta"} /\ completer[i].name = n
MetaRight ==
  \A n \in Names :
    n[1] = "recorded" /\ files[n] # 0 /\ n \notin faulted /\ ~Pending(n) /\ meta[<<n[1], n[2]>>] # Nobody
    => meta[<<n[1], n[2]>>] = owner[files[n]]

\* A recording in a directory that is about to be removed began after it was
\* looked at.
LaterSession ==
  \A d \in Deleters : deleter[d].pc = "rmdir" =>
    /\ deleter[d].saw \in 0 .. Len(owner)
    /\ \A i \in activeDir : deleter[d].saw < i

\* Recordings that are under way together, or beside a recovery, are crossed.
Together ==
  \A i \in Unfinished : recover # "no" \/ (\E j \in Unfinished : j # i) => i \in crossed

\* Deletions work for those who sent them.
DeletersTyped ==
  deleter \in [Deleters -> [pc : {"idle", "file", "meta", "look", "rmdir"},
                            base : {BaseNames[i] : i \in DOMAIN BaseNames} \cup {""},
                            ext : Exts \cup {""}, saw : Nat]]

LibIInv == LibTypes /\ Named /\ NameTaken /\ MetaRight /\ LaterSession /\ Together /\ DeletersTyped

\* The library begins so.
LEMMA LibStart == LibInit => LibIInv
<1> SUFFICES ASSUME LibInit PROVE LibIInv
  OBVIOUS
<1> USE DEF LibInit
<1>1. completer \in [Ids -> Completions] /\ (\A i \in Ids : completer[i].pc = "idle")
  BY DEF NoCompletion, Completions, Stages
<1>2. DeletersTyped /\ (\A d \in Deleters : deleter[d].pc = "idle")
  BY DEF DeletersTyped, NoDelete
<1>3. /\ files \in [Names -> Nat] /\ (\A n \in Names : files[n] <= Len(owner))
      /\ meta \in [Metas -> Users \cup {Nobody}] /\ owner \in Seq(Users)
      /\ \A n \in Names : n[1] = "recorded" => files[n] = 0
  <2>1. CASE files = NoFiles /\ meta = NoMeta /\ owner = << >>
    BY <2>1 DEF NoFiles, NoMeta
  <2>2. ASSUME NEW u \in Users, NEW e \in Exts,
               files = [NoFiles EXCEPT ![<<"recording", BaseNames[1], e>>] = 1],
               meta = [NoMeta EXCEPT ![<<"recording", BaseNames[1]>>] = u],
               owner = <<u>>
        PROVE  /\ files \in [Names -> Nat] /\ (\A n \in Names : files[n] <= Len(owner))
               /\ meta \in [Metas -> Users \cup {Nobody}] /\ owner \in Seq(Users)
               /\ \A n \in Names : n[1] = "recorded" => files[n] = 0
    <3>1. owner \in Seq(Users) /\ Len(owner) = 1
      BY <2>2
    <3>2. files \in [Names -> Nat] /\ (\A n \in Names : files[n] \in {0, 1})
      BY <2>2 DEF NoFiles
    <3>3. meta \in [Metas -> Users \cup {Nobody}]
      BY <2>2 DEF NoMeta
    <3>4. ASSUME NEW n \in Names, n[1] = "recorded" PROVE files[n] = 0
      <4>1. n # <<"recording", BaseNames[1], e>>
        BY <3>4
      <4> QED BY <2>2, <4>1 DEF NoFiles
    <3> QED BY <3>1, <3>2, <3>3, <3>4
  <2> QED BY <2>1, <2>2
<1>4. LibTypes
  BY <1>1, <1>3 DEF LibTypes
<1>5. Named /\ NameTaken /\ Together
  BY <1>1 DEF Named, NameTaken, Moving, Together, Unfinished
<1>6. MetaRight /\ LaterSession
  BY <1>2, <1>3 DEF MetaRight, LaterSession
<1> QED BY <1>2, <1>4, <1>5, <1>6 DEF LibIInv

\* A completion goes on to its next stage with its name, or ends; the others
\* stay where they are.
LEMMA GoesTo ==
  ASSUME LibTypes, NEW i \in Ids, NEW from, NEW to \in Stages, Complete(i, from, to)
  PROVE  /\ completer' \in [Ids -> Completions] /\ completer[i].pc = from
         /\ completer'[i].pc = to /\ completer'[i].name = completer[i].name
         /\ \A j \in Ids \ {i} : completer'[j] = completer[j]
<1>1. completer' = [completer EXCEPT ![i].pc = to] /\ completer[i].pc = from
  BY DEF Complete
<1>2. completer[i] \in Completions /\ completer \in [Ids -> Completions]
  BY DEF LibTypes
<1>3. [completer[i] EXCEPT !.pc = to] = [pc |-> to, name |-> completer[i].name]
  BY <1>2 DEF Completions
<1>4. completer'[i] = [pc |-> to, name |-> completer[i].name]
  BY <1>1, <1>2, <1>3
<1> QED BY <1>1, <1>2, <1>4 DEF Completions

LEMMA Ends ==
  ASSUME LibTypes, NEW i \in Ids, EndCompletion(i)
  PROVE  /\ completer' \in [Ids -> Completions]
         /\ completer'[i].pc = "idle" /\ completer'[i].name = <<>>
         /\ \A j \in Ids \ {i} : completer'[j] = completer[j]
<1>1. NoCompletion \in Completions /\ NoCompletion.pc = "idle" /\ NoCompletion.name = <<>>
  BY DEF NoCompletion, Completions, Stages
<1> QED BY <1>1 DEF EndCompletion, LibTypes

\* A recording adds an owner behind the others, and crosses those under way.
LEMMA RecordingBegins ==
  ASSUME LibIInv, NEW u \in Users, Begin(u), recover' \in {recover, "no"} PROVE LibIInv'
<1> DEFINE id == Len(owner) + 1
<1> USE DEF LibIInv
<1>1. /\ owner' \in Seq(Users) /\ Len(owner') = id /\ Len(owner) \in Nat
      /\ \A i \in 1 .. Len(owner) : owner'[i] = owner[i]
  BY DEF Begin, LibTypes
<1>2. id \in Ids /\ id \in Nat /\ id > Len(owner)
  BY <1>1, LibAssumption DEF Begin, Ids
<1>3. completer[id].pc = "idle"
  BY <1>2 DEF Named
<1>4. Complete(id, "idle", "recording")
  BY <1>3 DEF Complete, Begin
<1>5. /\ completer' \in [Ids -> Completions] /\ completer'[id].pc = "recording"
      /\ \A j \in Ids \ {id} : completer'[j] = completer[j]
  BY <1>2, <1>4, GoesTo DEF Stages
<1>6. UNCHANGED <<files, meta, deleter, faulted, collided>> /\ activeDir' = activeDir \cup {id}
  BY DEF Begin
<1>7. LibTypes'
  <2>1. activeDir' \subseteq 1 .. Len(owner')
    <3> SUFFICES ASSUME NEW x \in activeDir' PROVE x \in 1 .. Len(owner')
      OBVIOUS
    <3>1. CASE x \in activeDir
      <4>1. x \in 1 .. Len(owner)
        BY <3>1 DEF LibTypes
      <4> QED BY <1>1, <4>1
    <3>2. CASE x = id
      BY <1>1, <3>2
    <3> QED BY <1>6, <3>1, <3>2
  <2>2. \A n \in Names : files'[n] <= Len(owner')
    <3>1. \A n \in Names : files[n] \in Nat /\ files[n] <= Len(owner)
      BY DEF LibTypes
    <3> QED BY <1>1, <1>6, <3>1
  <2> QED BY <1>1, <1>5, <1>6, <2>1, <2>2 DEF LibTypes
<1>8. Named'
  BY <1>1, <1>2, <1>5 DEF Named, Ids
<1>9. NameTaken'
  <2>1. \A i \in Ids : Moving(i)' => Moving(i) /\ completer'[i] = completer[i]
    BY <1>5 DEF Moving
  <2> QED BY <1>6, <2>1 DEF NameTaken
<1>10. MetaRight'
  <2>1. \A n \in Names : Pending(n) => Pending(n)'
    BY <1>3, <1>5 DEF Pending
  <2>2. \A n \in Names : files[n] # 0 => owner'[files[n]] = owner[files[n]]
    BY <1>1 DEF LibTypes
  <2> QED BY <1>6, <2>1, <2>2 DEF MetaRight
<1>11. LaterSession'
  BY <1>1, <1>2, <1>6 DEF LaterSession
<1>12. Together'
  <2>1. Unfinished' = Unfinished \cup {id}
    BY <1>2, <1>5 DEF Unfinished
  <2>2. CASE Unfinished = {} /\ recover' = "no"
    BY <2>1, <2>2 DEF Together
  <2>3. CASE ~(Unfinished = {} /\ recover' = "no")
    <3>1. crossed' = crossed \cup Unfinished \cup {id}
      BY <2>3 DEF Begin
    <3> QED BY <2>1, <3>1 DEF Together
  <2> QED BY <2>2, <2>3
<1>13. DeletersTyped'
  BY <1>6 DEF DeletersTyped
<1> QED BY <1>7, <1>8, <1>9, <1>10, <1>11, <1>12, <1>13

\* A completion takes a free name.
LEMMA ChoiceKeeps ==
  ASSUME LibIInv, NEW i \in Ids, NEW e \in Exts, CompleteRecording(i, e) PROVE LibIInv'
<1> USE DEF LibIInv
<1>1. PICK b \in DOMAIN BaseNames :
        files[<<"recorded", BaseNames[b], e>>] = 0 /\ Choose(i, <<"recorded", BaseNames[b], e>>)
  BY DEF CompleteRecording, FreeBase
<1> DEFINE name == <<"recorded", BaseNames[b], e>>
<1>2. name \in Names /\ name[1] = "recorded"
  BY DEF Names, Dirs
<1> HIDE DEF name
<1>3. /\ completer[i].pc = "recording"
      /\ completer' = [completer EXCEPT ![i] = [pc |-> "move", name |-> name]]
      /\ UNCHANGED <<files, meta, owner, activeDir, deleter, recover, faulted, crossed>>
  BY <1>1 DEF Choose, name
<1>4. collided' = IF \E j \in Ids \ {i} : completer[j].pc \in {"move", "copy"} /\ completer[j].name = name
                  THEN collided \cup {name} ELSE collided
  BY <1>1 DEF Choose, name
<1>5. files[name] = 0
  BY <1>1 DEF name
<1>6. /\ completer' \in [Ids -> Completions] /\ completer'[i].pc = "move" /\ completer'[i].name = name
      /\ \A j \in Ids \ {i} : completer'[j] = completer[j]
  <2>1. [pc |-> "move", name |-> name] \in Completions
    BY <1>2 DEF Completions, Stages
  <2> QED BY <1>3, <2>1 DEF LibTypes
<1>7. LibTypes' /\ Named'
  BY <1>2, <1>3, <1>6 DEF LibTypes, Named
<1>8. NameTaken'
  <2> SUFFICES ASSUME NEW k \in Ids, Moving(k)', completer'[k].name \notin collided'
               PROVE  /\ \A j \in Ids : Moving(j)' /\ completer'[j].name = completer'[k].name => j = k
                      /\ completer'[k].pc = "move" => files'[completer'[k].name] = 0
                      /\ completer'[k].pc = "copy" => files'[completer'[k].name] \in {0, k}
    BY DEF NameTaken
  <2>1. completer'[k].name \notin collided
    BY <1>4
  <2>2. CASE k = i
    <3>1. \A j \in Ids \ {i} : ~(completer[j].pc \in {"move", "copy"} /\ completer[j].name = name)
      BY <1>4, <1>6, <2>2
    <3> QED BY <1>3, <1>5, <1>6, <2>2, <3>1 DEF Moving
  <2>3. CASE k # i
    <3>1. completer'[k] = completer[k] /\ Moving(k)
      BY <1>6, <2>3 DEF Moving
    <3>2. completer[k].name # name
      BY <1>4, <2>3, <3>1 DEF Moving
    <3>3. \A j \in Ids \ {i} : Moving(j)' => Moving(j)
      BY <1>6 DEF Moving
    <3> QED BY <1>3, <1>6, <2>1, <2>3, <3>1, <3>2, <3>3 DEF NameTaken
  <2> QED BY <2>2, <2>3
<1>9. MetaRight'
  <2>1. \A n \in Names : Pending(n) => Pending(n)'
    BY <1>3, <1>6 DEF Pending
  <2> QED BY <1>3, <2>1 DEF MetaRight
<1>10. Together'
  <2>1. Unfinished' = Unfinished
    BY <1>3, <1>6 DEF Unfinished
  <2> QED BY <1>3, <2>1 DEF Together
<1> QED BY <1>3, <1>7, <1>8, <1>9, <1>10 DEF LaterSession, DeletersTyped

\* A completion that ends leaves fewer under way.
LEMMA EndKeeps ==
  ASSUME LibIInv, NEW i \in Ids, EndCompletion(i), UNCHANGED <<owner, recover, crossed>> PROVE Named' /\ Together'
<1>1. /\ completer'[i].pc = "idle"
      /\ \A j \in Ids \ {i} : completer'[j] = completer[j]
  BY Ends DEF LibIInv
<1>2. Named'
  BY <1>1 DEF Named, LibIInv
<1>3. Unfinished' \subseteq Unfinished
  BY <1>1 DEF Unfinished
<1> QED BY <1>2, <1>3 DEF Together, LibIInv

\* The file goes to the name, where none was unless it has collided; a copy
\* that fails is removed.
LEMMA FileArrives ==
  ASSUME LibIInv, NEW i \in Ids, moveOrCopy(i) PROVE LibIInv'
<1> USE DEF LibIInv
<1> DEFINE n == completer[i].name
<1>1. /\ files' = [files EXCEPT ![n] = i]
      /\ UNCHANGED <<meta, owner, activeDir, deleter, recover, faulted, crossed, collided>>
      /\ Complete(i, "move", "meta") \/ Complete(i, "move", "copy")
  BY DEF moveOrCopy
<1>2. PICK to \in {"meta", "copy"} : Complete(i, "move", to)
  BY <1>1
<1>3. /\ completer' \in [Ids -> Completions] /\ completer[i].pc = "move"
      /\ completer'[i].pc = to /\ completer'[i].name = n
      /\ \A j \in Ids \ {i} : completer'[j] = completer[j]
  BY <1>2, GoesTo DEF Stages
<1>4. n \in Names /\ n[1] = "recorded" /\ i <= Len(owner)
  BY <1>3 DEF Named
<1> HIDE DEF n
<1>5. files' \in [Names -> Nat] /\ files'[n] = i /\ (\A m \in Names \ {n} : files'[m] = files[m])
  BY <1>1, <1>4, LibAssumption DEF LibTypes, Ids
<1>6. LibTypes'
  BY <1>1, <1>3, <1>4, <1>5, LibAssumption DEF LibTypes, Ids
<1>7. Named'
  BY <1>1, <1>3, <1>4 DEF Named
<1>8. NameTaken'
  <2> SUFFICES ASSUME NEW k \in Ids, Moving(k)', completer'[k].name \notin collided'
               PROVE  /\ \A j \in Ids : Moving(j)' /\ completer'[j].name = completer'[k].name => j = k
                      /\ completer'[k].pc = "move" => files'[completer'[k].name] = 0
                      /\ completer'[k].pc = "copy" => files'[completer'[k].name] \in {0, k}
    BY DEF NameTaken
  <2>1. Moving(i) /\ \A j \in Ids : Moving(j)' => Moving(j) /\ completer'[j].name = completer[j].name
    BY <1>3 DEF Moving, n
  <2>2. completer[k].name \notin collided /\ Moving(k)
    BY <1>1, <2>1
  <2>3. \A j \in Ids : Moving(j) /\ completer[j].name = completer[k].name => j = k
    BY <2>2 DEF NameTaken
  <2>4. CASE k = i
    BY <1>3, <1>5, <2>1, <2>3, <2>4 DEF n
  <2>5. CASE k # i
    <3>1. completer[k].name # n /\ completer'[k] = completer[k]
      BY <1>3, <2>1, <2>3, <2>5 DEF n
    <3>2. completer[k].name \in Names
      BY <2>2 DEF Named, Moving
    <3>3. files'[completer[k].name] = files[completer[k].name]
      BY <1>5, <3>1, <3>2
    <3> QED BY <2>1, <2>2, <2>3, <3>1, <3>3 DEF NameTaken
  <2> QED BY <2>4, <2>5
<1>9. MetaRight'
  <2>1. \A m \in Names : m = n \/ Pending(m) => Pending(m)'
    BY <1>2, <1>3 DEF Pending
  <2> QED BY <1>1, <1>5, <2>1 DEF MetaRight
<1>10. Together'
  <2>1. Unfinished' = Unfinished
    BY <1>3 DEF Unfinished
  <2> QED BY <1>1, <2>1 DEF Together
<1> QED BY <1>1, <1>6, <1>7, <1>8, <1>9, <1>10 DEF LaterSession, DeletersTyped

LEMMA CopyKeeps ==
  ASSUME LibIInv, NEW i \in Ids, CopyEnds(i) PROVE LibIInv'
<1> USE DEF LibIInv
<1> DEFINE n == completer[i].name
<1>1. /\ completer[i].pc = "copy"
      /\ UNCHANGED <<meta, owner, activeDir, deleter, recover, faulted, crossed, collided>>
  BY DEF CopyEnds, Complete
<1>2. n \in Names /\ n[1] = "recorded"
  BY <1>1 DEF Named
<1>3. CASE Complete(i, "copy", "meta") /\ UNCHANGED files
  <2>1. /\ completer' \in [Ids -> Completions] /\ completer'[i].pc = "meta" /\ completer'[i].name = n
        /\ \A j \in Ids \ {i} : completer'[j] = completer[j]
    BY <1>3, GoesTo DEF Stages
  <2>2. LibTypes' /\ Named'
    BY <1>1, <1>2, <1>3, <2>1 DEF LibTypes, Named
  <2>3. NameTaken'
    <3>1. \A j \in Ids : Moving(j)' => Moving(j) /\ completer'[j] = completer[j]
      BY <2>1 DEF Moving
    <3> QED BY <1>1, <1>3, <3>1 DEF NameTaken
  <2>4. MetaRight'
    <3>1. \A m \in Names : Pending(m) => Pending(m)'
      BY <2>1 DEF Pending
    <3> QED BY <1>1, <1>3, <3>1 DEF MetaRight
  <2>5. Together'
    <3>1. Unfinished' = Unfinished
      BY <1>1, <2>1 DEF Unfinished
    <3> QED BY <1>1, <3>1 DEF Together
  <2> QED BY <1>1, <2>2, <2>3, <2>4, <2>5 DEF LaterSession, DeletersTyped
<1>4. CASE EndCompletion(i) /\ files' = [files EXCEPT ![n] = 0]
  <2>1. /\ completer' \in [Ids -> Completions] /\ completer'[i].pc = "idle"
        /\ \A j \in Ids \ {i} : completer'[j] = completer[j]
    BY <1>4, Ends
  <2>2. Named' /\ Together'
    BY <1>1, <1>4, EndKeeps
  <2> HIDE DEF n
  <2>3. files' \in [Names -> Nat] /\ files'[n] = 0 /\ (\A m \in Names \ {n} : files'[m] = files[m])
    BY <1>2, <1>4 DEF LibTypes
  <2>4. LibTypes'
    <3>1. Len(owner) \in Nat /\ \A m \in Names : files[m] <= Len(owner)
      BY DEF LibTypes
    <3>2. \A m \in Names : files'[m] <= Len(owner)
      BY <2>3, <3>1
    <3> QED BY <1>1, <2>1, <2>3, <3>2 DEF LibTypes
  <2>5. NameTaken'
    <3>1. \A j \in Ids : Moving(j)' => Moving(j) /\ completer'[j] = completer[j]
      BY <2>1 DEF Moving
    <3>2. \A m \in Names : files'[m] \in {0, files[m]}
      BY <2>3
    <3>3. \A j \in Ids : Moving(j) => completer[j].name \in Names
      BY DEF Named, Moving
    <3> QED BY <1>1, <3>1, <3>2, <3>3 DEF NameTaken
  <2>6. MetaRight'
    <3>1. \A m \in Names \ {n} : Pending(m) => Pending(m)'
      BY <2>1 DEF Pending, n
    <3> QED BY <1>1, <2>3, <3>1 DEF MetaRight
  <2> QED BY <1>1, <2>2, <2>4, <2>5, <2>6 DEF LaterSession, DeletersTyped
<1> QED BY <1>3, <1>4 DEF CopyEnds

\* The metadata is the owner's when the file is, and else the name is faulted,
\* like the names with which it shares the metadata.
LEMMA MetaKeeps ==
  ASSUME LibIInv, NEW i \in Ids, WriteMeta(i) PROVE LibIInv'
<1> USE DEF LibIInv
<1> DEFINE n == completer[i].name
<1>1. /\ Complete(i, "meta", "clean")
      /\ UNCHANGED <<files, owner, activeDir, deleter, recover, crossed, collided>>
      /\ \/ /\ meta' = [meta EXCEPT ![<<n[1], n[2]>>] = owner[i]]
            /\ faulted' = IF files[n] = i THEN (faulted \cup Twins(n)) \ {n} ELSE faulted \cup Twins(n) \cup {n}
         \/ faulted' = faulted \cup {n} /\ UNCHANGED meta
  BY DEF WriteMeta
<1>2. /\ completer' \in [Ids -> Completions] /\ completer[i].pc = "meta" /\ completer'[i].pc = "clean"
      /\ completer'[i].name = n
      /\ \A j \in Ids \ {i} : completer'[j] = completer[j]
  BY <1>1, GoesTo DEF Stages
<1>3. n \in Names /\ n[1] = "recorded" /\ i \in 1 .. Len(owner)
  BY <1>2, LibAssumption DEF Named, Ids, LibTypes
<1> HIDE DEF n
<1>4. Named'
  BY <1>1, <1>2, <1>3 DEF Named
<1>5. NameTaken'
  <2>1. \A j \in Ids : Moving(j)' => Moving(j) /\ completer'[j] = completer[j]
    BY <1>2 DEF Moving
  <2> QED BY <1>1, <2>1 DEF NameTaken
<1>6. Together'
  <2>1. Unfinished' = Unfinished
    BY <1>2 DEF Unfinished
  <2> QED BY <1>1, <2>1 DEF Together
<1>7. \A m \in Names \ {n} : Pending(m) => Pending(m)'
  BY <1>2 DEF Pending, n
<1>8. CASE faulted' = faulted \cup {n} /\ UNCHANGED meta
  <2>1. LibTypes'
    BY <1>1, <1>2, <1>8 DEF LibTypes
  <2>2. MetaRight'
    BY <1>1, <1>7, <1>8 DEF MetaRight
  <2> QED BY <1>1, <1>4, <1>5, <1>6, <2>1, <2>2 DEF LaterSession, DeletersTyped
<1>9. CASE /\ meta' = [meta EXCEPT ![<<n[1], n[2]>>] = owner[i]]
           /\ faulted' = IF files[n] = i THEN (faulted \cup Twins(n)) \ {n} ELSE faulted \cup Twins(n) \cup {n}
  <2>1. owner[i] \in Users
    BY <1>3 DEF LibTypes
  <2>2. LibTypes'
    BY <1>1, <1>2, <1>9, <2>1 DEF LibTypes
  <2>3. ASSUME NEW m \in Names, m[1] = "recorded", files'[m] # 0, m \notin faulted', ~Pending(m)',
               meta'[<<m[1], m[2]>>] # Nobody
        PROVE  meta'[<<m[1], m[2]>>] = owner'[files'[m]]
    <3>1. <<m[1], m[2]>> \in Metas
      BY DEF Names, Metas
    <3>2. CASE m = n
      <4>1. files[n] = i
        BY <1>9, <2>3, <3>2
      <4>2. meta'[<<n[1], n[2]>>] = owner[i]
        BY <1>9, <3>1, <3>2 DEF LibTypes
      <4> QED BY <1>1, <3>2, <4>1, <4>2
    <3>3. CASE m # n
      <4>1. m \notin Twins(n) /\ m \notin faulted
        BY <1>9, <2>3, <3>3
      <4>2. m[2] # n[2]
        BY <1>1, <1>3, <2>3, <3>3, <4>1 DEF Twins
      <4>3. meta'[<<m[1], m[2]>>] = meta[<<m[1], m[2]>>]
        BY <1>9, <3>1, <4>2 DEF LibTypes
      <4>4. ~Pending(m)
        BY <1>7, <2>3, <3>3
      <4> QED BY <1>1, <2>3, <4>1, <4>3, <4>4 DEF MetaRight
    <3> QED BY <3>2, <3>3
  <2>4. MetaRight'
    BY <2>3 DEF MetaRight
  <2> QED BY <1>1, <1>4, <1>5, <1>6, <2>2, <2>4 DEF LaterSession, DeletersTyped
<1> QED BY <1>1, <1>8, <1>9

\* A completion that gives up or is through leaves the files as they are.
LEMMA LastKeeps ==
  ASSUME LibIInv, NEW i \in Ids, GiveUp(i) \/ RemoveActive(i) PROVE LibIInv'
<1> USE DEF LibIInv
<1>1. /\ completer[i].pc \in {"recording", "move", "clean"} /\ EndCompletion(i)
      /\ UNCHANGED <<files, meta, owner, deleter, recover, faulted, crossed, collided>>
      /\ activeDir' \subseteq activeDir
  BY DEF GiveUp, RemoveActive
<1>2. /\ completer' \in [Ids -> Completions] /\ completer'[i].pc = "idle"
      /\ \A j \in Ids \ {i} : completer'[j] = completer[j]
  BY <1>1, Ends
<1>3. Named' /\ Together'
  BY <1>1, EndKeeps
<1>4. LibTypes'
  BY <1>1, <1>2 DEF LibTypes
<1>5. NameTaken'
  <2>1. \A j \in Ids : Moving(j)' => Moving(j) /\ completer'[j] = completer[j]
    BY <1>2 DEF Moving
  <2> QED BY <1>1, <2>1 DEF NameTaken
<1>6. MetaRight'
  <2>1. \A m \in Names : Pending(m) => Pending(m)'
    BY <1>1, <1>2 DEF Pending
  <2> QED BY <1>1, <2>1 DEF MetaRight
<1> QED BY <1>1, <1>3, <1>4, <1>5, <1>6 DEF LaterSession, DeletersTyped

\* What the completions are to a state does not change with the deletions and
\* the recovery, which take files away.
LEMMA TakingKeeps ==
  ASSUME LibIInv, UNCHANGED <<owner, completer, faulted, collided, crossed>>,
         recover' \in {recover, "no"} \/ (recover = "start" /\ recover' = "listed"),
         files' \in [Names -> Nat], \A n \in Names : files'[n] \in {0, files[n]},
         meta' \in [Metas -> Users \cup {Nobody}], \A m \in Metas : meta'[m] \in {Nobody, meta[m]},
         activeDir' \subseteq activeDir
  PROVE  LibTypes' /\ Named' /\ NameTaken' /\ MetaRight' /\ Together'
<1> USE DEF LibIInv
<1>1. LibTypes'
  BY DEF LibTypes
<1>2. Named'
  BY DEF Named
<1>3. NameTaken'
  <2>1. \A j \in Ids : Moving(j) => completer[j].name \in Names
    BY DEF Named, Moving
  <2> QED BY <2>1 DEF NameTaken, Moving
<1>4. MetaRight'
  <2>1. \A n \in Names : <<n[1], n[2]>> \in Metas
    BY DEF Names, Metas
  <2> QED BY <2>1 DEF MetaRight, Pending
<1>5. Together'
  BY DEF Together, Unfinished
<1> QED BY <1>1, <1>2, <1>3, <1>4, <1>5

\* A deletion takes files and metadata away, and adds none.
LEMMA DeletionKeeps ==
  ASSUME LibIInv, NEW d \in Deleters,
         \/ \E u \in Users, isAdmin \in BOOLEAN, b \in DOMAIN BaseNames, e \in Exts :
              DeleteCompletedRecording(d, u, isAdmin, BaseNames[b], e)
         \/ DeleteFile(d) \/ DeleteMeta(d) \/ LookAtDir(d) \/ RemoveDir(d)
  PROVE  LibIInv'
<1> USE DEF LibIInv
<1>1. ASSUME NEW u \in Users, NEW isAdmin \in BOOLEAN, NEW b \in DOMAIN BaseNames, NEW e \in Exts,
             DeleteCompletedRecording(d, u, isAdmin, BaseNames[b], e)
      PROVE  LibIInv'
  <2>1. /\ deleter' = [deleter EXCEPT ![d] = [NoDelete EXCEPT !.pc = "file", !.base = BaseNames[b], !.ext = e]]
        /\ UNCHANGED <<files, meta, owner, activeDir, completer, recover, faulted, crossed, collided>>
    BY <1>1 DEF DeleteCompletedRecording
  <2>2. DeletersTyped' /\ deleter'[d].pc = "file" /\ (\A x \in Deleters \ {d} : deleter'[x] = deleter[x])
    BY <2>1 DEF DeletersTyped, NoDelete
  <2>3. LibTypes' /\ Named' /\ NameTaken' /\ MetaRight' /\ Together'
    BY <2>1 DEF LibTypes, Named, NameTaken, Moving, MetaRight, Pending, Together, Unfinished
  <2> QED BY <2>1, <2>2, <2>3 DEF LaterSession
<1>2. CASE DeleteFile(d)
  <2>1. /\ files' = [files EXCEPT ![<<"recorded", deleter[d].base, deleter[d].ext>>] = 0]
        /\ deleter' = [deleter EXCEPT ![d].pc = "meta"]
        /\ UNCHANGED <<meta, owner, activeDir, completer, recover, faulted, crossed, collided>>
    BY <1>2 DEF DeleteFile, Goto
  <2>2. DeletersTyped' /\ deleter'[d].pc = "meta" /\ (\A x \in Deleters \ {d} : deleter'[x] = deleter[x])
    BY <2>1 DEF DeletersTyped
  <2>3. files' \in [Names -> Nat] /\ (\A n \in Names : files'[n] \in {0, files[n]})
    BY <2>1 DEF LibTypes
  <2>4. LibTypes' /\ Named' /\ NameTaken' /\ MetaRight' /\ Together'
    BY <2>1, <2>3, TakingKeeps DEF LibTypes
  <2> QED BY <2>1, <2>2, <2>4 DEF LaterSession
<1>3. CASE DeleteMeta(d)
  <2>1. /\ meta' = [meta EXCEPT ![<<"recorded", deleter[d].base>>] = Nobody]
        /\ deleter' = [deleter EXCEPT ![d].pc = "look"]
        /\ UNCHANGED <<files, owner, activeDir, completer, recover, faulted, crossed, collided>>
    BY <1>3 DEF DeleteMeta, Goto
  <2>2. DeletersTyped' /\ deleter'[d].pc = "look" /\ (\A x \in Deleters \ {d} : deleter'[x] = deleter[x])
    BY <2>1 DEF DeletersTyped
  <2>3. meta' \in [Metas -> Users \cup {Nobody}] /\ (\A m \in Metas : meta'[m] \in {Nobody, meta[m]})
    BY <2>1 DEF LibTypes
  <2>4. LibTypes' /\ Named' /\ NameTaken' /\ MetaRight' /\ Together'
    BY <2>1, <2>3, TakingKeeps DEF LibTypes
  <2> QED BY <2>1, <2>2, <2>4 DEF LaterSession
<1>4. CASE LookAtDir(d)
  <2>1. /\ deleter' = [deleter EXCEPT ![d].pc = IF ProbeOnly THEN "rmdir" ELSE "idle", ![d].saw = Len(owner)]
        /\ UNCHANGED <<files, meta, owner, activeDir, completer, recover, faulted, crossed, collided>>
    BY <1>4 DEF LookAtDir
  <2>2. Len(owner) \in Nat
    BY DEF LibTypes
  <2>3. /\ DeletersTyped' /\ deleter'[d].saw = Len(owner) /\ (deleter'[d].pc = "rmdir" => ProbeOnly)
        /\ \A x \in Deleters \ {d} : deleter'[x] = deleter[x]
    BY <2>1, <2>2 DEF DeletersTyped
  <2>4. LaterSession'
    <3>1. deleter'[d].pc = "rmdir" => activeDir = {}
      BY <2>3 DEF ProbeOnly
    <3>2. ASSUME NEW x \in Deleters, deleter'[x].pc = "rmdir"
          PROVE  deleter'[x].saw \in 0 .. Len(owner) /\ (\A i \in activeDir : deleter'[x].saw < i)
      BY <2>2, <2>3, <3>1, <3>2 DEF LaterSession
    <3> QED BY <2>1, <3>2 DEF LaterSession
  <2>5. LibTypes' /\ Named' /\ NameTaken' /\ MetaRight' /\ Together'
    BY <2>1 DEF LibTypes, Named, NameTaken, Moving, MetaRight, Pending, Together, Unfinished
  <2> QED BY <2>3, <2>4, <2>5
<1>5. CASE RemoveDir(d)
  <2>1. /\ files' = NoFiles /\ meta' = NoMeta /\ activeDir' = {}
        /\ deleter' = [deleter EXCEPT ![d].pc = "idle"]
        /\ UNCHANGED <<owner, completer, recover, faulted, crossed, collided>>
    BY <1>5 DEF RemoveDir, Goto
  <2>2. DeletersTyped' /\ deleter'[d].pc = "idle" /\ (\A x \in Deleters \ {d} : deleter'[x] = deleter[x])
    BY <2>1 DEF DeletersTyped
  <2>3. /\ files' \in [Names -> Nat] /\ (\A n \in Names : files'[n] \in {0, files[n]})
        /\ meta' \in [Metas -> Users \cup {Nobody}] /\ (\A m \in Metas : meta'[m] \in {Nobody, meta[m]})
    BY <2>1 DEF NoFiles, NoMeta
  <2>4. LibTypes' /\ Named' /\ NameTaken' /\ MetaRight' /\ Together'
    BY <2>1, <2>3, TakingKeeps
  <2> QED BY <2>1, <2>2, <2>4 DEF LaterSession
<1> QED BY <1>1, <1>2, <1>3, <1>4, <1>5

\* The recovery lists, and removes or records on; a crash ends everybody.
LEMMA RecoveryKeeps ==
  ASSUME LibIInv, ListActiveRecordings \/ RemoveActiveSession \/ RecordOn \/ Crash PROVE LibIInv'
<1> USE DEF LibIInv
<1>1. CASE ListActiveRecordings \/ RemoveActiveSession
  <2>1. /\ UNCHANGED <<files, meta, owner, completer, deleter, faulted, crossed, collided>>
        /\ activeDir' \subseteq activeDir
        /\ recover' \in {recover, "no"} \/ (recover = "start" /\ recover' = "listed")
    BY <1>1 DEF ListActiveRecordings, RemoveActiveSession
  <2>2. LibTypes' /\ Named' /\ NameTaken' /\ MetaRight' /\ Together'
    BY <2>1, TakingKeeps DEF LibTypes
  <2> QED BY <2>1, <2>2 DEF LaterSession, DeletersTyped
<1>2. CASE RecordOn
  <2>1. PICK i \in activeDir : Begin(owner[i])
    BY <1>2 DEF RecordOn
  <2>2. owner[i] \in Users
    BY DEF LibTypes
  <2> QED BY <1>2, <2>1, <2>2, RecordingBegins DEF RecordOn
<1>3. CASE Crash
  <2>1. /\ completer' = [i \in Ids |-> NoCompletion] /\ deleter' = [d \in Deleters |-> NoDelete]
        /\ faulted' = faulted \cup {completer[i].name : i \in {j \in Ids : completer[j].pc \in {"copy", "meta"}}}
        /\ UNCHANGED <<files, meta, owner, activeDir, crossed, collided>>
    BY <1>3 DEF Crash
  <2>2. completer' \in [Ids -> Completions] /\ (\A i \in Ids : completer'[i].pc = "idle")
    BY <2>1 DEF NoCompletion, Completions, Stages
  <2>3. LibTypes' /\ Named' /\ NameTaken' /\ Together'
    BY <2>1, <2>2 DEF LibTypes, Named, NameTaken, Moving, Together, Unfinished
  <2>4. MetaRight'
    <3>1. \A n \in Names : Pending(n) => n \in faulted'
      BY <2>1 DEF Pending
    <3> QED BY <2>1, <3>1 DEF MetaRight
  <2>5. DeletersTyped' /\ LaterSession'
    BY <2>1 DEF DeletersTyped, LaterSession, NoDelete
  <2> QED BY <2>3, <2>4, <2>5
<1> QED BY <1>1, <1>2, <1>3

\* Every step keeps the invariant.
LEMMA LibKeeps == LibIInv /\ [LibSteps \/ LibRequests]_libVars => LibIInv'
<1> SUFFICES ASSUME LibIInv, [LibSteps \/ LibRequests]_libVars PROVE LibIInv'
  OBVIOUS
<1>1. CASE LibSteps
  BY <1>1, FileArrives, CopyKeeps, MetaKeeps, LastKeeps, DeletionKeeps, RecoveryKeeps DEF LibSteps
<1>2. CASE LibRequests
  <2>1. ASSUME NEW u \in Users, WriteSessionMeta(u) PROVE LibIInv'
    BY <2>1, RecordingBegins DEF WriteSessionMeta
  <2> QED BY <1>2, <2>1, ChoiceKeeps, DeletionKeeps, RecoveryKeeps DEF LibRequests
<1>3. CASE UNCHANGED libVars
  BY <1>3 DEF libVars, LibIInv, LibTypes, Named, NameTaken, Moving, MetaRight, Pending, LaterSession, Together, Unfinished, DeletersTyped
<1> QED BY <1>1, <1>2, <1>3

\* What is in a directory changes by moveOrCopy, a copy that fails, Delete and
\* the directory's removal only; the file that a completion moves goes where
\* there was none, and the copy it removes is its own, unless names collided.
LEMMA FilesChange ==
  ASSUME LibIInv, LibSteps \/ LibRequests, NEW n \in Names \ collided, files[n] # 0, files'[n] # files[n],
         ~ \E i \in Ids : completer[i].pc = "copy" /\ completer[i].name = n
  PROVE  \E d \in Deleters : \/ deleter[d].pc = "rmdir"
                             \/ /\ deleter[d].pc = "file"
                                /\ n = <<"recorded", deleter[d].base, deleter[d].ext>>
<1>1. ASSUME NEW i \in Ids, moveOrCopy(i) PROVE FALSE
  <2>1. completer[i].pc = "move" /\ files' = [files EXCEPT ![completer[i].name] = i]
    BY <1>1 DEF moveOrCopy, Complete
  <2>2. completer[i].name = n
    BY <2>1 DEF LibIInv, LibTypes
  <2>3. files[n] = 0
    BY <2>1, <2>2 DEF LibIInv, NameTaken, Moving
  <2> QED BY <2>3
<1>2. ASSUME NEW i \in Ids, CopyEnds(i) PROVE FALSE
  <2>1. completer[i].pc = "copy" /\ (files' = files \/ files' = [files EXCEPT ![completer[i].name] = 0])
    BY <1>2 DEF CopyEnds, Complete
  <2> QED BY <2>1 DEF LibIInv, LibTypes
<1>3. ASSUME NEW d \in Deleters, DeleteFile(d) PROVE n = <<"recorded", deleter[d].base, deleter[d].ext>> /\ deleter[d].pc = "file"
  BY <1>3 DEF DeleteFile, Goto, LibIInv, LibTypes
<1>4. ASSUME NEW d \in Deleters, RemoveDir(d) PROVE deleter[d].pc = "rmdir"
  BY <1>4 DEF RemoveDir, Goto
<1>5. CASE (\A i \in Ids : ~moveOrCopy(i) /\ ~CopyEnds(i)) /\ (\A d \in Deleters : ~DeleteFile(d) /\ ~RemoveDir(d))
  <2>1. files' = files
    BY <1>5 DEF LibSteps, LibRequests, WriteMeta, RemoveActive, GiveUp, DeleteMeta, LookAtDir, WriteSessionMeta, Begin,
       CompleteRecording, Choose, Crash, DeleteCompletedRecording, ListActiveRecordings, RemoveActiveSession, RecordOn
  <2> QED BY <2>1
<1> QED BY <1>1, <1>2, <1>3, <1>4, <1>5

\* A recording that was always alone loses its directory to its completion, or
\* to a deletion that looked before.
LEMMA DirectoryGoes ==
  ASSUME LibIInv, LibSteps \/ LibRequests, NEW i \in activeDir \ activeDir', i \in Unfinished \ crossed
  PROVE  \/ completer[i].pc = "clean"
         \/ \E d \in Deleters : deleter[d].pc = "rmdir" /\ deleter[d].saw < i
<1>1. ASSUME NEW j \in Ids, RemoveActive(j) PROVE completer[i].pc = "clean"
  <2>1. completer[j].pc = "clean" /\ j \in Unfinished
    BY <1>1 DEF RemoveActive, Unfinished
  <2>2. i = j
    BY <2>1 DEF LibIInv, Together
  <2> QED BY <2>1, <2>2
<1>2. ASSUME NEW d \in Deleters, RemoveDir(d) PROVE deleter[d].pc = "rmdir" /\ deleter[d].saw < i
  BY <1>2 DEF RemoveDir, Goto, LibIInv, LaterSession
<1>3. ~RemoveActiveSession
  BY DEF RemoveActiveSession, LibIInv, Together
<1>4. CASE (\A j \in Ids : ~RemoveActive(j)) /\ (\A d \in Deleters : ~RemoveDir(d))
  <2>1. activeDir \subseteq activeDir'
    BY <1>3, <1>4 DEF LibSteps, LibRequests, WriteMeta, GiveUp, moveOrCopy, CopyEnds, DeleteFile, DeleteMeta, LookAtDir,
       WriteSessionMeta, Begin, CompleteRecording, Choose, Crash, DeleteCompletedRecording, ListActiveRecordings, RecordOn
  <2> QED BY <2>1
<1> QED BY <1>1, <1>2, <1>4

\* Whatever completions, deletions, new recordings, recoveries and crashes
\* interleave (CompleteRecording, Delete, WriteSessionMeta, RecoverRecordings,
\* without a lock), a finished recording is its owner's unless its metadata was
\* not written or shared, stays until it is deleted unless its name was chosen
\* twice at once, and a recording that is alone from its beginning on keeps its
\* directory but from a deletion that looked before.
THEOREM RecordingsAreKept == LibSpec => RecordingsKept
<1>1. LibIInv => OnlyOwnersPlay
  <2> SUFFICES ASSUME LibIInv, NEW u \in Users, NEW n \in Names,
                      n[1] = "recorded", files[n] # 0, n \notin faulted, ~Pending(n),
                      meta[<<n[1], n[2]>>] # Nobody,
                      Authorized(u, n[2]) \/ n \in scanRecordingDir(u)
               PROVE  owner[FilePath(n[2], n[3])] = u
    BY DEF OnlyOwnersPlay, Pending
  <2>1. meta[<<"recorded", n[2]>>] = owner[files[n]]
    BY DEF LibIInv, MetaRight
  <2>2. meta[<<"recorded", n[2]>>] = u
    BY DEF Authorized, GetMeta, scanRecordingDir
  <2>3. n = <<"recorded", n[2], n[3]>>
    BY DEF Names
  <2>4. FilePath(n[2], n[3]) = files[n]
    BY <2>3 DEF FilePath
  <2> QED BY <2>1, <2>2, <2>4
<1>2. LibIInv /\ [LibSteps \/ LibRequests]_libVars =>
        [\A n \in Names \ collided :
           (/\ files[n] # 0 /\ files'[n] # files[n]
            /\ ~ \E i \in Ids : completer[i].pc = "copy" /\ completer[i].name = n) =>
             \E d \in Deleters : \/ deleter[d].pc = "rmdir"
                                 \/ /\ deleter[d].pc = "file"
                                    /\ n = <<"recorded", deleter[d].base, deleter[d].ext>>]_libVars
  BY FilesChange
<1>3. LibIInv /\ [LibSteps \/ LibRequests]_libVars =>
        [\A i \in activeDir \ activeDir' :
           i \in Unfinished \ crossed =>
             \/ completer[i].pc = "clean"
             \/ \E d \in Deleters : deleter[d].pc = "rmdir" /\ deleter[d].saw < i]_libVars
  BY DirectoryGoes
<1>4. LibSpec => []LibIInv
  BY LibStart, LibKeeps, PTL DEF LibSpec
<1> QED BY <1>1, <1>2, <1>3, <1>4, PTL DEF LibSpec, RecordingsKept, KeptUntilDeleted, SessionKept

-----------------------------------------------------------------------------
(***************************************************************************)
(* A tunnel per profile, and the pool (WireGuardMulti). A tunnel has one   *)
(* holder at a time, a profile or the goroutine that made it; what the     *)
(* properties say of the active profile holds until two goroutines have    *)
(* connected one profile. The pool shares with that only which tunnels     *)
(* its entries had at the start.                                           *)
(***************************************************************************)

Listings == [ProfileIds -> {"on", "off", NoEntry}]
TunnelRec == [tun : Nat \cup {NoEntry}, healthy : BOOLEAN]
WorkPlaces == {"rest", "sync", "connect", "store", "drop", "list", "select", "health", "checking"}
WorkRec == [pc : WorkPlaces, snap : Listings \cup {<<>>}, todo : SUBSET ProfileIds,
            id : ProfileIds \cup {NoEntry}, tun : Nat \cup {NoEntry}]

ServiceTypes ==
  /\ profiles \in Listings /\ tunnels \in [ProfileIds -> TunnelRec \cup {NoEntry}]
  /\ activeID \in ProfileIds \cup {NoEntry} /\ tunnelsMade \in Nat
  /\ tunnelsOpen \subseteq Nat /\ work \in [Workers -> WorkRec]
  /\ tunnelsOverlapped \in BOOLEAN /\ replaced \subseteq ProfileIds
  /\ \A a \in Workers : work[a].pc \in {"connect", "store", "checking"} => work[a].id \in ProfileIds
  /\ \A a \in Workers : work[a].pc = "store" <=> work[a].tun # NoEntry

\* A tunnel that a profile has or that was just made is up, and is nobody else's.
HasTunnel(a) == work[a].tun # NoEntry
OneHolder ==
  /\ \A p \in ProfileIds : Up(p) => tunnels[p].tun \in tunnelsOpen /\ tunnels[p].tun <= tunnelsMade
  /\ \A a \in Workers : HasTunnel(a) => work[a].tun \in tunnelsOpen /\ work[a].tun <= tunnelsMade
  /\ \A p, q \in ProfileIds : Up(p) /\ Up(q) /\ tunnels[p].tun = tunnels[q].tun => p = q
  /\ \A a, b \in Workers : HasTunnel(a) /\ HasTunnel(b) /\ work[a].tun = work[b].tun => a = b
  /\ \A p \in ProfileIds, a \in Workers : Up(p) /\ HasTunnel(a) => tunnels[p].tun # work[a].tun

Held(t) == (\E p \in ProfileIds : Up(p) /\ tunnels[p].tun = t) \/ (\E a \in Workers : work[a].tun = t)

\* The pool's entries but the last are for profiles and have the tunnels these
\* had at the start.
PoolEntry == [id : ProfileIds \cup {Direct}, tun : Nat \cup {NoEntry}, fails : Nat]
PoolTypes ==
  /\ proxies \in Seq(PoolEntry) /\ DirectEntry \in Nat \ {0}
  /\ \A e \in 1 .. DirectEntry : e = DirectEntry <=> proxies[e].id = Direct
FromStart(p, t) == p \notin replaced => Up(p) /\ tunnels[p].tun = t
Kept(e) == proxies[e].id # Direct => FromStart(proxies[e].id, proxies[e].tun)

\* As long as no two goroutines have connected one profile.
Undisturbed ==
  /\ activeID # NoEntry => Up(activeID)
  /\ \A t \in tunnelsOpen : Held(t)
  /\ \A e \in 1 .. DirectEntry : Kept(e)

\* A request puts the entries it has reached in order, and then has each of
\* them among those that failed and those that are left, the direct connection
\* at the end.
UserRec == [pc : {"idle", "sort", "try", "create"}, host : Hosts \cup {NoEntry}, left : Seq(Nat),
            failed : SUBSET Nat, worn : BOOLEAN, gone : BOOLEAN]
Sorting(u) ==
  LET left == user[u].left IN
  /\ Len(left) < DirectEntry
  /\ \A i \in DOMAIN left : left[i] \in 1 .. Len(left)
  /\ \A e \in 1 .. Len(left) : \E i \in DOMAIN left : left[i] = e
  /\ user[u].failed = {}
Trying(u) ==
  LET left == user[u].left IN
  /\ Len(left) > 0 /\ \A i \in DOMAIN left : left[i] \in 1 .. DirectEntry
  /\ user[u].failed \subseteq 1 .. DirectEntry
  /\ ~user[u].worn /\ ~rescued =>
       /\ \A i \in DOMAIN left : left[i] = DirectEntry <=> i = Len(left)
       /\ DirectEntry \notin user[u].failed
       /\ \A e \in 1 .. DirectEntry : e \in user[u].failed \/ \E i \in DOMAIN left : left[i] = e

RequestsRight ==
  /\ user \in [PoolUsers -> UserRec] /\ rescued \in BOOLEAN
  /\ \A u \in PoolUsers : user[u].pc = "sort" => Sorting(u)
  /\ \A u \in PoolUsers : user[u].pc = "try" => Trying(u)
  /\ ~rescued => Fails(DirectEntry) >= Penalty
  /\ listeners \in Nat /\ listeners <= 1 /\ proxyOf \in Nat \cup {NoEntry}
  /\ proxyOf = NoEntry => listeners = 0

ServiceInv == ServiceTypes /\ OneHolder /\ PoolTypes /\ (~tunnelsOverlapped => Undisturbed)

MultiIInv == ServiceInv /\ RequestsRight

-----------------------------------------------------------------------------
(* The profiles *)

\* A profile has a place, of its own.
LEMMA PlaceIs ==
  ASSUME NEW p \in ProfileIds
  PROVE  Place(p) \in 1 .. Len(Order) /\ Order[Place(p)] = p
<1>1. \E i \in DOMAIN Order : Order[i] = p
  BY DEF ProfileIds
<1>2. Place(p) \in DOMAIN Order /\ Order[Place(p)] = p
  BY <1>1 DEF Place
<1> QED BY <1>2, MultiAssumption

\* The first of some profiles is one of them.
LEMMA FirstOfIn ==
  ASSUME NEW S \in SUBSET ProfileIds, S # {}
  PROVE  FirstOf(S) \in S
<1> DEFINE N == {Place(p) : p \in S}
<1>1. N \subseteq Nat /\ N # {}
  BY PlaceIs, MultiAssumption
<1>2. PICK m \in N : \A x \in N : m <= x
  BY <1>1, SmallestExists
<1>3. \E p \in S : \A q \in S : Place(p) <= Place(q)
  BY <1>2
<1> QED BY <1>3 DEF FirstOf

-----------------------------------------------------------------------------
(* The worker and the requests *)

\* What a goroutine does next changes nothing but its record.
LEMMA WorkIs ==
  ASSUME ServiceTypes, NEW a \in Workers, NEW w, Becomes(a, w)
  PROVE  work'[a] = w /\ \A b \in Workers : b # a => work'[b] = work[b]
BY DEF ServiceTypes, Becomes

\* The record that a goroutine without a tunnel has next.
NextDoing(a, pc, snap, todo, id) ==
  /\ pc \in WorkPlaces \ {"store"} /\ snap \in Listings \cup {<<>>} /\ todo \subseteq ProfileIds
  /\ id \in ProfileIds \cup {NoEntry} /\ (pc \in {"connect", "checking"} => id \in ProfileIds)
  /\ Becomes(a, Doing(pc, snap, todo, id))

\* Going on without a tunnel leaves every record what it should be.
LEMMA DoingTyped ==
  ASSUME ServiceTypes, NEW a \in Workers, NEW pc, NEW snap, NEW todo, NEW id, NextDoing(a, pc, snap, todo, id)
  PROVE  /\ work' \in [Workers -> WorkRec] /\ ~HasTunnel(a)'
         /\ \A b \in Workers : b # a => work'[b] = work[b]
         /\ \A b \in Workers : work'[b].pc \in {"connect", "store", "checking"} => work'[b].id \in ProfileIds
         /\ \A b \in Workers : work'[b].pc = "store" <=> work'[b].tun # NoEntry
<1> DEFINE w == Doing(pc, snap, todo, id)
<1>1. w \in WorkRec /\ w.pc = pc /\ w.tun = NoEntry /\ w.id = id
  BY DEF NextDoing, Doing, WorkRec
<1>2. work' = [work EXCEPT ![a] = w] /\ work \in [Workers -> WorkRec]
  BY DEF NextDoing, Becomes, ServiceTypes
<1>3. pc # "store" /\ (pc \in {"connect", "checking"} => id \in ProfileIds)
  BY DEF NextDoing
<1> HIDE DEF w
<1>4. work'[a] = w /\ \A b \in Workers : b # a => work'[b] = work[b]
  BY <1>2
<1>5. work' \in [Workers -> WorkRec]
  BY <1>1, <1>2
<1> QED BY <1>1, <1>3, <1>4, <1>5 DEF ServiceTypes, HasTunnel

\* A step that moves no tunnel only has to leave an active profile up.
LEMMA NothingMoves ==
  ASSUME ServiceInv, ServiceTypes', PoolTypes', UNCHANGED <<tunnelsMade, tunnelsOpen, replaced, tunnelsOverlapped>>,
         \A q \in ProfileIds : (Up(q)' <=> Up(q)) /\ (Up(q) => tunnels'[q].tun = tunnels[q].tun),
         \A b \in Workers : work'[b].tun = work[b].tun,
         DirectEntry' = DirectEntry,
         \A e \in 1 .. DirectEntry : proxies'[e].id = proxies[e].id /\ proxies'[e].tun = proxies[e].tun,
         activeID' = activeID \/ activeID' = NoEntry \/ Up(activeID')
  PROVE  ServiceInv'
<1>1. OneHolder'
  BY DEF ServiceInv, OneHolder, HasTunnel
<1>2. ASSUME ~tunnelsOverlapped PROVE Undisturbed'
  <2>1. Undisturbed /\ PoolTypes
    BY <1>2 DEF ServiceInv
  <2>2. activeID' \in ProfileIds \cup {NoEntry} /\ activeID \in ProfileIds \cup {NoEntry}
    BY DEF ServiceInv, ServiceTypes
  <2>3. activeID' # NoEntry => Up(activeID)'
    <3> SUFFICES ASSUME activeID' # NoEntry PROVE tunnels'[activeID'] # NoEntry /\ tunnels'[activeID'].tun # NoEntry
      BY DEF Up
    <3>1. Up(activeID')
      BY <2>1, <2>2 DEF Undisturbed
    <3>2. PICK q \in ProfileIds : q = activeID'
      BY <2>2
    <3>3. Up(q)'
      BY <3>1, <3>2
    <3> QED BY <3>2, <3>3 DEF Up
  <2>4. \A t \in tunnelsOpen' : Held(t)'
    <3>1. \A t \in tunnelsOpen : Held(t)
      BY <2>1 DEF Undisturbed
    <3>2. \A t : Held(t) => Held(t)'
      BY DEF Held
    <3> QED BY <3>1, <3>2
  <2>5. ASSUME NEW e \in 1 .. DirectEntry PROVE Kept(e)'
    <3>1. CASE proxies[e].id = Direct
      BY <3>1 DEF Kept
    <3>2. CASE proxies[e].id # Direct
      <4>1. proxies[e].id \in ProfileIds
        <5>1. proxies[e] \in PoolEntry
          BY <2>1 DEF PoolTypes, DirectEntry
        <5> QED BY <5>1, <3>2 DEF PoolEntry
      <4>2. FromStart(proxies[e].id, proxies[e].tun)
        BY <2>1, <3>2 DEF Undisturbed, Kept
      <4>3. proxies[e].id \notin replaced => (Up(proxies[e].id) /\ tunnels[proxies[e].id].tun = proxies[e].tun)
        BY <4>2 DEF FromStart
      <4>4. PICK q \in ProfileIds : q = proxies[e].id
        BY <4>1
      <4>5. q \notin replaced' => Up(q)' /\ tunnels'[q].tun = proxies[e].tun
        BY <4>3, <4>4
      <4> QED BY <4>4, <4>5 DEF Kept, FromStart, Up
    <3> QED BY <3>1, <3>2
  <2> QED BY <2>3, <2>4, <2>5 DEF Undisturbed
<1> QED BY <1>1, <1>2 DEF ServiceInv

\* The pool's entries stay what they are.
LEMMA PoolStays ==
  ASSUME ServiceInv, PoolSame
  PROVE  /\ PoolTypes' /\ DirectEntry' = DirectEntry
         /\ \A e \in 1 .. DirectEntry : proxies'[e].id = proxies[e].id /\ proxies'[e].tun = proxies[e].tun
BY DEF ServiceInv, PoolTypes, PoolSame, DirectEntry

\* A goroutine that has no tunnel goes on.
LEMMA WorkGoesOn ==
  ASSUME ServiceInv, OnlyWork, NEW a \in Workers, ~HasTunnel(a),
         NEW pc, NEW snap, NEW todo, NEW id, NextDoing(a, pc, snap, todo, id)
  PROVE  ServiceInv'
<1> USE DEF OnlyWork, TunnelsSame, PoolSame
<1>1. /\ work' \in [Workers -> WorkRec] /\ ~HasTunnel(a)'
      /\ \A b \in Workers : b # a => work'[b] = work[b]
      /\ \A b \in Workers : work'[b].pc \in {"connect", "store", "checking"} => work'[b].id \in ProfileIds
      /\ \A b \in Workers : work'[b].pc = "store" <=> work'[b].tun # NoEntry
  BY DoingTyped DEF ServiceInv
<1>2. \A b \in Workers : work'[b].tun = work[b].tun
  BY <1>1 DEF HasTunnel
<1>3. \A q \in ProfileIds : Up(q)' <=> Up(q)
  BY DEF Up
<1>4. ServiceTypes'
  BY <1>1 DEF ServiceInv, ServiceTypes
<1> QED BY <1>2, <1>3, <1>4, PoolStays, NothingMoves

\* A goroutine without a tunnel says so.
LEMMA NoTunnelYet ==
  ASSUME ServiceInv, NEW a \in Workers, work[a].pc # "store"
  PROVE  ~HasTunnel(a)
BY DEF ServiceInv, ServiceTypes, HasTunnel

\* What is known of a goroutine's record.
LEMMA WorkTyped ==
  ASSUME ServiceInv, NEW a \in Workers
  PROVE  /\ work[a].snap \in Listings \cup {<<>>} /\ work[a].todo \subseteq ProfileIds
         /\ work[a].id \in ProfileIds \cup {NoEntry} /\ work[a].pc \in WorkPlaces
         /\ work[a].tun \in Nat \cup {NoEntry}
BY DEF ServiceInv, ServiceTypes, WorkRec

\* The steps in which a goroutine reads, or lists, and goes on.
LEMMA Reads ==
  ASSUME ServiceInv, NEW a \in Workers,
         \/ SyncProfiles(a) \/ SyncCheck(a) \/ SyncGone(a) \/ SyncDropped(a) \/ SelectList(a)
         \/ RunHealthChecks(a) \/ HealthLook(a) \/ HealthDone(a)
  PROVE  ServiceInv'
<1> USE NoTunnelYet, WorkTyped
<1>1. OnlyWork /\ ~HasTunnel(a)
  <2>1. OnlyWork /\ work[a].pc # "store"
    BY DEF SyncProfiles, SyncCheck, SyncGone, SyncDropped, SelectList, RunHealthChecks, HealthLook, HealthDone
  <2> QED BY <2>1
<1>2. profiles \in Listings
  BY DEF ServiceInv, ServiceTypes
<1>3. \A pc, snap, todo, id : NextDoing(a, pc, snap, todo, id) => ServiceInv'
  BY <1>1, WorkGoesOn
<1>4. CASE SyncProfiles(a)
  <2>1. NextDoing(a, "sync", profiles, EnabledIds, NoEntry)
    BY <1>2, <1>4 DEF SyncProfiles, NextDoing, WorkPlaces, EnabledIds
  <2> QED BY <1>3, <2>1
<1>5. CASE SyncCheck(a)
  <2> DEFINE p == FirstOf(work[a].todo)
  <2>1. p \in ProfileIds
    BY <1>5, FirstOfIn DEF SyncCheck
  <2> HIDE DEF p
  <2>2. Becomes(a, Doing(IF tunnels[p] = NoEntry THEN "connect" ELSE "sync", work[a].snap, work[a].todo \ {p}, p))
    BY <1>5 DEF SyncCheck, p
  <2>3. PICK pc \in {"connect", "sync"} : Becomes(a, Doing(pc, work[a].snap, work[a].todo \ {p}, p))
    <3>1. CASE tunnels[p] = NoEntry
      BY <2>2, <3>1, Zenon
    <3>2. CASE tunnels[p] # NoEntry
      BY <2>2, <3>2, Zenon
    <3> QED BY <3>1, <3>2
  <2>4. NextDoing(a, pc, work[a].snap, work[a].todo \ {p}, p)
    BY <2>1, <2>3 DEF NextDoing, WorkPlaces
  <2> QED BY <1>3, <2>4
<1>6. CASE SyncGone(a)
  <2>1. NextDoing(a, "drop", <<>>, {p \in ProfileIds : tunnels[p] # NoEntry /\ work[a].snap[p] # "on"}, NoEntry)
    BY <1>6 DEF SyncGone, NextDoing, WorkPlaces
  <2> QED BY <1>3, <2>1
<1>7. CASE SyncDropped(a)
  <2>1. NextDoing(a, "list", <<>>, {}, NoEntry)
    BY <1>7 DEF SyncDropped, NextDoing, WorkPlaces
  <2> QED BY <1>3, <2>1
<1>8. CASE SelectList(a)
  <2>1. NextDoing(a, "select", profiles, {}, NoEntry)
    BY <1>2, <1>8 DEF SelectList, NextDoing, WorkPlaces
  <2> QED BY <1>3, <2>1
<1>9. CASE RunHealthChecks(a)
  <2>1. NextDoing(a, "health", <<>>, EnabledIds, NoEntry)
    BY <1>9 DEF RunHealthChecks, NextDoing, WorkPlaces, EnabledIds
  <2> QED BY <1>3, <2>1
<1>10. CASE HealthLook(a)
  <2> DEFINE p == FirstOf(work[a].todo)
  <2>1. p \in ProfileIds
    BY <1>10, FirstOfIn DEF HealthLook
  <2> HIDE DEF p
  <2>2. Becomes(a, Doing(IF Up(p) THEN "checking" ELSE "health", <<>>, work[a].todo \ {p}, p))
    BY <1>10 DEF HealthLook, p
  <2>3. PICK pc \in {"checking", "health"} : Becomes(a, Doing(pc, <<>>, work[a].todo \ {p}, p))
    <3>1. CASE Up(p)
      BY <2>2, <3>1, Zenon
    <3>2. CASE ~Up(p)
      BY <2>2, <3>2, Zenon
    <3> QED BY <3>1, <3>2
  <2>4. NextDoing(a, pc, <<>>, work[a].todo \ {p}, p)
    BY <2>1, <2>3 DEF NextDoing, WorkPlaces
  <2> QED BY <1>3, <2>4
<1>11. CASE HealthDone(a)
  <2>1. NextDoing(a, "list", <<>>, {}, NoEntry)
    BY <1>11 DEF HealthDone, NextDoing, WorkPlaces
  <2> QED BY <1>3, <2>1
<1> QED BY <1>4, <1>5, <1>6, <1>7, <1>8, <1>9, <1>10, <1>11

\* A check writes its result to a tunnel that stays where it is, or to none.
LEMMA CheckHolds ==
  ASSUME ServiceInv, NEW a \in Workers, NEW ok \in BOOLEAN, checkHealth(a, ok)
  PROVE  ServiceInv'
<1> DEFINE p == work[a].id
<1>1. p \in ProfileIds /\ ~HasTunnel(a)
  BY NoTunnelYet DEF checkHealth, ServiceInv, ServiceTypes
<1>2. NextDoing(a, "health", <<>>, work[a].todo, NoEntry)
  BY WorkTyped DEF checkHealth, NextDoing, WorkPlaces
<1>3. PoolSame /\ UNCHANGED <<profiles, activeID, tunnelsMade, tunnelsOpen, tunnelsOverlapped, replaced>>
  BY DEF checkHealth
<1>4. tunnels' = IF tunnels[p] = NoEntry THEN tunnels
                 ELSE [tunnels EXCEPT ![p] = [tun |-> tunnels[p].tun, healthy |-> ok]]
  BY DEF checkHealth
<1>5. tunnels \in [ProfileIds -> TunnelRec \cup {NoEntry}]
  BY DEF ServiceInv, ServiceTypes
<1> HIDE DEF p
<1>6. /\ work' \in [Workers -> WorkRec] /\ ~HasTunnel(a)'
      /\ \A b \in Workers : b # a => work'[b] = work[b]
      /\ \A b \in Workers : work'[b].pc \in {"connect", "store", "checking"} => work'[b].id \in ProfileIds
      /\ \A b \in Workers : work'[b].pc = "store" <=> work'[b].tun # NoEntry
  BY <1>2, DoingTyped DEF ServiceInv
<1>7. \A b \in Workers : work'[b].tun = work[b].tun
  BY <1>1, <1>6 DEF HasTunnel
<1>8. /\ tunnels' \in [ProfileIds -> TunnelRec \cup {NoEntry}]
      /\ \A q \in ProfileIds : (Up(q)' <=> Up(q)) /\ (Up(q) => tunnels'[q].tun = tunnels[q].tun)
  <2>1. CASE tunnels[p] = NoEntry
    <3>1. tunnels' = tunnels
      BY <1>4, <2>1, Zenon
    <3> QED BY <1>5, <3>1 DEF Up
  <2>2. CASE tunnels[p] # NoEntry
    <3> DEFINE r == [tun |-> tunnels[p].tun, healthy |-> ok]
    <3>1. tunnels[p] \in TunnelRec
      BY <1>1, <1>5, <2>2
    <3>2. r.tun = tunnels[p].tun /\ r \in TunnelRec /\ r # NoEntry
      BY <3>1, MultiAssumption DEF TunnelRec
    <3>3. tunnels' = [tunnels EXCEPT ![p] = r]
      BY <1>4, <2>2, Zenon
    <3> HIDE DEF r
    <3>4. tunnels'[p] = r /\ \A q \in ProfileIds : q # p => tunnels'[q] = tunnels[q]
      BY <1>1, <1>5, <3>3
    <3>5. \A q \in ProfileIds : (Up(q)' <=> Up(q)) /\ (Up(q) => tunnels'[q].tun = tunnels[q].tun)
      BY <3>2, <3>4, <2>2 DEF Up
    <3>6. tunnels' \in [ProfileIds -> TunnelRec \cup {NoEntry}]
      BY <1>5, <3>2, <3>3
    <3> QED BY <3>5, <3>6
  <2> QED BY <2>1, <2>2
<1>9. ServiceTypes'
  BY <1>3, <1>6, <1>8 DEF ServiceInv, ServiceTypes
<1> QED BY <1>3, <1>7, <1>8, <1>9, PoolStays, NothingMoves

\* The active profile is one that is up, by priority or by choice.
LEMMA ChoiceHolds ==
  ASSUME ServiceInv, (\E a \in Workers : selectBestActive(a)) \/ (\E p \in ProfileIds : SetActiveProfile(p))
  PROVE  ServiceInv'
<1>1. /\ PoolSame /\ UNCHANGED <<profiles, tunnels, tunnelsMade, tunnelsOpen, tunnelsOverlapped, replaced>>
  BY DEF selectBestActive, SetActiveProfile
<1>2. \A q \in ProfileIds : (Up(q)' <=> Up(q)) /\ (Up(q) => tunnels'[q].tun = tunnels[q].tun)
  BY <1>1 DEF Up
<1>3. ASSUME NEW a \in Workers, selectBestActive(a) PROVE ServiceInv'
  <2> DEFINE best == Best(work[a].snap)
  <2>1. ~HasTunnel(a)
    BY <1>3, NoTunnelYet DEF selectBestActive
  <2>2. NextDoing(a, "rest", <<>>, {}, NoEntry)
    BY <1>3 DEF selectBestActive, NextDoing, WorkPlaces, Rested
  <2>3. activeID' = NoEntry \/ activeID' \in best
    <3>1. CASE best = {}
      BY <1>3, <3>1 DEF selectBestActive
    <3>2. CASE best # {}
      <4>1. FirstOf(best) \in best
        BY <3>2, FirstOfIn DEF Best
      <4> QED BY <1>3, <3>2, <4>1 DEF selectBestActive
    <3> QED BY <3>1, <3>2
  <2>4. activeID' = NoEntry \/ (activeID' \in ProfileIds /\ Up(activeID'))
    BY <2>3 DEF Best
  <2>5. /\ work' \in [Workers -> WorkRec] /\ ~HasTunnel(a)'
        /\ \A b \in Workers : b # a => work'[b] = work[b]
        /\ \A b \in Workers : work'[b].pc \in {"connect", "store", "checking"} => work'[b].id \in ProfileIds
        /\ \A b \in Workers : work'[b].pc = "store" <=> work'[b].tun # NoEntry
    BY <2>2, DoingTyped DEF ServiceInv
  <2>6. \A b \in Workers : work'[b].tun = work[b].tun
    BY <2>1, <2>5 DEF HasTunnel
  <2>7. ServiceTypes'
    BY <1>1, <2>4, <2>5 DEF ServiceInv, ServiceTypes
  <2> QED BY <1>1, <1>2, <2>4, <2>6, <2>7, PoolStays, NothingMoves
<1>4. ASSUME NEW p \in ProfileIds, SetActiveProfile(p) PROVE ServiceInv'
  <2>1. activeID' = p /\ Up(p) /\ work' = work
    BY <1>4 DEF SetActiveProfile
  <2>2. ServiceTypes'
    BY <1>1, <2>1 DEF ServiceInv, ServiceTypes
  <2> QED BY <1>1, <1>2, <2>1, <2>2, PoolStays, NothingMoves
<1> QED BY <1>3, <1>4

\* What is written to the store has no effect on the tunnels.
LEMMA EditHolds ==
  ASSUME ServiceInv, NEW p \in ProfileIds, NEW to \in {"on", "off", NoEntry}, EditProfile(p, to)
  PROVE  ServiceInv'
<1>1. TunnelsSame /\ PoolSame /\ work' = work /\ profiles' = [profiles EXCEPT ![p] = to]
  BY DEF EditProfile
<1>2. profiles' \in Listings
  BY <1>1 DEF ServiceInv, ServiceTypes, Listings
<1>3. ServiceTypes'
  BY <1>1, <1>2 DEF ServiceInv, ServiceTypes, TunnelsSame
<1>4. \A q \in ProfileIds : (Up(q)' <=> Up(q)) /\ (Up(q) => tunnels'[q].tun = tunnels[q].tun)
  BY <1>1 DEF TunnelsSame, Up
<1> QED BY <1>1, <1>3, <1>4, PoolStays, NothingMoves DEF TunnelsSame

\* One entry of the map is written.
LEMMA OneEntry ==
  ASSUME ServiceTypes, NEW p \in ProfileIds, NEW r \in TunnelRec \cup {NoEntry}, tunnels' = [tunnels EXCEPT ![p] = r]
  PROVE  /\ tunnels' \in [ProfileIds -> TunnelRec \cup {NoEntry}] /\ tunnels'[p] = r
         /\ \A q \in ProfileIds : q # p => tunnels'[q] = tunnels[q]
         /\ \A q \in ProfileIds : q # p => (Up(q)' <=> Up(q))
         /\ Up(p)' <=> r # NoEntry /\ r.tun # NoEntry
<1>1. tunnels \in [ProfileIds -> TunnelRec \cup {NoEntry}]
  BY DEF ServiceTypes
<1>2. tunnels' \in [ProfileIds -> TunnelRec \cup {NoEntry}] /\ tunnels'[p] = r
      /\ \A q \in ProfileIds : q # p => tunnels'[q] = tunnels[q]
  BY <1>1
<1> QED BY <1>2 DEF Up

\* An attempt that fails leaves an entry without a tunnel; if it takes a
\* tunnel away, another goroutine had connected the profile.
LEMMA FailedConnects ==
  ASSUME ServiceInv, NEW a \in Workers, connectProfileFails(a)
  PROVE  ServiceInv'
<1> DEFINE r == [tun |-> NoEntry, healthy |-> FALSE]
<1>0. PICK p \in ProfileIds : p = work[a].id
  BY DEF connectProfileFails, ServiceInv, ServiceTypes
<1>1. ~HasTunnel(a)
  BY NoTunnelYet DEF connectProfileFails
<1>2. PICK pc \in {"rest", "sync"} : Becomes(a, Doing(pc, work[a].snap, work[a].todo, NoEntry))
  <2>1. Becomes(a, Doing(IF Reconnecting(a) THEN "rest" ELSE "sync", work[a].snap, work[a].todo, NoEntry))
    BY DEF connectProfileFails
  <2>2. CASE Reconnecting(a)
    BY <2>1, <2>2, Zenon
  <2>3. CASE ~Reconnecting(a)
    BY <2>1, <2>3, Zenon
  <2> QED BY <2>2, <2>3
<1>3. NextDoing(a, pc, work[a].snap, work[a].todo, NoEntry)
  BY <1>2, WorkTyped DEF NextDoing, WorkPlaces
<1>4. /\ PoolSame /\ UNCHANGED <<profiles, activeID, tunnelsMade, tunnelsOpen, replaced>>
      /\ tunnels' = [tunnels EXCEPT ![p] = r] /\ tunnelsOverlapped' = (tunnelsOverlapped \/ tunnels[p] # NoEntry)
  BY <1>0 DEF connectProfileFails
<1>5. r \in TunnelRec /\ r.tun = NoEntry
  BY DEF TunnelRec
<1> HIDE DEF r
<1>6. /\ work' \in [Workers -> WorkRec] /\ ~HasTunnel(a)'
      /\ \A b \in Workers : b # a => work'[b] = work[b]
      /\ \A b \in Workers : work'[b].pc \in {"connect", "store", "checking"} => work'[b].id \in ProfileIds
      /\ \A b \in Workers : work'[b].pc = "store" <=> work'[b].tun # NoEntry
  BY <1>3, DoingTyped DEF ServiceInv
<1>7. \A b \in Workers : work'[b].tun = work[b].tun
  BY <1>1, <1>6 DEF HasTunnel
<1>8. /\ tunnels' \in [ProfileIds -> TunnelRec \cup {NoEntry}] /\ tunnels'[p] = r
      /\ \A q \in ProfileIds : q # p => tunnels'[q] = tunnels[q]
      /\ \A q \in ProfileIds : q # p => (Up(q)' <=> Up(q))
      /\ ~Up(p)'
  BY <1>1, <1>4, <1>5, OneEntry DEF ServiceInv
<1>9. ServiceTypes'
  BY <1>4, <1>6, <1>8 DEF ServiceInv, ServiceTypes
<1>10. CASE tunnels[p] = NoEntry
  <2>1. ~Up(p)
    BY <1>10 DEF Up
  <2>2. \A q \in ProfileIds : (Up(q)' <=> Up(q)) /\ (Up(q) => tunnels'[q].tun = tunnels[q].tun)
    BY <2>1, <1>8
  <2>3. tunnelsOverlapped' = tunnelsOverlapped
    BY <1>4, <1>10 DEF ServiceInv, ServiceTypes
  <2> QED BY <1>4, <1>7, <1>9, <2>2, <2>3, PoolStays, NothingMoves
<1>11. CASE tunnels[p] # NoEntry
  <2>1. OneHolder'
    <3>1. \A q \in ProfileIds : Up(q)' => Up(q) /\ tunnels'[q].tun = tunnels[q].tun
      BY <1>8
    <3> QED BY <1>4, <1>7, <3>1 DEF ServiceInv, OneHolder, HasTunnel
  <2>2. tunnelsOverlapped'
    BY <1>4, <1>11
  <2> QED BY <1>4, <1>9, <2>1, <2>2, PoolStays DEF ServiceInv
<1> QED BY <1>10, <1>11

\* A new tunnel is the goroutine's that made it.
LEMMA TunnelsMadeNew ==
  ASSUME ServiceInv, NEW a \in Workers, MakeTunnel(a)
  PROVE  ServiceInv'
<1>0. tunnelsMade \in Nat
  BY DEF ServiceInv, ServiceTypes
<1> DEFINE w == [work[a] EXCEPT !.pc = "store", !.tun = tunnelsMade + 1]
<1>t. PICK t \in Nat : t = tunnelsMade + 1
  BY <1>0
<1>1. /\ tunnelsMade' = t /\ tunnelsOpen' = tunnelsOpen \cup {t} /\ Becomes(a, w)
      /\ PoolSame /\ UNCHANGED <<profiles, tunnels, activeID, tunnelsOverlapped, replaced>>
  BY <1>t DEF MakeTunnel
<1>2. work[a].pc = "connect" /\ ~HasTunnel(a) /\ work[a].id \in ProfileIds
  BY NoTunnelYet DEF MakeTunnel, ServiceInv, ServiceTypes
<1>3. tunnelsMade \in Nat /\ t \in Nat /\ t > tunnelsMade /\ t # NoEntry
  BY <1>0, <1>t, MultiAssumption
<1>4. w \in WorkRec /\ w.tun = t /\ w.pc = "store" /\ w.id = work[a].id
  BY <1>3, <1>t DEF ServiceInv, ServiceTypes, WorkRec, WorkPlaces
<1> HIDE DEF w
<1>5. work'[a] = w /\ \A b \in Workers : b # a => work'[b] = work[b]
  BY <1>1, WorkIs DEF ServiceInv
<1>6. work' \in [Workers -> WorkRec]
  BY <1>1, <1>4 DEF ServiceInv, ServiceTypes, Becomes
<1>7. ServiceTypes'
  <2>1. \A b \in Workers : work'[b].pc \in {"connect", "store", "checking"} => work'[b].id \in ProfileIds
    BY <1>2, <1>4, <1>5 DEF ServiceInv, ServiceTypes
  <2>2. \A b \in Workers : work'[b].pc = "store" <=> work'[b].tun # NoEntry
    BY <1>3, <1>4, <1>5 DEF ServiceInv, ServiceTypes
  <2> QED BY <1>1, <1>3, <1>6, <2>1, <2>2 DEF ServiceInv, ServiceTypes
<1>8. \A q \in ProfileIds : Up(q)' <=> Up(q)
  BY <1>1 DEF Up
<1>9. work'[a].tun = t /\ HasTunnel(a)' /\ \A b \in Workers : b # a => (HasTunnel(b)' <=> HasTunnel(b)) /\ work'[b].tun = work[b].tun
  BY <1>3, <1>4, <1>5 DEF HasTunnel
<1>10. /\ \A q \in ProfileIds : Up(q) => tunnels[q].tun \in Nat /\ tunnels[q].tun <= tunnelsMade
       /\ \A b \in Workers : HasTunnel(b) => work[b].tun \in Nat /\ work[b].tun <= tunnelsMade
  BY DEF ServiceInv, OneHolder, ServiceTypes
<1>11. OneHolder'
  <2>1. \A q \in ProfileIds : Up(q)' => tunnels'[q].tun \in tunnelsOpen' /\ tunnels'[q].tun <= tunnelsMade'
    BY <1>1, <1>3, <1>8, <1>10 DEF ServiceInv, OneHolder
  <2>2. \A b \in Workers : HasTunnel(b)' => work'[b].tun \in tunnelsOpen' /\ work'[b].tun <= tunnelsMade'
    BY <1>1, <1>3, <1>9, <1>10 DEF ServiceInv, OneHolder
  <2>3. \A p, q \in ProfileIds : Up(p)' /\ Up(q)' /\ tunnels'[p].tun = tunnels'[q].tun => p = q
    BY <1>1, <1>8 DEF ServiceInv, OneHolder
  <2>4. \A b, c \in Workers : HasTunnel(b)' /\ HasTunnel(c)' /\ work'[b].tun = work'[c].tun => b = c
    BY <1>3, <1>9, <1>10 DEF ServiceInv, OneHolder
  <2>5. \A p \in ProfileIds, b \in Workers : Up(p)' /\ HasTunnel(b)' => tunnels'[p].tun # work'[b].tun
    BY <1>1, <1>3, <1>8, <1>9, <1>10 DEF ServiceInv, OneHolder
  <2> QED BY <2>1, <2>2, <2>3, <2>4, <2>5 DEF OneHolder
<1>12. ASSUME ~tunnelsOverlapped PROVE Undisturbed'
  <2>1. Undisturbed
    BY <1>12 DEF ServiceInv
  <2>2. \A x \in tunnelsOpen' : Held(x)'
    <3>1. \A x \in tunnelsOpen : Held(x)
      BY <2>1 DEF Undisturbed
    <3>2. ASSUME NEW x, Held(x), x # NoEntry PROVE Held(x)'
      <4>1. CASE \E p \in ProfileIds : Up(p) /\ tunnels[p].tun = x
        BY <1>1, <1>8, <4>1 DEF Held
      <4>2. CASE \E b \in Workers : work[b].tun = x
        BY <1>2, <1>9, <3>2, <4>2 DEF Held, HasTunnel
      <4> QED BY <3>2, <4>1, <4>2 DEF Held
    <3>3. NoEntry \notin tunnelsOpen
      BY MultiAssumption DEF ServiceInv, ServiceTypes
    <3>4. Held(t)'
      BY <1>9 DEF Held
    <3> QED BY <1>1, <3>1, <3>2, <3>3, <3>4
  <2>3. activeID' # NoEntry => Up(activeID)'
    BY <1>1, <2>1 DEF Undisturbed, Up
  <2>4. \A e : Kept(e)' <=> Kept(e)
    BY <1>1 DEF Kept, FromStart, Up, PoolSame
  <2> QED BY <1>1, <2>1, <2>2, <2>3, <2>4 DEF Undisturbed, PoolSame, DirectEntry
<1>13. tunnelsOverlapped' = tunnelsOverlapped
  BY <1>1
<1> QED BY <1>1, <1>7, <1>11, <1>12, <1>13, PoolStays DEF ServiceInv

\* A goroutine gives its tunnel to the profile. If the profile had an entry,
\* another goroutine had connected it, and the tunnel it had is lost.
LEMMA ConnectHolds ==
  ASSUME ServiceInv, NEW a \in Workers, connectProfile(a)
  PROVE  ServiceInv'
<1>1. PICK p \in ProfileIds : p = work[a].id
  BY DEF connectProfile, ServiceInv, ServiceTypes
<1>2. PICK t \in Nat : t = work[a].tun
  BY WorkTyped DEF connectProfile, ServiceInv, ServiceTypes
<1> DEFINE r == [tun |-> t, healthy |-> TRUE]
<1>3. PICK pc \in {"list", "sync"} : Becomes(a, Doing(pc, work[a].snap, work[a].todo, NoEntry))
  <2>1. Becomes(a, Doing(IF Reconnecting(a) THEN "list" ELSE "sync", work[a].snap, work[a].todo, NoEntry))
    BY DEF connectProfile
  <2>2. CASE Reconnecting(a)
    BY <2>1, <2>2, Zenon
  <2>3. CASE ~Reconnecting(a)
    BY <2>1, <2>3, Zenon
  <2> QED BY <2>2, <2>3
<1>4. NextDoing(a, pc, work[a].snap, work[a].todo, NoEntry)
  BY <1>3, WorkTyped DEF NextDoing, WorkPlaces
<1>5. /\ PoolSame /\ UNCHANGED <<profiles, activeID, tunnelsMade, tunnelsOpen, replaced>>
      /\ tunnels' = [tunnels EXCEPT ![p] = r] /\ tunnelsOverlapped' = (tunnelsOverlapped \/ tunnels[p] # NoEntry)
  BY <1>1, <1>2 DEF connectProfile
<1>6. r \in TunnelRec /\ r.tun = t /\ t # NoEntry /\ r # NoEntry
  <2>1. r \in TunnelRec /\ r.tun = t
    BY DEF TunnelRec
  <2>2. NoEntry \notin Nat /\ NoEntry \notin TunnelRec
    BY MultiAssumption DEF TunnelRec
  <2> HIDE DEF r
  <2> QED BY <2>1, <2>2
<1> HIDE DEF r
<1>7. /\ work' \in [Workers -> WorkRec] /\ ~HasTunnel(a)'
      /\ \A b \in Workers : b # a => work'[b] = work[b]
      /\ \A b \in Workers : work'[b].pc \in {"connect", "store", "checking"} => work'[b].id \in ProfileIds
      /\ \A b \in Workers : work'[b].pc = "store" <=> work'[b].tun # NoEntry
  BY <1>4, DoingTyped DEF ServiceInv
<1>8. /\ tunnels' \in [ProfileIds -> TunnelRec \cup {NoEntry}] /\ tunnels'[p] = r
      /\ \A q \in ProfileIds : q # p => tunnels'[q] = tunnels[q]
      /\ \A q \in ProfileIds : q # p => (Up(q)' <=> Up(q))
      /\ Up(p)'
  BY <1>5, <1>6, OneEntry DEF ServiceInv
<1>9. ServiceTypes'
  BY <1>5, <1>7, <1>8 DEF ServiceInv, ServiceTypes
<1>10. /\ HasTunnel(a) /\ \A b \in Workers : HasTunnel(b)' => b # a /\ HasTunnel(b)
       /\ \A b \in Workers : b # a => work'[b].tun = work[b].tun
  BY <1>2, <1>6, <1>7 DEF HasTunnel
<1>11. OneHolder'
  <2>1. /\ \A b \in Workers : HasTunnel(b) /\ b # a => work[b].tun # t
        /\ \A q \in ProfileIds : Up(q) => tunnels[q].tun # t
        /\ t \in tunnelsOpen /\ t <= tunnelsMade
    BY <1>2, <1>10 DEF ServiceInv, OneHolder
  <2>2. \A q \in ProfileIds : Up(q)' => tunnels'[q].tun \in tunnelsOpen' /\ tunnels'[q].tun <= tunnelsMade'
    BY <1>5, <1>6, <1>8, <2>1 DEF ServiceInv, OneHolder
  <2>3. \A b \in Workers : HasTunnel(b)' => work'[b].tun \in tunnelsOpen' /\ work'[b].tun <= tunnelsMade'
    BY <1>5, <1>10 DEF ServiceInv, OneHolder
  <2>4. \A o, q \in ProfileIds : Up(o)' /\ Up(q)' /\ tunnels'[o].tun = tunnels'[q].tun => o = q
    BY <1>6, <1>8, <2>1 DEF ServiceInv, OneHolder
  <2>5. \A b, c \in Workers : HasTunnel(b)' /\ HasTunnel(c)' /\ work'[b].tun = work'[c].tun => b = c
    BY <1>10 DEF ServiceInv, OneHolder
  <2>6. \A q \in ProfileIds, b \in Workers : Up(q)' /\ HasTunnel(b)' => tunnels'[q].tun # work'[b].tun
    BY <1>6, <1>8, <1>10, <2>1 DEF ServiceInv, OneHolder
  <2> QED BY <2>2, <2>3, <2>4, <2>5, <2>6 DEF OneHolder
<1>12. ASSUME ~tunnelsOverlapped' PROVE Undisturbed'
  <2>1. tunnels[p] = NoEntry /\ Undisturbed
    BY <1>5, <1>12 DEF ServiceInv
  <2>2. ~Up(p)
    BY <2>1 DEF Up
  <2>3. \A x \in tunnelsOpen' : Held(x)'
    <3>1. \A x \in tunnelsOpen : Held(x)
      BY <2>1 DEF Undisturbed
    <3>2. Held(t)'
      BY <1>6, <1>8 DEF Held
    <3>3. ASSUME NEW x, Held(x), x # t PROVE Held(x)'
      <4>1. CASE \E q \in ProfileIds : Up(q) /\ tunnels[q].tun = x
        BY <1>8, <2>2, <4>1 DEF Held
      <4>2. CASE \E b \in Workers : work[b].tun = x
        BY <1>2, <1>10, <3>3, <4>2 DEF Held
      <4> QED BY <3>3, <4>1, <4>2 DEF Held
    <3> QED BY <1>5, <3>1, <3>2, <3>3
  <2>4. activeID' # NoEntry => Up(activeID)'
    <3> SUFFICES ASSUME activeID # NoEntry PROVE Up(activeID)'
      BY <1>5
    <3>1. PICK q \in ProfileIds : q = activeID
      BY DEF ServiceInv, ServiceTypes
    <3>2. Up(q)'
      BY <1>8, <2>1, <2>2, <3>1 DEF Undisturbed
    <3> QED BY <1>5, <3>1, <3>2 DEF Up
  <2>5. ASSUME NEW e \in 1 .. DirectEntry PROVE Kept(e)'
    <3> SUFFICES ASSUME proxies[e].id # Direct, proxies[e].id \notin replaced PROVE FromStart(proxies[e].id, proxies[e].tun)'
      BY <1>5 DEF Kept, PoolSame, FromStart
    <3>1. Up(proxies[e].id) /\ tunnels[proxies[e].id].tun = proxies[e].tun
      BY <2>1 DEF Undisturbed, Kept, FromStart
    <3>2. proxies[e] \in PoolEntry
      BY DEF ServiceInv, PoolTypes, DirectEntry
    <3>3. PICK q \in ProfileIds : q = proxies[e].id
      BY <3>2 DEF PoolEntry
    <3>4. Up(q)' /\ tunnels'[q] = tunnels[q]
      BY <1>8, <2>2, <3>1, <3>3
    <3> QED BY <1>5, <3>1, <3>3, <3>4 DEF FromStart, Up, PoolSame
  <2> QED BY <1>5, <2>3, <2>4, <2>5, PoolStays DEF Undisturbed
<1> QED BY <1>5, <1>9, <1>11, <1>12, PoolStays DEF ServiceInv

\* A tunnel that is closed is taken from its profile, which is then not active.
LEMMA Disconnects ==
  ASSUME ServiceInv, NEW p \in ProfileIds, disconnectProfile(p), NEW a \in Workers, ~HasTunnel(a),
         NEW pc, NEW snap, NEW todo, NEW id, NextDoing(a, pc, snap, todo, id),
         PoolSame, UNCHANGED <<profiles, tunnelsMade, tunnelsOverlapped>>
  PROVE  ServiceInv'
<1>1. /\ work' \in [Workers -> WorkRec] /\ ~HasTunnel(a)'
      /\ \A b \in Workers : b # a => work'[b] = work[b]
      /\ \A b \in Workers : work'[b].pc \in {"connect", "store", "checking"} => work'[b].id \in ProfileIds
      /\ \A b \in Workers : work'[b].pc = "store" <=> work'[b].tun # NoEntry
  BY DoingTyped DEF ServiceInv
<1>2. \A b \in Workers : work'[b].tun = work[b].tun
  BY <1>1 DEF HasTunnel
<1>3. CASE tunnels[p] = NoEntry
  <2>1. UNCHANGED <<tunnels, tunnelsOpen, replaced, activeID>>
    BY <1>3 DEF disconnectProfile
  <2>2. ServiceTypes'
    BY <1>1, <2>1 DEF ServiceInv, ServiceTypes
  <2>3. \A q \in ProfileIds : (Up(q)' <=> Up(q)) /\ (Up(q) => tunnels'[q].tun = tunnels[q].tun)
    BY <2>1 DEF Up
  <2> QED BY <1>2, <2>1, <2>2, <2>3, PoolStays, NothingMoves
<1>4. CASE tunnels[p] # NoEntry
  <2>1. /\ tunnels' = [tunnels EXCEPT ![p] = NoEntry] /\ tunnelsOpen' = tunnelsOpen \ {tunnels[p].tun}
        /\ replaced' = replaced \cup {p} /\ activeID' = (IF activeID = p THEN NoEntry ELSE activeID)
    BY <1>4 DEF disconnectProfile, NoLongerActive
  <2>2. /\ tunnels' \in [ProfileIds -> TunnelRec \cup {NoEntry}]
        /\ \A q \in ProfileIds : q # p => tunnels'[q] = tunnels[q]
        /\ \A q \in ProfileIds : q # p => (Up(q)' <=> Up(q))
        /\ ~Up(p)'
    BY <2>1, OneEntry DEF ServiceInv
  <2>3. activeID' = NoEntry \/ (activeID' = activeID /\ activeID # p)
    BY <2>1
  <2>4. ServiceTypes'
    BY <1>1, <2>1, <2>2, <2>3 DEF ServiceInv, ServiceTypes
  <2>5. \A q \in ProfileIds : Up(q)' => q # p /\ Up(q) /\ tunnels'[q].tun = tunnels[q].tun
    BY <2>2
  <2>6. OneHolder'
    <3>1. \A q \in ProfileIds : Up(q)' => tunnels'[q].tun \in tunnelsOpen' /\ tunnels'[q].tun <= tunnelsMade'
      <4>1. \A q \in ProfileIds : Up(q)' => tunnels[q].tun # tunnels[p].tun
        BY <1>4, <2>5 DEF ServiceInv, OneHolder, Up
      <4> QED BY <2>1, <2>5, <4>1 DEF ServiceInv, OneHolder
    <3>2. \A b \in Workers : HasTunnel(b)' => work'[b].tun \in tunnelsOpen' /\ work'[b].tun <= tunnelsMade'
      <4>1. \A b \in Workers : HasTunnel(b) => work[b].tun # tunnels[p].tun
        BY <1>4 DEF ServiceInv, OneHolder, Up, HasTunnel
      <4> QED BY <1>2, <2>1, <4>1 DEF ServiceInv, OneHolder, HasTunnel
    <3>3. \A o, q \in ProfileIds : Up(o)' /\ Up(q)' /\ tunnels'[o].tun = tunnels'[q].tun => o = q
      BY <2>5 DEF ServiceInv, OneHolder
    <3>4. \A b, c \in Workers : HasTunnel(b)' /\ HasTunnel(c)' /\ work'[b].tun = work'[c].tun => b = c
      BY <1>2 DEF ServiceInv, OneHolder, HasTunnel
    <3>5. \A q \in ProfileIds, b \in Workers : Up(q)' /\ HasTunnel(b)' => tunnels'[q].tun # work'[b].tun
      BY <1>2, <2>5 DEF ServiceInv, OneHolder, HasTunnel
    <3> QED BY <3>1, <3>2, <3>3, <3>4, <3>5 DEF OneHolder
  <2>7. ASSUME ~tunnelsOverlapped PROVE Undisturbed'
    <3>1. Undisturbed
      BY <2>7 DEF ServiceInv
    <3>2. ASSUME NEW x \in tunnelsOpen' PROVE Held(x)'
      <4>1. x \in tunnelsOpen /\ x # tunnels[p].tun
        BY <2>1
      <4>2. Held(x)
        BY <3>1, <4>1 DEF Undisturbed
      <4> QED BY <1>2, <2>2, <4>1, <4>2 DEF Held
    <3>3. activeID' # NoEntry => Up(activeID)'
      <4> SUFFICES ASSUME activeID' # NoEntry PROVE Up(activeID)'
        OBVIOUS
      <4>1. PICK q \in ProfileIds : q = activeID'
        BY <2>4 DEF ServiceTypes
      <4>2. Up(q)'
        BY <2>2, <2>3, <3>1, <4>1 DEF Undisturbed
      <4> QED BY <4>1, <4>2 DEF Up
    <3>4. ASSUME NEW e \in 1 .. DirectEntry PROVE Kept(e)'
      <4> SUFFICES ASSUME proxies[e].id # Direct, proxies[e].id \notin replaced' PROVE FromStart(proxies[e].id, proxies[e].tun)'
        BY DEF Kept, PoolSame, FromStart
      <4>1. proxies[e].id # p /\ Up(proxies[e].id) /\ tunnels[proxies[e].id].tun = proxies[e].tun
        BY <2>1, <3>1 DEF Undisturbed, Kept, FromStart
      <4>2. proxies[e] \in PoolEntry
        BY DEF ServiceInv, PoolTypes, DirectEntry
      <4>3. PICK q \in ProfileIds : q = proxies[e].id
        BY <4>2 DEF PoolEntry
      <4>4. Up(q)' /\ tunnels'[q] = tunnels[q]
        BY <2>2, <4>1, <4>3
      <4> QED BY <4>1, <4>3, <4>4 DEF FromStart, Up, PoolSame
    <3> QED BY <3>2, <3>3, <3>4, PoolStays DEF Undisturbed
  <2>8. tunnelsOverlapped' = tunnelsOverlapped
    OBVIOUS
  <2> QED BY <2>4, <2>6, <2>7, <2>8, PoolStays DEF ServiceInv
<1> QED BY <1>3, <1>4

\* Profiles are disconnected when they are gone, and to be connected anew.
LEMMA ClosesHold ==
  ASSUME ServiceInv, NEW a \in Workers, NEW p \in ProfileIds, SyncDrop(a, p) \/ ReconnectProfile(a, p)
  PROVE  ServiceInv'
<1>1. /\ disconnectProfile(p) /\ PoolSame /\ UNCHANGED <<profiles, tunnelsMade, tunnelsOverlapped>>
      /\ work[a].pc # "store"
  BY DEF SyncDrop, ReconnectProfile
<1>2. ~HasTunnel(a)
  BY <1>1, NoTunnelYet
<1>3. CASE SyncDrop(a, p)
  <2>1. NextDoing(a, "drop", <<>>, work[a].todo \ {p}, NoEntry)
    BY <1>3, WorkTyped DEF SyncDrop, NextDoing, WorkPlaces
  <2> QED BY <1>1, <1>2, <2>1, Disconnects
<1>4. CASE ReconnectProfile(a, p)
  <2>1. NextDoing(a, "connect", <<>>, {}, p)
    BY <1>4 DEF ReconnectProfile, NextDoing, WorkPlaces
  <2> QED BY <1>1, <1>2, <2>1, Disconnects
<1> QED BY <1>3, <1>4

-----------------------------------------------------------------------------
(* The pool *)

\* The service's steps do not concern the requests.
LEMMA RequestsUndisturbed ==
  ASSUME RequestsRight, PoolSame
  PROVE  RequestsRight'
<1> USE DEF PoolSame
<1>1. DirectEntry' = DirectEntry /\ \A e : Fails(e)' = Fails(e)
  BY DEF DirectEntry, Fails
<1>2. \A u \in PoolUsers : (Sorting(u)' <=> Sorting(u)) /\ (Trying(u)' <=> Trying(u))
  BY <1>1 DEF Sorting, Trying
<1> QED BY <1>1, <1>2 DEF RequestsRight, DirectEntry

\* A count is all that a request changes of an entry.
LEMMA CountsOnly ==
  ASSUME ServiceInv, NEW e \in 1 .. DirectEntry, NEW n \in Nat, FailsBecome(e, n)
  PROVE  /\ PoolTypes' /\ DirectEntry' = DirectEntry
         /\ \A f \in 1 .. DirectEntry : proxies'[f].id = proxies[f].id /\ proxies'[f].tun = proxies[f].tun
         /\ Fails(e)' = n /\ \A f \in 1 .. DirectEntry : f # e => Fails(f)' = Fails(f)
<1> DEFINE r == [id |-> proxies[e].id, tun |-> proxies[e].tun, fails |-> n]
<1>1. PoolTypes /\ proxies \in Seq(PoolEntry) /\ proxies[e] \in PoolEntry
  BY DEF ServiceInv, PoolTypes, DirectEntry
<1>2. r \in PoolEntry /\ r.id = proxies[e].id /\ r.tun = proxies[e].tun /\ r.fails = n
  BY <1>1 DEF PoolEntry
<1>3. proxies' = [proxies EXCEPT ![e] = r]
  BY DEF FailsBecome
<1> HIDE DEF r
<1>4. proxies' \in Seq(PoolEntry) /\ Len(proxies') = Len(proxies)
      /\ \A f \in 1 .. Len(proxies) : proxies'[f] = IF f = e THEN r ELSE proxies[f]
  BY <1>1, <1>2, <1>3, ExceptSeq DEF DirectEntry
<1>5. DirectEntry' = DirectEntry
  BY <1>4 DEF DirectEntry
<1>6. \A f \in 1 .. DirectEntry : proxies'[f].id = proxies[f].id /\ proxies'[f].tun = proxies[f].tun
  BY <1>2, <1>4 DEF DirectEntry
<1>7. PoolTypes'
  BY <1>1, <1>4, <1>5, <1>6 DEF PoolTypes
<1>8. proxies'[e].fails = n /\ \A f \in 1 .. DirectEntry : f # e => proxies'[f].fails = proxies[f].fails
  BY <1>2, <1>4 DEF DirectEntry
<1> QED BY <1>5, <1>6, <1>7, <1>8 DEF Fails

\* Nor does the pool concern the tunnels.
LEMMA ServiceUndisturbed ==
  ASSUME ServiceInv, ServiceSame, PoolTypes', DirectEntry' = DirectEntry,
         \A e \in 1 .. DirectEntry : proxies'[e].id = proxies[e].id /\ proxies'[e].tun = proxies[e].tun
  PROVE  ServiceInv'
<1> USE DEF ServiceSame, TunnelsSame
<1>1. ServiceTypes'
  BY DEF ServiceInv, ServiceTypes
<1>2. \A q \in ProfileIds : (Up(q)' <=> Up(q)) /\ (Up(q) => tunnels'[q].tun = tunnels[q].tun)
  BY DEF Up
<1> QED BY <1>1, <1>2, NothingMoves

\* A request goes on, while the others are where they were.
LEMMA RequestGoesOn ==
  ASSUME RequestsRight, NEW u \in PoolUsers, NEW w \in UserRec, user' = [user EXCEPT ![u] = w],
         DirectEntry' = DirectEntry, rescued' \in BOOLEAN, rescued => rescued',
         ~rescued' => Fails(DirectEntry)' >= Penalty,
         listeners' \in Nat, listeners' <= 1, proxyOf' \in Nat \cup {NoEntry}, proxyOf' = NoEntry => listeners' = 0,
         w.pc = "sort" => Sorting(u)', w.pc = "try" => Trying(u)'
  PROVE  RequestsRight'
<1>1. user' \in [PoolUsers -> UserRec] /\ user'[u] = w /\ \A v \in PoolUsers : v # u => user'[v] = user[v]
  BY DEF RequestsRight
<1>2. ASSUME NEW v \in PoolUsers, user'[v].pc = "sort" PROVE Sorting(v)'
  <2>1. CASE v = u
    BY <1>1, <1>2, <2>1
  <2>2. CASE v # u
    <3>1. user'[v] = user[v] /\ Sorting(v)
      BY <1>1, <1>2, <2>2 DEF RequestsRight
    <3> QED BY <3>1 DEF Sorting
  <2> QED BY <2>1, <2>2
<1>3. ASSUME NEW v \in PoolUsers, user'[v].pc = "try" PROVE Trying(v)'
  <2>1. CASE v = u
    BY <1>1, <1>3, <2>1
  <2>2. CASE v # u
    <3>1. user'[v] = user[v] /\ Trying(v)
      BY <1>1, <1>3, <2>2 DEF RequestsRight
    <3> QED BY <3>1 DEF Trying
  <2> QED BY <2>1, <2>2
<1> QED BY <1>1, <1>2, <1>3 DEF RequestsRight

\* What a waiting request and one that begins have to do with the pool.
LEMMA RecordsTyped ==
  /\ Waiting \in UserRec /\ Waiting.pc = "idle"
  /\ \A pc \in {"sort", "create"}, host \in Hosts \cup {NoEntry} :
        LET w == Asking(pc, host)
        IN  w \in UserRec /\ w.pc = pc /\ w.left = <<>> /\ w.failed = {}
BY DEF Waiting, Asking, UserRec

\* A request begins, with no entry put in order, or it asks for a proxy.
LEMMA RequestBegins ==
  ASSUME ServiceInv, RequestsRight, NEW u \in PoolUsers, GetOrCreate(u) \/ \E host \in Hosts : Do(u, host)
  PROVE  ServiceInv' /\ RequestsRight'
<1>1. ServiceSame /\ UNCHANGED <<proxies, listeners, proxyOf, rescued>>
  BY DEF Do, GetOrCreate
<1>2. PICK pc \in {"sort", "create"}, host \in Hosts \cup {NoEntry} :
        user' = [user EXCEPT ![u] = Asking(pc, host)]
  BY DEF Do, GetOrCreate
<1> DEFINE w == Asking(pc, host)
<1>3. w \in UserRec /\ w.pc = pc /\ w.left = <<>> /\ w.failed = {} /\ user' = [user EXCEPT ![u] = w]
  BY <1>2, RecordsTyped
<1> HIDE DEF w
<1>4. DirectEntry' = DirectEntry /\ Fails(DirectEntry)' = Fails(DirectEntry) /\ PoolTypes'
      /\ \A e \in 1 .. DirectEntry : proxies'[e].id = proxies[e].id /\ proxies'[e].tun = proxies[e].tun
  BY <1>1 DEF DirectEntry, Fails, ServiceInv, PoolTypes
<1>5. user'[u] = w
  BY <1>3 DEF RequestsRight
<1>6. Sorting(u)'
  BY <1>3, <1>4, <1>5 DEF Sorting, ServiceInv, PoolTypes
<1>7. RequestsRight'
  BY <1>1, <1>3, <1>4, <1>6, RequestGoesOn DEF RequestsRight
<1> QED BY <1>1, <1>4, <1>7, ServiceUndisturbed

\* The second look makes the proxy only if there is none.
LEMMA LooksAgain ==
  ASSUME ServiceInv, RequestsRight, NEW u \in PoolUsers, LookAgain(u)
  PROVE  ServiceInv' /\ RequestsRight'
<1>1. ServiceSame /\ UNCHANGED <<proxies, rescued>> /\ user' = [user EXCEPT ![u] = Waiting]
  BY DEF LookAgain
<1>2. DirectEntry' = DirectEntry /\ Fails(DirectEntry)' = Fails(DirectEntry) /\ PoolTypes'
      /\ \A e \in 1 .. DirectEntry : proxies'[e].id = proxies[e].id /\ proxies'[e].tun = proxies[e].tun
  BY <1>1 DEF DirectEntry, Fails, ServiceInv, PoolTypes
<1>3. NoEntry \notin Nat
  BY MultiAssumption
<1>4. listeners' \in Nat /\ listeners' <= 1 /\ proxyOf' \in Nat \cup {NoEntry} /\ (proxyOf' = NoEntry => listeners' = 0)
  BY <1>3 DEF LookAgain, RequestsRight
<1>5. RequestsRight'
  BY <1>1, <1>2, <1>4, RecordsTyped, RequestGoesOn DEF RequestsRight
<1> QED BY <1>1, <1>2, <1>5, ServiceUndisturbed

\* An entry that is inserted into some others.
LEMMA InsertedIs ==
  ASSUME NEW left \in Seq(Nat), NEW e \in Nat, NEW k \in 0 .. Len(left)
  PROVE  LET to == Inserted(left, e, k) IN
         /\ to \in Seq(Nat) /\ Len(to) = Len(left) + 1 /\ to[k + 1] = e
         /\ \A i \in 1 .. k : to[i] = left[i]
         /\ \A i \in k + 2 .. Len(left) + 1 : to[i] = left[i - 1]
<1> DEFINE to == Inserted(left, e, k)
<1>1. Len(left) \in Nat /\ \A i \in 1 .. Len(left) : left[i] \in Nat
  OBVIOUS
<1>2. /\ DOMAIN to = 1 .. Len(left) + 1 /\ to[k + 1] = e
      /\ \A i \in 1 .. k : to[i] = left[i] /\ to[i] \in Nat
      /\ \A i \in k + 2 .. Len(left) + 1 : to[i] = left[i - 1] /\ to[i] \in Nat
  BY <1>1 DEF Inserted
<1>3. to = [i \in 1 .. Len(left) + 1 |-> to[i]]
  BY DEF Inserted
<1> HIDE DEF to
<1>4. \A i \in 1 .. Len(left) + 1 : i \in 1 .. k \/ i = k + 1 \/ i \in k + 2 .. Len(left) + 1
  BY <1>1
<1>5. \A i \in 1 .. Len(left) + 1 : to[i] \in Nat
  BY <1>2, <1>4
<1>6. to \in [1 .. Len(left) + 1 -> Nat]
  BY <1>3, <1>5
<1>7. to \in Seq(Nat) /\ Len(to) = Len(left) + 1
  BY <1>1, <1>6
<1> QED BY <1>2, <1>7 DEF to

\* A sequence of the numbers up to n, the last of them perhaps at the end only,
\* and one that has another number at a place.
Fills(s, n) == (\A i \in 1 .. n : s[i] \in 1 .. n) /\ \A e \in 1 .. n : \E i \in 1 .. n : s[i] = e
NextAt(to, s, k, n) ==
  /\ to[k + 1] = n /\ \A i \in 1 .. k : to[i] = s[i]
  /\ \A i \in k + 2 .. n : to[i] = s[i - 1]
OnlyLast(s, n) == \A i \in 1 .. n : s[i] = n <=> i = n

\* The next number that is inserted into all those before it: all of them are
\* there, and if it comes last, it is nowhere else.
LEMMA InsertedFills ==
  ASSUME NEW L \in Nat, NEW left, NEW to, NEW k \in 0 .. L, Fills(left, L), NextAt(to, left, k, L + 1)
  PROVE  Fills(to, L + 1) /\ (k = L => OnlyLast(to, L + 1))
<1> USE DEF Fills, NextAt, OnlyLast
<1>1. ASSUME NEW i \in 1 .. L + 1 PROVE to[i] \in 1 .. L + 1
  <2>1. CASE i <= k
    <3>1. i \in 1 .. k /\ i \in 1 .. L
      BY <2>1
    <3>2. to[i] = left[i] /\ left[i] \in 1 .. L
      BY <3>1
    <3> QED BY <3>2
  <2>2. CASE i = k + 1
    BY <2>2
  <2>3. CASE i > k + 1
    <3>1. i \in k + 2 .. L + 1 /\ i - 1 \in 1 .. L
      BY <2>3
    <3>2. to[i] = left[i - 1] /\ left[i - 1] \in 1 .. L
      BY <3>1
    <3> QED BY <3>2
  <2> QED BY <2>1, <2>2, <2>3
<1>2. ASSUME NEW e \in 1 .. L + 1 PROVE \E i \in 1 .. L + 1 : to[i] = e
  <2>1. CASE e = L + 1
    <3>1. k + 1 \in 1 .. L + 1
      OBVIOUS
    <3> QED BY <2>1, <3>1
  <2>2. CASE e # L + 1
    <3>1. e \in 1 .. L
      BY <2>2
    <3>2. PICK j \in 1 .. L : left[j] = e
      BY <3>1
    <3>3. CASE j <= k
      <4>1. j \in 1 .. k /\ j \in 1 .. L + 1
        BY <3>3
      <4> QED BY <3>2, <4>1
    <3>4. CASE j > k
      <4>1. j + 1 \in k + 2 .. L + 1 /\ j + 1 \in 1 .. L + 1 /\ (j + 1) - 1 = j
        BY <3>4
      <4>2. to[j + 1] = left[(j + 1) - 1]
        BY <4>1
      <4> QED BY <3>2, <4>1, <4>2
    <3> QED BY <3>3, <3>4
  <2> QED BY <2>1, <2>2
<1>3. ASSUME k = L, NEW i \in 1 .. L + 1 PROVE to[i] = L + 1 <=> i = L + 1
  <2>1. CASE i = L + 1
    BY <1>3, <2>1
  <2>2. CASE i # L + 1
    <3>1. i \in 1 .. k /\ i \in 1 .. L
      BY <1>3, <2>2
    <3>2. to[i] = left[i] /\ left[i] \in 1 .. L
      BY <3>1
    <3> QED BY <2>2, <3>2
  <2> QED BY <2>1, <2>2
<1> QED BY <1>1, <1>2, <1>3

\* The next entry is put among those before it; as long as no tunnel has more
\* fails than the direct connection, that comes last.
LEMMA SortGoesOn ==
  ASSUME ServiceInv, RequestsRight, NEW u \in PoolUsers, SortNext(u)
  PROVE  ServiceInv' /\ RequestsRight'
<1> DEFINE left == user[u].left
           n == Len(left) + 1
<1>1. left \in Seq(Nat) /\ user[u] \in UserRec /\ user[u].pc = "sort" /\ Sorting(u)
  BY DEF SortNext, RequestsRight, UserRec
<1>2. /\ n \in Nat /\ n <= DirectEntry /\ DirectEntry \in Nat \ {0} /\ Len(left) \in Nat
      /\ \A i \in 1 .. Len(left) : left[i] \in 1 .. Len(left)
      /\ \A e \in 1 .. Len(left) : \E i \in 1 .. Len(left) : left[i] = e
  BY <1>1 DEF Sorting, ServiceInv, PoolTypes
<1>3. ServiceSame /\ UNCHANGED <<proxies, listeners, proxyOf, rescued>>
  BY DEF SortNext
<1>4. PICK k \in 0 .. Len(left) :
        /\ Behind(left, n, k)
        /\ user' = [user EXCEPT ![u].pc = IF n = DirectEntry THEN "try" ELSE "sort",
                                ![u].left = Inserted(left, n, k), ![u].worn = Worn]
  BY DEF SortNext
<1> HIDE DEF left, n
<1> DEFINE to == Inserted(left, n, k)
           w == [user[u] EXCEPT !.pc = IF n = DirectEntry THEN "try" ELSE "sort", !.left = to, !.worn = Worn]
<1>5. /\ to \in Seq(Nat) /\ Len(to) = Len(left) + 1 /\ to[k + 1] = n
      /\ \A i \in 1 .. k : to[i] = left[i]
      /\ \A i \in k + 2 .. Len(left) + 1 : to[i] = left[i - 1]
  BY <1>1, <1>2, InsertedIs
<1>6. Worn \in BOOLEAN
  BY DEF Worn
<1> HIDE DEF to
<1>7. /\ w.pc = (IF n = DirectEntry THEN "try" ELSE "sort") /\ w.left = to /\ w.failed = {} /\ w.worn = Worn
      /\ w \in UserRec
  BY <1>1, <1>5, <1>6 DEF UserRec, Sorting
<1>8. user' = [user EXCEPT ![u] = w]
  BY <1>4 DEF to, RequestsRight
<1> HIDE DEF w
<1>9. user'[u] = w
  BY <1>8 DEF RequestsRight
<1>10. n = Len(left) + 1
  BY DEF n
<1>11. k \in Nat /\ k <= Len(left)
  BY <1>2
<1>12. Fills(to, n) /\ (k = Len(left) => OnlyLast(to, n))
  <2>1. Fills(left, Len(left)) /\ NextAt(to, left, k, Len(left) + 1)
    BY <1>2, <1>5, <1>10 DEF Fills, NextAt
  <2>2. Fills(to, Len(left) + 1) /\ (k = Len(left) => OnlyLast(to, Len(left) + 1))
    BY <1>2, <2>1, InsertedFills
  <2> QED BY <1>10, <2>2
<1>14. DirectEntry' = DirectEntry /\ Fails(DirectEntry)' = Fails(DirectEntry) /\ PoolTypes'
       /\ \A e \in 1 .. DirectEntry : proxies'[e].id = proxies[e].id /\ proxies'[e].tun = proxies[e].tun
  BY <1>3 DEF DirectEntry, Fails, ServiceInv, PoolTypes
<1>15. Len(to) = n /\ DOMAIN to = 1 .. n
  BY <1>5, <1>10
<1>16. w.pc = "sort" => Sorting(u)'
  <2>1. w.pc = "sort" => n # DirectEntry
    BY <1>7
  <2>2. user'[u].left = to
    BY <1>7, <1>9
  <2>3. n # DirectEntry => Len(to) < DirectEntry'
    BY <1>2, <1>14, <1>15
  <2>4. /\ \A i \in DOMAIN to : to[i] \in 1 .. Len(to)
        /\ \A e \in 1 .. Len(to) : \E i \in DOMAIN to : to[i] = e
    BY <1>12, <1>15 DEF Fills
  <2> QED BY <1>7, <1>9, <2>1, <2>2, <2>3, <2>4 DEF Sorting
<1>17. ASSUME w.pc = "try" PROVE Trying(u)'
  <2>1. n = DirectEntry
    BY <1>7, <1>17
  <2>2. ASSUME ~w.worn, ~rescued PROVE \A i \in 1 .. n : to[i] = n <=> i = n
    <3>1. Fails(n) >= Penalty /\ Penalty \in Nat
      BY <2>1, <2>2, MultiAssumption DEF RequestsRight
    <3>2. \A e \in 1 .. DirectEntry : Fails(e) \in Nat
      <4> TAKE e \in 1 .. DirectEntry
      <4>1. proxies[e] \in PoolEntry
        BY DEF ServiceInv, PoolTypes, DirectEntry
      <4> QED BY <4>1 DEF PoolEntry, Fails
    <3>3. \A e \in 1 .. Len(left) : Fails(e) <= Fails(n)
      <4> TAKE e \in 1 .. Len(left)
      <4>1. ~Worn
        BY <1>7, <2>2
      <4>2. e \in 1 .. DirectEntry - 1 /\ e \in 1 .. DirectEntry /\ n \in 1 .. DirectEntry
        BY <1>2, <1>10, <2>1
      <4>3. ~(Fails(e) > Penalty) /\ Fails(e) \in Nat /\ Fails(n) \in Nat
        BY <3>2, <4>1, <4>2 DEF Worn
      <4> QED BY <3>1, <4>3
    <3>4. k = Len(left)
      <4> SUFFICES ASSUME k # Len(left) PROVE FALSE
        OBVIOUS
      <4>1. Len(left) \in k + 1 .. Len(left) /\ Len(left) \in 1 .. Len(left)
        BY <1>2, <1>11
      <4>2. Fails(left[Len(left)]) > Fails(n)
        BY <1>4, <4>1 DEF Behind
      <4>3. left[Len(left)] \in 1 .. Len(left)
        BY <1>2, <4>1
      <4>4. left[Len(left)] \in 1 .. DirectEntry /\ n \in 1 .. DirectEntry
        BY <1>2, <1>10, <2>1, <4>3
      <4> QED BY <3>2, <3>3, <4>2, <4>3, <4>4
    <3> QED BY <1>12, <3>4 DEF OnlyLast
  <2>3. Len(to) > 0 /\ \A i \in DOMAIN to : to[i] \in 1 .. DirectEntry
    <3>1. Len(to) > 0
      BY <1>2, <1>10, <1>15
    <3>2. \A i \in 1 .. n : to[i] \in 1 .. n
      BY <1>12 DEF Fills
    <3> QED BY <1>15, <2>1, <3>1, <3>2
  <2>4. ~w.worn /\ ~rescued =>
          /\ \A i \in DOMAIN to : to[i] = DirectEntry <=> i = Len(to)
          /\ \A e \in 1 .. DirectEntry : \E i \in DOMAIN to : to[i] = e
    BY <1>12, <1>15, <2>1, <2>2 DEF Fills
  <2> QED BY <1>3, <1>7, <1>9, <1>14, <2>3, <2>4 DEF Trying
<1>18. RequestsRight'
  BY <1>3, <1>7, <1>8, <1>14, <1>16, <1>17, RequestGoesOn DEF RequestsRight
<1> QED BY <1>3, <1>14, <1>18, ServiceUndisturbed

\* An entry has failed for a request: it counts, and the others are left.
LEMMA FailsHolds ==
  ASSUME ServiceInv, RequestsRight, NEW u \in PoolUsers, DoFails(u)
  PROVE  ServiceInv' /\ RequestsRight'
<1> DEFINE me == user[u]
           left == me.left
<1>1. me \in UserRec /\ left \in Seq(Nat) /\ Trying(u)
  BY DEF DoFails, RequestsRight, UserRec
<1>2. Len(left) \in Nat /\ Len(left) > 0 /\ \A i \in 1 .. Len(left) : left[i] \in 1 .. DirectEntry
  BY <1>1 DEF Trying
<1>3. PICK e \in 1 .. DirectEntry : e = left[1]
  BY <1>2
<1>4. DirectEntry \in Nat \ {0} /\ \A f \in 1 .. DirectEntry : Fails(f) \in Nat
  <2>1. \A f \in 1 .. DirectEntry : proxies[f] \in PoolEntry
    BY DEF ServiceInv, PoolTypes, DirectEntry
  <2> QED BY <2>1 DEF PoolEntry, Fails, ServiceInv, PoolTypes
<1>5. PICK gone \in BOOLEAN :
        /\ ServiceSame /\ UNCHANGED <<listeners, proxyOf, rescued>> /\ FailsBecome(e, Fails(e) + 1)
        /\ user' = [user EXCEPT ![u] = IF Len(left) = 1 THEN Waiting
                                       ELSE [me EXCEPT !.left = Tail(left), !.failed = me.failed \cup {e}, !.gone = gone]]
  <2>1. Head(left) = e
    BY <1>1, <1>2, <1>3
  <2> QED BY <2>1 DEF DoFails
<1>6. /\ PoolTypes' /\ DirectEntry' = DirectEntry
      /\ \A f \in 1 .. DirectEntry : proxies'[f].id = proxies[f].id /\ proxies'[f].tun = proxies[f].tun
      /\ Fails(e)' = Fails(e) + 1 /\ \A f \in 1 .. DirectEntry : f # e => Fails(f)' = Fails(f)
  <2>1. Fails(e) + 1 \in Nat
    BY <1>4
  <2> QED BY <1>5, <2>1, CountsOnly
<1>7. ServiceInv'
  BY <1>5, <1>6, ServiceUndisturbed
<1>8. ~rescued' => Fails(DirectEntry)' >= Penalty
  <2> SUFFICES ASSUME ~rescued PROVE Fails(DirectEntry)' >= Penalty
    BY <1>5
  <2>1. DirectEntry \in 1 .. DirectEntry
    BY <1>4
  <2>2. \E d \in 1 .. DirectEntry : d = DirectEntry /\ Fails(d) \in Nat /\ Fails(d) >= Penalty
    BY <1>4, <2>1 DEF RequestsRight
  <2>3. PICK d \in 1 .. DirectEntry : d = DirectEntry /\ Fails(d) \in Nat /\ Fails(d) >= Penalty
    BY <2>2
  <2>4. Fails(d)' >= Penalty
    <3>1. CASE d = e
      BY <1>6, <2>3, <3>1, MultiAssumption
    <3>2. CASE d # e
      BY <1>6, <2>3, <3>2
    <3> QED BY <3>1, <3>2
  <2> QED BY <1>6, <2>3, <2>4 DEF Fails
<1>9. CASE Len(left) = 1
  <2>1. user' = [user EXCEPT ![u] = Waiting]
    BY <1>5, <1>9
  <2>2. RequestsRight'
    BY <1>5, <1>6, <1>8, <2>1, RecordsTyped, RequestGoesOn DEF RequestsRight
  <2> QED BY <1>7, <2>2
<1>10. CASE Len(left) # 1
  <2> DEFINE w == [me EXCEPT !.left = Tail(left), !.failed = me.failed \cup {e}, !.gone = gone]
  <2>1. user' = [user EXCEPT ![u] = w]
    BY <1>5, <1>10
  <2>2. /\ Tail(left) \in Seq(Nat) /\ Len(Tail(left)) = Len(left) - 1 /\ Len(left) > 1
        /\ \A i \in 1 .. Len(Tail(left)) : Tail(left)[i] = left[i + 1]
    <3>1. left # <<>>
      BY <1>2
    <3>2. Len(left) > 1
      <4>1. \A n \in Nat : n > 0 /\ n # 1 => n > 1
        OBVIOUS
      <4>2. Len(left) \in Nat /\ Len(left) > 0 /\ Len(left) # 1
        BY <1>2, <1>10
      <4> QED BY <4>1, <4>2, Zenon
    <3> HIDE DEF left
    <3>3. /\ Tail(left) \in Seq(Nat) /\ Len(Tail(left)) = Len(left) - 1
          /\ \A i \in 1 .. Len(Tail(left)) : Tail(left)[i] = left[i + 1]
      BY <1>1, <3>1, HeadTailProperties
    <3> QED BY <3>2, <3>3
  <2>3. /\ w.pc = "try" /\ w.left = Tail(left) /\ w.failed = me.failed \cup {e} /\ w.worn = me.worn /\ w \in UserRec
    <3>1. me.pc = "try"
      BY DEF DoFails
    <3>2. me.failed \cup {e} \in SUBSET Nat
      BY <1>1, <1>4 DEF UserRec
    <3> HIDE DEF left
    <3> QED BY <1>1, <2>2, <3>1, <3>2 DEF UserRec
  <2>4. user'[u] = w
    BY <2>1 DEF RequestsRight
  <2> HIDE DEF w
  <2>5. Trying(u)'
    <3> DEFINE rest == Tail(left)
    <3> HIDE DEF rest
    <3>1. Len(rest) > 0 /\ \A i \in DOMAIN rest : rest[i] \in 1 .. DirectEntry
      BY <1>2, <2>2 DEF rest
    <3>2. me.failed \cup {e} \subseteq 1 .. DirectEntry
      BY <1>1 DEF Trying
    <3>3. ASSUME ~me.worn, ~rescued
          PROVE  /\ \A i \in DOMAIN rest : rest[i] = DirectEntry <=> i = Len(rest)
                 /\ DirectEntry \notin me.failed \cup {e}
                 /\ \A f \in 1 .. DirectEntry : f \in me.failed \cup {e} \/ \E i \in DOMAIN rest : rest[i] = f
      <4>1. /\ \A i \in 1 .. Len(left) : left[i] = DirectEntry <=> i = Len(left)
            /\ DirectEntry \notin me.failed
            /\ \A f \in 1 .. DirectEntry : f \in me.failed \/ \E i \in 1 .. Len(left) : left[i] = f
        BY <1>1, <1>2, <3>3 DEF Trying
      <4>2. e # DirectEntry
        <5>1. 1 \in 1 .. Len(left) /\ 1 # Len(left)
          BY <1>2, <1>10
        <5> QED BY <1>3, <4>1, <5>1
      <4>3. \A i \in DOMAIN rest : rest[i] = DirectEntry <=> i = Len(rest)
        <5> SUFFICES ASSUME NEW i \in 1 .. Len(rest) PROVE rest[i] = DirectEntry <=> i = Len(rest)
          BY <2>2 DEF rest
        <5>1. rest[i] = left[i + 1] /\ i + 1 \in 1 .. Len(left) /\ Len(rest) = Len(left) - 1
          BY <1>2, <2>2 DEF rest
        <5> QED BY <1>2, <4>1, <5>1
      <4>4. ASSUME NEW f \in 1 .. DirectEntry, f \notin me.failed, f # e PROVE \E i \in DOMAIN rest : rest[i] = f
        <5>1. PICK i \in 1 .. Len(left) : left[i] = f
          BY <4>1, <4>4
        <5>2. i # 1
          BY <1>3, <4>4, <5>1
        <5>3. i - 1 \in 1 .. Len(rest) /\ (i - 1) + 1 = i
          BY <1>2, <2>2, <5>2 DEF rest
        <5>4. rest[i - 1] = left[(i - 1) + 1]
          BY <2>2, <5>3 DEF rest
        <5>5. i - 1 \in DOMAIN rest
          BY <2>2, <5>3 DEF rest
        <5> QED BY <5>1, <5>3, <5>4, <5>5
      <4> QED BY <4>1, <4>2, <4>3, <4>4
    <3>4. user'[u].left = rest /\ user'[u].failed = me.failed \cup {e} /\ user'[u].worn = me.worn /\ rescued' = rescued
      BY <1>5, <2>3, <2>4 DEF rest
    <3> HIDE DEF me, left
    <3> QED BY <1>6, <3>1, <3>2, <3>3, <3>4 DEF Trying
  <2>6. RequestsRight'
    BY <1>5, <1>6, <1>8, <2>1, <2>3, <2>5, RequestGoesOn DEF RequestsRight
  <2> QED BY <1>7, <2>6
<1> QED BY <1>9, <1>10

\* A request that succeeds directly makes that the preferred way, which is noted.
LEMMA SucceedsHolds ==
  ASSUME ServiceInv, RequestsRight, NEW u \in PoolUsers, DoSucceeds(u)
  PROVE  ServiceInv' /\ RequestsRight'
<1> DEFINE left == user[u].left
<1>1. left \in Seq(Nat) /\ Trying(u)
  BY DEF DoSucceeds, RequestsRight, UserRec
<1>2. Len(left) \in Nat /\ Len(left) > 0 /\ \A i \in 1 .. Len(left) : left[i] \in 1 .. DirectEntry
  BY <1>1 DEF Trying
<1>3. PICK e \in 1 .. DirectEntry : e = left[1]
  BY <1>2
<1>4. DirectEntry \in Nat \ {0}
  BY DEF ServiceInv, PoolTypes
<1>5. /\ ServiceSame /\ UNCHANGED <<listeners, proxyOf>> /\ FailsBecome(e, 0)
      /\ user' = [user EXCEPT ![u] = Waiting] /\ rescued' = (rescued \/ e = DirectEntry)
  <2>1. Head(left) = e
    BY <1>1, <1>2, <1>3
  <2> QED BY <2>1 DEF DoSucceeds
<1>6. /\ PoolTypes' /\ DirectEntry' = DirectEntry
      /\ \A f \in 1 .. DirectEntry : proxies'[f].id = proxies[f].id /\ proxies'[f].tun = proxies[f].tun
      /\ \A f \in 1 .. DirectEntry : f # e => Fails(f)' = Fails(f)
  BY <1>5, CountsOnly
<1>7. rescued' \in BOOLEAN /\ (rescued => rescued')
  BY <1>5 DEF RequestsRight
<1>8. ~rescued' => Fails(DirectEntry)' >= Penalty
  <2> SUFFICES ASSUME ~rescued' PROVE Fails(DirectEntry)' >= Penalty
    OBVIOUS
  <2>1. PICK d \in 1 .. DirectEntry : d = DirectEntry
    BY <1>4
  <2>2. d # e /\ Fails(d) >= Penalty
    BY <1>5, <2>1 DEF RequestsRight
  <2>3. Fails(d)' >= Penalty
    BY <1>6, <2>2
  <2> QED BY <1>6, <2>1, <2>3 DEF Fails
<1>9. RequestsRight'
  BY <1>5, <1>6, <1>7, <1>8, RecordsTyped, RequestGoesOn DEF RequestsRight
<1> QED BY <1>5, <1>6, <1>9, ServiceUndisturbed

\* No step of the service or of a request takes any of this away.
LEMMA MultiPreserved == MultiIInv /\ [MultiSteps \/ MultiRequests]_multiVars => MultiIInv'
<1> SUFFICES ASSUME ServiceInv, RequestsRight, [MultiSteps \/ MultiRequests]_multiVars
             PROVE  ServiceInv' /\ RequestsRight'
  BY DEF MultiIInv
<1>1. ASSUME NEW a \in Workers,
             \/ SyncProfiles(a) \/ SyncCheck(a) \/ SyncGone(a) \/ SyncDropped(a) \/ SelectList(a)
             \/ RunHealthChecks(a) \/ HealthLook(a) \/ HealthDone(a)
      PROVE  ServiceInv' /\ RequestsRight'
  <2>1. OnlyWork
    BY <1>1 DEF SyncProfiles, SyncCheck, SyncGone, SyncDropped, SelectList, RunHealthChecks, HealthLook, HealthDone
  <2> QED BY <1>1, <2>1, Reads, RequestsUndisturbed DEF OnlyWork
<1>2. ASSUME NEW a \in Workers, connectProfileFails(a) PROVE ServiceInv' /\ RequestsRight'
  BY <1>2, FailedConnects, RequestsUndisturbed DEF connectProfileFails
<1>3. ASSUME NEW a \in Workers, MakeTunnel(a) PROVE ServiceInv' /\ RequestsRight'
  BY <1>3, TunnelsMadeNew, RequestsUndisturbed DEF MakeTunnel
<1>4. ASSUME NEW a \in Workers, connectProfile(a) PROVE ServiceInv' /\ RequestsRight'
  BY <1>4, ConnectHolds, RequestsUndisturbed DEF connectProfile
<1>5. ASSUME NEW a \in Workers, NEW p \in ProfileIds, SyncDrop(a, p) \/ ReconnectProfile(a, p)
      PROVE  ServiceInv' /\ RequestsRight'
  BY <1>5, ClosesHold, RequestsUndisturbed DEF SyncDrop, ReconnectProfile
<1>6. ASSUME (\E a \in Workers : selectBestActive(a)) \/ (\E p \in ProfileIds : SetActiveProfile(p))
      PROVE  ServiceInv' /\ RequestsRight'
  BY <1>6, ChoiceHolds, RequestsUndisturbed DEF selectBestActive, SetActiveProfile
<1>7. ASSUME NEW a \in Workers, NEW ok \in BOOLEAN, checkHealth(a, ok) PROVE ServiceInv' /\ RequestsRight'
  BY <1>7, CheckHolds, RequestsUndisturbed DEF checkHealth
<1>8. ASSUME NEW p \in ProfileIds, NEW to \in {"on", "off", NoEntry}, EditProfile(p, to)
      PROVE  ServiceInv' /\ RequestsRight'
  BY <1>8, EditHolds, RequestsUndisturbed DEF EditProfile
<1>9. ASSUME NEW u \in PoolUsers,
             \/ SortNext(u) \/ DoFails(u) \/ DoSucceeds(u) \/ LookAgain(u)
             \/ GetOrCreate(u) \/ \E host \in Hosts : Do(u, host)
      PROVE  ServiceInv' /\ RequestsRight'
  BY <1>9, RequestBegins, SortGoesOn, FailsHolds, SucceedsHolds, LooksAgain
<1>10. CASE UNCHANGED multiVars
  <2>1. OnlyWork /\ work' = work
    BY <1>10 DEF multiVars, OnlyWork, TunnelsSame, PoolSame
  <2>2. ServiceTypes' /\ PoolTypes' /\ DirectEntry' = DirectEntry
    BY <1>10 DEF multiVars, ServiceInv, ServiceTypes, PoolTypes, DirectEntry
  <2>3. \A q \in ProfileIds : (Up(q)' <=> Up(q)) /\ (Up(q) => tunnels'[q].tun = tunnels[q].tun)
    BY <1>10 DEF multiVars, Up
  <2>4. ServiceInv'
    BY <2>1, <2>2, <2>3, PoolStays, NothingMoves DEF OnlyWork, TunnelsSame
  <2> QED BY <2>1, <2>4, RequestsUndisturbed DEF OnlyWork
<1>11. CASE MultiSteps
  BY <1>1, <1>2, <1>3, <1>4, <1>5, <1>6, <1>7, <1>9, <1>11, Zenon DEF MultiSteps
<1>12. CASE MultiRequests
  BY <1>1, <1>5, <1>6, <1>8, <1>9, <1>12, Zenon DEF MultiRequests
<1> QED BY <1>10, <1>11, <1>12

-----------------------------------------------------------------------------
(* The start *)

\* There are finitely many profiles, as each has a place.
LEMMA ProfilesFinite == IsFiniteSet(ProfileIds)
<1>1. Order \in Surjection(1 .. Len(Order), ProfileIds)
  BY MultiAssumption, LenProperties DEF Surjection, ProfileIds
<1>2. IsFiniteSet(1 .. Len(Order))
  BY MultiAssumption, FS_Interval
<1> QED BY <1>1, <1>2, FS_Surjection

\* Profiles have different places.
LEMMA PlacesDiffer ==
  ASSUME NEW p \in ProfileIds, NEW q \in ProfileIds, Place(p) = Place(q)
  PROVE  p = q
BY PlaceIs

\* The order in which a map of some profiles is walked is a sequence of them.
LEMMA OrdersAreSequences ==
  ASSUME NEW S \in SUBSET ProfileIds, NEW order \in SetToSeqs(S)
  PROVE  order \in Seq(S)
<1>1. Cardinality(S) \in Nat
  BY ProfilesFinite, FS_Subset, FS_CardinalityType
<1>2. order \in [1 .. Cardinality(S) -> S]
  BY DEF SetToSeqs
<1> QED BY <1>1, <1>2

\* At the start each tunnel is its profile's, and the pool has them all.
LEMMA MultiStarts == MultiInit => MultiIInv
<1> SUFFICES ASSUME MultiInit PROVE MultiIInv
  OBVIOUS
<1>1. PICK ok \in SUBSET {p \in ProfileIds : profiles[p] = "on"} :
       /\ tunnels = [p \in ProfileIds |->
             IF p \in ok THEN [tun |-> Place(p), healthy |-> TRUE]
             ELSE IF profiles[p] = "on" THEN [tun |-> NoEntry, healthy |-> FALSE] ELSE NoEntry]
       /\ tunnelsOpen = {Place(p) : p \in ok}
       /\ activeID = IF ok = {} THEN NoEntry ELSE FirstOf(ok)
       /\ \E order \in SetToSeqs(ok) : proxies = PoolOf(order)
  BY DEF MultiInit
<1>2. PICK order \in SetToSeqs(ok) :
        proxies = [i \in 1..Len(order) + 1 |->
          IF i <= Len(order) THEN [id |-> order[i], tun |-> Place(order[i]), fails |-> 0]
          ELSE [id |-> Direct, tun |-> NoEntry, fails |-> Penalty]]
  BY <1>1 DEF PoolOf
<1>3. /\ profiles \in [ProfileIds -> {"on", "off"}] /\ tunnelsMade = Len(Order)
      /\ work = [a \in Workers |-> Rested] /\ user = [u \in PoolUsers |-> Waiting]
      /\ listeners = 0 /\ proxyOf = NoEntry
      /\ tunnelsOverlapped = FALSE /\ replaced = {} /\ rescued = FALSE
  BY DEF MultiInit
<1>4. ok \subseteq ProfileIds /\ order \in Seq(ok) /\ Len(order) \in Nat /\ \A i \in 1 .. Len(order) : order[i] \in ok
  BY OrdersAreSequences
<1>5. \A p \in ProfileIds : Place(p) \in Nat /\ Place(p) <= Len(Order) /\ Len(Order) \in Nat
  BY PlaceIs, MultiAssumption
<1>6. /\ NoEntry \notin Nat /\ NoEntry \notin TunnelRec /\ NoEntry \notin ProfileIds
      /\ Direct \notin ProfileIds /\ Penalty \in Nat /\ NoEntry # Direct
  BY MultiAssumption DEF TunnelRec
<1>7. /\ \A p \in ok : tunnels[p].tun = Place(p) /\ tunnels[p] \in TunnelRec /\ Up(p)
      /\ \A p \in ProfileIds \ ok : ~Up(p) /\ tunnels[p] \in TunnelRec \cup {NoEntry}
  <2>1. ASSUME NEW p \in ok PROVE tunnels[p].tun = Place(p) /\ tunnels[p] \in TunnelRec /\ Up(p)
    <3>1. tunnels[p] = [tun |-> Place(p), healthy |-> TRUE]
      BY <1>1, <1>4
    <3>2. tunnels[p].tun = Place(p) /\ tunnels[p] \in TunnelRec
      BY <1>4, <1>5, <3>1 DEF TunnelRec
    <3> QED BY <1>4, <1>5, <1>6, <3>2 DEF Up
  <2>2. ASSUME NEW p \in ProfileIds \ ok PROVE ~Up(p) /\ tunnels[p] \in TunnelRec \cup {NoEntry}
    <3>1. tunnels[p] = NoEntry \/ tunnels[p] = [tun |-> NoEntry, healthy |-> FALSE]
      BY <1>1, <2>2
    <3>2. tunnels[p] = NoEntry \/ (tunnels[p] \in TunnelRec /\ tunnels[p].tun = NoEntry)
      <4> DEFINE r == [tun |-> NoEntry, healthy |-> FALSE]
      <4>1. r \in TunnelRec /\ r.tun = NoEntry
        BY DEF TunnelRec
      <4> HIDE DEF r
      <4>2. tunnels[p] = NoEntry \/ tunnels[p] = r
        BY <3>1 DEF r
      <4> QED BY <4>1, <4>2
    <3> QED BY <3>2 DEF Up
  <2> QED BY <2>1, <2>2
<1>8. tunnels \in [ProfileIds -> TunnelRec \cup {NoEntry}]
  <2>1. DOMAIN tunnels = ProfileIds /\ tunnels = [p \in DOMAIN tunnels |-> tunnels[p]]
    BY <1>1
  <2> QED BY <1>7, <2>1
<1>9. activeID \in ok \cup {NoEntry}
  BY <1>1, <1>4, FirstOfIn
<1>10. Rested \in WorkRec /\ Rested.pc = "rest" /\ Rested.tun = NoEntry
  BY DEF Rested, Doing, WorkRec, WorkPlaces
<1>11. \A a \in Workers : work[a] = Rested
  BY <1>3
<1>12. ServiceTypes
  <2>1. work \in [Workers -> WorkRec]
    BY <1>3, <1>10
  <2>2. profiles \in Listings /\ tunnelsOpen \subseteq Nat /\ tunnelsMade \in Nat
    BY <1>1, <1>3, <1>4, <1>5, MultiAssumption DEF Listings
  <2>3. activeID \in ProfileIds \cup {NoEntry}
    BY <1>4, <1>9
  <2> QED BY <1>3, <1>8, <1>10, <1>11, <2>1, <2>2, <2>3 DEF ServiceTypes
<1>13. OneHolder
  <2>1. \A a \in Workers : ~HasTunnel(a)
    BY <1>10, <1>11 DEF HasTunnel
  <2>2. \A p \in ProfileIds : Up(p) => p \in ok
    BY <1>7
  <2>3. \A p \in ok : tunnels[p].tun \in tunnelsOpen /\ tunnels[p].tun <= tunnelsMade
    BY <1>1, <1>3, <1>4, <1>5, <1>7
  <2>4. \A p, q \in ok : tunnels[p].tun = tunnels[q].tun => p = q
    BY <1>4, <1>7, PlacesDiffer
  <2> QED BY <2>1, <2>2, <2>3, <2>4 DEF OneHolder
<1>14. /\ DirectEntry = Len(order) + 1 /\ DirectEntry \in Nat \ {0}
       /\ \A e \in 1 .. Len(order) : proxies[e] = [id |-> order[e], tun |-> Place(order[e]), fails |-> 0]
       /\ proxies[DirectEntry] = [id |-> Direct, tun |-> NoEntry, fails |-> Penalty]
       /\ DOMAIN proxies = 1 .. Len(order) + 1
  <2>1. /\ DOMAIN proxies = 1 .. Len(order) + 1 /\ Len(order) + 1 \in Nat
        /\ \A e \in 1 .. Len(order) : proxies[e] = [id |-> order[e], tun |-> Place(order[e]), fails |-> 0]
        /\ proxies[Len(order) + 1] = [id |-> Direct, tun |-> NoEntry, fails |-> Penalty]
    BY <1>2, <1>4
  <2>2. Len(proxies) = Len(order) + 1
    BY <1>2, <1>4
  <2> QED BY <1>4, <2>1, <2>2 DEF DirectEntry
<1>15. /\ \A e \in 1 .. Len(order) : /\ proxies[e].id = order[e] /\ proxies[e].tun = Place(order[e])
                                     /\ proxies[e] \in PoolEntry
       /\ proxies[DirectEntry].id = Direct /\ proxies[DirectEntry] \in PoolEntry /\ Fails(DirectEntry) = Penalty
  <2>1. ASSUME NEW e \in 1 .. Len(order)
        PROVE  proxies[e].id = order[e] /\ proxies[e].tun = Place(order[e]) /\ proxies[e] \in PoolEntry
    <3>1. order[e] \in ProfileIds /\ Place(order[e]) \in Nat
      BY <1>4, <1>5
    <3>2. proxies[e] = [id |-> order[e], tun |-> Place(order[e]), fails |-> 0]
      BY <1>14
    <3> QED BY <3>1, <3>2 DEF PoolEntry
  <2>2. proxies[DirectEntry].id = Direct /\ proxies[DirectEntry] \in PoolEntry /\ proxies[DirectEntry].fails = Penalty
    BY <1>6, <1>14 DEF PoolEntry
  <2> QED BY <2>1, <2>2 DEF Fails
<1>16. \A e \in 1 .. DirectEntry : e = DirectEntry \/ e \in 1 .. Len(order)
  BY <1>4, <1>14
<1>17. PoolTypes
  <2>1. \A e \in 1 .. DirectEntry : proxies[e] \in PoolEntry
    BY <1>15, <1>16
  <2>2. proxies = [e \in 1 .. DirectEntry |-> proxies[e]]
    BY <1>2, <1>14
  <2>3. proxies \in Seq(PoolEntry)
    BY <1>14, <2>1, <2>2
  <2>4. \A e \in 1 .. DirectEntry : e = DirectEntry <=> proxies[e].id = Direct
    BY <1>4, <1>6, <1>15, <1>16
  <2> QED BY <1>14, <2>3, <2>4 DEF PoolTypes
<1>18. Undisturbed
  <2>1. \A t \in tunnelsOpen : Held(t)
    BY <1>1, <1>4, <1>7 DEF Held
  <2>2. \A e \in 1 .. DirectEntry : Kept(e)
    BY <1>4, <1>7, <1>15, <1>16 DEF Kept, FromStart
  <2> QED BY <1>7, <1>9, <2>1, <2>2 DEF Undisturbed
<1>19. RequestsRight
  <2>1. \A u \in PoolUsers : user[u] = Waiting
    BY <1>3
  <2>2. user \in [PoolUsers -> UserRec]
    BY <1>3, RecordsTyped
  <2>3. Penalty >= Penalty
    BY <1>6
  <2>4. \A u \in PoolUsers : user[u].pc = "idle"
    BY <2>1, RecordsTyped
  <2>5. Fails(DirectEntry) >= Penalty
    BY <1>15, <2>3
  <2>6. listeners = 0 /\ proxyOf = NoEntry
    BY <1>3
  <2>7. listeners \in Nat /\ listeners <= 1 /\ proxyOf \in Nat \cup {NoEntry}
        /\ (proxyOf = NoEntry => listeners = 0)
    BY <2>6
  <2>8. rescued \in BOOLEAN
    BY <1>3, Zenon
  <2> QED BY <2>2, <2>4, <2>5, <2>7, <2>8 DEF RequestsRight
<1> QED BY <1>12, <1>13, <1>17, <1>18, <1>19 DEF MultiIInv, ServiceInv

-----------------------------------------------------------------------------
(* What the properties say *)

\* The least number of a set of numbers is one of them.
LEMMA LeastIn ==
  ASSUME NEW S \in SUBSET Nat, S # {}
  PROVE  Min(S) \in S
<1>1. \E m \in S : \A x \in S : m <= x
  BY SmallestExists
<1> QED BY <1>1 DEF Min

\* The inductive invariant gives the properties.
LEMMA MultiSound == MultiIInv => TunnelsSound
<1> SUFFICES ASSUME ServiceInv, RequestsRight PROVE TunnelsSound
  BY DEF MultiIInv
<1>1. ActiveRoutes
  <2> SUFFICES ASSUME activeID # NoEntry, ~tunnelsOverlapped, NEW host \in Hosts, NEW routeAll \in BOOLEAN,
                      shouldRoute(host, routeAll)
               PROVE  RoundTrip(host, routeAll) \in tunnelsOpen
    BY DEF ActiveRoutes
  <2>1. activeID \in ProfileIds /\ Up(activeID)
    BY DEF ServiceInv, ServiceTypes, Undisturbed
  <2>2. tunnels[activeID].tun \in tunnelsOpen
    BY <2>1 DEF ServiceInv, OneHolder
  <2> QED BY <2>1, <2>2 DEF RoundTrip
<1>2. NoTunnelLost
  BY DEF NoTunnelLost, ServiceInv, Undisturbed, Held
<1>3. DirectIsLastResort
  <2> SUFFICES ASSUME NEW u \in PoolUsers, user[u].pc = "try", ~rescued, ~user[u].worn,
                      \A e \in 1 .. DirectEntry - 1 : Routes(e, user[u].host),
                      ~Routes(Head(user[u].left), user[u].host)
               PROVE  user[u].failed = 1 .. DirectEntry - 1
    BY DEF DirectIsLastResort
  <2>1. Trying(u) /\ user[u].left \in Seq(Nat) /\ DirectEntry \in Nat \ {0}
    BY DEF RequestsRight, UserRec, ServiceInv, PoolTypes
  <2>2. PICK left \in Seq(Nat) : left = user[u].left
    BY <2>1
  <2>3. Len(left) \in Nat /\ Len(left) > 0 /\ left[1] = DirectEntry
    <3>1. Len(left) \in Nat /\ Len(left) > 0 /\ Head(left) = left[1] /\ left[1] \in 1 .. DirectEntry
      BY <2>1, <2>2 DEF Trying
    <3>2. left[1] \notin 1 .. DirectEntry - 1
      BY <2>2, <3>1
    <3> QED BY <2>1, <3>1, <3>2
  <2>4. /\ \A i \in 1 .. Len(left) : left[i] = DirectEntry <=> i = Len(left)
        /\ DirectEntry \notin user[u].failed /\ user[u].failed \subseteq 1 .. DirectEntry
        /\ \A e \in 1 .. DirectEntry : e \in user[u].failed \/ \E i \in 1 .. Len(left) : left[i] = e
    BY <2>1, <2>2 DEF Trying
  <2>5. Len(left) = 1
    <3>1. 1 \in 1 .. Len(left)
      BY <2>3
    <3> QED BY <2>3, <2>4, <3>1
  <2>6. \A e \in 1 .. DirectEntry : e \in user[u].failed \/ e = DirectEntry
    BY <2>3, <2>4, <2>5
  <2>7. \A e : e \in 1 .. DirectEntry - 1 <=> e \in 1 .. DirectEntry /\ e # DirectEntry
    BY <2>1
  <2> QED BY <2>4, <2>6, <2>7
<1>4. ProxiesActiveTunnel
  <2> SUFFICES ASSUME ~tunnelsOverlapped, OfActive # {}, activeID \notin replaced
               PROVE  proxies[ProxyURL].tun \in tunnelsOpen /\ proxies[ProxyURL].tun = tunnels[activeID].tun
    BY DEF ProxiesActiveTunnel
  <2>1. PICK e \in 1 .. DirectEntry : e = ProxyURL /\ proxies[e].id = activeID
    <3>1. OfActive \subseteq Nat
      BY DEF OfActive, ServiceInv, PoolTypes
    <3>2. ProxyURL \in OfActive
      BY <3>1, LeastIn DEF ProxyURL
    <3> QED BY <3>2 DEF OfActive
  <2>2. activeID \in ProfileIds
    <3>1. proxies[e] \in PoolEntry
      BY DEF ServiceInv, PoolTypes, DirectEntry
    <3> QED BY <2>1, <3>1, MultiAssumption DEF PoolEntry, ServiceInv, ServiceTypes
  <2>3. Up(activeID) /\ tunnels[activeID].tun = proxies[e].tun
    BY <2>1, <2>2, MultiAssumption DEF ServiceInv, Undisturbed, Kept, FromStart
  <2>4. tunnels[activeID].tun \in tunnelsOpen
    BY <2>2, <2>3 DEF ServiceInv, OneHolder
  <2> QED BY <2>1, <2>3, <2>4
<1>5. OneListener
  BY DEF OneListener, RequestsRight
<1> QED BY <1>1, <1>2, <1>3, <1>4, <1>5 DEF TunnelsSound

\* Whatever the worker and the requests do to the tunnels: while a profile is
\* active and no two goroutines have connected one, its traffic goes through an
\* open tunnel, the pool sends a stream through that tunnel and a request
\* directly only as the last resort, no tunnel that is up is lost, and
\* concurrent first uses make one proxy.
THEOREM TunnelsAreSound == MultiSpec => []TunnelsSound
<1>1. MultiSpec => []MultiIInv
  BY MultiStarts, MultiPreserved, PTL DEF MultiSpec
<1> QED BY <1>1, MultiSound, PTL

=============================================================================
