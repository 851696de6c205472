--------------------------- MODULE JellyfinServer ---------------------------
(***************************************************************************)
(* What the Jellyfin server keeps and changes (pkg/jellyfin: auth.go,      *)
(* state.go, playback.go).  A login gives the client a random token, kept  *)
(* in memory (Server.tokens), in persistedState.Tokens and in a file that  *)
(* is written in place; a restart reads the file.  A request with a token  *)
(* the server does not know registers the token for the first user.        *)
(* Playback starts an HLS session for a stream and serves its segments     *)
(* from the session's directory while the session writes them.             *)
(***************************************************************************)
EXTENDS Naturals, FiniteSets, Sequences

CONSTANTS
  Users,     \* the users there can be: id -> name without regard to case
  Clients,   \* each logs in once; its token is its own
  MaxSegs,
  MaxGen,
  Viewers,   \* segment requests
  None

VARIABLES
  list,      \* the users, as UserStore.List gives them
  tokens,    \* Server.tokens: client's token -> user
  saved,     \* persistedState.Tokens
  file,      \* the tokens in the file
  cut,       \* the file was cut by a crash, now or before
  client,    \* per client: its request and the user it logged in as
  hls,       \* the session: [gen, running, segs complete, writing the next, consumers]
  viewer     \* per segment request: what it asks for and what it was served

tokenVars == <<list, tokens, saved, file, cut, client>>
serverVars == <<tokenVars, hls, viewer>>

NoTokens == [c \in Clients |-> None]
NoClient == [pc |-> "new", as |-> None, user |-> None]
NoHLS == [gen |-> 0, running |-> FALSE, segs |-> 0, writing |-> FALSE, consumers |-> 0]
NoViewer == [pc |-> "idle", seg |-> 0, gen |-> 0, inTime |-> TRUE, whole |-> TRUE]

ServerInit ==
  /\ list \in {s \in [1 .. 2 -> DOMAIN Users] : s[1] # s[2]}
  /\ tokens = NoTokens /\ saved = NoTokens /\ file = NoTokens /\ cut = FALSE
  /\ client = [c \in Clients |-> NoClient]
  /\ hls = NoHLS /\ viewer = [v \in Viewers |-> NoViewer]

At(c, from, to) == client[c].pc = from /\ client' = [client EXCEPT ![c] = to]

-----------------------------------------------------------------------------
(* Login checks the password of the user with exactly this name. *)
authenticateByName(c, u) ==
  /\ \E i \in DOMAIN list : list[i] = u
  /\ At(c, "new", [NoClient EXCEPT !.pc = "list", !.as = u])
  /\ UNCHANGED <<list, tokens, saved, file, cut, hls, viewer>>

(* The user is then looked for in the list, without regard to case; one    *)
(* that has gone in between is nobody.                                     *)
FindUser(c) ==
  LET same(u) == Users[u] = Users[client[c].as]
      found == SelectSeq(list, same)
  IN  /\ At(c, "list", [client[c] EXCEPT !.pc = "store",
                                         !.user = IF found = << >> THEN "" ELSE Head(found)])
      /\ UNCHANGED <<list, tokens, saved, file, cut, hls, viewer>>

(* requireAuth: a token that is known is let in as its user. *)
KnownToken(c) ==
  /\ client[c].pc = "holds" /\ tokens[c] # None
  /\ client' = [client EXCEPT ![c].user = tokens[c]]
  /\ UNCHANGED <<list, tokens, saved, file, cut, hls, viewer>>

requireAuth(c) ==
  /\ tokens[c] = None /\ list # << >>
  /\ At(c, "holds", [client[c] EXCEPT !.pc = "store", !.user = Head(list)])
  /\ UNCHANGED <<list, tokens, saved, file, cut, hls, viewer>>

(* storeToken, and saveState after it. *)
storeToken(c) ==
  /\ At(c, "store", [client[c] EXCEPT !.pc = "note"])
  /\ tokens' = [tokens EXCEPT ![c] = client[c].user]
  /\ UNCHANGED <<list, saved, file, cut, hls, viewer>>

NoteToken(c) ==
  /\ At(c, "note", [client[c] EXCEPT !.pc = "save"])
  /\ saved' = [saved EXCEPT ![c] = client[c].user]
  /\ UNCHANGED <<list, tokens, file, cut, hls, viewer>>

saveState(c) ==
  /\ At(c, "save", [client[c] EXCEPT !.pc = "holds"])
  /\ file' = saved
  /\ UNCHANGED <<list, tokens, saved, cut, hls, viewer>>

(* A restart: requests under way are lost, a token not yet answered is not *)
(* the client's.  One that was writing the file leaves it cut, and         *)
(* loadState takes what it cannot read for no tokens.                      *)
Dropped(c) == [client[c] EXCEPT !.pc = IF client[c].pc = "holds" THEN "holds" ELSE "new"]

Restart(isCut) ==
  /\ isCut => \E c \in Clients : client[c].pc = "save"
  /\ file' = IF isCut THEN NoTokens ELSE file
  /\ cut' = (cut \/ isCut)
  /\ tokens' = file' /\ saved' = file'
  /\ client' = [c \in Clients |-> Dropped(c)]
  /\ hls' = NoHLS /\ viewer' = [v \in Viewers |-> NoViewer]
  /\ UNCHANGED list

DeleteUser ==
  /\ list # << >> /\ list' = Tail(list)
  /\ UNCHANGED <<tokens, saved, file, cut, client, hls, viewer>>

-----------------------------------------------------------------------------
(* StartWatchingStreamHLS: a session that has ended is replaced and its    *)
(* directory removed; the consumer added is never taken away again.        *)
hlsMasterPlaylist ==
  /\ \/ /\ hls.gen > 0 /\ hls.running /\ hls.consumers < MaxGen
        /\ hls' = [hls EXCEPT !.consumers = @ + 1]
     \/ /\ ~hls.running /\ hls.gen < MaxGen
        /\ hls' = [NoHLS EXCEPT !.gen = hls.gen + 1, !.running = TRUE, !.consumers = 1]
  /\ UNCHANGED <<tokenVars, viewer>>

(* The pipeline. *)
BeginSegment ==
  /\ hls.running /\ ~hls.writing /\ hls.segs < MaxSegs
  /\ hls' = [hls EXCEPT !.writing = TRUE]
  /\ UNCHANGED <<tokenVars, viewer>>

(* A segment is complete when the next one is begun. *)
NextSegment ==
  /\ hls.running /\ hls.writing /\ hls.segs + 1 < MaxSegs
  /\ hls' = [hls EXCEPT !.segs = @ + 1]
  /\ UNCHANGED <<tokenVars, viewer>>

SessionEnds ==
  /\ hls.running
  /\ hls' = [hls EXCEPT !.running = FALSE, !.writing = FALSE,
                        !.segs = IF hls.writing THEN hls.segs + 1 ELSE hls.segs]
  /\ UNCHANGED <<tokenVars, viewer>>

SegExists(i) == i < hls.segs \/ (i = hls.segs /\ hls.writing)

hlsSegment(v, i) ==
  /\ viewer[v].pc = "idle" /\ hls.gen > 0
  /\ viewer' = [viewer EXCEPT ![v] = [NoViewer EXCEPT !.pc = "wait", !.seg = i]]
  /\ UNCHANGED <<tokenVars, hls>>

\* Slip: the segment is served as soon as it is there.
AsSoonAsThere(v) ==
  /\ viewer[v].pc = "wait" /\ SegExists(viewer[v].seg)
  /\ viewer' = [viewer EXCEPT ![v].pc = "serve", ![v].gen = hls.gen]
  /\ UNCHANGED <<tokenVars, hls>>

SegmentReady(v) ==
  /\ viewer[v].pc = "wait" /\ SegExists(viewer[v].seg)
  /\ SegExists(viewer[v].seg + 1) \/ ~hls.running
  /\ viewer' = [viewer EXCEPT ![v].pc = "serve", ![v].gen = hls.gen]
  /\ UNCHANGED <<tokenVars, hls>>

WaitIsOver(v) ==
  /\ viewer[v].pc = "wait"
  /\ viewer' = [viewer EXCEPT ![v].pc = "serve", ![v].gen = hls.gen, ![v].inTime = FALSE]
  /\ UNCHANGED <<tokenVars, hls>>

(* The file is looked for once more and served, or not found. *)
ServeSegment(v) ==
  /\ viewer[v].pc = "serve"
  /\ viewer' = [viewer EXCEPT
       ![v].pc = IF SegExists(viewer[v].seg) THEN "served" ELSE "notfound",
       ![v].whole = viewer[v].seg < hls.segs]
  /\ UNCHANGED <<tokenVars, hls>>

-----------------------------------------------------------------------------
ServerSteps ==
  \/ \E c \in Clients : FindUser(c) \/ storeToken(c) \/ NoteToken(c) \/ saveState(c)
  \/ BeginSegment \/ NextSegment \/ SessionEnds
  \/ \E v \in Viewers : SegmentReady(v) \/ WaitIsOver(v) \/ ServeSegment(v)

ServerRequests ==
  \/ \E c \in Clients, u \in DOMAIN Users : authenticateByName(c, u)
  \/ \E c \in Clients : KnownToken(c) \/ requireAuth(c)
  \/ \E b \in BOOLEAN : Restart(b)
  \/ DeleteUser \/ hlsMasterPlaylist
  \/ \E v \in Viewers, i \in 0 .. MaxSegs - 1 : hlsSegment(v, i)

-----------------------------------------------------------------------------
(* A client is let in as the user it logged in as, also after restarts,    *)
(* unless a crash cut the file of tokens, or another user's name differs   *)
(* only in case (authenticateByName, requireAuth, loadState).              *)
TokenIsItsUsers ==
  \A c \in Clients :
    LET twins == {u \in DOMAIN Users : u # client[c].as /\ Users[u] = Users[client[c].as]}
    IN  client[c].pc = "holds" /\ ~cut /\ twins = {} => tokens[c] \in {client[c].as, ""}

(* A segment is served whole, unless the 30 s ran out while it was being   *)
(* written, or the session was replaced just before it was sent            *)
(* (hlsSegment waits for the segment after it).                            *)
SegmentsWhole ==
  \A v \in Viewers :
    viewer[v].pc = "served" /\ viewer[v].inTime /\ viewer[v].gen = hls.gen => viewer[v].whole
=============================================================================
