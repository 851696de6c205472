---------------------------- MODULE ProxyFanout ----------------------------
(***************************************************************************)
(* ProxyService: the viewers of one channel share an upstream connection.  *)
(* The first one opens it, trying the channel's streams in turn, later     *)
(* ones join it, and a goroutine copies what it reads to all of them.  The *)
(* map of connections and the client lists have locks of their own, so     *)
(* every lookup is a step of its own.  Viewers are also entered in the     *)
(* activity service.                                                       *)
(***************************************************************************)
EXTENDS Naturals, FiniteSets

CONSTANTS
  Viewers,   \* requests, each handled by a goroutine of its own
  Tries,     \* number of streams that are assigned to the channel
  None

\* A connection belongs to the viewer that opened it.
Conns == Viewers \X (1..Tries)
Opener(k) == k[1]

ASSUME ProxyAssumption == Tries \in Nat /\ None \notin Conns

VARIABLES
  connection,  \* the channel's entry in the map of connections, or None
  clients,     \* connection -> clients
  cancelled,   \* connections whose context is cancelled
  loop,        \* connection -> where its proxyLoop is
  target,      \* connection -> the connection its loop has looked up
  pc,          \* viewer -> where its request is
  found,       \* viewer -> the connection it has looked up
  try,         \* viewer -> the stream it tries
  done,        \* viewer -> how often its done channel was closed
  active,      \* viewers in the activity service
  overlapped,  \* a connection was opened before the one before it had ended
  stranded     \* viewers that joined a connection at its end or before it opened

proxyVars == <<connection, clients, cancelled, loop, target, pc, found, try, done, active,
               overlapped, stranded>>

ProxyInit ==
  /\ connection = None
  /\ clients = [k \in Conns |-> {}] /\ cancelled = {}
  /\ loop = [k \in Conns |-> "none"] /\ target = [k \in Conns |-> None]
  /\ pc = [v \in Viewers |-> "idle"] /\ found = [v \in Viewers |-> None]
  /\ try = [v \in Viewers |-> 0] /\ done = [v \in Viewers |-> 0]
  /\ active = {} /\ overlapped = FALSE /\ stranded = {}

Goto(v, l) == pc' = [pc EXCEPT ![v] = l]
Loops(k, l) == loop' = [loop EXCEPT ![k] = l]

\* What a function has looked up ends with it.
Forget(v) == found' = [found EXCEPT ![v] = None]
LoopForgets(k) == target' = [target EXCEPT ![k] = None]

-----------------------------------------------------------------------------
(* Requests *)

\* An unknown or disabled channel is refused; a profile of the request, the
\* channel or the detected client makes the connection a dedicated one.
ProxyStream(v) ==
  /\ pc[v] = "idle"
  /\ \/ Goto(v, "gone") /\ UNCHANGED <<active, try>>
     \/ /\ \E dedicated \in BOOLEAN : Goto(v, IF dedicated THEN "start" ELSE "join")
        /\ active' = active \cup {v} /\ try' = [try EXCEPT ![v] = 1]
  /\ UNCHANGED <<connection, clients, cancelled, loop, target, found, done, overlapped, stranded>>

\* A raw stream has its own connection and shares nothing but the activity.
ProxyRawStream(v) ==
  /\ pc[v] = "idle"
  /\ \/ Goto(v, "gone") /\ UNCHANGED active
     \/ Goto(v, "raw") /\ active' = active \cup {v}
  /\ UNCHANGED <<connection, clients, cancelled, loop, target, found, try, done, overlapped, stranded>>

\* The connection fails, ends or the client goes away: the deferred calls run.
copyToClient(v) ==
  /\ pc[v] = "raw"
  /\ Goto(v, "gone") /\ active' = active \ {v}
  /\ UNCHANGED <<connection, clients, cancelled, loop, target, found, try, done, overlapped, stranded>>

tryJoinExisting(v) ==
  /\ pc[v] = "join"
  /\ \/ connection = None /\ Goto(v, "start") /\ UNCHANGED found
     \/ /\ connection # None /\ Goto(v, "append")
        /\ found' = [found EXCEPT ![v] = connection]
  /\ UNCHANGED <<connection, clients, cancelled, loop, target, try, done, active, overlapped, stranded>>

Dying(k) == clients[k] = {} \/ connection # k \/ clients[k] \cap stranded # {}
AppendClient(v) ==
  LET k == found[v] IN
  /\ pc[v] = "append"
  /\ clients' = [clients EXCEPT ![k] = @ \cup {v}]
  /\ stranded' = IF Dying(k) THEN stranded \cup {v} ELSE stranded
  /\ Goto(v, "watching") /\ Forget(v)
  /\ UNCHANGED <<connection, cancelled, loop, target, try, done, active, overlapped>>

Lives(k) ==
  connection = k \/ loop[k] \in {"read", "deliver", "notify", "exit"}
    \/ \E v \in Viewers : found[v] = k /\ pc[v] \in {"remove", "cleanup"}

\* The streams are tried in order; those that are gone or inactive are passed.
startUpstream(v) ==
  /\ pc[v] = "start" /\ try[v] <= Tries
  /\ \/ /\ connection' = <<v, try[v]>>
        /\ clients' = [clients EXCEPT ![<<v, try[v]>>] = {v}]
        /\ overlapped' = (overlapped \/ \E k \in Conns : Lives(k))
        /\ Goto(v, "opening") /\ UNCHANGED try
     \/ /\ try' = [try EXCEPT ![v] = @ + 1]
        /\ UNCHANGED <<connection, clients, overlapped, pc>>
  /\ UNCHANGED <<cancelled, loop, target, found, done, active, stranded>>

\* Whatever connection the channel has is deleted.
Cleanup == connection' = None

openUpstreamFails(v) ==
  LET k == <<v, try[v]>> IN
  /\ pc[v] = "opening"
  /\ cancelled' = cancelled \cup {k} /\ Cleanup
  /\ stranded' = stranded \cup (clients[k] \ {v})
                   \cup {u \in Viewers : pc[u] = "append" /\ found[u] = k}
  /\ try' = [try EXCEPT ![v] = @ + 1] /\ Goto(v, "start")
  /\ UNCHANGED <<clients, loop, target, found, done, active, overlapped>>

openUpstream(v) ==
  /\ pc[v] = "opening"
  /\ Loops(<<v, try[v]>>, "read") /\ Goto(v, "watching")
  /\ try' = [try EXCEPT ![v] = 0]
  /\ UNCHANGED <<connection, clients, cancelled, target, found, done, active, overlapped, stranded>>

AllStreamsFailed(v) ==
  /\ pc[v] = "start" /\ try[v] > Tries
  /\ Goto(v, "gone") /\ active' = active \ {v} /\ try' = [try EXCEPT ![v] = 0]
  /\ UNCHANGED <<connection, clients, cancelled, loop, target, found, done, overlapped, stranded>>

\* The done channel is closed, or the request's context ends.
Wake(v) ==
  /\ pc[v] = "watching"
  /\ Goto(v, "lookup") /\ active' = active \ {v}
  /\ UNCHANGED <<connection, clients, cancelled, loop, target, found, try, done, overlapped, stranded>>
Told(v) == done[v] > 0 /\ Wake(v)
Leave(v) == Wake(v)

\* removeClient: the connection that the map has now.
RemoveLookup(v) ==
  /\ pc[v] = "lookup"
  /\ \/ connection = None /\ Goto(v, "gone") /\ UNCHANGED found
     \/ /\ connection # None /\ Goto(v, "remove")
        /\ found' = [found EXCEPT ![v] = connection]
  /\ UNCHANGED <<connection, clients, cancelled, loop, target, try, done, active, overlapped, stranded>>

\* (Slip: the last but one closes the connection.)
LastButOne(left) == Cardinality(left) <= 1
NoneLeft(left) == left = {}

removeClient(v) ==
  LET k == found[v]
      left == clients[k] \ {v} IN
  /\ pc[v] = "remove"
  /\ clients' = [clients EXCEPT ![k] = left]
  /\ \/ ~NoneLeft(left) /\ Goto(v, "gone") /\ Forget(v) /\ UNCHANGED cancelled
     \/ NoneLeft(left) /\ Goto(v, "cleanup") /\ cancelled' = cancelled \cup {k} /\ UNCHANGED found
  /\ UNCHANGED <<connection, loop, target, try, done, active, overlapped, stranded>>

RemoveCleanup(v) ==
  /\ pc[v] = "cleanup"
  /\ Cleanup /\ Goto(v, "gone") /\ Forget(v)
  /\ UNCHANGED <<clients, cancelled, loop, target, try, done, active, overlapped, stranded>>

-----------------------------------------------------------------------------
(* proxyLoop *)

LoopRest == <<cancelled, pc, found, try, active, stranded>>

\* Data: the loop writes to the clients of the connection that the map has.
\* (Slip: without one it returns and leaves the upstream open.)
ReturnsOpen(k) ==
  /\ loop[k] = "read" /\ k \notin cancelled
  /\ \/ connection = None /\ Loops(k, "left") /\ UNCHANGED target
     \/ connection # None /\ Loops(k, "deliver") /\ target' = [target EXCEPT ![k] = connection]
  /\ UNCHANGED <<connection, clients, done, overlapped, LoopRest>>
ReadData(k) ==
  /\ loop[k] = "read" /\ k \notin cancelled
  /\ \/ connection = None /\ Loops(k, "exit") /\ UNCHANGED target
     \/ connection # None /\ Loops(k, "deliver") /\ target' = [target EXCEPT ![k] = connection]
  /\ UNCHANGED <<connection, clients, done, overlapped, LoopRest>>

\* A write fails for those in bad; they are told and dropped.
Deliver(k, bad) ==
  LET t == target[k] IN
  /\ loop[k] = "deliver" /\ bad \subseteq clients[t]
  /\ done' = [v \in Viewers |-> IF v \in bad THEN done[v] + 1 ELSE done[v]]
  /\ clients' = [clients EXCEPT ![t] = @ \ bad]
  /\ Loops(k, IF clients[t] = bad THEN "exit" ELSE "read") /\ LoopForgets(k)
  /\ UNCHANGED <<connection, overlapped, LoopRest>>

\* The upstream ends, fails or is cancelled.
ReadError(k) ==
  /\ loop[k] = "read"
  /\ \/ connection = None /\ Loops(k, "exit") /\ UNCHANGED target
     \/ connection # None /\ Loops(k, "notify") /\ target' = [target EXCEPT ![k] = connection]
  /\ UNCHANGED <<connection, clients, done, overlapped, LoopRest>>

notifyAllClients(k) ==
  LET t == target[k] IN
  /\ loop[k] = "notify"
  /\ done' = [v \in Viewers |-> IF v \in clients[t] THEN done[v] + 1 ELSE done[v]]
  /\ clients' = [clients EXCEPT ![t] = {}]
  /\ Loops(k, "exit") /\ LoopForgets(k)
  /\ UNCHANGED <<connection, overlapped, LoopRest>>

\* The deferred calls; the upstream is closed.
LoopExit(k) ==
  /\ loop[k] = "exit"
  /\ Cleanup /\ cancelled' = cancelled \cup {k}
  /\ Loops(k, "ended")
  /\ UNCHANGED <<clients, target, pc, found, try, done, active, overlapped, stranded>>

-----------------------------------------------------------------------------
ViewerSteps(v) ==
  \/ tryJoinExisting(v) \/ AppendClient(v) \/ startUpstream(v) \/ openUpstream(v)
  \/ openUpstreamFails(v) \/ AllStreamsFailed(v) \/ Told(v) \/ Leave(v) \/ RemoveLookup(v)
  \/ removeClient(v) \/ RemoveCleanup(v) \/ copyToClient(v)

proxyLoop(k) ==
  \/ ReadData(k) \/ ReadError(k) \/ notifyAllClients(k) \/ LoopExit(k)
  \/ \E bad \in SUBSET Viewers : Deliver(k, bad)

ProxyNext ==
  \/ \E v \in Viewers : ProxyStream(v) \/ ProxyRawStream(v) \/ ViewerSteps(v)
  \/ \E k \in Conns : proxyLoop(k)

\* Reads of a live stream return, and requests end.
ProxyFairness ==
  /\ \A v \in Viewers : WF_proxyVars(ViewerSteps(v))
  /\ \A k \in Conns : WF_proxyVars(proxyLoop(k))

ProxySpec == ProxyInit /\ [][ProxyNext]_proxyVars /\ ProxyFairness

-----------------------------------------------------------------------------
(* Properties *)

\* A done channel is closed once: a second close panics in a goroutine that
\* nothing recovers.  A viewer may be in the lists of two connections, because
\* its failed tries keep it; while the channel's connections follow each other
\* without overlap those are out of reach of every loop.  With an overlap, as
\* when a viewer comes while the connection of one that left is still being
\* closed, the old loop finds the new connection in the map.
ClosedOnce == ~overlapped => \A v \in Viewers : done[v] <= 1

\* A viewer that waits has been told to stop, or is a client of the channel's
\* connection while that opens or its loop runs.  Left without either are
\* only those that joined a connection that was empty, replaced or not yet
\* open, and, once connections have overlapped, anybody.
Serving(k) == loop[k] \in {"read", "deliver", "notify"} \/ pc[Opener(k)] = "opening"
ServedOrTold ==
  \A v \in Viewers \ stranded :
    pc[v] = "watching" /\ ~overlapped =>
      done[v] > 0 \/ (connection # None /\ v \in clients[connection] /\ Serving(connection))

\* While connections do not overlap, a viewer gets the data of the
\* connection it is a client of, and none after its request has returned,
\* when the response may no longer be written to.
DeliversOwn ==
  ~overlapped =>
    \A k \in Conns : loop[k] = "deliver" =>
      target[k] = k /\ \A v \in clients[k] \ stranded : pc[v] # "gone"

\* The activity lists the viewers whose requests are being handled, and a
\* request that fails at any point does not stay listed.
ActivityHonest ==
  \A v \in Viewers : v \in active =>
    pc[v] \in {"join", "append", "start", "opening", "watching", "raw"}

\* A viewer's done channel is closed once, a viewer that waits is served or
\* has been told to stop, it gets the data of its own connection and none
\* after its request has returned, and the activity lists the requests that
\* are being handled only.
ViewersServed == ClosedOnce /\ ServedOrTold /\ DeliversOwn /\ ActivityHonest

\* No upstream connection outlives its viewers for ever, also when it was
\* replaced in the map or its viewers left while it was being opened.
UpstreamReleased ==
  (\A v \in Viewers : pc[v] = "gone") ~> (\A k \in Conns : loop[k] \in {"none", "ended"})

=============================================================================
