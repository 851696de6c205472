---------------------------- MODULE TunerDevices ----------------------------
(***************************************************************************)
(* The HDHomeRun emulation: device rows, and one HTTP server per enabled   *)
(* device on the device's own port, which a worker starts and stops so     *)
(* that the servers follow the rows.  A server works on the copy of the    *)
(* row it was started with.                                                *)
(***************************************************************************)
EXTENDS Naturals, Sequences, FiniteSets, FiniteSetsExt

CONSTANTS
  DeviceIds,   \* ids, in the order in which they are given
  BasePort,    \* the first port that is given out
  UserPorts,   \* ports that a request asks for
  GroupSets,   \* channel groups that a request asks for
  MaxServers,  \* bound on the servers ever started
  Handlers,
  NoDevice

\* A row of the store.
Row == [port : Nat, enabled : BOOLEAN, groups : GroupSets \cup {{}}]

ASSUME TunerAssumption ==
  /\ IsFiniteSet(DeviceIds) /\ DeviceIds \subseteq Nat \ {0}
  /\ BasePort \in Nat /\ UserPorts \subseteq Nat
  /\ NoDevice \notin Row /\ NoDevice \notin [DeviceIds -> Row \cup {NoDevice}]

VARIABLES
  devices,   \* id -> [port, enabled, groups], or NoDevice; saved at every change
  issued,    \* number of ids given
  handler,   \* goroutine -> what it is doing
  listed,    \* the rows that the running sync has listed, or NoDevice
  synced,    \* the rows that the last finished sync applied
  servers,   \* id -> number of its server, or 0
  server,    \* server number -> [id, port, groups, state]
  chosen     \* ids whose port was asked for, or chosen while another was

deviceVars == <<devices, issued, handler, listed, synced, servers, server, chosen>>

NoRequest == [pc |-> "idle", id |-> NoDevice, row |-> NoDevice, groups |-> {}]
NoDevices == [id \in DeviceIds |-> NoDevice]

DevicesInit ==
  /\ devices = NoDevices /\ issued = 0
  /\ handler = [h \in Handlers |-> NoRequest]
  /\ listed = NoDevice /\ synced = NoDevices
  /\ servers = [id \in DeviceIds |-> 0] /\ server = <<>>
  /\ chosen = {}

-----------------------------------------------------------------------------
(* Requests *)

DeviceRows == {devices[id] : id \in DeviceIds} \ {NoDevice}

NextAvailablePort(rows) == Max({BasePort} \cup {d.port + 1 : d \in rows})

\* The port is chosen now, and the device is created later.
CreateRequest(h, port, enabled, groups) ==
  /\ handler[h].pc = "idle" /\ issued < Cardinality(DeviceIds)
  /\ handler' = [handler EXCEPT ![h] =
       [pc |-> IF port = 0 THEN "createAuto" ELSE "create", id |-> NoDevice, groups |-> groups,
        row |-> [port |-> IF port = 0 THEN NextAvailablePort(DeviceRows) ELSE port, enabled |-> enabled, groups |-> {}]]]
  /\ UNCHANGED <<devices, issued, listed, synced, servers, server, chosen>>

\* The row is created without groups, which are set in a second step.
CreateDevice(h) ==
  LET id == issued + 1
      auto == handler[h].pc = "createAuto" /\ \A k \in Handlers \ {h} : handler[k].pc \notin {"create", "createAuto"}
  IN
  /\ handler[h].pc \in {"create", "createAuto"} /\ id \in DeviceIds
  /\ issued' = id
  /\ devices' = [devices EXCEPT ![id] = handler[h].row]
  /\ handler' = [handler EXCEPT ![h] = IF handler[h].groups = {} THEN NoRequest ELSE [@ EXCEPT !.pc = "groups", !.id = id]]
  /\ chosen' = IF auto THEN chosen ELSE chosen \cup {id}
  /\ UNCHANGED <<listed, synced, servers, server>>

UpdateRequest(h, id, port, enabled, groups) ==
  /\ handler[h].pc = "idle" /\ devices[id] # NoDevice
  /\ handler' = [handler EXCEPT ![h] =
       [pc |-> "update", id |-> id, groups |-> groups,
        row |-> [devices[id] EXCEPT !.enabled = enabled, !.port = IF port = 0 THEN @ ELSE port]]]
  /\ chosen' = IF port = 0 THEN chosen ELSE chosen \cup {id}
  /\ UNCHANGED <<devices, issued, listed, synced, servers, server>>

\* A row that was deleted meanwhile is not found, and the request fails.
UpdateDevice(h) ==
  LET id == handler[h].id IN
  /\ handler[h].pc = "update"
  /\ devices' = IF devices[id] = NoDevice THEN devices ELSE [devices EXCEPT ![id] = handler[h].row]
  /\ handler' = [handler EXCEPT ![h] = IF devices[id] = NoDevice THEN NoRequest ELSE [@ EXCEPT !.pc = "groups"]]
  /\ UNCHANGED <<issued, listed, synced, servers, server, chosen>>

SetChannelGroups(h) ==
  LET id == handler[h].id IN
  /\ handler[h].pc = "groups"
  /\ devices' = IF devices[id] = NoDevice THEN devices ELSE [devices EXCEPT ![id].groups = handler[h].groups]
  /\ handler' = [handler EXCEPT ![h] = NoRequest]
  /\ UNCHANGED <<issued, listed, synced, servers, server, chosen>>

DeleteDevice(id) ==
  /\ devices[id] # NoDevice
  /\ devices' = [devices EXCEPT ![id] = NoDevice]
  /\ UNCHANGED <<issued, handler, listed, synced, servers, server, chosen>>

-----------------------------------------------------------------------------
(* HDHRServerWorker *)

Desired(rows) == {id \in DeviceIds : rows[id] # NoDevice /\ rows[id].enabled /\ rows[id].port > 0}

sync ==
  /\ listed = NoDevice
  /\ listed' = devices
  /\ UNCHANGED <<devices, issued, handler, synced, servers, server, chosen>>

ToStop(rows) == {id \in DeviceIds : servers[id] # 0 /\ (id \notin Desired(rows) \/ rows[id].port # server[servers[id]].port)}

\* (Slip: the server is forgotten, not closed.)
NotClosed(s, ids) == s.state
Closed(s, ids) == IF s.id \in ids THEN "closed" ELSE s.state

\* Servers are stopped and started in one critical section; the new ones
\* listen later, each in its own goroutine.
SyncApply ==
  LET stop == ToStop(listed)
      start == {id \in Desired(listed) : servers[id] = 0 \/ id \in stop}
      nth(id) == Len(server) + Cardinality({j \in start : j <= id})
      byNumber(n) == CHOOSE id \in start : nth(id) = n
  IN
  /\ listed # NoDevice /\ Len(server) + Cardinality(start) <= MaxServers
  /\ servers' = [id \in DeviceIds |-> IF id \in start THEN nth(id) ELSE IF id \in stop THEN 0 ELSE servers[id]]
  /\ server' = [n \in 1..(Len(server) + Cardinality(start)) |->
       IF n <= Len(server) THEN [server[n] EXCEPT !.state = Closed(server[n], stop)]
       ELSE [id |-> byNumber(n), port |-> listed[byNumber(n)].port, groups |-> listed[byNumber(n)].groups, state |-> "starting"]]
  /\ synced' = listed /\ listed' = NoDevice
  /\ UNCHANGED <<devices, issued, handler, chosen>>

PortTaken(port) == \E n \in DOMAIN server : server[n].state = "listening" /\ server[n].port = port

\* A server whose port is taken logs the error; its entry stays and keeps the
\* worker from starting it again.
ListenAndServe(n) ==
  /\ server[n].state = "starting"
  /\ server' = [server EXCEPT ![n].state = IF PortTaken(server[n].port) THEN "failed" ELSE "listening"]
  /\ UNCHANGED <<devices, issued, handler, listed, synced, servers, chosen>>

\* The rows are read back; the servers of the last run are gone.
DevicesRestart ==
  /\ handler' = [h \in Handlers |-> NoRequest]
  /\ listed' = NoDevice /\ synced' = NoDevices
  /\ servers' = [id \in DeviceIds |-> 0]
  /\ server' = [n \in DOMAIN server |-> [server[n] EXCEPT !.state = "closed"]]
  /\ UNCHANGED <<devices, issued, chosen>>

DevicesSteps ==
  \/ \E h \in Handlers : CreateDevice(h) \/ UpdateDevice(h) \/ SetChannelGroups(h)
  \/ SyncApply \/ \E n \in DOMAIN server : ListenAndServe(n)

DevicesRequests ==
  \/ sync \/ DevicesRestart
  \/ \E h \in Handlers, port \in UserPorts \cup {0}, enabled \in BOOLEAN, g \in GroupSets :
       CreateRequest(h, port, enabled, g) \/ \E id \in DeviceIds : UpdateRequest(h, id, port, enabled, g)
  \/ \E id \in DeviceIds : DeleteDevice(id)

DevicesSpec == DevicesInit /\ [][DevicesSteps \/ DevicesRequests]_deviceVars

-----------------------------------------------------------------------------
(* Properties *)

\* No listener is left behind: a server that listens, or is about to, is the
\* one registered for its device, so a later sync can still stop it.
NoLeakedListener ==
  \A n \in DOMAIN server : server[n].state \in {"starting", "listening"} => servers[server[n].id] = n

\* After a sync, and until the rows change, exactly the enabled devices have a
\* server, on the port of their row.
ServersFollowDevices ==
  listed = NoDevice /\ synced = devices =>
    \A id \in DeviceIds : IF id \in Desired(devices) THEN servers[id] # 0 /\ server[servers[id]].port = devices[id].port
                          ELSE servers[id] = 0

\* Ports given out by themselves differ, so their devices can all listen; two
\* requests at once, or a port that was asked for, may collide.
AutoPortsDistinct ==
  \A i, j \in DeviceIds : i # j /\ devices[i] # NoDevice /\ devices[j] # NoDevice /\ {i, j} \cap chosen = {} =>
    devices[i].port # devices[j].port

\* A device whose port was given out by itself is refused its port only to
\* another device whose port was asked for.
RefusedByRival ==
  \A n \in DOMAIN server : server[n].state = "failed" =>
    \E m \in DOMAIN server : m # n /\ server[m].port = server[n].port /\ {server[m].id, server[n].id} \cap chosen # {}

\* No listener is left behind, exactly the enabled devices have a server after
\* a sync, ports given out by themselves differ, and such a device is refused
\* its port only to one whose port was asked for.
TunersServed == NoLeakedListener /\ ServersFollowDevices /\ AutoPortsDistinct /\ RefusedByRival

=============================================================================
