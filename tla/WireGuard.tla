----------------------------- MODULE WireGuard -----------------------------
(***************************************************************************)
(* WireGuardService: one tunnel, configured by settings.  Requests connect *)
(* and disconnect, a worker compares the settings with those of the last   *)
(* connection; each reads and writes the settings and the service's state  *)
(* in steps of their own, and bringing a tunnel up happens between them.   *)
(***************************************************************************)
EXTENDS Naturals, FiniteSets, Sequences

CONSTANTS
  Configs,    \* contents of the wg_ settings; NoConfig when there is no address
  NoConfig,
  Actors,     \* request goroutines and the worker
  MaxTunnels, \* bound on the tunnels that are made
  NoTunnel

ASSUME TunnelAssumption == NoTunnel \notin Nat

VARIABLES
  tunnelEnabled, config,  \* the settings
  tunnel,           \* the service's tunnel, or NoTunnel
  lastConfig,       \* the fingerprint of the last connection
  state,            \* what the status shows
  exitIP,           \* the tunnel whose exit address is shown, or NoTunnel
  made,             \* tunnel -> the configuration it was made with
  open,             \* tunnels that are up
  asking,           \* tunnels whose exit address is being looked up
  actor,            \* goroutine -> what it is doing
  overlapped,       \* two goroutines have reconfigured at the same time, or a
                    \* setting was changed while one did
  bootFailed        \* no tunnel could be made when the program started, or since

wgVars == <<tunnelEnabled, config, tunnel, lastConfig, state, exitIP, made, open, asking, actor,
            overlapped, bootFailed>>

NoFingerprint == <<FALSE, NoTunnel>>
ConfigFingerprint == <<tunnelEnabled, config>>
hasConfig == config # NoConfig

Free == [pc |-> "free", fp |-> NoFingerprint, tun |-> NoTunnel, conf |-> NoTunnel]
At(a, l) == actor' = [actor EXCEPT ![a].pc = l]
Done(a) == actor' = [actor EXCEPT ![a] = Free]
Alone(a) == \A b \in Actors \ {a} : actor[b].pc = "free"
Noted(a) == overlapped' = (overlapped \/ ~Alone(a))

-----------------------------------------------------------------------------
\* Start, in the program's main function, before anything else runs.
WireGuardInit ==
  /\ tunnelEnabled \in BOOLEAN /\ config \in Configs \cup {NoConfig}
  /\ lastConfig = ConfigFingerprint
  /\ exitIP = NoTunnel /\ overlapped = FALSE
  /\ actor = [a \in Actors |-> Free]
  /\ \/ /\ ~hasConfig /\ state = "unconfigured" /\ tunnel = NoTunnel
        /\ made = <<>> /\ open = {} /\ asking = {} /\ bootFailed = FALSE
     \/ /\ hasConfig /\ ~tunnelEnabled /\ state = "disconnected" /\ tunnel = NoTunnel
        /\ made = <<>> /\ open = {} /\ asking = {} /\ bootFailed = FALSE
     \/ /\ hasConfig /\ tunnelEnabled /\ state = "error" /\ tunnel = NoTunnel
        /\ made = <<>> /\ open = {} /\ asking = {} /\ bootFailed = TRUE
     \/ /\ hasConfig /\ tunnelEnabled /\ state = "connected" /\ tunnel = 1
        /\ made = <<config>> /\ open = {1} /\ asking = {1} /\ bootFailed = FALSE

\* (Slip: the tunnel is forgotten but left up.)
Forgotten ==
  /\ open' = open
  /\ tunnel' = NoTunnel
  /\ lastConfig' = IF tunnel = NoTunnel THEN lastConfig ELSE NoFingerprint
closeLocked ==
  /\ open' = open \ {tunnel}
  /\ tunnel' = NoTunnel
  /\ lastConfig' = IF tunnel = NoTunnel THEN lastConfig ELSE NoFingerprint

-----------------------------------------------------------------------------
(* Requests and the worker *)

Settings == <<tunnelEnabled, config>>
Rest == <<made, asking, bootFailed>>

\* Connect writes the settings one after the other, in any order.
Connect(a, c) ==
  /\ actor[a].pc = "free"
  /\ actor' = [actor EXCEPT ![a] = [Free EXCEPT !.pc = "set", !.conf = c]]
  /\ overlapped' = (overlapped \/ ~Alone(a))
  /\ UNCHANGED <<Settings, tunnel, lastConfig, state, exitIP, open, Rest>>

ConnectSet(a) ==
  /\ actor[a].pc = "set"
  /\ \/ tunnelEnabled' = TRUE /\ ~tunnelEnabled /\ UNCHANGED <<config, actor>>
     \/ config' = actor[a].conf /\ config # actor[a].conf /\ UNCHANGED <<tunnelEnabled, actor>>
     \/ tunnelEnabled /\ config = actor[a].conf /\ At(a, "close") /\ UNCHANGED Settings
  /\ Noted(a)
  /\ UNCHANGED <<tunnel, lastConfig, state, exitIP, open, Rest>>

\* The reconnect request, and the worker that finds a new fingerprint.
Reconnect(a) ==
  /\ actor[a].pc = "free"
  /\ At(a, "close") /\ Noted(a)
  /\ UNCHANGED <<Settings, tunnel, lastConfig, state, exitIP, open, Rest>>

SyncIfChanged(a) == ConfigFingerprint # lastConfig /\ Reconnect(a)

\* A settings request changes the settings directly.
ChangeSetting(on, c) ==
  /\ tunnelEnabled' = on /\ config' = c
  /\ overlapped' = (overlapped \/ \E a \in Actors : actor[a].pc # "free")
  /\ UNCHANGED <<tunnel, lastConfig, state, exitIP, open, actor, Rest>>

Disconnect(a) ==
  /\ actor[a].pc = "free"
  /\ tunnelEnabled' = FALSE /\ UNCHANGED config
  /\ At(a, "closing") /\ Noted(a)
  /\ UNCHANGED <<tunnel, lastConfig, state, exitIP, open, Rest>>

DisconnectClose(a) ==
  /\ actor[a].pc = "closing"
  /\ closeLocked /\ state' = "disconnected" /\ exitIP' = NoTunnel
  /\ At(a, "noted")
  /\ UNCHANGED <<Settings, overlapped, Rest>>

DisconnectNote(a) ==
  /\ actor[a].pc = "noted"
  /\ lastConfig' = ConfigFingerprint /\ bootFailed' = FALSE /\ Done(a)
  /\ UNCHANGED <<Settings, tunnel, state, exitIP, open, made, asking, overlapped>>

-----------------------------------------------------------------------------
(* Reconfigure and doConnect *)

ReconfigureClose(a) ==
  /\ actor[a].pc = "close"
  /\ closeLocked /\ At(a, "check")
  /\ UNCHANGED <<Settings, state, exitIP, overlapped, Rest>>

Reconfigure(a) ==
  /\ actor[a].pc = "check"
  /\ actor' = [actor EXCEPT ![a].fp = ConfigFingerprint, ![a].pc = IF tunnelEnabled THEN "connect" ELSE "off"]
  /\ UNCHANGED <<Settings, tunnel, lastConfig, state, exitIP, open, overlapped, Rest>>

ReconfigureOff(a) ==
  /\ actor[a].pc = "off"
  /\ lastConfig' = actor[a].fp
  /\ state' = IF hasConfig THEN "disconnected" ELSE "unconfigured"
  /\ bootFailed' = FALSE /\ Done(a)
  /\ UNCHANGED <<Settings, tunnel, exitIP, open, made, asking, overlapped>>

doConnect(a) ==
  /\ actor[a].pc = "connect"
  /\ state' = "connecting" /\ exitIP' = NoTunnel
  /\ actor' = [actor EXCEPT ![a].pc = "up", ![a].conf = config]
  /\ UNCHANGED <<Settings, tunnel, lastConfig, open, overlapped, Rest>>

TunnelFails(a) ==
  /\ actor[a].pc = "up"
  /\ state' = "error" /\ Done(a)
  /\ UNCHANGED <<Settings, tunnel, lastConfig, exitIP, open, overlapped, Rest>>

NewTunnel(a) ==
  LET t == Len(made) + 1 IN
  /\ actor[a].pc = "up" /\ actor[a].conf # NoConfig /\ t <= MaxTunnels
  /\ made' = Append(made, actor[a].conf)
  /\ open' = open \cup {t}
  /\ actor' = [actor EXCEPT ![a].pc = "print", ![a].tun = t]
  /\ UNCHANGED <<Settings, tunnel, lastConfig, state, exitIP, asking, overlapped, bootFailed>>

\* The fingerprint is read again, after the tunnel is up.
ReadFingerprint(a) ==
  /\ actor[a].pc = "print"
  /\ actor' = [actor EXCEPT ![a].pc = "store", ![a].fp = ConfigFingerprint]
  /\ UNCHANGED <<Settings, tunnel, lastConfig, state, exitIP, open, overlapped, Rest>>

\* A tunnel that is there is overwritten, not closed.
StoreTunnel(a) ==
  /\ actor[a].pc = "store"
  /\ tunnel' = actor[a].tun /\ lastConfig' = actor[a].fp /\ state' = "connected"
  /\ asking' = asking \cup {actor[a].tun}
  /\ bootFailed' = FALSE /\ Done(a)
  /\ UNCHANGED <<Settings, exitIP, made, open, overlapped>>

ForTunnel(t) == exitIP' = IF tunnel = t THEN t ELSE exitIP

fetchExitIP(t) ==
  /\ t \in asking /\ asking' = asking \ {t}
  /\ \/ ForTunnel(t)
     \/ UNCHANGED exitIP
  /\ UNCHANGED <<Settings, tunnel, lastConfig, state, made, open, actor, overlapped, bootFailed>>

-----------------------------------------------------------------------------
WireGuardSteps ==
  \/ \E a \in Actors :
       \/ ConnectSet(a) \/ DisconnectClose(a) \/ DisconnectNote(a) \/ ReconfigureClose(a)
       \/ Reconfigure(a) \/ ReconfigureOff(a) \/ doConnect(a) \/ TunnelFails(a)
       \/ NewTunnel(a) \/ ReadFingerprint(a) \/ StoreTunnel(a) \/ SyncIfChanged(a)
  \/ \E t \in asking : fetchExitIP(t)

WireGuardRequests ==
  \/ \E a \in Actors : Reconnect(a) \/ Disconnect(a) \/ \E c \in Configs : Connect(a, c)
  \/ \E on \in BOOLEAN, c \in Configs \cup {NoConfig} : ChangeSetting(on, c)

WireGuardSpec == WireGuardInit /\ [][WireGuardSteps \/ WireGuardRequests]_wgVars

-----------------------------------------------------------------------------
(* Properties *)

\* A tunnel that is up is the service's tunnel or about to become it, so that
\* closing the service's closes them all.  Two goroutines that connect at
\* the same time leave one up that nothing refers to.
NoLeakedTunnel ==
  ~overlapped => open \subseteq {tunnel} \cup {actor[a].tun : a \in Actors}

\* When nobody is at work and the worker sees no change, the tunnel has the
\* configuration of the settings, and there is one if and only if they ask for
\* it; the exception is the tunnel that failed when the program started,
\* which the worker takes for connected and never tries again.
SettledIsCurrent ==
  (\A a \in Actors : actor[a].pc = "free") /\ ConfigFingerprint = lastConfig /\ ~overlapped =>
    IF tunnel = NoTunnel THEN ~tunnelEnabled \/ ~hasConfig \/ bootFailed
    ELSE tunnelEnabled /\ made[tunnel] = config /\ tunnel \in open

\* The exit address shown belongs to the tunnel in use, however late the
\* answer for an older one comes.
ExitAddressCurrent == tunnel # NoTunnel /\ exitIP # NoTunnel /\ ~overlapped => exitIP = tunnel

\* Tunnels that are up can be closed, and a settled service runs what the
\* settings say and shows its own exit address.
TunnelSound == NoLeakedTunnel /\ SettledIsCurrent /\ ExitAddressCurrent

=============================================================================
