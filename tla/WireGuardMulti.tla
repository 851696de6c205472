-------------------------- MODULE WireGuardMulti ---------------------------
(***************************************************************************)
(* MultiWireGuardService, a tunnel per profile of which one is active, and *)
(* WGPool, the local proxies over the tunnels there were at the start.  A  *)
(* worker connects, disconnects and checks the tunnels in turn, requests   *)
(* edit profiles, reconnect them and choose the active one meanwhile.      *)
(***************************************************************************)
EXTENDS Naturals, FiniteSets, Sequences, SequencesExt, FiniteSetsExt

CONSTANTS
  Order,      \* the profiles, by priority
  Hosts,      \* hosts, as [private, listed]
  RouteAll,   \* profiles without a list of hosts to route
  Workers,    \* the worker and request goroutines
  PoolUsers,  \* goroutines that send a request through the pool
  Penalty,    \* the fail count with which the direct connection begins (1000)
  MaxMade,    \* bound on the tunnels that are made
  MaxFails,   \* bound on the fail counts
  NoEntry     \* what a map answers for a key it does not have

ProfileIds == {Order[i] : i \in DOMAIN Order}
Direct == "direct"

ASSUME MultiAssumption ==
  /\ Order \in Seq(ProfileIds) /\ \A i, j \in DOMAIN Order : Order[i] = Order[j] => i = j
  /\ Direct \notin ProfileIds /\ Penalty \in Nat
  /\ NoEntry \notin ProfileIds \cup {Direct} \cup Nat \cup [tun : Nat \cup {NoEntry}, healthy : BOOLEAN]

VARIABLES
  profiles,   \* profile -> "on" or "off", or NoEntry when deleted
  tunnels,    \* profile -> [tun, healthy], tun being NoEntry after an error; or NoEntry
  activeID,
  tunnelsMade,\* number of tunnels made
  tunnelsOpen,\* tunnels that are up
  work,       \* goroutine -> what it is doing
  proxies,    \* WGPool.proxies, as [id, tun, fails]
  user,       \* pool request -> [pc, host, left, failed, worn, gone]: the entries it has
              \* put in order or not yet tried, those that failed, who sent it has left
  listeners,  \* proxies that WGProxyManager has made for the default profile
  proxyOf,    \* the proxy in its map, or NoEntry
  tunnelsOverlapped, \* a profile was connected by two goroutines at the same time
  replaced,   \* profiles whose tunnel was closed since the start
  rescued     \* a request has succeeded over the direct connection

multiVars == <<profiles, tunnels, activeID, tunnelsMade, tunnelsOpen, work, proxies, user,
               listeners, proxyOf, tunnelsOverlapped, replaced, rescued>>

Doing(pc, snap, todo, id) == [pc |-> pc, snap |-> snap, todo |-> todo, id |-> id, tun |-> NoEntry]
Rested == Doing("rest", <<>>, {}, NoEntry)
Asking(pc, host) == [pc |-> pc, host |-> host, left |-> <<>>, failed |-> {}, worn |-> FALSE, gone |-> FALSE]
Waiting == Asking("idle", NoEntry)
Enabled(p) == profiles[p] = "on"
Up(p) == tunnels[p] # NoEntry /\ tunnels[p].tun # NoEntry

\* The profile that comes first in a listing.
Place(p) == CHOOSE i \in DOMAIN Order : Order[i] = p
FirstOf(S) == CHOOSE p \in S : \A q \in S : Place(p) <= Place(q)

\* The profiles of a listing that may become the active one.
Best(listing) == {p \in ProfileIds : listing[p] = "on" /\ Up(p) /\ tunnels[p].healthy}

\* The pool over the tunnels of some profiles, with the direct connection.
PoolOf(order) == [i \in 1..Len(order) + 1 |->
  IF i <= Len(order) THEN [id |-> order[i], tun |-> Place(order[i]), fails |-> 0]
  ELSE [id |-> Direct, tun |-> NoEntry, fails |-> Penalty]]

\* Start connects the enabled profiles, and main makes the pool from them, in
\* the order in which a map is walked.
MultiInit ==
  /\ profiles \in [ProfileIds -> {"on", "off"}]
  /\ \E ok \in SUBSET {p \in ProfileIds : profiles[p] = "on"} :
       /\ tunnels = [p \in ProfileIds |->
             IF p \in ok THEN [tun |-> Place(p), healthy |-> TRUE]
             ELSE IF profiles[p] = "on" THEN [tun |-> NoEntry, healthy |-> FALSE] ELSE NoEntry]
       /\ tunnelsOpen = {Place(p) : p \in ok}
       /\ activeID = IF ok = {} THEN NoEntry ELSE FirstOf(ok)
       /\ \E order \in SetToSeqs(ok) : proxies = PoolOf(order)
  /\ tunnelsMade = Len(Order)
  /\ work = [a \in Workers |-> Rested] /\ user = [u \in PoolUsers |-> Waiting]
  /\ listeners = 0 /\ proxyOf = NoEntry
  /\ tunnelsOverlapped = FALSE /\ replaced = {} /\ rescued = FALSE

-----------------------------------------------------------------------------
(* The worker and the requests *)

Becomes(a, doing) == work' = [work EXCEPT ![a] = doing]
PoolSame == UNCHANGED <<proxies, user, listeners, proxyOf, rescued>>
TunnelsSame == UNCHANGED <<tunnels, activeID, tunnelsMade, tunnelsOpen, tunnelsOverlapped, replaced>>
OnlyWork == TunnelsSame /\ PoolSame /\ UNCHANGED profiles

\* CreateProfile, UpdateProfile and DeleteProfile only write the store.
EditProfile(p, to) ==
  /\ profiles[p] # to /\ profiles' = [profiles EXCEPT ![p] = to]
  /\ TunnelsSame /\ PoolSame /\ UNCHANGED work

EnabledIds == {p \in ProfileIds : Enabled(p)}

SyncProfiles(a) ==
  /\ work[a].pc = "rest"
  /\ Becomes(a, Doing("sync", profiles, EnabledIds, NoEntry)) /\ OnlyWork

\* A profile with an entry, be it that of an error, counts as connected.
SyncCheck(a) ==
  LET p == FirstOf(work[a].todo) IN
  /\ work[a].pc = "sync" /\ work[a].todo # {}
  /\ Becomes(a, Doing(IF tunnels[p] = NoEntry THEN "connect" ELSE "sync", work[a].snap, work[a].todo \ {p}, p))
  /\ OnlyWork

SyncGone(a) ==
  /\ work[a].pc = "sync" /\ work[a].todo = {}
  /\ Becomes(a, Doing("drop", <<>>, {p \in ProfileIds : tunnels[p] # NoEntry /\ work[a].snap[p] # "on"}, NoEntry))
  /\ OnlyWork

\* A reconnection, which has no listing, ends without its selection if it fails.
Reconnecting(a) == work[a].snap = <<>>

\* connectProfile: the tunnel is made before the map is locked.
connectProfileFails(a) ==
  LET p == work[a].id IN
  /\ work[a].pc = "connect"
  /\ tunnels' = [tunnels EXCEPT ![p] = [tun |-> NoEntry, healthy |-> FALSE]]
  /\ tunnelsOverlapped' = (tunnelsOverlapped \/ tunnels[p] # NoEntry)
  /\ Becomes(a, Doing(IF Reconnecting(a) THEN "rest" ELSE "sync", work[a].snap, work[a].todo, NoEntry))
  /\ PoolSame /\ UNCHANGED <<profiles, activeID, tunnelsMade, tunnelsOpen, replaced>>

MakeTunnel(a) ==
  /\ work[a].pc = "connect" /\ tunnelsMade < MaxMade
  /\ tunnelsMade' = tunnelsMade + 1 /\ tunnelsOpen' = tunnelsOpen \cup {tunnelsMade + 1}
  /\ Becomes(a, [work[a] EXCEPT !.pc = "store", !.tun = tunnelsMade + 1])
  /\ PoolSame /\ UNCHANGED <<profiles, tunnels, activeID, tunnelsOverlapped, replaced>>

connectProfile(a) ==
  LET p == work[a].id IN
  /\ work[a].pc = "store"
  /\ tunnels' = [tunnels EXCEPT ![p] = [tun |-> work[a].tun, healthy |-> TRUE]]
  /\ tunnelsOverlapped' = (tunnelsOverlapped \/ tunnels[p] # NoEntry)
  /\ Becomes(a, Doing(IF Reconnecting(a) THEN "list" ELSE "sync", work[a].snap, work[a].todo, NoEntry))
  /\ PoolSame /\ UNCHANGED <<profiles, activeID, tunnelsMade, tunnelsOpen, replaced>>

\* (Slip: the profile stays the active one.)
StaysActive(p) == UNCHANGED activeID
NoLongerActive(p) == activeID' = IF activeID = p THEN NoEntry ELSE activeID

disconnectProfile(p) ==
  \/ tunnels[p] = NoEntry /\ UNCHANGED <<tunnels, tunnelsOpen, replaced, activeID>>
  \/ /\ tunnels[p] # NoEntry /\ tunnels' = [tunnels EXCEPT ![p] = NoEntry]
     /\ tunnelsOpen' = tunnelsOpen \ {tunnels[p].tun} /\ replaced' = replaced \cup {p}
     /\ NoLongerActive(p)

SyncDrop(a, p) ==
  /\ work[a].pc = "drop" /\ p \in work[a].todo
  /\ disconnectProfile(p)
  /\ Becomes(a, Doing("drop", <<>>, work[a].todo \ {p}, NoEntry))
  /\ PoolSame /\ UNCHANGED <<profiles, tunnelsMade, tunnelsOverlapped>>

SyncDropped(a) ==
  /\ work[a].pc = "drop" /\ work[a].todo = {}
  /\ Becomes(a, Doing("list", <<>>, {}, NoEntry)) /\ OnlyWork

\* selectBestActive lists the profiles before it locks the tunnels.
SelectList(a) ==
  /\ work[a].pc = "list"
  /\ Becomes(a, Doing("select", profiles, {}, NoEntry)) /\ OnlyWork

selectBestActive(a) ==
  LET best == Best(work[a].snap) IN
  /\ work[a].pc = "select"
  /\ activeID' = IF best = {} THEN NoEntry ELSE FirstOf(best)
  /\ Becomes(a, Rested)
  /\ PoolSame /\ UNCHANGED <<profiles, tunnels, tunnelsMade, tunnelsOpen, tunnelsOverlapped, replaced>>

SetActiveProfile(p) ==
  /\ Up(p) /\ activeID' = p
  /\ PoolSame /\ UNCHANGED <<profiles, tunnels, tunnelsMade, tunnelsOpen, work, tunnelsOverlapped, replaced>>

ReconnectProfile(a, p) ==
  /\ work[a].pc = "rest" /\ profiles[p] # NoEntry
  /\ disconnectProfile(p)
  /\ Becomes(a, Doing("connect", <<>>, {}, p))
  /\ PoolSame /\ UNCHANGED <<profiles, tunnelsMade, tunnelsOverlapped>>

RunHealthChecks(a) ==
  /\ work[a].pc = "rest"
  /\ Becomes(a, Doing("health", <<>>, EnabledIds, NoEntry)) /\ OnlyWork

HealthLook(a) ==
  LET p == FirstOf(work[a].todo) IN
  /\ work[a].pc = "health" /\ work[a].todo # {}
  /\ Becomes(a, Doing(IF Up(p) THEN "checking" ELSE "health", <<>>, work[a].todo \ {p}, p))
  /\ OnlyWork

\* The result of a check is written to the tunnel that is there then.
checkHealth(a, ok) ==
  LET p == work[a].id IN
  /\ work[a].pc = "checking"
  /\ tunnels' = IF tunnels[p] = NoEntry THEN tunnels
                ELSE [tunnels EXCEPT ![p] = [tun |-> tunnels[p].tun, healthy |-> ok]]
  /\ Becomes(a, Doing("health", <<>>, work[a].todo, NoEntry))
  /\ PoolSame /\ UNCHANGED <<profiles, activeID, tunnelsMade, tunnelsOpen, tunnelsOverlapped, replaced>>

HealthDone(a) ==
  /\ work[a].pc = "health" /\ work[a].todo = {}
  /\ Becomes(a, Doing("list", <<>>, {}, NoEntry)) /\ OnlyWork

-----------------------------------------------------------------------------
(* Routing *)

shouldRoute(host, routeAll) == ~host.private /\ (routeAll \/ host.listed)

\* The tunnel that a request of multiTransport takes, NoEntry being the direct way.
RoundTrip(host, routeAll) ==
  IF activeID # NoEntry /\ Up(activeID) /\ shouldRoute(host, routeAll) THEN tunnels[activeID].tun ELSE NoEntry

-----------------------------------------------------------------------------
(* The pool *)

ServiceSame == TunnelsSame /\ UNCHANGED <<profiles, work>>
Fails(e) == proxies[e].fails
DirectEntry == Len(proxies)
FailsBecome(e, n) == proxies' = [proxies EXCEPT ![e] = [id |-> proxies[e].id, tun |-> proxies[e].tun, fails |-> n]]

\* An entry's client sends directly what its profile does not route.
Routes(e, host) == e # DirectEntry /\ shouldRoute(host, proxies[e].id \in RouteAll)
Reaches(e, host) == Routes(e, host) => proxies[e].tun \in tunnelsOpen

Do(u, host) ==
  /\ user[u].pc = "idle"
  /\ user' = [user EXCEPT ![u] = Asking("sort", host)]
  /\ ServiceSame /\ UNCHANGED <<proxies, listeners, proxyOf, rescued>>

\* Do sorts the entries by insertion: the next one goes behind the last that
\* has not more fails.  The counts are read without the lock, so those may
\* change which it has sorted already.
Behind(left, e, k) ==
  /\ k > 0 => Fails(left[k]) <= Fails(e)
  /\ \A i \in k + 1 .. Len(left) : Fails(left[i]) > Fails(e)
Inserted(left, e, k) ==
  [i \in 1 .. Len(left) + 1 |-> IF i <= k THEN left[i] ELSE IF i = k + 1 THEN e ELSE left[i - 1]]

\* A tunnel has more fails than the direct connection began with.
Worn == \E e \in 1 .. DirectEntry - 1 : Fails(e) > Penalty

SortNext(u) ==
  LET left == user[u].left
      next == Len(left) + 1
  IN
  /\ user[u].pc = "sort"
  /\ \E k \in 0 .. Len(left) :
       /\ Behind(left, next, k)
       /\ user' = [user EXCEPT ![u].pc = IF next = DirectEntry THEN "try" ELSE "sort",
                               ![u].left = Inserted(left, next, k), ![u].worn = Worn]
  /\ ServiceSame /\ UNCHANGED <<proxies, listeners, proxyOf, rescued>>

\* An answer 403, or an error, passes the request on to the next entry.  There
\* is no error but that of a request whose sender has left, which goes on to fail
\* for all that are left.
DoFails(u) ==
  LET me == user[u]
      e == Head(me.left)
  IN
  /\ me.pc = "try" /\ Fails(e) < MaxFails
  /\ FailsBecome(e, Fails(e) + 1)
  /\ \E gone \in BOOLEAN :
       /\ IF me.gone THEN gone ELSE gone \/ Reaches(e, me.host)
       /\ user' = [user EXCEPT ![u] = IF Len(me.left) = 1 THEN Waiting
                                      ELSE [me EXCEPT !.left = Tail(me.left), !.failed = @ \cup {e}, !.gone = gone]]
  /\ ServiceSame /\ UNCHANGED <<listeners, proxyOf, rescued>>

\* Every other answer is a success: also the 502 that the entry's own proxy
\* gives for a tunnel that is closed or cannot reach the host.
DoSucceeds(u) ==
  LET e == Head(user[u].left) IN
  /\ user[u].pc = "try" /\ ~user[u].gone
  /\ FailsBecome(e, 0)
  /\ user' = [user EXCEPT ![u] = Waiting]
  /\ rescued' = (rescued \/ e = DirectEntry)
  /\ ServiceSame /\ UNCHANGED <<listeners, proxyOf>>

\* The entry over which ProxyURL sends a stream: the first of the active
\* profile, or else the first with the fewest fails.
OfActive == {e \in 1 .. DirectEntry : proxies[e].id = activeID}
Fewest == {e \in 1 .. DirectEntry : \A f \in 1 .. DirectEntry : Fails(e) <= Fails(f)}
ProxyURL == Min(IF OfActive # {} THEN OfActive ELSE Fewest)

\* GetOrCreate looks under the read lock, and again under the write lock.
GetOrCreate(u) ==
  /\ user[u].pc = "idle" /\ proxyOf = NoEntry
  /\ user' = [user EXCEPT ![u] = Asking("create", NoEntry)]
  /\ ServiceSame /\ UNCHANGED <<proxies, listeners, proxyOf, rescued>>

LookAgain(u) ==
  /\ user[u].pc = "create"
  /\ \/ proxyOf = NoEntry /\ listeners' = listeners + 1 /\ proxyOf' = listeners + 1
     \/ proxyOf # NoEntry /\ UNCHANGED <<listeners, proxyOf>>
  /\ user' = [user EXCEPT ![u] = Waiting]
  /\ ServiceSame /\ UNCHANGED <<proxies, rescued>>

-----------------------------------------------------------------------------
MultiSteps ==
  \/ \E a \in Workers :
       \/ SyncCheck(a) \/ SyncGone(a) \/ connectProfileFails(a) \/ MakeTunnel(a) \/ connectProfile(a)
       \/ (\E p \in ProfileIds : SyncDrop(a, p)) \/ SyncDropped(a) \/ SelectList(a) \/ selectBestActive(a)
       \/ HealthLook(a) \/ HealthDone(a) \/ \E ok \in BOOLEAN : checkHealth(a, ok)
  \/ \E u \in PoolUsers : SortNext(u) \/ DoFails(u) \/ DoSucceeds(u) \/ LookAgain(u)

MultiRequests ==
  \/ \E a \in Workers : SyncProfiles(a) \/ RunHealthChecks(a) \/ \E p \in ProfileIds : ReconnectProfile(a, p)
  \/ \E p \in ProfileIds : SetActiveProfile(p) \/ \E to \in {"on", "off", NoEntry} : EditProfile(p, to)
  \/ \E u \in PoolUsers : GetOrCreate(u) \/ \E host \in Hosts : Do(u, host)

MultiSpec == MultiInit /\ [][MultiSteps \/ MultiRequests]_multiVars

-----------------------------------------------------------------------------
(* Properties *)

\* While a profile is active, what is to be routed goes through an open
\* tunnel: the transport would silently send it directly otherwise.  The way
\* out is a profile that two goroutines connect at the same time.
ActiveRoutes ==
  activeID # NoEntry /\ ~tunnelsOverlapped =>
    \A host \in Hosts, routeAll \in BOOLEAN :
      shouldRoute(host, routeAll) => RoundTrip(host, routeAll) \in tunnelsOpen

\* Tunnels that are up are in the map or about to be put there.
NoTunnelLost ==
  ~tunnelsOverlapped =>
    tunnelsOpen \subseteq {tunnels[p].tun : p \in {q \in ProfileIds : Up(q)}} \cup {work[a].tun : a \in Workers}

\* A pool request to a host that every tunnel routes goes directly only when all
\* tunnels have failed for it, with a 403 or because its sender has left, unless
\* one of them had more fails than the direct connection begins with when the
\* request put them in order, or a request has succeeded directly, which makes
\* that the preferred way.  (A closed tunnel does not fail: its 502 is the
\* answer.  What a profile does not route its entry sends directly.)
DirectIsLastResort ==
  \A u \in PoolUsers :
    LET me == user[u] IN
    /\ me.pc = "try" /\ ~rescued /\ ~me.worn
    /\ \A e \in 1 .. DirectEntry - 1 : Routes(e, me.host)
    /\ ~Routes(Head(me.left), me.host)
    => me.failed = 1 .. DirectEntry - 1

\* The entry for a stream leads through the active profile's tunnel, until
\* that profile is reconnected: the pool keeps the closed tunnel.
ProxiesActiveTunnel ==
  ~tunnelsOverlapped /\ OfActive # {} /\ activeID \notin replaced =>
    proxies[ProxyURL].tun \in tunnelsOpen /\ proxies[ProxyURL].tun = tunnels[activeID].tun

\* Concurrent first uses make one proxy.
OneListener == listeners <= 1

\* Traffic of an active profile goes through an open tunnel and directly only
\* as the last resort, no tunnel that is up is lost, and concurrent first uses
\* make one proxy.
TunnelsSound == ActiveRoutes /\ NoTunnelLost /\ DirectIsLastResort /\ ProxiesActiveTunnel /\ OneListener

=============================================================================
