-------------------------- MODULE SessionLifecycle --------------------------
(***************************************************************************)
(* What the session manager promises about Session objects: a key has at   *)
(* most one live session, a session is opened once for one key, is closed  *)
(* once, and a closing session ends up closed and never comes back.        *)
(***************************************************************************)
CONSTANTS Keys, SessIds, None

VARIABLES
  live,    \* the live session of each key
  status   \* unused, live, closing or closed

lifeVars == <<live, status>>

Init ==
  /\ live = [k \in Keys |-> None]
  /\ status = [s \in SessIds |-> "unused"]

Open(k, s) ==
  /\ live[k] = None /\ status[s] = "unused"
  /\ live' = [live EXCEPT ![k] = s]
  /\ status' = [status EXCEPT ![s] = "live"]

\* The sessions of the keys in K are taken out together.
Close(K) ==
  /\ \A k \in K : live[k] # None
  /\ live' = [k \in Keys |-> IF k \in K THEN None ELSE live[k]]
  /\ status' = [s \in SessIds |->
                  IF \E k \in K : live[k] = s THEN "closing" ELSE status[s]]

Finish(s) ==
  /\ status[s] = "closing"
  /\ status' = [status EXCEPT ![s] = "closed"]
  /\ UNCHANGED live

Next ==
  \/ \E k \in Keys, s \in SessIds : Open(k, s)
  \/ \E K \in SUBSET Keys : Close(K)
  \/ \E s \in SessIds : Finish(s)

Safety == Init /\ [][Next]_lifeVars

Spec == Safety /\ \A s \in SessIds : WF_lifeVars(Finish(s))
=============================================================================
