------------------------- MODULE RecordingContract -------------------------
(***************************************************************************)
(* What VODService promises about recordings to those who start and stop   *)
(* them: at most one recording per channel, which starts only when the     *)
(* channel records nothing, keeps its stop time, and ends by a stop or     *)
(* with the process.  Recording implements it; Scheduler is built on it.   *)
(***************************************************************************)
EXTENDS Naturals

CONSTANTS
  Channels,
  RecIds,   \* who a recording belongs to
  MaxTime,  \* bound on the clock
  None

ASSUME ContractAssumption == MaxTime \in Nat /\ None \notin [id : RecIds, stop : 0..MaxTime]

Times == 0..MaxTime
Entries == [id : RecIds, stop : Times]

VARIABLES
  up,          \* the process is running
  recordings,  \* what each channel records, or None
  sessions     \* the channels that have a session

contractVars == <<up, recordings, sessions>>

ContractInit ==
  /\ up = TRUE
  /\ recordings = [ch \in Channels |-> None]
  /\ sessions = {}

\* The recording joins the session of the channel or brings one.
Start(ch, id, stop) ==
  /\ up /\ recordings[ch] = None
  /\ recordings' = [recordings EXCEPT ![ch] = [id |-> id, stop |-> stop]]
  /\ sessions' \in {sessions, sessions \cup {ch}}
  /\ UNCHANGED up

\* The session stays if somebody else uses it.
Stop(ch) ==
  /\ up /\ recordings[ch] # None
  /\ recordings' = [recordings EXCEPT ![ch] = None]
  /\ sessions' \in {sessions, sessions \ {ch}}
  /\ UNCHANGED up

\* Viewers come and go and sessions are lost, whatever is being recorded.
SessionComes(ch) ==
  /\ up /\ ch \notin sessions
  /\ sessions' = sessions \cup {ch}
  /\ UNCHANGED <<up, recordings>>

SessionGoes(ch) ==
  /\ up /\ ch \in sessions
  /\ sessions' = sessions \ {ch}
  /\ UNCHANGED <<up, recordings>>

\* The process ends and with it every recording and session.
Down ==
  /\ up /\ up' = FALSE
  /\ recordings' = [ch \in Channels |-> None]
  /\ sessions' = {}

Up ==
  /\ ~up /\ up' = TRUE
  /\ UNCHANGED <<recordings, sessions>>

ContractNext ==
  \/ \E ch \in Channels :
       \/ \E id \in RecIds, stop \in Times : Start(ch, id, stop)
       \/ Stop(ch) \/ SessionComes(ch) \/ SessionGoes(ch)
  \/ Down \/ Up

ContractSpec == ContractInit /\ [][ContractNext]_contractVars

=============================================================================
