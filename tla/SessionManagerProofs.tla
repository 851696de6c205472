------------------------ MODULE SessionManagerProofs ------------------------
(***************************************************************************)
(* The safety of SessionManager for any keys, sessions, consumers, seekers *)
(* and number of restarts.  Neither the map discipline nor EmptyIsReclaimed*)
(* is inductive alone: a caller holds a *Session between two critical      *)
(* sections, so LocalsOK says what such a caller can rely on.              *)
(***************************************************************************)
EXTENDS SessionManager, TLAPS

\* What the goroutines know between their steps: the caller that replaces a
\* dead session is alone and its key is free, every *Session a goroutine
\* holds exists, and only existing sessions have a pipeline, a teardown or
\* files.
LocalsOK ==
  /\ \A c \in Consumers : pc[c] = "replacing" =>
       asked[c] \in Keys /\ sessions[asked[c]] = None /\ at[c] \in SessIds
  /\ \A c, d \in Consumers : pc[c] = "replacing" /\ pc[d] = "replacing" => c = d
  /\ \A c \in Consumers : pc[c] \in {"adding", "found", "emptied"} => at[c] \in Created
  /\ \A c \in Consumers : pc[c] \in {"adding", "attached"} => asked[c] \in Keys
  /\ \A q \in Seekers : seekPc[q] \in {"found", "stopping"} => seekAt[q] \in Created
  /\ pending \subseteq Created /\ files \subseteq Created
  /\ \A s \in SessIds : teardown[s] # "none" => keyOf[s] # None
  /\ \A s \in SessIds, g \in Gens : pipe[s][g] # "none" => keyOf[s] # None

\* The inductive invariant.
IInv == TypeOK /\ MapHoldsTheLive /\ EmptyIsReclaimed /\ LocalsOK

\* Nothing runs in a manager that was just made (NewManager).
LEMMA InitIInv == Init => IInv
  BY ConstantsAssumption
  DEF Init, IInv, TypeOK, MapHoldsTheLive, EmptyIsReclaimed, LocalsOK, Created, Registered,
      Gens, Phases, Reasons

\* Every step keeps the types.
LEMMA TypeStep ==
  ASSUME IInv, Next
  PROVE  TypeOK'
<1> USE ConstantsAssumption DEF IInv, TypeOK, LocalsOK, Created, Gens, Phases, Reasons, Dir, sessVars, pipeVars, tearVars, callVars, seekVars, diskVars
<1>1. ASSUME NEW c \in Consumers, NEW k \in Keys, JoinExisting(c, k) PROVE TypeOK'
  BY <1>1 DEF JoinExisting, AddConsumer, Goto
<1>2. ASSUME NEW c \in Consumers, NEW k \in Keys, ReplaceDone(c, k) PROVE TypeOK'
  BY <1>2 DEF ReplaceDone, Goto
<1>3. ASSUME NEW c \in Consumers, NEW k \in Keys, NEW s \in SessIds, StartSession(c, k, s) PROVE TypeOK'
  BY <1>3 DEF StartSession, MayCreate, Fresh, AddConsumer, Goto
<1>4. ASSUME NEW c \in Consumers, NEW k \in Keys, CreateFails(c, k) PROVE TypeOK'
  BY <1>4 DEF CreateFails, MayCreate, Goto
<1>5. ASSUME NEW c \in Consumers, NEW k \in Keys, AddRecLookup(c, k) PROVE TypeOK'
  BY <1>5 DEF AddRecLookup, Goto
<1>6. ASSUME NEW c \in Consumers, AddRecApply(c) PROVE TypeOK'
  BY <1>6 DEF AddRecApply, AddConsumer, Goto
<1>7. ASSUME NEW c \in Consumers, RemoveLookup(c) PROVE TypeOK'
  BY <1>7 DEF RemoveLookup, Goto
<1>8. ASSUME NEW c \in Consumers, RemoveApply(c) PROVE TypeOK'
  <2>1. at[c] \in SessIds
    BY <1>8 DEF RemoveApply
  <2>2. consumers' \in [SessIds -> SUBSET Consumers]
    BY <1>8, <2>1 DEF RemoveApply
  <2>3. PICK p \in {"emptied", "over"}, t \in SessIds \cup {None} : Goto(c, p, t, None)
    BY <1>8, <2>1 DEF RemoveApply
  <2>4. /\ pc' \in [Consumers -> {"fresh", "replacing", "adding", "attached", "found",
                                  "emptied", "over"}]
        /\ at' \in [Consumers -> SessIds \cup {None}]
        /\ asked' \in [Consumers -> Keys \cup {None}]
    BY <2>3 DEF Goto
  <2>5. UNCHANGED <<sessions, keyOf, recorded, wasRecording, seekable, pipeVars,
                    tearVars, seekVars, diskVars>>
    BY <1>8 DEF RemoveApply
  <2> QED BY <2>2, <2>4, <2>5
<1>9. ASSUME NEW c \in Consumers, RemoveCheck(c) PROVE TypeOK'
  BY <1>9 DEF RemoveCheck, Goto, HasRecordingConsumer
<1>10. ASSUME NEW s \in SessIds, StopAndCleanup(s) PROVE TypeOK'
  <2>1. keyOf[s] \in Keys
    BY <1>10 DEF StopAndCleanup
  <2>2. sessions' \in [Keys -> SessIds \cup {None}]
    BY <1>10, <2>1 DEF StopAndCleanup
  <2>3. teardown' \in [SessIds -> Phases]
    BY <1>10, <2>1 DEF StopAndCleanup
  <2>6. reason' \in [SessIds -> Reasons]
    BY <1>10, <2>1 DEF StopAndCleanup
  <2>4. pending' \subseteq SessIds
    BY <1>10 DEF StopAndCleanup
  <2>5. UNCHANGED <<sessVars, pipeVars, waitOn, callVars, seekVars, diskVars>>
    BY <1>10 DEF StopAndCleanup
  <2> QED BY <2>2, <2>3, <2>4, <2>5, <2>6
<1>11. ASSUME Shutdown PROVE TypeOK'
  BY <1>11 DEF Shutdown
<1>12. ASSUME NEW s \in SessIds, TearCancel(s) PROVE TypeOK'
  BY <1>12 DEF TearCancel, Cancel
<1>13. ASSUME NEW s \in SessIds, TearWait(s) PROVE TypeOK'
  BY <1>13 DEF TearWait
<1>14. ASSUME NEW s \in SessIds, TearFinish(s) PROVE TypeOK'
  BY <1>14 DEF TearFinish, DoneReceived
<1>15. ASSUME NEW q \in Seekers, NEW k \in Keys, SeekLookup(q, k) PROVE TypeOK'
  BY <1>15 DEF SeekLookup
<1>16. ASSUME NEW q \in Seekers, SeekInPlace(q) PROVE TypeOK'
  BY <1>16 DEF SeekInPlace
<1>17. ASSUME NEW q \in Seekers, SeekStop(q) PROVE TypeOK'
  BY <1>17 DEF SeekStop, Cancel
<1>18. ASSUME NEW q \in Seekers, SeekSwap(q) PROVE TypeOK'
  BY <1>18 DEF SeekSwap
<1>19. ASSUME NEW s \in SessIds, NEW g \in Gens, PipelineOpen(s, g) PROVE TypeOK'
  BY <1>19 DEF PipelineOpen
<1>20. ASSUME NEW s \in SessIds, NEW g \in Gens, PipelineFail(s, g) PROVE TypeOK'
  BY <1>20 DEF PipelineFail, MarkDone
<1>21. ASSUME NEW s \in SessIds, NEW g \in Gens, PipelineEnd(s, g) PROVE TypeOK'
  BY <1>21 DEF PipelineEnd, MarkDone
<1> QED
  BY <1>1, <1>2, <1>3, <1>4, <1>5, <1>6, <1>7, <1>8, <1>9, <1>10, <1>11, <1>12, <1>13, <1>14, <1>15, <1>16, <1>17, <1>18, <1>19, <1>20, <1>21 DEF Next, GetOrCreate, RemoveConsumer, Teardown, RestartWithSeek

\* Every step keeps the map equal to the set of sessions nobody tears down.
LEMMA MapStep ==
  ASSUME IInv, Next
  PROVE  MapHoldsTheLive'
<1> USE ConstantsAssumption DEF IInv, TypeOK, MapHoldsTheLive, LocalsOK, Created, Registered, Locked, sessVars, pipeVars, tearVars, callVars, seekVars, diskVars
<1>1. ASSUME NEW c \in Consumers, NEW k \in Keys, JoinExisting(c, k) PROVE MapHoldsTheLive'
  BY <1>1 DEF JoinExisting, AddConsumer, Goto
<1>2. ASSUME NEW c \in Consumers, NEW k \in Keys, ReplaceDone(c, k) PROVE MapHoldsTheLive'
  BY <1>2 DEF ReplaceDone, Goto
<1>3. ASSUME NEW c \in Consumers, NEW k \in Keys, NEW s \in SessIds, StartSession(c, k, s) PROVE MapHoldsTheLive'
  BY <1>3 DEF StartSession, MayCreate, Fresh, AddConsumer, Goto
<1>4. ASSUME NEW c \in Consumers, NEW k \in Keys, CreateFails(c, k) PROVE MapHoldsTheLive'
  BY <1>4 DEF CreateFails, MayCreate, Goto
<1>5. ASSUME NEW c \in Consumers, NEW k \in Keys, AddRecLookup(c, k) PROVE MapHoldsTheLive'
  BY <1>5 DEF AddRecLookup, Goto
<1>6. ASSUME NEW c \in Consumers, AddRecApply(c) PROVE MapHoldsTheLive'
  BY <1>6 DEF AddRecApply, AddConsumer, Goto
<1>7. ASSUME NEW c \in Consumers, RemoveLookup(c) PROVE MapHoldsTheLive'
  BY <1>7 DEF RemoveLookup, Goto
<1>8. ASSUME NEW c \in Consumers, RemoveApply(c) PROVE MapHoldsTheLive'
  BY <1>8 DEF RemoveApply, Goto, LastOut
<1>9. ASSUME NEW c \in Consumers, RemoveCheck(c) PROVE MapHoldsTheLive'
  BY <1>9 DEF RemoveCheck, Goto, HasRecordingConsumer
<1>10. ASSUME NEW s \in SessIds, StopAndCleanup(s) PROVE MapHoldsTheLive'
  <2>1. keyOf[s] \in Keys
    BY <1>10 DEF StopAndCleanup
  <2>2. CASE IsCurrent(s)
    <3>1. /\ teardown' = [teardown EXCEPT ![s] = "unlinked"]
          /\ sessions' = [sessions EXCEPT ![keyOf[s]] = None]
          /\ keyOf' = keyOf
      BY <1>10, <2>2 DEF StopAndCleanup
    <3> QED BY <2>1, <2>2, <3>1 DEF IsCurrent
  <2>3. CASE ~IsCurrent(s)
    BY <1>10, <2>1, <2>3 DEF StopAndCleanup
  <2> QED BY <2>2, <2>3
<1>11. ASSUME Shutdown PROVE MapHoldsTheLive'
  BY <1>11 DEF Shutdown
<1>12. ASSUME NEW s \in SessIds, TearCancel(s) PROVE MapHoldsTheLive'
  BY <1>12 DEF TearCancel, Cancel
<1>13. ASSUME NEW s \in SessIds, TearWait(s) PROVE MapHoldsTheLive'
  BY <1>13 DEF TearWait
<1>14. ASSUME NEW s \in SessIds, TearFinish(s) PROVE MapHoldsTheLive'
  BY <1>14 DEF TearFinish, DoneReceived
<1>15. ASSUME NEW q \in Seekers, NEW k \in Keys, SeekLookup(q, k) PROVE MapHoldsTheLive'
  BY <1>15 DEF SeekLookup
<1>16. ASSUME NEW q \in Seekers, SeekInPlace(q) PROVE MapHoldsTheLive'
  BY <1>16 DEF SeekInPlace
<1>17. ASSUME NEW q \in Seekers, SeekStop(q) PROVE MapHoldsTheLive'
  BY <1>17 DEF SeekStop, Cancel
<1>18. ASSUME NEW q \in Seekers, SeekSwap(q) PROVE MapHoldsTheLive'
  BY <1>18 DEF SeekSwap
<1>19. ASSUME NEW s \in SessIds, NEW g \in Gens, PipelineOpen(s, g) PROVE MapHoldsTheLive'
  BY <1>19 DEF PipelineOpen
<1>20. ASSUME NEW s \in SessIds, NEW g \in Gens, PipelineFail(s, g) PROVE MapHoldsTheLive'
  BY <1>20 DEF PipelineFail, MarkDone
<1>21. ASSUME NEW s \in SessIds, NEW g \in Gens, PipelineEnd(s, g) PROVE MapHoldsTheLive'
  BY <1>21 DEF PipelineEnd, MarkDone
<1> QED
  BY <1>1, <1>2, <1>3, <1>4, <1>5, <1>6, <1>7, <1>8, <1>9, <1>10, <1>11, <1>12, <1>13, <1>14, <1>15, <1>16, <1>17, <1>18, <1>19, <1>20, <1>21 DEF Next, GetOrCreate, RemoveConsumer, Teardown, RestartWithSeek

\* Every step keeps what the goroutines rely on between their steps.
LEMMA LocalsStep ==
  ASSUME IInv, Next
  PROVE  LocalsOK'
<1> USE ConstantsAssumption DEF IInv, TypeOK, MapHoldsTheLive, LocalsOK, Created, Registered, Locked, sessVars, pipeVars, tearVars, callVars, seekVars, diskVars
<1>1. ASSUME NEW c \in Consumers, NEW k \in Keys, JoinExisting(c, k) PROVE LocalsOK'
  BY <1>1 DEF JoinExisting, AddConsumer, Goto
<1>2. ASSUME NEW c \in Consumers, NEW k \in Keys, ReplaceDone(c, k) PROVE LocalsOK'
  BY <1>2 DEF ReplaceDone, Goto
<1>3. ASSUME NEW c \in Consumers, NEW k \in Keys, NEW s \in SessIds, StartSession(c, k, s) PROVE LocalsOK'
  BY <1>3 DEF StartSession, MayCreate, Fresh, AddConsumer, Goto
<1>4. ASSUME NEW c \in Consumers, NEW k \in Keys, CreateFails(c, k) PROVE LocalsOK'
  BY <1>4 DEF CreateFails, MayCreate, Goto
<1>5. ASSUME NEW c \in Consumers, NEW k \in Keys, AddRecLookup(c, k) PROVE LocalsOK'
  BY <1>5 DEF AddRecLookup, Goto
<1>6. ASSUME NEW c \in Consumers, AddRecApply(c) PROVE LocalsOK'
  BY <1>6 DEF AddRecApply, AddConsumer, Goto
<1>7. ASSUME NEW c \in Consumers, RemoveLookup(c) PROVE LocalsOK'
  BY <1>7 DEF RemoveLookup, Goto
<1>8. ASSUME NEW c \in Consumers, RemoveApply(c) PROVE LocalsOK'
  <2>1. at[c] \in Created /\ pc[c] = "found"
    BY <1>8 DEF RemoveApply
  <2>2. UNCHANGED <<sessions, keyOf, recorded, wasRecording, seekable, pipeVars,
                    tearVars, seekVars, diskVars>>
    BY <1>8 DEF RemoveApply
  <2>3. CASE Goto(c, "emptied", at[c], None)
    BY <2>1, <2>2, <2>3 DEF Goto
  <2>4. CASE Goto(c, "over", None, None)
    BY <2>1, <2>2, <2>4 DEF Goto
  <2> QED BY <1>8, <2>3, <2>4 DEF RemoveApply
<1>9. ASSUME NEW c \in Consumers, RemoveCheck(c) PROVE LocalsOK'
  BY <1>9 DEF RemoveCheck, Goto, HasRecordingConsumer
<1>10. ASSUME NEW s \in SessIds, StopAndCleanup(s) PROVE LocalsOK'
  BY <1>10 DEF StopAndCleanup, IsCurrent
<1>11. ASSUME Shutdown PROVE LocalsOK'
  BY <1>11 DEF Shutdown
<1>12. ASSUME NEW s \in SessIds, TearCancel(s) PROVE LocalsOK'
  BY <1>12 DEF TearCancel, Cancel
<1>13. ASSUME NEW s \in SessIds, TearWait(s) PROVE LocalsOK'
  BY <1>13 DEF TearWait
<1>14. ASSUME NEW s \in SessIds, TearFinish(s) PROVE LocalsOK'
  BY <1>14 DEF TearFinish, DoneReceived
<1>15. ASSUME NEW q \in Seekers, NEW k \in Keys, SeekLookup(q, k) PROVE LocalsOK'
  BY <1>15 DEF SeekLookup
<1>16. ASSUME NEW q \in Seekers, SeekInPlace(q) PROVE LocalsOK'
  BY <1>16 DEF SeekInPlace
<1>17. ASSUME NEW q \in Seekers, SeekStop(q) PROVE LocalsOK'
  BY <1>17 DEF SeekStop, Cancel
<1>18. ASSUME NEW q \in Seekers, SeekSwap(q) PROVE LocalsOK'
  BY <1>18 DEF SeekSwap
<1>19. ASSUME NEW s \in SessIds, NEW g \in Gens, PipelineOpen(s, g) PROVE LocalsOK'
  BY <1>19 DEF PipelineOpen
<1>20. ASSUME NEW s \in SessIds, NEW g \in Gens, PipelineFail(s, g) PROVE LocalsOK'
  BY <1>20 DEF PipelineFail, MarkDone
<1>21. ASSUME NEW s \in SessIds, NEW g \in Gens, PipelineEnd(s, g) PROVE LocalsOK'
  BY <1>21 DEF PipelineEnd, MarkDone
<1> QED
  BY <1>1, <1>2, <1>3, <1>4, <1>5, <1>6, <1>7, <1>8, <1>9, <1>10, <1>11, <1>12, <1>13, <1>14, <1>15, <1>16, <1>17, <1>18, <1>19, <1>20, <1>21 DEF Next, GetOrCreate, RemoveConsumer, Teardown, RestartWithSeek

\* Every step that empties a registered session leaves somebody to reclaim it.
LEMMA EmptyStep ==
  ASSUME IInv, Next
  PROVE  EmptyIsReclaimed'
<1> USE ConstantsAssumption DEF IInv, TypeOK, MapHoldsTheLive, EmptyIsReclaimed, LocalsOK, Created, Registered, sessVars, pipeVars, tearVars, callVars, seekVars, diskVars
<1>1. ASSUME NEW c \in Consumers, NEW k \in Keys, JoinExisting(c, k) PROVE EmptyIsReclaimed'
  <2> SUFFICES ASSUME NEW t \in SessIds, Registered(t)', consumers'[t] = {}
               PROVE  t \in pending' \/ \E d \in Consumers : pc'[d] = "emptied" /\ at'[d] = t
    BY DEF EmptyIsReclaimed

  <2>0. sessions[k] \in SessIds /\ Registered(t)
    BY <1>1 DEF JoinExisting
  <2>1. consumers' = [consumers EXCEPT ![sessions[k]] = @ \cup {c}]
    BY <1>1 DEF JoinExisting, AddConsumer
  <2>2. t \in pending \/ \E d \in Consumers : pc[d] = "emptied" /\ at[d] = t
    <3>1. consumers'[sessions[k]] # {}
      BY <2>0, <2>1
    <3>2. consumers[t] = {}
      BY <2>0, <2>1, <3>1
    <3> QED BY <2>0, <3>2
  <2> QED BY <1>1, <2>2 DEF JoinExisting, Goto
<1>2. ASSUME NEW c \in Consumers, NEW k \in Keys, ReplaceDone(c, k) PROVE EmptyIsReclaimed'
  BY <1>2 DEF ReplaceDone, Goto
<1>3. ASSUME NEW c \in Consumers, NEW k \in Keys, NEW s \in SessIds, StartSession(c, k, s) PROVE EmptyIsReclaimed'
  <2> SUFFICES ASSUME NEW t \in SessIds, Registered(t)', consumers'[t] = {}
               PROVE  t \in pending' \/ \E d \in Consumers : pc'[d] = "emptied" /\ at'[d] = t
    BY DEF EmptyIsReclaimed

  <2>1. t # s
    BY <1>3 DEF StartSession, AddConsumer
  <2>2. Registered(t) /\ consumers[t] = {}
    BY <1>3, <2>1 DEF StartSession, AddConsumer, Fresh
  <2>3. t \in pending \/ \E d \in Consumers : pc[d] = "emptied" /\ at[d] = t
    BY <2>2
  <2> QED BY <1>3, <2>3 DEF StartSession, MayCreate, Goto
<1>4. ASSUME NEW c \in Consumers, NEW k \in Keys, CreateFails(c, k) PROVE EmptyIsReclaimed'
  BY <1>4 DEF CreateFails, MayCreate, Goto
<1>5. ASSUME NEW c \in Consumers, NEW k \in Keys, AddRecLookup(c, k) PROVE EmptyIsReclaimed'
  BY <1>5 DEF AddRecLookup, Goto
<1>6. ASSUME NEW c \in Consumers, AddRecApply(c) PROVE EmptyIsReclaimed'
  <2> SUFFICES ASSUME NEW t \in SessIds, Registered(t)', consumers'[t] = {}
               PROVE  t \in pending' \/ \E d \in Consumers : pc'[d] = "emptied" /\ at'[d] = t
    BY DEF EmptyIsReclaimed

  <2>0. at[c] \in SessIds /\ Registered(t)
    BY <1>6 DEF AddRecApply
  <2>1. consumers' = [consumers EXCEPT ![at[c]] = @ \cup {c}]
    BY <1>6 DEF AddRecApply, AddConsumer
  <2>2. t \in pending \/ \E d \in Consumers : pc[d] = "emptied" /\ at[d] = t
    <3>1. consumers'[at[c]] # {}
      BY <2>0, <2>1
    <3>2. consumers[t] = {}
      BY <2>0, <2>1, <3>1
    <3> QED BY <2>0, <3>2
  <2> QED BY <1>6, <2>2 DEF AddRecApply, Goto
<1>7. ASSUME NEW c \in Consumers, RemoveLookup(c) PROVE EmptyIsReclaimed'
  BY <1>7 DEF RemoveLookup, Goto
<1>8. ASSUME NEW c \in Consumers, RemoveApply(c) PROVE EmptyIsReclaimed'
  <2> SUFFICES ASSUME NEW t \in SessIds, Registered(t)', consumers'[t] = {}
               PROVE  t \in pending' \/ \E d \in Consumers : pc'[d] = "emptied" /\ at'[d] = t
    BY DEF EmptyIsReclaimed

  <2>1. CASE t = at[c]
    <3>1. consumers[at[c]] \ {c} = {}
      BY <1>8, <2>1 DEF RemoveApply
    <3>2. pc'[c] = "emptied" /\ at'[c] = at[c]
      BY <1>8, <3>1 DEF RemoveApply, Goto, LastOut
    <3> QED BY <2>1, <3>2
  <2>2. CASE t # at[c]
    <3>1. Registered(t) /\ consumers[t] = {}
      BY <1>8, <2>2 DEF RemoveApply
    <3>2. t \in pending \/ \E d \in Consumers : pc[d] = "emptied" /\ at[d] = t
      BY <3>1
    <3>3. \A d \in Consumers : d # c => pc'[d] = pc[d] /\ at'[d] = at[d]
      BY <1>8 DEF RemoveApply, Goto
    <3> QED BY <1>8, <3>2, <3>3 DEF RemoveApply
  <2> QED BY <2>1, <2>2
<1>9. ASSUME NEW c \in Consumers, RemoveCheck(c) PROVE EmptyIsReclaimed'
  <2> SUFFICES ASSUME NEW t \in SessIds, Registered(t)', consumers'[t] = {}
               PROVE  t \in pending' \/ \E d \in Consumers : pc'[d] = "emptied" /\ at'[d] = t
    BY DEF EmptyIsReclaimed

  <2>1. t \in pending \/ \E d \in Consumers : pc[d] = "emptied" /\ at[d] = t
    BY <1>9 DEF RemoveCheck
  <2>2. CASE t = at[c]
    <3>1. ~HasRecordingConsumer(at[c])
      BY <1>9, <2>2 DEF RemoveCheck, HasRecordingConsumer
    <3> QED BY <1>9, <2>2, <3>1 DEF RemoveCheck
  <2>3. CASE t # at[c]
    BY <1>9, <2>1, <2>3 DEF RemoveCheck, Goto
  <2> QED BY <2>2, <2>3
<1>10. ASSUME NEW s \in SessIds, StopAndCleanup(s) PROVE EmptyIsReclaimed'
  BY <1>10 DEF StopAndCleanup, IsCurrent
<1>11. ASSUME Shutdown PROVE EmptyIsReclaimed'
  BY <1>11 DEF Shutdown
<1>12. ASSUME NEW s \in SessIds, TearCancel(s) PROVE EmptyIsReclaimed'
  BY <1>12 DEF TearCancel, Cancel
<1>13. ASSUME NEW s \in SessIds, TearWait(s) PROVE EmptyIsReclaimed'
  BY <1>13 DEF TearWait
<1>14. ASSUME NEW s \in SessIds, TearFinish(s) PROVE EmptyIsReclaimed'
  BY <1>14 DEF TearFinish, DoneReceived
<1>15. ASSUME NEW q \in Seekers, NEW k \in Keys, SeekLookup(q, k) PROVE EmptyIsReclaimed'
  BY <1>15 DEF SeekLookup
<1>16. ASSUME NEW q \in Seekers, SeekInPlace(q) PROVE EmptyIsReclaimed'
  BY <1>16 DEF SeekInPlace
<1>17. ASSUME NEW q \in Seekers, SeekStop(q) PROVE EmptyIsReclaimed'
  BY <1>17 DEF SeekStop, Cancel
<1>18. ASSUME NEW q \in Seekers, SeekSwap(q) PROVE EmptyIsReclaimed'
  BY <1>18 DEF SeekSwap
<1>19. ASSUME NEW s \in SessIds, NEW g \in Gens, PipelineOpen(s, g) PROVE EmptyIsReclaimed'
  BY <1>19 DEF PipelineOpen
<1>20. ASSUME NEW s \in SessIds, NEW g \in Gens, PipelineFail(s, g) PROVE EmptyIsReclaimed'
  BY <1>20 DEF PipelineFail, MarkDone
<1>21. ASSUME NEW s \in SessIds, NEW g \in Gens, PipelineEnd(s, g) PROVE EmptyIsReclaimed'
  BY <1>21 DEF PipelineEnd, MarkDone
<1> QED
  BY <1>1, <1>2, <1>3, <1>4, <1>5, <1>6, <1>7, <1>8, <1>9, <1>10, <1>11, <1>12, <1>13, <1>14, <1>15, <1>16, <1>17, <1>18, <1>19, <1>20, <1>21 DEF Next, GetOrCreate, RemoveConsumer, Teardown, RestartWithSeek

\* A step that changes nothing keeps the invariant.
LEMMA StutterIInv ==
  ASSUME IInv, UNCHANGED vars
  PROVE  IInv'
<1> USE DEF vars, sessVars, pipeVars, tearVars, callVars, seekVars, diskVars
<1>1. TypeOK'
  BY DEF IInv, TypeOK
<1>2. MapHoldsTheLive'
  BY DEF IInv, MapHoldsTheLive, Created, Registered
<1>3. EmptyIsReclaimed'
  BY DEF IInv, EmptyIsReclaimed, Registered
<1>4. LocalsOK'
  BY DEF IInv, LocalsOK, Created
<1> QED BY <1>1, <1>2, <1>3, <1>4 DEF IInv

\* The invariant holds in every reachable state of the manager.
THEOREM Invariance == Spec => []IInv
<1>1. IInv /\ [Next]_vars => IInv'
  <2>1. CASE Next
    BY <2>1, TypeStep, MapStep, LocalsStep, EmptyStep DEF IInv
  <2> QED BY <2>1, StutterIInv
<1> QED BY InitIInv, <1>1, PTL DEF Spec

\* Every variable of the manager has its type, for all constants.
THEOREM TypeCorrect == Spec => []TypeOK
  BY Invariance, PTL DEF IInv

\* The map holds exactly the sessions nobody tears down, however
\* GetOrCreateWithConsumer, stopAndCleanup, cleanupDoneSession, Shutdown and
\* RestartWithSeek interleave.
THEOREM MapCorrect == Spec => []MapHoldsTheLive
  BY Invariance, PTL DEF IInv

\* RemoveConsumer never leaves a registered session behind that nobody uses
\* and nobody will stop.
THEOREM EmptyCorrect == Spec => []EmptyIsReclaimed
  BY Invariance, PTL DEF IInv

\* A step that leaves the map, the keys and the teardowns alone is a stutter
\* of SessionLifecycle.
LEMMA LifecycleStutter ==
  ASSUME UNCHANGED <<sessions, keyOf, teardown>>
  PROVE  UNCHANGED Lifecycle!lifeVars
  BY DEF Lifecycle!lifeVars, Status

\* A change of the status of one session only.
LEMMA StatusChange ==
  ASSUME NEW s \in SessIds, NEW v \in {"unused", "live", "closing", "closed"},
         Status'[s] = v,
         \A t \in SessIds : t # s => Status'[t] = Status[t]
  PROVE  Status' = [Status EXCEPT ![s] = v]
<1>1. Status \in [SessIds -> {"unused", "live", "closing", "closed"}]
  BY DEF Status
<1>2. Status' \in [SessIds -> {"unused", "live", "closing", "closed"}]
  BY DEF Status
<1> QED BY <1>1, <1>2

\* Every step of the manager is a step of SessionLifecycle or a stutter.
LEMMA LifecycleStep ==
  ASSUME IInv, [Next]_vars
  PROVE  [Lifecycle!Next]_(Lifecycle!lifeVars)
<1> USE ConstantsAssumption DEF IInv, TypeOK, MapHoldsTheLive, LocalsOK, Created, Registered,
        sessVars, pipeVars, tearVars, callVars, seekVars, diskVars
<1>1. ASSUME NEW c \in Consumers, NEW k \in Keys, NEW s \in SessIds, StartSession(c, k, s)
      PROVE  Lifecycle!Open(k, s)
  <2>1. sessions[k] = None /\ keyOf[s] = None /\ teardown[s] = "none"
    BY <1>1 DEF StartSession, MayCreate, Fresh
  <2>2. /\ sessions' = [sessions EXCEPT ![k] = s]
        /\ keyOf' = [keyOf EXCEPT ![s] = k]
        /\ teardown' = teardown
    BY <1>1 DEF StartSession
  <2>3. Status[s] = "unused"
    BY <2>1 DEF Status
  <2>4. keyOf'[s] # None /\ teardown'[s] = "none"
    BY <2>1, <2>2
  <2>5. \A t \in SessIds : t # s => keyOf'[t] = keyOf[t] /\ teardown'[t] = teardown[t]
    BY <2>2
  <2>6. Status' = [Status EXCEPT ![s] = "live"]
    <3>1. Status'[s] = "live"
      BY <2>4 DEF Status
    <3>2. \A t \in SessIds : t # s => Status'[t] = Status[t]
      BY <2>5 DEF Status
    <3> QED BY <3>1, <3>2, StatusChange
  <2> QED BY <2>1, <2>2, <2>3, <2>6 DEF Lifecycle!Open
<1>2. ASSUME NEW c \in Consumers, NEW k \in Keys, ReplaceDone(c, k)
      PROVE  Lifecycle!Close({k})
  <2>1. /\ sessions[k] \in SessIds /\ keyOf[sessions[k]] = k
        /\ sessions' = [sessions EXCEPT ![k] = None]
        /\ teardown' = [teardown EXCEPT ![sessions[k]] = "unlinked"]
        /\ keyOf' = keyOf
    BY <1>2 DEF ReplaceDone
  <2>2. Status' = [t \in SessIds |-> IF t = sessions[k] THEN "closing" ELSE Status[t]]
    BY <2>1 DEF Status
  <2>3. sessions' = [l \in Keys |-> IF l \in {k} THEN None ELSE sessions[l]]
    BY <2>1
  <2>4. sessions[k] # None
    BY <2>1
  <2> QED BY <2>2, <2>3, <2>4 DEF Lifecycle!Close
<1>3. ASSUME NEW s \in SessIds, StopAndCleanup(s), IsCurrent(s)
      PROVE  Lifecycle!Close({keyOf[s]})
  <2>1. /\ keyOf[s] \in Keys /\ sessions[keyOf[s]] = s
        /\ sessions' = [sessions EXCEPT ![keyOf[s]] = None]
        /\ teardown' = [teardown EXCEPT ![s] = "unlinked"]
        /\ keyOf' = keyOf
    BY <1>3 DEF StopAndCleanup, IsCurrent
  <2>2. Status' = [t \in SessIds |->
                     IF t = sessions[keyOf[s]] THEN "closing" ELSE Status[t]]
    BY <2>1 DEF Status
  <2>3. sessions' = [l \in Keys |-> IF l \in {keyOf[s]} THEN None ELSE sessions[l]]
    BY <2>1
  <2>4. sessions[keyOf[s]] # None
    BY <2>1
  <2> QED BY <2>2, <2>3, <2>4 DEF Lifecycle!Close
<1>4. ASSUME Shutdown
      PROVE  Lifecycle!Close({k \in Keys : sessions[k] # None})
  BY <1>4 DEF Shutdown, Lifecycle!Close, Status
<1>5. ASSUME NEW s \in SessIds, TearFinish(s)
      PROVE  Lifecycle!Finish(s)
  <2>1. /\ keyOf[s] # None /\ teardown[s] = "waiting"
        /\ teardown' = [teardown EXCEPT ![s] = "gone"]
        /\ UNCHANGED <<sessions, keyOf>>
    BY <1>5 DEF TearFinish
  <2>2. Status[s] = "closing"
    BY <2>1 DEF Status
  <2>3. Status' = [Status EXCEPT ![s] = "closed"]
    <3>1. Status'[s] = "closed"
      BY <2>1 DEF Status
    <3>2. \A t \in SessIds : t # s => Status'[t] = Status[t]
      BY <2>1 DEF Status
    <3> QED BY <3>1, <3>2, StatusChange
  <2> QED BY <2>1, <2>2, <2>3 DEF Lifecycle!Finish
<1>6. ASSUME NEW s \in SessIds, TearCancel(s) \/ TearWait(s)
      PROVE  UNCHANGED Lifecycle!lifeVars
  <2>1. /\ keyOf[s] # None /\ teardown[s] \in {"unlinked", "cancelled"}
        /\ \E p \in {"cancelled", "waiting"} : teardown' = [teardown EXCEPT ![s] = p]
        /\ UNCHANGED <<sessions, keyOf>>
    <3>1. CASE TearCancel(s)
      BY <3>1 DEF TearCancel
    <3>2. CASE TearWait(s)
      BY <3>2 DEF TearWait
    <3> QED BY <1>6, <3>1, <3>2
  <2>2. Status' = Status
    BY <2>1 DEF Status
  <2> QED BY <2>1, <2>2 DEF Lifecycle!lifeVars
<1>7. ASSUME NEW s \in SessIds, StopAndCleanup(s), ~IsCurrent(s)
      PROVE  UNCHANGED <<sessions, keyOf, teardown>>
  BY <1>7 DEF StopAndCleanup
<1>8. ASSUME NEW c \in Consumers, NEW k \in Keys,
             JoinExisting(c, k) \/ CreateFails(c, k) \/ AddRecLookup(c, k)
      PROVE  UNCHANGED <<sessions, keyOf, teardown>>
  BY <1>8 DEF JoinExisting, CreateFails, AddRecLookup
<1>9. ASSUME NEW c \in Consumers, AddRecApply(c) \/ RemoveConsumer(c)
      PROVE  UNCHANGED <<sessions, keyOf, teardown>>
  BY <1>9 DEF AddRecApply, RemoveConsumer, RemoveLookup, RemoveApply, RemoveCheck
<1>10. ASSUME NEW q \in Seekers, NEW k \in Keys, RestartWithSeek(q) \/ SeekLookup(q, k)
       PROVE  UNCHANGED <<sessions, keyOf, teardown>>
  BY <1>10 DEF RestartWithSeek, SeekLookup, SeekInPlace, SeekStop, SeekSwap
<1>11. ASSUME NEW s \in SessIds, NEW g \in Gens,
              PipelineOpen(s, g) \/ PipelineFail(s, g) \/ PipelineEnd(s, g)
       PROVE  UNCHANGED <<sessions, keyOf, teardown>>
  BY <1>11 DEF PipelineOpen, PipelineFail, PipelineEnd
<1>12. ASSUME NEW q \in Seekers, RestartWithSeek(q)
       PROVE  UNCHANGED <<sessions, keyOf, teardown>>
  BY <1>12 DEF RestartWithSeek, SeekInPlace, SeekStop, SeekSwap
<1>13. CASE Next
  <2>1. ASSUME NEW k \in Keys PROVE {k} \in SUBSET Keys
    OBVIOUS
  <2>2. {k \in Keys : sessions[k] # None} \in SUBSET Keys
    OBVIOUS
  <2>3. ASSUME NEW c \in Consumers, NEW k \in Keys, GetOrCreate(c, k) \/ AddRecLookup(c, k)
        PROVE  Lifecycle!Next \/ UNCHANGED Lifecycle!lifeVars
    BY <2>1, <2>3, <1>1, <1>2, <1>8, LifecycleStutter DEF GetOrCreate, Lifecycle!Next
  <2>4. ASSUME NEW s \in SessIds, StopAndCleanup(s) \/ Teardown(s)
        PROVE  Lifecycle!Next \/ UNCHANGED Lifecycle!lifeVars
    <3>1. CASE StopAndCleanup(s) /\ IsCurrent(s)
      <4>1. keyOf[s] \in Keys
        BY <3>1 DEF StopAndCleanup
      <4> QED BY <4>1, <3>1, <1>3, <2>1 DEF Lifecycle!Next
    <3>2. CASE StopAndCleanup(s) /\ ~IsCurrent(s)
      BY <3>2, <1>7, LifecycleStutter
    <3>3. CASE Teardown(s)
      BY <3>3, <1>5, <1>6 DEF Teardown, Lifecycle!Next
    <3> QED BY <2>4, <3>1, <3>2, <3>3
  <2>5. CASE Shutdown
    BY <2>5, <2>2, <1>4 DEF Lifecycle!Next
  <2> QED
    BY <1>13, <2>3, <2>4, <2>5, <1>9, <1>10, <1>11, <1>12, LifecycleStutter DEF Next
<1>14. CASE UNCHANGED vars
  BY <1>14, LifecycleStutter DEF vars
<1> QED BY <1>13, <1>14

\* The session manager implements SessionLifecycle: under any interleaving a
\* key has at most one live session, which is opened once and closed once.
THEOREM Refinement == Spec => ImplementsLifecycle
<1>1. Init => Lifecycle!Init
  BY DEF Init, Lifecycle!Init, Status
<1>2. IInv /\ [Next]_vars => [Lifecycle!Next]_(Lifecycle!lifeVars)
  BY LifecycleStep
<1> QED BY <1>1, <1>2, Invariance, PTL DEF Spec, ImplementsLifecycle, Lifecycle!Safety

\* With one start per session the done channel tells the truth: it is closed
\* only by a pipeline that has ended, and nobody cleans up before that.
DoneInv ==
  /\ \A s \in SessIds : 0 \in closed[s] => pipe[s][0] = "ended"
  /\ \A s \in SessIds : teardown[s] = "gone" => 0 \in closed[s]

\* Without restarts there is one done channel and only its pipeline closes it.
LEMMA DoneStep ==
  ASSUME MaxGen = 0, IInv, DoneInv, Next
  PROVE  DoneInv'
<1> USE ConstantsAssumption DEF IInv, TypeOK, LocalsOK, DoneInv, Created, Gens, sessVars, pipeVars, tearVars, callVars, seekVars, diskVars
<1>1. ASSUME NEW c \in Consumers, NEW k \in Keys, JoinExisting(c, k) PROVE DoneInv'
  BY <1>1 DEF JoinExisting, AddConsumer, Goto
<1>2. ASSUME NEW c \in Consumers, NEW k \in Keys, ReplaceDone(c, k) PROVE DoneInv'
  BY <1>2 DEF ReplaceDone, Goto
<1>3. ASSUME NEW c \in Consumers, NEW k \in Keys, NEW s \in SessIds, StartSession(c, k, s) PROVE DoneInv'
  BY <1>3 DEF StartSession, MayCreate, Fresh, AddConsumer, Goto
<1>4. ASSUME NEW c \in Consumers, NEW k \in Keys, CreateFails(c, k) PROVE DoneInv'
  BY <1>4 DEF CreateFails, MayCreate, Goto
<1>5. ASSUME NEW c \in Consumers, NEW k \in Keys, AddRecLookup(c, k) PROVE DoneInv'
  BY <1>5 DEF AddRecLookup, Goto
<1>6. ASSUME NEW c \in Consumers, AddRecApply(c) PROVE DoneInv'
  BY <1>6 DEF AddRecApply, AddConsumer, Goto
<1>7. ASSUME NEW c \in Consumers, RemoveLookup(c) PROVE DoneInv'
  BY <1>7 DEF RemoveLookup, Goto
<1>8. ASSUME NEW c \in Consumers, RemoveApply(c) PROVE DoneInv'
  BY <1>8 DEF RemoveApply, Goto, LastOut
<1>9. ASSUME NEW c \in Consumers, RemoveCheck(c) PROVE DoneInv'
  BY <1>9 DEF RemoveCheck, Goto, HasRecordingConsumer
<1>10. ASSUME NEW s \in SessIds, StopAndCleanup(s) PROVE DoneInv'
  BY <1>10 DEF StopAndCleanup, IsCurrent
<1>11. ASSUME Shutdown PROVE DoneInv'
  BY <1>11 DEF Shutdown
<1>12. ASSUME NEW s \in SessIds, TearCancel(s) PROVE DoneInv'
  BY <1>12 DEF TearCancel, Cancel
<1>13. ASSUME NEW s \in SessIds, TearWait(s) PROVE DoneInv'
  BY <1>13 DEF TearWait
<1>14. ASSUME NEW s \in SessIds, TearFinish(s) PROVE DoneInv'
  BY <1>14 DEF TearFinish, DoneReceived
<1>15. ASSUME NEW q \in Seekers, NEW k \in Keys, SeekLookup(q, k) PROVE DoneInv'
  BY <1>15 DEF SeekLookup
<1>16. ASSUME NEW q \in Seekers, SeekInPlace(q) PROVE DoneInv'
  BY <1>16 DEF SeekInPlace
<1>17. ASSUME NEW q \in Seekers, SeekStop(q) PROVE DoneInv'
  BY <1>17 DEF SeekStop, Cancel
<1>18. ASSUME NEW q \in Seekers, SeekSwap(q) PROVE DoneInv'
  BY <1>18 DEF SeekSwap
<1>19. ASSUME NEW s \in SessIds, NEW g \in Gens, PipelineOpen(s, g) PROVE DoneInv'
  BY <1>19 DEF PipelineOpen
<1>20. ASSUME NEW s \in SessIds, NEW g \in Gens, PipelineFail(s, g) PROVE DoneInv'
  BY <1>20 DEF PipelineFail, MarkDone
<1>21. ASSUME NEW s \in SessIds, NEW g \in Gens, PipelineEnd(s, g) PROVE DoneInv'
  BY <1>21 DEF PipelineEnd, MarkDone
<1> QED
  BY <1>1, <1>2, <1>3, <1>4, <1>5, <1>6, <1>7, <1>8, <1>9, <1>10, <1>11, <1>12, <1>13, <1>14, <1>15, <1>16, <1>17, <1>18, <1>19, <1>20, <1>21 DEF Next, GetOrCreate, RemoveConsumer, Teardown, RestartWithSeek

\* As long as no session is restarted, a directory is removed only after the
\* pipelines of its session have stopped (the <-s.done of the teardown paths).
THEOREM CleanupCorrect == ASSUME MaxGen = 0 PROVE Spec => []CleanedAfterPipeline
<1>1. Init => DoneInv
  BY DEF Init, DoneInv
<1>2. IInv /\ DoneInv /\ [Next]_vars => DoneInv'
  <2>1. CASE Next
    BY <2>1, DoneStep
  <2>2. CASE UNCHANGED vars
    BY <2>2 DEF DoneInv, vars, pipeVars, tearVars
  <2> QED BY <2>1, <2>2
<1>3. IInv /\ DoneInv => CleanedAfterPipeline
  BY DEF IInv, TypeOK, DoneInv, CleanedAfterPipeline, Gens
<1> QED BY <1>1, <1>2, <1>3, Invariance, PTL DEF Spec

=============================================================================
