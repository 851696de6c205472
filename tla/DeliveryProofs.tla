--------------------------- MODULE DeliveryProofs ---------------------------
(***************************************************************************)
(* Proofs about what a pipeline holds and what viewers of a live channel,  *)
(* readers of a growing file and the sink of a source are served: for any  *)
(* jobs and seeks, PipelineSound is an invariant of PipelineSpec; for any  *)
(* number of viewers and streams, ViewersServed is one of ProxySpec; for   *)
(* any number of readers, writes and seeks, ReadToTheEnd is one of         *)
(* TailSpec, whose steps satisfy NothingOlder; and for any sources and     *)
(* seeking viewers, SourceReadRight is one of DemuxSpec, whose steps       *)
(* satisfy NeverBackInTime.                                                *)
(***************************************************************************)
EXTENDS Pipeline, ProxyFanout, Tail, Demux, SequenceTheorems, TLAPS

-----------------------------------------------------------------------------
(***************************************************************************)
(* Viewers that share an upstream connection (ProxyFanout).                *)
(***************************************************************************)

\* What ServedOrTold and its companions rest on.  A connection is at work
\* while it is the one in the map or its loop runs.
Live(k) == loop[k] \in {"read", "deliver", "notify", "exit"}
Works(k) == connection = k \/ Live(k)

\* Where a request is once it is a client of the connection it opened or
\* joined; before that it has not been a client of anything that works.
After == {"watching", "lookup", "remove", "cleanup", "gone"}
Labels == After \cup {"idle", "raw", "join", "append", "start", "opening"}

TypeOK ==
  /\ connection \in Conns \cup {None}
  /\ clients \in [Conns -> SUBSET Viewers]
  /\ loop \in [Conns -> {"none", "read", "deliver", "notify", "exit", "left", "ended"}]
  /\ target \in [Conns -> Conns \cup {None}]
  /\ pc \in [Viewers -> Labels]
  /\ found \in [Viewers -> Conns \cup {None}]
  /\ try \in [Viewers -> Nat]
  /\ done \in [Viewers -> Nat]
  /\ overlapped \in BOOLEAN
  /\ active \subseteq Viewers /\ stranded \subseteq Viewers

\* What a request or a loop has looked up, and the streams it may try.
Located ==
  /\ \A v \in Viewers :
       /\ pc[v] \in {"append", "remove", "cleanup"} => found[v] \in Conns
       /\ pc[v] \in {"join", "start", "opening"} => try[v] >= 1
       /\ pc[v] = "opening" => try[v] <= Tries
  /\ \A k \in Conns : loop[k] \in {"deliver", "notify"} => target[k] \in Conns

\* A loop runs for a request that is past its opening.
Opened == \A k \in Conns : loop[k] # "none" => pc[Opener(k)] \in After

\* Who is a client of another's connection has joined it.
Joined == \A k \in Conns : \A v \in clients[k] : Opener(k) # v => pc[v] \in After

-----------------------------------------------------------------------------
(* While connections do not overlap *)

OneAlive == \A k, l \in Conns : Lives(k) /\ Lives(l) => k = l

OwnTarget == \A k \in Conns : loop[k] \in {"deliver", "notify"} => target[k] = k

\* The connection that is being opened is the one in the map, its opener is
\* among its clients, and nobody is about to take it away.
Opening ==
  \A v \in Viewers : pc[v] = "opening" =>
    /\ connection = <<v, try[v]>> /\ v \in clients[connection]
    /\ \A u \in Viewers : pc[u] # "cleanup"

\* The connection in the map is being opened or its loop runs.
Carried ==
  \A k \in Conns : connection = k =>
    Live(k) \/ (pc[Opener(k)] = "opening" /\ k = <<Opener(k), try[Opener(k)]>>)

\* Nobody is told before it is a client, nor twice by one that works.
NotTold == \A v \in Viewers : pc[v] \notin After => done[v] = 0
Untold == \A k \in Conns : Works(k) => \A v \in clients[k] : done[v] = 0
AtMostOnce == \A v \in Viewers : done[v] <= 1

\* A loop that is at its end or was taken from the map, and a connection that
\* its last client gives up, have only clients that came too late.
Given(k) == \E u \in Viewers : pc[u] = "cleanup" /\ found[u] = k
Ending ==
  \A k \in Conns :
    (Live(k) /\ (connection # k \/ loop[k] = "exit")) \/ Given(k) => clients[k] \subseteq stranded

CleanupOut == \A v \in Viewers : pc[v] = "cleanup" => v \notin clients[found[v]]

\* A client whose request has returned came too late.
NoneGone ==
  \A k \in Conns : Works(k) => \A v \in clients[k] : pc[v] = "gone" => v \in stranded

Served ==
  \A v \in Viewers \ stranded : pc[v] = "watching" /\ done[v] = 0 =>
    connection # None /\ v \in clients[connection] /\ Serving(connection)

Sole ==
  /\ OneAlive /\ OwnTarget /\ Opening /\ Carried
  /\ NotTold /\ Untold /\ AtMostOnce
  /\ Ending /\ CleanupOut /\ NoneGone /\ Served

IInv == TypeOK /\ Located /\ Opened /\ Joined /\ ActivityHonest /\ (~overlapped => Sole)

-----------------------------------------------------------------------------

\* The opener of a connection is a viewer, and numbers its tries.
LEMMA OpenerType ==
  /\ \A k \in Conns : Opener(k) \in Viewers /\ k = <<Opener(k), k[2]>>
  /\ \A v \in Viewers, i \in 1..Tries : <<v, i>> \in Conns /\ Opener(<<v, i>>) = v
BY DEF Conns, Opener

\* A viewer that starts has no connection and has been told nothing.
LEMMA ProxyStreamKept ==
  ASSUME ProxyAssumption, IInv, NEW v \in Viewers, ProxyStream(v)
  PROVE  IInv'
<1> USE DEF ProxyStream, Goto
<1>1. TypeOK'
  BY DEF ProxyAssumption, IInv, TypeOK, Located, Labels, After, Conns
<1>2. Located'
  BY DEF ProxyAssumption, IInv, TypeOK, Located, Conns
<1>3. Opened'
  BY DEF ProxyAssumption, IInv, TypeOK, Located, Opened, After, Conns, Opener
<1>4. Joined'
  BY DEF ProxyAssumption, IInv, TypeOK, Located, Joined, After, Conns, Opener
<1>5. ActivityHonest'
  BY DEF IInv, TypeOK, ActivityHonest
<1>6. ASSUME ~overlapped' PROVE Sole'
  <2>0. ~overlapped /\ Sole
    BY <1>6 DEF IInv
  <2>1. \A l \in Conns : Lives(l)' => Lives(l)
    BY <2>0 DEF ProxyAssumption, IInv, TypeOK, Located, Lives, Sole
  <2>2. OneAlive'
    BY <2>0, <2>1 DEF Sole, OneAlive
  <2>3. OwnTarget'
    BY <2>0 DEF IInv, TypeOK, Located, Sole, OneAlive, OwnTarget, Lives, ProxyAssumption
  <2>4. Opening'
    BY <2>0 DEF IInv, TypeOK, Located, Sole, OneAlive, Opening, Lives, Opened, Opener, Conns, ProxyAssumption, After
  <2>5. Carried'
    BY <2>0 DEF IInv, TypeOK, Located, Sole, Carried, Live, Opener, Conns, ProxyAssumption
  <2>6. NotTold'
    BY <2>0 DEF IInv, TypeOK, Located, Sole, OwnTarget, Opened, Joined, NotTold, After, Opener
  <2>7. Untold'
    BY <2>0 DEF IInv, TypeOK, Located, Sole, Untold, NotTold, OwnTarget, Works, Live, After, Conns
  <2>8. AtMostOnce'
    BY <2>0 DEF IInv, TypeOK, Located, Sole, AtMostOnce, Untold, OwnTarget, Works, Live
  <2>9. Ending'
    BY <2>0 DEF IInv, TypeOK, Located, Sole, Ending, Given, Live, Lives, OneAlive, OwnTarget
  <2>10. CleanupOut'
    BY <2>0 DEF IInv, TypeOK, Located, Sole, CleanupOut
  <2>11. NoneGone'
    BY <2>0 DEF IInv, TypeOK, Located, Sole, NoneGone, Works, Live, Carried, Opened, Joined, After, Opener, Ending, CleanupOut, OneAlive, Lives, OwnTarget
  <2>12. Served'
    BY <2>0, OpenerType DEF IInv, TypeOK, Sole, Served, Serving
  <2> QED BY <2>2, <2>3, <2>4, <2>5, <2>6, <2>7, <2>8, <2>9, <2>10, <2>11, <2>12 DEF Sole
<1> QED BY <1>1, <1>2, <1>3, <1>4, <1>5, <1>6 DEF IInv

\* So has one that asks for the raw stream.
LEMMA ProxyRawStreamKept ==
  ASSUME ProxyAssumption, IInv, NEW v \in Viewers, ProxyRawStream(v)
  PROVE  IInv'
<1> USE DEF ProxyRawStream, Goto
<1>1. TypeOK'
  BY DEF ProxyAssumption, IInv, TypeOK, Located, Labels, After, Conns
<1>2. Located'
  BY DEF ProxyAssumption, IInv, TypeOK, Located, Conns
<1>3. Opened'
  BY DEF ProxyAssumption, IInv, TypeOK, Located, Opened, After, Conns, Opener
<1>4. Joined'
  BY DEF ProxyAssumption, IInv, TypeOK, Located, Joined, After, Conns, Opener
<1>5. ActivityHonest'
  BY DEF IInv, TypeOK, ActivityHonest
<1>6. ASSUME ~overlapped' PROVE Sole'
  <2>0. ~overlapped /\ Sole
    BY <1>6 DEF IInv
  <2>1. \A l \in Conns : Lives(l)' => Lives(l)
    BY <2>0 DEF ProxyAssumption, IInv, TypeOK, Located, Lives, Sole
  <2>2. OneAlive'
    BY <2>0, <2>1 DEF Sole, OneAlive
  <2>3. OwnTarget'
    BY <2>0 DEF IInv, TypeOK, Located, Sole, OneAlive, OwnTarget, Lives, ProxyAssumption
  <2>4. Opening'
    BY <2>0 DEF IInv, TypeOK, Located, Sole, OneAlive, Opening, Lives, Opened, Opener, Conns, ProxyAssumption, After
  <2>5. Carried'
    BY <2>0 DEF IInv, TypeOK, Located, Sole, Carried, Live, Opener, Conns, ProxyAssumption
  <2>6. NotTold'
    BY <2>0 DEF IInv, TypeOK, Located, Sole, OwnTarget, Opened, Joined, NotTold, After, Opener
  <2>7. Untold'
    BY <2>0 DEF IInv, TypeOK, Located, Sole, Untold, NotTold, OwnTarget, Works, Live, After, Conns
  <2>8. AtMostOnce'
    BY <2>0 DEF IInv, TypeOK, Located, Sole, AtMostOnce, Untold, OwnTarget, Works, Live
  <2>9. Ending'
    BY <2>0 DEF IInv, TypeOK, Located, Sole, Ending, Given, Live, Lives, OneAlive, OwnTarget
  <2>10. CleanupOut'
    BY <2>0 DEF IInv, TypeOK, Located, Sole, CleanupOut
  <2>11. NoneGone'
    BY <2>0 DEF IInv, TypeOK, Located, Sole, NoneGone, Works, Live, Carried, Opened, Joined, After, Opener, Ending, CleanupOut, OneAlive, Lives, OwnTarget
  <2>12. Served'
    BY <2>0, OpenerType DEF IInv, TypeOK, Sole, Served, Serving
  <2> QED BY <2>2, <2>3, <2>4, <2>5, <2>6, <2>7, <2>8, <2>9, <2>10, <2>11, <2>12 DEF Sole
<1> QED BY <1>1, <1>2, <1>3, <1>4, <1>5, <1>6 DEF IInv

\* A raw viewer reads from a connection of its own, which nobody shares.
LEMMA copyToClientKept ==
  ASSUME ProxyAssumption, IInv, NEW v \in Viewers, copyToClient(v)
  PROVE  IInv'
<1> USE DEF copyToClient, Goto
<1>1. TypeOK'
  BY DEF ProxyAssumption, IInv, TypeOK, Located, Labels, After, Conns
<1>2. Located'
  BY DEF ProxyAssumption, IInv, TypeOK, Located, Conns
<1>3. Opened'
  BY DEF ProxyAssumption, IInv, TypeOK, Located, Opened, After, Conns, Opener
<1>4. Joined'
  BY DEF ProxyAssumption, IInv, TypeOK, Located, Joined, After, Conns, Opener
<1>5. ActivityHonest'
  BY DEF IInv, TypeOK, ActivityHonest
<1>6. ASSUME ~overlapped' PROVE Sole'
  <2>0. ~overlapped /\ Sole
    BY <1>6 DEF IInv
  <2>1. \A l \in Conns : Lives(l)' => Lives(l)
    BY <2>0 DEF ProxyAssumption, IInv, TypeOK, Located, Lives, Sole
  <2>2. OneAlive'
    BY <2>0, <2>1 DEF Sole, OneAlive
  <2>3. OwnTarget'
    BY <2>0 DEF IInv, TypeOK, Located, Sole, OneAlive, OwnTarget, Lives, ProxyAssumption
  <2>4. Opening'
    BY <2>0 DEF IInv, TypeOK, Located, Sole, OneAlive, Opening, Lives, Opened, Opener, Conns, ProxyAssumption, After
  <2>5. Carried'
    BY <2>0 DEF IInv, TypeOK, Located, Sole, Carried, Live, Opener, Conns, ProxyAssumption
  <2>6. NotTold'
    BY <2>0 DEF IInv, TypeOK, Located, Sole, OwnTarget, Opened, Joined, NotTold, After, Opener
  <2>7. Untold'
    BY <2>0 DEF IInv, TypeOK, Located, Sole, Untold, NotTold, OwnTarget, Works, Live, After, Conns
  <2>8. AtMostOnce'
    BY <2>0 DEF IInv, TypeOK, Located, Sole, AtMostOnce, Untold, OwnTarget, Works, Live
  <2>9. Ending'
    BY <2>0 DEF IInv, TypeOK, Located, Sole, Ending, Given, Live, Lives, OneAlive, OwnTarget
  <2>10. CleanupOut'
    BY <2>0 DEF IInv, TypeOK, Located, Sole, CleanupOut
  <2>11. NoneGone'
    BY <2>0 DEF IInv, TypeOK, Located, Sole, NoneGone, Works, Live, Carried, Opened, Joined, After, Opener, Ending, CleanupOut, OneAlive, Lives, OwnTarget
  <2>12. Served'
    BY <2>0 DEF IInv, TypeOK, Located, Sole, Served, Serving, OneAlive, Lives, OwnTarget
  <2> QED BY <2>2, <2>3, <2>4, <2>5, <2>6, <2>7, <2>8, <2>9, <2>10, <2>11, <2>12 DEF Sole
<1> QED BY <1>1, <1>2, <1>3, <1>4, <1>5, <1>6 DEF IInv

\* Looking a connection up only notes it; it may end before it is joined.
LEMMA tryJoinExistingKept ==
  ASSUME ProxyAssumption, IInv, NEW v \in Viewers, tryJoinExisting(v)
  PROVE  IInv'
<1> USE DEF tryJoinExisting, Goto
<1>1. TypeOK'
  BY DEF ProxyAssumption, IInv, TypeOK, Located, Labels, After, Conns
<1>2. Located'
  BY DEF ProxyAssumption, IInv, TypeOK, Located, Conns
<1>3. Opened'
  BY DEF ProxyAssumption, IInv, TypeOK, Located, Opened, After, Conns, Opener
<1>4. Joined'
  BY DEF ProxyAssumption, IInv, TypeOK, Located, Joined, After, Conns, Opener
<1>5. ActivityHonest'
  BY DEF IInv, TypeOK, ActivityHonest
<1>6. ASSUME ~overlapped' PROVE Sole'
  <2>0. ~overlapped /\ Sole
    BY <1>6 DEF IInv
  <2>1. \A l \in Conns : Lives(l)' => Lives(l)
    BY <2>0 DEF ProxyAssumption, IInv, TypeOK, Located, Lives, Sole
  <2>2. OneAlive'
    BY <2>0, <2>1 DEF Sole, OneAlive
  <2>3. OwnTarget'
    BY <2>0 DEF IInv, TypeOK, Located, Sole, OneAlive, OwnTarget, Lives, ProxyAssumption
  <2>4. Opening'
    BY <2>0 DEF IInv, TypeOK, Located, Sole, OneAlive, Opening, Lives, Opened, Opener, Conns, ProxyAssumption, After
  <2>5. Carried'
    BY <2>0 DEF IInv, TypeOK, Located, Sole, Carried, Live, Opener, Conns, ProxyAssumption
  <2>6. NotTold'
    BY <2>0 DEF IInv, TypeOK, Located, Sole, OwnTarget, Opened, Joined, NotTold, After, Opener
  <2>7. Untold'
    BY <2>0 DEF IInv, TypeOK, Located, Sole, Untold, NotTold, OwnTarget, Works, Live, After, Conns
  <2>8. AtMostOnce'
    BY <2>0 DEF IInv, TypeOK, Located, Sole, AtMostOnce, Untold, OwnTarget, Works, Live
  <2>9. Ending'
    BY <2>0 DEF IInv, TypeOK, Located, Sole, Ending, Given, Live, Lives, OneAlive, OwnTarget
  <2>10. CleanupOut'
    BY <2>0 DEF IInv, TypeOK, Located, Sole, CleanupOut
  <2>11. NoneGone'
    BY <2>0 DEF IInv, TypeOK, Located, Sole, NoneGone, Works, Live, Carried, Opened, Joined, After, Opener, Ending, CleanupOut, OneAlive, Lives, OwnTarget
  <2>12. Served'
    BY <2>0, OpenerType DEF IInv, TypeOK, Sole, Served, Serving
  <2> QED BY <2>2, <2>3, <2>4, <2>5, <2>6, <2>7, <2>8, <2>9, <2>10, <2>11, <2>12 DEF Sole
<1> QED BY <1>1, <1>2, <1>3, <1>4, <1>5, <1>6 DEF IInv

\* Joining checks again that the connection has not ended.
LEMMA AppendClientKept ==
  ASSUME ProxyAssumption, IInv, NEW v \in Viewers, AppendClient(v)
  PROVE  IInv'
<1> USE DEF AppendClient, Goto, Forget, Dying
<1>1. TypeOK'
  BY DEF ProxyAssumption, IInv, TypeOK, Located, Labels, After, Conns
<1>2. Located'
  BY DEF ProxyAssumption, IInv, TypeOK, Located, Conns
<1>3. Opened'
  BY DEF ProxyAssumption, IInv, TypeOK, Located, Opened, After, Conns, Opener
<1>4. Joined'
  BY DEF ProxyAssumption, IInv, TypeOK, Located, Joined, After, Conns, Opener
<1>5. ActivityHonest'
  BY DEF IInv, TypeOK, ActivityHonest
<1>6. ASSUME ~overlapped' PROVE Sole'
  <2>0. ~overlapped /\ Sole
    BY <1>6 DEF IInv
  <2>1. \A l \in Conns : Lives(l)' => Lives(l)
    BY <2>0 DEF ProxyAssumption, IInv, TypeOK, Located, Lives, Sole
  <2>2. OneAlive'
    BY <2>0, <2>1 DEF Sole, OneAlive
  <2>3. OwnTarget'
    BY <2>0 DEF IInv, TypeOK, Located, Sole, OneAlive, OwnTarget, Lives, ProxyAssumption
  <2>4. Opening'
    BY <2>0 DEF IInv, TypeOK, Located, Sole, OneAlive, Opening, Lives, Opened, Opener, Conns, ProxyAssumption, After
  <2>5. Carried'
    BY <2>0 DEF IInv, TypeOK, Located, Sole, Carried, Live, Opener, Conns, ProxyAssumption
  <2>6. NotTold'
    BY <2>0 DEF IInv, TypeOK, Located, Sole, OwnTarget, Opened, Joined, NotTold, After, Opener
  <2>7. Untold'
    BY <2>0 DEF IInv, TypeOK, Located, Sole, Untold, NotTold, OwnTarget, Works, Live, After, Conns
  <2>8. AtMostOnce'
    BY <2>0 DEF IInv, TypeOK, Located, Sole, AtMostOnce, Untold, OwnTarget, Works, Live
  <2>9. Ending'
    BY <2>0 DEF IInv, TypeOK, Located, Sole, Ending, Given, Live, Lives, OneAlive, OwnTarget
  <2>10. CleanupOut'
    BY <2>0 DEF IInv, TypeOK, Located, Sole, CleanupOut
  <2>11. NoneGone'
    BY <2>0 DEF IInv, TypeOK, Located, Sole, NoneGone, Works, Live, Carried, Opened, Joined, After, Opener, Ending, CleanupOut, OneAlive, Lives, OwnTarget
  <2>12. Served'
    BY <2>0, OpenerType DEF IInv, TypeOK, Located, Sole, Served, Serving, Carried, Ending, Live
  <2> QED BY <2>2, <2>3, <2>4, <2>5, <2>6, <2>7, <2>8, <2>9, <2>10, <2>11, <2>12 DEF Sole
<1> QED BY <1>1, <1>2, <1>3, <1>4, <1>5, <1>6 DEF IInv

\* A viewer opens a connection when it found none, or a second one when two
\* of them looked at once: from there on nothing is said of Sole.
LEMMA startUpstreamKept ==
  ASSUME ProxyAssumption, IInv, NEW v \in Viewers, startUpstream(v)
  PROVE  IInv'
<1> USE DEF startUpstream, Goto
<1> DEFINE Opens ==
      /\ connection' = <<v, try[v]>>
      /\ clients' = [clients EXCEPT ![<<v, try[v]>>] = {v}]
      /\ overlapped' = (overlapped \/ \E l \in Conns : Lives(l))
      /\ Goto(v, "opening") /\ UNCHANGED try
<1>1. CASE Opens
  <2>1. PICK k \in Conns : k = <<v, try[v]>> /\ Opener(k) = v
    BY OpenerType DEF ProxyAssumption, IInv, TypeOK, Located
  <2>2. loop[k] = "none"
    BY <2>1 DEF IInv, Opened, After
  <2>3. /\ v \in Viewers /\ pc[v] = "start" /\ try[v] \in 1..Tries
        /\ connection' = k /\ clients' = [clients EXCEPT ![k] = {v}]
        /\ overlapped' = (overlapped \/ \E l \in Conns : Lives(l))
        /\ pc' = [pc EXCEPT ![v] = "opening"]
        /\ UNCHANGED <<try, cancelled, loop, target, found, done, active, stranded>>
    BY <1>1, <2>1 DEF ProxyAssumption, IInv, TypeOK, Located
  <2> HIDE DEF startUpstream, Goto, Opens
  <2>4. TypeOK'
    BY <2>3 DEF IInv, TypeOK, Labels
  <2>5. Located'
    BY <2>3 DEF IInv, TypeOK, Located
  <2>6. Opened'
    BY <2>1, <2>2, <2>3 DEF IInv, TypeOK, Opened, After
  <2>7. Joined'
    BY <2>1, <2>3 DEF IInv, TypeOK, Joined, After
  <2>8. ActivityHonest'
    BY <2>3 DEF IInv, TypeOK, ActivityHonest
  <2>9. ASSUME ~overlapped' PROVE Sole'
    <3>0. ~overlapped /\ Sole /\ \A l \in Conns : ~Lives(l)
      BY <2>3, <2>9 DEF IInv, TypeOK
    <3>1. \A l \in Conns : Lives(l)' => l = k
      BY <2>3, <3>0 DEF Lives, IInv, TypeOK
    <3>2. \A l \in Conns : ~Live(l) /\ ~Given(l)
      BY <3>0 DEF Lives, Live, Given
    <3>3. OneAlive'
      BY <3>1 DEF OneAlive
    <3>4. OwnTarget'
      BY <2>3, <3>0 DEF Sole, OwnTarget
    <3>5. Opening'
      <4>1. \A u \in Viewers : pc[u] # "opening" /\ pc[u] # "cleanup"
        BY <3>0, OpenerType DEF Sole, Opening, Lives, IInv, TypeOK, Located
      <4> QED BY <2>1, <2>3, <4>1 DEF Opening, IInv, TypeOK
    <3>6. Carried'
      BY <2>1, <2>3 DEF Carried, IInv, TypeOK
    <3>7. NotTold'
      BY <2>3, <3>0 DEF Sole, NotTold, IInv, TypeOK, After
    <3>8. Untold'
      BY <2>3, <3>0, <3>2 DEF Sole, NotTold, Untold, Works, Live, IInv, TypeOK, After
    <3>9. AtMostOnce'
      BY <2>3, <3>0 DEF Sole, AtMostOnce
    <3>10. Ending'
      BY <2>3, <3>2 DEF Ending, Live, Given, IInv, TypeOK
    <3>11. CleanupOut'
      BY <2>3, <3>0, <3>2 DEF Sole, CleanupOut, IInv, TypeOK, Located
    <3>12. NoneGone'
      BY <2>3, <3>2 DEF NoneGone, Works, Live, IInv, TypeOK
    <3>13. Served'
      <4>1. connection = None
        BY <3>0 DEF Lives, IInv, TypeOK
      <4> QED BY <2>3, <3>0, <4>1 DEF Sole, Served, IInv, TypeOK
    <3> QED BY <3>3, <3>4, <3>5, <3>6, <3>7, <3>8, <3>9, <3>10, <3>11, <3>12, <3>13 DEF Sole
  <2> QED BY <2>4, <2>5, <2>6, <2>7, <2>8, <2>9 DEF IInv
<1>2. CASE UNCHANGED <<connection, clients, overlapped, pc>> /\ try' = [try EXCEPT ![v] = @ + 1]
  <2>1. TypeOK'
    BY <1>2 DEF IInv, TypeOK
  <2>2. Located'
    BY <1>2 DEF IInv, TypeOK, Located
  <2>3. Opened' /\ Joined' /\ ActivityHonest'
    BY <1>2 DEF IInv, Opened, Joined, ActivityHonest
  <2>4. ASSUME ~overlapped' PROVE Sole'
    <3>1. Sole
      BY <1>2, <2>4 DEF IInv
    <3>2. OneAlive' /\ OwnTarget'
      BY <1>2, <3>1 DEF Sole, OneAlive, OwnTarget, Lives
    <3>3. Opening' /\ Carried'
      BY <1>2, <3>1, OpenerType DEF IInv, TypeOK, Sole, Opening, Carried, Live
    <3>4. NotTold' /\ Untold' /\ AtMostOnce'
      BY <1>2, <3>1 DEF Sole, NotTold, Untold, AtMostOnce, Works, Live
    <3>5. Ending' /\ CleanupOut' /\ NoneGone'
      BY <1>2, <3>1 DEF Sole, Ending, CleanupOut, NoneGone, Works, Live, Given
    <3>6. Served'
      BY <1>2, <3>1 DEF Sole, Served, Serving
    <3> QED BY <3>2, <3>3, <3>4, <3>5, <3>6 DEF Sole
  <2> QED BY <2>1, <2>2, <2>3, <2>4 DEF IInv
<1> QED BY <1>1, <1>2

\* A connection that failed to open leaves the viewers that joined it stranded.
LEMMA openUpstreamFailsKept ==
  ASSUME ProxyAssumption, IInv, NEW v \in Viewers, openUpstreamFails(v)
  PROVE  IInv'
<1> USE DEF openUpstreamFails, Goto, Cleanup
<1>1. TypeOK'
  BY DEF ProxyAssumption, IInv, TypeOK, Located, Labels, After, Conns
<1>2. Located'
  BY DEF ProxyAssumption, IInv, TypeOK, Located, Conns
<1>3. Opened'
  BY DEF ProxyAssumption, IInv, TypeOK, Located, Opened, After, Conns, Opener
<1>4. Joined'
  BY DEF ProxyAssumption, IInv, TypeOK, Located, Joined, After, Conns, Opener
<1>5. ActivityHonest'
  BY DEF IInv, TypeOK, ActivityHonest
<1>6. ASSUME ~overlapped' PROVE Sole'
  <2>0. ~overlapped /\ Sole
    BY <1>6 DEF IInv
  <2>1. \A l \in Conns : Lives(l)' => Lives(l)
    BY <2>0 DEF ProxyAssumption, IInv, TypeOK, Located, Lives, Sole
  <2>2. OneAlive'
    BY <2>0, <2>1 DEF Sole, OneAlive
  <2>3. OwnTarget'
    BY <2>0 DEF IInv, TypeOK, Located, Sole, OneAlive, OwnTarget, Lives, ProxyAssumption
  <2>4. Opening'
    BY <2>0 DEF IInv, TypeOK, Located, Sole, OneAlive, Opening, Lives, Opened, Opener, Conns, ProxyAssumption, After
  <2>5. Carried'
    BY <2>0 DEF IInv, TypeOK, Located, Sole, Carried, Live, Opener, Conns, ProxyAssumption
  <2>6. NotTold'
    BY <2>0 DEF IInv, TypeOK, Located, Sole, OwnTarget, Opened, Joined, NotTold, After, Opener
  <2>7. Untold'
    BY <2>0 DEF IInv, TypeOK, Located, Sole, Untold, NotTold, OwnTarget, Works, Live, After, Conns
  <2>8. AtMostOnce'
    BY <2>0 DEF IInv, TypeOK, Located, Sole, AtMostOnce, Untold, OwnTarget, Works, Live
  <2>9. Ending'
    <3>1. PICK k \in Conns : connection = k /\ Opener(k) = v
      BY <2>0, OpenerType DEF ProxyAssumption, IInv, TypeOK, Located, Sole, Opening
    <3>2. \A l \in Conns : ~Live(l)
      <4>1. loop[k] = "none"
        BY <3>1 DEF IInv, Opened, After
      <4> QED BY <2>0, <3>1, <4>1 DEF Sole, OneAlive, Lives, Live
    <3>3. \A l \in Conns : ~Given(l)
      BY <2>0 DEF Sole, Opening, Given
    <3> QED BY <3>2, <3>3 DEF IInv, TypeOK, Ending, Live, Given
  <2>10. CleanupOut'
    BY <2>0 DEF IInv, TypeOK, Located, Sole, CleanupOut
  <2>11. NoneGone'
    BY <2>0 DEF IInv, TypeOK, Located, Sole, NoneGone, Works, Live, Carried, Opened, Joined, After, Opener, Ending, CleanupOut, OneAlive, Lives, OwnTarget
  <2>12. Served'
    BY <2>0 DEF IInv, TypeOK, Located, Sole, Served, Opening
  <2> QED BY <2>2, <2>3, <2>4, <2>5, <2>6, <2>7, <2>8, <2>9, <2>10, <2>11, <2>12 DEF Sole
<1> QED BY <1>1, <1>2, <1>3, <1>4, <1>5, <1>6 DEF IInv

\* One that opened gets its loop.
LEMMA openUpstreamKept ==
  ASSUME ProxyAssumption, IInv, NEW v \in Viewers, openUpstream(v)
  PROVE  IInv'
<1> USE DEF openUpstream, Goto, Loops
<1>1. TypeOK'
  BY DEF ProxyAssumption, IInv, TypeOK, Located, Labels, After, Conns
<1>2. Located'
  BY DEF ProxyAssumption, IInv, TypeOK, Located, Conns
<1>3. Opened'
  BY DEF ProxyAssumption, IInv, TypeOK, Located, Opened, After, Conns, Opener
<1>4. Joined'
  BY DEF ProxyAssumption, IInv, TypeOK, Located, Joined, After, Conns, Opener
<1>5. ActivityHonest'
  BY DEF IInv, TypeOK, ActivityHonest
<1>0. PICK k \in Conns : k = <<v, try[v]>> /\ Opener(k) = v
  BY OpenerType DEF ProxyAssumption, IInv, TypeOK, Located
<1>6. ASSUME ~overlapped' PROVE Sole'
  <2>0. ~overlapped /\ Sole
    BY <1>6 DEF IInv
  <2>a. connection = k /\ v \in clients[k] /\ loop' = [loop EXCEPT ![k] = "read"]
    BY <2>0, <1>0 DEF Sole, Opening
  <2>1. \A l \in Conns : Lives(l)' => Lives(l)
    BY <2>a DEF IInv, TypeOK, Lives
  <2>2. OneAlive'
    BY <2>0, <2>1 DEF Sole, OneAlive
  <2>3. OwnTarget'
    BY <2>0 DEF IInv, TypeOK, Located, Sole, OneAlive, OwnTarget, Lives, ProxyAssumption
  <2>4. Opening'
    BY <2>0 DEF IInv, TypeOK, Located, Sole, OneAlive, Opening, Lives, Opened, Opener, Conns, ProxyAssumption, After
  <2>5. Carried'
    BY <2>0 DEF IInv, TypeOK, Located, Sole, Carried, Live, Opener, Conns, ProxyAssumption
  <2>6. NotTold'
    BY <2>0 DEF IInv, TypeOK, Located, Sole, OwnTarget, Opened, Joined, NotTold, After, Opener
  <2>7. Untold'
    BY <2>0, <2>a DEF IInv, TypeOK, Sole, Untold, Works, Live
  <2>8. AtMostOnce'
    BY <2>0 DEF IInv, TypeOK, Located, Sole, AtMostOnce, Untold, OwnTarget, Works, Live
  <2>9. Ending'
    BY <2>0, <2>a DEF IInv, TypeOK, Sole, Ending, Given, Live
  <2>10. CleanupOut'
    BY <2>0 DEF IInv, TypeOK, Located, Sole, CleanupOut
  <2>11. NoneGone'
    BY <2>0, <2>a DEF IInv, TypeOK, Sole, NoneGone, Works, Live
  <2>12. Served'
    BY <2>0, <2>a DEF IInv, TypeOK, Sole, Served, Serving
  <2> QED BY <2>2, <2>3, <2>4, <2>5, <2>6, <2>7, <2>8, <2>9, <2>10, <2>11, <2>12 DEF Sole
<1> QED BY <1>1, <1>2, <1>3, <1>4, <1>5, <1>6 DEF IInv

\* A viewer whose tries are used up has left all of them.
LEMMA AllStreamsFailedKept ==
  ASSUME ProxyAssumption, IInv, NEW v \in Viewers, AllStreamsFailed(v)
  PROVE  IInv'
<1> USE DEF AllStreamsFailed, Goto
<1>1. TypeOK'
  BY DEF ProxyAssumption, IInv, TypeOK, Located, Labels, After, Conns
<1>2. Located'
  BY DEF ProxyAssumption, IInv, TypeOK, Located, Conns
<1>3. Opened'
  BY DEF ProxyAssumption, IInv, TypeOK, Located, Opened, After, Conns, Opener
<1>4. Joined'
  BY DEF ProxyAssumption, IInv, TypeOK, Located, Joined, After, Conns, Opener
<1>5. ActivityHonest'
  BY DEF IInv, TypeOK, ActivityHonest
<1>6. ASSUME ~overlapped' PROVE Sole'
  <2>0. ~overlapped /\ Sole
    BY <1>6 DEF IInv
  <2>1. \A l \in Conns : Lives(l)' => Lives(l)
    BY <2>0 DEF ProxyAssumption, IInv, TypeOK, Located, Lives, Sole
  <2>2. OneAlive'
    BY <2>0, <2>1 DEF Sole, OneAlive
  <2>3. OwnTarget'
    BY <2>0 DEF IInv, TypeOK, Located, Sole, OneAlive, OwnTarget, Lives, ProxyAssumption
  <2>4. Opening'
    BY <2>0 DEF IInv, TypeOK, Located, Sole, OneAlive, Opening, Lives, Opened, Opener, Conns, ProxyAssumption, After
  <2>5. Carried'
    BY <2>0 DEF IInv, TypeOK, Located, Sole, Carried, Live, Opener, Conns, ProxyAssumption
  <2>6. NotTold'
    BY <2>0 DEF IInv, TypeOK, Located, Sole, OwnTarget, Opened, Joined, NotTold, After, Opener
  <2>7. Untold'
    BY <2>0 DEF IInv, TypeOK, Located, Sole, Untold, NotTold, OwnTarget, Works, Live, After, Conns
  <2>8. AtMostOnce'
    BY <2>0 DEF IInv, TypeOK, Located, Sole, AtMostOnce, Untold, OwnTarget, Works, Live
  <2>9. Ending'
    BY <2>0 DEF IInv, TypeOK, Located, Sole, Ending, Given, Live, Lives, OneAlive, OwnTarget
  <2>10. CleanupOut'
    BY <2>0 DEF IInv, TypeOK, Located, Sole, CleanupOut
  <2>11. NoneGone'
    BY <2>0 DEF IInv, TypeOK, Located, Sole, NoneGone, Works, Live, Carried, Opened, Joined, After, Opener, Ending, CleanupOut, OneAlive, Lives, OwnTarget
  <2>12. Served'
    BY <2>0 DEF IInv, TypeOK, Located, Sole, Served, Serving, OneAlive, Lives, OwnTarget
  <2> QED BY <2>2, <2>3, <2>4, <2>5, <2>6, <2>7, <2>8, <2>9, <2>10, <2>11, <2>12 DEF Sole
<1> QED BY <1>1, <1>2, <1>3, <1>4, <1>5, <1>6 DEF IInv

\* A viewer wakes because its connection told it so, or because it left.
LEMMA WakeKept ==
  ASSUME ProxyAssumption, IInv, NEW v \in Viewers, Wake(v)
  PROVE  IInv'
<1> USE DEF Wake, Goto
<1>1. TypeOK'
  BY DEF ProxyAssumption, IInv, TypeOK, Located, Labels, After, Conns
<1>2. Located'
  BY DEF ProxyAssumption, IInv, TypeOK, Located, Conns
<1>3. Opened'
  BY DEF ProxyAssumption, IInv, TypeOK, Located, Opened, After, Conns, Opener
<1>4. Joined'
  BY DEF ProxyAssumption, IInv, TypeOK, Located, Joined, After, Conns, Opener
<1>5. ActivityHonest'
  BY DEF IInv, TypeOK, ActivityHonest
<1>6. ASSUME ~overlapped' PROVE Sole'
  <2>0. ~overlapped /\ Sole
    BY <1>6 DEF IInv
  <2>1. \A l \in Conns : Lives(l)' => Lives(l)
    BY <2>0 DEF ProxyAssumption, IInv, TypeOK, Located, Lives, Sole
  <2>2. OneAlive'
    BY <2>0, <2>1 DEF Sole, OneAlive
  <2>3. OwnTarget'
    BY <2>0 DEF IInv, TypeOK, Located, Sole, OneAlive, OwnTarget, Lives, ProxyAssumption
  <2>4. Opening'
    BY <2>0 DEF IInv, TypeOK, Located, Sole, OneAlive, Opening, Lives, Opened, Opener, Conns, ProxyAssumption, After
  <2>5. Carried'
    BY <2>0 DEF IInv, TypeOK, Located, Sole, Carried, Live, Opener, Conns, ProxyAssumption
  <2>6. NotTold'
    BY <2>0 DEF IInv, TypeOK, Located, Sole, OwnTarget, Opened, Joined, NotTold, After, Opener
  <2>7. Untold'
    BY <2>0 DEF IInv, TypeOK, Located, Sole, Untold, NotTold, OwnTarget, Works, Live, After, Conns
  <2>8. AtMostOnce'
    BY <2>0 DEF IInv, TypeOK, Located, Sole, AtMostOnce, Untold, OwnTarget, Works, Live
  <2>9. Ending'
    BY <2>0 DEF IInv, TypeOK, Located, Sole, Ending, Given, Live, Lives, OneAlive, OwnTarget
  <2>10. CleanupOut'
    BY <2>0 DEF IInv, TypeOK, Located, Sole, CleanupOut
  <2>11. NoneGone'
    BY <2>0 DEF IInv, TypeOK, Located, Sole, NoneGone, Works, Live, Carried, Opened, Joined, After, Opener, Ending, CleanupOut, OneAlive, Lives, OwnTarget
  <2>12. Served'
    BY <2>0 DEF IInv, TypeOK, Located, Sole, Served, Serving, OneAlive, Lives, OwnTarget
  <2> QED BY <2>2, <2>3, <2>4, <2>5, <2>6, <2>7, <2>8, <2>9, <2>10, <2>11, <2>12 DEF Sole
<1> QED BY <1>1, <1>2, <1>3, <1>4, <1>5, <1>6 DEF IInv

\* Leaving looks the connection up again.
LEMMA RemoveLookupKept ==
  ASSUME ProxyAssumption, IInv, NEW v \in Viewers, RemoveLookup(v)
  PROVE  IInv'
<1> USE DEF RemoveLookup, Goto
<1>1. TypeOK'
  BY DEF ProxyAssumption, IInv, TypeOK, Located, Labels, After, Conns
<1>2. Located'
  BY DEF ProxyAssumption, IInv, TypeOK, Located, Conns
<1>3. Opened'
  BY DEF ProxyAssumption, IInv, TypeOK, Located, Opened, After, Conns, Opener
<1>4. Joined'
  BY DEF ProxyAssumption, IInv, TypeOK, Located, Joined, After, Conns, Opener
<1>5. ActivityHonest'
  BY DEF IInv, TypeOK, ActivityHonest
<1>6. ASSUME ~overlapped' PROVE Sole'
  <2>0. ~overlapped /\ Sole
    BY <1>6 DEF IInv
  <2>1. \A l \in Conns : Lives(l)' => Lives(l)
    BY <2>0 DEF ProxyAssumption, IInv, TypeOK, Located, Lives, Sole
  <2>2. OneAlive'
    BY <2>0, <2>1 DEF Sole, OneAlive
  <2>3. OwnTarget'
    BY <2>0 DEF IInv, TypeOK, Located, Sole, OneAlive, OwnTarget, Lives, ProxyAssumption
  <2>4. Opening'
    BY <2>0 DEF IInv, TypeOK, Located, Sole, OneAlive, Opening, Lives, Opened, Opener, Conns, ProxyAssumption, After
  <2>5. Carried'
    BY <2>0 DEF IInv, TypeOK, Located, Sole, Carried, Live, Opener, Conns, ProxyAssumption
  <2>6. NotTold'
    BY <2>0 DEF IInv, TypeOK, Located, Sole, OwnTarget, Opened, Joined, NotTold, After, Opener
  <2>7. Untold'
    BY <2>0 DEF IInv, TypeOK, Located, Sole, Untold, NotTold, OwnTarget, Works, Live, After, Conns
  <2>8. AtMostOnce'
    BY <2>0 DEF IInv, TypeOK, Located, Sole, AtMostOnce, Untold, OwnTarget, Works, Live
  <2>9. Ending'
    BY <2>0 DEF IInv, TypeOK, Located, Sole, Ending, Given, Live, Lives, OneAlive, OwnTarget
  <2>10. CleanupOut'
    BY <2>0 DEF IInv, TypeOK, Located, Sole, CleanupOut
  <2>11. NoneGone'
    BY <2>0 DEF IInv, TypeOK, Located, Sole, NoneGone, Works, Live, Carried, Opened, Joined, After, Opener, Ending, CleanupOut, OneAlive, Lives, OwnTarget
  <2>12. Served'
    BY <2>0, OpenerType DEF IInv, TypeOK, Sole, Served, Serving
  <2> QED BY <2>2, <2>3, <2>4, <2>5, <2>6, <2>7, <2>8, <2>9, <2>10, <2>11, <2>12 DEF Sole
<1> QED BY <1>1, <1>2, <1>3, <1>4, <1>5, <1>6 DEF IInv

\* The last viewer to leave ends the connection.
LEMMA removeClientKept ==
  ASSUME ProxyAssumption, IInv, NEW v \in Viewers, removeClient(v)
  PROVE  IInv'
<1> USE DEF removeClient, Goto, Forget, NoneLeft
<1>1. TypeOK'
  BY DEF ProxyAssumption, IInv, TypeOK, Located, Labels, After, Conns
<1>2. Located'
  BY DEF ProxyAssumption, IInv, TypeOK, Located, Conns
<1>3. Opened'
  BY DEF ProxyAssumption, IInv, TypeOK, Located, Opened, After, Conns, Opener
<1>4. Joined'
  BY DEF ProxyAssumption, IInv, TypeOK, Located, Joined, After, Conns, Opener
<1>5. ActivityHonest'
  BY DEF IInv, TypeOK, ActivityHonest
<1>6. ASSUME ~overlapped' PROVE Sole'
  <2>0. ~overlapped /\ Sole
    BY <1>6 DEF IInv
  <2>1. \A l \in Conns : Lives(l)' => Lives(l)
    BY <2>0 DEF ProxyAssumption, IInv, TypeOK, Located, Lives, Sole
  <2>2. OneAlive'
    BY <2>0, <2>1 DEF Sole, OneAlive
  <2>3. OwnTarget'
    BY <2>0 DEF IInv, TypeOK, Located, Sole, OneAlive, OwnTarget, Lives, ProxyAssumption
  <2>4. Opening'
    BY <2>0 DEF IInv, TypeOK, Located, Sole, OneAlive, Opening, Lives, Opened, Opener, Conns, ProxyAssumption, After
  <2>5. Carried'
    BY <2>0 DEF IInv, TypeOK, Located, Sole, Carried, Live, Opener, Conns, ProxyAssumption
  <2>6. NotTold'
    BY <2>0 DEF IInv, TypeOK, Located, Sole, OwnTarget, Opened, Joined, NotTold, After, Opener
  <2>7. Untold'
    BY <2>0 DEF IInv, TypeOK, Located, Sole, Untold, NotTold, OwnTarget, Works, Live, After, Conns
  <2>8. AtMostOnce'
    BY <2>0 DEF IInv, TypeOK, Located, Sole, AtMostOnce, Untold, OwnTarget, Works, Live
  <2>9. Ending'
    BY <2>0 DEF IInv, TypeOK, Located, Sole, Ending, Given, Live, Lives, OneAlive, OwnTarget
  <2>10. CleanupOut'
    BY <2>0 DEF IInv, TypeOK, Located, Sole, CleanupOut
  <2>11. NoneGone'
    BY <2>0 DEF IInv, TypeOK, Located, Sole, NoneGone, Works, Live, Carried, Opened, Joined, After, Opener, Ending, CleanupOut, OneAlive, Lives, OwnTarget
  <2>12. Served'
    BY <2>0, OpenerType DEF IInv, TypeOK, Located, Sole, Served, Serving, OneAlive, Lives
  <2> QED BY <2>2, <2>3, <2>4, <2>5, <2>6, <2>7, <2>8, <2>9, <2>10, <2>11, <2>12 DEF Sole
<1> QED BY <1>1, <1>2, <1>3, <1>4, <1>5, <1>6 DEF IInv

\* And takes it out of the table.
LEMMA RemoveCleanupKept ==
  ASSUME ProxyAssumption, IInv, NEW v \in Viewers, RemoveCleanup(v)
  PROVE  IInv'
<1> USE DEF RemoveCleanup, Goto, Forget, Cleanup
<1>1. TypeOK'
  BY DEF ProxyAssumption, IInv, TypeOK, Located, Labels, After, Conns
<1>2. Located'
  BY DEF ProxyAssumption, IInv, TypeOK, Located, Conns
<1>3. Opened'
  BY DEF ProxyAssumption, IInv, TypeOK, Located, Opened, After, Conns, Opener
<1>4. Joined'
  BY DEF ProxyAssumption, IInv, TypeOK, Located, Joined, After, Conns, Opener
<1>5. ActivityHonest'
  BY DEF IInv, TypeOK, ActivityHonest
<1>6. ASSUME ~overlapped' PROVE Sole'
  <2>0. ~overlapped /\ Sole
    BY <1>6 DEF IInv
  <2>1. \A l \in Conns : Lives(l)' => Lives(l)
    BY <2>0 DEF ProxyAssumption, IInv, TypeOK, Located, Lives, Sole
  <2>2. OneAlive'
    BY <2>0, <2>1 DEF Sole, OneAlive
  <2>3. OwnTarget'
    BY <2>0 DEF IInv, TypeOK, Located, Sole, OneAlive, OwnTarget, Lives, ProxyAssumption
  <2>4. Opening'
    BY <2>0 DEF IInv, TypeOK, Located, Sole, OneAlive, Opening, Lives, Opened, Opener, Conns, ProxyAssumption, After
  <2>5. Carried'
    BY <2>0 DEF IInv, TypeOK, Located, Sole, Carried, Live, Opener, Conns, ProxyAssumption
  <2>6. NotTold'
    BY <2>0 DEF IInv, TypeOK, Located, Sole, OwnTarget, Opened, Joined, NotTold, After, Opener
  <2>7. Untold'
    BY <2>0 DEF IInv, TypeOK, Located, Sole, Untold, NotTold, OwnTarget, Works, Live, After, Conns
  <2>8. AtMostOnce'
    BY <2>0 DEF IInv, TypeOK, Located, Sole, AtMostOnce, Untold, OwnTarget, Works, Live
  <2>9. Ending'
    BY <2>0 DEF IInv, TypeOK, Located, Sole, Ending, Given, Live, Lives, OneAlive, OwnTarget
  <2>10. CleanupOut'
    BY <2>0 DEF IInv, TypeOK, Located, Sole, CleanupOut
  <2>11. NoneGone'
    BY <2>0 DEF IInv, TypeOK, Located, Sole, NoneGone, Works, Live, Carried, Opened, Joined, After, Opener, Ending, CleanupOut, OneAlive, Lives, OwnTarget
  <2>12. Served'
    BY <2>0 DEF IInv, TypeOK, Located, Sole, Served, Ending, Given, OneAlive, Lives
  <2> QED BY <2>2, <2>3, <2>4, <2>5, <2>6, <2>7, <2>8, <2>9, <2>10, <2>11, <2>12 DEF Sole
<1> QED BY <1>1, <1>2, <1>3, <1>4, <1>5, <1>6 DEF IInv

\* The loop that read data is about to deliver it to the viewers it has.
LEMMA ReadDataKept ==
  ASSUME ProxyAssumption, IInv, NEW k \in Conns, ReadData(k)
  PROVE  IInv'
<1> USE DEF ReadData, Loops, LoopRest
<1>1. TypeOK'
  BY DEF ProxyAssumption, IInv, TypeOK, Located, Labels, After, Conns
<1>2. Located'
  BY DEF ProxyAssumption, IInv, TypeOK, Located, Conns
<1>3. Opened'
  BY DEF ProxyAssumption, IInv, TypeOK, Located, Opened, After, Conns, Opener
<1>4. Joined'
  BY DEF ProxyAssumption, IInv, TypeOK, Located, Joined, After, Conns, Opener
<1>5. ActivityHonest'
  BY DEF IInv, TypeOK, ActivityHonest
<1>6. ASSUME ~overlapped' PROVE Sole'
  <2>0. ~overlapped /\ Sole
    BY <1>6 DEF IInv
  <2>1. \A l \in Conns : Lives(l)' => Lives(l)
    BY <2>0 DEF ProxyAssumption, IInv, TypeOK, Located, Lives, Sole
  <2>2. OneAlive'
    BY <2>0, <2>1 DEF Sole, OneAlive
  <2>3. OwnTarget'
    BY <2>0 DEF IInv, TypeOK, Located, Sole, OneAlive, OwnTarget, Lives, ProxyAssumption
  <2>4. Opening'
    BY <2>0 DEF IInv, TypeOK, Located, Sole, OneAlive, Opening, Lives, Opened, Opener, Conns, ProxyAssumption, After
  <2>5. Carried'
    BY <2>0 DEF IInv, TypeOK, Located, Sole, Carried, Live, Opener, Conns, ProxyAssumption
  <2>6. NotTold'
    BY <2>0 DEF IInv, TypeOK, Located, Sole, OwnTarget, Opened, Joined, NotTold, After, Opener
  <2>7. Untold'
    BY <2>0 DEF IInv, TypeOK, Located, Sole, Untold, NotTold, OwnTarget, Works, Live, After, Conns
  <2>8. AtMostOnce'
    BY <2>0 DEF IInv, TypeOK, Located, Sole, AtMostOnce, Untold, OwnTarget, Works, Live
  <2>9. Ending'
    BY <2>0 DEF IInv, TypeOK, Located, Sole, Ending, Given, Live, Lives, OneAlive, OwnTarget
  <2>10. CleanupOut'
    BY <2>0 DEF IInv, TypeOK, Located, Sole, CleanupOut
  <2>11. NoneGone'
    BY <2>0 DEF IInv, TypeOK, Located, Sole, NoneGone, Works, Live, Carried, Opened, Joined, After, Opener, Ending, CleanupOut, OneAlive, Lives, OwnTarget
  <2>12. Served'
    BY <2>0 DEF IInv, TypeOK, Located, Sole, Served, Serving, OneAlive, Lives, OwnTarget
  <2> QED BY <2>2, <2>3, <2>4, <2>5, <2>6, <2>7, <2>8, <2>9, <2>10, <2>11, <2>12 DEF Sole
<1> QED BY <1>1, <1>2, <1>3, <1>4, <1>5, <1>6 DEF IInv

\* The loop that read an error is about to tell all its viewers.
LEMMA ReadErrorKept ==
  ASSUME ProxyAssumption, IInv, NEW k \in Conns, ReadError(k)
  PROVE  IInv'
<1> USE DEF ReadError, Loops, LoopRest
<1>1. TypeOK'
  BY DEF ProxyAssumption, IInv, TypeOK, Located, Labels, After, Conns
<1>2. Located'
  BY DEF ProxyAssumption, IInv, TypeOK, Located, Conns
<1>3. Opened'
  BY DEF ProxyAssumption, IInv, TypeOK, Located, Opened, After, Conns, Opener
<1>4. Joined'
  BY DEF ProxyAssumption, IInv, TypeOK, Located, Joined, After, Conns, Opener
<1>5. ActivityHonest'
  BY DEF IInv, TypeOK, ActivityHonest
<1>6. ASSUME ~overlapped' PROVE Sole'
  <2>0. ~overlapped /\ Sole
    BY <1>6 DEF IInv
  <2>1. \A l \in Conns : Lives(l)' => Lives(l)
    BY <2>0 DEF ProxyAssumption, IInv, TypeOK, Located, Lives, Sole
  <2>2. OneAlive'
    BY <2>0, <2>1 DEF Sole, OneAlive
  <2>3. OwnTarget'
    BY <2>0 DEF IInv, TypeOK, Located, Sole, OneAlive, OwnTarget, Lives, ProxyAssumption
  <2>4. Opening'
    BY <2>0 DEF IInv, TypeOK, Located, Sole, OneAlive, Opening, Lives, Opened, Opener, Conns, ProxyAssumption, After
  <2>5. Carried'
    BY <2>0 DEF IInv, TypeOK, Located, Sole, Carried, Live, Opener, Conns, ProxyAssumption
  <2>6. NotTold'
    BY <2>0 DEF IInv, TypeOK, Located, Sole, OwnTarget, Opened, Joined, NotTold, After, Opener
  <2>7. Untold'
    BY <2>0 DEF IInv, TypeOK, Located, Sole, Untold, NotTold, OwnTarget, Works, Live, After, Conns
  <2>8. AtMostOnce'
    BY <2>0 DEF IInv, TypeOK, Located, Sole, AtMostOnce, Untold, OwnTarget, Works, Live
  <2>9. Ending'
    BY <2>0 DEF IInv, TypeOK, Located, Sole, Ending, Given, Live, Lives, OneAlive, OwnTarget
  <2>10. CleanupOut'
    BY <2>0 DEF IInv, TypeOK, Located, Sole, CleanupOut
  <2>11. NoneGone'
    BY <2>0 DEF IInv, TypeOK, Located, Sole, NoneGone, Works, Live, Carried, Opened, Joined, After, Opener, Ending, CleanupOut, OneAlive, Lives, OwnTarget
  <2>12. Served'
    BY <2>0 DEF IInv, TypeOK, Located, Sole, Served, Serving, OneAlive, Lives, OwnTarget
  <2> QED BY <2>2, <2>3, <2>4, <2>5, <2>6, <2>7, <2>8, <2>9, <2>10, <2>11, <2>12 DEF Sole
<1> QED BY <1>1, <1>2, <1>3, <1>4, <1>5, <1>6 DEF IInv

\* It tells each of them once, and forgets them.
LEMMA notifyAllClientsKept ==
  ASSUME ProxyAssumption, IInv, NEW k \in Conns, notifyAllClients(k)
  PROVE  IInv'
<1> USE DEF notifyAllClients, Loops, LoopForgets, LoopRest
<1>1. TypeOK'
  BY DEF ProxyAssumption, IInv, TypeOK, Located, Labels, After, Conns
<1>2. Located'
  BY DEF ProxyAssumption, IInv, TypeOK, Located, Conns
<1>3. Opened'
  BY DEF ProxyAssumption, IInv, TypeOK, Located, Opened, After, Conns, Opener
<1>4. Joined'
  BY DEF ProxyAssumption, IInv, TypeOK, Located, Joined, After, Conns, Opener
<1>5. ActivityHonest'
  BY DEF IInv, TypeOK, ActivityHonest
<1>6. ASSUME ~overlapped' PROVE Sole'
  <2>0. ~overlapped /\ Sole
    BY <1>6 DEF IInv
  <2>1. \A l \in Conns : Lives(l)' => Lives(l)
    BY <2>0 DEF ProxyAssumption, IInv, TypeOK, Located, Lives, Sole
  <2>2. OneAlive'
    BY <2>0, <2>1 DEF Sole, OneAlive
  <2>3. OwnTarget'
    BY <2>0 DEF IInv, TypeOK, Located, Sole, OneAlive, OwnTarget, Lives, ProxyAssumption
  <2>4. Opening'
    BY <2>0 DEF IInv, TypeOK, Located, Sole, OneAlive, Opening, Lives, Opened, Opener, Conns, ProxyAssumption, After
  <2>5. Carried'
    BY <2>0 DEF IInv, TypeOK, Located, Sole, Carried, Live, Opener, Conns, ProxyAssumption
  <2>6. NotTold'
    BY <2>0 DEF IInv, TypeOK, Located, Sole, OwnTarget, Opened, Joined, NotTold, After, Opener
  <2>7. Untold'
    BY <2>0 DEF IInv, TypeOK, Located, Sole, Untold, Works, Live, OneAlive, Lives, OwnTarget
  <2>8. AtMostOnce'
    BY <2>0 DEF IInv, TypeOK, Located, Sole, AtMostOnce, Untold, OwnTarget, Works, Live
  <2>9. Ending'
    BY <2>0 DEF IInv, TypeOK, Located, Sole, Ending, Given, Live, Lives, OneAlive, OwnTarget
  <2>10. CleanupOut'
    BY <2>0 DEF IInv, TypeOK, Located, Sole, CleanupOut
  <2>11. NoneGone'
    BY <2>0 DEF IInv, TypeOK, Located, Sole, NoneGone, Works, Live, Carried, Opened, Joined, After, Opener, Ending, CleanupOut, OneAlive, Lives, OwnTarget
  <2>12. Served'
    BY <2>0 DEF IInv, TypeOK, Located, Sole, Served, Serving, OneAlive, Lives, OwnTarget
  <2> QED BY <2>2, <2>3, <2>4, <2>5, <2>6, <2>7, <2>8, <2>9, <2>10, <2>11, <2>12 DEF Sole
<1> QED BY <1>1, <1>2, <1>3, <1>4, <1>5, <1>6 DEF IInv

\* A delivery drops the viewers that cannot be written to, and ends the
\* connection when none is left.
LEMMA DeliverKept ==
  ASSUME ProxyAssumption, IInv, NEW k \in Conns, NEW bad \in SUBSET Viewers, Deliver(k, bad)
  PROVE  IInv'
<1> USE DEF Deliver, Loops, LoopForgets, LoopRest
<1>1. TypeOK'
  BY DEF ProxyAssumption, IInv, TypeOK, Located, Labels, After, Conns
<1>2. Located'
  BY DEF ProxyAssumption, IInv, TypeOK, Located, Conns
<1>3. Opened'
  BY DEF ProxyAssumption, IInv, TypeOK, Located, Opened, After, Conns, Opener
<1>4. Joined'
  BY DEF ProxyAssumption, IInv, TypeOK, Located, Joined, After, Conns, Opener
<1>5. ActivityHonest'
  BY DEF IInv, TypeOK, ActivityHonest
<1>6. ASSUME ~overlapped' PROVE Sole'
  <2>0. ~overlapped /\ Sole
    BY <1>6 DEF IInv
  <2>1. \A l \in Conns : Lives(l)' => Lives(l)
    BY <2>0 DEF ProxyAssumption, IInv, TypeOK, Located, Lives, Sole
  <2>2. OneAlive'
    BY <2>0, <2>1 DEF Sole, OneAlive
  <2>3. OwnTarget'
    BY <2>0 DEF IInv, TypeOK, Located, Sole, OneAlive, OwnTarget, Lives, ProxyAssumption
  <2>4. Opening'
    BY <2>0 DEF IInv, TypeOK, Located, Sole, OneAlive, Opening, Lives, Opened, Opener, Conns, ProxyAssumption, After
  <2>5. Carried'
    BY <2>0 DEF IInv, TypeOK, Located, Sole, Carried, Live, Opener, Conns, ProxyAssumption
  <2>6. NotTold'
    BY <2>0 DEF IInv, TypeOK, Located, Sole, OwnTarget, Opened, Joined, NotTold, After, Opener
  <2>7. Untold'
    BY <2>0 DEF IInv, TypeOK, Located, Sole, Untold, Works, Live, OneAlive, Lives, OwnTarget
  <2>8. AtMostOnce'
    BY <2>0 DEF IInv, TypeOK, Located, Sole, AtMostOnce, Untold, OwnTarget, Works, Live
  <2>9. Ending'
    BY <2>0 DEF IInv, TypeOK, Located, Sole, Ending, Given, Live, Lives, OneAlive, OwnTarget
  <2>10. CleanupOut'
    BY <2>0 DEF IInv, TypeOK, Located, Sole, CleanupOut
  <2>11. NoneGone'
    BY <2>0 DEF IInv, TypeOK, Located, Sole, NoneGone, Works, Live, Carried, Opened, Joined, After, Opener, Ending, CleanupOut, OneAlive, Lives, OwnTarget
  <2>12. Served'
    BY <2>0 DEF IInv, TypeOK, Located, Sole, Served, Serving, OneAlive, Lives, OwnTarget
  <2> QED BY <2>2, <2>3, <2>4, <2>5, <2>6, <2>7, <2>8, <2>9, <2>10, <2>11, <2>12 DEF Sole
<1> QED BY <1>1, <1>2, <1>3, <1>4, <1>5, <1>6 DEF IInv

\* The loop closes its connection and takes it out of the table.
LEMMA LoopExitKept ==
  ASSUME ProxyAssumption, IInv, NEW k \in Conns, LoopExit(k)
  PROVE  IInv'
<1> USE DEF LoopExit, Loops, Cleanup
<1>1. TypeOK'
  BY DEF ProxyAssumption, IInv, TypeOK, Located, Labels, After, Conns
<1>2. Located'
  BY DEF ProxyAssumption, IInv, TypeOK, Located, Conns
<1>3. Opened'
  BY DEF ProxyAssumption, IInv, TypeOK, Located, Opened, After, Conns, Opener
<1>4. Joined'
  BY DEF ProxyAssumption, IInv, TypeOK, Located, Joined, After, Conns, Opener
<1>5. ActivityHonest'
  BY DEF IInv, TypeOK, ActivityHonest
<1>6. ASSUME ~overlapped' PROVE Sole'
  <2>0. ~overlapped /\ Sole
    BY <1>6 DEF IInv
  <2>1. \A l \in Conns : Lives(l)' => Lives(l)
    BY <2>0 DEF ProxyAssumption, IInv, TypeOK, Located, Lives, Sole
  <2>2. OneAlive'
    BY <2>0, <2>1 DEF Sole, OneAlive
  <2>3. OwnTarget'
    BY <2>0 DEF IInv, TypeOK, Located, Sole, OneAlive, OwnTarget, Lives, ProxyAssumption
  <2>4. Opening'
    BY <2>0 DEF IInv, TypeOK, Located, Sole, OneAlive, Opening, Lives, Opened, Opener, Conns, ProxyAssumption, After
  <2>5. Carried'
    BY <2>0 DEF IInv, TypeOK, Located, Sole, Carried, Live, Opener, Conns, ProxyAssumption
  <2>6. NotTold'
    BY <2>0 DEF IInv, TypeOK, Located, Sole, OwnTarget, Opened, Joined, NotTold, After, Opener
  <2>7. Untold'
    BY <2>0 DEF IInv, TypeOK, Located, Sole, Untold, NotTold, OwnTarget, Works, Live, After, Conns
  <2>8. AtMostOnce'
    BY <2>0 DEF IInv, TypeOK, Located, Sole, AtMostOnce, Untold, OwnTarget, Works, Live
  <2>9. Ending'
    BY <2>0 DEF IInv, TypeOK, Located, Sole, Ending, Given, Live, Lives, OneAlive, OwnTarget
  <2>10. CleanupOut'
    BY <2>0 DEF IInv, TypeOK, Located, Sole, CleanupOut
  <2>11. NoneGone'
    BY <2>0 DEF IInv, TypeOK, Located, Sole, NoneGone, Works, Live, Carried, Opened, Joined, After, Opener, Ending, CleanupOut, OneAlive, Lives, OwnTarget
  <2>12. Served'
    BY <2>0 DEF IInv, TypeOK, Sole, Served, Ending, Live, OneAlive, Lives
  <2> QED BY <2>2, <2>3, <2>4, <2>5, <2>6, <2>7, <2>8, <2>9, <2>10, <2>11, <2>12 DEF Sole
<1> QED BY <1>1, <1>2, <1>3, <1>4, <1>5, <1>6 DEF IInv

-----------------------------------------------------------------------------
\* A step that changes nothing of the proxy keeps the invariant.
LEMMA StutterKept == IInv /\ UNCHANGED proxyVars => IInv'
<1> USE DEF proxyVars
<1>1. ASSUME IInv, UNCHANGED proxyVars PROVE TypeOK' /\ Located' /\ Opened' /\ Joined' /\ ActivityHonest'
  BY <1>1 DEF IInv, TypeOK, Located, Opened, Joined, ActivityHonest
<1>2. ASSUME IInv, UNCHANGED proxyVars, Sole PROVE Sole'
  <2>1. OneAlive' /\ OwnTarget' /\ Opening' /\ Carried'
    BY <1>2 DEF Sole, OneAlive, OwnTarget, Opening, Carried, Lives, Live
  <2>2. NotTold' /\ Untold' /\ AtMostOnce'
    BY <1>2 DEF Sole, NotTold, Untold, AtMostOnce, Works, Live
  <2>3. Ending' /\ CleanupOut' /\ NoneGone' /\ Served'
    BY <1>2 DEF Sole, Ending, CleanupOut, NoneGone, Served, Works, Live, Given, Serving
  <2> QED BY <2>1, <2>2, <2>3 DEF Sole
<1> QED BY <1>1, <1>2 DEF IInv

\* Before the first request nothing is open and nobody waits.
LEMMA InitIInv == ProxyInit => IInv
<1> SUFFICES ASSUME ProxyInit PROVE IInv
  OBVIOUS
<1> USE DEF ProxyInit
<1>1. TypeOK /\ Located /\ Opened /\ Joined /\ ActivityHonest
  BY DEF TypeOK, Located, Opened, Joined, ActivityHonest, Labels, After
<1>2. ASSUME ProxyAssumption PROVE Sole
  <2>1. \A k \in Conns : ~Lives(k) /\ ~Live(k) /\ ~Given(k)
    BY <1>2 DEF ProxyAssumption, Lives, Live, Given
  <2>2. OneAlive /\ OwnTarget /\ Opening /\ Carried
    BY <1>2, <2>1 DEF ProxyAssumption, OneAlive, OwnTarget, Opening, Carried
  <2>3. NotTold /\ Untold /\ AtMostOnce
    BY DEF NotTold, Untold, AtMostOnce
  <2>4. Ending /\ CleanupOut /\ NoneGone /\ Served
    BY DEF Ending, CleanupOut, NoneGone, Served, Live, Given
  <2> QED BY <2>2, <2>3, <2>4 DEF Sole
<1> QED BY <1>1, <1>2, ProxyAssumption DEF IInv

\* Every step of a viewer or of a loop keeps the invariant.
LEMMA NextIInv == IInv /\ [ProxyNext]_proxyVars => IInv'
<1> SUFFICES ASSUME IInv, [ProxyNext]_proxyVars PROVE IInv'
  OBVIOUS
<1>1. CASE \E v \in Viewers : ProxyStream(v) \/ ProxyRawStream(v)
  BY <1>1, ProxyAssumption, ProxyStreamKept, ProxyRawStreamKept
<1>2. ASSUME NEW v \in Viewers, ViewerSteps(v) PROVE IInv'
  <2>1. CASE tryJoinExisting(v) \/ AppendClient(v)
    BY <2>1, ProxyAssumption, tryJoinExistingKept, AppendClientKept
  <2>2. CASE startUpstream(v) \/ openUpstream(v) \/ openUpstreamFails(v) \/ AllStreamsFailed(v)
    BY <2>2, ProxyAssumption, startUpstreamKept, openUpstreamKept, openUpstreamFailsKept,
       AllStreamsFailedKept
  <2>3. CASE Told(v) \/ Leave(v) \/ RemoveLookup(v)
    BY <2>3, ProxyAssumption, WakeKept, RemoveLookupKept DEF Told, Leave
  <2>4. CASE removeClient(v) \/ RemoveCleanup(v) \/ copyToClient(v)
    BY <2>4, ProxyAssumption, removeClientKept, RemoveCleanupKept, copyToClientKept
  <2> QED BY <1>2, <2>1, <2>2, <2>3, <2>4 DEF ViewerSteps
<1>3. ASSUME NEW k \in Conns, proxyLoop(k) PROVE IInv'
  <2>1. CASE ReadData(k) \/ ReadError(k) \/ notifyAllClients(k) \/ LoopExit(k)
    BY <2>1, ProxyAssumption, ReadDataKept, ReadErrorKept, notifyAllClientsKept, LoopExitKept
  <2>2. CASE \E bad \in SUBSET Viewers : Deliver(k, bad)
    BY <2>2, ProxyAssumption, DeliverKept
  <2> QED BY <1>3, <2>1, <2>2 DEF proxyLoop
<1>4. CASE UNCHANGED proxyVars
  BY <1>4, StutterKept
<1> QED BY <1>1, <1>2, <1>3, <1>4 DEF ProxyNext

\* While connections do not overlap, a loop delivers to the clients of its
\* own connection, and none of those has returned.
LEMMA IInvServes == IInv => ViewersServed
<1> SUFFICES ASSUME IInv PROVE ViewersServed
  OBVIOUS
<1>1. ClosedOnce
  BY DEF IInv, Sole, AtMostOnce, ClosedOnce
<1>2. ServedOrTold
  BY DEF IInv, TypeOK, Sole, Served, ServedOrTold
<1>3. DeliversOwn
  BY DEF IInv, Sole, OwnTarget, NoneGone, Works, Live, DeliversOwn
<1>4. ActivityHonest
  BY DEF IInv
<1> QED BY <1>1, <1>2, <1>3, <1>4 DEF ViewersServed

\* A viewer of a shared connection is told once that it is over, and until
\* then it is a client of the channel's connection and gets its data, as long
\* as connections follow each other and it did not join too late.
THEOREM ViewersAreServed == ProxySpec => []ViewersServed
<1>1. ProxySpec => []IInv
  BY InitIInv, NextIInv, PTL DEF ProxySpec
<1> QED BY <1>1, IInvServes, PTL

-----------------------------------------------------------------------------
(***************************************************************************)
(* Readers of a file that grows and is replaced by a seek (Tail).          *)
(***************************************************************************)

TailLabels == {"idle", "open", "absent", "read", "data", "end", "eof", "error"}
Reader == [pc : TailLabels, tries : Nat, version : Nat, offset : Nat, seen : Nat, last : Nat, left : BOOLEAN]

TailTypes ==
  /\ file \in Seq(Nat) /\ version \in Nat
  /\ isDone \in BOOLEAN /\ isFailed \in BOOLEAN
  /\ viewer \in [Readers -> Reader]

\* Writes are of the past.
WritesKnown == \A i \in 1..Len(file) : file[i] <= version

\* A reader is within the file, what it has still to read is not older than
\* the seek it has seen, and it looks for the end only when it has read all.
Following ==
  \A v \in Readers :
    /\ viewer[v].version <= version /\ viewer[v].offset <= Len(file)
    /\ \A i \in 1..Len(file) : i > viewer[v].offset => file[i] >= viewer[v].version
    /\ viewer[v].pc \in {"end", "eof"} => viewer[v].offset = viewer[v].seen

TailIInv == TailTypes /\ WritesKnown /\ Following

-----------------------------------------------------------------------------
\* Before the first read there is an empty file and nobody reads.
LEMMA TailStart == TailInit => TailIInv
<1> SUFFICES ASSUME TailInit PROVE TailIInv
  OBVIOUS
<1>1. TailTypes
  <2>1. NewViewer \in Reader
    BY DEF NewViewer, Reader, TailLabels
  <2>2. << >> \in Seq(Nat)
    OBVIOUS
  <2> QED BY <2>1, <2>2 DEF TailInit, TailTypes
<1>2. WritesKnown /\ Following
  BY DEF TailInit, WritesKnown, Following, NewViewer
<1> QED BY <1>1, <1>2 DEF TailIInv

\* What the pipeline writes is of now.
LEMMA WriterKeeps ==
  ASSUME TailIInv, WriteFile \/ MarkDone \/ Seek
  PROVE  TailIInv'
<1> USE DEF TailIInv
<1>0. \A v \in Readers : viewer[v].version \in Nat /\ viewer[v].offset \in Nat
  BY DEF TailTypes, Reader
<1>1. CASE WriteFile
  <2>0. /\ file' = Append(file, version) /\ version' = version /\ viewer' = viewer
        /\ isDone' = isDone /\ isFailed' = isFailed
    BY <1>1 DEF WriteFile
  <2>1. /\ Len(file') = Len(file) + 1 /\ file' \in Seq(Nat)
        /\ \A i \in 1..Len(file') : file'[i] = IF i <= Len(file) THEN file[i] ELSE version
    BY <2>0 DEF TailTypes
  <2>2. TailTypes'
    BY <2>0, <2>1 DEF TailTypes
  <2>3. WritesKnown'
    BY <2>0, <2>1 DEF TailTypes, WritesKnown
  <2>4. Following'
    BY <2>0, <2>1, <1>0 DEF TailTypes, Following
  <2> QED BY <2>2, <2>3, <2>4
<1>2. CASE MarkDone
  BY <1>2 DEF MarkDone, TailTypes, WritesKnown, Following
<1>3. CASE Seek
  <2>1. /\ version' = version + 1 /\ file' = file /\ viewer' = viewer /\ isDone' = isDone /\ isFailed' = isFailed
        /\ \A i \in 1..Len(file) : file[i] \in Nat
    BY <1>3 DEF Seek, TailTypes
  <2>2. TailTypes' /\ WritesKnown'
    BY <2>1 DEF TailTypes, WritesKnown
  <2>3. Following'
    BY <2>1, <1>0 DEF TailTypes, Following
  <2> QED BY <2>2, <2>3
<1> QED BY <1>1, <1>2, <1>3

\* A step of a viewer replaces its own record.
LEMMA OneReader ==
  ASSUME TailIInv, NEW v \in Readers, UNCHANGED <<file, isDone, isFailed, version>>,
         viewer' = [viewer EXCEPT ![v] = viewer'[v]], viewer'[v] \in Reader,
         viewer'[v].version <= version, viewer'[v].offset <= Len(file),
         \A i \in 1..Len(file) : i > viewer'[v].offset => file[i] >= viewer'[v].version,
         viewer'[v].pc \in {"end", "eof"} => viewer'[v].offset = viewer'[v].seen
  PROVE  TailIInv'
<1> USE DEF TailIInv, TailTypes
<1>1. \A u \in Readers : viewer'[u] = IF u = v THEN viewer'[v] ELSE viewer[u]
  OBVIOUS
<1>2. TailTypes' /\ WritesKnown'
  BY DEF WritesKnown
<1>3. Following'
  BY <1>1 DEF Following
<1> QED BY <1>2, <1>3

\* What a viewer holds is in the file, or was.
LEMMA ReaderKeeps ==
  ASSUME TailIInv, NEW v \in Readers, TailFile(v) \/ ReaderSteps(v) \/ LeaveTail(v)
  PROVE  TailIInv'
<1> DEFINE r == viewer[v]
           s == viewer'[v]
<1>0. /\ r \in Reader /\ version \in Nat /\ file \in Seq(Nat) /\ Len(file) \in Nat
      /\ r.tries \in Nat /\ r.version \in Nat /\ r.offset \in Nat
      /\ r.version <= version /\ r.offset <= Len(file)
      /\ \A i \in 1..Len(file) : i > r.offset => file[i] >= r.version
      /\ r.pc \in {"end", "eof"} => r.offset = r.seen
      /\ \A i \in 1..Len(file) : file[i] \in Nat
  BY DEF TailIInv, TailTypes, Following, Reader
<1>a. \A w : viewer' = [viewer EXCEPT ![v] = w] => viewer' = [viewer EXCEPT ![v] = s] /\ s = w
  BY DEF TailIInv, TailTypes
<1>b. UNCHANGED <<file, isDone, isFailed, version>>
  BY DEF TailFile, ReaderSteps, LeaveTail, newTailReader, NoFileYet, WaitForFile, GiveUp, SeeVersion, ReadFile, SeeDone
<1>1. CASE TailFile(v)
  <2>1. viewer' = [viewer EXCEPT ![v] = s] /\ s = [r EXCEPT !.pc = "open"]
    BY <1>1, <1>a DEF TailFile, Move
  <2>2. s \in Reader /\ s.version = r.version /\ s.offset = r.offset /\ s.pc = "open"
    BY <2>1, <1>0 DEF Reader, TailLabels
  <2> QED BY <2>1, <2>2, <1>0, <1>b, OneReader
<1>2. CASE newTailReader(v)
  <2>1. /\ viewer' = [viewer EXCEPT ![v] = s]
        /\ s = [r EXCEPT !.pc = "read", !.version = version, !.offset = IF version > 0 THEN Len(file) ELSE 0]
    BY <1>2, <1>a DEF newTailReader, Move
  <2>2. s \in Reader /\ s.version = version /\ s.pc = "read" /\ s.offset = IF version > 0 THEN Len(file) ELSE 0
    <3>1. (IF version > 0 THEN Len(file) ELSE 0) \in Nat
      BY <1>0
    <3> QED BY <2>1, <3>1, <1>0 DEF Reader, TailLabels
  <2>3. /\ s.version <= version /\ s.offset <= Len(file)
        /\ \A i \in 1..Len(file) : i > s.offset => file[i] >= s.version
    BY <2>2, <1>0
  <2> QED BY <2>1, <2>2, <2>3, <1>0, <1>b, OneReader
<1>3. CASE NoFileYet(v)
  <2>1. viewer' = [viewer EXCEPT ![v] = s] /\ s = [r EXCEPT !.pc = "absent"]
    BY <1>3, <1>a DEF NoFileYet, Move
  <2>2. s \in Reader /\ s.version = r.version /\ s.offset = r.offset /\ s.pc = "absent"
    BY <2>1, <1>0 DEF Reader, TailLabels
  <2> QED BY <2>1, <2>2, <1>0, <1>b, OneReader
<1>4. CASE WaitForFile(v)
  <2>1. /\ viewer' = [viewer EXCEPT ![v] = s]
        /\ \/ s = [r EXCEPT !.pc = "error"]
           \/ s = [r EXCEPT !.pc = "open", !.tries = r.tries + 1]
    BY <1>4, <1>a, <1>0 DEF WaitForFile, Move, Reader
  <2>2. s \in Reader /\ s.version = r.version /\ s.offset = r.offset /\ s.pc \in {"error", "open"}
    <3>1. CASE s = [r EXCEPT !.pc = "error"]
      BY <3>1, <1>0 DEF Reader, TailLabels
    <3>2. CASE s = [r EXCEPT !.pc = "open", !.tries = r.tries + 1]
      <4>1. r.tries + 1 \in Nat
        BY <1>0
      <4> QED BY <3>2, <4>1, <1>0 DEF Reader, TailLabels
    <3> QED BY <2>1, <3>1, <3>2
  <2> QED BY <2>1, <2>2, <1>0, <1>b, OneReader
<1>5. CASE GiveUp(v)
  <2>1. viewer' = [viewer EXCEPT ![v] = s] /\ s = [r EXCEPT !.pc = "error"]
    BY <1>5, <1>a DEF GiveUp, Move
  <2>2. s \in Reader /\ s.version = r.version /\ s.offset = r.offset /\ s.pc = "error"
    BY <2>1, <1>0 DEF Reader, TailLabels
  <2> QED BY <2>1, <2>2, <1>0, <1>b, OneReader
<1>6. CASE SeeVersion(v)
  <2>1. /\ viewer' = [viewer EXCEPT ![v] = s]
        /\ s = [r EXCEPT !.pc = "data", !.version = version, !.offset = IF version # r.version THEN Len(file) ELSE r.offset]
    BY <1>6, <1>a DEF SeeVersion, Move
  <2>2. s \in Reader /\ s.version = version /\ s.pc = "data" /\ s.offset = IF version # r.version THEN Len(file) ELSE r.offset
    BY <2>1, <1>0 DEF Reader, TailLabels
  <2>3. /\ s.version <= version /\ s.offset <= Len(file)
        /\ \A i \in 1..Len(file) : i > s.offset => file[i] >= s.version
    BY <2>2, <1>0
  <2> QED BY <2>1, <2>2, <2>3, <1>0, <1>b, OneReader
<1>7. CASE ReadFile(v) /\ r.offset < Len(file)
  <2>0. r.offset + 1 \in Nat /\ r.offset + 1 \in 1..Len(file) /\ file[r.offset + 1] \in Nat
    BY <1>0, <1>7
  <2>1. /\ viewer' = [viewer EXCEPT ![v] = s]
        /\ s = [r EXCEPT !.pc = "read", !.offset = r.offset + 1, !.seen = Len(file), !.last = file[r.offset + 1]]
    BY <1>7, <1>a DEF ReadFile, Move
  <2>2. s \in Reader /\ s.version = r.version /\ s.offset = r.offset + 1 /\ s.pc = "read"
    BY <2>0, <2>1, <1>0 DEF Reader, TailLabels
  <2>3. s.offset <= Len(file) /\ \A i \in 1..Len(file) : i > s.offset => file[i] >= s.version
    BY <2>0, <2>2, <1>0
  <2> QED BY <2>1, <2>2, <2>3, <1>0, <1>b, OneReader
<1>8. CASE ReadFile(v) /\ ~(r.offset < Len(file))
  <2>1. viewer' = [viewer EXCEPT ![v] = s] /\ s = [r EXCEPT !.pc = "end", !.seen = Len(file)]
    BY <1>8, <1>a DEF ReadFile, Move
  <2>2. s \in Reader /\ s.version = r.version /\ s.offset = r.offset /\ s.seen = Len(file)
    BY <2>1, <1>0 DEF Reader, TailLabels
  <2>3. r.offset = Len(file)
    BY <1>0, <1>8
  <2> QED BY <2>1, <2>2, <2>3, <1>0, <1>b, OneReader
<1>9. CASE SeeDone(v)
  <2>1. /\ viewer' = [viewer EXCEPT ![v] = s] /\ r.pc = "end"
        /\ s = [r EXCEPT !.pc = CASE isDone -> "eof" [] ~isDone /\ r.left -> "error" [] OTHER -> "read"]
    BY <1>9, <1>a DEF SeeDone, Move
  <2>2. s \in Reader /\ s.version = r.version /\ s.offset = r.offset /\ s.seen = r.seen
    BY <2>1, <1>0 DEF Reader, TailLabels
  <2> QED BY <2>1, <2>2, <1>0, <1>b, OneReader
<1>10. CASE LeaveTail(v)
  <2>1. viewer' = [viewer EXCEPT ![v] = s] /\ s = [r EXCEPT !.left = TRUE]
    BY <1>10 DEF LeaveTail, TailIInv, TailTypes, Reader
  <2>2. s \in Reader /\ s.version = r.version /\ s.offset = r.offset /\ s.seen = r.seen /\ s.pc = r.pc
    BY <2>1, <1>0 DEF Reader
  <2> QED BY <2>1, <2>2, <1>0, <1>b, OneReader
<1> QED BY <1>1, <1>2, <1>3, <1>4, <1>5, <1>6, <1>7, <1>8, <1>9, <1>10 DEF ReaderSteps

\* Every step of the writer or of a reader keeps the invariant.
LEMMA TailKeeps == TailIInv /\ [TailNext]_tailVars => TailIInv'
<1> SUFFICES ASSUME TailIInv, [TailNext]_tailVars PROVE TailIInv'
  OBVIOUS
<1>1. CASE UNCHANGED tailVars
  BY <1>1 DEF tailVars, TailIInv, TailTypes, WritesKnown, Following
<1> QED BY <1>1, WriterKeeps, ReaderKeeps DEF TailNext

\* TailReader.Read reports the end only to a reader that has delivered all there was when
\* it last looked, whatever is written or sought meanwhile.
THEOREM ReadersReachTheEnd == TailSpec => []ReadToTheEnd
<1>1. TailIInv => ReadToTheEnd
  BY DEF TailIInv, TailTypes, Following, ReadToTheEnd
<1> QED BY <1>1, TailStart, TailKeeps, PTL DEF TailSpec

\* A reader that has seen a seek delivers nothing from before it.
THEOREM SeeksAreHeeded == TailSpec => NothingOlder
<1> DEFINE Newer == \A v \in Readers : viewer[v].pc = "data" /\ viewer'[v].pc = "read" =>
                      viewer'[v].last >= viewer[v].version
<1>1. TailIInv /\ [TailNext]_tailVars => [Newer]_tailVars
  <2> SUFFICES ASSUME TailIInv, TailNext, NEW v \in Readers,
                      viewer[v].pc = "data", viewer'[v].pc = "read"
               PROVE  viewer'[v].last >= viewer[v].version
    BY DEF tailVars
  <2>1. CASE WriteFile \/ MarkDone \/ Seek
    BY <2>1 DEF WriteFile, MarkDone, Seek
  <2>2. ASSUME NEW u \in Readers, TailFile(u) \/ ReaderSteps(u) \/ LeaveTail(u)
        PROVE  ReadFile(v)
    <3>1. \A w : viewer' = [viewer EXCEPT ![u] = w] => viewer'[v] = IF v = u THEN w ELSE viewer[v]
      BY DEF TailIInv, TailTypes
    <3>2. u = v
      BY <2>2, <3>1 DEF TailFile, ReaderSteps, newTailReader, NoFileYet, WaitForFile, GiveUp, SeeVersion, ReadFile, SeeDone, Move, LeaveTail
    <3> QED BY <2>2, <3>2 DEF TailFile, ReaderSteps, newTailReader, NoFileYet, WaitForFile, GiveUp, SeeVersion, SeeDone, Move, LeaveTail, TailIInv, TailTypes, Reader
  <2>3. CASE ReadFile(v)
    <3> DEFINE r == viewer[v]
    <3>0. /\ r \in Reader /\ r.offset \in Nat /\ Len(file) \in Nat
          /\ \A i \in 1..Len(file) : i > r.offset => file[i] >= r.version
      BY DEF TailIInv, TailTypes, Following, Reader
    <3>1. CASE r.offset < Len(file)
      <4>1. viewer'[v].last = file[r.offset + 1]
        BY <2>3, <3>0, <3>1 DEF ReadFile, Move, TailIInv, TailTypes, Reader
      <4> QED BY <4>1, <3>0, <3>1
    <3>2. CASE ~(r.offset < Len(file))
      BY <2>3, <3>0, <3>2 DEF ReadFile, Move, TailIInv, TailTypes, Reader
    <3> QED BY <3>1, <3>2
  <2> QED BY <2>1, <2>2, <2>3 DEF TailNext
<1>2. TailIInv /\ [TailNext]_tailVars => TailIInv'
  BY TailKeeps
<1> QED BY <1>1, <1>2, TailStart, PTL DEF TailSpec, NothingOlder

-----------------------------------------------------------------------------
(***************************************************************************)
(* A source read with retries, reconnects and seeks (Demux).               *)
(***************************************************************************)

DemuxPhases == {"open", "build", "watch", "begin", "loop", "read", "got", "sleep", "stop", "close", "ended"}
Reading == {"build", "watch", "begin", "loop", "read", "got"}
Unended == {"open", "build", "watch", "begin", "loop", "read", "got", "sleep"}

DemuxTypes ==
  /\ source \in Sources /\ demuxPhase \in DemuxPhases
  /\ basePTS \in Int /\ pos \in Int /\ lastPTS \in Int
  /\ ended \in [eof : BOOLEAN, demuxErr : BOOLEAN, error : BOOLEAN]
  /\ seekCh \in Seq([by : Seekers, at : {0, Frames}])

\* The input is open while it is read, and it is not before; the sink is made
\* by the pipeline and stopped before the input is closed.
InputOpen ==
  /\ demuxPhase \in Reading => fc
  /\ demuxPhase \in {"open", "ended"} => ~fc
  /\ demuxPhase \in {"open", "build"} => sink = "none"
  /\ demuxPhase \in {"close", "ended"} => sink # "open"

\* A goroutine that ends has a reason, and one that goes on has none.
Reasons ==
  /\ demuxPhase \in Unended => ~ended.eof /\ ~ended.demuxErr /\ ~ended.error
  /\ demuxPhase = "stop" => (ended.eof \/ ended.demuxErr \/ ctx) /\ ~ended.error
  /\ ~(ended.eof /\ ended.demuxErr) /\ ~(ended.eof /\ ended.error)
  /\ demuxPhase \in {"close", "ended"} => ended.eof \/ ended.error \/ ctx

\* After a seek the time stamps are positions.
Positions ==
  /\ sought => basePTS = 0
  /\ demuxPhase = "got" /\ sought => pkt.pts = pkt.raw

\* The next packet's time stamp, unless the source is stamped anew.
NextAtLeast(t) == IF basePTS >= 0 THEN t <= pos - basePTS ELSE t <= 0

\* The packet that was read does not go back behind the last one pushed, nor
\* the next one behind it.
Onward ==
  /\ demuxPhase = "got" => /\ pkt.pts \in Int /\ NextAtLeast(pkt.pts)
                           /\ ~restarted => lastPTS <= pkt.pts
  /\ ~restarted => NextAtLeast(lastPTS)
  /\ demuxPhase \in {"open", "build", "watch", "begin"} => restarted

DemuxIInv == DemuxTypes /\ InputOpen /\ Reasons /\ Positions /\ Onward

-----------------------------------------------------------------------------
\* A frame that comes later has a time stamp that is not less.
LEMMA LaterIsMore ==
  \A p, q, b, t \in Int : q >= p => /\ 0 <= q - p /\ (t <= 0 => t <= q - p)
                                    /\ p - b <= q - b /\ (t <= p - b => t <= q - b)
OBVIOUS

\* The invariant holds at first.
LEMMA DemuxStart == DemuxInit => DemuxIInv
BY DemuxAssumption DEF DemuxInit, DemuxIInv, DemuxTypes, DemuxPhases, InputOpen, Reading, Unended,
   Reasons, Positions, Onward

\* The steps that open the source and make the pipeline keep it.
LEMMA OpeningKeeps ==
  ASSUME DemuxIInv, NewDemuxSession \/ NewDemuxSessionFails \/ MakePipelineFails \/ WatchOutput
                    \/ WatchOutputFails \/ \E mode, next : next \in {"watch", "begin"} /\ MakePipeline(mode, next)
  PROVE  DemuxIInv'
<1> USE DEF DemuxIInv, DemuxTypes, DemuxPhases, InputOpen, Reading, Unended, Reasons, Positions, Onward,
        NextAtLeast, Moves, sinkVars, sourceVars, seekVars
<1>1. CASE NewDemuxSession
  BY <1>1 DEF NewDemuxSession
<1>2. CASE NewDemuxSessionFails
  BY <1>2 DEF NewDemuxSessionFails
<1>3. CASE MakePipelineFails
  BY <1>3 DEF MakePipelineFails
<1>4. CASE WatchOutput
  BY <1>4 DEF WatchOutput
<1>5. CASE WatchOutputFails
  BY <1>5 DEF WatchOutputFails
<1>6. ASSUME NEW mode, NEW next \in {"watch", "begin"}, MakePipeline(mode, next) PROVE DemuxIInv'
  BY <1>6 DEF MakePipeline
<1> QED BY <1>1, <1>2, <1>3, <1>4, <1>5, <1>6

\* So do the steps that begin the reading, and a seek that is served.
LEMMA SeekingKeeps ==
  ASSUME DemuxIInv, ServeSeek \/ \E mode : Begin(mode) PROVE DemuxIInv'
<1> USE DEF DemuxIInv, DemuxTypes, DemuxPhases, InputOpen, Reading, Unended, Reasons, Positions, Onward,
        NextAtLeast, Moves, sinkVars, sourceVars, seekVars
<1>1. ASSUME NEW at \in Int, SeekTo(at)
      PROVE  pos' \in Int /\ basePTS' = 0 /\ sought'
  BY <1>1, DemuxAssumption DEF SeekTo, Landing
<1>2. ASSUME NEW mode, Begin(mode) PROVE DemuxIInv'
  <2>0. /\ demuxPhase = "begin" /\ demuxPhase' = "loop"
        /\ UNCHANGED <<source, fc, audioIdx, retry, pkt, lastPTS, restarted, sink, ctx, seekCh, seeker, ended>>
    BY <1>2 DEF Begin
  <2>1. CASE SeekTo(source.seekOffset)
    <3>1. pos' \in Int /\ basePTS' = 0 /\ sought'
      BY <1>1, <2>1, DemuxAssumption
    <3> QED BY <2>0, <3>1
  <2>2. CASE SeekToFails
    BY <2>0, <2>2 DEF SeekToFails
  <2> QED BY <1>2, <2>1, <2>2 DEF Begin
<1>3. CASE ServeSeek
  <2>1. seekCh # <<>> /\ Head(seekCh).at \in Int /\ Tail(seekCh) \in Seq([by : Seekers, at : {0, Frames}])
    <3>1. Head(seekCh) \in [by : Seekers, at : {0, Frames}] /\ Tail(seekCh) \in Seq([by : Seekers, at : {0, Frames}])
      BY <1>3, HeadTailProperties DEF ServeSeek
    <3> QED BY <1>3, <3>1, DemuxAssumption DEF ServeSeek
  <2>2. CASE SeekTo(Head(seekCh).at)
    <3>1. pos' \in Int /\ basePTS' = 0 /\ sought'
      BY <1>1, <2>1, <2>2
    <3> QED BY <1>3, <2>1, <3>1 DEF ServeSeek
  <2>3. CASE SeekToFails
    BY <1>3, <2>1, <2>3 DEF ServeSeek, SeekToFails
  <2> QED BY <1>3, <2>2, <2>3 DEF ServeSeek
<1> QED BY <1>2, <1>3

\* So do the reads, and the retries of those that failed.
LEMMA ReadingKeeps ==
  ASSUME DemuxIInv, ReadFrame \/ SkipFrame \/ ReadEnd \/ ReadPacketFails \/ Reconnect \/ ReconnectFails
  PROVE  DemuxIInv'
<1> USE DemuxAssumption DEF DemuxIInv, DemuxTypes, DemuxPhases, InputOpen, Reading, Unended, Reasons, Positions, Onward,
        NextAtLeast, Moves, sinkVars, sourceVars, seekVars
<1>1. CASE ReadFrame
  <2>1. /\ pos' \in Int /\ pos' >= pos
    BY <1>1 DEF ReadFrame, AfterFrame
  <2>2. basePTS' = IF basePTS < 0 THEN pos ELSE basePTS
    BY <1>1 DEF ReadFrame
  <2>3. pkt'.raw = pos /\ pkt'.pts = pos - basePTS'
    BY <1>1 DEF ReadFrame
  <2>4. demuxPhase = "read" /\ demuxPhase' = "got" /\ UNCHANGED <<source, fc, audioIdx, sinkVars, ctx, seekVars, ended>>
    BY <1>1 DEF ReadFrame
  <2>5. Onward'
    <3>0. /\ lastPTS' = lastPTS /\ restarted' = restarted
          /\ pos \in Int /\ basePTS \in Int /\ lastPTS \in Int /\ (~restarted => NextAtLeast(lastPTS))
      BY <2>4
    <3>1. CASE basePTS < 0
      <4>1. basePTS' = pos /\ pkt'.pts = 0
        BY <2>2, <2>3, <3>0, <3>1
      <4>2. ~restarted => lastPTS <= 0
        BY <3>0, <3>1
      <4>3. 0 <= pos' - basePTS' /\ (lastPTS <= 0 => lastPTS <= pos' - basePTS')
        BY <2>1, <3>0, <4>1, LaterIsMore
      <4> QED BY <2>4, <3>0, <4>1, <4>2, <4>3
    <3>2. CASE basePTS >= 0
      <4>1. basePTS' = basePTS /\ pkt'.pts = pos - basePTS /\ pkt'.pts \in Int
        BY <2>2, <2>3, <3>0, <3>2
      <4>2. ~restarted => lastPTS <= pos - basePTS
        BY <3>0, <3>2
      <4>3. pos - basePTS <= pos' - basePTS' /\ (lastPTS <= pos - basePTS => lastPTS <= pos' - basePTS')
        BY <2>1, <3>0, <4>1, LaterIsMore
      <4> QED BY <2>4, <3>0, <3>2, <4>1, <4>2, <4>3
    <3> QED BY <3>0, <3>1, <3>2
  <2>6. Positions'
    BY <2>2, <2>3, <2>4
  <2> QED BY <2>1, <2>2, <2>4, <2>5, <2>6
<1>2. CASE SkipFrame
  BY <1>2 DEF SkipFrame
<1>3. CASE ReadEnd
  BY <1>3 DEF ReadEnd
<1>4. CASE ReadPacketFails
  BY <1>4 DEF ReadPacketFails
<1>5. CASE Reconnect
  BY <1>5 DEF Reconnect
<1>6. CASE ReconnectFails
  BY <1>6 DEF ReconnectFails
<1> QED BY <1>1, <1>2, <1>3, <1>4, <1>5, <1>6

\* So do the steps of the loop and those that end the session.
LEMMA LoopKeeps ==
  ASSUME DemuxIInv, SeeCancelled \/ CallRead \/ Push \/ PushFails \/ (\E mode : EndPipeline(mode)) \/ Close
  PROVE  DemuxIInv'
<1> USE DEF DemuxIInv, DemuxTypes, DemuxPhases, InputOpen, Reading, Unended, Reasons, Positions, Onward,
        NextAtLeast, Moves, sinkVars, sourceVars, seekVars
<1>1. CASE SeeCancelled
  BY <1>1 DEF SeeCancelled
<1>2. CASE CallRead
  BY <1>2 DEF CallRead
<1>3. CASE Push
  BY <1>3 DEF Push
<1>4. CASE PushFails
  BY <1>4 DEF PushFails
<1>5. ASSUME NEW mode, EndPipeline(mode) PROVE DemuxIInv'
  BY <1>5 DEF EndPipeline
<1>6. CASE Close
  BY <1>6 DEF Close
<1> QED BY <1>1, <1>2, <1>3, <1>4, <1>5, <1>6

\* So do the requests.
LEMMA RequestKeeps == ASSUME DemuxIInv, DemuxRequests PROVE DemuxIInv'
<1> USE DEF DemuxIInv, DemuxTypes, DemuxPhases, InputOpen, Reading, Unended, Reasons, Positions, Onward,
        NextAtLeast, Moves, sinkVars, sourceVars, seekVars
<1>1. CASE CancelSession
  BY <1>1 DEF CancelSession
<1>2. ASSUME NEW k \in Seekers, NEW at \in {0, Frames}, AskSeek(k, at) PROVE DemuxIInv'
  <2>1. seekCh' \in Seq([by : Seekers, at : {0, Frames}])
    <3>1. << [by |-> k, at |-> at] >> \in Seq([by : Seekers, at : {0, Frames}])
      OBVIOUS
    <3> QED BY <1>2, <3>1 DEF AskSeek
  <2> QED BY <1>2, <2>1 DEF AskSeek
<1> QED BY <1>1, <1>2 DEF DemuxRequests

\* Every step keeps the invariant.
LEMMA DemuxKeeps == DemuxIInv /\ [DemuxNext]_demuxVars => DemuxIInv'
<1> SUFFICES ASSUME DemuxIInv, [DemuxNext]_demuxVars PROVE DemuxIInv'
  OBVIOUS
<1>1. CASE DemuxNext
  <2>1. \A mode, next : MakePipeline(mode, next) /\ next \in {"watch", "begin"} => DemuxIInv'
    BY OpeningKeeps
  <2>2. CASE OpenSteps
    BY <2>1, <2>2, OpeningKeeps, SeekingKeeps DEF OpenSteps, runGoHLS, runGoFullTranscode, runGoAudioTranscode,
       BeginHLS, BeginFullTranscode, BeginAudioTranscode
  <2>3. CASE ReadSteps
    BY <2>3, SeekingKeeps, ReadingKeeps DEF ReadSteps
  <2>4. CASE LoopSteps
    BY <2>4, LoopKeeps DEF LoopSteps, FinishHLS, FinishFullTranscode, FinishAudioTranscode
  <2>5. CASE DemuxRequests
    BY <2>5, RequestKeeps
  <2> QED BY <1>1, <2>2, <2>3, <2>4, <2>5 DEF DemuxNext, DemuxSteps
<1>2. CASE UNCHANGED demuxVars
  BY <1>2 DEF demuxVars, sourceVars, seekVars, sinkVars, DemuxIInv, DemuxTypes, InputOpen, Reasons, Positions, Onward,
     NextAtLeast
<1> QED BY <1>1, <1>2

\* The invariant holds throughout.
LEMMA DemuxInvariance == DemuxSpec => []DemuxIInv
BY DemuxStart, DemuxKeeps, PTL DEF DemuxSpec

\* Whatever seeks, cancels, failed reads and failed reconnects come (ReadPacket,
\* Reconnect, RequestSeek, demuxloop.Run), nothing is read from an input that
\* is not open, and the session's end is what the property says.
THEOREM SourceIsReadRight == DemuxSpec => []SourceReadRight
<1>1. DemuxIInv => SourceReadRight
  BY DEF DemuxIInv, DemuxTypes, InputOpen, Reading, Reasons, Positions, SourceReadRight, ReadsOpenInput,
     PositionsAfterSeek, EndIsNoError, EndsReleased
<1> QED BY <1>1, DemuxInvariance, PTL

\* A time stamp that Push hands on is not before the one before it, unless the
\* sink was reset by a seek or the source reopened in between.
THEOREM TimeGoesOn == DemuxSpec => NeverBackInTime
<1>1. ASSUME DemuxIInv, DemuxNext, ~restarted PROVE ~(lastPTS' < lastPTS)
  <2>1. CASE Push
    BY <1>1, <2>1 DEF DemuxIInv, DemuxTypes, Onward, Push, Moves
  <2>2. CASE ~Push
    <3>1. lastPTS' = lastPTS
      BY <1>1, <2>2 DEF DemuxNext, DemuxSteps, OpenSteps, ReadSteps, LoopSteps, DemuxRequests, sinkVars,
         NewDemuxSession, NewDemuxSessionFails, runGoHLS, runGoFullTranscode, runGoAudioTranscode, MakePipeline,
         MakePipelineFails, WatchOutput, WatchOutputFails, BeginHLS, BeginFullTranscode, BeginAudioTranscode, Begin,
         ServeSeek, ReadFrame, SkipFrame, ReadEnd, ReadPacketFails, Reconnect, ReconnectFails, SeeCancelled, CallRead,
         PushFails, FinishHLS, FinishFullTranscode, FinishAudioTranscode, EndPipeline, Close, CancelSession, AskSeek
    <3> QED BY <1>1, <3>1 DEF DemuxIInv, DemuxTypes
  <2> QED BY <2>1, <2>2
<1>2. DemuxIInv /\ [DemuxNext]_demuxVars => [lastPTS' < lastPTS => restarted]_demuxVars
  BY <1>1
<1> QED BY <1>2, DemuxInvariance, PTL DEF DemuxSpec, NeverBackInTime

-----------------------------------------------------------------------------
(***************************************************************************)
(* The native resources of a pipeline (Pipeline).  What the proof needs of *)
(* the seven constructors is ConstructorRight, which is checked step by    *)
(* step of each; the rest is the same for all.                             *)
(***************************************************************************)

\* The parts that a constructor has opened when it comes to step n.
Acquired(j, n) ==
  UNION {StepsOf[j.kind][m].opens : m \in {i \in 1 .. n - 1 : CallsFor(j, StepsOf[j.kind][i])}}

\* What the seven constructors have in common: a step that fails closes what may
\* have been opened before, and each makes what the pushes of its kind use.
ConstructorRight(j, S) ==
  /\ Len(S) \in Nat \ {0}
  /\ \A n \in 1 .. Len(S) : S[n].opens \subseteq Parts
  /\ \A n \in 1 .. Len(S) :
       \/ S[n].closes = Parts
       \/ \A m \in 1 .. n - 1 : S[m].opens \subseteq S[n].closes
  /\ \E n \in 1 .. Len(S) : S[n].when = "always" /\ "muxer" \in S[n].opens
  /\ \A n \in 1 .. Len(S) : S[n].when = "videoInfo" => Transcodes(j)
  /\ Transcodes(j) =>
       /\ \E n \in 1 .. Len(S) : S[n].when \in {"always", "videoInfo"} /\ "videoDec" \in S[n].opens
       /\ \E n \in 1 .. Len(S) : S[n].when = "always" /\ "videoEnc" \in S[n].opens
  /\ j.kind # "streamCopy" => \E n \in 1 .. Len(S) : S[n].when = "audio" /\ "audioEnc" \in S[n].opens
  /\ CopiesToSegments(j) =>
       /\ S[Len(S)].when = "always" /\ S[Len(S)].opens = {"muxer"} /\ S[Len(S)].closes = Parts
       /\ \A n \in 1 .. Len(S) : S[n].when = "audio" =>
            \A m \in 1 .. n - 1 : S[m].opens \subseteq {"audioDec", "audioResample"}

\* They have it.
LEMMA ConstructorsRight ==
  ASSUME NEW j \in JobType
  PROVE  ConstructorRight(j, StepsOf[j.kind])
<1> USE DEF ConstructorRight, Transcodes, CopiesToSegments, Step, Parts, Sink
<1>1. CASE j.kind = "streamCopy"
  <2>1. StepsOf[j.kind] = StreamCopySteps
    BY <1>1 DEF StepsOf
  <2> QED BY <1>1, <2>1, SMTT(60) DEF StreamCopySteps
<1>2. CASE j.kind = "audioTranscode"
  <2>1. StepsOf[j.kind] = AudioTranscodeSteps
    BY <1>2 DEF StepsOf
  <2> QED BY <1>2, <2>1, SMTT(60) DEF AudioTranscodeSteps
<1>3. CASE j.kind = "fullTranscode"
  <2> DEFINE S == FullTranscodeVideoSteps \o FullTranscodeAudioSteps
  <2>1. StepsOf[j.kind] = S
    BY <1>3 DEF StepsOf
  <2>2. /\ Len(S) = 13 /\ \A n \in 1 .. Len(S) : S[n].opens \subseteq Parts
        /\ \A n \in 1 .. Len(S) : S[n].when = "videoInfo" => Transcodes(j)
    BY <1>3 DEF FullTranscodeVideoSteps, FullTranscodeAudioSteps
  <2>3. \A n \in 1 .. Len(S) : S[n].closes = Parts \/ \A m \in 1 .. n - 1 : S[m].opens \subseteq S[n].closes
    BY DEF FullTranscodeVideoSteps, FullTranscodeAudioSteps
  <2>4. /\ S[2].when = "always" /\ "muxer" \in S[2].opens
        /\ S[4].when = "always" /\ "videoDec" \in S[4].opens
        /\ S[7].when = "always" /\ "videoEnc" \in S[7].opens
        /\ S[11].when = "audio" /\ "audioEnc" \in S[11].opens
    BY DEF FullTranscodeVideoSteps, FullTranscodeAudioSteps
  <2> HIDE DEF S, Parts, Step
  <2>5. 2 \in 1 .. Len(S) /\ 4 \in 1 .. Len(S) /\ 7 \in 1 .. Len(S) /\ 11 \in 1 .. Len(S)
    BY <2>2
  <2>6. ~CopiesToSegments(j) /\ Len(S) \in Nat \ {0}
    BY <1>3, <2>2
  <2> QED BY <2>1, <2>2, <2>3, <2>4, <2>5, <2>6, Zenon DEF ConstructorRight
<1>4. CASE j.kind \in {"mseTranscode", "hlsTranscode"}
  <2> DEFINE S == MSETranscodeVideoSteps \o MSETranscodeAudioSteps
  <2>1. StepsOf[j.kind] = S
    BY <1>4 DEF StepsOf, HLSTranscodeVideoSteps, HLSTranscodeAudioSteps
  <2>2. /\ Len(S) = 10 /\ \A n \in 1 .. Len(S) : S[n].opens \subseteq Parts
        /\ \A n \in 1 .. Len(S) : S[n].when = "videoInfo" => Transcodes(j)
    BY <1>4 DEF MSETranscodeVideoSteps, MSETranscodeAudioSteps
  <2>3. /\ S[1].opens = {}
        /\ \A n \in 3 .. Len(S) : S[n].closes = Parts
    BY DEF MSETranscodeVideoSteps, MSETranscodeAudioSteps
  <2>4. /\ S[2].when = "videoInfo" /\ "videoDec" \in S[2].opens
        /\ S[5].when = "always" /\ "videoEnc" \in S[5].opens
        /\ S[9].when = "audio" /\ "audioEnc" \in S[9].opens
        /\ S[10].when = "always" /\ "muxer" \in S[10].opens
    BY DEF MSETranscodeVideoSteps, MSETranscodeAudioSteps
  <2> HIDE DEF S, Parts, Step
  <2>5. \A n \in 1 .. Len(S) : S[n].closes = Parts \/ \A m \in 1 .. n - 1 : S[m].opens \subseteq S[n].closes
    BY <2>2, <2>3
  <2>6. 2 \in 1 .. Len(S) /\ 5 \in 1 .. Len(S) /\ 9 \in 1 .. Len(S) /\ 10 \in 1 .. Len(S)
    BY <2>2
  <2>7. ~CopiesToSegments(j) /\ Len(S) \in Nat \ {0}
    BY <1>4, <2>2
  <2> QED BY <2>1, <2>2, <2>4, <2>5, <2>6, <2>7, Zenon DEF ConstructorRight
<1>5. CASE j.kind \in {"mseCopy", "hlsCopy"}
  <2>1. StepsOf[j.kind] = MSECopySteps
    BY <1>5 DEF StepsOf, HLSCopySteps
  <2> QED BY <1>5, <2>1, SMTT(60) DEF MSECopySteps
<1>6. j.kind \in Kinds
  BY DEF JobType
<1> QED BY <1>1, <1>2, <1>3, <1>4, <1>5, <1>6 DEF Kinds

\* What is acquired grows by what a step opens.
LEMMA AcquiredGrows ==
  ASSUME NEW j \in JobType, NEW n \in 1 .. Len(StepsOf[j.kind])
  PROVE  /\ Acquired(j, 1) = {}
         /\ Acquired(j, n + 1) = Acquired(j, n) \cup (IF CallsFor(j, StepsOf[j.kind][n]) THEN StepsOf[j.kind][n].opens ELSE {})
         /\ \A m \in 1 .. n : CallsFor(j, StepsOf[j.kind][m]) => StepsOf[j.kind][m].opens \subseteq Acquired(j, n + 1)
<1> DEFINE S == StepsOf[j.kind]
           Before(k) == {i \in 1 .. k - 1 : CallsFor(j, S[i])}
<1>1. \A k : Acquired(j, k) = UNION {S[m].opens : m \in Before(k)}
  BY DEF Acquired
<1>2. Len(S) \in Nat
  BY ConstructorsRight DEF ConstructorRight
<1>3. n \in Nat \ {0} /\ Before(1) = {} /\ Before(n + 1) = Before(n) \cup (IF CallsFor(j, S[n]) THEN {n} ELSE {})
  <2>1. n \in Nat \ {0} /\ 1 .. (n + 1) - 1 = (1 .. n - 1) \cup {n} /\ 1 .. 1 - 1 = {}
    BY <1>2
  <2> HIDE DEF S
  <2> QED BY <2>1
<1> HIDE DEF S, Before
<1>4. Acquired(j, 1) = {}
  BY <1>1, <1>3
<1>5. Acquired(j, n + 1) = Acquired(j, n) \cup (IF CallsFor(j, S[n]) THEN S[n].opens ELSE {})
  BY <1>1, <1>3
<1>6. \A m \in 1 .. n : CallsFor(j, S[m]) => m \in Before(n + 1)
  BY <1>3 DEF Before
<1> QED BY <1>1, <1>4, <1>5, <1>6 DEF S

-----------------------------------------------------------------------------
(* The invariant *)

\* A constructor at work has what its steps opened, or it has dropped the audio
\* and is about to make the muxer, or has made it.
AsBuilt ==
  \/ held = Acquired(job, step) /\ live = held \ {"audioFifo"}
  \/ /\ CopiesToSegments(job)
     /\ \/ step = Len(Steps) /\ held \subseteq {"audioResample"} /\ live = {}
        \/ step = Len(Steps) + 1 /\ held \ {"muxer"} \subseteq {"audioResample"} /\ "muxer" \in held /\ live = {"muxer"}

BuildingRight ==
  phase = "building" => AsBuilt /\ ~stopped /\ ~stopFn /\ ~lateReset /\ ~resetLost

\* A pipeline that was built has the parts that it needs, and they are alive
\* until it is stopped; a pipeline without audio may keep the pointer of a
\* resampler that is closed, one that could not reset its muxer has lost it.
ReadyRight ==
  phase \in {"watching", "running"} =>
    /\ "muxer" \in held
    /\ Transcodes(job) => {"videoDec", "videoEnc"} \subseteq held
    /\ job.kind # "streamCopy" /\ job.audio /\ "audioDec" \in held => "audioEnc" \in held
    /\ ~stopped =>
         held \subseteq live \cup {"audioFifo"} \cup (IF resetLost THEN {"muxer"} ELSE {})
                          \cup (IF "audioDec" \in held THEN {} ELSE {"audioResample"})

\* A pipeline that was stopped has nothing, but for the resampler that a reset
\* has made again.
StoppedRight ==
  /\ live \subseteq held
  /\ stopped => live \subseteq (IF lateReset THEN {"audioResample"} ELSE {})
  /\ lateReset => stopped
  /\ phase = "ended" => stopped \/ live = {}
  /\ resetLost => WritesSegments(job)

PipelineIInv == PipelineTypes /\ BuildingRight /\ ReadyRight /\ StoppedRight /\ CrashCauses

-----------------------------------------------------------------------------
(* The constructor *)

\* The step that a constructor is at.
LEMMA ThisStepRight ==
  ASSUME PipelineIInv, Building
  PROVE  /\ job \in JobType /\ Len(Steps) \in Nat \ {0} /\ step \in 1 .. Len(Steps)
         /\ ThisStep.opens \subseteq Parts
         /\ ThisStep.closes = Parts \/ Acquired(job, step) \subseteq ThisStep.closes
         /\ ThisStep.when = "videoInfo" => Transcodes(job)
         /\ Acquired(job, step + 1) = Acquired(job, step) \cup NewParts
         /\ CopiesToSegments(job) /\ ThisStep.when = "audio" =>
              Acquired(job, step) \subseteq {"audioDec", "audioResample"} /\ step # Len(Steps)
         /\ CopiesToSegments(job) /\ step = Len(Steps) =>
              Called /\ ThisStep.opens = {"muxer"} /\ ThisStep.closes = Parts
<1>1. job \in JobType
  BY PipelineAssumption DEF PipelineIInv, PipelineTypes
<1>2. ConstructorRight(job, Steps)
  BY <1>1, ConstructorsRight DEF Steps
<1>3. Len(Steps) \in Nat \ {0} /\ step \in 1 .. Len(Steps)
  BY <1>2 DEF ConstructorRight, Building, PipelineIInv, PipelineTypes
<1>4. ThisStep.opens \subseteq Parts /\ (ThisStep.when = "videoInfo" => Transcodes(job))
  BY <1>2, <1>3 DEF ConstructorRight, ThisStep
<1>5. \A X : (\A m \in 1 .. step - 1 : Steps[m].opens \subseteq X) => Acquired(job, step) \subseteq X
  BY DEF Acquired, Steps
<1>6. ThisStep.closes = Parts \/ Acquired(job, step) \subseteq ThisStep.closes
  BY <1>2, <1>3, <1>5 DEF ConstructorRight, ThisStep
<1>7. Acquired(job, step + 1) = Acquired(job, step) \cup NewParts
  BY <1>1, <1>3, AcquiredGrows DEF NewParts, Called, ThisStep, Steps
<1>8. CopiesToSegments(job) /\ ThisStep.when = "audio" =>
        Acquired(job, step) \subseteq {"audioDec", "audioResample"} /\ step # Len(Steps)
  BY <1>2, <1>3, <1>5 DEF ConstructorRight, ThisStep
<1>9. CopiesToSegments(job) /\ step = Len(Steps) =>
        Called /\ ThisStep.opens = {"muxer"} /\ ThisStep.closes = Parts
  BY <1>2, <1>3 DEF ConstructorRight, ThisStep, Called, CallsFor
<1> QED BY <1>1, <1>3, <1>4, <1>6, <1>7, <1>8, <1>9

\* A step that opens its parts, or is passed over.
LEMMA BuildKeeps == ASSUME PipelineIInv, Build PROVE PipelineIInv'
<1>1. Building
  BY DEF Build
<1>2. /\ held' = held \cup NewParts /\ live' = live \cup (NewParts \ {"audioFifo"}) /\ step' = step + 1
      /\ job' = job /\ phase' = phase /\ stopped' = stopped /\ latched' = latched /\ stopFn' = stopFn
      /\ teardown' = teardown /\ seekReq' = seekReq /\ seeks' = seeks /\ failed' = failed /\ sessErr' = sessErr
      /\ resetLost' = resetLost /\ lateReset' = lateReset
  BY DEF Build
<1>3. Steps' = Steps
  BY <1>2 DEF Steps
<1>4. NewParts \subseteq Parts
  BY <1>1, ThisStepRight DEF NewParts
<1>5. AsBuilt /\ phase = "building" /\ ~stopped /\ ~stopFn /\ ~lateReset /\ ~resetLost
  BY <1>1 DEF Building, PipelineIInv, BuildingRight
<1>6. AsBuilt'
  <2>1. CASE held = Acquired(job, step) /\ live = held \ {"audioFifo"}
    <3>1. held' = Acquired(job, step') /\ live' = held' \ {"audioFifo"}
      BY <1>1, <1>2, <2>1, ThisStepRight
    <3> QED BY <1>2, <3>1 DEF AsBuilt
  <2>2. CASE /\ CopiesToSegments(job) /\ step = Len(Steps) /\ held \subseteq {"audioResample"} /\ live = {}
    <3>1. NewParts = {"muxer"}
      BY <1>1, <2>2, ThisStepRight DEF NewParts
    <3> QED BY <1>2, <1>3, <2>2, <3>1 DEF AsBuilt, CopiesToSegments
  <2>3. step # Len(Steps) + 1
    BY <1>1, ThisStepRight
  <2> QED BY <1>5, <2>1, <2>2, <2>3 DEF AsBuilt
<1>7. PipelineTypes'
  BY <1>1, <1>2, <1>3, <1>4, ThisStepRight DEF PipelineIInv, PipelineTypes
<1> QED BY <1>2, <1>5, <1>6, <1>7 DEF PipelineIInv, BuildingRight, ReadyRight, StoppedRight, CrashCauses, WritesSegments, CopiesToSegments

\* A step that fails ends the goroutine with nothing alive.
LEMMA BuildFailsKeeps == ASSUME PipelineIInv, BuildFails PROVE PipelineIInv'
<1>1. Building /\ Called /\ ~Soft
  BY DEF BuildFails
<1>2. /\ live' = live \ (ThisStep.closes \cap held) /\ phase' = "ended" /\ sessErr' = TRUE
      /\ job' = job /\ step' = step /\ held' = held /\ stopped' = stopped /\ latched' = latched
      /\ stopFn' = stopFn /\ teardown' = teardown /\ seekReq' = seekReq /\ seeks' = seeks /\ failed' = failed
      /\ resetLost' = resetLost /\ lateReset' = lateReset
  BY DEF BuildFails
<1>3. Steps' = Steps
  BY <1>2 DEF Steps
<1>4. AsBuilt /\ ~stopped /\ ~stopFn /\ ~lateReset /\ ~resetLost /\ live \subseteq held /\ held \subseteq Parts
  BY <1>1 DEF Building, PipelineIInv, BuildingRight, StoppedRight, PipelineTypes
<1>5. live' = {}
  <2>1. CASE held = Acquired(job, step)
    BY <1>1, <1>2, <1>4, <2>1, ThisStepRight
  <2>2. CASE live = {}
    BY <1>2, <2>2
  <2>3. step # Len(Steps) + 1
    BY <1>1, ThisStepRight
  <2> QED BY <1>4, <2>1, <2>2, <2>3 DEF AsBuilt
<1>6. PipelineTypes'
  BY <1>2, <1>3, <1>5 DEF PipelineIInv, PipelineTypes
<1> QED BY <1>2, <1>4, <1>5, <1>6 DEF PipelineIInv, BuildingRight, ReadyRight, StoppedRight, CrashCauses

\* A pipeline that goes on without its audio keeps at most a closed resampler.
LEMMA BuildWithoutAudioKeeps == ASSUME PipelineIInv, BuildWithoutAudio PROVE PipelineIInv'
<1>1. Building /\ Called /\ CopiesToSegments(job) /\ ThisStep.when = "audio"
  BY DEF BuildWithoutAudio, Soft
<1>2. /\ live' = live \ ThisStep.closes /\ held' = held \ {"audioDec"} /\ step' = Len(Steps)
      /\ job' = job /\ phase' = phase /\ stopped' = stopped /\ latched' = latched /\ stopFn' = stopFn
      /\ teardown' = teardown /\ seekReq' = seekReq /\ seeks' = seeks /\ failed' = failed /\ sessErr' = sessErr
      /\ resetLost' = resetLost /\ lateReset' = lateReset
  BY DEF BuildWithoutAudio
<1>3. Steps' = Steps
  BY <1>2 DEF Steps
<1>4. AsBuilt /\ phase = "building" /\ ~stopped /\ ~stopFn /\ ~lateReset /\ ~resetLost /\ live \subseteq held /\ held \subseteq Parts
  BY <1>1 DEF Building, PipelineIInv, BuildingRight, StoppedRight, PipelineTypes
<1>5. held = Acquired(job, step) /\ live = held \ {"audioFifo"}
  BY <1>1, <1>4, ThisStepRight DEF AsBuilt
<1>6. held' \subseteq {"audioResample"} /\ live' = {}
  BY <1>1, <1>2, <1>4, <1>5, ThisStepRight
<1>7. AsBuilt'
  BY <1>1, <1>2, <1>3, <1>6 DEF AsBuilt, CopiesToSegments
<1>8. PipelineTypes'
  <2>1. step' \in 1 .. Len(Steps') + 1
    BY <1>1, <1>2, <1>3, ThisStepRight
  <2>2. held' \subseteq Parts /\ live' \subseteq held'
    BY <1>2, <1>4, <1>6
  <2> QED BY <1>2, <2>1, <2>2 DEF PipelineIInv, PipelineTypes
<1> QED BY <1>2, <1>4, <1>6, <1>7, <1>8 DEF PipelineIInv, BuildingRight, ReadyRight, StoppedRight, CrashCauses, WritesSegments, CopiesToSegments

\* What a constructor that has come to its end has made.
LEMMA BuiltRight ==
  ASSUME PipelineIInv, phase = "building", step > Len(Steps)
  PROVE  /\ "muxer" \in held
         /\ Transcodes(job) => {"videoDec", "videoEnc"} \subseteq held
         /\ job.kind # "streamCopy" /\ job.audio /\ "audioDec" \in held => "audioEnc" \in held
         /\ held \subseteq live \cup {"audioFifo"} \cup (IF "audioDec" \in held THEN {} ELSE {"audioResample"})
<1>1. job \in JobType
  BY PipelineAssumption DEF PipelineIInv, PipelineTypes
<1>2. ConstructorRight(job, Steps)
  BY <1>1, ConstructorsRight DEF Steps
<1>3. Len(Steps) \in Nat \ {0} /\ step = Len(Steps) + 1
  BY <1>2 DEF ConstructorRight, PipelineIInv, PipelineTypes
<1>4. AsBuilt
  BY DEF PipelineIInv, BuildingRight
<1>5. CASE held = Acquired(job, step) /\ live = held \ {"audioFifo"}
  <2>1. \A m \in 1 .. Len(Steps) : CallsFor(job, Steps[m]) => Steps[m].opens \subseteq held
    <3>1. Len(Steps) \in 1 .. Len(Steps)
      BY <1>3
    <3>2. \A m \in 1 .. Len(Steps) : CallsFor(job, Steps[m]) => Steps[m].opens \subseteq Acquired(job, Len(Steps) + 1)
      BY <1>1, <3>1, AcquiredGrows DEF Steps
    <3> QED BY <1>3, <1>5, <3>2
  <2>2. \A m \in 1 .. Len(Steps) : Steps[m].when \in {"always", "videoInfo"} => CallsFor(job, Steps[m])
    BY DEF CallsFor
  <2>3. \A m \in 1 .. Len(Steps) : Steps[m].when = "audio" /\ job.audio => CallsFor(job, Steps[m])
    BY DEF CallsFor
  <2>4. "muxer" \in held
    BY <1>2, <2>1, <2>2 DEF ConstructorRight
  <2>5. Transcodes(job) => {"videoDec", "videoEnc"} \subseteq held
    BY <1>2, <2>1, <2>2 DEF ConstructorRight
  <2>6. job.kind # "streamCopy" /\ job.audio => "audioEnc" \in held
    BY <1>2, <2>1, <2>3 DEF ConstructorRight
  <2> QED BY <1>5, <2>4, <2>5, <2>6
<1>6. CASE /\ CopiesToSegments(job) /\ step = Len(Steps) + 1 /\ held \ {"muxer"} \subseteq {"audioResample"}
           /\ "muxer" \in held /\ live = {"muxer"}
  BY <1>6 DEF CopiesToSegments, Transcodes
<1>7. step # Len(Steps)
  BY <1>3
<1> QED BY <1>4, <1>5, <1>6, <1>7 DEF AsBuilt

\* The pipeline is handed to the session.
LEMMA RegisterKeeps == ASSUME PipelineIInv, Register PROVE PipelineIInv'
<1>1. /\ phase = "building" /\ step > Len(Steps) /\ phase' \in {"watching", "running"} /\ stopFn' = TRUE
      /\ job' = job /\ step' = step /\ held' = held /\ live' = live /\ stopped' = stopped /\ latched' = latched
      /\ teardown' = teardown /\ seekReq' = seekReq /\ seeks' = seeks /\ failed' = failed /\ sessErr' = sessErr
      /\ resetLost' = resetLost /\ lateReset' = lateReset /\ Steps' = Steps
  BY DEF Register, Steps
<1>2. ReadyRight'
  BY <1>1, BuiltRight DEF ReadyRight, Transcodes
<1>3. PipelineTypes'
  BY <1>1 DEF PipelineIInv, PipelineTypes
<1> QED BY <1>1, <1>2, <1>3 DEF PipelineIInv, BuildingRight, StoppedRight, CrashCauses, WritesSegments, CopiesToSegments

\* What is left of a constructor's steps: the source cannot be opened, the
\* process is brought down, the watcher is made or not.
LEMMA ConstructKeeps == ASSUME PipelineIInv, Construct PROVE PipelineIInv'
<1>1. CASE DemuxFails
  <2>1. /\ phase = "building" /\ step = 1 /\ phase' = "ended" /\ sessErr' = TRUE
        /\ job' = job /\ step' = step /\ held' = held /\ live' = live /\ stopped' = stopped /\ latched' = latched
        /\ stopFn' = stopFn /\ teardown' = teardown /\ seekReq' = seekReq /\ seeks' = seeks /\ failed' = failed
        /\ resetLost' = resetLost /\ lateReset' = lateReset /\ Steps' = Steps
    BY <1>1 DEF DemuxFails, Steps
  <2>2. live = {}
    <3>1. job \in JobType /\ 1 \in 1 .. Len(Steps) /\ step # Len(Steps) + 1
      BY <2>1, PipelineAssumption, ConstructorsRight DEF PipelineIInv, PipelineTypes, ConstructorRight, Steps
    <3>2. Acquired(job, 1) = {}
      BY <3>1, AcquiredGrows DEF Steps
    <3> QED BY <2>1, <3>1, <3>2 DEF PipelineIInv, BuildingRight, AsBuilt
  <2>3. PipelineTypes'
    BY <2>1 DEF PipelineIInv, PipelineTypes
  <2> QED BY <2>1, <2>2, <2>3 DEF PipelineIInv, BuildingRight, ReadyRight, StoppedRight, CrashCauses, WritesSegments, CopiesToSegments
<1>2. CASE NilVideo
  <2>1. /\ Building /\ ThisStep.when = "videoInfo" /\ ~job.video /\ phase' = "crashed"
        /\ job' = job /\ step' = step /\ held' = held /\ live' = live /\ stopped' = stopped /\ latched' = latched
        /\ stopFn' = stopFn /\ teardown' = teardown /\ seekReq' = seekReq /\ seeks' = seeks /\ failed' = failed
        /\ sessErr' = sessErr /\ resetLost' = resetLost /\ lateReset' = lateReset /\ Steps' = Steps
    BY <1>2 DEF NilVideo, Steps
  <2>2. Transcodes(job)
    BY <2>1, ThisStepRight
  <2>3. PipelineTypes'
    BY <2>1 DEF PipelineIInv, PipelineTypes
  <2> QED BY <2>1, <2>2, <2>3 DEF PipelineIInv, BuildingRight, ReadyRight, StoppedRight, CrashCauses, WritesSegments, CopiesToSegments, Transcodes
<1>3. CASE Watch
  <2>1. /\ phase = "watching" /\ phase' = "running"
        /\ job' = job /\ step' = step /\ held' = held /\ live' = live /\ stopped' = stopped /\ latched' = latched
        /\ stopFn' = stopFn /\ teardown' = teardown /\ seekReq' = seekReq /\ seeks' = seeks /\ failed' = failed
        /\ sessErr' = sessErr /\ resetLost' = resetLost /\ lateReset' = lateReset /\ Steps' = Steps
    BY <1>3 DEF Watch, Steps
  <2>2. PipelineTypes'
    BY <2>1 DEF PipelineIInv, PipelineTypes
  <2> QED BY <2>1, <2>2 DEF PipelineIInv, BuildingRight, ReadyRight, StoppedRight, CrashCauses, WritesSegments, CopiesToSegments, Transcodes
<1>4. CASE WatchFails
  <2>1. /\ phase' = "ended" /\ stopped' = TRUE /\ sessErr' = TRUE /\ live' = ClosedParts
        /\ job' = job /\ step' = step /\ held' = held /\ latched' = latched
        /\ stopFn' = stopFn /\ teardown' = teardown /\ seekReq' = seekReq /\ seeks' = seeks /\ failed' = failed
        /\ resetLost' = resetLost /\ lateReset' = lateReset /\ Steps' = Steps
    BY <1>4 DEF WatchFails, Steps
  <2>2. live' \subseteq live /\ live' \subseteq (IF lateReset THEN {"audioResample"} ELSE {})
    BY <2>1 DEF ClosedParts, PipelineIInv, StoppedRight
  <2>3. PipelineTypes'
    BY <2>1, <2>2 DEF PipelineIInv, PipelineTypes
  <2> QED BY <2>1, <2>2, <2>3 DEF PipelineIInv, BuildingRight, ReadyRight, StoppedRight, CrashCauses, WritesSegments, CopiesToSegments
<1> QED BY <1>1, <1>2, <1>3, <1>4, BuildKeeps, BuildFailsKeeps, BuildWithoutAudioKeeps, RegisterKeeps DEF Construct

-----------------------------------------------------------------------------
(* The loop, seeks and stops *)

\* The parts that a push uses are alive, but for a muxer whose reset failed.
LEMMA PushesFind ==
  ASSUME PipelineIInv, phase = "running"
  PROVE  /\ TakesVideo => UsedByVideo(job) \subseteq live \cup (IF resetLost THEN {"muxer"} ELSE {})
         /\ TakesAudio => UsedByAudio(job) \subseteq live \cup (IF resetLost THEN {"muxer"} ELSE {})
<1> DEFINE lost == IF resetLost THEN {"muxer"} ELSE {}
<1>1. ASSUME TakesVideo PROVE UsedByVideo(job) \subseteq live \cup lost
  <2>1. UsedByVideo(job) \subseteq held \ {"audioFifo", "audioResample"}
    BY DEF PipelineIInv, ReadyRight, UsedByVideo
  <2>2. held \subseteq live \cup {"audioFifo"} \cup lost \cup (IF "audioDec" \in held THEN {} ELSE {"audioResample"})
    BY <1>1 DEF PipelineIInv, ReadyRight, TakesVideo
  <2> QED BY <2>1, <2>2
<1>2. ASSUME TakesAudio PROVE UsedByAudio(job) \subseteq live \cup lost
  <2>1. CASE job.kind = "streamCopy"
    <3>1. UsedByAudio(job) = {"muxer"}
      BY <2>1 DEF UsedByAudio
    <3> QED BY <1>2, <3>1 DEF PipelineIInv, ReadyRight, TakesAudio
  <2>2. CASE job.kind # "streamCopy"
    <3>1. job.audio /\ "audioDec" \in held /\ ~stopped
      BY <1>2, <2>2 DEF TakesAudio
    <3>2. UsedByAudio(job) \subseteq held \ {"audioFifo"}
      BY <2>2, <3>1 DEF PipelineIInv, ReadyRight, UsedByAudio
    <3> QED BY <3>1, <3>2 DEF PipelineIInv, ReadyRight
  <2> QED BY <2>1, <2>2
<1> QED BY <1>1, <1>2

\* An error that ends the loop.
LEMMA PushVideoFailsKeeps == ASSUME PipelineIInv, PushVideoFails PROVE PipelineIInv'
<1>1. /\ phase = "running" /\ phase' = "stopping" /\ failed' = TRUE
      /\ job' = job /\ step' = step /\ held' = held /\ live' = live /\ stopped' = stopped
      /\ latched' = latched /\ stopFn' = stopFn /\ teardown' = teardown /\ seekReq' = seekReq
      /\ seeks' = seeks /\ sessErr' = sessErr /\ resetLost' = resetLost /\ lateReset' = lateReset
      /\ Steps' = Steps
  BY DEF PushVideoFails, EndLoop, Steps
<1>2. PipelineTypes'
  BY <1>1 DEF PipelineIInv, PipelineTypes
<1> QED BY <1>1, <1>2 DEF PipelineIInv, BuildingRight, ReadyRight, StoppedRight, CrashCauses, WritesSegments, CopiesToSegments, Transcodes

\* So does one of the source,
LEMMA ReadFailsKeeps == ASSUME PipelineIInv, ReadFails PROVE PipelineIInv'
<1>1. /\ phase = "running" /\ phase' = "stopping" /\ failed' = TRUE
      /\ job' = job /\ step' = step /\ held' = held /\ live' = live /\ stopped' = stopped
      /\ latched' = latched /\ stopFn' = stopFn /\ teardown' = teardown /\ seekReq' = seekReq
      /\ seeks' = seeks /\ sessErr' = sessErr /\ resetLost' = resetLost /\ lateReset' = lateReset
      /\ Steps' = Steps
  BY DEF ReadFails, EndLoop, Steps
<1>2. PipelineTypes'
  BY <1>1 DEF PipelineIInv, PipelineTypes
<1> QED BY <1>1, <1>2 DEF PipelineIInv, BuildingRight, ReadyRight, StoppedRight, CrashCauses, WritesSegments, CopiesToSegments, Transcodes

\* and a cancelled context.
LEMMA SeeCancelKeeps == ASSUME PipelineIInv, SeeCancel PROVE PipelineIInv'
<1>1. /\ phase = "running" /\ phase' = "stopping" /\ failed' = FALSE
      /\ job' = job /\ step' = step /\ held' = held /\ live' = live /\ stopped' = stopped
      /\ latched' = latched /\ stopFn' = stopFn /\ teardown' = teardown /\ seekReq' = seekReq
      /\ seeks' = seeks /\ sessErr' = sessErr /\ resetLost' = resetLost /\ lateReset' = lateReset
      /\ Steps' = Steps
  BY DEF SeeCancel, EndLoop, Steps
<1>2. PipelineTypes'
  BY <1>1 DEF PipelineIInv, PipelineTypes
<1> QED BY <1>1, <1>2 DEF PipelineIInv, BuildingRight, ReadyRight, StoppedRight, CrashCauses, WritesSegments, CopiesToSegments, Transcodes

\* The first audio packet allocates the FIFO of a pipeline that was not stopped.
LEMMA PushAudioKeeps == ASSUME PipelineIInv, PushAudio PROVE PipelineIInv'
<1>1. /\ phase = "running" /\ live' = live \cup (held \cap {"audioFifo"}) /\ ~stopped
      /\ job' = job /\ phase' = phase /\ step' = step /\ held' = held /\ stopped' = stopped
      /\ latched' = latched /\ stopFn' = stopFn /\ teardown' = teardown /\ seekReq' = seekReq
      /\ seeks' = seeks /\ failed' = failed /\ sessErr' = sessErr /\ resetLost' = resetLost
      /\ lateReset' = lateReset /\ Steps' = Steps
  BY DEF PushAudio, TakesAudio, Steps
<1>3. live' \subseteq held
  BY <1>1 DEF PipelineIInv, StoppedRight
<1>2. PipelineTypes'
  BY <1>1, <1>3 DEF PipelineIInv, PipelineTypes
<1> QED BY <1>1, <1>2, <1>3 DEF PipelineIInv, BuildingRight, ReadyRight, StoppedRight, CrashCauses, WritesSegments, CopiesToSegments, Transcodes

\* An audio error may come after that too.
LEMMA PushAudioFailsKeeps == ASSUME PipelineIInv, PushAudioFails PROVE PipelineIInv'
<1>1. /\ phase = "running" /\ phase' \in {"running", "stopping"} /\ live' \in {live, live \cup (held \cap {"audioFifo"})} /\ ~stopped
      /\ failed' \in BOOLEAN /\ latched' \in BOOLEAN
      /\ job' = job /\ step' = step /\ held' = held /\ stopped' = stopped /\ stopFn' = stopFn
      /\ teardown' = teardown /\ seekReq' = seekReq /\ seeks' = seeks /\ sessErr' = sessErr
      /\ resetLost' = resetLost /\ lateReset' = lateReset /\ Steps' = Steps
  BY DEF PushAudioFails, TakesAudio, EndLoop, Steps, PipelineIInv, PipelineTypes
<1>3. live' \subseteq held /\ live \subseteq live'
  BY <1>1 DEF PipelineIInv, StoppedRight
<1>2. PipelineTypes'
  BY <1>1, <1>3 DEF PipelineIInv, PipelineTypes
<1> QED BY <1>1, <1>2, <1>3 DEF PipelineIInv, BuildingRight, ReadyRight, StoppedRight, CrashCauses, WritesSegments, CopiesToSegments, Transcodes

\* The end of the source stops the pipeline,
LEMMA EndOfStreamKeeps == ASSUME PipelineIInv, EndOfStream PROVE PipelineIInv'
<1>1. /\ phase = "running" /\ phase' = "stopping" /\ failed' = FALSE /\ live' = ClosedParts /\ stopped' = TRUE
      /\ job' = job /\ step' = step /\ held' = held /\ latched' = latched /\ stopFn' = stopFn
      /\ teardown' = teardown /\ seekReq' = seekReq /\ seeks' = seeks /\ sessErr' = sessErr
      /\ resetLost' = resetLost /\ lateReset' = lateReset /\ Steps' = Steps
  BY DEF EndOfStream, EndLoop, Steps
<1>3. live' \subseteq live /\ live' \subseteq (IF lateReset THEN {"audioResample"} ELSE {})
  BY <1>1 DEF ClosedParts, PipelineIInv, StoppedRight
<1>2. PipelineTypes'
  BY <1>1, <1>3 DEF PipelineIInv, PipelineTypes
<1> QED BY <1>1, <1>2, <1>3 DEF PipelineIInv, BuildingRight, ReadyRight, StoppedRight, CrashCauses, WritesSegments, CopiesToSegments, Transcodes

\* as does the end of the loop.
LEMMA FinishKeeps == ASSUME PipelineIInv, Finish PROVE PipelineIInv'
<1>1. /\ phase = "stopping" /\ phase' = "ended" /\ live' = ClosedParts /\ stopped' = TRUE /\ sessErr' \in BOOLEAN
      /\ job' = job /\ step' = step /\ held' = held /\ latched' = latched /\ stopFn' = stopFn
      /\ teardown' = teardown /\ seekReq' = seekReq /\ seeks' = seeks /\ failed' = failed
      /\ resetLost' = resetLost /\ lateReset' = lateReset /\ Steps' = Steps
  BY DEF Finish, Steps, PipelineIInv, PipelineTypes
<1>3. live' \subseteq live /\ live' \subseteq (IF lateReset THEN {"audioResample"} ELSE {})
  BY <1>1 DEF ClosedParts, PipelineIInv, StoppedRight
<1>2. PipelineTypes'
  BY <1>1, <1>3 DEF PipelineIInv, PipelineTypes
<1> QED BY <1>1, <1>2, <1>3 DEF PipelineIInv, BuildingRight, ReadyRight, StoppedRight, CrashCauses, WritesSegments, CopiesToSegments, Transcodes

\* A push brings the process down only where a muxer could not be reset.
LEMMA PushCrashesKeeps == ASSUME PipelineIInv, PushCrashes PROVE PipelineIInv'
<1>1. /\ phase = "running" /\ phase' = "crashed"
      /\ job' = job /\ step' = step /\ held' = held /\ live' = live /\ stopped' = stopped
      /\ latched' = latched /\ stopFn' = stopFn /\ teardown' = teardown /\ seekReq' = seekReq
      /\ seeks' = seeks /\ failed' = failed /\ sessErr' = sessErr /\ resetLost' = resetLost
      /\ lateReset' = lateReset /\ Steps' = Steps
  BY DEF PushCrashes, Steps
<1>2. PipelineTypes'
  BY <1>1 DEF PipelineIInv, PipelineTypes
<1>3. resetLost /\ "muxer" \notin Guarded(job)
  <2>1. \/ TakesVideo /\ ~(UsedByVideo(job) \ live \subseteq Guarded(job))
        \/ TakesAudio /\ ~(UsedByAudio(job) \ live \subseteq Guarded(job))
    BY DEF PushCrashes
  <2> QED BY <1>1, <2>1, PushesFind
<1>4. job.kind \in {"mseCopy", "mseTranscode"}
  BY <1>3 DEF PipelineIInv, StoppedRight, WritesSegments, CopiesToSegments, Guarded
<1> QED BY <1>1, <1>2, <1>3, <1>4 DEF PipelineIInv, BuildingRight, ReadyRight, StoppedRight, CrashCauses, WritesSegments, CopiesToSegments, Transcodes

\* A stream copy does nothing on a seek.
LEMMA SeekPlainKeeps == ASSUME PipelineIInv, SeekPlain PROVE PipelineIInv'
<1>1. /\ phase = "running" /\ seekReq' = FALSE
      /\ job' = job /\ phase' = phase /\ step' = step /\ held' = held /\ live' = live
      /\ stopped' = stopped /\ latched' = latched /\ stopFn' = stopFn /\ teardown' = teardown
      /\ seeks' = seeks /\ failed' = failed /\ sessErr' = sessErr /\ resetLost' = resetLost
      /\ lateReset' = lateReset /\ Steps' = Steps
  BY DEF SeekPlain, Steps
<1>2. PipelineTypes'
  BY <1>1 DEF PipelineIInv, PipelineTypes
<1> QED BY <1>1, <1>2 DEF PipelineIInv, BuildingRight, ReadyRight, StoppedRight, CrashCauses, WritesSegments, CopiesToSegments, Transcodes

\* A reset frees the FIFO, makes the resampler again and, while the pipeline is
\* not stopped, the muxer.
LEMMA SeekResetKeeps == ASSUME PipelineIInv, SeekReset PROVE PipelineIInv'
<1>1. /\ phase = "running" /\ seekReq' = FALSE /\ latched' = FALSE
      /\ live' = ResetParts \cup (IF WritesSegments(job) /\ ~stopped THEN {"muxer"} ELSE {})
      /\ resetLost' = (resetLost /\ stopped) /\ lateReset' = (lateReset \/ stopped)
      /\ job' = job /\ phase' = phase /\ step' = step /\ held' = held /\ stopped' = stopped
      /\ stopFn' = stopFn /\ teardown' = teardown /\ seeks' = seeks /\ failed' = failed
      /\ sessErr' = sessErr /\ Steps' = Steps
  BY DEF SeekReset, Steps
<1>2. live' \subseteq held
  BY <1>1 DEF ResetParts, PipelineIInv, StoppedRight, ReadyRight
<1>3. ReadyRight'
  BY <1>1 DEF ResetParts, PipelineIInv, StoppedRight, ReadyRight, Transcodes
<1>4. StoppedRight'
  BY <1>1, <1>2 DEF ResetParts, PipelineIInv, StoppedRight, WritesSegments, CopiesToSegments
<1>5. PipelineTypes'
  BY <1>1, <1>2 DEF PipelineIInv, PipelineTypes
<1> QED BY <1>1, <1>3, <1>4, <1>5 DEF PipelineIInv, BuildingRight, CrashCauses

\* A reset that fails leaves no muxer.
LEMMA SeekResetFailsKeeps == ASSUME PipelineIInv, SeekResetFails PROVE PipelineIInv'
<1>1. /\ phase = "running" /\ seekReq' = FALSE /\ latched' = FALSE /\ WritesSegments(job) /\ ~stopped
      /\ live' = ResetParts \ {"muxer"} /\ resetLost' = TRUE
      /\ job' = job /\ phase' = phase /\ step' = step /\ held' = held /\ stopped' = stopped
      /\ stopFn' = stopFn /\ teardown' = teardown /\ seeks' = seeks /\ failed' = failed
      /\ sessErr' = sessErr /\ lateReset' = lateReset /\ Steps' = Steps
  BY DEF SeekResetFails, Steps
<1>2. live' \subseteq held
  BY <1>1 DEF ResetParts, PipelineIInv, StoppedRight
<1>3. ReadyRight'
  BY <1>1 DEF ResetParts, PipelineIInv, StoppedRight, ReadyRight, Transcodes
<1>4. StoppedRight'
  BY <1>1, <1>2 DEF PipelineIInv, StoppedRight, WritesSegments, CopiesToSegments
<1>5. PipelineTypes'
  BY <1>1, <1>2 DEF PipelineIInv, PipelineTypes
<1> QED BY <1>1, <1>3, <1>4, <1>5 DEF PipelineIInv, BuildingRight, CrashCauses

\* A seek that is asked for waits.
LEMMA RequestSeekKeeps == ASSUME PipelineIInv, RequestSeek PROVE PipelineIInv'
<1>1. /\ phase = "running" /\ seekReq' = TRUE /\ seeks' = seeks + 1 /\ seeks < MaxSeeks
      /\ job' = job /\ phase' = phase /\ step' = step /\ held' = held /\ live' = live
      /\ stopped' = stopped /\ latched' = latched /\ stopFn' = stopFn /\ teardown' = teardown
      /\ failed' = failed /\ sessErr' = sessErr /\ resetLost' = resetLost /\ lateReset' = lateReset
      /\ Steps' = Steps
  BY DEF RequestSeek, Steps
<1>2. PipelineTypes'
  BY <1>1, PipelineAssumption DEF PipelineIInv, PipelineTypes
<1> QED BY <1>1, <1>2 DEF PipelineIInv, BuildingRight, ReadyRight, StoppedRight, CrashCauses, WritesSegments, CopiesToSegments, Transcodes

\* The session is cancelled after its pipeline is stopped.
LEMMA CancelKeeps == ASSUME PipelineIInv, Cancel PROVE PipelineIInv'
<1>1. /\ teardown' = "cancelled"
      /\ job' = job /\ phase' = phase /\ step' = step /\ held' = held /\ live' = live
      /\ stopped' = stopped /\ latched' = latched /\ stopFn' = stopFn /\ seekReq' = seekReq
      /\ seeks' = seeks /\ failed' = failed /\ sessErr' = sessErr /\ resetLost' = resetLost
      /\ lateReset' = lateReset /\ Steps' = Steps
  BY DEF Cancel, Steps
<1>2. PipelineTypes'
  BY <1>1 DEF PipelineIInv, PipelineTypes
<1>3. AsBuilt => AsBuilt'
  BY <1>1 DEF AsBuilt, CopiesToSegments
<1> QED BY <1>1, <1>2, <1>3 DEF PipelineIInv, BuildingRight, ReadyRight, StoppedRight, CrashCauses, WritesSegments, CopiesToSegments, Transcodes

\* A stop from outside does something only after the pipeline was handed over.
LEMMA StopPipelineKeeps == ASSUME PipelineIInv, StopPipeline PROVE PipelineIInv'
<1>1. /\ phase # "crashed" /\ teardown' = "stopped" /\ stopFn' = FALSE
      /\ (stopFn /\ live' = ClosedParts /\ stopped' = TRUE) \/ (live' = live /\ stopped' = stopped)
      /\ job' = job /\ phase' = phase /\ step' = step /\ held' = held /\ latched' = latched
      /\ seekReq' = seekReq /\ seeks' = seeks /\ failed' = failed /\ sessErr' = sessErr
      /\ resetLost' = resetLost /\ lateReset' = lateReset /\ Steps' = Steps
  BY DEF StopPipeline, Steps
<1>2. CASE stopFn /\ live' = ClosedParts /\ stopped' = TRUE
  <2>1. live' \subseteq live /\ live' \subseteq (IF lateReset THEN {"audioResample"} ELSE {})
    BY <1>2 DEF ClosedParts, PipelineIInv, StoppedRight
  <2>2. PipelineTypes'
    BY <1>1, <1>2, <2>1 DEF PipelineIInv, PipelineTypes
  <2> QED BY <1>1, <1>2, <2>1, <2>2 DEF PipelineIInv, BuildingRight, ReadyRight, StoppedRight, CrashCauses, WritesSegments, CopiesToSegments, Transcodes
<1>3. CASE live' = live /\ stopped' = stopped
  <2>1. PipelineTypes'
    BY <1>1, <1>3 DEF PipelineIInv, PipelineTypes
  <2>2. AsBuilt => AsBuilt'
    BY <1>1, <1>3 DEF AsBuilt, CopiesToSegments
  <2> QED BY <1>1, <1>3, <2>1, <2>2 DEF PipelineIInv, BuildingRight, ReadyRight, StoppedRight, CrashCauses, WritesSegments, CopiesToSegments, Transcodes
<1> QED BY <1>1, <1>2, <1>3

-----------------------------------------------------------------------------
(* The theorem *)

\* Nothing is built at first.
LEMMA PipelineStart == PipelineInit => PipelineIInv
<1> SUFFICES ASSUME PipelineInit PROVE PipelineIInv
  OBVIOUS
<1>1. job \in JobType
  BY PipelineAssumption DEF PipelineInit
<1>2. Len(Steps) \in Nat \ {0} /\ Acquired(job, 1) = {}
  <2>1. Len(Steps) \in Nat \ {0}
    BY <1>1, ConstructorsRight DEF ConstructorRight, Steps
  <2>2. 1 \in 1 .. Len(Steps)
    BY <2>1
  <2> QED BY <1>1, <2>1, <2>2, AcquiredGrows DEF Steps
<1>3. PipelineTypes
  <2>1. step \in 1 .. Len(Steps) + 1
    BY <1>2 DEF PipelineInit
  <2>2. seeks \in 0 .. MaxSeeks
    BY PipelineAssumption DEF PipelineInit
  <2> QED BY <2>1, <2>2 DEF PipelineInit, PipelineTypes
<1> QED BY <1>2, <1>3 DEF PipelineInit, PipelineIInv, BuildingRight, AsBuilt, ReadyRight, StoppedRight, CrashCauses

\* Every step keeps the invariant.
LEMMA PipelineKeeps == PipelineIInv /\ [PipelineNext]_pipelineVars => PipelineIInv'
<1> SUFFICES ASSUME PipelineIInv, [PipelineNext]_pipelineVars PROVE PipelineIInv'
  OBVIOUS
<1>1. CASE UNCHANGED pipelineVars
  <2>1. job' = job /\ phase' = phase /\ Steps' = Steps
        /\ step' = step /\ held' = held /\ live' = live /\ stopped' = stopped /\ latched' = latched
        /\ stopFn' = stopFn /\ teardown' = teardown /\ seekReq' = seekReq /\ seeks' = seeks
        /\ failed' = failed /\ sessErr' = sessErr /\ resetLost' = resetLost /\ lateReset' = lateReset
        /\ Steps' = Steps
    BY <1>1 DEF pipelineVars, Steps
  <2>2. PipelineTypes' /\ (AsBuilt => AsBuilt')
    BY <2>1 DEF PipelineIInv, PipelineTypes, AsBuilt, CopiesToSegments
  <2> QED BY <2>1, <2>2 DEF PipelineIInv, BuildingRight, ReadyRight, StoppedRight, CrashCauses, WritesSegments, CopiesToSegments, Transcodes
<1>2. CASE Loop
  BY <1>2, PushVideoFailsKeeps, PushAudioKeeps, PushAudioFailsKeeps, PushCrashesKeeps, EndOfStreamKeeps,
     ReadFailsKeeps, SeeCancelKeeps, FinishKeeps, SeekPlainKeeps, SeekResetKeeps, SeekResetFailsKeeps DEF Loop
<1> QED BY <1>1, <1>2, ConstructKeeps, RequestSeekKeeps, StopPipelineKeeps, CancelKeeps DEF PipelineNext

\* For any jobs that a session may be asked to run and any seeks: while a
\* pipeline takes packets, what a push touches is allocated; when its goroutine
\* has ended, all it acquired is released, on every failure path of the seven
\* constructors; and the process is brought down in the two ways CrashCauses
\* names only.
THEOREM PipelineIsSound == PipelineSpec => []PipelineSound
<1>1. PipelineIInv => PipelineSound
  <2>1. ASSUME PipelineIInv PROVE ReadyWhileRunning
    BY <2>1, PushesFind DEF ReadyWhileRunning
  <2>2. ASSUME PipelineIInv PROVE ReleasedAtEnd
    BY <2>2 DEF ReleasedAtEnd, PipelineIInv, StoppedRight
  <2> QED BY <2>1, <2>2 DEF PipelineSound, PipelineIInv
<1> QED BY <1>1, PipelineStart, PipelineKeeps, PTL DEF PipelineSpec

=============================================================================
