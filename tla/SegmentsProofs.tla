--------------------------- MODULE SegmentsProofs ---------------------------
(***************************************************************************)
(* The safety of Segments for any tracks, seekers and bounds.              *)
(*                                                                         *)
(* The two halves of the invariant meet in the read goroutine: what a seek *)
(* does to the generation and its seekers, and what fragments, files,      *)
(* events and index say of the same numbers.                               *)
(***************************************************************************)
EXTENDS Segments, SequenceTheorems, FiniteSetTheorems, TLAPS

(* The seeks that were not refused; each of them is one epoch. *)
Taken == {k \in Seekers : seeker[k].pc # "idle" /\ ~seeker[k].refused}

(* A seek raises the generation once, after it was taken and before it is  *)
(* answered, and no more seeks are counted than were asked for.            *)
SeekOrder ==
  /\ generation = IF rpc = "bump" THEN epoch - 1 ELSE epoch
  /\ epoch + Len(seekCh) <= 1 + Cardinality(Taken)
  /\ \A i \in 1 .. Len(seekCh) : seeker[seekCh[i]].pc # "idle"
  /\ \A k \in Seekers : seeker[k].pc = "idle" => ~seeker[k].refused
  /\ \A k \in Seekers : seeker[k].asked <= generation
  /\ \A k \in Seekers : seeker[k].pc = "returned" /\ ~seeker[k].refused =>
                          seeker[k].asked < generation
  /\ rpc \notin {"read", "ended"} => serving \in Seekers /\ seeker[serving].pc # "idle"
  /\ rpc \in {"inits", "index", "muxer", "answer"} => seeker[serving].asked < generation

(* What this pipeline has written is below the number it writes next, and  *)
(* that number is a file or the one after the last.                        *)
Onward(f, s, p) ==
  /\ p => s <= MaxSegments
  /\ s <= Len(f) + 1
  /\ \A n \in 1 .. Len(f) : f[n] >= 1 => n < s

NumbersOnward == \A t \in Tracks : Onward(files[t], seq[t], pending[t])

(* The index lists files that are there. *)
Listed == \A t \in Tracks : index[t] \in Seq(1 .. Len(files[t]))

(* A request that polls is for a number of a track. *)
RequestKnown == request = NoRequest \/ (request.track \in Tracks /\ request.seq \in Polls)

Event == [kind : {"init", "segment"}, track : Tracks, seq : 0 .. MaxSegments]

IsSegment(e, t) == e.kind = "segment" /\ e.track = t

(* The events of a track come in the order of its segments and, in a       *)
(* directory that was empty, after all that the index has.                 *)
Queue(ix, ev, sq, empty) ==
  \A t \in Tracks :
    /\ \A i \in 1 .. Len(ev) : IsSegment(ev[i], t) => 1 <= ev[i].seq /\ ev[i].seq < sq[t]
    /\ \A i, j \in 1 .. Len(ev) : i < j /\ IsSegment(ev[i], t) /\ IsSegment(ev[j], t) => ev[i].seq < ev[j].seq
    /\ empty => \A i \in 1 .. Len(ix[t]) :
                  /\ ix[t][i] < sq[t]
                  /\ \A j \in 1 .. Len(ev) : IsSegment(ev[j], t) => ix[t][i] < ev[j].seq

(* The inductive invariant. *)
IInv ==
  /\ SegmentsInvariant
  /\ SeekOrder
  /\ NumbersOnward /\ Listed /\ Queue(index, events, seq, fresh) /\ RequestKnown

-----------------------------------------------------------------------------
(* Operators *)

(* The numbers up to n are n numbers. *)
LEMMA UpTo == \A n \in Nat : IsFiniteSet(1 .. n) /\ Cardinality(1 .. n) = n
  BY FS_Interval

(* Where sort.Strings puts a new name: after those that are not greater. *)
LEMMA AddedPlace ==
  ASSUME NEW M \in Nat, NEW idx \in Seq(1 .. M), NEW n \in 1 .. M
  PROVE  \E k \in 1 .. Len(idx) + 1 :
           /\ k = Cardinality({i \in DOMAIN idx : idx[i] <= n}) + 1
           /\ Added(idx, n) = SubSeq(idx, 1, k - 1) \o <<n>> \o SubSeq(idx, k, Len(idx))
<1> DEFINE S == {i \in DOMAIN idx : idx[i] <= n}
<1>1. DOMAIN idx = 1 .. Len(idx) /\ Len(idx) \in Nat
  OBVIOUS
<1>2. Cardinality(S) \in 0 .. Len(idx)
  <2>1. IsFiniteSet(1 .. Len(idx)) /\ Cardinality(1 .. Len(idx)) = Len(idx)
    BY <1>1, UpTo
  <2>2. S \in SUBSET (1 .. Len(idx))
    BY <1>1
  <2> HIDE DEF S
  <2>3. IsFiniteSet(S) /\ Cardinality(S) <= Cardinality(1 .. Len(idx))
    BY <2>1, <2>2, FS_Subset
  <2>4. Cardinality(S) \in Nat
    BY <2>3, FS_CardinalityType
  <2> QED BY <1>1, <2>1, <2>3, <2>4
<1>3. PICK k \in 1 .. Len(idx) + 1 : k = Cardinality(S) + 1
  <2> HIDE DEF S
  <2>1. Cardinality(S) + 1 \in 1 .. Len(idx) + 1
    BY <1>1, <1>2
  <2> QED BY <2>1, Zenon
<1>4. Added(idx, n) = InsertAt(idx, k, n)
  BY <1>3, Zenon DEF Added
<1>5. InsertAt(idx, k, n) = SubSeq(idx, 1, k - 1) \o <<n>> \o SubSeq(idx, k, Len(idx))
  BY DEF InsertAt
<1> QED BY <1>3, <1>4, <1>5, Zenon

(* The index stays a list of segment numbers. *)
LEMMA AddedType ==
  ASSUME NEW M \in Nat, NEW idx \in Seq(1 .. M), NEW n \in 1 .. M
  PROVE  Added(idx, n) \in Seq(1 .. M)
<1>1. PICK k \in 1 .. Len(idx) + 1 : Added(idx, n) = SubSeq(idx, 1, k - 1) \o <<n>> \o SubSeq(idx, k, Len(idx))
  BY AddedPlace
<1>2. SubSeq(idx, 1, k - 1) \in Seq(1 .. M) /\ SubSeq(idx, k, Len(idx)) \in Seq(1 .. M) /\ <<n>> \in Seq(1 .. M)
  OBVIOUS
<1> QED BY <1>1, <1>2, ConcatProperties

(* A number after all others goes to the end. *)
LEMMA AddedLast ==
  ASSUME NEW M \in Nat, NEW idx \in Seq(1 .. M), NEW n \in 1 .. M,
         \A i \in 1 .. Len(idx) : idx[i] < n
  PROVE  Added(idx, n) = Append(idx, n)
<1>1. PICK k \in 1 .. Len(idx) + 1 :
        /\ k = Cardinality({i \in DOMAIN idx : idx[i] <= n}) + 1
        /\ Added(idx, n) = SubSeq(idx, 1, k - 1) \o <<n>> \o SubSeq(idx, k, Len(idx))
  BY AddedPlace
<1>2. {i \in DOMAIN idx : idx[i] <= n} = 1 .. Len(idx)
  <2>1. \A i \in 1 .. Len(idx) : idx[i] <= n
    OBVIOUS
  <2>2. DOMAIN idx = 1 .. Len(idx)
    OBVIOUS
  <2> QED BY <2>1, <2>2
<1>3. k = Len(idx) + 1 /\ k - 1 = Len(idx)
  <2>1. k = Cardinality(1 .. Len(idx)) + 1
    BY <1>1, <1>2, Zenon
  <2>2. Len(idx) \in Nat
    OBVIOUS
  <2> QED BY <2>1, <2>2, UpTo
<1>4. SubSeq(idx, 1, Len(idx)) = idx /\ SubSeq(idx, Len(idx) + 1, Len(idx)) = << >>
  OBVIOUS
<1>5. idx \o <<n>> = Append(idx, n) /\ Append(idx, n) \o << >> = Append(idx, n)
  OBVIOUS
<1>6. Added(idx, n) = SubSeq(idx, 1, Len(idx)) \o <<n>> \o SubSeq(idx, Len(idx) + 1, Len(idx))
  BY <1>1, <1>3, Zenon
<1> QED BY <1>4, <1>5, <1>6, Zenon

(* A list is a prefix of itself and of what is appended to it. *)
LEMMA PrefixSelf ==
  ASSUME NEW s \in Seq(Nat), NEW n \in Nat
  PROVE  IsPrefix(s, s) /\ IsPrefix(s, Append(s, n))
<1>1. SubSeq(Append(s, n), 1, Len(s)) = SubSeq(s, 1, Len(s))
  OBVIOUS
<1> QED BY <1>1 DEF IsPrefix

(* flushFragment of one segment: the file of that number, and only it. *)
Put(f, s, v) == IF s <= Len(f) THEN ReplaceAt(f, s, v) ELSE Append(f, v)

\* Writing the next number of a track keeps its files, one epoch per file, and
\* what the new epoch has written lies before the next number.
LEMMA WriteOne ==
  ASSUME NEW M \in Nat, NEW f \in Seq(0 .. M), NEW s \in Nat \ {0}, NEW v \in 0 .. M,
         s <= Len(f) + 1, \A n \in 1 .. Len(f) : f[n] >= 1 => n < s
  PROVE  /\ Put(f, s, v) \in Seq(0 .. M) /\ s + 1 <= Len(Put(f, s, v)) + 1 /\ Len(f) <= Len(Put(f, s, v))
         /\ \A n \in 1 .. Len(Put(f, s, v)) : Put(f, s, v)[n] >= 1 => n < s + 1
         /\ \A n \in 1 .. Len(f) : f[n] >= 1 => Put(f, s, v)[n] = f[n]
<1>0. PICK g : g = Put(f, s, v)
  OBVIOUS
<1>1. CASE s <= Len(f)
  <2>1. g = [f EXCEPT ![s] = v] /\ s \in 1 .. Len(f)
    BY <1>0, <1>1 DEF Put, ReplaceAt
  <2>2. g \in Seq(0 .. M) /\ Len(g) = Len(f)
    BY <2>1
  <2>3. \A n \in 1 .. Len(f) : n # s => g[n] = f[n]
    BY <2>1, ExceptSeq
  <2>4. \A n \in 1 .. Len(f) : f[n] >= 1 => n # s
    OBVIOUS
  <2>5. \A n \in 1 .. Len(g) : g[n] >= 1 => n < s + 1
    BY <2>1, <2>2, <2>3
  <2> QED BY <1>0, <1>1, <2>2, <2>3, <2>4, <2>5
<1>2. CASE s > Len(f)
  <2>1. s = Len(f) + 1 /\ g = Append(f, v)
    BY <1>0, <1>2 DEF Put
  <2>2. Append(f, v) \in Seq(0 .. M) /\ Len(Append(f, v)) = Len(f) + 1
    OBVIOUS
  <2>3. \A n \in 1 .. Len(f) : Append(f, v)[n] = f[n]
    OBVIOUS
  <2>4. g \in Seq(0 .. M) /\ Len(g) = s
    BY <2>1, <2>2
  <2>5. \A n \in 1 .. Len(g) : n < s + 1
    BY <2>4
  <2>6. \A n \in 1 .. Len(f) : g[n] = f[n]
    BY <2>1, <2>3
  <2>7. Len(f) <= Len(g)
    BY <2>1, <2>4
  <2> QED BY <1>0, <2>4, <2>5, <2>6, <2>7
<1> QED BY <1>1, <1>2

(* A channel of one place that is not empty holds one request. *)
LEMMA OneElement ==
  ASSUME NEW S, NEW c \in Seq(S), c # << >>, Len(c) <= 1
  PROVE  Len(c) = 1 /\ c[1] \in S
<1>1. Len(c) \in Nat \ {0}
  BY EmptySeq
<1>2. PICK n \in Nat \ {0} : n = Len(c)
  BY <1>1
<1>3. n = 1
  BY <1>2
<1> QED BY <1>2, <1>3

(* The order of a seek's phases. *)
LEMMA Phases ==
  /\ AfterPhase("read") = "bump" /\ AfterPhase("bump") = "inits" /\ AfterPhase("inits") = "index"
  /\ AfterPhase("index") = "muxer" /\ AfterPhase("muxer") = "answer" /\ AfterPhase("answer") = "read"
  BY DEF AfterPhase

-----------------------------------------------------------------------------
(* Seeks *)

Seeker == [pc : {"idle", "waiting", "returned", "reported"}, asked : 0 .. MaxEpoch, answer : 0 .. MaxEpoch,
           refused : BOOLEAN]

SeekTypes ==
  /\ rpc \in {"read", "bump", "inits", "index", "muxer", "answer", "ended"}
  /\ seekCh \in Seq(Seekers) /\ Len(seekCh) <= 1
  /\ serving \in Seekers \cup {NoOne}
  /\ epoch \in 1 .. MaxEpoch /\ generation \in 1 .. MaxEpoch
  /\ seeker \in [Seekers -> Seeker]

(* There are no more epochs than seekers, and one. *)
LEMMA EpochsBounded ==
  ASSUME NEW S \in SUBSET Seekers
  PROVE  MaxEpoch \in Nat /\ IsFiniteSet(S) /\ Cardinality(S) \in Nat /\ 1 + Cardinality(S) <= MaxEpoch
<1>1. IsFiniteSet(Seekers)
  BY SegmentsAssumption
<1>2. IsFiniteSet(S) /\ Cardinality(S) <= Cardinality(Seekers)
  BY <1>1, FS_Subset
<1>3. Cardinality(S) \in Nat /\ Cardinality(Seekers) \in Nat
  BY <1>1, <1>2, FS_CardinalityType
<1> QED BY <1>2, <1>3 DEF MaxEpoch

(* The half of the invariant that seeks are about. *)
SeekHalf == SeekTypes /\ SeekOrder /\ SeekBumped

(* A request that finds room is one more seek to come. *)
LEMMA RequestStep ==
  ASSUME SeekHalf, NEW k \in Seekers, RequestSeek(k)
  PROVE  SeekHalf'
<1> USE DEF SeekHalf, SeekTypes
<1>1. /\ seeker[k].pc = "idle" /\ Len(seekCh) < 1
      /\ seekCh' = Append(seekCh, k)
      /\ seeker' = [seeker EXCEPT ![k].pc = "waiting", ![k].asked = generation]
      /\ UNCHANGED <<rpc, serving, epoch, generation>>
  BY DEF RequestSeek, ChannelHasRoom, watchVars
<1>2. Len(seekCh) = 0 /\ seekCh' \in Seq(Seekers) /\ Len(seekCh') = 1 /\ seekCh'[1] = k
  <2>1. seekCh \in Seq(Seekers) /\ Len(seekCh) = 0
    BY <1>1
  <2> QED BY <1>1, <2>1
<1>3. MaxEpoch \in Nat /\ \A S \in SUBSET Seekers : IsFiniteSet(S) /\ Cardinality(S) \in Nat
  BY EpochsBounded
<1>4. /\ seeker[k] \in Seeker
      /\ seeker'[k].pc = "waiting" /\ seeker'[k].asked = generation /\ seeker'[k].refused = seeker[k].refused
      /\ \A x \in Seekers : x # k => seeker'[x] = seeker[x]
      /\ seeker' \in [Seekers -> Seeker]
  <2>1. seeker \in [Seekers -> Seeker] /\ seeker[k] \in Seeker /\ generation \in 0 .. MaxEpoch
    BY <1>3
  <2>2. PICK s : s = [seeker[k] EXCEPT !.pc = "waiting", !.asked = generation]
    OBVIOUS
  <2>3. s \in Seeker /\ s.pc = "waiting" /\ s.asked = generation /\ s.refused = seeker[k].refused
    BY <2>1, <2>2 DEF Seeker
  <2>4. seeker' = [seeker EXCEPT ![k] = s]
    BY <1>1, <2>1, <2>2 DEF Seeker
  <2> QED BY <2>1, <2>3, <2>4
<1>5. Taken' = Taken \cup {k} /\ k \notin Taken
  BY <1>1, <1>4 DEF Taken, SeekOrder
<1>6. Cardinality(Taken') = Cardinality(Taken) + 1
  <2>1. IsFiniteSet(Taken)
    BY <1>3 DEF Taken
  <2> QED BY <1>5, <2>1, FS_AddElement
<1>7. SeekTypes'
  BY <1>1, <1>2, <1>4
<1>8. epoch' + Len(seekCh') <= 1 + Cardinality(Taken')
  <2>1. Cardinality(Taken) \in Nat /\ Len(seekCh) = 0 /\ Len(seekCh') = 1 /\ epoch \in Nat
    BY <1>2, <1>3 DEF Taken
  <2> QED BY <1>1, <1>6, <2>1 DEF SeekOrder
<1>9. SeekOrder'
  BY <1>1, <1>2, <1>4, <1>8 DEF SeekOrder
<1>10. SeekBumped'
  BY <1>1, <1>4 DEF SeekBumped
<1> QED BY <1>7, <1>9, <1>10

(* A request that is refused, and the answer of MSESeek, leave the seeks as *)
(* they are.                                                               *)
LEMMA AnswerStep ==
  ASSUME SeekHalf, NEW k \in Seekers, SeekRefused(k) \/ ReportGeneration(k)
  PROVE  SeekHalf'
<1> USE DEF SeekHalf, SeekTypes
<1>1. UNCHANGED <<rpc, serving, epoch, generation, seekCh>>
  BY DEF SeekRefused, ReportGeneration, readVars, watchVars
<1>2. MaxEpoch \in Nat
  BY EpochsBounded
<1>3. CASE SeekRefused(k)
  <2>1. /\ seeker[k].pc = "idle" /\ seeker[k] \in Seeker
        /\ seeker'[k].pc = "returned" /\ seeker'[k].asked = generation /\ seeker'[k].refused = TRUE
        /\ \A x \in Seekers : x # k => seeker'[x] = seeker[x]
        /\ seeker' \in [Seekers -> Seeker]
    <3>1. seeker \in [Seekers -> Seeker] /\ seeker[k] \in Seeker /\ generation \in 0 .. MaxEpoch
      BY <1>2
    <3>2. PICK s : s = [seeker[k] EXCEPT !.pc = "returned", !.asked = generation, !.refused = TRUE]
      OBVIOUS
    <3>3. s \in Seeker /\ s.pc = "returned" /\ s.asked = generation /\ s.refused = TRUE
      BY <3>1, <3>2 DEF Seeker
    <3>4. seeker[k].pc = "idle" /\ seeker' = [seeker EXCEPT ![k] = s]
      BY <1>3, <3>1, <3>2 DEF SeekRefused, Seeker
    <3> QED BY <3>1, <3>3, <3>4
  <2>2. Taken' = Taken
    BY <2>1 DEF Taken
  <2> QED BY <1>1, <2>1, <2>2 DEF SeekOrder, SeekBumped
<1>4. CASE ReportGeneration(k)
  <2>1. /\ seeker[k].pc = "returned" /\ seeker[k] \in Seeker
        /\ seeker'[k].pc = "reported" /\ seeker'[k].asked = seeker[k].asked
        /\ seeker'[k].refused = seeker[k].refused /\ seeker'[k].answer = generation
        /\ \A x \in Seekers : x # k => seeker'[x] = seeker[x]
        /\ seeker' \in [Seekers -> Seeker]
    <3>1. seeker \in [Seekers -> Seeker] /\ seeker[k] \in Seeker /\ generation \in 0 .. MaxEpoch
      BY <1>2
    <3>2. PICK s : s = [seeker[k] EXCEPT !.pc = "reported", !.answer = generation]
      OBVIOUS
    <3>3. /\ s \in Seeker /\ s.pc = "reported" /\ s.answer = generation
          /\ s.asked = seeker[k].asked /\ s.refused = seeker[k].refused
      BY <3>1, <3>2 DEF Seeker
    <3>4. seeker[k].pc = "returned" /\ seeker' = [seeker EXCEPT ![k] = s]
      BY <1>4, <3>1, <3>2 DEF ReportGeneration, Seeker
    <3> QED BY <3>1, <3>3, <3>4
  <2>2. Taken' = Taken
    BY <2>1 DEF Taken
  <2> QED BY <1>1, <2>1, <2>2 DEF SeekOrder, SeekBumped
<1> QED BY <1>3, <1>4

(* The phases of a seek. *)
LEMMA PhaseStep ==
  ASSUME SeekHalf, SeekSteps
  PROVE  SeekHalf'
<1> USE DEF SeekHalf, SeekTypes
<1>1. CASE TakeSeek
  <2>1. /\ seekCh # << >> /\ serving' = seekCh[1] /\ seekCh' = << >> /\ epoch' = epoch + 1 /\ rpc' = "bump"
        /\ rpc = "read" /\ UNCHANGED <<generation, seeker>>
    BY <1>1, Phases DEF TakeSeek, watchVars
  <2>2. serving' \in Seekers /\ Len(seekCh) = 1 /\ seeker[serving'].pc # "idle" /\ Len(seekCh') = 0
    <3>1. Len(seekCh) = 1 /\ seekCh[1] \in Seekers
      BY <2>1, OneElement
    <3> QED BY <2>1, <3>1 DEF SeekOrder
  <2>3. MaxEpoch \in Nat /\ Cardinality(Taken) \in Nat /\ 1 + Cardinality(Taken) <= MaxEpoch
    BY EpochsBounded DEF Taken
  <2>4. Taken' = Taken
    BY <2>1 DEF Taken
  <2>5. epoch + 1 <= 1 + Cardinality(Taken) /\ epoch + 1 \in 1 .. MaxEpoch
    BY <2>2, <2>3 DEF SeekOrder
  <2>6. SeekTypes'
    BY <2>1, <2>2, <2>5
  <2> QED BY <2>1, <2>2, <2>4, <2>5, <2>6 DEF SeekOrder, SeekBumped
<1>2. CASE BumpGeneration
  <2>1. /\ rpc = "bump" /\ rpc' = "inits" /\ generation' = generation + 1
        /\ UNCHANGED <<seekCh, serving, epoch, seeker>>
    BY <1>2, Phases DEF BumpGeneration
  <2>2. generation' = epoch /\ Taken' = Taken /\ MaxEpoch \in Nat
    BY <2>1, EpochsBounded DEF SeekOrder, Taken
  <2>3. \A k \in Seekers : seeker[k].asked \in Nat /\ seeker[k].asked < generation'
    BY <2>1, <2>2 DEF SeekOrder, Seeker
  <2> QED BY <2>1, <2>2, <2>3 DEF SeekOrder, SeekBumped
<1>3. CASE \/ ClearInits \/ ClearIndex \/ MuxerReset \/ \E t \in Tracks : ResetTrack(t)
  <2>1. UNCHANGED <<seekCh, serving, epoch, generation, seeker>>
    BY <1>3 DEF ClearInits, ClearIndex, MuxerReset, ResetTrack, watchVars
  <2>2. rpc \in {"inits", "index", "muxer"} /\ rpc' \in {"index", "muxer", "answer"}
    BY <1>3, Phases DEF ClearInits, ClearIndex, MuxerReset, ResetTrack
  <2>3. Taken' = Taken
    BY <2>1 DEF Taken
  <2> QED BY <2>1, <2>2, <2>3 DEF SeekOrder, SeekBumped
<1>4. CASE SendResult
  <2>1. /\ rpc = "answer" /\ rpc' = "read" /\ serving' = NoOne /\ serving \in Seekers
        /\ seeker' = [seeker EXCEPT ![serving].pc = "returned"]
        /\ UNCHANGED <<seekCh, epoch, generation>>
    BY <1>4, Phases DEF SendResult, watchVars, SeekOrder
  <2>2. /\ seeker[serving] \in Seeker /\ seeker[serving].pc # "idle"
        /\ seeker'[serving].pc = "returned" /\ seeker'[serving].asked = seeker[serving].asked
        /\ seeker'[serving].refused = seeker[serving].refused
        /\ \A x \in Seekers : x # serving => seeker'[x] = seeker[x]
        /\ seeker' \in [Seekers -> Seeker]
    BY <2>1 DEF Seeker, SeekOrder
  <2>3. Taken' = Taken
    BY <2>1, <2>2 DEF Taken
  <2>4. \A i \in 1 .. Len(seekCh) : seekCh[i] \in Seekers
    OBVIOUS
  <2> QED BY <2>1, <2>2, <2>3, <2>4 DEF SeekOrder, SeekBumped
<1> QED BY <1>1, <1>2, <1>3, <1>4 DEF SeekSteps

(* Nothing happens to a seek; the loop may end between two. *)
NoSeek ==
  /\ UNCHANGED <<seekCh, serving, epoch, generation, seeker>>
  /\ \/ rpc' = rpc
     \/ rpc = "read" /\ rpc' = "ended"

\* A step that leaves the seeks alone keeps what is said of them.
LEMMA NoSeekStep ==
  ASSUME SeekHalf, NoSeek
  PROVE  SeekHalf'
<1>1. Taken' = Taken
  BY DEF NoSeek, Taken
<1> QED BY <1>1 DEF NoSeek, SeekHalf, SeekTypes, SeekOrder, SeekBumped

(* The rest of the session does not touch a seek.                          *)
LEMMA SeekStep ==
  ASSUME SeekHalf, [Next]_vars
  PROVE  SeekHalf'
<1> USE DEF readVars, watchVars, clientVars
<1>1. ASSUME NEW t \in Tracks, Fill(t) \/ Flush(t) PROVE SeekHalf'
  <2>1. NoSeek
    BY <1>1 DEF Fill, Flush, NoSeek
  <2> QED BY <2>1, NoSeekStep
<1>2. ASSUME Stop \/ LoopEnds PROVE SeekHalf'
  <2>1. NoSeek
    BY <1>2 DEF Stop, LoopEnds, Close, NoSeek
  <2> QED BY <2>1, NoSeekStep
<1>3. ASSUME NEW k \in Seekers, RequestSeek(k) \/ SeekRefused(k) \/ ReportGeneration(k) PROVE SeekHalf'
  BY <1>3, RequestStep, AnswerStep
<1>4. ASSUME HandleEvent \/ ServeSegment \/ SegmentNotFound PROVE SeekHalf'
  <2>1. NoSeek
    BY <1>4 DEF HandleEvent, ServeSegment, SegmentNotFound, NoSeek
  <2> QED BY <2>1, NoSeekStep
<1>5. ASSUME NEW t \in Tracks, NEW n \in Polls, CheckGeneration(t, n) PROVE SeekHalf'
  <2>1. NoSeek
    BY <1>5 DEF CheckGeneration, NoSeek
  <2> QED BY <2>1, NoSeekStep
<1>6. ASSUME UNCHANGED vars PROVE SeekHalf'
  <2>1. NoSeek
    BY <1>6 DEF vars, NoSeek
  <2> QED BY <2>1, NoSeekStep
<1> QED BY <1>1, <1>2, <1>3, <1>4, <1>5, <1>6, PhaseStep DEF Next

-----------------------------------------------------------------------------
(* Fragments, files and events *)

(* One more event, or none. *)
LEMMA OnEnd ==
  ASSUME NEW S, NEW ev \in Seq(S), NEW e \in S
  PROVE  /\ ev \o << >> = ev
         /\ ev \o <<e>> \in Seq(S) /\ Len(ev \o <<e>>) = Len(ev) + 1
         /\ \A i \in 1 .. Len(ev) : (ev \o <<e>>)[i] = ev[i]
         /\ (ev \o <<e>>)[Len(ev) + 1] = e
  OBVIOUS

(* A segment that is written is announced with its number, and the number  *)
(* moves on.                                                               *)
Announced(ev, sq, t) == ev \o <<[kind |-> "segment", track |-> t, seq |-> sq[t]]>>

Onto(sq, t) == [sq EXCEPT ![t] = sq[t] + 1]

\* An event of the next number keeps the queue in order: what is listed and what
\* is still to be read are the numbers written so far, each once.
LEMMA QueueSegment ==
  ASSUME NEW ix \in [Tracks -> Seq(1 .. MaxSegments)], NEW ev \in Seq(Event),
         NEW sq \in [Tracks -> 1 .. MaxSegments + 1], NEW em \in BOOLEAN, Queue(ix, ev, sq, em),
         NEW t \in Tracks, sq[t] <= MaxSegments
  PROVE  /\ Announced(ev, sq, t) \in Seq(Event) /\ Onto(sq, t) \in [Tracks -> 1 .. MaxSegments + 1]
         /\ Queue(ix, Announced(ev, sq, t), Onto(sq, t), em)
<1>a. PICK e : e = [kind |-> "segment", track |-> t, seq |-> sq[t]]
  OBVIOUS
<1>b. PICK ev2 : ev2 = Announced(ev, sq, t)
  OBVIOUS
<1>c. PICK sq2 : sq2 = Onto(sq, t)
  OBVIOUS
<1>d. ev2 = ev \o <<e>> /\ sq2 = [sq EXCEPT ![t] = sq[t] + 1]
  BY <1>a, <1>b, <1>c DEF Announced, Onto
<1>0. MaxSegments \in Nat /\ sq[t] \in Nat \ {0}
  BY SegmentsAssumption
<1>1. e \in Event /\ e.kind = "segment" /\ e.track = t /\ e.seq = sq[t]
  BY <1>0, <1>a DEF Event
<1>2. /\ ev2 \in Seq(Event) /\ Len(ev2) = Len(ev) + 1 /\ ev2[Len(ev) + 1] = e
      /\ \A i \in 1 .. Len(ev) : ev2[i] = ev[i]
  BY <1>1, <1>d, OnEnd
<1>3. /\ sq2 \in [Tracks -> 1 .. MaxSegments + 1] /\ sq2[t] = sq[t] + 1
      /\ \A u \in Tracks : u # t => sq2[u] = sq[u]
  BY <1>0, <1>d
<1>e. \A u \in Tracks : sq[u] \in Nat /\ sq2[u] \in Nat /\ sq[u] <= sq2[u]
  <2>1. \A u \in Tracks : sq[u] \in Nat
    BY <1>0
  <2>2. sq2[t] \in Nat /\ sq[t] <= sq2[t]
    BY <1>0, <1>3
  <2>3. ASSUME NEW u \in Tracks, u # t PROVE sq2[u] \in Nat /\ sq[u] <= sq2[u]
    <3>1. sq2[u] = sq[u] /\ sq[u] \in Nat
      BY <1>3, <2>1, <2>3
    <3> QED BY <3>1
  <2> QED BY <2>1, <2>2, <2>3
<1>4. ASSUME NEW u \in Tracks, NEW i \in 1 .. Len(ev2), IsSegment(ev2[i], u)
      PROVE  \/ i \in 1 .. Len(ev) /\ ev2[i] = ev[i]
             \/ i = Len(ev) + 1 /\ ev2[i] = e /\ u = t
  BY <1>1, <1>2, <1>4 DEF IsSegment
<1>5. ASSUME NEW u \in Tracks, NEW i \in 1 .. Len(ev), IsSegment(ev[i], u)
      PROVE  ev[i].seq \in Nat /\ 1 <= ev[i].seq /\ ev[i].seq < sq[u] /\ ev[i].seq < sq2[u]
  <2>1. ev[i] \in Event /\ sq[u] \in Nat
    BY <1>0
  <2>2. ev[i].seq \in Nat
    BY <2>1 DEF Event
  <2>3. 1 <= ev[i].seq /\ ev[i].seq < sq[u]
    BY <1>5 DEF Queue
  <2>4. sq[u] \in Nat /\ sq2[u] \in Nat /\ sq[u] <= sq2[u]
    BY <1>e
  <2> QED BY <2>2, <2>3, <2>4
<1>6. ASSUME NEW u \in Tracks, NEW i \in 1 .. Len(ev2), IsSegment(ev2[i], u)
      PROVE  1 <= ev2[i].seq /\ ev2[i].seq < sq2[u]
  <2>1. CASE i \in 1 .. Len(ev) /\ ev2[i] = ev[i]
    BY <1>5, <1>6, <2>1
  <2>2. CASE ev2[i] = e /\ u = t
    <3>1. ev2[i].seq = sq[t] /\ sq2[u] = sq[t] + 1
      BY <1>1, <1>3, <2>2
    <3> QED BY <1>0, <3>1
  <2> QED BY <1>4, <1>6, <2>1, <2>2
<1>7. ASSUME NEW u \in Tracks, NEW i \in 1 .. Len(ev2), NEW j \in 1 .. Len(ev2), i < j,
             IsSegment(ev2[i], u), IsSegment(ev2[j], u)
      PROVE  ev2[i].seq < ev2[j].seq
  <2>1. i \in 1 .. Len(ev) /\ ev2[i] = ev[i] /\ IsSegment(ev[i], u)
    <3>1. PICK m \in Nat : m = Len(ev)
      OBVIOUS
    <3>2. i \in 1 .. m + 1 /\ j \in 1 .. m + 1 /\ i < j
      BY <1>2, <1>7, <3>1
    <3>3. i # m + 1
      BY <3>1, <3>2
    <3> QED BY <1>4, <1>7, <3>1, <3>3
  <2>2. CASE j \in 1 .. Len(ev) /\ ev2[j] = ev[j]
    BY <1>7, <2>1, <2>2 DEF Queue
  <2>3. CASE ev2[j] = e /\ u = t
    BY <1>1, <1>5, <2>1, <2>3
  <2> QED BY <1>4, <1>7, <2>2, <2>3
<1>8. ASSUME em, NEW u \in Tracks, NEW i \in 1 .. Len(ix[u])
      PROVE  /\ ix[u][i] < sq2[u]
             /\ \A j \in 1 .. Len(ev2) : IsSegment(ev2[j], u) => ix[u][i] < ev2[j].seq
  <2>1. ix[u][i] \in Nat /\ sq[u] \in Nat /\ ix[u][i] < sq[u]
    <3>1. ix[u] \in Seq(1 .. MaxSegments) /\ sq[u] \in Nat
      BY <1>0
    <3>2. ix[u][i] \in 1 .. MaxSegments
      BY <3>1, ElementOfSeq
    <3> QED BY <1>8, <3>1, <3>2 DEF Queue
  <2>2. ix[u][i] < sq2[u]
    BY <1>e, <2>1
  <2>3. ASSUME NEW j \in 1 .. Len(ev2), IsSegment(ev2[j], u) PROVE ix[u][i] < ev2[j].seq
    <3>1. CASE j \in 1 .. Len(ev) /\ ev2[j] = ev[j]
      BY <1>8, <2>3, <3>1 DEF Queue
    <3>2. CASE ev2[j] = e /\ u = t
      BY <1>1, <2>1, <3>2
    <3> QED BY <1>4, <2>3, <3>1, <3>2
  <2> QED BY <2>2, <2>3
<1>9. \A u \in Tracks : \A i \in 1 .. Len(ev2) : IsSegment(ev2[i], u) => 1 <= ev2[i].seq /\ ev2[i].seq < sq2[u]
  BY <1>6
<1>10. \A u \in Tracks : \A i, j \in 1 .. Len(ev2) : i < j /\ IsSegment(ev2[i], u) /\ IsSegment(ev2[j], u) => ev2[i].seq < ev2[j].seq
  BY <1>7
<1>11. em => \A u \in Tracks : \A i \in 1 .. Len(ix[u]) :
         /\ ix[u][i] < sq2[u]
         /\ \A j \in 1 .. Len(ev2) : IsSegment(ev2[j], u) => ix[u][i] < ev2[j].seq
  BY <1>8
<1>12. Queue(ix, ev2, sq2, em)
  BY <1>9, <1>10, <1>11 DEF Queue
<1> QED BY <1>2, <1>3, <1>12, <1>b, <1>c

(* An init segment is announced apart from them. *)
LEMMA QueueInit ==
  ASSUME NEW ix, NEW ev \in Seq(Event), NEW sq, NEW em, Queue(ix, ev, sq, em),
         NEW t \in Tracks, NEW e, e = [kind |-> "init", track |-> t, seq |-> 0],
         NEW ev2, ev2 = ev \o <<e>>
  PROVE  ev2 \in Seq(Event) /\ Queue(ix, ev2, sq, em)
<1>1. e \in Event /\ e.kind = "init"
  BY SegmentsAssumption DEF Event
<1>2. /\ ev2 \in Seq(Event) /\ Len(ev2) = Len(ev) + 1 /\ ev2[Len(ev) + 1] = e
      /\ \A i \in 1 .. Len(ev) : ev2[i] = ev[i]
  BY <1>1, OnEnd
<1>3. ASSUME NEW u \in Tracks, NEW i \in 1 .. Len(ev2), IsSegment(ev2[i], u)
      PROVE  i \in 1 .. Len(ev) /\ ev2[i] = ev[i]
  BY <1>1, <1>2, <1>3 DEF IsSegment
<1> QED BY <1>2, <1>3 DEF Queue

(* The half of the invariant that files, events and index are about. *)
WriterTypes ==
  /\ seq \in [Tracks -> 1 .. MaxSegments + 1]
  /\ pending \in [Tracks -> BOOLEAN]
  /\ files \in [Tracks -> Seq(0 .. MaxEpoch)]
  /\ events \in Seq(Event)
  /\ index \in [Tracks -> Seq(1 .. MaxSegments)]
  /\ fresh \in BOOLEAN

WriterHalf == WriterTypes /\ NumbersOnward /\ Listed /\ Queue(index, events, seq, fresh)

(* What a step may not do to files and index. *)
FilesKept == \A t \in Tracks : \A n \in 1 .. Len(files[t]) : files[t][n] >= 1 => files'[t][n] = files[t][n]

IndexStays == fresh /\ rpc # "index" => \A t \in Tracks : IsPrefix(index[t], index'[t])

\* An index that does not change is a prefix of itself.
LEMMA IndexSame ==
  ASSUME WriterTypes, UNCHANGED index
  PROVE  IndexStays
<1>1. MaxSegments \in Nat
  BY SegmentsAssumption
<1>2. ASSUME NEW t \in Tracks PROVE IsPrefix(index[t], index[t])
  <2>1. index[t] \in Seq(Nat)
    <3>1. index[t] \in Seq(1 .. MaxSegments)
      BY DEF WriterTypes
    <3> QED BY <1>1, <3>1
  <2> QED BY <2>1, PrefixSelf
<1> QED BY <1>2 DEF IndexStays

(* Segments of some tracks are written, each under its track's number. *)
LEMMA WriteStep ==
  ASSUME WriterTypes, NumbersOnward, Listed, NEW B \in SUBSET Tracks, NEW v \in 0 .. MaxEpoch,
         \A t \in B : seq[t] <= MaxSegments,
         files' = [t \in Tracks |-> IF t \in B THEN Put(files[t], seq[t], v) ELSE files[t]],
         seq' = [t \in Tracks |-> IF t \in B THEN seq[t] + 1 ELSE seq[t]],
         \A t \in Tracks : pending'[t] => seq'[t] <= MaxSegments,
         UNCHANGED index
  PROVE  files' \in [Tracks -> Seq(0 .. MaxEpoch)] /\ NumbersOnward' /\ Listed' /\ FilesKept
<1>0. MaxEpoch \in Nat /\ MaxSegments \in Nat
  BY SegmentsAssumption, EpochsBounded
<1>1. ASSUME NEW t \in Tracks
      PROVE  /\ files'[t] \in Seq(0 .. MaxEpoch) /\ Len(files[t]) <= Len(files'[t])
             /\ Onward(files'[t], seq'[t], pending'[t])
             /\ \A n \in 1 .. Len(files[t]) : files[t][n] >= 1 => files'[t][n] = files[t][n]
  <2>1. /\ files[t] \in Seq(0 .. MaxEpoch) /\ seq[t] \in Nat \ {0} /\ seq[t] <= Len(files[t]) + 1
        /\ \A n \in 1 .. Len(files[t]) : files[t][n] >= 1 => n < seq[t]
    BY <1>0 DEF WriterTypes, NumbersOnward, Onward
  <2>2. CASE t \in B
    <3>1. files'[t] = Put(files[t], seq[t], v) /\ seq'[t] = seq[t] + 1
      BY <2>2
    <3>2. PICK f, s : f = files[t] /\ s = seq[t]
      OBVIOUS
    <3>3. /\ f \in Seq(0 .. MaxEpoch) /\ s \in Nat \ {0} /\ s <= Len(f) + 1
          /\ \A n \in 1 .. Len(f) : f[n] >= 1 => n < s
      BY <2>1, <3>2
    <3>4. /\ Put(f, s, v) \in Seq(0 .. MaxEpoch) /\ s + 1 <= Len(Put(f, s, v)) + 1 /\ Len(f) <= Len(Put(f, s, v))
          /\ \A n \in 1 .. Len(Put(f, s, v)) : Put(f, s, v)[n] >= 1 => n < s + 1
          /\ \A n \in 1 .. Len(f) : f[n] >= 1 => Put(f, s, v)[n] = f[n]
      BY <1>0, <3>3, WriteOne, Zenon
    <3>5. files'[t] = Put(f, s, v) /\ seq'[t] = s + 1
      BY <3>1, <3>2
    <3> HIDE DEF Put
    <3> QED BY <3>2, <3>4, <3>5 DEF Onward
  <2>3. CASE t \notin B
    <3>1. files'[t] = files[t] /\ seq'[t] = seq[t]
      BY <2>3
    <3> QED BY <2>1, <3>1 DEF Onward
  <2> QED BY <2>2, <2>3
<1>2. ASSUME NEW t \in Tracks PROVE index'[t] \in Seq(1 .. Len(files'[t]))
  <2>1. PICK m \in Nat, n \in Nat : m = Len(files[t]) /\ n = Len(files'[t]) /\ m <= n
    <3>1. Len(files[t]) \in Nat /\ Len(files'[t]) \in Nat
      BY <1>1 DEF WriterTypes
    <3> QED BY <1>1, <3>1
  <2>2. index[t] \in Seq(1 .. m)
    BY <2>1 DEF Listed
  <2>3. index[t] \in Seq(1 .. n)
    BY <2>1, <2>2
  <2> QED BY <2>1, <2>3
<1>3. files' \in [Tracks -> Seq(0 .. MaxEpoch)]
  BY <1>1
<1> QED BY <1>1, <1>2, <1>3 DEF NumbersOnward, Listed, FilesKept

(* WriteVideoPacket and WriteAudioPacket. *)
LEMMA PacketStep ==
  ASSUME WriterHalf, SeekTypes, NEW t \in Tracks, Fill(t) \/ Flush(t)
  PROVE  WriterHalf' /\ FilesKept /\ IndexStays
<1> USE DEF WriterHalf, watchVars
<1>0. MaxEpoch \in Nat /\ MaxSegments \in Nat /\ epoch \in 0 .. MaxEpoch /\ seq[t] \in 1 .. MaxSegments + 1
  BY SegmentsAssumption, EpochsBounded DEF SeekTypes, WriterTypes
<1>1. UNCHANGED <<index, fresh>>
  BY DEF Fill, Flush
<1>2. CASE Fill(t)
  <2>1. /\ UNCHANGED <<seq, files, events>> /\ seq[t] <= MaxSegments
        /\ pending' = [pending EXCEPT ![t] = TRUE]
    BY <1>2 DEF Fill
  <2>2. NumbersOnward'
    BY <2>1 DEF WriterTypes, NumbersOnward, Onward
  <2> QED BY <1>1, <2>1, <2>2, IndexSame DEF WriterTypes, Listed, FilesKept
<1>3. CASE Flush(t)
  <2>1. /\ seq[t] <= MaxSegments
        /\ t = "video" => seq[t] < MaxSegments
        /\ pending' = [pending EXCEPT ![t] = (t = "video")]
        /\ files' = [files EXCEPT ![t] = Written(t)]
        /\ events' = Append(events, SegmentEvent(t))
        /\ seq' = [seq EXCEPT ![t] = seq[t] + 1]
    BY <1>3 DEF Flush
  <2>2. files' = [u \in Tracks |-> IF u \in {t} THEN Put(files[u], seq[u], epoch) ELSE files[u]]
    BY <2>1 DEF WriterTypes, Written, Put
  <2>3. seq' = [u \in Tracks |-> IF u \in {t} THEN seq[u] + 1 ELSE seq[u]]
    BY <2>1 DEF WriterTypes
  <2>4. pending' \in [Tracks -> BOOLEAN] /\ \A u \in Tracks : pending'[u] => seq'[u] <= MaxSegments
    <3>1. pending \in [Tracks -> BOOLEAN] /\ seq \in [Tracks -> 1 .. MaxSegments + 1]
      BY DEF WriterTypes
    <3>2. pending'[t] => seq'[t] <= MaxSegments
      <4>1. seq'[t] = seq[t] + 1
        BY <2>1, <3>1
      <4>2. CASE t = "video"
        BY <1>0, <2>1, <4>1, <4>2
      <4>3. CASE t # "video"
        <5>1. ~pending'[t]
          BY <2>1, <3>1, <4>3
        <5> QED BY <5>1
      <4> QED BY <4>2, <4>3
    <3>3. ASSUME NEW u \in Tracks, u # t, pending'[u] PROVE seq'[u] <= MaxSegments
      BY <2>1, <3>1, <3>3 DEF NumbersOnward, Onward
    <3>4. pending' \in [Tracks -> BOOLEAN]
      BY <2>1, <3>1
    <3> QED BY <3>2, <3>3, <3>4
  <2>5. files' \in [Tracks -> Seq(0 .. MaxEpoch)] /\ NumbersOnward' /\ Listed' /\ FilesKept
    <3>1. {t} \in SUBSET Tracks /\ \A u \in {t} : seq[u] <= MaxSegments
      BY <2>1
    <3>2. \A u \in Tracks : pending'[u] => seq'[u] <= MaxSegments
      BY <2>4
    <3> QED BY <1>0, <1>1, <2>2, <2>3, <3>1, <3>2, WriteStep, Zenon
  <2>6. events' \in Seq(Event) /\ seq' \in [Tracks -> 1 .. MaxSegments + 1] /\ Queue(index, events', seq', fresh)
    <3>1. events' = Announced(events, seq, t)
      <4>1. events \in Seq(Event)
        BY DEF WriterTypes
      <4>2. PICK e : e = SegmentEvent(t)
        OBVIOUS
      <4>3. Append(events, e) = events \o <<e>>
        BY <4>1, AppendIsConcat
      <4> QED BY <2>1, <4>2, <4>3 DEF SegmentEvent, Announced
    <3>2. seq' = Onto(seq, t)
      BY <2>1 DEF Onto
    <3>3. /\ index \in [Tracks -> Seq(1 .. MaxSegments)] /\ events \in Seq(Event)
          /\ seq \in [Tracks -> 1 .. MaxSegments + 1] /\ fresh \in BOOLEAN
      BY DEF WriterTypes
    <3>4. Queue(index, events, seq, fresh) /\ seq[t] <= MaxSegments
      BY <2>1
    <3> QED BY <3>1, <3>2, <3>3, <3>4, QueueSegment, Zenon
  <2> QED BY <1>1, <2>4, <2>5, <2>6, IndexSame DEF WriterTypes
<1> QED BY <1>2, <1>3

(* A track's open fragment, if it has one, is written and announced. *)
OpenAnnounced(ev, sq, t, p) ==
  ev \o (IF p THEN <<[kind |-> "segment", track |-> t, seq |-> sq[t]]>> ELSE << >>)

OpenOnto(sq, t, p) == [u \in Tracks |-> IF u = t /\ p THEN sq[u] + 1 ELSE sq[u]]

\* The same when a close writes the open segment only if there is one.
LEMMA QueueOpen ==
  ASSUME NEW ix \in [Tracks -> Seq(1 .. MaxSegments)], NEW ev \in Seq(Event),
         NEW sq \in [Tracks -> 1 .. MaxSegments + 1], NEW em \in BOOLEAN, Queue(ix, ev, sq, em),
         NEW t \in Tracks, NEW p, p => sq[t] <= MaxSegments
  PROVE  /\ OpenAnnounced(ev, sq, t, p) \in Seq(Event)
         /\ OpenOnto(sq, t, p) \in [Tracks -> 1 .. MaxSegments + 1]
         /\ Queue(ix, OpenAnnounced(ev, sq, t, p), OpenOnto(sq, t, p), em)
<1>1. CASE p
  <2>1. OpenAnnounced(ev, sq, t, p) = Announced(ev, sq, t)
    BY <1>1 DEF Announced, OpenAnnounced
  <2>2. OpenOnto(sq, t, p) = Onto(sq, t)
    BY <1>1 DEF Onto, OpenOnto
  <2>3. /\ Announced(ev, sq, t) \in Seq(Event) /\ Onto(sq, t) \in [Tracks -> 1 .. MaxSegments + 1]
        /\ Queue(ix, Announced(ev, sq, t), Onto(sq, t), em)
    BY <1>1, QueueSegment, Zenon
  <2> QED BY <2>1, <2>2, <2>3
<1>2. CASE ~p
  <2>1. OpenAnnounced(ev, sq, t, p) = ev
    <3>1. OpenAnnounced(ev, sq, t, p) = ev \o << >>
      BY <1>2 DEF OpenAnnounced
    <3> QED BY <3>1, ConcatEmptySeq
  <2>2. OpenOnto(sq, t, p) = sq
    BY <1>2 DEF OpenOnto
  <2> QED BY <2>1, <2>2
<1> QED BY <1>1, <1>2

(* FragmentedMuxer.Reset of one track. *)
LEMMA ResetStep ==
  ASSUME WriterHalf, SeekTypes, NEW t \in Tracks, ResetTrack(t)
  PROVE  WriterHalf' /\ FilesKept /\ IndexStays
<1> USE DEF WriterHalf, watchVars
<1>0. MaxEpoch \in Nat /\ MaxSegments \in Nat /\ epoch - 1 \in 0 .. MaxEpoch
  BY SegmentsAssumption, EpochsBounded DEF SeekTypes
<1>1. /\ UNCHANGED <<index, fresh>>
      /\ pending' = [pending EXCEPT ![t] = FALSE]
      /\ seq' = [seq EXCEPT ![t] = IF pending[t] THEN seq[t] + 1 ELSE seq[t]]
  BY DEF ResetTrack, SeqAfterReset
<1>2. PICK B \in SUBSET Tracks : B = {u \in {t} : pending[u]}
  OBVIOUS
<1>3. seq' = [u \in Tracks |-> IF u \in B THEN seq[u] + 1 ELSE seq[u]]
  BY <1>1, <1>2 DEF WriterTypes
<1>4. files' = [u \in Tracks |-> IF u \in B THEN Put(files[u], seq[u], epoch - 1) ELSE files[u]]
  BY <1>2 DEF ResetTrack, WriterTypes, Put
<1>5. \A u \in B : seq[u] <= MaxSegments
  BY <1>2 DEF NumbersOnward, Onward
<1>6. pending' \in [Tracks -> BOOLEAN] /\ \A u \in Tracks : pending'[u] => seq'[u] <= MaxSegments
  <2>1. pending \in [Tracks -> BOOLEAN] /\ seq \in [Tracks -> 1 .. MaxSegments + 1]
    BY DEF WriterTypes
  <2>2. ~pending'[t] /\ pending' \in [Tracks -> BOOLEAN]
    BY <1>1, <2>1
  <2>3. ASSUME NEW u \in Tracks, u # t, pending'[u] PROVE seq'[u] <= MaxSegments
    BY <1>1, <2>1, <2>3 DEF NumbersOnward, Onward
  <2> QED BY <2>2, <2>3
<1>7. files' \in [Tracks -> Seq(0 .. MaxEpoch)] /\ NumbersOnward' /\ Listed' /\ FilesKept
  <2>1. \A u \in Tracks : pending'[u] => seq'[u] <= MaxSegments
    BY <1>6
  <2> QED BY <1>0, <1>1, <1>3, <1>4, <1>5, <2>1, WriteStep, Zenon
<1>8. events' \in Seq(Event) /\ seq' \in [Tracks -> 1 .. MaxSegments + 1] /\ Queue(index, events', seq', fresh)
  <2>1. PICK ok \in BOOLEAN :
          events' = events \o (IF pending[t] THEN <<SegmentEvent(t)>> ELSE << >>)
                           \o (IF ok THEN <<InitEvent(t)>> ELSE << >>)
    BY DEF ResetTrack
  <2>2. PICK ev : ev = OpenAnnounced(events, seq, t, pending[t])
    OBVIOUS
  <2>3. /\ index \in [Tracks -> Seq(1 .. MaxSegments)] /\ events \in Seq(Event)
        /\ seq \in [Tracks -> 1 .. MaxSegments + 1] /\ fresh \in BOOLEAN
        /\ Queue(index, events, seq, fresh)
    BY DEF WriterTypes
  <2>4. seq' = OpenOnto(seq, t, pending[t])
    BY <1>1, <2>3 DEF OpenOnto
  <2>5. pending[t] => seq[t] <= MaxSegments
    BY DEF NumbersOnward, Onward
  <2>6. ev \in Seq(Event) /\ seq' \in [Tracks -> 1 .. MaxSegments + 1] /\ Queue(index, ev, seq', fresh)
    <3>1. /\ OpenAnnounced(events, seq, t, pending[t]) \in Seq(Event)
          /\ OpenOnto(seq, t, pending[t]) \in [Tracks -> 1 .. MaxSegments + 1]
          /\ Queue(index, OpenAnnounced(events, seq, t, pending[t]), OpenOnto(seq, t, pending[t]), fresh)
      BY <2>3, <2>5, QueueOpen, Zenon
    <3> QED BY <2>2, <2>4, <3>1
  <2>7. events' = ev \o (IF ok THEN <<InitEvent(t)>> ELSE << >>)
    BY <2>1, <2>2, Zenon DEF SegmentEvent, OpenAnnounced
  <2>8. CASE ok
    <3>1. PICK e : e = [kind |-> "init", track |-> t, seq |-> 0]
      OBVIOUS
    <3>2. events' = ev \o <<e>>
      BY <2>7, <2>8, <3>1 DEF InitEvent
    <3> QED BY <2>6, <3>1, <3>2, QueueInit
  <2>9. CASE ~ok
    <3>1. events' = ev \o << >>
      BY <2>7, <2>9
    <3>2. events' = ev
      BY <2>6, <3>1, ConcatEmptySeq
    <3> QED BY <2>6, <3>2
  <2> QED BY <2>8, <2>9
<1> QED BY <1>1, <1>6, <1>7, <1>8, IndexSame DEF WriterTypes

(* FragmentedMuxer.Close: the open fragments, video first. *)
LEMMA CloseStep ==
  ASSUME WriterHalf, SeekTypes, NEW next, Close(next)
  PROVE  WriterHalf' /\ FilesKept /\ IndexStays
<1> USE DEF WriterHalf, watchVars
<1>0. MaxEpoch \in Nat /\ MaxSegments \in Nat /\ epoch \in 0 .. MaxEpoch
  BY SegmentsAssumption, EpochsBounded DEF SeekTypes
<1>1. /\ UNCHANGED <<index, fresh>>
      /\ pending' = [t \in Tracks |-> FALSE]
      /\ seq' = [t \in Tracks |-> IF pending[t] THEN seq[t] + 1 ELSE seq[t]]
  BY DEF Close
<1>2. PICK B \in SUBSET Tracks : B = {u \in Tracks : pending[u]}
  OBVIOUS
<1>3. seq' = [u \in Tracks |-> IF u \in B THEN seq[u] + 1 ELSE seq[u]]
  BY <1>1, <1>2
<1>4. files' = [u \in Tracks |-> IF u \in B THEN Put(files[u], seq[u], epoch) ELSE files[u]]
  BY <1>2 DEF Close, Written, Put
<1>5. \A u \in B : seq[u] <= MaxSegments
  BY <1>2 DEF NumbersOnward, Onward
<1>6. pending' \in [Tracks -> BOOLEAN] /\ \A u \in Tracks : pending'[u] => seq'[u] <= MaxSegments
  BY <1>1
<1>7. files' \in [Tracks -> Seq(0 .. MaxEpoch)] /\ NumbersOnward' /\ Listed' /\ FilesKept
  <2>1. \A u \in Tracks : pending'[u] => seq'[u] <= MaxSegments
    BY <1>6
  <2> QED BY <1>0, <1>1, <1>3, <1>4, <1>5, <2>1, WriteStep, Zenon
<1>8. events' \in Seq(Event) /\ seq' \in [Tracks -> 1 .. MaxSegments + 1] /\ Queue(index, events', seq', fresh)
  <2>1. events' = events \o (IF "video" \in Tracks /\ pending["video"] THEN <<SegmentEvent("video")>> ELSE << >>)
                        \o (IF "audio" \in Tracks /\ pending["audio"] THEN <<SegmentEvent("audio")>> ELSE << >>)
    BY DEF Close
  <2>2. /\ index \in [Tracks -> Seq(1 .. MaxSegments)] /\ events \in Seq(Event)
        /\ seq \in [Tracks -> 1 .. MaxSegments + 1] /\ fresh \in BOOLEAN
        /\ Queue(index, events, seq, fresh)
    BY DEF WriterTypes
  <2>3. \A t \in Tracks : pending[t] => seq[t] <= MaxSegments
    BY DEF NumbersOnward, Onward
  <2>4. PICK ev : ev = events \o (IF "video" \in Tracks /\ pending["video"] THEN <<SegmentEvent("video")>> ELSE << >>)
    OBVIOUS
  <2>5. PICK sq : sq = [u \in Tracks |-> IF u = "video" /\ pending["video"] THEN seq[u] + 1 ELSE seq[u]]
    OBVIOUS
  <2>6. ev \in Seq(Event) /\ sq \in [Tracks -> 1 .. MaxSegments + 1] /\ Queue(index, ev, sq, fresh)
    <3>1. CASE "video" \in Tracks
      <4>1. ev = OpenAnnounced(events, seq, "video", pending["video"])
        BY <2>4, <3>1, Zenon DEF SegmentEvent, OpenAnnounced
      <4>2. sq = OpenOnto(seq, "video", pending["video"])
        BY <2>5 DEF OpenOnto
      <4>3. pending["video"] => seq["video"] <= MaxSegments
        BY <2>3, <3>1
      <4>4. /\ OpenAnnounced(events, seq, "video", pending["video"]) \in Seq(Event)
            /\ OpenOnto(seq, "video", pending["video"]) \in [Tracks -> 1 .. MaxSegments + 1]
            /\ Queue(index, OpenAnnounced(events, seq, "video", pending["video"]),
                     OpenOnto(seq, "video", pending["video"]), fresh)
        BY <2>2, <3>1, <4>3, QueueOpen, Zenon
      <4> QED BY <4>1, <4>2, <4>4
    <3>2. CASE "video" \notin Tracks
      <4>1. ev = events \o << >>
        BY <2>4, <3>2
      <4>2. ev = events
        BY <2>2, <4>1, ConcatEmptySeq
      <4>3. sq = seq
        BY <2>2, <2>5, <3>2
      <4> QED BY <2>2, <4>2, <4>3
    <3> QED BY <3>1, <3>2
  <2>7. events' = ev \o (IF "audio" \in Tracks /\ pending["audio"] THEN <<SegmentEvent("audio")>> ELSE << >>)
    BY <2>1, <2>4, Zenon
  <2>8. seq' = OpenOnto(sq, "audio", pending["audio"])
    BY <1>1, <2>5, SegmentsAssumption DEF OpenOnto
  <2>9. CASE "audio" \in Tracks
    <3>1. sq["audio"] = seq["audio"]
      BY <2>5, <2>9
    <3>2. events' = OpenAnnounced(ev, sq, "audio", pending["audio"])
      BY <2>7, <2>9, <3>1, Zenon DEF SegmentEvent, OpenAnnounced
    <3>3. pending["audio"] => sq["audio"] <= MaxSegments
      BY <2>3, <2>9, <3>1
    <3>4. /\ OpenAnnounced(ev, sq, "audio", pending["audio"]) \in Seq(Event)
          /\ OpenOnto(sq, "audio", pending["audio"]) \in [Tracks -> 1 .. MaxSegments + 1]
          /\ Queue(index, OpenAnnounced(ev, sq, "audio", pending["audio"]), OpenOnto(sq, "audio", pending["audio"]), fresh)
      BY <2>2, <2>6, <2>9, <3>3, QueueOpen, Zenon
    <3> QED BY <2>8, <3>2, <3>4
  <2>10. CASE "audio" \notin Tracks
    <3>1. events' = ev \o << >>
      BY <2>7, <2>10
    <3>2. events' = ev
      BY <2>6, <3>1, ConcatEmptySeq
    <3>3. seq' = sq
      BY <2>6, <2>8, <2>10 DEF OpenOnto
    <3> QED BY <2>6, <3>2, <3>3
  <2> QED BY <2>9, <2>10
<1> QED BY <1>1, <1>6, <1>7, <1>8, IndexSame DEF WriterTypes

(* The event that is handled was the first of its track. *)
LEMMA QueueTail ==
  ASSUME NEW ix, NEW ev \in Seq(Event), NEW sq, NEW em, Queue(ix, ev, sq, em), ev # << >>
  PROVE  /\ ev[1] = Head(ev) /\ Head(ev) \in Event /\ 1 \in 1 .. Len(ev)
         /\ Tail(ev) \in Seq(Event)
         /\ \A j \in 1 .. Len(Tail(ev)) : j + 1 \in 1 .. Len(ev) /\ 1 < j + 1 /\ Tail(ev)[j] = ev[j + 1]
         /\ Queue(ix, Tail(ev), sq, em)
<1>1. PICK rest : rest = Tail(ev)
  OBVIOUS
<1>2. /\ Head(ev) \in Event /\ rest \in Seq(Event) /\ Len(rest) = Len(ev) - 1
      /\ \A i \in 1 .. Len(rest) : rest[i] = ev[i + 1]
  BY <1>1, HeadTailProperties
<1>3. Len(ev) \in Nat \ {0} /\ ev[1] = Head(ev)
  BY EmptySeq
<1>4. \A j \in 1 .. Len(rest) : j + 1 \in 1 .. Len(ev) /\ 1 < j + 1 /\ rest[j] = ev[j + 1]
  BY <1>2, <1>3
<1>5. Queue(ix, rest, sq, em)
  <2> SUFFICES ASSUME NEW t \in Tracks
               PROVE  /\ \A i \in 1 .. Len(rest) : IsSegment(rest[i], t) => 1 <= rest[i].seq /\ rest[i].seq < sq[t]
                      /\ \A i, j \in 1 .. Len(rest) : i < j /\ IsSegment(rest[i], t) /\ IsSegment(rest[j], t) =>
                                                    rest[i].seq < rest[j].seq
                      /\ em => \A i \in 1 .. Len(ix[t]) :
                                 /\ ix[t][i] < sq[t]
                                 /\ \A j \in 1 .. Len(rest) : IsSegment(rest[j], t) => ix[t][i] < rest[j].seq
    BY DEF Queue
  <2>1. \A i \in 1 .. Len(rest) : IsSegment(rest[i], t) => 1 <= rest[i].seq /\ rest[i].seq < sq[t]
    BY <1>4 DEF Queue
  <2>2. ASSUME NEW i \in 1 .. Len(rest), NEW j \in 1 .. Len(rest), i < j, IsSegment(rest[i], t), IsSegment(rest[j], t)
        PROVE  rest[i].seq < rest[j].seq
    <3>1. i + 1 \in 1 .. Len(ev) /\ j + 1 \in 1 .. Len(ev) /\ i + 1 < j + 1
      BY <1>2, <1>4, <2>2
    <3>2. IsSegment(ev[i + 1], t) /\ IsSegment(ev[j + 1], t)
      BY <1>4, <2>2
    <3>3. ev[i + 1].seq < ev[j + 1].seq
      BY <3>1, <3>2 DEF Queue
    <3> QED BY <1>4, <3>3
  <2>3. ASSUME em, NEW i \in 1 .. Len(ix[t]), NEW j \in 1 .. Len(rest), IsSegment(rest[j], t)
        PROVE  ix[t][i] < rest[j].seq
    BY <1>4, <2>3 DEF Queue
  <2>4. em => \A i \in 1 .. Len(ix[t]) : ix[t][i] < sq[t]
    BY DEF Queue
  <2> QED BY <2>1, <2>2, <2>3, <2>4
<1> QED BY <1>1, <1>2, <1>3, <1>4, <1>5

(* The watcher's goroutine: a segment goes to the end of the index of a    *)
(* directory that was empty, and to its place otherwise.                   *)
LEMMA HandleStep ==
  ASSUME WriterHalf, SeekTypes, HandleEvent
  PROVE  WriterHalf' /\ FilesKept /\ IndexStays
<1> USE DEF WriterHalf
<1>0. MaxEpoch \in Nat /\ MaxSegments \in Nat
  BY SegmentsAssumption, EpochsBounded
<1>1. /\ events # << >> /\ events' = Tail(events) /\ UNCHANGED <<seq, pending, files, fresh>>
      /\ \/ Head(events).kind = "init" /\ UNCHANGED index
         \/ /\ Head(events).kind = "segment"
            /\ index' = [index EXCEPT ![Head(events).track] = Added(index[Head(events).track], Head(events).seq)]
  BY DEF HandleEvent, muxVars
<1>2. /\ events[1] = Head(events) /\ Head(events) \in Event /\ 1 \in 1 .. Len(events)
      /\ Tail(events) \in Seq(Event)
      /\ \A j \in 1 .. Len(Tail(events)) :
           j + 1 \in 1 .. Len(events) /\ 1 < j + 1 /\ Tail(events)[j] = events[j + 1]
      /\ Queue(index, Tail(events), seq, fresh)
  BY <1>1, QueueTail DEF WriterTypes
<1>3. FilesKept
  BY <1>1 DEF FilesKept
<1>4. CASE UNCHANGED index
  BY <1>1, <1>2, <1>3, <1>4, IndexSame DEF WriterTypes, NumbersOnward, Listed
<1>5. CASE /\ Head(events).kind = "segment"
           /\ index' = [index EXCEPT ![Head(events).track] = Added(index[Head(events).track], Head(events).seq)]
  <2>1. PICK rest, t, n, ix : rest = Tail(events) /\ t = Head(events).track /\ n = Head(events).seq /\ ix = index[t]
    OBVIOUS
  <2>2. t \in Tracks /\ n \in 0 .. MaxSegments /\ IsSegment(events[1], t) /\ events[1].seq = n
    BY <1>2, <1>5, <2>1 DEF Event, IsSegment
  <2>3. 1 <= n /\ n < seq[t]
    BY <1>2, <2>2 DEF Queue
  <2>4. /\ ix \in Seq(1 .. MaxSegments) /\ n \in 1 .. MaxSegments /\ index \in [Tracks -> Seq(1 .. MaxSegments)]
        /\ Added(ix, n) \in Seq(1 .. MaxSegments)
    <3>1. ix \in Seq(1 .. MaxSegments) /\ n \in 1 .. MaxSegments /\ index \in [Tracks -> Seq(1 .. MaxSegments)]
      BY <1>0, <2>1, <2>2, <2>3 DEF WriterTypes
    <3> QED BY <1>0, <3>1, AddedType
  <2>5. /\ index' \in [Tracks -> Seq(1 .. MaxSegments)] /\ index'[t] = Added(ix, n)
        /\ \A u \in Tracks : u # t => index'[u] = index[u]
    BY <1>5, <2>1, <2>2, <2>4
  <2>6. Listed'
    <3>1. PICK m \in Nat : m = Len(files[t])
      BY <2>2 DEF WriterTypes
    <3>2. ix \in Seq(1 .. m)
      BY <2>1, <2>2, <3>1 DEF Listed
    <3>3. n \in 1 .. m
      <4>1. seq[t] <= m + 1 /\ seq[t] \in Nat
        BY <1>0, <2>2, <3>1 DEF NumbersOnward, Onward, WriterTypes
      <4> QED BY <2>3, <2>4, <4>1
    <3>4. Added(ix, n) \in Seq(1 .. m)
      BY <3>2, <3>3, AddedType
    <3> QED BY <1>1, <2>5, <3>1, <3>4 DEF Listed
  <2>7. ASSUME fresh
        PROVE  /\ \A i \in 1 .. Len(ix) : ix[i] < n
               /\ Added(ix, n) = Append(ix, n)
    <3>1. \A i \in 1 .. Len(ix) : ix[i] < n
      BY <1>2, <2>1, <2>2, <2>7 DEF Queue
    <3> QED BY <1>0, <2>4, <3>1, AddedLast
  <2>8. Queue(index', events', seq', fresh')
    <3>1. rest \in Seq(Event) /\ Queue(index, rest, seq, fresh)
      BY <1>2, <2>1
    <3>2. ASSUME fresh, NEW u \in Tracks, NEW i \in 1 .. Len(index'[u])
          PROVE  /\ index'[u][i] < seq[u]
                 /\ \A j \in 1 .. Len(rest) : IsSegment(rest[j], u) => index'[u][i] < rest[j].seq
      <4>1. CASE u # t
        BY <2>5, <3>1, <3>2, <4>1 DEF Queue
      <4>2. CASE u = t
        <5>1. index'[u] = Append(ix, n) /\ Len(Append(ix, n)) = Len(ix) + 1
          BY <2>4, <2>5, <2>7, <3>2, <4>2
        <5>2. CASE i \in 1 .. Len(ix)
          <6>1. index'[u][i] = index[u][i]
            BY <2>1, <2>4, <4>2, <5>1, <5>2
          <6>2. i \in 1 .. Len(index[u])
            BY <2>1, <4>2, <5>2
          <6> QED BY <3>1, <3>2, <6>1, <6>2 DEF Queue
        <5>3. CASE i = Len(ix) + 1
          <6>1. index'[u][i] = n
            BY <2>4, <5>1, <5>3
          <6>2. ASSUME NEW j \in 1 .. Len(rest), IsSegment(rest[j], u) PROVE n < rest[j].seq
            <7>1. /\ j + 1 \in 1 .. Len(events) /\ 1 < j + 1 /\ rest[j] = events[j + 1]
              BY <1>2, <2>1
            <7>2. events[1].seq < events[j + 1].seq
              BY <1>2, <2>2, <4>2, <6>2, <7>1 DEF Queue
            <7> QED BY <2>2, <7>1, <7>2
          <6> QED BY <2>3, <4>2, <6>1, <6>2
        <5>4. Len(ix) \in Nat /\ i \in 1 .. Len(ix) + 1
          BY <2>4, <3>2, <5>1
        <5> QED BY <5>2, <5>3, <5>4
      <4> QED BY <4>1, <4>2
    <3> QED BY <1>1, <2>1, <3>1, <3>2 DEF Queue
  <2>9. IndexStays
    <3>1. ASSUME fresh, NEW u \in Tracks PROVE IsPrefix(index[u], index'[u])
      <4>1. index[u] \in Seq(Nat) /\ n \in Nat
        <5>1. index[u] \in Seq(1 .. MaxSegments)
          BY <2>4
        <5> QED BY <1>0, <2>4, <5>1
      <4>2. index'[u] = index[u] \/ index'[u] = Append(index[u], n)
        BY <2>1, <2>5, <2>7, <3>1
      <4> QED BY <4>1, <4>2, PrefixSelf
    <3> QED BY <3>1 DEF IndexStays
  <2>10. WriterTypes' /\ NumbersOnward'
    BY <1>1, <1>2, <2>5 DEF WriterTypes, NumbersOnward
  <2> QED BY <1>3, <2>6, <2>8, <2>9, <2>10
<1> QED BY <1>1, <1>4, <1>5

(* A seek empties the index. *)
LEMMA ClearStep ==
  ASSUME WriterHalf, ClearIndex
  PROVE  WriterHalf' /\ FilesKept /\ IndexStays
<1>1. /\ rpc = "index" /\ index' = [t \in Tracks |-> << >>]
      /\ UNCHANGED <<seq, pending, files, events, fresh>>
  BY DEF ClearIndex, muxVars
<1>2. \A t \in Tracks : index'[t] = << >> /\ Len(index'[t]) = 0
  BY <1>1
<1>3. index' \in [Tracks -> Seq(1 .. MaxSegments)] /\ Listed'
  BY <1>1, <1>2, EmptySeq DEF Listed
<1>4. Queue(index', events', seq', fresh')
  BY <1>1, <1>2 DEF WriterHalf, Queue
<1> QED BY <1>1, <1>3, <1>4 DEF WriterHalf, WriterTypes, NumbersOnward, FilesKept, IndexStays

(* The rest of the session writes nothing. *)
LEMMA IdleStep ==
  ASSUME WriterHalf, UNCHANGED <<seq, pending, files, events, index, fresh>>
  PROVE  WriterHalf' /\ FilesKept /\ IndexStays
BY IndexSame DEF WriterHalf, WriterTypes, NumbersOnward, Listed, FilesKept

\* Every step keeps the files, the numbers and the index in order.
LEMMA WriterStep ==
  ASSUME WriterHalf, SeekTypes, [Next]_vars
  PROVE  WriterHalf' /\ FilesKept /\ IndexStays
<1> USE DEF muxVars, watchVars
<1>1. ASSUME NEW t \in Tracks, Fill(t) \/ Flush(t) PROVE WriterHalf' /\ FilesKept /\ IndexStays
  BY <1>1, PacketStep
<1>2. ASSUME Stop \/ LoopEnds PROVE WriterHalf' /\ FilesKept /\ IndexStays
  <2>1. ASSUME NEW next, Close(next) PROVE WriterHalf' /\ FilesKept /\ IndexStays
    BY <2>1, CloseStep
  <2>2. \/ \E next : Close(next)
        \/ UNCHANGED <<seq, pending, files, events, index, fresh>>
    BY <1>2 DEF Stop, LoopEnds
  <2> QED BY <2>1, <2>2, IdleStep
<1>3. ASSUME NEW k \in Seekers, RequestSeek(k) \/ SeekRefused(k) \/ ReportGeneration(k)
      PROVE  WriterHalf' /\ FilesKept /\ IndexStays
  <2>1. UNCHANGED <<seq, pending, files, events, index, fresh>>
    BY <1>3 DEF RequestSeek, SeekRefused, ReportGeneration
  <2> QED BY <2>1, IdleStep
<1>4. ASSUME SeekSteps PROVE WriterHalf' /\ FilesKept /\ IndexStays
  <2>1. CASE TakeSeek \/ BumpGeneration \/ ClearInits \/ MuxerReset \/ SendResult
    <3>1. UNCHANGED <<seq, pending, files, events, index, fresh>>
      BY <2>1 DEF TakeSeek, BumpGeneration, ClearInits, MuxerReset, SendResult
    <3> QED BY <3>1, IdleStep
  <2>2. CASE ClearIndex
    BY <2>2, ClearStep
  <2>3. ASSUME NEW t \in Tracks, ResetTrack(t) PROVE WriterHalf' /\ FilesKept /\ IndexStays
    BY <2>3, ResetStep
  <2> QED BY <1>4, <2>1, <2>2, <2>3 DEF SeekSteps
<1>5. ASSUME HandleEvent PROVE WriterHalf' /\ FilesKept /\ IndexStays
  BY <1>5, HandleStep
<1>6. ASSUME \/ \E t \in Tracks, n \in Polls : CheckGeneration(t, n)
             \/ ServeSegment \/ SegmentNotFound \/ UNCHANGED vars
      PROVE  WriterHalf' /\ FilesKept /\ IndexStays
  <2>1. UNCHANGED <<seq, pending, files, events, index, fresh>>
    BY <1>6 DEF CheckGeneration, ServeSegment, SegmentNotFound, vars
  <2> QED BY <2>1, IdleStep
<1> QED BY <1>1, <1>2, <1>3, <1>4, <1>5, <1>6 DEF Next

-----------------------------------------------------------------------------
(* The fields beside them *)

FieldTypes ==
  /\ toReset \subseteq Tracks /\ broken \subseteq Tracks /\ closed \in BOOLEAN
  /\ init \in [Tracks -> BOOLEAN]
  /\ request \in [track : Tracks \cup {NoOne}, gen : 0 .. MaxEpoch, seq : 0 .. MaxSegments]
  /\ served \in [gen : 0 .. MaxEpoch, epoch : 0 .. MaxEpoch]

\* Every step keeps the types of the rest, and a poll asks for a known track.
LEMMA FieldStep ==
  ASSUME FieldTypes, RequestKnown, WriterHalf, SeekTypes, [Next]_vars
  PROVE  FieldTypes' /\ RequestKnown'
<1> USE DEF FieldTypes
<1>0. /\ MaxEpoch \in Nat /\ MaxSegments \in Nat /\ Polls \subseteq 1 .. MaxSegments
      /\ generation \in 0 .. MaxEpoch
  BY SegmentsAssumption, EpochsBounded DEF SeekTypes
<1>1. NoRequest \in [track : Tracks \cup {NoOne}, gen : 0 .. MaxEpoch, seq : 0 .. MaxSegments]
  BY <1>0 DEF NoRequest
<1>2. CASE UNCHANGED <<toReset, broken, closed, init, request, served>>
  BY <1>2 DEF RequestKnown
<1>3. CASE UNCHANGED <<broken, closed, init, request, served>> /\ (toReset' = {} \/ toReset' = Tracks \ broken)
  BY <1>3 DEF RequestKnown
<1>4. CASE UNCHANGED <<toReset, broken, init, request, served>> /\ closed' = TRUE
  BY <1>4 DEF RequestKnown
<1>5. ASSUME NEW t \in Tracks, ResetTrack(t) PROVE FieldTypes' /\ RequestKnown'
  <2>1. /\ toReset' = toReset \ {t} /\ broken' \in {broken, broken \cup {t}}
        /\ UNCHANGED <<closed, init, request, served>>
    BY <1>5 DEF ResetTrack, watchVars, clientVars
  <2> QED BY <2>1 DEF RequestKnown
<1>6. CASE UNCHANGED <<toReset, broken, closed, request, served>> /\ init' = [t \in Tracks |-> FALSE]
  BY <1>6 DEF RequestKnown
<1>7. CASE HandleEvent
  <2>1. UNCHANGED <<toReset, broken, closed, request, served>>
    BY <1>7 DEF HandleEvent, readVars, muxVars, clientVars
  <2>2. init' \in [Tracks -> BOOLEAN]
    BY <1>7 DEF HandleEvent
  <2> QED BY <2>1, <2>2 DEF RequestKnown
<1>8. ASSUME NEW t \in Tracks, NEW n \in Polls, CheckGeneration(t, n) PROVE FieldTypes' /\ RequestKnown'
  <2>1. /\ UNCHANGED <<toReset, broken, closed, init, served>>
        /\ request' = [track |-> t, gen |-> generation, seq |-> n]
    BY <1>8 DEF CheckGeneration, readVars, muxVars, watchVars
  <2>2. n \in 0 .. MaxSegments
    BY <1>0
  <2> QED BY <1>0, <2>1, <2>2 DEF RequestKnown
<1>9. CASE ServeSegment
  <2>1. /\ UNCHANGED <<toReset, broken, closed, init>> /\ request' = NoRequest
        /\ request.track \in Tracks /\ request.seq \in Polls /\ request.seq <= Len(index[request.track])
        /\ served' = [gen |-> request.gen,
                      epoch |-> files[request.track][index[request.track][request.seq]]]
    BY <1>9 DEF ServeSegment, readVars, muxVars, watchVars, RequestKnown
  <2>2. PICK t \in Tracks, n \in 1 .. MaxSegments : t = request.track /\ n = request.seq
    BY <1>0, <2>1
  <2>3. index[t] \in Seq(1 .. Len(files[t])) /\ files[t] \in Seq(0 .. MaxEpoch) /\ n \in 1 .. Len(index[t])
    BY <2>1, <2>2 DEF WriterHalf, WriterTypes, Listed
  <2>4. index[t][n] \in 1 .. Len(files[t])
    BY <2>3, ElementOfSeq
  <2>5. files[t][index[t][n]] \in 0 .. MaxEpoch
    BY <2>3, <2>4, ElementOfSeq
  <2>6. served' = [gen |-> request.gen, epoch |-> files[t][index[t][n]]] /\ request.gen \in 0 .. MaxEpoch
    BY <2>1, <2>2
  <2>7. served' \in [gen : 0 .. MaxEpoch, epoch : 0 .. MaxEpoch]
    BY <2>5, <2>6
  <2> QED BY <1>1, <2>1, <2>7 DEF RequestKnown
<1>10. CASE SegmentNotFound
  <2>1. /\ UNCHANGED <<toReset, broken, closed, init, served>> /\ request' = NoRequest
    BY <1>10 DEF SegmentNotFound, readVars, muxVars, watchVars
  <2> QED BY <1>1, <2>1 DEF RequestKnown
<1>11. \/ UNCHANGED <<toReset, broken, closed, init, request, served>>
       \/ UNCHANGED <<broken, closed, init, request, served>> /\ (toReset' = {} \/ toReset' = Tracks \ broken)
       \/ UNCHANGED <<toReset, broken, init, request, served>> /\ closed' = TRUE
       \/ \E t \in Tracks : ResetTrack(t)
       \/ UNCHANGED <<toReset, broken, closed, request, served>> /\ init' = [t \in Tracks |-> FALSE]
       \/ HandleEvent
       \/ \E t \in Tracks, n \in Polls : CheckGeneration(t, n)
       \/ ServeSegment \/ SegmentNotFound
  <2> USE DEF readVars, muxVars, watchVars, clientVars
  <2>1. ASSUME NEW t \in Tracks, Fill(t) \/ Flush(t) PROVE UNCHANGED <<toReset, broken, closed, init, request, served>>
    BY <2>1 DEF Fill, Flush
  <2>2. ASSUME Stop \/ LoopEnds
        PROVE  UNCHANGED <<toReset, broken, init, request, served>> /\ closed' = TRUE
    BY <2>2 DEF Stop, LoopEnds, Close
  <2>3. ASSUME NEW k \in Seekers, RequestSeek(k) \/ SeekRefused(k) \/ ReportGeneration(k)
        PROVE  UNCHANGED <<toReset, broken, closed, init, request, served>>
    BY <2>3 DEF RequestSeek, SeekRefused, ReportGeneration
  <2>4. ASSUME TakeSeek
        PROVE  UNCHANGED <<broken, closed, init, request, served>> /\ (toReset' = {} \/ toReset' = Tracks \ broken)
    BY <2>4 DEF TakeSeek
  <2>5. ASSUME BumpGeneration \/ ClearIndex \/ MuxerReset \/ SendResult
        PROVE  UNCHANGED <<toReset, broken, closed, init, request, served>>
    BY <2>5 DEF BumpGeneration, ClearIndex, MuxerReset, SendResult
  <2>6. ASSUME ClearInits
        PROVE  UNCHANGED <<toReset, broken, closed, request, served>> /\ init' = [t \in Tracks |-> FALSE]
    BY <2>6 DEF ClearInits
  <2>7. ASSUME UNCHANGED vars PROVE UNCHANGED <<toReset, broken, closed, init, request, served>>
    BY <2>7 DEF vars
  <2> QED BY <2>1, <2>2, <2>3, <2>4, <2>5, <2>6, <2>7 DEF Next, SeekSteps
<1> QED BY <1>2, <1>3, <1>4, <1>5, <1>6, <1>7, <1>8, <1>9, <1>10, <1>11

-----------------------------------------------------------------------------
(* The invariant *)

\* The invariant is what is said of the seeks, of the writer and of the rest.
LEMMA Halves == IInv <=> SeekHalf /\ WriterHalf /\ FieldTypes /\ RequestKnown
  BY DEF IInv, SegmentsInvariant, TypeOK, SeekHalf, SeekTypes, Seeker, WriterHalf, WriterTypes, Event, FieldTypes

\* A new session has no seek and no segment, only files that were left.
LEMMA InitIInv == Init => IInv
<1> SUFFICES ASSUME Init PROVE IInv
  OBVIOUS
<1>0. MaxEpoch \in Nat /\ 1 <= MaxEpoch /\ Cardinality(Taken) \in Nat /\ MaxSegments \in Nat
  BY SegmentsAssumption, EpochsBounded DEF Taken, MaxEpoch
<1>1. SeekHalf
  BY <1>0 DEF Init, SeekHalf, SeekTypes, Seeker, SeekOrder, SeekBumped
<1>2. PICK n \in 0 .. MaxLeftover :
        /\ files = [t \in Tracks |-> [i \in 1 .. n |-> 0]]
        /\ index = [t \in Tracks |-> [i \in 1 .. n |-> i]]
        /\ fresh = (n = 0)
  BY DEF Init
<1>3. n \in Nat /\ n <= MaxSegments
  BY SegmentsAssumption
<1>4. ASSUME NEW t \in Tracks
      PROVE  /\ files[t] \in Seq(0 .. MaxEpoch) /\ Len(files[t]) = n /\ \A i \in 1 .. n : files[t][i] = 0
             /\ index[t] \in Seq(1 .. n) /\ index[t] \in Seq(1 .. MaxSegments) /\ Len(index[t]) = n
  BY <1>0, <1>2, <1>3
<1>5. WriterTypes
  <2>1. files \in [Tracks -> Seq(0 .. MaxEpoch)] /\ index \in [Tracks -> Seq(1 .. MaxSegments)]
    BY <1>2, <1>4
  <2>2. fresh \in BOOLEAN
    BY <1>2
  <2>3. events \in Seq(Event)
    BY DEF Init
  <2>4. seq \in [Tracks -> 1 .. MaxSegments + 1] /\ pending \in [Tracks -> BOOLEAN]
    BY <1>0 DEF Init
  <2> QED BY <2>1, <2>2, <2>3, <2>4 DEF WriterTypes
<1>6. NumbersOnward /\ Listed
  BY <1>3, <1>4 DEF Init, NumbersOnward, Onward, Listed
<1>7. Queue(index, events, seq, fresh)
  <2>1. events = << >> /\ Len(events) = 0
    BY DEF Init
  <2>2. fresh => \A t \in Tracks : Len(index[t]) = 0
    BY <1>2, <1>4
  <2> QED BY <2>1, <2>2 DEF Queue
<1>8. FieldTypes /\ RequestKnown
  <2>1. request = NoRequest
    BY DEF Init
  <2>2. NoRequest \in [track : Tracks \cup {NoOne}, gen : 0 .. MaxEpoch, seq : 0 .. MaxSegments]
    BY <1>0 DEF NoRequest
  <2>3. served \in [gen : 0 .. MaxEpoch, epoch : 0 .. MaxEpoch]
    BY <1>0 DEF Init
  <2>4. toReset = {} /\ broken = {} /\ closed = FALSE /\ init \in [Tracks -> BOOLEAN]
    BY DEF Init
  <2> QED BY <2>1, <2>2, <2>3, <2>4 DEF FieldTypes, RequestKnown
<1> QED BY <1>1, <1>5, <1>6, <1>7, <1>8, Halves DEF WriterHalf

\* Every step keeps the invariant, the files and the index.
LEMMA NextIInv == IInv /\ [Next]_vars => IInv' /\ FilesKept /\ IndexStays
<1> SUFFICES ASSUME IInv, [Next]_vars PROVE IInv' /\ FilesKept /\ IndexStays
  OBVIOUS
<1>1. SeekHalf /\ WriterHalf /\ FieldTypes /\ RequestKnown
  BY Halves
<1>2. SeekTypes
  BY <1>1 DEF SeekHalf
<1>3. SeekHalf'
  BY <1>1, SeekStep
<1>4. WriterHalf' /\ FilesKept /\ IndexStays
  BY <1>1, <1>2, WriterStep
<1>5. FieldTypes' /\ RequestKnown'
  BY <1>1, <1>2, FieldStep
<1>6. IInv'
  <2>1. (SeekHalf /\ WriterHalf /\ FieldTypes /\ RequestKnown)'
    BY <1>3, <1>4, <1>5
  <2> QED BY <2>1, Halves, PTL
<1> QED BY <1>4, <1>6

\* The invariant holds in every state.
LEMMA Invariance == Spec => []IInv
<1>1. IInv /\ [Next]_vars => IInv'
  BY NextIInv
<1> QED BY InitIInv, <1>1, PTL DEF Spec

(* Every variable keeps its type, and every seek that was not refused      *)
(* answers with a later generation than the one it was asked in (MSESeek,  *)
(* RequestSeek, readPacketOnce, Watcher.Reset).                            *)
THEOREM SegmentsCorrect == Spec => []SegmentsInvariant
<1>1. IInv => SegmentsInvariant
  BY DEF IInv
<1> QED BY Invariance, <1>1, PTL

(* A segment that was written is not written again, and between two seeks  *)
(* the index of a directory that was empty only grows at its end           *)
(* (flushFragment, FragmentedMuxer.Reset and Close, Watcher.handleEvent).  *)
THEOREM NumbersKept == Spec => NumbersStay
<1>1. IInv /\ [Next]_vars => FilesKept /\ IndexStays
  BY NextIInv
<1>2. FilesKept => \A t \in Tracks : \A n \in 1 .. Len(files[t]) : files[t][n] >= 1 => files'[t][n] = files[t][n]
  BY DEF FilesKept
<1>3. IndexStays => (fresh /\ rpc # "index" => \A t \in Tracks : IsPrefix(index[t], index'[t]))
  BY DEF IndexStays
<1> QED BY Invariance, <1>1, <1>2, <1>3, PTL DEF Spec, NumbersStay, WrittenOnce, StablePositions

=============================================================================
