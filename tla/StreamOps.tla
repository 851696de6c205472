----------------------------- MODULE StreamOps -----------------------------
(***************************************************************************)
(* What the operations of a stream store compute, as functions of the map  *)
(* from stream ids to streams (pkg/store/stream.go).  Times, URLs and      *)
(* artwork are left out: no operation decides anything by them.            *)
(***************************************************************************)
EXTENDS Naturals, FiniteSets, Sequences, SequencesExt

CONSTANTS
  Ids,      \* stream ids
  Feed,     \* the streams that refreshes bring: neither matched nor probed yet
  None

Kinds == {"m3u", "satip", "hdhr"}
Vod == {"", "movie"}

\* A group name is a sequence of the parts between its slashes.
Streams == [kind : Kinds, src : {f.src : f \in Feed}, group : {f.group : f \in Feed},
            name : {f.name : f \in Feed}, vod : Vod, tmdb : {0, 1}, manual : BOOLEAN,
            wg : BOOLEAN, probed : BOOLEAN]

ASSUME StreamAssumption == IsFiniteSet(Ids) /\ Feed \subseteq Streams /\ None \notin Streams

Maps == [Ids -> Streams \cup {None}]
Empty == [id \in Ids |-> None]
Present(m) == {id \in Ids : m[id] # None}
Batches == UNION {[S -> Feed] : S \in SUBSET Ids \ {{}}}
SourcesOf(kind) == {f.src : f \in {g \in Feed : g.kind = kind}}

-----------------------------------------------------------------------------
(* Writers *)

\* What a refresh brings does not undo a TMDB match, and does not erase a type
\* that is known.
Merged(new, old) ==
  [new EXCEPT !.tmdb = IF old.tmdb > 0 THEN old.tmdb ELSE @,
              !.manual = IF old.tmdb > 0 THEN old.manual ELSE @,
              !.vod = IF @ = "" THEN old.vod ELSE @]

Upserted(m, batch) ==
  [id \in Ids |-> CASE id \notin DOMAIN batch -> m[id]
                    [] id \in DOMAIN batch /\ m[id] = None -> batch[id]
                    [] OTHER -> Merged(batch[id], m[id])]

Without(m, S) == [id \in Ids |-> IF id \in S THEN None ELSE m[id]]
OfKind(m, kind) == {id \in Present(m) : m[id].kind = kind}
OfSource(m, kind, src) == {id \in OfKind(m, kind) : m[id].src = src}

StaleOf(m, kind, src, keep) == OfSource(m, kind, src) \ keep
OrphansOf(m, kind, known) == {id \in OfKind(m, kind) : m[id].src \notin known}

\* A change of one stream, if it is there, or of those of a source.
Changed(m, S, F(_)) == [id \in Ids |-> IF id \in S \cap Present(m) THEN F(m[id]) ELSE m[id]]

WithTMDB(st) == [st EXCEPT !.tmdb = 1]
WithManualTMDB(st) == [st EXCEPT !.tmdb = 1, !.manual = TRUE]
AutoTMDBCleared(st) == IF st.tmdb > 0 /\ ~st.manual THEN [st EXCEPT !.tmdb = 0] ELSE st
WithProbe(st) == [st EXCEPT !.probed = TRUE]

-----------------------------------------------------------------------------
(* Readers *)

ListByAccountID(m, a) == OfSource(m, "m3u", a)
ListBySatIPSourceID(m, s) == OfSource(m, "satip", s)
ListByHDHRSourceID(m, h) == OfSource(m, "hdhr", h)
ListByVODType(m, v) == {id \in Present(m) : m[id].vod = v}

=============================================================================
