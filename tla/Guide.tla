------------------------------- MODULE Guide --------------------------------
(***************************************************************************)
(* The programme guide: EPGStoreImpl, a store of channel entries and       *)
(* programmes with three indexes, and EPGService, which replaces what a    *)
(* source brought.  The refresh worker, refresh requests and deletions run *)
(* at the same time; every store call is a critical section.               *)
(***************************************************************************)
EXTENDS Naturals, FiniteSets

CONSTANTS
  EpgSources,   \* XMLTV sources
  GuideIds,     \* numbers that stand for the ids of channel entries
  Listed,       \* source -> the channels that its file lists
  Slots,        \* numbers of the programmes that a file has for each channel
  GuideJobs,    \* goroutines that refresh or delete a source
  Absent        \* what is where there is nothing

GuideChannels == UNION {Listed[s] : s \in EpgSources}

ASSUME GuideAssumption ==
  /\ Slots \subseteq Nat
  /\ Absent \notin GuideIds
  /\ Absent \notin [src : EpgSources, ch : GuideChannels] \cup [etag : BOOLEAN, recent : BOOLEAN]

VARIABLES
  epgData,          \* entry id -> [src, ch], or Absent
  programs,         \* programmes, as [epg, slot]
  bySourceID,       \* source -> entry ids
  programsByEPGID,  \* entry id -> programmes
  epgByChannelID,   \* channel -> entry id, or Absent
  file,             \* epg.gob: the two maps
  epgSources,       \* source -> [etag, recent], or Absent when deleted
  gjob,             \* goroutine -> what it is doing
  overlapped,       \* two goroutines have changed the guide at the same time
  reborn            \* since the start, a refresh has brought entries of a source being deleted

guideVars == <<epgData, programs, bySourceID, programsByEPGID, epgByChannelID, file, epgSources, gjob, overlapped, reborn>>
indexes == <<bySourceID, programsByEPGID, epgByChannelID>>

NoJob == [pc |-> "idle", src |-> Absent, todo |-> {}, fill |-> {}, made |-> <<>>]
Entries == {id \in GuideIds : epgData[id] # Absent}
Used == Entries \cup {p.epg : p \in programs} \cup {p.epg : p \in file.programs}
          \cup {id \in GuideIds : file.data[id] # Absent}
          \cup UNION {{gjob[g].made[ch] : ch \in DOMAIN gjob[g].made} : g \in GuideJobs}
          \cup UNION {gjob[g].todo : g \in {h \in GuideJobs : gjob[h].pc \in {"old", "drop"}}}
\* Random ids for channels: as good as the smallest that nothing mentions any more.
Smallest(n) == {id \in GuideIds \ Used : Cardinality({i \in GuideIds \ Used : i < id}) < n}
NewIds(chs) == {made \in [chs -> Smallest(Cardinality(chs))] : \A a, b \in chs : made[a] = made[b] => a = b}

GuideInit ==
  /\ epgData = [id \in GuideIds |-> Absent] /\ programs = {}
  /\ bySourceID = [s \in EpgSources |-> {}]
  /\ programsByEPGID = [id \in GuideIds |-> {}]
  /\ epgByChannelID = [ch \in GuideChannels |-> Absent]
  /\ file = [data |-> epgData, programs |-> {}]
  /\ epgSources = [s \in EpgSources |-> [etag |-> FALSE, recent |-> FALSE]]
  /\ gjob = [g \in GuideJobs |-> NoJob] /\ overlapped = FALSE /\ reborn = FALSE

-----------------------------------------------------------------------------
(* The store *)

Working(g) == gjob[g].pc \in {"old", "drop", "create", "fill"}
Noted(g) == overlapped' = (overlapped \/ \E h \in GuideJobs \ {g} : Working(h))

ListBySourceID(src) == bySourceID[src] \cap Entries

DeleteProgramsByEPGDataID(id) ==
  /\ programs' = programs \ programsByEPGID[id]
  /\ programsByEPGID' = [programsByEPGID EXCEPT ![id] = {}]
  /\ UNCHANGED <<epgData, bySourceID, epgByChannelID>>

DeleteBySourceID(src) ==
  /\ epgByChannelID' = [ch \in GuideChannels |->
                          IF \E id \in ListBySourceID(src) : epgData[id].ch = ch THEN Absent ELSE epgByChannelID[ch]]
  /\ epgData' = [id \in GuideIds |-> IF id \in bySourceID[src] THEN Absent ELSE epgData[id]]
  /\ programs' = programs \ UNION {programsByEPGID[id] : id \in bySourceID[src]}
  /\ programsByEPGID' = [id \in GuideIds |-> IF id \in bySourceID[src] THEN {} ELSE programsByEPGID[id]]
  /\ bySourceID' = [bySourceID EXCEPT ![src] = {}]

\* The entries that those of the batch replace, whatever source brought them,
\* go with their programmes.  (Slip: only their programmes
\* stay.)
Replaced(made) == {epgByChannelID[ch] : ch \in DOMAIN made} \ {Absent}
ProgramsStay(src, made) ==
  /\ epgData' = [id \in GuideIds |->
                   IF \E ch \in DOMAIN made : made[ch] = id
                   THEN [src |-> src, ch |-> CHOOSE ch \in DOMAIN made : made[ch] = id]
                   ELSE IF id \in Replaced(made) THEN Absent ELSE epgData[id]]
  /\ bySourceID' = [s \in EpgSources |->
                      (bySourceID[s] \ Replaced(made))
                        \cup (IF s = src THEN {made[ch] : ch \in DOMAIN made} ELSE {})]
  /\ epgByChannelID' = [ch \in GuideChannels |-> IF ch \in DOMAIN made THEN made[ch] ELSE epgByChannelID[ch]]
  /\ UNCHANGED <<programs, programsByEPGID>>
BulkCreateEPGData(src, made) ==
  /\ epgData' = [id \in GuideIds |->
                   IF \E ch \in DOMAIN made : made[ch] = id
                   THEN [src |-> src, ch |-> CHOOSE ch \in DOMAIN made : made[ch] = id]
                   ELSE IF id \in Replaced(made) THEN Absent ELSE epgData[id]]
  /\ programs' = programs \ UNION {programsByEPGID[id] : id \in Replaced(made)}
  /\ programsByEPGID' = [id \in GuideIds |-> IF id \in Replaced(made) THEN {} ELSE programsByEPGID[id]]
  /\ bySourceID' = [s \in EpgSources |->
                      (bySourceID[s] \ Replaced(made))
                        \cup (IF s = src THEN {made[ch] : ch \in DOMAIN made} ELSE {})]
  /\ epgByChannelID' = [ch \in GuideChannels |-> IF ch \in DOMAIN made THEN made[ch] ELSE epgByChannelID[ch]]

\* A batch may end anywhere, also between two programmes of a channel.
BulkCreatePrograms(P) ==
  /\ programs' = programs \cup P
  /\ programsByEPGID' = [id \in GuideIds |-> programsByEPGID[id] \cup {p \in P : p.epg = id}]
  /\ UNCHANGED <<epgData, bySourceID, epgByChannelID>>

\* The copy is taken in one critical section, and the file renamed into place.
SaveGuide == file' = [data |-> epgData, programs |-> programs]

\* The indexes are not saved but made of what was; of two entries of a channel
\* either may come last.
LoadGuide(data, progs) ==
  /\ epgData' = data /\ programs' = progs
  /\ bySourceID' = [s \in EpgSources |-> {id \in GuideIds : data[id] # Absent /\ data[id].src = s}]
  /\ programsByEPGID' = [id \in GuideIds |-> {p \in progs : p.epg = id}]
  /\ \E last \in [GuideChannels -> GuideIds \cup {Absent}] :
       /\ \A ch \in GuideChannels :
            LET S == {id \in GuideIds : data[id] # Absent /\ data[id].ch = ch} IN
            IF S = {} THEN last[ch] = Absent ELSE last[ch] \in S
       /\ epgByChannelID' = last

-----------------------------------------------------------------------------
(* The service *)

Step(g, pc) == gjob' = [gjob EXCEPT ![g].pc = pc]
StoreSame == UNCHANGED <<epgData, programs, indexes>>

\* The etag is forgotten when a refresh begins, so that only the time since
\* the last one decides whether it is skipped.
RefreshSource(g, src) ==
  /\ gjob[g].pc = "idle" /\ epgSources[src] # Absent
  /\ \/ /\ ~epgSources[src].recent
        /\ gjob' = [gjob EXCEPT ![g] = [NoJob EXCEPT !.pc = "fetch", !.src = src]]
     \/ epgSources[src].recent /\ UNCHANGED gjob
  /\ StoreSame /\ UNCHANGED <<file, epgSources, overlapped, reborn>>

\* The download or the parser fails, or the file lists nothing: what there was
\* is kept, and the etag may have been stored.
FetchKeeps(g) ==
  /\ gjob[g].pc = "fetch"
  /\ gjob' = [gjob EXCEPT ![g] = NoJob]
  /\ \/ UNCHANGED epgSources
     \/ epgSources' = [epgSources EXCEPT ![gjob[g].src] = IF @ = Absent THEN Absent ELSE [@ EXCEPT !.etag = TRUE]]
  /\ StoreSame /\ UNCHANGED <<file, overlapped, reborn>>

FetchParses(g) ==
  LET src == gjob[g].src IN
  /\ gjob[g].pc = "fetch"
  /\ epgSources' = [epgSources EXCEPT ![src] = IF @ = Absent THEN Absent ELSE [@ EXCEPT !.etag = TRUE]]
  /\ gjob' = [gjob EXCEPT ![g].pc = "old", ![g].todo = ListBySourceID(src)]
  /\ Noted(g)
  /\ StoreSame /\ UNCHANGED <<file, reborn>>

\* The old programmes go entry by entry, then the old entries at once.
DropPrograms(g) ==
  /\ gjob[g].pc = "old"
  /\ \E id \in gjob[g].todo :
       DeleteProgramsByEPGDataID(id) /\ gjob' = [gjob EXCEPT ![g].todo = @ \ {id}]
  /\ UNCHANGED <<file, epgSources, overlapped, reborn>>

DropEntries(g) ==
  /\ gjob[g].pc = "old" /\ gjob[g].todo = {}
  /\ DeleteBySourceID(gjob[g].src)
  /\ Step(g, "create")
  /\ UNCHANGED <<file, epgSources, overlapped, reborn>>

\* The programmes that the file has for the entries just made.
FileProgrammes(made) == {[epg |-> made[ch], slot |-> n] : ch \in DOMAIN made, n \in Slots}
CreateEntries(g) ==
  LET src == gjob[g].src IN
  /\ gjob[g].pc = "create"
  /\ \E made \in NewIds(Listed[src]) :
       /\ BulkCreateEPGData(src, made)
       /\ gjob' = [gjob EXCEPT ![g].pc = "fill", ![g].made = made,
                               ![g].fill = FileProgrammes(made)]
  /\ reborn' = (reborn \/ epgSources[src] = Absent \/ \E h \in GuideJobs : gjob[h].src = src /\ gjob[h].pc = "dropSave")
  /\ UNCHANGED <<file, epgSources, overlapped>>

FillPrograms(g) ==
  /\ gjob[g].pc = "fill" /\ gjob[g].fill # {}
  /\ \E P \in SUBSET gjob[g].fill :
       /\ P # {} /\ BulkCreatePrograms(P)
       /\ gjob' = [gjob EXCEPT ![g].fill = @ \ P]
  /\ UNCHANGED <<file, epgSources, overlapped, reborn>>

FillSave(g) ==
  /\ gjob[g].pc = "fill" /\ gjob[g].fill = {}
  /\ SaveGuide /\ gjob' = [gjob EXCEPT ![g].pc = "row", ![g].made = <<>>]
  /\ StoreSame /\ UNCHANGED <<epgSources, overlapped, reborn>>

\* The row is written back as it was read, that is without the etag.
RefreshRow(g) ==
  /\ gjob[g].pc = "row"
  /\ epgSources' = [epgSources EXCEPT ![gjob[g].src] = IF @ = Absent THEN Absent ELSE [etag |-> FALSE, recent |-> TRUE]]
  /\ gjob' = [gjob EXCEPT ![g] = NoJob]
  /\ StoreSame /\ UNCHANGED <<file, overlapped, reborn>>

DeleteSource(g, src) ==
  /\ gjob[g].pc = "idle" /\ epgSources[src] # Absent
  /\ gjob' = [gjob EXCEPT ![g] = [NoJob EXCEPT !.pc = "drop", !.src = src, !.todo = ListBySourceID(src)]]
  /\ Noted(g)
  /\ StoreSame /\ UNCHANGED <<file, epgSources, reborn>>

DeleteSourcePrograms(g) ==
  /\ gjob[g].pc = "drop"
  /\ \E id \in gjob[g].todo :
       DeleteProgramsByEPGDataID(id) /\ gjob' = [gjob EXCEPT ![g].todo = @ \ {id}]
  /\ UNCHANGED <<file, epgSources, overlapped, reborn>>

DeleteSourceEntries(g) ==
  /\ gjob[g].pc = "drop" /\ gjob[g].todo = {}
  /\ DeleteBySourceID(gjob[g].src)
  /\ Step(g, "dropSave")
  /\ UNCHANGED <<file, epgSources, overlapped, reborn>>

DeleteSourceRow(g) ==
  /\ gjob[g].pc = "dropSave"
  /\ SaveGuide /\ epgSources' = [epgSources EXCEPT ![gjob[g].src] = Absent]
  /\ gjob' = [gjob EXCEPT ![g] = NoJob]
  /\ StoreSame /\ UNCHANGED <<overlapped, reborn>>

\* The entries in the file of sources that there are no more.
GuideGone == {id \in GuideIds : file.data[id] # Absent /\ epgSources[file.data[id].src] = Absent}

\* A start loads the file and deletes the entries of sources that are gone.
GuideRestart ==
  LET data == [id \in GuideIds |-> IF id \in GuideGone THEN Absent ELSE file.data[id]]
      progs == {p \in file.programs : p.epg \notin GuideGone} IN
  /\ LoadGuide(data, progs)
  /\ file' = IF GuideGone = {} THEN file ELSE [data |-> data, programs |-> progs]
  /\ gjob' = [g \in GuideJobs |-> NoJob] /\ reborn' = FALSE
  /\ UNCHANGED <<epgSources, overlapped>>

\* Twelve hours pass.
GuideExpire(src) ==
  /\ epgSources[src] # Absent
  /\ epgSources' = [epgSources EXCEPT ![src].recent = FALSE]
  /\ StoreSame /\ UNCHANGED <<file, gjob, overlapped, reborn>>

-----------------------------------------------------------------------------
GuideSteps ==
  \E g \in GuideJobs :
    \/ FetchKeeps(g) \/ FetchParses(g) \/ DropPrograms(g) \/ DropEntries(g) \/ CreateEntries(g)
    \/ FillPrograms(g) \/ FillSave(g) \/ RefreshRow(g)
    \/ DeleteSourcePrograms(g) \/ DeleteSourceEntries(g) \/ DeleteSourceRow(g)

GuideRequests ==
  \/ \E g \in GuideJobs, src \in EpgSources : RefreshSource(g, src) \/ DeleteSource(g, src)
  \/ \E src \in EpgSources : GuideExpire(src)
  \/ GuideRestart

GuideNext == GuideSteps \/ GuideRequests

GuideSpec == GuideInit /\ [][GuideNext]_guideVars

-----------------------------------------------------------------------------
(* Readers; programme n runs from n to n + 2, so that two may overlap. *)

Running(p, now) == p.slot <= now /\ now < p.slot + 2
ListPrograms(id) == programsByEPGID[id] \cap programs
ListForGuide(from, to) ==
  {[ch |-> x[1], p |-> x[2]] : x \in
     {y \in GuideChannels \X programs :
        /\ epgByChannelID[y[1]] # Absent /\ y[2] \in ListPrograms(epgByChannelID[y[1]])
        /\ y[2].slot < to /\ y[2].slot + 2 > from}}
ListNowPlaying(ch, now) ==
  IF epgByChannelID[ch] = Absent THEN {} ELSE {p \in ListPrograms(epgByChannelID[ch]) : Running(p, now)}
GetNowByChannelID(ch, now) ==
  {p \in ListNowPlaying(ch, now) : \A q \in ListNowPlaying(ch, now) : q.slot <= p.slot}

-----------------------------------------------------------------------------
(* Properties *)

\* The indexes answer what a scan of the entries and programmes would, after
\* any interleaving of refreshes that replace each other's channels, deletions
\* and restarts; in particular no channel points at an entry that is gone, and
\* no entry is out of reach of the deletion of its source.
IndexesAgree ==
  /\ \A src \in EpgSources : bySourceID[src] = {id \in Entries : epgData[id].src = src}
  /\ \A ch \in GuideChannels :
       IF \E id \in Entries : epgData[id].ch = ch
       THEN epgByChannelID[ch] \in {id \in Entries : epgData[id].ch = ch}
       ELSE epgByChannelID[ch] = Absent
  /\ \A id \in GuideIds : programsByEPGID[id] = {p \in programs : p.epg = id}

\* A channel has one entry, so the guide shows one source's programmes for it,
\* and the one that runs now is among those that a scan finds.
OneEntryPerChannel ==
  /\ \A a, b \in Entries : epgData[a].ch = epgData[b].ch => a = b
  /\ \A ch \in GuideChannels, now \in Slots :
       GetNowByChannelID(ch, now) = {} <=>
         ~\E p \in programs : Running(p, now) /\ p.epg \in Entries /\ epgData[p.epg].ch = ch
  /\ \A ch \in GuideChannels, now \in Slots :
       {e.p : e \in {g \in ListForGuide(now, now + 1) : g.ch = ch}} = ListNowPlaying(ch, now)

\* Programmes do not outlive their channel entry, in memory or in the file:
\* nothing would delete them any more.  They do when two goroutines work at
\* once and one replaces the entry for which the other is filling programmes.
NoOrphanPrograms ==
  ~overlapped =>
    /\ \A p \in programs : p.epg \in Entries
    /\ \A p \in file.programs : file.data[p.epg] # Absent

\* A source that was deleted leaves no entries, unless a refresh of it was
\* under way and brought them back; a start gets rid of these too, also when
\* they have reached the file.
NoGhostSource == reborn \/ \A id \in Entries : epgSources[epgData[id].src] # Absent

\* The guide's indexes answer what a scan of entries and programmes would, a
\* channel has one entry, programmes do not outlive their entry, and a deleted
\* source leaves none.
GuideSound == IndexesAgree /\ OneEntryPerChannel /\ NoOrphanPrograms /\ NoGhostSource

=============================================================================
