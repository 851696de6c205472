---------------------------- MODULE ScheduleFile ----------------------------
(***************************************************************************)
(* The store of scheduled recordings and its file                          *)
(* (store/scheduled_recording.go), under the requests that book and cancel *)
(* recordings (service/scheduler.go).  Scheduler takes a change of the     *)
(* store as one step; here a change is what the code does: the rows are    *)
(* changed and the file is overwritten in place, both under the lock,      *)
(* except for ClearAndSave, which gives the lock back before it saves.     *)
(* The other stores that write one JSON file work the same way.            *)
(***************************************************************************)
EXTENDS Naturals, Sequences, SequencesExt

CONSTANTS
  Slots,      \* <<start, stop>> pairs that users ask for, on one channel
  Handlers,   \* requests
  MaxRows,    \* bounds the rows ever created
  None

VARIABLES
  rows,       \* ScheduledRecordingStoreImpl.recordings
  made,       \* number of rows ever created
  lock,       \* mu: None or the request that holds it
  file,       \* the file: its rows, or a part of them
  handler,    \* per request
  raced,      \* a row was created between the check and the creation of another
  mixed,      \* a save was made without the lock next to another one
  cut,        \* the program was stopped in the middle of a write
  loaded      \* Load accepted the file

scheduleVars == <<rows, made, lock, file, handler, raced, mixed, cut, loaded>>

Whole(r) == [torn |-> FALSE, rows |-> r]
Torn == [torn |-> TRUE, rows |-> << >>]
NoHandler == [pc |-> "idle", slot |-> <<0, 0>>, fresh |-> TRUE, data |-> << >>, clean |-> TRUE,
              reset |-> FALSE]

ScheduleInit ==
  /\ rows = << >> /\ made = 0 /\ lock = None /\ file = Whole(<< >>)
  /\ handler = [h \in Handlers |-> NoHandler]
  /\ raced = FALSE /\ mixed = FALSE /\ cut = FALSE /\ loaded = TRUE

Goto(h, from, with) == handler[h].pc = from /\ handler' = [handler EXCEPT ![h] = with]

Live(r) == r.status \notin {"cancelled", "failed", "completed"}

-----------------------------------------------------------------------------
(* Schedule: the check, then the creation. *)

ListByChannelAndTimeRange(slot) ==
  {r \in ToSet(rows) : Live(r) /\ r.slot[1] < slot[2] /\ r.slot[2] > slot[1]}

Schedule(h, slot) ==
  /\ lock = None
  /\ ListByChannelAndTimeRange(slot) = {}
  /\ Goto(h, "idle", [NoHandler EXCEPT !.pc = "create", !.slot = slot])
  /\ UNCHANGED <<rows, made, lock, file, raced, mixed, cut, loaded>>

(* Create; the others that passed their check did not see this row. *)
Create(h) ==
  /\ handler[h].pc = "create" /\ lock = None /\ made < MaxRows
  /\ lock' = h /\ made' = made + 1
  /\ rows' = Append(rows, [id |-> made + 1, slot |-> handler[h].slot, status |-> "pending", session |-> 0])
  /\ raced' = (raced \/ ~handler[h].fresh)
  /\ handler' = [g \in Handlers |->
       IF g = h THEN [handler[h] EXCEPT !.pc = "marshal"] ELSE [handler[g] EXCEPT !.fresh = FALSE]]
  /\ UNCHANGED <<file, mixed, cut, loaded>>

-----------------------------------------------------------------------------
(* The scheduler's updates, a cancellation and a reset. *)

updateField(h, i, row) ==
  /\ lock = None /\ lock' = h
  /\ Goto(h, "idle", [NoHandler EXCEPT !.pc = "marshal"])
  /\ rows' = [rows EXCEPT ![i] = row]
  /\ UNCHANGED <<made, file, raced, mixed, cut, loaded>>

Follows == [pending |-> {"recording", "failed"}, recording |-> {"completed", "failed"},
            completed |-> {}, failed |-> {}]

UpdateStatus(h, i) ==
  \E status \in Follows[rows[i].status] : updateField(h, i, [rows[i] EXCEPT !.status = status])

UpdateRecordingState(h, i) ==
  /\ rows[i].session = 0
  /\ updateField(h, i, [rows[i] EXCEPT !.session = 1])

Delete(h, i) ==
  /\ lock = None /\ lock' = h
  /\ Goto(h, "idle", [NoHandler EXCEPT !.pc = "marshal"])
  /\ rows' = RemoveAt(rows, i)
  /\ UNCHANGED <<made, file, raced, mixed, cut, loaded>>

ClearAndSave(h) ==
  /\ lock = None /\ rows' = << >>
  /\ Goto(h, "idle", [NoHandler EXCEPT !.pc = "marshal", !.reset = TRUE])
  /\ UNCHANGED <<made, lock, file, raced, mixed, cut, loaded>>

-----------------------------------------------------------------------------
(* save: the rows are encoded, the file is emptied, the file is written. *)

Saving == {g \in Handlers : handler[g].pc \in {"marshal", "truncate", "write"}}
NextToReset(h) == \E g \in Saving \ {h} : handler[g].reset \/ handler[h].reset

Marshal(h) ==
  /\ Goto(h, "marshal", [handler[h] EXCEPT !.pc = "truncate", !.data = rows])
  /\ mixed' = (mixed \/ NextToReset(h))
  /\ UNCHANGED <<rows, made, lock, file, raced, cut, loaded>>

Truncate(h) ==
  /\ handler[h].pc = "truncate"
  /\ file' = Torn
  /\ handler' = [g \in Handlers |->
       IF g = h THEN [handler[h] EXCEPT !.pc = "write", !.clean = TRUE]
       ELSE [handler[g] EXCEPT !.clean = FALSE]]
  /\ mixed' = (mixed \/ NextToReset(h))
  /\ UNCHANGED <<rows, made, lock, raced, cut, loaded>>

(* A file that another request has written to since it was emptied may end *)
(* up as a mixture.                                                        *)
Write(h) ==
  /\ Goto(h, "write", NoHandler)
  /\ lock' = IF lock = h THEN None ELSE lock
  /\ \E c \in IF handler[h].clean /\ file = Torn
              THEN {Whole(handler[h].data)} ELSE {Whole(handler[h].data), Torn} : file' = c
  /\ UNCHANGED <<rows, made, raced, mixed, cut, loaded>>

(* The program is stopped at any time; at the next start Load must accept  *)
(* the file, or the program ends.                                          *)
Restart ==
  /\ cut' = (cut \/ \E h \in Handlers : handler[h].pc = "write")
  /\ loaded' = ~file.torn
  /\ rows' = file.rows /\ lock' = None
  /\ handler' = [h \in Handlers |-> NoHandler]
  /\ UNCHANGED <<made, file, raced, mixed>>

ScheduleSteps ==
  loaded /\ \E h \in Handlers : Create(h) \/ Marshal(h) \/ Truncate(h) \/ Write(h)

ScheduleRequests ==
  loaded /\ \/ \E h \in Handlers, slot \in Slots : Schedule(h, slot)
            \/ \E h \in Handlers, i \in DOMAIN rows :
                 UpdateStatus(h, i) \/ UpdateRecordingState(h, i) \/ Delete(h, i)
            \/ \E h \in Handlers : ClearAndSave(h)
            \/ Restart

-----------------------------------------------------------------------------
(* The program can always be started again, unless it was stopped while    *)
(* the file was being overwritten, or a reset saved next to another change *)
(* (save overwrites in place; ClearAndSave saves without the lock).        *)
LoadsUnlessCut == loaded \/ cut \/ mixed

(* When nobody saves, the file holds the rows in memory, unless a reset    *)
(* saved next to another change: an acknowledged booking survives a        *)
(* restart.                                                                *)
BookingsSaved == Saving = {} /\ loaded /\ ~mixed => file = Whole(rows)

(* No two live bookings of a channel overlap, unless two requests made     *)
(* their checks before either created its row (Schedule).                  *)
NoDoubleBooking ==
  raced \/ \A i, j \in DOMAIN rows :
    i # j /\ Live(rows[i]) /\ Live(rows[j]) =>
      rows[i].slot[2] <= rows[j].slot[1] \/ rows[j].slot[2] <= rows[i].slot[1]
=============================================================================
