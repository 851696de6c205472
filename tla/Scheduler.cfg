SPECIFICATION Spec
CONSTANTS
  Channels = {ch1}
  Schedules = {s1, s2}
  Manual = Manual
  RecIds = {s1, s2, Manual}
  Users = {u1}
  Windows <- MCWindows
  MaxTime = 3
  StartCutoff = 1
  LeadTime = 1
  RecordStopBuffer = 1
  None = None
SYMMETRY Symmetry
CHECK_DEADLOCK FALSE
INVARIANTS
  ScheduleInvariant
PROPERTY DeletedIsFinal
