SPECIFICATION FairSpec
CONSTANTS
  Channels = {ch1}
  RecIds = {r1, r2}
  Durations = {1, 2}
  MaxTime = 3
  None = None
CHECK_DEADLOCK FALSE
INVARIANTS
  RecorderInvariant
PROPERTIES
  ImplementsContract
  RecorderReleased
