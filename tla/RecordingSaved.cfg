SPECIFICATION Spec
CONSTANTS
  Channels = {ch1}
  RecIds = {r1}
  Durations = {1, 2}
  MaxTime = 2
  None = None
CHECK_DEADLOCK FALSE
PROPERTY StopPreserves
