SPECIFICATION Spec
CONSTANTS
  Tracks = {"video"}
  Seekers = {k1}
  Polls = {1}
  MaxSegments = 2
  MaxLeftover = 0
CHECK_DEADLOCK FALSE
INVARIANTS
  ServedFresh
