SPECIFICATION FairSpec
CONSTANTS
  Tracks = {"video"}
  Seekers = {k1, k2}
  Polls = {2}
  MaxSegments = 2
  MaxLeftover = 1
CHECK_DEADLOCK FALSE
INVARIANTS
  SegmentsInvariant
PROPERTIES
  NumbersStay
  GoesOn
