SPECIFICATION GoingSpec
CONSTANTS
  Keys = {chan}
  Dirs = {dir}
  DirOf <- OneDir
  SessIds = {s1, s2}
  Segmented = {s1}
  Consumers = {v1, r1}
  Recorders = {r1}
  Seekers = {q1}
  MaxGen = 1
  None = None
CHECK_DEADLOCK FALSE
INVARIANTS
  TypeOK
  MapHoldsTheLive
PROPERTIES
  ImplementsLifecycle
  LockReleased
