SPECIFICATION FairSpec
CONSTANTS
  Keys = {chan, strm}
  Dirs = {dir}
  DirOf <- OneDir
  SessIds = {s1, s2}
  Segmented = {s1}
  Consumers = {v1, r1}
  Recorders = {r1}
  Seekers = {}
  MaxGen = 0
  None = None
CHECK_DEADLOCK FALSE
INVARIANTS
  EmptyIsReclaimed
  CleanedAfterPipeline
PROPERTIES
  EmptyIsRemoved
  ImplementsFairLifecycle
