SPECIFICATION DeliverySpec
CONSTANTS
  Sources <- MCSources
  Frames = 2
  Jobs <- MCJobs
  MaxSeeks = 2
  Viewers = {v1, v2}
  Tries = 2
  Readers = {v1}
  FileRetryCount = 2
  MaxWrites = 3
  MaxVersion = 2
  Seekers = {k1, k2}
  None = None
CHECK_DEADLOCK FALSE
INVARIANTS
  PipelineSound
  ViewersServed
  SourceReadRight
  ReadToTheEnd
PROPERTIES
  ForwardOnly
  EverythingEnds
