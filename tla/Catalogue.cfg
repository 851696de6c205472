SPECIFICATION CatalogueSpec
CONSTANTS
  Pair = {h1, h2}
  Ids = {i1, i2}
  Feed <- MCFeed
  Batch = 1
  Matching <- MCMatching
  KeyRank <- MCKeyRank
  MaxCount = 3
  MaxData = 2
  None = None
  EpgSources = {"e", "f"}
  GuideIds = {1, 2, 3, 4}
  Listed <- MCListed
  Slots = {0, 1}
  GuideJobs = {h1, h2}
  Absent = Absent
CHECK_DEADLOCK FALSE
SYMMETRY Symmetry
INVARIANTS
  IndexesAnswer
  IndexedAnswers
  GuideSound
  MetadataSound
PROPERTIES
  ImplementsStore
  IndexedImplementsStore
  ChangesKeep
