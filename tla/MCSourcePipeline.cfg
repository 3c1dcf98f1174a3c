CONSTANTS
  c1 = c1
  url = url
  file = file
  NoSource = NoSource
  Requests = {r1, r2}
  Collections <- OneCollection
  Origins <- BothOrigins
  FileOrigins <- OneFile
  CollectionOf <- ForC1
  OriginOf <- AllUrl
  MaxTries = 2
  MaxChunks = 2
SPECIFICATION Spec
SYMMETRY Symmetry
INVARIANTS TypeOK NoSilentStranding SettledIsComplete ReadyOnceIsComplete DuplicatesNeedOverlap
PROPERTIES DeletedStaysDeleted ReadyFailsOnlyByOverlap ImplementsLifecycle
CHECK_DEADLOCK FALSE
