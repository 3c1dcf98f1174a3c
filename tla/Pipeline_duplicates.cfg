CONSTANTS
  c1 = c1
  url = url
  file = file
  NoSource = NoSource
  Requests = {r1, r2}
  Collections <- OneCollection
  Origins <- BothOrigins
  FileOrigins <- OneFile
  CollectionOf <- ForC1
  OriginOf <- AllUrl
  MaxTries = 1
  MaxChunks = 1
SPECIFICATION Spec
INVARIANT SettledHasNoDuplicates
CHECK_DEADLOCK FALSE
