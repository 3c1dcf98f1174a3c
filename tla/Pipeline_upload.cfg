CONSTANTS
  c1 = c1
  url = url
  file = file
  NoSource = NoSource
  Requests = {r1}
  Collections <- OneCollection
  Origins <- BothOrigins
  FileOrigins <- OneFile
  CollectionOf <- ForC1
  OriginOf <- AllFile
  MaxTries = 1
  MaxChunks = 1
SPECIFICATION Spec
INVARIANT StoredUploadIsFound
CHECK_DEADLOCK FALSE
