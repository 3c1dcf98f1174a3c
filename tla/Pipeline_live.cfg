CONSTANTS
  c1 = c1
  url = url
  file = file
  NoSource = NoSource
  Requests = {r1, r2}
  Collections <- OneCollection
  Origins <- BothOrigins
  FileOrigins <- OneFile
  CollectionOf <- ForC1
  OriginOf <- AllFile
  MaxTries = 3
  MaxChunks = 1
SPECIFICATION FairSpec
INVARIANT JobsFindUploadStored
PROPERTIES PendingSettles JobsEnd
CHECK_DEADLOCK FALSE
