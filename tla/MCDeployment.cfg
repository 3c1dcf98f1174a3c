CONSTANTS
  old = old
  new = new
  asking = asking
  searching = searching
  ingesting = ingesting
  Starts = {old, new}
  ToolCalls = {asking, searching, ingesting}
  MaxConnections = 2
  Files <- FilesOfImages
  ToolOf <- OneOfEach
  PoolSize = 1
  MaxFaults = 2
SPECIFICATION FairSpec
INVARIANTS TypeOK AppliedInOrder ServingHasSchema LeftByFailuresAndSearches
PROPERTIES ImplementsHistory EveryStartServes ToolCallsAreAnswered
