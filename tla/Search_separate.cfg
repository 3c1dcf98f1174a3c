CONSTANTS
  c1 = c1
  c2 = c2
  NoEntry = NoEntry
  Searches = {s1, s2}
  Collections = {c1}
  Queries = {q1}
  Sources <- TwoSources
  CollectionOf <- AllInC1
  TopKs <- Two
  Older <- Two
  SharedLoop = FALSE
  MaxChanges = 1
SPECIFICATION Spec
SYMMETRY Symmetry
INVARIANT NextSearchSeesReady
CHECK_DEADLOCK FALSE
