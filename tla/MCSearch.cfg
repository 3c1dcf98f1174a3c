CONSTANTS
  c1 = c1
  c2 = c2
  NoEntry = NoEntry
  Searches = {s1, s2}
  Collections = {c1, c2}
  Queries = {q1, q2}
  Sources <- TwoSources
  CollectionOf <- AllInC1
  TopKs <- One
  Older <- Two
  SharedLoop = TRUE
  MaxChanges = 1
SPECIFICATION Spec
SYMMETRY Symmetry
INVARIANTS AnswersStayInCollection DeletedIsNotFound TypeOK InvalidationReachesEntries
CHECK_DEADLOCK FALSE
