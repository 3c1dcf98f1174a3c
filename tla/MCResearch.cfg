CONSTANTS
  a = a
  b = b
  Collections = {c1}
  Calls = {r1, r2, r3}
  Questions = {q1}
  PoolSize = 2
  Kinds = {"open", "get", "close", "save", "briefs", "sessions", "remove"}
  Rankings <- AnyRanking
  MaxTokens = 2
  MaxMarker = 3
SPECIFICATION Spec
SYMMETRY Symmetry
INVARIANTS TypeOK NoOrphans NotFoundIsTrue SavedBriefStays ReadsWhatIsKnown StreamsEnd RecordedIsDelivered CitationsMatchAnswer PoolIsReturned
CHECK_DEADLOCK FALSE
