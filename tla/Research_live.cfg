CONSTANTS
  a = a
  b = b
  Collections = {c1}
  Calls = {r1, r2}
  Questions = {q1}
  PoolSize = 2
  Kinds = {"open", "get", "close", "save", "briefs", "sessions", "remove", "sources", "source", "collections", "ready"}
  Rankings <- OneRanking
  MaxTokens = 2
  MaxMarker = 1
SPECIFICATION FairSpec
PROPERTIES ImplementsStream CallsAreAnswered QuestionsAreAnswered
CHECK_DEADLOCK FALSE
