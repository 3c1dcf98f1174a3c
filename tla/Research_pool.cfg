CONSTANTS
  a = a
  b = b
  Collections = {c1}
  Calls = {r1}
  Questions = {q1, q2}
  PoolSize = 2
  Kinds = {"open"}
  Rankings <- OneRanking
  MaxTokens = 1
  MaxMarker = 1
SPECIFICATION FairSpec
PROPERTIES QuestionsAreAnswered
CHECK_DEADLOCK FALSE
