CONSTANTS
  c1 = c1
  c2 = c2
  d1 = d1
  Callers = {c1, c2}
  Dispatchers = {d1}
  Topics = {"topic"}
  Patterns = {"pattern"}
  Matches <- MCMatches
  Types = {"int", "text"}
  MaxIds = 2
  MaxMessages = 2
SPECIFICATION FairSpec
INVARIANTS InForce NothingLeft Complete NoLateCall
PROPERTY DispatchReturns
CHECK_DEADLOCK FALSE
