CONSTANTS
  d1 = d1
  d2 = d2
  m1 = m1
  m2 = m2
  m3 = m3
  Owner = owner
  Dispatchers = {d1, d2}
  Messages = {m1, m2, m3}
  NoMessage = NoMessage
SPECIFICATION Spec
INVARIANT FinishedLeavesNothing
CHECK_DEADLOCK FALSE
