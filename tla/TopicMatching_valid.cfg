CONSTANTS
  Letters = {"a", "b"}
  MaxPattern = 5
  MaxTopic = 5
SPECIFICATION Spec
INVARIANTS ValidPatterns
CHECK_DEADLOCK FALSE
