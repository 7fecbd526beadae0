CONSTANTS
  OneLevel <- MCOneLevel
  AnyLevels <- MCAnyLevels
  Names <- MCNames
  Types = {"int", "text"}
  MaxDepth = 3
  MaxEntries = 2
SPECIFICATION Spec
INVARIANTS TypeOK MatchesExactly NoDeadNodes MatchersAgree
CHECK_DEADLOCK FALSE
