CONSTANTS
  t1 = t1
  t2 = t2
  Threads = {t1, t2}
  Modules = {"module"}
  Levels = {1, 2}
  Options <- MCOptions
  DefaultOptions <- MCDefaultOptions
  MaxSize = 2
  MaxFiles = 1
  OldFiles = 2
  Sizes = {1, 3}
  MaxLoggers = 2
  MaxLines = 2
SPECIFICATION Spec
INVARIANTS LevelsAgree LevelDecides FlushReaches LoneFile
SYMMETRY Symmetry
CHECK_DEADLOCK FALSE
