CONSTANTS
  t1 = t1
  t2 = t2
  t3 = t3
  a = a
  b = b
  Threads = {t1, t2, t3}
  Values = {a, b}
  Capacity = 2
  NoThread = NoThread
  NoValue = NoValue
  MaxEnqueues = 3
  Runner = t1
SPECIFICATION RunnerSpec
INVARIANTS TypeOK Inv ExclusiveCells
PROPERTIES ImplementsFifo CallsReturn
