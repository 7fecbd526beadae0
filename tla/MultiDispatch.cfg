CONSTANTS
  p1 = p1
  Publishers = {p1}
  Dispatcher = dispatcher
  Policies = {"ReturnFalse"}
  Capacity = 2
  NoThread = NoThread
  NoValue = NoValue
  IdleLimit = 0
  MaxPublishes = 4
  HandlerCalls <- MCHandlerCalls
  MaxStarts = 2
  NumWorkers = 2
  Topics = {"a", "b"}
  TopicOf <- MCTopicOf
  WorkerOf <- MCWorkerOf
SPECIFICATION MultiFairSpec
INVARIANTS NothingLost TopicOrder StopDrains
PROPERTIES StopReturns
CHECK_DEADLOCK FALSE
