CONSTANTS
  p1 = p1
  Publishers = {p1}
  Dispatcher = dispatcher
  Policies = {"Block"}
  Capacity = 2
  NoThread = NoThread
  NoValue = NoValue
  IdleLimit = 0
  MaxPublishes = 3
  HandlerCalls <- MCHandlerCalls
  MaxStarts = 1
SPECIFICATION FairSpec
PROPERTY BlockReturns
CHECK_DEADLOCK FALSE
