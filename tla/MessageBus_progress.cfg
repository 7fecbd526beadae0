CONSTANTS
  p1 = p1
  Publishers = {p1, dispatcher}
  dispatcher = dispatcher
  Dispatcher = dispatcher
  Policies = {"ReturnFalse", "DropOldest", "DropNewest", "Block", "BlockTimeout"}
  Capacity = 2
  NoThread = NoThread
  NoValue = NoValue
  IdleLimit = 0
  MaxPublishes = 3
  HandlerCalls <- MCHandlerCalls
  MaxStarts = 2
SPECIFICATION FairSpec
INVARIANT StopDrains
PROPERTIES PublishReturns Delivery StopReturns
CHECK_DEADLOCK FALSE
