CONSTANTS
  p1 = p1
  p2 = p2
  Publishers = {p1, p2}
  Dispatcher = dispatcher
  Policies = {"ReturnFalse", "DropOldest", "DropNewest", "Block", "BlockTimeout"}
  Capacity = 2
  NoThread = NoThread
  NoValue = NoValue
  IdleLimit = 0
  MaxPublishes = 2
  HandlerCalls <- MCHandlerCalls
  MaxStarts = 2
SPECIFICATION Spec
SYMMETRY Symmetry
INVARIANTS TypeOK Conservation DispatchOrder
CHECK_DEADLOCK FALSE
