CONSTANTS
  p1 = p1
  p2 = p2
  o1 = o1
  o2 = o2
  o3 = o3
  o4 = o4
  Callers = {p1, p2}
  Dispatchers = {"d"}
  Topics = {"a", "b"}
  NoTopic = ""
  Policies = {"ReturnFalse", "DropOldest", "DropNewest", "Block"}
  QueueCapacity = 2
  PoolCapacity = 1
  Objects = {o1, o2, o3, o4}
  TopicOf <- MCTopicOf
  WithCallback <- MCWithCallback
  NoCallback = NoCallback
  NoHandle = NoHandle
  MaxPublishes = 2
SPECIFICATION Spec
INVARIANTS OneIdPerTopic CountsPointers NothingLeaks
PROPERTIES ImplementsFlow StableIds
SYMMETRY Symmetry
CHECK_DEADLOCK FALSE
