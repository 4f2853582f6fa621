SPECIFICATION LockSpec
CONSTANTS
  Threads = {1, 2}
  QueueThreads <- MCThreads
  Limit = 8
  MaxTickets = 7
  OwnNode <- MCOwnNode
  FirstNode = 0
  NoThread = 0
  Capacity = 3
  Cluster <- MCCluster
  Null = Null
  Mutexes = {"a", "b", "c"}
  Hierarchy <- MCHierarchy
  Highest = 3
  Generations = 2
  Promiser = 1
  Getter = 2
  Worker = 2
  Notifier = 3
CHECK_DEADLOCK FALSE
INVARIANTS
  LockTypeOK
  RecordInv
  LevelsInOrder
  NobodyEarly
  NoSleeperForgotten
  MutualExclusion
  PassedOnce
PROPERTIES
  ImplementsFifoLock
  EveryoneEnters
