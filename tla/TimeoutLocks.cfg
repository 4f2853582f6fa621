SPECIFICATION LockSpec
CONSTANTS
  Threads = {t1, t2, t3}
  Nodes = {n1, n2, n3}
  NoNode = NoNode
  MaxStamp = 6
  Interruptible = FALSE
  HeapNodes = {h1, h2, h3, h4}
  Available = Available
SYMMETRY Symmetry
CHECK_DEADLOCK FALSE
INVARIANTS
  LockTypeOK
  NodesKept
PROPERTY ImplementsTimeoutLock
