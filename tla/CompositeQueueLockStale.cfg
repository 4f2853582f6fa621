SPECIFICATION Spec
CONSTANTS
  Threads = {t1, t2}
  Nodes = {n1, n2}
  NoNode = NoNode
  MaxStamp = 6
  Interruptible = TRUE
CHECK_DEADLOCK FALSE
INVARIANT MutualExclusion
