SPECIFICATION StructureSpec
CONSTANTS
  Producers = {p1, p2}
  Consumers = {c1, c2}
  Values = {v1, v2}
  NoValue = NoValue
  NoThread = NoThread
  MaxLen = 2
  MapThreads = {t1, t2}
  Keys = {k1, k2, k3}
  NoKey = NoKey
  Ptrs = {a1, a2}
  NoPtr = NoPtr
  FirstLocks = a1
  Hash <- MCHash
  InitialSize = 2
  RefinableSize = 1
  Threshold = 0
  MaxSize = 4
INVARIANTS
  StructureTypeOK
  ConsumersServed
  RehashAlone
  NoLockAfterFree
PROPERTY StructureLinearizable
SYMMETRY Symmetry
