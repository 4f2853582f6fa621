SPECIFICATION Spec
CONSTANTS
  Threads = {t1, t2}
  Ptrs = {p1, p2}
  NoPtr = NoPtr
  Keys = {1, 3}
  NoKey = NoKey
  Hash <- MCHash
  Bits = 4
  InitialSize = 2
  Threshold = 0
  SizeRange = 8
  MaxSize = 4
  FindAmongRemoves = FALSE
INVARIANTS
  ListInv
  NoUseAfterFree
  SizeCounts
PROPERTIES
  Linearizable
SYMMETRY Symmetry
CHECK_DEADLOCK FALSE
