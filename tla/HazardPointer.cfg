SPECIFICATION Spec
CONSTANTS
  Threads = {t1, t2, t3}
  Ptrs = {p1, p2, p3}
  Idx = {1}
  NoPtr = NoPtr
INVARIANTS
  TypeOK
  OneList
  GarbageBound
  ScanInv
PROPERTIES
  ImplementsReclamation
SYMMETRY Symmetry
CHECK_DEADLOCK FALSE
