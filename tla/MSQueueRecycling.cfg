SPECIFICATION Spec
CONSTANTS
  Owners = {t1, t2}
  Ptrs = {p1, p2, p3}
  Values = {v1, v2}
  NoPtr = NoPtr
  NoValue = NoValue
INVARIANTS
  NothingLost
SYMMETRY Symmetry
CHECK_DEADLOCK FALSE
