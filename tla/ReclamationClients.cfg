SPECIFICATION ClientSpec
CONSTANTS
  Owners = {t1, t2}
  Ptrs = {p1, p2, p3}
  Cells = {c1, c2}
  NoPtr = NoPtr
  Values = {v1, v2}
  NoValue = NoValue
INVARIANTS
  NoUseAfterFree
  ClaimInv
  NodesValid
PROPERTIES
  Linearizable
  LockFree
