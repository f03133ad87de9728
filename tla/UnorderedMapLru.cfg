SPECIFICATION Spec
CONSTANTS
  Key = {k1, k2, k3, k4}
  Value = {v1, v2}
  None = None
  Node = {n1, n2, n3}
  End = End
  Absent = Absent
  Capacity = {0, 1, 2}
INVARIANTS TypeOK ListIndexed SizeBounded IndexExact
PROPERTIES ImplementsLeastRecent
CHECK_DEADLOCK FALSE
