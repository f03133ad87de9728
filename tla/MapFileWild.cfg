SPECIFICATION BoundedSpec
CONSTANTS
  a = a
  b = b
  c = c
  d = d
  e = e
  MaxElem = 5
  u = u
  v = v
  Key = {a, b, c}
  Hash <- WildHash
  Free = Free
  None = None
  Value = {u}
  Default = u
  ZeroKey = a
  ZeroVal = u
  FloatExact = 16777216
  MaxSize = 4
  InitialBuckets = 2
  ChoiceSets <- ThreeFour
  DefaultChoices = {3, 4}
  Requests = {0, 2, 3, 4, 5}
INVARIANTS FileTypeOK MovesFollowPlan
PROPERTIES StoppedOrNot
