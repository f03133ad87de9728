SPECIFICATION CalmSpec
CONSTANTS
  a = a
  b = b
  c = c
  d = d
  e = e
  MaxElem = 5
  u = u
  v = v
  Key = {a, b, c, d, e}
  Hash <- CalmHash
  Free = Free
  None = None
  Value = {u, v}
  Default = u
  ZeroKey = a
  ZeroVal = u
  FloatExact = 16777216
  MaxSize = 12
  InitialBuckets = 6
  ChoiceSets <- SixEleven
  DefaultChoices = {6, 11}
  Requests = {6, 7, 13}
INVARIANTS Lookup CountWhenOpen WalkVisitsAll
PROPERTIES EraseKeepsWalk ImplementsDurable
