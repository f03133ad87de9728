SPECIFICATION Spec
CONSTANTS
  a = a
  b = b
  c = c
  d = d
  e = e
  f = f
  Key = {a, b, c}
  Hash <- GrowHash
  Free = Free
  None = None
  u = u
  v = v
  Value = {u}
  Default = u
  FloatExact = 16777216
  MaxSize = 5
  InitialBuckets = 0
  ChoiceSets <- Growing
INVARIANTS TypeOK CountMatches NeverStuck
PROPERTIES BystandersKept
CHECK_DEADLOCK FALSE
