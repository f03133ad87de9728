SPECIFICATION Spec
CONSTANTS
  a = a
  b = b
  c = c
  d = d
  e = e
  f = f
  Key = {a, b, c, d, e, f}
  Hash <- WrapHash
  Free = Free
  None = None
  u = u
  v = v
  Value = {u}
  Default = u
  FloatExact = 16777216
  MaxSize = 7
  InitialBuckets = 7
  ChoiceSets <- Seven
INVARIANTS Lookup
