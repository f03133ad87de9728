SPECIFICATION RehashSpec
CONSTANTS
  a = a
  b = b
  u = u
  v = v
  Key = {a, b}
  Hash <- TurnHash
  Free = Free
  None = None
  Value = {u, v}
  Default = u
  FloatExact = 16777216
  MaxSize = 17
  InitialBuckets = 7
  ChoiceSets <- SevenSeventeen
  Requests = {7, 17}
PROPERTIES RehashKeepsElements
