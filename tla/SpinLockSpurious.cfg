SPECIFICATION Spec
CONSTANTS
  Thread = {p, q, r}
  Nobody = Nobody
  SpuriousFailures = TRUE
  MaxRecurse = 3
  MaxDepth = 2
INVARIANT ReleasedWhenDone
