SPECIFICATION FairSpec
CONSTANTS
  Thread = {p, q, r}
  Nobody = Nobody
  SpuriousFailures = FALSE
  MaxRecurse = 3
  MaxDepth = 2
INVARIANTS TypeOK MutualExclusion RecursionCounted ReleasedWhenDone
PROPERTIES NoSelfDeadlock SomebodyEnters
