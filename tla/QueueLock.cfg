SPECIFICATION FairSpec
CONSTANTS
  Thread = {p, q, r}
  Span = 3
INVARIANTS TypeOK MutualExclusion
PROPERTIES ImplementsFairLock NobodyStarves
