SPECIFICATION AllSpec
CONSTANTS
  Reader = {g1, g2}
  Writer = {w1}
  Requests = {q1, q2, q3}
  None = None
  NoRun = NoRun
  Gone = Gone
  TTL = 1
  MaxTime = 2
  MaxWrites = 2
SYMMETRY Interchangeable
INVARIANTS
  CacheIsFresh
  LimitsAreTimely
  
  EndIsTrue
CHECK_DEADLOCK FALSE
