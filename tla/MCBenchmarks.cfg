SPECIFICATION Spec
CONSTANTS
    a = a
    b = b
    t = t
    n = n
    NoSpec = NoSpec
    NoDoc = NoDoc
INVARIANTS
  LeaseHolds
  EvidenceHolds

  
CHECK_DEADLOCK FALSE
