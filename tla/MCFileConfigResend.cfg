SPECIFICATION LiveSpec
CONSTANTS
  d1 = d1
  d2 = d2
  Doc <- TwoDocs
  Empty = Empty
  Broken = Broken
  Gone = Gone
  MaxEdits = 1
  MaxRemovals = 0
  MaxToggles = 0
  MayResend = TRUE
  MaxLosses = 0
PROPERTIES EventuallyApplied
