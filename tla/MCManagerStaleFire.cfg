SPECIFICATION Spec
CONSTANTS
  SpecID = {1}
  Index = {0}
  Proc = {p1, p2}
  Caller = {c1}
  Doc <- RemovalDocs
  Scenes = {}
  Nil = Nil
  MaxPushes = 2
  MaxStops = 0
  MayClose = TRUE
SYMMETRY Generations
INVARIANTS BackoffTimerDiesWithSpec
