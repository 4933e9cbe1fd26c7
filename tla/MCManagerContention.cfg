SPECIFICATION SceneSpec
CONSTANTS
  SpecID = {1, 2}
  Index = {0}
  Proc = {p1, p2}
  Caller = {c1, c2}
  Doc <- AllDocs
  Scenes <- ContentionScenes
  Nil = Nil
  MaxPushes = 1
  MaxStops = 0
  MayClose = TRUE
CHECK_DEADLOCK FALSE
SYMMETRY Interchangeable
INVARIANTS TypeOK WaitersAccounted InFlightCountsLeases
PROPERTIES StartsAreAdmitted AnsweredOnce SignalledOnlyWhenIdle
