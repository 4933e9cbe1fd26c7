SPECIFICATION SceneSpec
CONSTANTS
  SpecID = {1}
  Index = {0, 1}
  Proc = {p1, p2}
  Caller = {c1, c2}
  Doc <- AllDocs
  Scenes <- StopScenes
  Nil = Nil
  MaxPushes = 2
  MaxStops = 1
  MayClose = FALSE
CHECK_DEADLOCK FALSE
SYMMETRY Interchangeable
INVARIANTS StateMatchesProc NoOrphanProcess TimersArmed
PROPERTIES HighestLeavesFirst
