SPECIFICATION SceneSpec
CONSTANTS
  SpecID = {1}
  Index = {0, 1}
  Proc = {p1, p2}
  Caller = {c1}
  Doc <- AllDocs
  Scenes <- ReplicaScenes
  Nil = Nil
  MaxPushes = 3
  MaxStops = 0
  MayClose = FALSE
CHECK_DEADLOCK FALSE
SYMMETRY Generations
INVARIANTS NoLostWake FloorKept
