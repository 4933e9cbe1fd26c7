SPECIFICATION SceneLiveSpec
CONSTANTS
  SpecID = {1, 2}
  Index = {0, 1}
  Proc = {p1, p2}
  Caller = {c1, c2}
  Doc <- AllDocs
  Scenes <- LiveScenes
  Nil = Nil
  MaxPushes = 1
  MaxStops = 0
  MayClose = TRUE
PROPERTIES WaitersAnswered CloseFinishes
CHECK_DEADLOCK FALSE
