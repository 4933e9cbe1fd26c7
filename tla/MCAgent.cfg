SPECIFICATION AllSpec
CONSTANTS
  d1 = d1
  d2 = d2
  Doc <- TwoDocs
  RouterPort <- Ports
  Empty = Empty
  Resync = Resync
  QueueCap = 1
  MaxWrites = 2
  MaxToggles = 1
  MaxDrops = 1
  MaxRestarts = 1
  MaxFaults = 2
  MaxEvents = 3
INVARIANTS
  ConfigFollows
  DiskIsHonest
PROPERTIES
  TriggersAreDoorbells
  AcceptedIsKept
  AgentConverges
