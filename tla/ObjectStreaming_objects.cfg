\* One player, room for one of two objects, every native but SetVisibleItems.
CONSTANTS
  Players = {p1}
  NoPlayer = NoPlayer
  Objects = {1, 2}
  Places <- Line3
  Worlds = {0, 1}
  Origin = 0
  FirstWorld = 0
  Priority <- SamePriority
  StreamDistance <- Streamed2
  KeepDistance <- Kept3
  CellWidth <- CellsOf1
  ObjectWorlds <- TwoWorlds
  ObjectPlaces <- OneRoams
  ChunkSize = 1
  VisibleItems = 1
  VisibleLimits = {}
  CreateMayFail = FALSE
  Lead = 1
  Calls = {"updateObject", "updateAll", "updateOther", "destroy", "setPos", "destroyVisible", "toggleChunk", "toggleItem", "toggleIdle", "npc", "disconnect"}
SPECIFICATION FairSpec
INVARIANTS
  StaysReachable
  VisibleCap
PROPERTIES
  QueueIsOfThisWorld
  ConvergesToWanted
  ConvergesToClosest
