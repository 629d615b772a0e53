\* Two players share two objects that scripts destroy, move and create again.
CONSTANTS
  Players = {p1, p2}
  NoPlayer = NoPlayer
  Objects = {1, 2}
  Places = {0, 2}
  Worlds = {0}
  Origin = 0
  FirstWorld = 0
  Priority <- SamePriority
  StreamDistance <- OneStatic
  KeepDistance <- KeptStatic
  CellWidth <- OneGlobal
  ObjectWorlds <- OneWorld
  ObjectPlaces <- Roaming
  ChunkSize = 1
  VisibleItems = 1
  VisibleLimits = {0, 1}
  CreateMayFail = TRUE
  Lead = 0
  Calls = {"destroy", "setPos", "setVisible", "disconnect"}
SPECIFICATION Spec
INVARIANTS
  TypeOK
  NoTraceOfDestroyed
  ClientMirrorsStreamer
