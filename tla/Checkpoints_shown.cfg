\* One player, two checkpoints that compete and a race checkpoint, every native: what is shown, and what a player who stands still ends up seeing.
CONSTANTS
  Players = {p1}
  Ids = {1, 2, 3}
  None = 0
  RaceIds = {3}
  Places <- Line3
  Origin = 0
  Priority <- RisingPriority
  StreamDistance <- Streamed2
  CellWidth <- CellsOf1
  ItemPlaces <- OneRoams
  Lead = 1
  Calls = {"update", "destroy", "setPos", "destroyVisible", "toggleItem", "toggleIdle", "npc", "disconnect"}
SPECIFICATION FairSpec
INVARIANTS
  TypeOK
  ClientShowsVisible
  ActiveIsShown
  NoTraceOfDestroyed
PROPERTIES
  StaysReachable
  SettlesOnBest
