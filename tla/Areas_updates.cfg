CONSTANTS
  p = p
  none = none
  Nowhere = Nowhere
  Everywhere = Everywhere
  Players = {p}
  AreaIds = {1}
  Places = {0, 7}
  Roads = {}
  Origin = 0
  Shapes = {"circle"}
  Sizes = {3}
  Audiences <- Everyone
  Bases = {}
  NoBase = none
  Offsets = {0}
  CellSize = 3
  CoarseCellSize = 12
  CoarseCellDistance = 5
  JunkDistances = {0}
  CellSizes = {3}
  CellDistances = {0}
  GlobalCell = Everywhere
  Calls = {"create", "update", "updateEx", "toggle", "idle", "spectate", "spectateMode", "audience", "recheckAny",
           "cellSize", "coarseCellSize", "coarseCellDistance"}
SPECIFICATION FairSpec
PROPERTIES
  StayingIsTold
