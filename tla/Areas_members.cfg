CONSTANTS
  p = p
  none = none
  Nowhere = Nowhere
  Everywhere = Everywhere
  Players = {p}
  AreaIds = {1}
  Places = {0, 7}
  Roads = {7}
  Origin = 0
  Shapes = {"polygon"}
  Sizes = {3, 9}
  Audiences <- Everyone
  Bases = {"vehicle"}
  NoBase = none
  Offsets = {0}
  CellSize = 3
  CoarseCellSize = 12
  CoarseCellDistance = 5
  JunkDistances = {0}
  CellSizes = {}
  CellDistances = {3}
  GlobalCell = Everywhere
  Calls = {"create", "destroy", "attach", "recheck", "disconnect", "size", "place", "process", "cellDistance", "destroyVisible"}
SPECIFICATION Spec
INVARIANTS
  TypeOK
  InsideIsTold
  OutsideIsTold
  PointQueriesAgree
PROPERTIES
  UpdateIsExact
