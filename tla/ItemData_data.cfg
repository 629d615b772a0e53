\* Every kind of item and of area, two of whose data are other than at first.
CONSTANTS
  Kinds <- AllKinds
  Shapes <- AllShapes
  Members = {0, 1}
  SetNames = {"PlayerId", "WorldId"}
  Arrays <- ThreeArrays
  Clients = {0}
  MaxCopies = 1
  MaxChanged = 2
  MaxArray = 2
  GlobalCell = GlobalCell
  AtBase = AtBase
SPECIFICATION Spec
INVARIANTS
  CopiesAreCurrent
  FiledByData
PROPERTIES
  ReadsBack
