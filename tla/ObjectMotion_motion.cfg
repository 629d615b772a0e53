\* Two objects, one vehicle they may be attached to, every native.
CONSTANTS
  Ids = {1, 2}
  Places <- Line2
  Stops = {0, 2}
  Roads = {0, 1}
  Anchors = {v}
  None = None
  Lost = Lost
  Nowhere = Nowhere
  GlobalCell = GlobalCell
  Wide = 2
  Junk = {Nowhere}
  Alike <- Neighbours
  Calls <- OneOfTwo
  Distances <- AllNear
SPECIFICATION FairSpec
INVARIANTS
  TypeOK
  MembersAreExact
  ClientFollows
PROPERTIES
  CellFollows
  MovesEnd
