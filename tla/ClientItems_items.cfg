\* Two items of a kind: map icons against limits, labels against a pool of one.
CONSTANTS
  Kinds = {"icon", "label"}
  MaxItems = 2
  MaxLost = 1
  Places = {0, 5}
  Distances <- StreamDistances
  Priorities = {0}
  Limits <- VisibleLimits
  Band = 4
  ChunkSize = 1
  CellDistance = 3
  Reach = 3
  Labels = {1}
  Calls <- CallsByKind
SPECIFICATION FairSpec
INVARIANTS
  TypeOK
  ClientMirrorsStreamer
  StaysReachable
PROPERTIES
  IdsAreSmallest
  SlotsAreSmallest
  ConvergesToWanted
