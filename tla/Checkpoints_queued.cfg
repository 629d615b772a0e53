\* The queued checkpoint is destroyed before it is shown.
CONSTANTS
  Players = {p1}
  Ids = {1, 2}
  None = 0
  RaceIds = {}
  Places <- Line3
  Origin = 0
  Priority <- RisingPriority
  StreamDistance <- Streamed2
  CellWidth <- CellsOf1
  ItemPlaces <- Apart
  Lead = 0
  Calls = {"destroy", "toggleIdle"}
SPECIFICATION FairSpec
PROPERTIES
  OneIsStreamed
