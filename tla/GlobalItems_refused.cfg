\* A script's own pickup takes the last room; the id 0 is one of the pool.
CONSTANTS
  p1 = p1
  s0 = s0
  s1 = s1
  a1 = a1
  a2 = a2
  Everywhere = Everywhere
  Kind = "pickup"
  Players = {p1}
  Npcs = {}
  Ids = {1, 2}
  Places = {0, 1}
  Origin = 0
  Worlds = {0, 1}
  WorldSets <- OneWorld
  Audiences <- Everyone
  GlobalCell = Everywhere
  Distances = {"positive"}
  Priorities = {0}
  Scripts = {a1}
  ServerIds = {s0, s1}
  Zero = s0
  Limits = {2}
  MaxVisible = 2
  MaxCreations = 2
  Calls = {"destroy", "occupy"}
SPECIFICATION Spec
INVARIANTS
  RefusalIsNoticed
