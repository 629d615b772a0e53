\* Pickups: a player, two pickups in one world or in any, limits that change: what is on record is current and examined.
CONSTANTS
  p1 = p1
  npc = npc
  s1 = s1
  s2 = s2
  a1 = a1
  a2 = a2
  Everywhere = Everywhere
  zero = zero
  Kind = "pickup"
  Players = {p1}
  Npcs = {}
  Ids = {1, 2}
  Places = {0, 1}
  Origin = 0
  Worlds = {0, 1}
  WorldSets <- AnyOrFirst
  Audiences <- OneOrNone
  GlobalCell = Everywhere
  Distances = {"negative", "positive"}
  Priorities = {0}
  Scripts = {a1}
  ServerIds = {s1, s2}
  Zero = zero
  Limits = {1, 0}
  MaxVisible = 1
  MaxCreations = 2
  Calls = {"destroy", "setItemPos", "setCoordinate", "setDistance", "disconnect", "setAudience", "unload", "destroyVisible", "setVisible", "toggleStatic"}
SPECIFICATION Spec
SYMMETRY Symmetry
INVARIANTS
  CopiesAreCurrent
  InRangeIsExamined

