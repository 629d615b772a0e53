\* Actors: one player, two actors in up to two worlds, room for one copy, limits that stay.
CONSTANTS
  p1 = p1
  s1 = s1
  s2 = s2
  a1 = a1
  a2 = a2
  Everywhere = Everywhere
  zero = zero
  Kind = "actor"
  Players = {p1}
  Npcs = {}
  Ids = {1, 2}
  Places = {0, 1}
  Origin = 0
  Worlds = {0, 1}
  WorldSets <- TwoWorlds
  Audiences <- Everyone
  GlobalCell = Everywhere
  Distances = {"positive"}
  Priorities = {0}
  Scripts = {a1}
  ServerIds = {s1, s2}
  Zero = zero
  Limits = {1}
  MaxVisible = 1
  MaxCreations = 2
  Calls = {"destroy", "setWorlds", "setActorPos", "destroyVisible", "occupy", "toggle"}
SPECIFICATION FairSpec
INVARIANTS
  TypeOK
  CopiesAccountedFor
PROPERTIES
  TickServesAll
  FollowsThePlayers
