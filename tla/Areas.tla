--------------------------------- MODULE Areas ---------------------------------
(***************************************************************************)
(* Dynamic areas: which players are in them, and what scripts are told.    *)
(*                                                                         *)
(* A player is examined against the areas of the grid cells around his     *)
(* sampled position when his update is due, by Streamer_Update(Ex), and by *)
(* the natives that recheck.  Each change of membership is recorded at     *)
(* once and queued; the queues are emptied every tickRate ticks, leaves    *)
(* before enters.  Each callback runs script code, which may call any      *)
(* native, so a callback is a step of its own.                             *)
(*                                                                         *)
(* Space is a line.  An area is a place and a size; it may follow an       *)
(* object, a player or a vehicle (a base).  Worlds, interiors and players  *)
(* of an area are one set, its audience.  Heights are left out but for one *)
(* thing: those of a newly attached cylinder or polygon are not            *)
(* initialised until attached areas are next processed.  Order within a    *)
(* queue (by priority) is left open.                                       *)
(*                                                                         *)
(* The grid has two tiers of cells and a global cell.  Its settings are    *)
(* changed at any time, one at a time, and everything is then filed anew.  *)
(***************************************************************************)
EXTENDS Integers, FiniteSets

CONSTANTS
  Players,
  AreaIds,         \* ids the identifier hands out, the smallest free one first
  Places,          \* coordinates of players, bases and new areas
  Roads,           \* those where bases get
  Origin,          \* the position of a Player just constructed
  Nowhere,         \* infinity, where an area is whose base is gone
  Shapes,          \* the STREAMER_AREA_TYPEs in use
  Sizes,           \* radii of round areas, diameters of the others
  Audiences,       \* sets of players an area may be for
  Bases,           \* what areas may be attached to
  NoBase,
  Offsets,         \* offsets of attached areas
  CellSize, CoarseCellSize, CoarseCellDistance,  \* the grid as constructed
  JunkDistances,   \* what its uninitialised comparableCellDistance may be
  CellSizes,       \* what scripts set the cell sizes of either tier to
  CellDistances,   \* and the cell distances
  GlobalCell,      \* the cell of areas examined for everyone
  Calls            \* the natives and events that happen

Round == {"circle", "cylinder", "sphere"}
Tall  == {"cylinder", "polygon"}

ASSUME AreaIdsAssumption == AreaIds \subseteq Nat
ASSUME SpaceAssumption ==
  /\ Places \subseteq Int /\ Sizes \subseteq Nat /\ Offsets \subseteq Int
  /\ Nowhere \notin Int /\ Origin \in Places /\ Roads \subseteq Places
ASSUME ShapeAssumption ==
  Shapes \subseteq {"circle", "cylinder", "sphere", "rectangle", "cuboid", "polygon"}
ASSUME PeopleAssumption == Audiences \subseteq SUBSET Players /\ NoBase \notin Bases
ASSUME GridAssumption ==
  /\ CellSize \in Nat \ {0} /\ CoarseCellSize \in Nat \ {0} /\ CellSizes \subseteq Nat \ {0}
  /\ CoarseCellDistance \in Nat /\ JunkDistances \subseteq Nat /\ CellDistances \subseteq Nat
  /\ GlobalCell \notin (Nat \ {0}) \X (Int \cup {Nowhere})

VARIABLES
  area,        \* core->getData()->areas
  player,      \* core->getData()->players, and where they really are
  base,        \* where the bases are; Nowhere if there is no such thing
  grid,        \* the settings of core->getGrid(); dist is what
               \* comparableCellDistance is the square of
  enters,      \* areaEnterCallbacks
  leaves,      \* areaLeaveCallbacks
  phase,       \* the loop of executeCallbacks that is running
  batch,       \* the callbacks it has still to call
  told,        \* what scripts have been told: the areas each player is in
  rushed,      \* pairs whose leave or end came while an enter was pending
  nested,      \* pairs whose leave was queued from within a leave callback
  retiered,    \* areas that left the global cell with players in them
  erased       \* pairs taken off the record with no leave

queues  == <<enters, leaves, phase, batch>>
history == <<told, rushed, nested, retiered, erased>>
vars    == <<area, player, base, grid, queues, history>>

Pairs == AreaIds \X Players
Idle  == phase = "idle"

(* The pairs of area and player whose enter callback is still to come.     *)
EnterPending == enters \cup (IF phase = "enter" THEN batch ELSE {})
Pending == enters \cup leaves \cup batch

-----------------------------------------------------------------------------
(* Space.                                                                  *)

PlaceOf(ar) == IF ar.base = NoBase THEN ar.place ELSE ar.at

(* Utility::isPointInArea.  Round areas are open, boxes and polygons closed.*)
IsPointInArea(x, ar) ==
  /\ PlaceOf(ar) # Nowhere
  /\ LET d == x - PlaceOf(ar) IN
     IF ar.shape \in Round THEN d * d < ar.size * ar.size
                           ELSE 4 * d * d <= ar.size * ar.size

(* What it may return: heights of a cylinder or polygon are read before    *)
(* they are written, if it has just been attached.                         *)
Verdicts(x, ar) ==
  {IsPointInArea(x, ar)} \cup (IF ar.shape \in Tall /\ ar.base # NoBase /\ ~ar.heights THEN {FALSE} ELSE {})

IndexOf(x, width) == IF x = Nowhere THEN Nowhere ELSE x \div width

(* Grid::addArea, under the settings g: the tier by size, the cell by      *)
(* centroid.                                                               *)
CellFor(ar, g) ==
  IF ar.size <= g.dist THEN <<g.size, IndexOf(PlaceOf(ar), g.size)>>
  ELSE IF g.coarseDist > 0 /\ ar.size <= g.coarseDist
       THEN <<g.coarseSize, IndexOf(PlaceOf(ar), g.coarseSize)>>
       ELSE GlobalCell

(* Mutant: only what is in the global cell is assigned to another.         *)
Reassigned_Global(ar, g) == IF ar.cell = GlobalCell THEN [ar EXCEPT !.cell = CellFor(ar, g)] ELSE ar

(* Grid::removeArea(area, true).                                           *)
Reassigned(ar, g) == [ar EXCEPT !.cell = CellFor(ar, g)]

(* The cells a player or point is compared with, and the global one.       *)
Around(x, cell) ==
  \/ cell = GlobalCell
  \/ /\ cell[2] # Nowhere
     /\ cell[2] \in (x \div cell[1]) - 1 .. (x \div cell[1]) + 1

(* GetDynamicAreasForPoint and GetNumberDynamicAreasForPoint.              *)
AreasForPoint(x) ==
  {a \in DOMAIN area : Around(x, area[a].cell) /\ IsPointInArea(x, area[a])}

(* IsPointInDynamicArea, IsPointInAnyDynamicArea.                          *)
AreasAtPoint(x) == {a \in DOMAIN area : IsPointInArea(x, area[a])}

(* Utility::doesLineSegmentIntersectArea, on the segment from x to y, but  *)
(* for heights.                                                            *)
DoesLineIntersect(x, y, ar) ==
  /\ PlaceOf(ar) # Nowhere
  /\ LET c == PlaceOf(ar)
         d == IF (x <= c /\ c <= y) \/ (y <= c /\ c <= x) THEN 0
              ELSE IF (x - c) * (x - c) < (y - c) * (y - c) THEN x - c ELSE y - c
     IN IF ar.shape \in Round THEN d * d <= ar.size * ar.size
                               ELSE 4 * d * d <= ar.size * ar.size

(* What it may return: a cylinder or polygon that is attached is taken to  *)
(* be as high up as it was created, not where isPointInArea has it.        *)
LineVerdicts(x, y, ar) ==
  {DoesLineIntersect(x, y, ar)} \cup (IF ar.shape \in Tall /\ ar.base # NoBase THEN {FALSE} ELSE {})

(* What GetDynamicAreasForLine and GetNumberDynamicAreasForLine may find.  *)
AreasForLine(x, y) ==
  {L \in SUBSET DOMAIN area : \A a \in DOMAIN area : (a \in L) \in LineVerdicts(x, y, area[a])}

-----------------------------------------------------------------------------
(* Examination of a player.                                                *)

SatisfiesConditions(p, pl, ar) ==
  p \in ar.audience /\ (ar.spectate \/ ~pl.spectating)

(* The possible outcomes of processPlayerArea for the areas A.             *)
Outcomes(p, pl, A, as) ==
  {I \in SUBSET A :
     \A a \in A : (a \in I) \in {SatisfiesConditions(p, pl, as[a]) /\ v :
                                   v \in Verdicts(pl.pos, as[a])}}

(* Mutant: membership in an attached area is not kept.                     *)
Examined_Unseen(pl, A, I, as) == [pl EXCEPT !.internal = (@ \ A) \cup I]

(* processPlayerArea, given that of A he is in the areas I.                *)
Examined(pl, A, I, as) ==
  [pl EXCEPT !.internal = (@ \ A) \cup I,
             !.visible  = @ \cup {a \in I : as[a].cell # GlobalCell}]

Entered(pl, I) == I \ pl.internal
(* Mutant: only areas of visibleCell are left.                            *)
Left_Visible(pl, A, I) == (A \ I) \cap pl.internal \cap pl.visible
Left(pl, A, I) == (A \ I) \cap pl.internal

EventsOf(p, A) == A \X {p}

QueueEvents(p, entered, left) ==
  /\ enters' = enters \cup EventsOf(p, entered)
  /\ leaves' = leaves \cup EventsOf(p, left)
  /\ rushed' = rushed \cup (EventsOf(p, left) \cap EnterPending)
  /\ nested' = nested \cup (IF phase = "leave" THEN EventsOf(p, left) ELSE {})
  /\ erased' = erased \ EventsOf(p, entered)

(* The areas findAllCellsForPlayer brings up: around him, or kept because  *)
(* he was in them.                                                         *)
Found(pl, as) == {a \in DOMAIN as : a \in pl.visible \/ Around(pl.pos, as[a].cell)}

(* performPlayerUpdate of a player with areas enabled: visibleCell is      *)
(* emptied, and everything found is examined.                              *)
Update(p, pl, as) ==
  LET A == Found(pl, as) IN
  \E I \in Outcomes(p, pl, A, as) :
    /\ player' = [player EXCEPT ![p] = Examined([pl EXCEPT !.visible = {}], A, I, as)]
    /\ QueueEvents(p, Entered(pl, I), Left(pl, A, I))

Unexamined(p, pl) ==
  /\ player' = [player EXCEPT ![p] = pl]
  /\ UNCHANGED <<enters, leaves, rushed, nested, erased>>

-----------------------------------------------------------------------------
(* Attached areas.                                                         *)

(* Utility::constructAttachedArea.                                         *)
ConstructAttachedArea(ar, x) == [ar EXCEPT !.at = x + ar.offset, !.heights = TRUE]

(* processAttachedAreas: the area follows its base, or goes to infinity,   *)
(* where it is left in its cell.                                           *)
FollowBase(ar) ==
  IF ar.base = NoBase THEN ar
  ELSE IF base[ar.base] = Nowhere THEN [ar EXCEPT !.at = Nowhere]
  ELSE LET moved == ConstructAttachedArea(ar, base[ar.base]) IN
       IF ar.cell = GlobalCell THEN moved ELSE Reassigned(moved, grid)

Followed == [a \in DOMAIN area |-> FollowBase(area[a])]

(* AttachDynamicAreaToObject, -Player and -Vehicle: where the area is does *)
(* not change until it is processed.  Whatever it was attached to before   *)
(* is forgotten.                                                           *)
Attach(a, b, offset) ==
  /\ "attach" \in Calls /\ a \in DOMAIN area
  /\ area' = [area EXCEPT ![a].base = b, ![a].at = area[a].place,
                          ![a].offset = offset, ![a].heights = FALSE]
  /\ UNCHANGED <<player, base, grid, queues, history>>

(* Streamer_SetIntData leaves the offset uninitialised, and refuses        *)
(* objects.                                                                *)
SetAttachData(a, b) == b # "object" /\ \E offset \in Offsets : Attach(a, b, offset)

(* The same natives with an invalid id: only what is attached to that sort *)
(* of thing is detached.                                                   *)
Detach(a, b) ==
  /\ "attach" \in Calls /\ a \in DOMAIN area /\ area[a].base = b
  /\ area' = [area EXCEPT ![a] = Reassigned([@ EXCEPT !.base = NoBase], grid)]
  /\ UNCHANGED <<player, base, grid, queues, history>>

-----------------------------------------------------------------------------
(* Natives on areas.                                                       *)

(* The constructors of circles and cylinders leave spectateMode            *)
(* uninitialised, the others set it.                                       *)
SpectateModes(shape) == IF shape \in {"circle", "cylinder"} THEN BOOLEAN ELSE {TRUE}

NewArea(shape, x, size, audience, spectate) ==
  Reassigned([shape |-> shape, place |-> x, size |-> size, audience |-> audience,
              spectate |-> spectate, base |-> NoBase, at |-> x, offset |-> 0,
              heights |-> TRUE, cell |-> GlobalCell], grid)

Create(shape, x, size, audience) ==
  LET free == AreaIds \ DOMAIN area
      id   == CHOOSE i \in free : \A j \in free : i <= j
  IN /\ "create" \in Calls /\ free # {}
     /\ \E spectate \in SpectateModes(shape) :
          area' = [a \in DOMAIN area \cup {id} |->
                     IF a = id THEN NewArea(shape, x, size, audience, spectate) ELSE area[a]]
     /\ UNCHANGED <<player, base, grid, queues, history>>

(* Mutant: destroyArea leaves the players in it.                           *)
Forget_Not(pl, A) == pl

Forget(pl, A) == [pl EXCEPT !.internal = @ \ A, !.visible = @ \ A]

(* Scripts are told that whoever is in the areas leaves; of what is        *)
(* destroyed they keep no record.                                          *)
FinalAreaCallbacks(A) == told' = [p \in Players |-> told[p] \ A]

(* The final OnPlayerLeaveDynamicArea callbacks, then destroyArea, for one *)
(* area or for those of a script: DestroyDynamicArea,                      *)
(* Streamer_DestroyAllItems and the unloading of a script.                 *)
Destroy(A) ==
  /\ "destroy" \in Calls /\ A # {}
  /\ area'   = [a \in DOMAIN area \ A |-> area[a]]
  /\ player' = [p \in DOMAIN player |-> Forget(player[p], A)]
  /\ FinalAreaCallbacks(A)
  /\ rushed' = rushed \cup ((A \X Players) \cap EnterPending)
  /\ retiered' = retiered \ A
  /\ erased' = erased \ (A \X Players)
  /\ UNCHANGED <<base, grid, queues, nested>>

(* The areas that leave the global cell with players in them.              *)
OutOfGlobalCell(before, after) ==
  {a \in DOMAIN before : /\ before[a].cell = GlobalCell /\ after[a].cell # GlobalCell
                         /\ \E p \in DOMAIN player : a \in player[p].internal}

(* Streamer_SetFloatData of the size or the extent of an area.             *)
SetSize(a, size) ==
  /\ "size" \in Calls /\ a \in DOMAIN area
  /\ area' = [area EXCEPT ![a] = Reassigned([@ EXCEPT !.size = size], grid)]
  /\ retiered' = retiered \cup OutOfGlobalCell(area, area')
  /\ UNCHANGED <<player, base, grid, queues, told, rushed, nested, erased>>

(* Streamer_SetItemPos, and Streamer_SetFloatData of its coordinates.      *)
SetItemPos(a, x) ==
  /\ "place" \in Calls /\ a \in DOMAIN area
  /\ area' = [area EXCEPT ![a] = Reassigned([@ EXCEPT !.place = x], grid)]
  /\ UNCHANGED <<player, base, grid, queues, history>>

ToggleDynAreaSpectateMode(a) ==
  /\ "spectateMode" \in Calls /\ a \in DOMAIN area
  /\ area' = [area EXCEPT ![a].spectate = ~@]
  /\ UNCHANGED <<player, base, grid, queues, history>>

(* Streamer_ToggleItem, Streamer_SetArrayData and the like.                *)
SetAudience(a, audience) ==
  /\ "audience" \in Calls /\ a \in DOMAIN area
  /\ area' = [area EXCEPT ![a].audience = audience]
  /\ UNCHANGED <<player, base, grid, queues, history>>

-----------------------------------------------------------------------------
(* The settings of the grid.                                               *)

(* Grid::rebuildGrid with the settings g: every area is filed anew; what   *)
(* players are in, and what they keep of their last examination, stays.    *)
RebuildGrid(g) ==
  /\ grid' = g
  /\ area' = [a \in DOMAIN area |-> Reassigned(area[a], g)]
  /\ retiered' = retiered \cup OutOfGlobalCell(area, area')
  /\ UNCHANGED <<player, base, queues, told, rushed, nested, erased>>

Streamer_SetCellSize(w) == "cellSize" \in Calls /\ RebuildGrid([grid EXCEPT !.size = w])

(* The native squares the distance, and so does the grid.                  *)
Streamer_SetCellDistance(d) == "cellDistance" \in Calls /\ RebuildGrid([grid EXCEPT !.dist = d * d])

Streamer_SetCoarseCellSize(w) ==
  "coarseCellSize" \in Calls /\ RebuildGrid([grid EXCEPT !.coarseSize = w])

(* A distance of 0 disables the coarse tier.                               *)
Streamer_SetCoarseCellDistance(d) ==
  "coarseCellDistance" \in Calls /\ RebuildGrid([grid EXCEPT !.coarseDist = d])

-----------------------------------------------------------------------------
(* Natives that examine a player; positions are those last sampled.        *)

Recheck(p, A) ==
  \E I \in Outcomes(p, player[p], A, area) :
    /\ player' = [player EXCEPT ![p] = Examined(@, A, I, area)]
    /\ QueueEvents(p, Entered(player[p], I), Left(player[p], A, I))
    /\ UNCHANGED <<area, base, grid, phase, batch, told, retiered>>

(* IsPlayerInDynamicArea and IsAnyPlayerInDynamicArea with recheck (the    *)
(* latter looks at one player only).                                       *)
IsPlayerInDynamicArea(p, a) ==
  /\ "recheck" \in Calls /\ p \in DOMAIN player /\ a \in DOMAIN area
  /\ Recheck(p, {a})

(* IsPlayerInAnyDynamicArea with recheck: areas in any order up to the     *)
(* first he is in.                                                         *)
IsPlayerInAnyDynamicArea(p) ==
  /\ "recheckAny" \in Calls /\ p \in DOMAIN player
  /\ \E I \in Outcomes(p, player[p], DOMAIN area, area) :
       \E A \in IF I = {} THEN {DOMAIN area}
                ELSE {R \in SUBSET DOMAIN area : Cardinality(R \cap I) = 1} :
         /\ player' = [player EXCEPT ![p] = Examined(@, A, I \cap A, area)]
         /\ QueueEvents(p, Entered(player[p], I \cap A), Left(player[p], A, I \cap A))
         /\ UNCHANGED <<area, base, grid, phase, batch, told, retiered>>

(* startManualUpdate for all types or for areas; over: a delay has passed. *)
ManualUpdate(p, pl, over) ==
  LET pl1 == [pl EXCEPT !.delayed = @ /\ ~over] IN
  /\ area' = Followed
  /\ IF pl.enabled THEN Update(p, pl1, Followed) ELSE Unexamined(p, pl1)
  /\ UNCHANGED <<base, grid, phase, batch, told, retiered>>

Streamer_Update(p, over) ==
  /\ "update" \in Calls /\ p \in DOMAIN player
  /\ ManualUpdate(p, [player[p] EXCEPT !.pos = player[p].here], over)

(* Streamer_UpdateEx, without or with a delay, for which the player is     *)
(* taken to the position.                                                  *)
Streamer_UpdateEx(p, x, delay, over) ==
  /\ "updateEx" \in Calls /\ p \in DOMAIN player
  /\ ManualUpdate(p, IF delay THEN [player[p] EXCEPT !.pos = x, !.here = x, !.delayed = TRUE]
                              ELSE [player[p] EXCEPT !.pos = x], over)

(* Streamer_DestroyAllVisibleItems for areas, all or those of a script: no *)
(* callback is queued, and visibleCell stays.                              *)
DestroyAllVisibleAreas(p, A) ==
  /\ "destroyVisible" \in Calls /\ p \in DOMAIN player
  /\ player' = [player EXCEPT ![p].internal = @ \ A]
  /\ erased' = erased \cup EventsOf(p, A \cap player[p].internal)
  /\ UNCHANGED <<area, base, grid, queues, told, rushed, nested, retiered>>

Streamer_ProcessActiveItems ==
  /\ "process" \in Calls
  /\ area' = Followed
  /\ UNCHANGED <<player, base, grid, queues, history>>

ToggleItemUpdate(p) ==
  /\ "toggle" \in Calls /\ p \in DOMAIN player
  /\ player' = [player EXCEPT ![p].enabled = ~@]
  /\ UNCHANGED <<area, base, grid, queues, history>>

ToggleIdleUpdate(p) ==
  /\ "idle" \in Calls /\ p \in DOMAIN player
  /\ player' = [player EXCEPT ![p].idle = ~@]
  /\ UNCHANGED <<area, base, grid, queues, history>>

-----------------------------------------------------------------------------
(* The server.                                                             *)

(* The part of startAutomaticUpdate for a player that is due: attached     *)
(* areas are processed first; while an update is delayed, his position is  *)
(* not sampled.  Whoever has not moved is only examined if he asked for    *)
(* it.  (Players due in the same tick do not disturb each other.)          *)
Tick(p) ==
  /\ Idle /\ p \in DOMAIN player
  /\ IF player[p].delayed
     THEN \E over \in BOOLEAN : ManualUpdate(p, player[p], over)
     ELSE LET pl == [player[p] EXCEPT !.pos = player[p].here] IN
          /\ area' = Followed
          /\ IF pl.enabled /\ (pl.pos # player[p].pos \/ pl.idle)
             THEN Update(p, pl, Followed) ELSE Unexamined(p, pl)
          /\ UNCHANGED <<base, grid, phase, batch, told, retiered>>

(* executeCallbacks: the leaves that are pending now.                      *)
ExecuteCallbacks ==
  /\ Idle /\ enters \cup leaves # {}
  /\ phase' = "leave" /\ batch' = leaves /\ leaves' = {}
  /\ UNCHANGED <<area, player, base, grid, enters, history>>

Callback(a, p) ==
  /\ ~Idle /\ <<a, p>> \in batch
  /\ batch' = batch \ {<<a, p>>}
  /\ told' = IF a \notin DOMAIN area THEN told
             ELSE [told EXCEPT ![p] = IF phase = "leave" THEN @ \ {a} ELSE @ \cup {a}]
  /\ UNCHANGED <<area, player, base, grid, enters, leaves, phase, rushed, nested, retiered, erased>>

(* Mutant: the enters that were pending are dropped.                       *)
NextCallbacks_Drop ==
  /\ ~Idle /\ batch = {}
  /\ IF phase = "leave" THEN phase' = "idle" /\ batch' = {} /\ enters' = {}
                        ELSE phase' = "idle" /\ UNCHANGED <<batch, enters>>
  /\ UNCHANGED <<area, player, base, grid, leaves, history>>

(* Enters come next, those that leave callbacks caused included.           *)
NextCallbacks ==
  /\ ~Idle /\ batch = {}
  /\ IF phase = "leave" THEN phase' = "enter" /\ batch' = enters /\ enters' = {}
                        ELSE phase' = "idle" /\ UNCHANGED <<batch, enters>>
  /\ UNCHANGED <<area, player, base, grid, leaves, history>>

-----------------------------------------------------------------------------
(* The world.                                                              *)

(* Mutant: the position is not initialised.                                *)
NewPlayer_Unplaced(x) ==
  [here |-> x, pos |-> Nowhere, spectating |-> FALSE, enabled |-> TRUE, idle |-> FALSE,
   delayed |-> FALSE, internal |-> {}, visible |-> {}]

NewPlayer(x) ==
  [here |-> x, pos |-> Origin, spectating |-> FALSE, enabled |-> TRUE, idle |-> FALSE,
   delayed |-> FALSE, internal |-> {}, visible |-> {}]

Connect(p, x) ==
  /\ Idle /\ p \notin DOMAIN player
  /\ player' = [q \in DOMAIN player \cup {p} |-> IF q = p THEN NewPlayer(x) ELSE player[q]]
  /\ UNCHANGED <<area, base, grid, queues, history>>

(* No leave callbacks; scripts forget the player, but not the queues.      *)
Disconnect(p) ==
  /\ "disconnect" \in Calls /\ Idle /\ p \in DOMAIN player
  /\ player' = [q \in DOMAIN player \ {p} |-> player[q]]
  /\ told'   = [told EXCEPT ![p] = {}]
  /\ rushed' = rushed \cup ((AreaIds \X {p}) \cap EnterPending)
  /\ erased' = erased \ (AreaIds \X {p})
  /\ UNCHANGED <<area, base, grid, queues, nested, retiered>>

Move(p, x) ==
  /\ Idle /\ p \in DOMAIN player
  /\ player' = [player EXCEPT ![p].here = x]
  /\ UNCHANGED <<area, base, grid, queues, history>>

Spectate(p) ==
  /\ "spectate" \in Calls /\ Idle /\ p \in DOMAIN player
  /\ player' = [player EXCEPT ![p].spectating = ~@]
  /\ UNCHANGED <<area, base, grid, queues, history>>

(* A base moves, is destroyed or comes (back).                             *)
BaseMoves(b, x) ==
  /\ base' = [base EXCEPT ![b] = x]
  /\ UNCHANGED <<area, player, grid, queues, history>>

-----------------------------------------------------------------------------
Init ==
  /\ area = [a \in {} |-> 0] /\ player = [p \in {} |-> 0]
  /\ base \in [Bases -> Roads \cup {Nowhere}]
  /\ grid \in [size : {CellSize}, dist : JunkDistances,
               coarseSize : {CoarseCellSize}, coarseDist : {CoarseCellDistance}]
  /\ enters = {} /\ leaves = {} /\ phase = "idle" /\ batch = {}
  /\ told = [p \in Players |-> {}] /\ rushed = {} /\ nested = {} /\ retiered = {} /\ erased = {}

AreaStep(a) ==
  \/ \E b \in Bases : \/ \E o \in Offsets : Attach(a, b, o)
                      \/ SetAttachData(a, b) \/ Detach(a, b)
  \/ \E size \in Sizes : SetSize(a, size)
  \/ \E x \in Places : SetItemPos(a, x)
  \/ ToggleDynAreaSpectateMode(a)
  \/ \E audience \in Audiences : SetAudience(a, audience)

GridStep ==
  \/ \E w \in CellSizes : Streamer_SetCellSize(w) \/ Streamer_SetCoarseCellSize(w)
  \/ \E d \in CellDistances : Streamer_SetCellDistance(d) \/ Streamer_SetCoarseCellDistance(d)

PlayerStep(p) ==
  \/ Tick(p)
  \/ \E a \in AreaIds : IsPlayerInDynamicArea(p, a) \/ Callback(a, p)
  \/ IsPlayerInAnyDynamicArea(p)
  \/ \E over \in BOOLEAN : \/ Streamer_Update(p, over)
                           \/ \E x \in Places, delay \in BOOLEAN : Streamer_UpdateEx(p, x, delay, over)
  \/ ToggleItemUpdate(p) \/ ToggleIdleUpdate(p)
  \/ \E A \in SUBSET DOMAIN area : DestroyAllVisibleAreas(p, A)
  \/ \E x \in Places : Connect(p, x) \/ Move(p, x)
  \/ Disconnect(p) \/ Spectate(p)

Next ==
  \/ \E shape \in Shapes, x \in Places, size \in Sizes, audience \in Audiences :
       Create(shape, x, size, audience)
  \/ \E a \in AreaIds : AreaStep(a)
  \/ \E A \in SUBSET DOMAIN area : Destroy(A)
  \/ \E p \in Players : PlayerStep(p)
  \/ Streamer_ProcessActiveItems \/ GridStep
  \/ ExecuteCallbacks \/ NextCallbacks
  \/ \E b \in Bases, x \in Roads \cup {Nowhere} : BaseMoves(b, x)

(* The server's ticks never stop, and what executeCallbacks starts it ends.*)
Fairness ==
  /\ \A p \in Players : WF_vars(Tick(p))
  /\ WF_vars(ExecuteCallbacks) /\ WF_vars(NextCallbacks)
  /\ \A a \in AreaIds, p \in Players : WF_vars(Callback(a, p))

Spec == Init /\ [][Next]_vars
FairSpec == Spec /\ Fairness

-----------------------------------------------------------------------------
(* Properties.                                                             *)

Cells == {GlobalCell} \cup ((Nat \ {0}) \X (Int \cup {Nowhere}))
GridType == [size : Nat \ {0}, dist : Nat, coarseSize : Nat \ {0}, coarseDist : Nat]
AreaType ==
  [shape : Shapes, place : Places, size : Sizes, audience : SUBSET Players,
   spectate : BOOLEAN, base : Bases \cup {NoBase}, at : Int \cup {Nowhere},
   offset : Int, heights : BOOLEAN, cell : Cells]
PlayerType ==
  [here : Places, pos : Places, spectating : BOOLEAN, enabled : BOOLEAN, idle : BOOLEAN,
   delayed : BOOLEAN, internal : SUBSET AreaIds, visible : SUBSET AreaIds]

(* Every variable keeps its type.                                          *)
TypeOK ==
  /\ DOMAIN area \subseteq AreaIds /\ \A a \in DOMAIN area : area[a] \in AreaType
  /\ DOMAIN player \subseteq Players /\ \A p \in DOMAIN player : player[p] \in PlayerType
  /\ base \in [Bases -> Places \cup {Nowhere}] /\ grid \in GridType
  /\ enters \subseteq Pairs /\ leaves \subseteq Pairs /\ batch \subseteq Pairs
  /\ phase \in {"idle", "leave", "enter"} /\ (Idle => batch = {})
  /\ told \in [Players -> SUBSET AreaIds]
  /\ rushed \subseteq Pairs /\ nested \subseteq Pairs /\ retiered \subseteq AreaIds /\ erased \subseteq Pairs

(* Whoever is on record as being in an area is in one there is, and when   *)
(* nothing about the two is pending scripts have been told, however often  *)
(* he was examined in between, and even if the id of the area or of the    *)
(* player has belonged to another.  The exception is a leave that a leave  *)
(* callback causes: it waits for the next round, and enters do not.        *)
InsideIsTold ==
  \A p \in DOMAIN player : \A a \in player[p].internal :
    /\ a \in DOMAIN area
    /\ <<a, p>> \in Pending \cup nested \/ a \in told[p]

(* The converse is lost when a leave is queued behind an enter, which it   *)
(* overtakes, or when an enter outlives its area or player, and for whoever*)
(* Streamer_DestroyAllVisibleItems has taken off the record, until he      *)
(* enters again; otherwise scripts know of everyone who has left.          *)
OutsideIsTold ==
  \A p \in DOMAIN player, a \in DOMAIN area :
    <<a, p>> \notin Pending \cup rushed \cup erased /\ a \in told[p] => a \in player[p].internal

(* No area reaches further than to the cells next to its own, as long as   *)
(* cells are as wide as the areas in them.  Nothing keeps the settings of  *)
(* the grid so; the ones it is constructed with are not.                   *)
Covered(ar) == ar.cell = GlobalCell \/ ar.size <= ar.cell[1]

(* The areas of the cells around a point include all areas it is in, but   *)
(* for those too large for their cells, and for those attached since       *)
(* attached areas were last processed: these are at their own position     *)
(* again, and still in the cell of their last base.  However the settings  *)
(* of the grid have changed, no area is left in a cell nobody looks into.  *)
(* A line is found to meet the areas that its ends are in, but for         *)
(* attached cylinders and polygons: of these it takes other heights.       *)
PointQueriesAgree ==
  \A x \in Places :
    /\ \A a \in AreasAtPoint(x) \ AreasForPoint(x) :
         ~Covered(area[a]) \/ (area[a].base # NoBase /\ ~area[a].heights)
    /\ \A y \in Places : \A L \in AreasForLine(x, y) :
         \A a \in (AreasAtPoint(x) \cup AreasAtPoint(y)) \ L :
           area[a].base # NoBase /\ area[a].shape \in Tall

(* An update, automatic or not, that examines a player leaves him only in  *)
(* areas he is in, attached ones where their base is then, however far he  *)
(* or the area has gone since the last, and in all of them that fit their  *)
(* cells; but for areas that have left the global cell under him.          *)
UpdateIsExact ==
  [][\A p \in DOMAIN player \cap DOMAIN player' :
       player'[p].enabled /\ player'[p].pos # player[p].pos =>
         LET Inside == {a \in DOMAIN area' \ retiered :
                          /\ SatisfiesConditions(p, player'[p], area'[a])
                          /\ IsPointInArea(player'[p].pos, area'[a])}
         IN /\ player'[p].internal \ retiered \subseteq Inside
            /\ \A a \in Inside : Covered(area'[a]) => a \in player'[p].internal]_vars

InArea(p, a) ==
  /\ p \in DOMAIN player /\ a \in DOMAIN area
  /\ player[p].enabled /\ player[p].idle /\ ~player[p].delayed
  /\ SatisfiesConditions(p, player[p], area[a]) /\ area[a].base = NoBase
  /\ IsPointInArea(player[p].here, area[a]) /\ Covered(area[a])
  /\ <<a, p>> \notin nested

SampledWhereHeIs(p) ==
  p \in DOMAIN player \cap DOMAIN player' => player'[p].pos \in {player[p].pos, player[p].here}

(* Whoever stays in an area that fits its cell, with updates for idle      *)
(* players, is sooner or later known by scripts to be in it, for as long   *)
(* as he stays: unless a leave callback has seen him out, as above, or     *)
(* scripts go on updating him for some other place.                        *)
StayingIsTold ==
  \A p \in Players, a \in AreaIds :
    <>[]InArea(p, a) /\ <>[][SampledWhereHeIs(p)]_player
      => <>[](p \in DOMAIN player /\ a \in told[p])

=============================================================================
