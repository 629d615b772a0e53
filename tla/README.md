# A TLA+ model of omp-streamer-component

The component lets the scripts of an open.mp server create any number of
objects, checkpoints, map icons, ... and keeps on the client of each player
those that matter where the player is. This directory holds TLA+ modules that
model it, TLC configurations that check them on small instances, and theorems
that TLAPS proves for instances of any size. Paths below are relative to the
root of the repository.

## The system

Everything runs on the server's main thread. The server calls `onTick`
(`src/openmp_component.cpp:218`), event handlers when players connect, leave,
spawn, enter a checkpoint or pick something up (`src/callbacks.cpp`), and, in
the middle of any of these, scripts call natives. What is hard is not
parallelism: it is that the work of one decision is spread over many ticks,
through queues and ids kept per player, and that any native may be called in
between.

| Component | State | Operations | Talks to |
|---|---|---|---|
| Player updates (`src/streamer.cpp:100-453`, `src/player.h`) | per player: sampled position, world, interior, tick counters, enabled types, idle flag, delayed update | `startAutomaticUpdate`, `startManualUpdate`, `performPlayerUpdate`; connect and disconnect | server (position, world), grid (cells), the streaming of each type |
| Object streaming (`src/chunk-streamer.cpp:268-503`, `src/streamer.cpp:1060-1249`) | per player: `discoveredObjects`, `existingObjects`, `removedObjects`, `internalObjects`, `visibleCell`, limits, `processingChunks` | discovery; passes that destroy, evict and create; the same at once without chunk streaming | client (CreatePlayerObject, DestroyPlayerObject) |
| Map icons, text labels (`src/chunk-streamer.cpp:115-266,505-672`) | the same, and for icons an identifier of client slots | the same with fewer cases | client |
| Checkpoints and race checkpoints (`src/streamer.cpp:371-398,878-947,1337-1403`) | per player and kind: visible, active and delayed id, `visibleCell` | choosing the best, hiding, showing one update later; enter and leave events; natives | client, server events |
| Pickups, actors (`src/streamer.cpp:749-833,1251-1335`) | per (item, virtual world): the server-side id; global queues | discovery, creation in order of priority, deferred destruction of actors, resync | server |
| Areas (`src/streamer.cpp:835-876`, `src/natives/areas.cpp`) | per player: `internalAreas` | membership tests, enter and leave callbacks, areas attached to things | callbacks |
| Movement and attachment (`src/streamer.cpp:1531-1790`) | `movingObjects`, `attachedObjects`, `attachedAreas`, `attachedTextLabels` | positions recomputed once per tick round, items moved between cells | grid, client |
| Grid (`src/grid.cpp`) | cells of two tiers and a global cell | add, remove, reassign, rebuild, cells for a player | every type |
| Callbacks (`src/streamer.cpp:515-747`) | queues of events | collected while streaming, executed at the end of the tick | scripts |
| Identifiers (`src/identifier.cpp`) | highest id, ids returned | `get`, `remove`, `reset` | every type |
| Data (`src/data.h`) | the items, global limits and settings | natives under `src/natives/`, `src/manipulation/` | every component |
| Glue (`src/streamer_api.cpp`, `src/natives_table.cpp`, `src/streamer_component_api.cpp`, `src/utility/amx.cpp`) | none of its own | argument conversion, C++ API, calls to the server | - |

What makes each correct, and what is hard about it:

- **Objects.** The client holds exactly what the bookkeeping says; a destroyed
  id leaves no trace (it is handed out again); nothing on a client escapes the
  later updates; queued work is executed and the passes end; the limit per
  player holds; a player who stands still ends up with the right objects. Hard:
  four structures per player that overlap, filled in one tick and drained in
  others, with manual updates, moves, destruction, limits and failures of the
  client's object pool in between.
- **Checkpoints.** What scripts are told is visible or active is what the client
  shows; the best one in range is shown in the end. Hard: a checkpoint is
  chosen in one update and shown in the next, through an id that may have been
  destroyed or handed out again by then; the old one is disabled but still
  called visible in between.
- **Map icons, text labels.** As objects; client slots of icons are never shared.
- **Pickups, actors.** One server-side item per world of the item, none left
  behind when the set of worlds changes or the item is destroyed.
- **Areas.** What scripts have been told agrees with who is in, however a membership
  ends; an update finds exactly the areas a player is in. Hard: queues of callbacks
  executed later, in which scripts call the natives that fill them.
- **Movement, attachment.** The sets that ticks go through are complete, every move
  ends, and grid and clients follow. Hard: three interfaces with code of their own,
  and bases that move or stream at other times than what is attached to them.
- **Grid.** An item in range is in one of the cells searched, if cells are as wide as the
  range of what is in them; no item is in two. Hard: the settings change under players.
- **Callbacks.** Every stream-in is followed by a stream-out of the same item;
  none is delivered for an item that is gone.
- **Identifiers.** An id is not handed out twice, and the smallest free one is.
- **Data.** What is set reads back; grid and clients follow the data. Hard: a table of
  names per kind and native, of which none may miss an entry.

`PROJECT.json` lists the hazards at their lines, with the properties that cover
each of them or the reason why none does.

## Modules

| Module | Contents |
|---|---|
| `ObjectStreaming` | objects, with and without chunk streaming, the updates of players, the natives that change what is streamed, players who come and go |
| `Checkpoints` | checkpoints and race checkpoints: updates, events, natives |
| `GlobalItems` | pickups and actors: the copies the server holds, ticks, natives, players, a pool shared with scripts |
| `Areas` | areas: membership, attached areas, the natives that examine or query, and the callbacks |
| `ClientItems` | map icons and text labels of a player, with the identifiers of items and of client slots |
| `SmallestFree` | what an identifier promises; `ClientItems` implements it twice |
| `ObjectMotion` | objects that move or are attached, under natives, data and the component interface |
| `ItemData` | the data of items of all kinds, and the natives that read and change them by name |
| `ObjectStreamingProofs`, `CheckpointsProofs`, `GlobalItemsProofs`, `AreasProofs`, `ClientItemsProofs`, `ObjectMotionProofs`, `ItemDataProofs` | theorems about the modules they are named after |
| `MC...` | for each, definitions its configurations use as constants |

Definitions whose names have a suffix and whose comment says *Mutant* are
faulty versions of the definition that follows. They are not used; replaced for
the right one they make the run named in `PROJECT.json` report the property,
which shows that the property depends on that part of the code.

How the modules divide the system: each models one kind of item through everything
that acts on it (ticks, events, natives), since kinds share the grid's and the
player's code but no state; a player's update of one kind does not read another's.
Where two models meet, one leaves open what the other decides: which objects a client
has is free in `ObjectMotion` (`StreamIn`, `StreamOut`) and decided in
`ObjectStreaming`, where objects do not move by themselves; `ItemData` leaves open
which copies of an item there are. Positions on the way and looks are the
subject of the former and of no interest to the latter.

### ObjectStreaming

Variables have the names of the fields of `Data` and `Player`;
`clientObjects` counts the copies on each client, from the calls that create
and destroy them. A native, an event and the start of a tick's work on a player
are one action each. The loops of `streamObjects` and of `processObjects`, which
create and destroy one object per iteration, take one action per iteration:
`loop` says which of them is executing, and every other action waits for
`loop = Idle`, since nothing else runs on the thread.

| Code | Model |
|---|---|
| `startAutomaticUpdate`: chunk pass for a player with pending chunks, else an update | `StartChunkPass`, `AutomaticUpdate`, `IdleUpdate`; `Due` is the guard |
| `performPlayerUpdate`, with the position looked ahead along the velocity | `AutomaticUpdate`; `Predicted` |
| `findAllCellsForPlayer`, `processDiscoveredCellsForPlayer` | `Near`, `Examined` |
| `discoverObjects` | `DiscoverObjects` |
| `streamObjects` | `EnterStreamObjects`, `StreamOut`, `SkipStreamed`, `StreamIn`, `EndStreamObjects` |
| `processObjects` | `BeginProcessObjects`, `ProcessObject`, `EndProcessObjects` |
| eviction, limit, `CreatePlayerObject`, `streamingCanceled` | `Evicted`, `Yields`, `Full`, `CreateObject`, `CancelStreaming` |
| `OrderedItemSet`, `CandidateCmp` | sets of entries with `IsFirst`, `IsLast`, `SortedFirst`, `SortedLast` |
| `startManualUpdate` | `ManualUpdate` |
| `Streamer_DestroyAllVisibleItems`, `Utility::destroyObject`, limits, toggles | actions of the same name |

Abstractions: space has one axis, since the code only asks for distances and
whether two cells are neighbours; the distance from which an object is streamed,
its priority and the width of its cells are constants indexed by the object;
stream radius multipliers are 1, and a chunk pass takes place on every tick
(`chunkTickRate` is 1 unless a script changes it). Interiors, areas and player lists
are conditions like virtual worlds, of which one kind is enough. The identifier
is any free id, which covers every order of reuse. A call of
`Streamer_SetVisibleItems` for a player who is not connected falls through to the
branch for all players (`src/utility/misc.cpp:295`) and so is
`SetVisibleItemsForAll`. A delayed update is a `ManualUpdate` at any time.

### Checkpoints

The fields of `Player` of the two kinds are functions of the kind. The handlers
transform a *view*, the record of these fields for one player: `ShowOne` (what
`performPlayerUpdate` does first), `Process` (`processCheckpoints` and
`processRaceCheckpoints`, which differ in nothing but the fields), `Disable` and
`Hide`. `client` is what the client shows, `inside` whether the server has the
player in it; open.mp reports entering and leaving what the client shows, and
disabling or replacing it makes the player be outside without an event. Both are
modelled from the calls in `src/streamer.cpp` and the handlers in
`src/callbacks.cpp`.

### GlobalItems

Pickups and actors are held by the server, one copy per virtual world of the
item. `internal` is `internalPickups` or `internalActors`, the server id by item
and world; `server` is what the server holds under these ids, `foreign` the ids
of what scripts create in the same pool themselves. `Kind` chooses the type.

| Code | Model |
|---|---|
| `discoverPickups`, `discoverActors`, over all players | `Discovered`, from `WantedBy` |
| `streamPickups`, `streamActors` | `Stream`; `Chosen` is the loop's break at the limit and, for actors, at a refusal; `Served` is what the server grants |
| `processPendingDestroyedActors` | `StreamActors`, which starts from `destroyed` |
| `Utility::destroyPickup`, `destroyActor`, unloading of a script | `DestroyItems`, `OnAmxUnload` |
| loops that destroy and create an item's copies after a change | `Recreate` |
| `SetDynamicActorVirtualWorld` and the natives for sets of worlds | `SetWorlds` |
| `Streamer_SetItemPos`, `Streamer_SetFloatData`, `SetDynamicActorPos` | `SetItemPos`, `SetCoordinate`, `SetStreamDistance`, `SetActorPos`, which differ in what becomes of the grid cell |

Who is in the same place as an item is in range of it. The sign of the stream
distance is kept, for it decides whether the item is static; the radius
multipliers of players are 1. Lists of players, interiors and areas are one set,
the `audience`. Copies made anew one by one may take any free id or each other's
(`Reallocations`), but not merely exchange their ids, which no order allows.

### Areas

| Code | Model |
|---|---|
| `findAllCellsForPlayer`, `processAreas` in `performPlayerUpdate` | `Update`: what is `Found` is examined after `visibleCell` is emptied |
| `processPlayerArea` | `Examined`, with `Outcomes` for what geometry may answer, and `QueueEvents` |
| `startAutomaticUpdate`; `Streamer_Update`, `Streamer_UpdateEx` | `Tick`; `ManualUpdate` |
| `executeCallbacks` | `ExecuteCallbacks` takes the leaves, `Callback` calls one, `NextCallbacks` goes on to the enters |
| `processAttachedAreas`, `Utility::constructAttachedArea` | `Followed` |
| `Grid::addArea`, `removeArea(area, true)`, `rebuildGrid` | `CellFor`, `Reassigned`, `RebuildGrid` |
| `Streamer_SetCellSize`, `-Distance`, `Streamer_SetCoarseCellSize`, `-Distance` | actions of the same name |
| `GetDynamicAreasForPoint`, `IsPointInDynamicArea`, `GetDynamicAreasForLine` | operators of the same sense |
| natives that create, destroy, attach, resize, move and recheck | actions named after them |
| `Streamer_DestroyAllVisibleItems` for areas | `DestroyAllVisibleAreas`, for any areas, since a script may be limited to its own |

Space is a line, which keeps what the code compares: two tiers of cells, sizes,
distances, a position or none (infinity). Heights matter in two ways. Those of a
cylinder or polygon that has just been attached are read before they are written, so
`Verdicts` has both answers. And a line is compared with the heights the area was
created with, also when it is attached (`src/utility/geometry.cpp:28-31`), where a point
is compared with those of the attachment (`src/utility/geometry.cpp:76-79`), so that a
line may miss an area that its end is in: `LineVerdicts` has both answers. Worlds,
interiors and players of an area are one set.
A callback runs script code: between two `Callback` steps every native may be called,
and no tick or event of the server. Callbacks within a queue come in any order.
Ghost variables (`told`, `rushed`, `nested`, `retiered`, `erased`) record what scripts have
been told and the cases in which the code leaves them wrong, or an update incomplete:

- a leave queued while an enter is pending overtakes it, and an enter may outlive its
  area or player (`rushed`);
- a leave caused by a leave callback waits a round, while the enters do not (`nested`);
- an area that is made smaller, or fits a tier after its settings have changed, leaves
  the global cell without being put in the `visibleCell` of the players inside, who are
  not examined against it from afar (`retiered`);
- `Streamer_DestroyAllVisibleItems` takes a player's areas off the record and queues no
  leave (`src/natives/miscellaneous.cpp:1031-1047`): scripts go on believing him inside,
  until he is found inside and entered again (`erased`).

The settings of the grid are the variable `grid`, and scripts change them at any time.
An update looks into the nine cells around a player (three, on a line), so whatever
reaches further than one cell from its own may be missed. Nothing ties the size of cells
to the distance up to which items are filed in them: those constructed are 300 for 600
and 1500 for 2500 (`src/grid.cpp:22-31`, `src/grid.h:96-98`); `comparableCellDistance` has
no value until it is set (`JunkDistances`); and `Streamer_SetCellDistance` squares its
argument before `setCellDistance` does (`src/natives/settings.cpp:154`), so that with
600 everything up to 360000 goes to the fine tier. The properties therefore say what holds of any settings:
nobody is left in an area he is not in, and areas `Covered` by their cells are found.

### ClientItems and SmallestFree

Map icons and text labels of one player, streamed by the scheme of objects. A behaviour
is about one kind (`kind`). The loops take one action per entry, as in
`ObjectStreaming`.

| Code | Model |
|---|---|
| `Identifier::get`, `remove`, `reset` | `NextId` with `Taken`; `Returned` |
| `discoverMapIcons`, `discoverTextLabels` | `Discover` |
| `streamMapIcons`, `streamTextLabels` | `ChunkUpdate`, `StreamOut`, `StreamIn`, `EndPass` |
| `processMapIcons`, `processTextLabels` | `Process`, then `StreamIn` and `EndProcess` |
| eviction, limits (which differ: `Full`), refusals | `Evictions`, `NoRoom`, `Cancel` |
| natives, `Streamer_DestroyAllVisibleItems`, `Streamer_SetVisibleItems`, chunk streaming turned off and on | actions of the same name or sense |

`client` is what is shown by slot. The streamer numbers the slots of icons itself, and
setting an icon in a slot overwrites what is there; labels get a slot of the server's
pool, or none. `SmallestFree` says in a few lines what an identifier promises:
the smallest positive number that nobody holds. That ids of items
and slots of icons implement it are two refinements, with different mappings of
`held` (`IdsAreSmallest`, `SlotsAreSmallest`). The second has to count as held the
slots that `Streamer_DestroyAllVisibleItems` does not give back (`lost`;
`src/natives/miscellaneous.cpp:1003`).
Whoever an item is not for is as far away as can be; chunk tick rates only delay.

### ObjectMotion

| Code | Model |
|---|---|
| `processActiveItems`: `processMovingObjects`, `processAttachedObjects` | `ProcessActiveItems`, with `Advanced` and `Following` for one object |
| `executeCallbacks`, for moves | `ExecuteCallbacks` |
| `Grid::addObject`, `removeObject(object, true)` | `Filed`; `Refiled` for what has a cell |
| creation of a copy; calls to one that exists; copies made anew | `Made`; `Tell`, or `Silence` where there is none; `Renew` |
| `MoveDynamicObject`, `StopDynamicObject`, `SetDynamicObjectPos`, attachments | actions of the same name |
| the same of `StreamerComponentApi` | `MoveByComponent`, `SetPosByComponent`, `AttachByComponent` |
| `Streamer_SetIntData`, `Streamer_SetFloatData` of objects | `SetAttachedData`, `UnsetAttachedData`, `SetCoordinate`, `SetLooks`, `SetStreamDistance` |

Space is a line, speed one place per unit of time (`Elapse`). `client` is what each copy
was last told: to move to a place, to be attached to something, or nothing (`Still`). A
copy that moves gets there by itself, and nothing is said to it then
(`src/streamer.cpp:1568-1578`), so it goes on having been told to move there. Several calls
change an object and not its copies: a move that takes no time
(`src/natives/objects.cpp:254`), detaching, attaching to a vehicle or player that does not
exist (`src/streamer_api.cpp:369-376` and `:389-396` return before they reach the client),
positions set while a copy has yet to arrive from an earlier move, and attachments and
positions by the component interface. Where a copy is then left doing otherwise than its
object (`Astray`) the ghost `adrift` records it, until a call reaches the copy or it is
made anew; a copy made for a base that does not exist is adrift from the start. The
exception is not granted to moves: a copy was always told to move to where its object goes.

What is attached is filed again when the place of its base is not `isApprox` the one of the
tick before (`src/streamer.cpp:1746`), and that one is overwritten on every tick, so
whoever moves little enough from tick to tick is never noticed to have moved at all.
`isApprox` compares with a tolerance relative to the coordinates; the constant `Alike` is
any reflexive and symmetric relation. A new attachment's position is not initialised, so it
is any member of `Junk`. The ghost `mistaken` is what has been filed elsewhere than its base
is for one of these reasons (`Overlooked`).

Rotations, materials and positions relative to a base are left out. Once a move has been
dropped by a call that takes no time the object stays in `movingObjects` even when
destroyed; it is passed over from then on, which is why `moving` is the members that exist.

### ItemData

One item of any kind, with all of its data, after any sequence of the natives that
read and change data by name. The tables are those of the code: which names a
kind has (`IntsOf`, `FloatsOf`), which of them make the native remake the copies
(`IntsShown`, `FloatsShown`), and, from the streaming code, what a copy is made with
(`Shows`). A value is one of two. Sets follow `addToContainer`, `removeFromContainer`
and `convertArrayToContainer`, with their odd results for values out of bounds.
`copies` are the client's, or of pickups and actors those by world; `strayed`
marks a copy in a world the item was taken out of, which is not altered. What the natives
that change data return to scripts is left out, and so are calls that change nothing.

## Runs

| Run | Checks | Shows |
|---|---|---|
| `objects` | `StaysReachable`, `VisibleCap`, `QueueIsOfThisWorld`, `ConvergesToWanted`, `ConvergesToClosest` | one player, two objects in two worlds, room for one, every native but a change of limits: nothing on the client escapes later updates, the limit holds, queues are of the world the player is in, and whoever stands still ends up with what is in range, or with as many as there is room for and none that yields to one left out |
| `players` | `TypeOK`, `NoTraceOfDestroyed`, `ClientMirrorsStreamer` | two players share two objects; ids are reused, limits change, clients refuse, players leave in the middle of a pass' work |
| `cp_shown` | `TypeOK`, `ClientShowsVisible`, `ActiveIsShown`, `NoTraceOfDestroyed`, `StaysReachable`, `SettlesOnBest` | two competing checkpoints, of which one roams, and a race checkpoint, with every native: records and client agree, and who stands still sees the best in range |
| `gi_actors` | `TypeOK`, `CopiesAccountedFor`, `TickServesAll`, `FollowsThePlayers` | actors whose worlds change between two ticks, with deferred destruction and a pool that scripts use too: none is leaked or destroyed twice, and copies appear and go with what is wanted |
| `gi_copies` | `CopiesAreCurrent`, `InRangeIsExamined` | pickups in one world or in any, altered, moved, destroyed and created again under the same id, with limits that change |
| `areas_members` | `TypeOK`, `InsideIsTold`, `OutsideIsTold`, `PointQueriesAgree`, `UpdateIsExact` | an area that is small or large, follows a vehicle, changes tiers with the cell distance, is destroyed and replaced under its id, or taken off the record of a player, natives called from callbacks included |
| `areas_updates` | `StayingIsTold` | automatic, manual and delayed updates, toggles, spectating and changes to the tiers: whoever stays in an area becomes known to be in it |
| `clients_items` | `TypeOK`, `ClientMirrorsStreamer`, `StaysReachable`, `IdsAreSmallest`, `SlotsAreSmallest`, `ConvergesToWanted` | map icons against limits and lost slots, text labels against a pool of one: slots and ids are the smallest there are, none is shared or left behind, and who stands still has what is in range |
| `motion` | `TypeOK`, `MembersAreExact`, `ClientFollows`, `CellFollows`, `MovesEnd` | an object that moves or is attached, another as its base, and a vehicle that comes, moves and goes, under three interfaces, with some calls that clients do not hear of and moves of bases that are too small to tell |
| `data` | `CopiesAreCurrent`, `FiledByData`, `ReadsBack` | all eight kinds and six shapes, two data at a time other than at first |

Two runs show where the code does not do what a text of the repository says of it:

| Run | Property | Result |
|---|---|---|
| `cp_queued` | `OneIsStreamed` | `CHANGES.md:399-400` calls fixed that no checkpoint is streamed until the visible one is out of range; it still happens when the checkpoint that waits to be shown is destroyed (`src/streamer.cpp:940`) |
| `gi_refused` | `RefusalIsNoticed` | `CHANGES.md:418-419` tells of a check against creating too many; `CreatePickup` reports a refusal as 0 (`src/streamer_api.cpp:241`) and `streamPickups` expects -1 (`src/streamer.cpp:1325`), so the pickup is recorded under id 0 |

Other places where the code goes another way than one would expect need no run to
be seen, and the models do as the code does. `streamer.inc:248-251` says of objects, map
icons and text labels that with a hysteresis factor above 1 those streamed stay until the
player is that factor times the stream distance away. They do in updates at once
(`src/streamer.cpp:970`, `:1095`, `:1433`); chunk streaming, which is the default, does
not know the factor (`discoverObjects`, `discoverMapIcons` and `discoverTextLabels`,
`src/chunk-streamer.cpp:294`, `:134`, `:531`) and takes them off beyond the stream distance.
`ConvergesToWanted` takes neither side: inside the stream distance it demands items, beyond
the factor times it none, and in the band between them nothing; both models let the two
ways of streaming take turns. Furthermore, a closer object displaces a farther one
of higher priority (`src/chunk-streamer.cpp:398`); a limit lowered under what the
client holds is passed (`==` at `src/chunk-streamer.cpp:423`); a negative stream distance
set after creation is squared (`src/manipulation/float.cpp:1062`); a copy in a
world its item has left is not altered with it, and is kept if the item comes back
before the next tick (`src/manipulation/int.cpp:1218`), which is why `CopiesAreCurrent`
is checked and proved for items that stay in their worlds; a move by the
component interface and its attachments do other than the natives
(`src/streamer_component_api.cpp:184`); `Streamer_SetCellDistance` squares twice, and
what is in range is not always looked at, with the grid's own settings either; areas
erased without a leave, lines that miss attached areas, calls that clients do not hear of
and bases that move too slowly to be followed are told under `Areas` and `ObjectMotion`,
with the other exceptions named there.

Two consequences that no text speaks about are recorded as hazards: a race
checkpoint waits behind a checkpoint (`else if`, `src/streamer.cpp:385`) while
`visibleCell` is rebuilt without it, and is shown out of reach of later updates;
so is either kind when a script forces an update between choice and appearance.
`StaysReachable` and `SettlesOnBest` of `Checkpoints` therefore speak of the kind
`checkpoint`, without forced updates and destruction.

**Bounds.** Two objects are enough for one to wait, be evicted or be destroyed on
account of another, and room for one makes them compete;
three places give a position near, at the edge and out of range, and a cell that
is not among the neighbours; chunks of one object make a pass end before
its work does. Counters are bounded by the code itself (`chunkCount` by
`ChunkSize`, counts of copies by the invariant), so no state constraint is used.
`Calls` selects the natives of an instance; each run omits those that are another
run's question. `gi_copies` omits `SetDynamicActorPos` and excepts what
`Streamer_ToggleItemStatic` made static, for both leave an item in a cell where it is not
found (`src/natives/actors.cpp:294`, `src/natives/settings.cpp:255`). The runs have
between 14 thousand (`data`) and 1.1 million (`players`) states. Deadlock is
checked in every run. Symmetry is used only for the server ids of `GlobalItems`,
in `gi_copies`, which checks no liveness; other items differ in their attributes.

In `GlobalItems` an id has to be handed out twice for a copy to be mistaken for
another item's, so two items are created (`MaxCreations`) for one to take the
other's id; two worlds and the mark for any world make sets of worlds that a copy
can be left outside of. The pool has one id more than the limit, or, where limits
change, sometimes fewer, so that scripts can fill it and copies to be destroyed can
stand in the way of others.
`Intact` bounds the model itself: copies of which one was refused are not made
anew, for under the shared id 0 the code then releases whatever is there.
`Zero` is outside the pool in all runs but `gi_refused`, which is enough for the
records; that a script's own pickup 0 is released is then seen only there.

In `Areas` one id for areas and one for players, both used again and again, are what
a stale record or callback needs to be mistaken for another's; that areas or players
disturb each other nothing in the code suggests, and the theorems cover any number. Two
places and two sizes give a small area in the fine tier, a large one in the
global cell, and an area that moves between cells that are and are not neighbours;
the cell distance is 0 at first (one of the values it may have before it is set) and
9 once it is set to 3, so that the small area changes from the coarse to the fine tier
and the large one from the global cell to one too narrow for it. The vehicle comes to one place and disappears from it, again and
again; an area that follows it changes cells as it is attached, detached and left without
a base. The area is a polygon, which has heights and, unlike a circle or a cylinder, one
spectate mode from the start. `areas_updates` has circles, all in the coarse tier, makes its
cells smaller (those of the fine tier hold nothing), and turns it off.
In `ClientItems` the two places are 5 apart, where an icon is in the band in which it is kept and
a label beyond it; two items (`MaxItems`) are what a slot, an eviction or the reset of an
identifier (when the last goes) needs, and one lost slot (`MaxLost`) is what the next
one must not collide with. In `ObjectMotion` one object moves and is attached
while the other is its base and is moved and destroyed; three places make a move that
has a middle. Places next to each other are `Alike` and the vehicle visits two of these, so
it creeps, while the base that is an object is put from one end to the other, so it is
followed; `Junk` is `Nowhere` only, and what memory held is left to the theorem, which is
for any. The stream distance is near at creation; attaching to something far makes it far.
`ItemData` is a large product of independent data, so the bound is on
how many are other than at first (`MaxChanged`): two, for a table entry that is
missing concerns one datum, and corners, attachment with position and
synchronisation with attachment concern two. `MaxArray` bounds arrays of scripts.

**Fairness.** Only what the server does for ever is fair, and never a script or a
player. `ObjectStreaming`: a loop that has begun is finished (`WF` of
`StreamingStep`), for it is a loop of one function; each player with pending chunks gets
a chunk pass and each other one updates, again and again (`WF` of `StartChunkPass` and of
`AutomaticUpdate` at the place where the player is): `onTick` is called for ever
and its tick counters do not skip anybody. An update only has an effect on a
player who has moved or has `updateWhenIdle`, so the liveness properties speak of
players with that flag, and of behaviours in which scripts are silent from some
point on and the players stand still: nothing is promised to a
player who never stops moving. The same holds for `Checkpoints` and `ClientItems`.
For `GlobalItems` ticks come again and again (`WF` of `GlobalTick`); players and
scripts never have to be silent. For `Areas` each player's part of a tick and the
execution of callbacks come again and again, and a callback that is due is called;
`StayingIsTold` lets scripts and other players do what they like, as long as the
player stays where he is and is not updated for some other place. For
`ObjectMotion` something of what ticks and time do is done as long as it would change
anything (`WF` of `Server`, which leaves open what comes first); a script that stops or redirects moves for
ever is excepted by `MovesEnd`. `ItemData` has no liveness: a native returns.

## Proofs

`ObjectStreamingProofs` proves, for any sets of players, objects (finite), places
and worlds, any attributes, limits and chunk sizes:

| Theorem | States |
|---|---|
| `TypeCorrect` | `Spec => []TypeOK` |
| `LoopsAreSound` | `Spec => []LoopIsSound` |
| `DestroyedLeavesNoTrace` | `Spec => []NoTraceOfDestroyed` |
| `ClientsMirrorTheStreamer` | `Spec => []ClientMirrorsStreamer` |
| `StreamedObjectsStayReachable` | `Spec => []StaysReachable` |
| `QueuedWorkIsFlagged` | `Spec => []WorkIsFlagged` |
| `LimitHolds` | `Spec => []VisibleCap` |
| `QueueFollowsTheWorld` | `Spec => QueueIsOfThisWorld` |

The invariants are proved one upon the other. None but the first is inductive
alone. `ClientMirrorsStreamer` needs to know that a creation is for an object
that is not on the client: in `StreamIn` it is tested, in `ProcessObject` it is
`LoopIsSound`, which says that the candidates collected at the beginning stay
off the client and name each object once. `StaysReachable` needs
`NoTraceOfDestroyed`, for an update looks at existing objects only, and an object in
`visibleCell` that did not exist would be dropped from it. `VisibleCap` needs
`LoopIsSound` for a player who connects (nothing is on the client then) and the
finiteness of `Objects`, for the limit is one on cardinalities. Three lemmas carry
the rest: `StepCases` sorts the steps into eight groups, `UpdateEffect` reduces the
branches of an update to three outcomes (`UpdateOutcome`), and `AttemptEffect` says what
an attempt to create an object does, from whichever loop.
`QueueFollowsTheWorld` is about a step and rests on `WorkIsFlagged`: only an update
samples a player's world, automatic ones pass over whoever has pending chunks, and who
has none has nothing queued; forced ones empty the queue first.

`CheckpointsProofs` proves, for any players, ids, kinds of ids and places:

| Theorem | States |
|---|---|
| `CheckpointTypes` | `Spec => []TypeOK` |
| `VisibleIsShown` | `Spec => []ClientShowsVisible` |
| `ActiveOnlyInShown` | `Spec => []ActiveIsShown` |
| `DestroyedIsForgotten` | `Spec => []NoTraceOfDestroyed` |
| `ChosenStaysReachable` | `Spec => StaysReachable` |

The conjunction of the first four is inductive. It is stated once of a view (`Sound`), and each
handler is shown to make sound views of sound views; an action then keeps the
invariant because it sets one such view (`SetViewKeeps`), or hides one checkpoint
from all (`HideFromAllKeeps`). The second conjunct is what the third needs when
the player enters: the code activates the *visible* checkpoint, and it is only by
`ClientShowsVisible` that this is the one shown.
`ChosenStaysReachable` compares two views (`Stays`): what an update queues it files in
`visibleCell` (`ProcessStays`), what it takes out of reach it hides, and streaming race
checkpoints afterwards leaves the other kind as it is (`RaceKeepsOther`).

`GlobalItemsProofs` proves, for any finite pool, any finite sets of ids and worlds,
and any players, places, limits and natives called:

| Theorem | States | If |
|---|---|---|
| `GlobalItemTypes` | `Spec => []TypeOK` | |
| `LimitIsKept` | `Spec => []LimitHolds` | |
| `InRangeHasItsCell` | `Spec => []InRangeIsExamined` | `SetDynamicActorPos` and `Streamer_ToggleItemStatic` are not called |
| `EveryCopyIsAccountedFor` | `Spec => []CopiesAccountedFor` | `AlwaysRoom` |
| `CopiesFollowItems` | `Spec => [](NoOrphans /\ CopiesAreCurrent)` | `AlwaysRoom`, and worlds are not changed |
| `TicksServeAll` | `Spec => TickServesAll` | `AlwaysRoom` |

`AlwaysRoom` holds of actors; for pickups it says that scripts make none of their
own and that the limit, unchanged, is no larger than the pool. Without it the
theorem is false (`gi_refused`). Its use is one counting argument (`AllServed`):
the copies kept and those to be made are no more than the limit, so what remains
free of the pool is enough, and nobody is refused. The rest is about four
changes of the books (`Booked`): discarding, leaving to the next tick, clearing
and making copies keep them in order, and every action consists of these.
`CopiesFollowItems` adds that each copy is what would now be made from its item
(`Current`), which a new item under an old id would break if a copy could outlive
its item. `TicksServeAll` counts once more (`RoomIsLeft`): when copies are made the
server holds those kept and no other of the streamer's, since what was to be destroyed
is gone by then, so that ids for all that is wanted are ids for all that is missing.

`AreasProofs` proves, for any ids, players, places, shapes, sizes, bases and tiers:

| Theorem | States |
|---|---|
| `AreaTypes` | `Spec => []TypeOK` |
| `InsideIsKnown` | `Spec => []InsideIsTold` |
| `OutsideIsKnown` | `Spec => []OutsideIsTold` |
| `QueriesAgree` | `Spec => []PointQueriesAgree` |
| `UpdatesAreExact` | `Spec => UpdateIsExact` |

`InsideIsTold` and `OutsideIsTold` are not inductive, since what scripts know lags behind what is on
record. The invariant is on the books as a whole: who is inside is announced
(`InsideIsAnnounced`: an enter is pending, or scripts know and no leave is pending);
leaves queued while leaves are being called are `nested` (`LeavesAreNested`); scripts
know of areas that exist (`OnlyAreasAreTold`); and what they know, or are about to be
told, is so or will be taken back, but for what was rushed or erased (`ToldAreInside`;
`ErasureKeeps` is the step that erases). `ExaminationKeeps` shows that
an examination keeps the books whatever it finds, and every update and recheck is
one. That the identifier has a smallest free id to give rests on the well-foundedness
of the natural numbers, from the library.

The last two need an invariant about cells, `CellInv`. Every area is in the global cell
just when it is too large for both tiers, and, unless attached a moment ago, in the cell
of its place (`AllFiled`): from this a point within reach of a covered area has its cell
among the neighbours, which is arithmetic on quotients (`QueriesAgree`). That a line meets
the areas its ends are in is geometry, for all but those of which it may look at other
heights. And what a player is inside is in
`visibleCell` or in the global cell (`KeptInView`), so the next update examines it
wherever it takes him: that no record of a place left behind survives an update is
`UpdatesAreExact`. Areas that left the global cell under a player (`retiered`) break
`KeptInView`, and are excepted by the property for that reason.

`ClientItemsProofs` proves, for any number of items, any line of places, distances,
priorities and limits, any pool of labels and any natives called:

| Theorem | States |
|---|---|
| `Types` | `Spec => []TypeOK` |
| `NoIconIsOverwritten` | `Spec => []ClientMirrorsStreamer` |
| `NothingIsLeftBehind` | `Spec => []StaysReachable` |
| `IdsImplementSmallestFree` | `Spec => IdsAreSmallest` |
| `SlotsImplementSmallestFree` | `Spec => SlotsAreSmallest` |

One invariant serves all five (`Inv`). Its heart is what an identifier knows (`Knows`):
the numbers up to its highest that were not returned are those somebody holds. For ids
the holders are the items there are; for slots of icons they are the slots in use and
those `lost`, which are apart (`Sound`, stated of a client so that hiding and showing can
be looked at one after the other within a step). Then the next number is free, which
`NoIconIsOverwritten` needs, and it is the smallest one that is (`NextIsSmallest`), which is
all that the refinements need: each step of `ClientItems` takes the number that
`SmallestFree` would, returns numbers, or is a stutter (`TakenKnows`, `ReturnedKnows`). The
rest of `Inv` is types, and that the queues, `visibleCell` and the removed items
name items there are, the queue set aside by `Process` included, which is empty otherwise
(`SavedOK`).

`ObjectMotionProofs` proves, for any objects, anchors, places without gaps and
stream distances:

| Theorem | States |
|---|---|
| `MotionTypes` | `Spec => []TypeOK` |
| `MembersStayExact` | `Spec => []MembersAreExact` |
| `CopiesFollow` | `Spec => []ClientFollows` |
| `CellsFollow` | `Spec => CellFollows` |

The first three are proved together: `TypeOK` needs that a move takes as long as its
way is (`Measured`), or an object would leave the line; `ClientFollows` needs that what
moves is not attached (`MembersAreExact`), or it would be attached and move at once.
Nearly all actions change one object and its copy, which `OneObject` reduces to facts about
that object and that copy (`FollowsAs`): they hold because the copy was told or made anew
(`CopyTold`, `CopyRenewed`), or because the object is adrift from now on unless the silent
call made no difference (`CopySilent`). What was attached to a copy that is gone hangs
loose, which puts nobody astray who was not (`LooseEnds`). `CellsFollow` is about a step,
and needs what holds before it (`CellsKnown`): an object with a cell, unless mistaken, is
filed under its place, or, attached, under the place its base had when it was last looked
at. That is kept across a tick which takes two places for alike only because the object is
`Overlooked` then, and so mistaken.
`ItemDataProofs` proves, for any of the kinds and shapes, any number of members, clients,
copies and arrays:

| Theorem | States |
|---|---|
| `NoCopyIsStale` | `Spec => []CopiesAreCurrent` |
| `GridFollowsData` | `Spec => []FiledByData` |
| `WhatIsSetIsRead` | `Spec => ReadsBack` |

The first two are proved together, with the range of the data and of `copies`. What carries
them is a fact about the tables of the code, of which each kind has several:
every name a copy is made with is one whose change is told (`ShownIsTold`), and natives
know every such name (`ItemTables`). A missing entry would make these lemmas false.
That a set reads back as it was set (`SetFirstReads`) needs at least two members
(`MembersAssumption`; `MAX_PLAYERS` is 1000): with one, the set of that player is the
set of all, which reads as -1.

The assumptions are those the modules state on their constants, which TLC
evaluates in every run, and the conditions named above, and no others.

Proved and not in any run, for the proofs need them and the runs have other
questions: `LoopIsSound`, `WorkIsFlagged`, `NoOrphans` and `LimitHolds`.

Model-checked only: the liveness properties (`ConvergesToWanted` of `ObjectStreaming` and of
`ClientItems`, `ConvergesToClosest`, `SettlesOnBest`, `FollowsThePlayers`, `StayingIsTold`,
`MovesEnd`), since fairness and ENABLED are outside what TLAPS handles. Every other
property of a passing run is a theorem.

## Plan

1. Proofs: an abstract `Streaming` (a client holds a subset of what exists, changed by in,
   out and destroy only) that `ObjectStreaming` and `ClientItems` both implement, step by
   step as they do `SmallestFree`; and that the exceptions of `InsideIsTold` and
   `OutsideIsTold` come from the steps they are blamed on and no others.
2. `Grid`: creation and removal of cells, and `rebuildGrid` for items other than areas. In
   the other modules cells are as wide as the ranges of their instances, or convergence is
   stated for what the grid examines (`ConvergesToWanted` of `ClientItems`).
3. Attached text labels, which move as attached objects do.
4. The component interface beyond objects; tick rates and chunk tick rates.

A run is added only for a question no run asks yet, and a refinement becomes a
property of the run that already explores the module.

## Not modelled

Wording and conversion of native arguments and AMX glue, and those functions of the
C++ component interface that only forward (no state); the geometry of polygons and of
rotated attachments (computation on real numbers); materials, rotation and editing of
objects (copied to the client when created, or passed through); the stream-in and
stream-out callbacks, which no state of the streamer depends on: those of the chunk
streamer go to queues that `executeCallbacks` does not look at, which one look at the
code settles; profiling (`PhaseTimer`). The life of empty grid cells, rebuilding of the
grid for items other than areas, a cell size of 0, attached text labels and tick
rates are left to the plan. There is no crash to recover from, for nothing is persisted,
and no message that could be lost: client and server are told by calls.
