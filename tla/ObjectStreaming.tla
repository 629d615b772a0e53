---------------------------- MODULE ObjectStreaming ----------------------------
(***************************************************************************)
(* Per-player streaming of dynamic objects: which of the objects scripts   *)
(* have created does the client of each player hold right now.             *)
(*                                                                         *)
(* The component is single-threaded.  A call (a native of a script, the    *)
(* streaming pass of one player inside onTick) runs to completion before   *)
(* the next one starts, but two of its parts are loops that create and     *)
(* destroy client objects one by one.  Their iterations are actions of     *)
(* their own, and `loop' says which loop is executing for which player;    *)
(* every other action waits until no loop is executing.                    *)
(*                                                                         *)
(* Space has one axis: all that the code asks of a position is the         *)
(* distance to an object and whether the object's grid cell is among the   *)
(* nine around the player.  Objects are unattached; what movement,         *)
(* attachment, areas and callbacks add is not part of this module.         *)
(***************************************************************************)
EXTENDS Integers, FiniteSets

CONSTANTS
  Players,         \* player ids
  NoPlayer,        \* not a player: no streaming loop is executing
  Objects,         \* object ids the identifier hands out (a destroyed id is reused)
  Places,          \* positions
  Worlds,          \* virtual worlds a player can be in
  Origin,          \* the position of a Player just constructed, and of no object yet
  FirstWorld,      \* and its virtual world
  Priority,        \* Objects -> Int: the priority an object is created with
  StreamDistance,  \* Objects -> Int: negative for a static object
  KeepDistance,    \* Objects -> Int: stream distance times the hysteresis factor
  CellWidth,       \* Objects -> Nat: cell width of the object's grid tier, 0 = globalCell
  ObjectWorlds,    \* Objects -> SUBSET Worlds: the worlds the object exists in
  ObjectPlaces,    \* Objects -> SUBSET Places: where scripts put the object
  ChunkSize,       \* items per streaming pass
  VisibleItems,    \* the server's initial limit of objects per player
  VisibleLimits,   \* values scripts give to Streamer_SetVisibleItems
  CreateMayFail,   \* whether the client's own object pool can be full
  Lead,            \* how far ahead of a moving player prediction may look
  Calls            \* the natives the scripts call

ASSUME ObjectsAssumption  == Objects \subseteq Nat /\ IsFiniteSet(Objects)
ASSUME PlayersAssumption  == NoPlayer \notin Players
ASSUME PlacesAssumption   == Places \subseteq Int /\ Origin \in Places /\ FirstWorld \in Worlds
ASSUME AttributeAssumption ==
  /\ Priority \in [Objects -> Int]
  /\ StreamDistance \in [Objects -> Int]
  /\ KeepDistance \in [Objects -> Int]
  /\ CellWidth \in [Objects -> Nat]
  /\ ObjectWorlds \in [Objects -> SUBSET Worlds]
  /\ ObjectPlaces \in [Objects -> SUBSET Places]
ASSUME LimitAssumption ==
  /\ ChunkSize \in Nat \ {0}
  /\ VisibleItems \in Nat
  /\ VisibleLimits \subseteq Nat
  /\ CreateMayFail \in BOOLEAN
  /\ Lead \in Nat

VARIABLES
  objects,                \* core->getData()->objects: the ids that exist
  place,                  \* Item::Object::position
  chunkStreamingEnabled,
  globalMaxVisible,       \* globalMaxVisibleItems[STREAMER_TYPE_OBJECT]
  players,                \* core->getData()->players: who is connected
  position,               \* Player::position, as sampled by the last update
  worldId,                \* Player::worldId, likewise
  updateWhenIdle,         \* Player::updateWhenIdle
  enabledItems,           \* Player::enabledItems[STREAMER_TYPE_OBJECT]
  maxVisibleObjects,
  currentVisibleObjects,
  internalObjects,        \* the ids with an internal (client) id
  discoveredObjects,      \* OrderedItemSet: in range, to be created
  existingObjects,        \* OrderedItemSet: created, candidates for eviction
  removedObjects,         \* created, out of range, to be destroyed
  visibleObjects,         \* visibleCell->objects
  processingChunks,       \* processingChunks[STREAMER_TYPE_OBJECT]
  clientObjects,          \* how many copies of each object the client holds
  loop,                   \* the streaming loop that is executing, and for whom
  chunkCount,             \* iterations the executing loop has done
  candidates,             \* local discoveredObjects of processObjects
  kept                    \* local existingObjects of processObjects

serverVars == <<objects, place, chunkStreamingEnabled, globalMaxVisible>>
sampleVars == <<players, position, worldId>>
limitVars  == <<updateWhenIdle, enabledItems, maxVisibleObjects>>
chunkVars  == <<discoveredObjects, existingObjects, removedObjects, processingChunks>>
shownVars  == <<internalObjects, visibleObjects, clientObjects>>
loopVars   == <<loop, chunkCount, candidates, kept>>
vars == <<serverVars, sampleVars, limitVars, currentVisibleObjects,
          chunkVars, shownVars, loopVars>>

Idle == [kind |-> "idle", player |-> NoPlayer]
Loops == {Idle} \cup [kind : {"remove", "create", "process"}, player : Players]

(* A key of an OrderedItemSet; the priority is the object's.               *)
Entries == [id : Objects, distance : Int]

-----------------------------------------------------------------------------
(* Geometry and ordering.                                                  *)

Abs(n) == IF n < 0 THEN -n ELSE n

HasCell(o) == CellWidth[o] # 0

(* Mutant: the test for a cell is inverted.                                *)
InVisibleCell_Inverted(ids) == {o \in ids : ~HasCell(o)}

(* visibleCell takes the objects that have a cell.                         *)
InVisibleCell(ids) == {o \in ids : HasCell(o)}

(* The object's cell is the global one or among those around x.            *)
Near(x, o) ==
  HasCell(o) => Abs((x \div CellWidth[o]) - (place[o] \div CellWidth[o])) <= 1

(* The distance discoverObjects compares: minus infinity for a static      *)
(* object, here -1, below every real distance.                             *)
Distance(x, o) == IF StreamDistance[o] < 0 THEN -1 ELSE Abs(x - place[o])

(* doesPlayerSatisfyConditions and the comparison with a threshold.        *)
Within(x, w, o, threshold) ==
  /\ w \in ObjectWorlds[o]
  /\ StreamDistance[o] < 0 \/ Distance(x, o) < threshold

InRange(x, w, o) == Within(x, w, o, StreamDistance[o])

(* Mutant Examined_OnlyNear: what visibleCell holds is not looked at.      *)
(* What findAllCellsForPlayer hands to discovery: the objects of the cells *)
(* around the player and of globalCell, and what visibleCell holds from    *)
(* cells further away.                                                     *)
Examined_OnlyNear(p, x) == {o \in objects : Near(x, o)}
Examined(p, x) == {o \in objects : Near(x, o) \/ o \in visibleObjects[p]}

EntriesOf(x, ids) == {[id |-> o, distance |-> Distance(x, o)] : o \in ids}
Ids(entries) == {e.id : e \in entries}
InsertOrAssign(entries, x, ids) ==
  {e \in entries : e.id \notin ids} \cup EntriesOf(x, ids)

(* CandidateCmp: higher priority first, then closer first.                 *)
Precedes(a, b) ==
  \/ Priority[a.id] > Priority[b.id]
  \/ Priority[a.id] = Priority[b.id] /\ a.distance < b.distance

(* OrderedItemSet::Key adds the id, so that no two entries are equal.      *)
KeyPrecedes(a, b) ==
  \/ Precedes(a, b)
  \/ /\ Priority[a.id] = Priority[b.id]
     /\ a.distance = b.distance
     /\ a.id < b.id

IsFirst(d, entries) == d \in entries /\ \A e \in entries \ {d} : KeyPrecedes(d, e)
IsLast(d, entries)  == d \in entries /\ \A e \in entries \ {d} : KeyPrecedes(e, d)

(* std::sort leaves the order of equal candidates open.                    *)
SortedFirst(d, entries) == d \in entries /\ \A e \in entries : ~Precedes(e, d)
SortedLast(d, entries)  == d \in entries /\ \A e \in entries : ~Precedes(d, e)

(* When the worst existing entry makes room for a discovered one.          *)
Yields(worst, d) ==
  \/ Priority[worst.id] < Priority[d.id]
  \/ worst.distance > 0 /\ d.distance < worst.distance

-----------------------------------------------------------------------------
Init ==
  /\ objects = {}
  /\ place = [o \in Objects |-> Origin]
  /\ chunkStreamingEnabled = TRUE
  /\ globalMaxVisible = VisibleItems
  /\ players = {}
  /\ position = [p \in Players |-> Origin]
  /\ worldId = [p \in Players |-> FirstWorld]
  /\ updateWhenIdle = [p \in Players |-> FALSE]
  /\ enabledItems = [p \in Players |-> TRUE]
  /\ maxVisibleObjects = [p \in Players |-> VisibleItems]
  /\ currentVisibleObjects = [p \in Players |-> VisibleItems]
  /\ internalObjects = [p \in Players |-> {}]
  /\ discoveredObjects = [p \in Players |-> {}]
  /\ existingObjects = [p \in Players |-> {}]
  /\ removedObjects = [p \in Players |-> {}]
  /\ visibleObjects = [p \in Players |-> {}]
  /\ processingChunks = [p \in Players |-> FALSE]
  /\ clientObjects = [p \in Players |-> [o \in Objects |-> 0]]
  /\ loop = Idle
  /\ chunkCount = 0
  /\ candidates = {}
  /\ kept = {}

(***************************************************************************)
(* Client side of CreatePlayerObject and DestroyPlayerObject: one player's *)
(* counts after the objects of a set are destroyed, after one is created.  *)
(* Mutant Hidden_Forgotten: the client is not told.                        *)
(***************************************************************************)
Hidden_Forgotten(counts, ids) == counts
Hidden(counts, ids) == [o \in Objects |-> IF o \in ids THEN counts[o] - 1 ELSE counts[o]]
Shown(counts, id)   == [o \in Objects |-> IF o = id THEN counts[o] + 1 ELSE counts[o]]

-----------------------------------------------------------------------------
(* The streaming loops: the iterations of streamObjects.                   *)

(* Nothing is left to do.                                                  *)
Drained(p) == discoveredObjects[p] = {} /\ removedObjects[p] = {}

(* Entering streamObjects: a pass drains removals, or else creates.        *)
EnterStreamObjects(p, removed) ==
  /\ loop' = [kind |-> IF removed # {} THEN "remove" ELSE "create", player |-> p]
  /\ chunkCount' = 0
  /\ UNCHANGED <<candidates, kept>>

(* One removal; the order of an unordered_set is arbitrary.                *)
StreamOut(p) ==
  /\ loop = [kind |-> "remove", player |-> p]
  /\ chunkCount < ChunkSize
  /\ \E o \in removedObjects[p] :
       /\ removedObjects' = [removedObjects EXCEPT ![p] = @ \ {o}]
       /\ internalObjects' = [internalObjects EXCEPT ![p] = @ \ {o}]
       /\ clientObjects' = [clientObjects EXCEPT ![p] = Hidden(@, {o} \cap internalObjects[p])]
  /\ chunkCount' = chunkCount + 1
  /\ UNCHANGED <<serverVars, sampleVars, limitVars, currentVisibleObjects, visibleObjects,
                 discoveredObjects, existingObjects, processingChunks, loop, candidates, kept>>

(* What is left on the client when `out' has been evicted for d.           *)
Remaining(p, out) == internalObjects[p] \ Ids(out)

(* Mutant: the limit is compared with > instead of ==.                     *)
Evicted_Over(p, d, worst) ==
  {e \in worst : /\ Cardinality(internalObjects[p]) > currentVisibleObjects[p]
                 /\ Yields(e, d)}

(* The eviction: of the worst existing entry, only at the current limit,   *)
(* only if it yields.  A set of at most one entry.                         *)
Evicted(p, d, worst) ==
  {e \in worst : /\ Cardinality(internalObjects[p]) = currentVisibleObjects[p]
                 /\ Yields(e, d)}

(* Mutant: the limit is compared with > instead of ==.                     *)
Full_OffByOne(p, out) == Cardinality(Remaining(p, out)) > maxVisibleObjects[p]

Full(p, out) == Cardinality(Remaining(p, out)) = maxVisibleObjects[p]

(* CreatePlayerObject succeeds: d is on the client and in visibleCell.     *)
CreateObject(p, d, out) ==
  /\ ~Full(p, out)
  /\ internalObjects' = [internalObjects EXCEPT ![p] = Remaining(p, out) \cup {d.id}]
  /\ clientObjects' = [clientObjects EXCEPT
        ![p] = Shown(Hidden(@, Ids(out) \cap internalObjects[p]), d.id)]
  /\ visibleObjects' = [visibleObjects EXCEPT
        ![p] = (@ \ Ids(out)) \cup InVisibleCell({d.id})]
  /\ UNCHANGED currentVisibleObjects

(* Mutant: the limit remembered is one too low, and may pass below zero.   *)
CancelStreaming_OffByOne(p, out) ==
  /\ Full(p, out) \/ CreateMayFail
  /\ internalObjects' = [internalObjects EXCEPT ![p] = Remaining(p, out)]
  /\ clientObjects' = [clientObjects EXCEPT ![p] = Hidden(@, Ids(out) \cap internalObjects[p])]
  /\ visibleObjects' = [visibleObjects EXCEPT ![p] = @ \ Ids(out)]
  /\ currentVisibleObjects' =
        [currentVisibleObjects EXCEPT ![p] = Cardinality(Remaining(p, out)) - 1]

(* The limit is reached or the client's pool is full: streamingCanceled.   *)
CancelStreaming(p, out) ==
  /\ Full(p, out) \/ CreateMayFail
  /\ internalObjects' = [internalObjects EXCEPT ![p] = Remaining(p, out)]
  /\ clientObjects' = [clientObjects EXCEPT ![p] = Hidden(@, Ids(out) \cap internalObjects[p])]
  /\ visibleObjects' = [visibleObjects EXCEPT ![p] = @ \ Ids(out)]
  /\ currentVisibleObjects' =
        [currentVisibleObjects EXCEPT ![p] = Cardinality(Remaining(p, out))]

(* Mutant: whether the object is on the client is not looked up.           *)
OnClient_NotAsked(p, d) == FALSE

OnClient(p, d) == d.id \in internalObjects[p]

(* The last entry of existingObjects, if there is one.                     *)
WorstExisting(p) == {e \in existingObjects[p] : IsLast(e, existingObjects[p])}

(* A discovered object that is already on the client is dropped.           *)
SkipStreamed(p) ==
  /\ loop = [kind |-> "create", player |-> p]
  /\ chunkCount < ChunkSize
  /\ \E d \in discoveredObjects[p] :
       /\ IsFirst(d, discoveredObjects[p])
       /\ OnClient(p, d)
       /\ discoveredObjects' = [discoveredObjects EXCEPT ![p] = @ \ {d}]
  /\ chunkCount' = chunkCount + 1
  /\ UNCHANGED <<serverVars, sampleVars, limitVars, currentVisibleObjects, shownVars,
                 existingObjects, removedObjects, processingChunks, loop, candidates, kept>>

(* One creation, with the eviction it may need.                            *)
StreamIn(p) ==
  /\ loop = [kind |-> "create", player |-> p]
  /\ chunkCount < ChunkSize
  /\ \E d \in discoveredObjects[p] :
       /\ IsFirst(d, discoveredObjects[p])
       /\ ~OnClient(p, d)
       /\ LET out == Evicted(p, d, WorstExisting(p))
          IN  /\ existingObjects' = [existingObjects EXCEPT ![p] = @ \ out]
              /\ \/ /\ CreateObject(p, d, out)
                    /\ discoveredObjects' = [discoveredObjects EXCEPT ![p] = @ \ {d}]
                 \/ /\ CancelStreaming(p, out)
                    /\ discoveredObjects' = [discoveredObjects EXCEPT ![p] = {}]
  /\ chunkCount' = chunkCount + 1
  /\ UNCHANGED <<serverVars, sampleVars, limitVars, removedObjects, processingChunks,
                 loop, candidates, kept>>

(* The pass ends: out of work or out of budget.                            *)
EndStreamObjects(p) ==
  /\ \/ loop = [kind |-> "remove", player |-> p] /\ (removedObjects[p] = {} \/ chunkCount = ChunkSize)
     \/ loop = [kind |-> "create", player |-> p] /\ (discoveredObjects[p] = {} \/ chunkCount = ChunkSize)
  /\ existingObjects' = [existingObjects EXCEPT ![p] = IF Drained(p) THEN {} ELSE @]
  /\ processingChunks' = [processingChunks EXCEPT ![p] = @ /\ ~Drained(p)]
  /\ loop' = Idle
  /\ chunkCount' = 0
  /\ UNCHANGED <<serverVars, sampleVars, limitVars, currentVisibleObjects, shownVars,
                 discoveredObjects, removedObjects, candidates, kept>>

-----------------------------------------------------------------------------
(* One player update: discovery (chunk streaming) or processing.  The      *)
(* cells are those around the sampled x, distances are measured from the   *)
(* predicted y.                                                            *)

(* A player who moved may be looked for ahead, along the velocity.         *)
Predicted(p, x) ==
  IF x = position[p] THEN {x} ELSE {y \in Places : Abs(y - x) <= Lead}

Sample(p, x, w) ==
  /\ position' = [position EXCEPT ![p] = x]
  /\ worldId' = [worldId EXCEPT ![p] = w]
  /\ UNCHANGED players

NotStreamed(p, ids) == ids \ internalObjects[p]

(* discoverObjects: visibleCell is rebuilt, the work is only queued, on    *)
(* top of the queues given (a manual update has emptied them).             *)
DiscoverObjects(p, x, y, w, discovered, existing, pending) ==
  LET seen    == Examined(p, x)
      inRange == {o \in seen : InRange(y, w, o)}
      on      == internalObjects[p]
  IN  /\ visibleObjects' = [visibleObjects EXCEPT ![p] = InVisibleCell(inRange \cap on)]
      /\ discoveredObjects' = [discoveredObjects EXCEPT
            ![p] = InsertOrAssign(discovered, y, NotStreamed(p, inRange))]
      /\ existingObjects' = [existingObjects EXCEPT
            ![p] = InsertOrAssign(existing, y, inRange \cap on)]
      /\ removedObjects' = [removedObjects EXCEPT ![p] = @ \cup ((seen \cap on) \ inRange)]
      /\ processingChunks' = [processingChunks EXCEPT
            ![p] = pending \/ discoveredObjects'[p] # {} \/ removedObjects'[p] # {}]

(* processObjects up to its loop: what is too far is destroyed at once,    *)
(* what is within the hysteresis band is kept.                             *)
BeginProcessObjects(p, x, y, w) ==
  LET seen    == Examined(p, x)
      inRange == {o \in seen : InRange(y, w, o)}
      on      == internalObjects[p]
      keep    == {o \in seen \cap on : o \in inRange \/ Within(y, w, o, KeepDistance[o])}
      out     == (seen \cap on) \ keep
  IN  /\ internalObjects' = [internalObjects EXCEPT ![p] = @ \ out]
      /\ clientObjects' = [clientObjects EXCEPT ![p] = Hidden(@, out)]
      /\ visibleObjects' = [visibleObjects EXCEPT ![p] = InVisibleCell(keep)]
      /\ candidates' = EntriesOf(y, NotStreamed(p, inRange))
      /\ kept' = EntriesOf(y, keep)
      /\ loop' = [kind |-> "process", player |-> p]
      /\ chunkCount' = 0

(* The loop of processObjects.  The vectors are sorted, not ordered sets.  *)
ProcessObject(p) ==
  /\ loop = [kind |-> "process", player |-> p]
  /\ \E d \in candidates :
       /\ SortedFirst(d, candidates)
       /\ \E worst \in IF kept = {} THEN {{}} ELSE {{e} : e \in {k \in kept : SortedLast(k, kept)}} :
            LET out == Evicted(p, d, worst)
            IN  /\ kept' = kept \ out
                /\ \/ CreateObject(p, d, out) /\ candidates' = candidates \ {d}
                   \/ CancelStreaming(p, out) /\ candidates' = {}
  /\ UNCHANGED <<serverVars, sampleVars, limitVars, chunkVars, loop, chunkCount>>

EndProcessObjects(p) ==
  /\ loop = [kind |-> "process", player |-> p]
  /\ candidates = {}
  /\ kept' = {}
  /\ loop' = Idle
  /\ UNCHANGED <<serverVars, sampleVars, limitVars, currentVisibleObjects, shownVars,
                 chunkVars, chunkCount, candidates>>

(* Mutant: players with pending chunks are updated as well.                *)
Due_Always(p) == loop = Idle /\ p \in players

(* startAutomaticUpdate updates the players without pending chunks.        *)
Due(p) == loop = Idle /\ p \in players /\ ~(chunkStreamingEnabled /\ processingChunks[p])

(* performPlayerUpdate of a player who has moved, or is updated when idle. *)
AutomaticUpdate(p, x, w) ==
  /\ Due(p)
  /\ x # position[p] \/ updateWhenIdle[p]
  /\ Sample(p, x, w)
  /\ IF enabledItems[p] /\ objects # {}
     THEN \E y \in Predicted(p, x) :
            IF chunkStreamingEnabled
            THEN /\ DiscoverObjects(p, x, y, w, discoveredObjects[p], existingObjects[p],
                                    processingChunks[p])
                 /\ UNCHANGED <<internalObjects, clientObjects, loopVars>>
            ELSE BeginProcessObjects(p, x, y, w) /\ UNCHANGED chunkVars
     ELSE UNCHANGED <<chunkVars, shownVars, loopVars>>
  /\ UNCHANGED <<serverVars, limitVars, currentVisibleObjects>>

(* A player who is idle, wasted or not yet spawned is only asked for the   *)
(* virtual world.                                                          *)
IdleUpdate(p, w) ==
  /\ Due(p)
  /\ Sample(p, position[p], w)
  /\ UNCHANGED <<serverVars, limitVars, currentVisibleObjects, chunkVars, shownVars, loopVars>>

(* startAutomaticUpdate for a player with pending chunks.                  *)
StartChunkPass(p) ==
  /\ loop = Idle
  /\ p \in players
  /\ chunkStreamingEnabled /\ processingChunks[p]
  /\ EnterStreamObjects(p, removedObjects[p])
  /\ UNCHANGED <<serverVars, sampleVars, limitVars, currentVisibleObjects, chunkVars, shownVars>>

-----------------------------------------------------------------------------
(* The natives scripts call, and players who come and go.                  *)

(* Streamer_Update and Streamer_UpdateEx (and an update delayed by it):    *)
(* of the objects only, of all types, or of another type.  Unlike the      *)
(* removals, the queued creations are forgotten; one pass follows at once. *)
ManualUpdate(p, type, x, w) ==
  /\ type \in Calls
  /\ loop = Idle
  /\ p \in players
  /\ Sample(p, x, w)
  /\ LET own     == type \in {"updateObject", "updateAll"}
         enabled == type = "updateObject" \/ (type = "updateAll" /\ enabledItems[p])
         forget(queue) == IF own THEN {} ELSE queue
         pending == ~own /\ processingChunks[p]
     IN  IF chunkStreamingEnabled
         THEN /\ IF enabled /\ objects # {}
                 THEN DiscoverObjects(p, x, x, w, {}, {}, FALSE)
                 ELSE /\ discoveredObjects' = [discoveredObjects EXCEPT ![p] = forget(@)]
                      /\ existingObjects' = [existingObjects EXCEPT ![p] = forget(@)]
                      /\ processingChunks' = [processingChunks EXCEPT ![p] = pending]
                      /\ UNCHANGED <<removedObjects, visibleObjects>>
              /\ IF processingChunks'[p]
                 THEN EnterStreamObjects(p, removedObjects'[p])
                 ELSE UNCHANGED loopVars
              /\ UNCHANGED <<internalObjects, clientObjects>>
         ELSE /\ IF enabled /\ objects # {}
                 THEN BeginProcessObjects(p, x, x, w)
                 ELSE UNCHANGED <<shownVars, loopVars>>
              /\ UNCHANGED chunkVars
  /\ UNCHANGED <<serverVars, limitVars, currentVisibleObjects>>

(* CreateDynamicObject; which free id is handed out is left open.          *)
CreateDynamicObject(o, x) ==
  /\ loop = Idle
  /\ o \notin objects
  /\ objects' = objects \cup {o}
  /\ place' = [place EXCEPT ![o] = x]
  /\ UNCHANGED <<chunkStreamingEnabled, globalMaxVisible, sampleVars, limitVars,
                 currentVisibleObjects, chunkVars, shownVars, loopVars>>

(* Mutant: eraseById is not called.                                        *)
Without_Kept(entries, o) == entries

Without(entries, o) == {e \in entries : e.id # o}

(* Utility::destroyObject leaves no trace of the id in any player.         *)
DestroyDynamicObject(o) ==
  /\ loop = Idle
  /\ o \in objects
  /\ objects' = objects \ {o}
  /\ place' = [place EXCEPT ![o] = Origin]
  /\ discoveredObjects' = [p \in Players |-> Without(discoveredObjects[p], o)]
  /\ existingObjects' = [p \in Players |-> Without(existingObjects[p], o)]
  /\ clientObjects' = [p \in Players |-> Hidden(clientObjects[p], {o} \cap internalObjects[p])]
  /\ internalObjects' = [p \in Players |-> internalObjects[p] \ {o}]
  /\ removedObjects' = [p \in Players |-> removedObjects[p] \ {o}]
  /\ visibleObjects' = [p \in Players |-> visibleObjects[p] \ {o}]
  /\ UNCHANGED <<chunkStreamingEnabled, globalMaxVisible, sampleVars, limitVars,
                 currentVisibleObjects, processingChunks, loopVars>>

(* The object moves to another cell; no player's queues are told.          *)
SetDynamicObjectPos(o, x) ==
  /\ "setPos" \in Calls
  /\ loop = Idle
  /\ o \in objects
  /\ place' = [place EXCEPT ![o] = x]
  /\ UNCHANGED <<objects, chunkStreamingEnabled, globalMaxVisible, sampleVars, limitVars,
                 currentVisibleObjects, chunkVars, shownVars, loopVars>>

(* Streamer_DestroyAllVisibleItems: the objects of the calling script, or  *)
(* with serverwide all of them, leave the client and nothing else.         *)
DestroyAllVisibleItems(p, ids) ==
  /\ "destroyVisible" \in Calls
  /\ loop = Idle
  /\ p \in players
  /\ internalObjects' = [internalObjects EXCEPT ![p] = @ \ ids]
  /\ clientObjects' = [clientObjects EXCEPT ![p] = Hidden(@, ids \cap internalObjects[p])]
  /\ UNCHANGED <<serverVars, sampleVars, limitVars, currentVisibleObjects, chunkVars,
                 visibleObjects, loopVars>>

ToggleChunkStream ==
  /\ "toggleChunk" \in Calls
  /\ loop = Idle
  /\ chunkStreamingEnabled' = ~chunkStreamingEnabled
  /\ UNCHANGED <<objects, place, globalMaxVisible, sampleVars, limitVars, currentVisibleObjects,
                 chunkVars, shownVars, loopVars>>

ToggleItemUpdate(p) ==
  /\ "toggleItem" \in Calls
  /\ loop = Idle
  /\ p \in players
  /\ enabledItems' = [enabledItems EXCEPT ![p] = ~@]
  /\ UNCHANGED <<serverVars, sampleVars, updateWhenIdle, maxVisibleObjects,
                 currentVisibleObjects, chunkVars, shownVars, loopVars>>

ToggleIdleUpdate(p) ==
  /\ "toggleIdle" \in Calls
  /\ loop = Idle
  /\ p \in players
  /\ updateWhenIdle' = [updateWhenIdle EXCEPT ![p] = ~@]
  /\ UNCHANGED <<serverVars, sampleVars, enabledItems, maxVisibleObjects,
                 currentVisibleObjects, chunkVars, shownVars, loopVars>>

(* Streamer_SetVisibleItems of one player.  currentVisibleObjects is not   *)
(* brought into line.                                                      *)
SetVisibleItems(p, n) ==
  /\ loop = Idle
  /\ p \in players
  /\ maxVisibleObjects' = [maxVisibleObjects EXCEPT ![p] = n]
  /\ UNCHANGED <<serverVars, sampleVars, updateWhenIdle, enabledItems,
                 currentVisibleObjects, chunkVars, shownVars, loopVars>>

(* The same of everybody, those yet to connect included.                   *)
SetVisibleItemsForAll(n) ==
  /\ loop = Idle
  /\ maxVisibleObjects' = [p \in Players |-> IF p \in players THEN n ELSE maxVisibleObjects[p]]
  /\ globalMaxVisible' = n
  /\ UNCHANGED <<objects, place, chunkStreamingEnabled, sampleVars, updateWhenIdle, enabledItems,
                 currentVisibleObjects, chunkVars, shownVars, loopVars>>

(* The Player constructor; an NPC starts with every item type disabled.    *)
Connect(p, npc) ==
  /\ loop = Idle
  /\ p \notin players
  /\ players' = players \cup {p}
  /\ enabledItems' = [enabledItems EXCEPT ![p] = ~npc]
  /\ maxVisibleObjects' = [maxVisibleObjects EXCEPT ![p] = globalMaxVisible]
  /\ currentVisibleObjects' = [currentVisibleObjects EXCEPT ![p] = globalMaxVisible]
  /\ UNCHANGED <<serverVars, position, worldId, updateWhenIdle, chunkVars, shownVars, loopVars>>

(* The Player is erased, and the client with it.                           *)
Disconnect(p) ==
  /\ loop = Idle
  /\ p \in players
  /\ players' = players \ {p}
  /\ position' = [position EXCEPT ![p] = Origin]
  /\ worldId' = [worldId EXCEPT ![p] = FirstWorld]
  /\ updateWhenIdle' = [updateWhenIdle EXCEPT ![p] = FALSE]
  /\ enabledItems' = [enabledItems EXCEPT ![p] = TRUE]
  /\ maxVisibleObjects' = [maxVisibleObjects EXCEPT ![p] = VisibleItems]
  /\ currentVisibleObjects' = [currentVisibleObjects EXCEPT ![p] = VisibleItems]
  /\ internalObjects' = [internalObjects EXCEPT ![p] = {}]
  /\ clientObjects' = [clientObjects EXCEPT ![p] = [o \in Objects |-> 0]]
  /\ visibleObjects' = [visibleObjects EXCEPT ![p] = {}]
  /\ discoveredObjects' = [discoveredObjects EXCEPT ![p] = {}]
  /\ existingObjects' = [existingObjects EXCEPT ![p] = {}]
  /\ removedObjects' = [removedObjects EXCEPT ![p] = {}]
  /\ processingChunks' = [processingChunks EXCEPT ![p] = FALSE]
  /\ UNCHANGED <<serverVars, loopVars>>

-----------------------------------------------------------------------------
UpdateTypes == {"updateObject", "updateAll", "updateOther"}

StreamingStep(p) ==
  \/ StreamOut(p) \/ SkipStreamed(p) \/ StreamIn(p) \/ EndStreamObjects(p)
  \/ ProcessObject(p) \/ EndProcessObjects(p)

TickStep(p) ==
  \/ StartChunkPass(p)
  \/ \E x \in Places, w \in Worlds : AutomaticUpdate(p, x, w)
  \/ \E w \in Worlds : IdleUpdate(p, w)

PlayerCall(p) ==
  \/ \E type \in UpdateTypes, x \in Places, w \in Worlds : ManualUpdate(p, type, x, w)
  \/ \E ids \in SUBSET internalObjects[p] : DestroyAllVisibleItems(p, ids)
  \/ ToggleItemUpdate(p)
  \/ ToggleIdleUpdate(p)
  \/ "setVisible" \in Calls /\ \E n \in VisibleLimits : SetVisibleItems(p, n)

ServerCall ==
  \/ \E o \in Objects : \E x \in ObjectPlaces[o] : CreateDynamicObject(o, x)
  \/ \E o \in Objects : "destroy" \in Calls /\ DestroyDynamicObject(o)
  \/ \E o \in Objects : \E x \in ObjectPlaces[o] : SetDynamicObjectPos(o, x)
  \/ ToggleChunkStream
  \/ "setVisible" \in Calls /\ \E n \in VisibleLimits : SetVisibleItemsForAll(n)

ComeAndGo(p) ==
  \/ \E npc \in BOOLEAN : (npc => "npc" \in Calls) /\ Connect(p, npc)
  \/ "disconnect" \in Calls /\ Disconnect(p)

Next ==
  \/ ServerCall
  \/ \E p \in Players : StreamingStep(p) \/ TickStep(p) \/ PlayerCall(p) \/ ComeAndGo(p)

(* A loop that has begun runs to its end.  onTick comes again and again,   *)
(* and with it the chunk pass of every player with pending chunks and the  *)
(* update of every other; what is asked of the players themselves is only  *)
(* that one who is updated when idle is alive and stands still at times.   *)
Fairness ==
  \A p \in Players :
    /\ WF_vars(StreamingStep(p))
    /\ WF_vars(StartChunkPass(p))
    /\ WF_vars(AutomaticUpdate(p, position[p], worldId[p]))

Spec == Init /\ [][Next]_vars
FairSpec == Spec /\ Fairness

-----------------------------------------------------------------------------
(* Properties.                                                             *)

(* Every variable keeps its type: no count of copies on a client, for      *)
(* instance, is taken below zero by destroying an object that is not there.*)
TypeOK ==
  /\ objects \subseteq Objects
  /\ place \in [Objects -> Places]
  /\ chunkStreamingEnabled \in BOOLEAN
  /\ globalMaxVisible \in Nat
  /\ players \subseteq Players
  /\ position \in [Players -> Places]
  /\ worldId \in [Players -> Worlds]
  /\ updateWhenIdle \in [Players -> BOOLEAN]
  /\ enabledItems \in [Players -> BOOLEAN]
  /\ maxVisibleObjects \in [Players -> Nat]
  /\ currentVisibleObjects \in [Players -> Nat]
  /\ internalObjects \in [Players -> SUBSET Objects]
  /\ discoveredObjects \in [Players -> SUBSET Entries]
  /\ existingObjects \in [Players -> SUBSET Entries]
  /\ removedObjects \in [Players -> SUBSET Objects]
  /\ visibleObjects \in [Players -> SUBSET Objects]
  /\ processingChunks \in [Players -> BOOLEAN]
  /\ clientObjects \in [Players -> [Objects -> Int]]
  /\ loop \in Loops
  /\ chunkCount \in Nat
  /\ candidates \in SUBSET Entries
  /\ kept \in SUBSET Entries

(* Streaming is for players who are connected and have objects only as     *)
(* long as they are; and while processObjects goes through its candidates, *)
(* each still stands for one existing object that is not on the client     *)
(* (its test of internalObjects before a creation never finds one).        *)
LoopIsSound ==
  /\ \A p \in Players \ players : internalObjects[p] = {}
  /\ loop # Idle => loop.player \in players
  /\ loop.kind = "process" =>
       /\ Ids(candidates) \subseteq objects \ internalObjects[loop.player]
       /\ \A a, b \in candidates : a.id = b.id => a = b

(* The client holds one copy of each object the streamer believes it has   *)
(* created there and none of any other: nothing is created twice, nothing  *)
(* destroyed twice, nothing left behind (internalObjects against the       *)
(* CreatePlayerObject and DestroyPlayerObject calls of every path).        *)
ClientMirrorsStreamer ==
  \A p \in Players, o \in Objects :
    clientObjects[p][o] = IF o \in internalObjects[p] THEN 1 ELSE 0

(* An object that does not exist is nowhere in a player's bookkeeping, so  *)
(* that an id handed out again starts afresh (Utility::destroyObject).     *)
NoTraceOfDestroyed ==
  \A p \in Players :
    /\ internalObjects[p] \subseteq objects
    /\ removedObjects[p] \subseteq objects
    /\ visibleObjects[p] \subseteq objects
    /\ Ids(discoveredObjects[p]) \subseteq objects
    /\ Ids(existingObjects[p]) \subseteq objects

(* An object on the client whose grid cell the player may leave behind is  *)
(* in visibleCell, where the next update examines it, or already condemned *)
(* in removedObjects: otherwise it would stay on the client for ever.      *)
StaysReachable ==
  \A p \in Players :
    \A o \in internalObjects[p] : HasCell(o) => o \in visibleObjects[p] \cup removedObjects[p]

(* Queued creations are never forgotten: as long as there are any, the bit *)
(* of processingChunks that makes a tick stream them is set.               *)
WorkIsFlagged ==
  \A p \in Players : discoveredObjects[p] # {} => processingChunks[p]

(* A player's client never holds more objects than maxVisibleObjects, as   *)
(* long as scripts do not lower that limit.                                *)
VisibleCap ==
  "setVisible" \notin Calls =>
    \A p \in Players : Cardinality(internalObjects[p]) <= maxVisibleObjects[p]

(* What a chunk pass creates belongs to the virtual world in which the     *)
(* player was last sampled: while chunk streaming is on, no update samples *)
(* another world and keeps what is queued of the old one, except a         *)
(* script's update of another item type.                                   *)
QueueIsOfThisWorld ==
  [][\A p \in Players :
       chunkStreamingEnabled /\ worldId'[p] # worldId[p] =>
         \/ \A d \in discoveredObjects'[p] : worldId'[p] \in ObjectWorlds[d.id]
         \/ \E x \in Places : ManualUpdate(p, "updateOther", x, worldId'[p])]_vars

(* From some point on nothing happens but the server's own work, on        *)
(* players who stand still.                                                *)
StandStill ==
  \E p \in Players :
    StreamingStep(p) \/ StartChunkPass(p) \/ AutomaticUpdate(p, position[p], worldId[p])

Wanted(p) == {o \in objects : InRange(position[p], worldId[p], o)}
Kept(p) == {o \in objects : Within(position[p], worldId[p], o, KeepDistance[o])}

(* A player whose objects are streamed; not one for whom some were         *)
(* condemned when chunk streaming was turned off, which take up room until *)
(* it is turned on again.                                                  *)
Streams(p) ==
  /\ p \in players /\ enabledItems[p] /\ updateWhenIdle[p]
  /\ chunkStreamingEnabled \/ removedObjects[p] = {}

(* Then, where there is room for all of them, the objects in range end up  *)
(* on the client, and none beyond the distance within which those streamed *)
(* may stay (STREAMER_STREAM_DISTANCE_FACTOR).                             *)
ConvergesToWanted ==
  <>[][StandStill]_vars =>
    <>[](\A p \in Players : Streams(p) /\ Cardinality(Wanted(p)) <= maxVisibleObjects[p] =>
            /\ Wanted(p) \subseteq internalObjects[p]
            /\ internalObjects[p] \subseteq Wanted(p) \cup Kept(p))

(* And where there is not, and all priorities are equal, the client ends   *)
(* up with as many as it may hold and none of them yields to one left out: *)
(* "only the 500 closest show" (data.cpp).  It does not go on exchanging.  *)
ConvergesToClosest ==
  <>[][StandStill]_vars =>
    <>[](\A p \in Players : Streams(p) =>
            LET on == internalObjects[p]
                entry(o) == [id |-> o, distance |-> Distance(position[p], o)]
            IN  /\ \/ Cardinality(on) = maxVisibleObjects[p]
                   \/ Wanted(p) \subseteq on
                /\ \A o \in on, d \in Wanted(p) \ on : ~Yields(entry(o), entry(d)))

=============================================================================
