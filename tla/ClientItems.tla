------------------------------ MODULE ClientItems ------------------------------
(***************************************************************************)
(* Map icons and 3D text labels of one player, and the numbers they bear.  *)
(*                                                                         *)
(* They are streamed as objects are (see ObjectStreaming), and each on the *)
(* client has a slot: of map icons the streamer numbers the slots itself,  *)
(* with an Identifier of the player, and SetPlayerMapIcon overwrites what  *)
(* is in a slot; labels get theirs from the server's pool for the player,  *)
(* which may be used up.  A limit on map icons is compared with their      *)
(* number; text labels remember at what number the client was last full.   *)
(* A behaviour is about one of the two kinds.                              *)
(*                                                                         *)
(* Space is a line; whoever an item is not for is as far away as can be.   *)
(* Chunk tick rates, which only delay passes, are left out, and so are     *)
(* toggled updates.                                                        *)
(***************************************************************************)
EXTENDS Integers, FiniteSets

CONSTANTS
  Kinds,          \* the kinds of item there may be: "icon", "label"
  MaxItems,       \* bound on the items there are at once
  MaxLost,        \* bound on the slots lost at once
  Places,         \* coordinates of items and of the player
  Distances,      \* stream distances by kind; a static item has Static
  Priorities,
  Limits,         \* numbers of visible items that may be set, by kind
  Band,           \* what hysteresis adds to a stream distance
  ChunkSize,
  CellDistance,   \* the longest stream distance of an item with a cell
  Reach,          \* how far away what is in the cells around a player may be
  Labels,         \* the ids of the server's pool of labels
  Calls           \* the natives that are called, by kind

Static == -1

ASSUME SpaceAssumption ==
  /\ Places \subseteq Int /\ Places # {}
  /\ \A k \in Kinds : Distances[k] \subseteq Nat \cup {Static}
  /\ Priorities \subseteq Int
  /\ Band \in Nat /\ CellDistance \in Nat /\ Reach \in Nat
ASSUME KindsAssumption == Kinds \subseteq {"icon", "label"}
ASSUME LimitsAssumption ==
  /\ \A k \in Kinds : Limits[k] \subseteq Nat \ {0} /\ Limits[k] # {}
  /\ MaxItems \in Nat /\ MaxLost \in Nat /\ ChunkSize \in Nat \ {0}
ASSUME LabelsAssumption == Labels \subseteq Nat /\ IsFiniteSet(Labels)

VARIABLES
  kind,       \* what this behaviour is about
  item,       \* core->getData()->mapIcons or ->textLabels
  ids,        \* Item::MapIcon::identifier or Item::TextLabel::identifier
  pos,        \* player.position
  limit,      \* maxVisibleMapIcons, maxVisibleTextLabels
  current,    \* currentVisibleTextLabels
  chunked,    \* chunkStreamingEnabled
  queue,      \* the discovered and existing items
  gone,       \* the removed items
  pending,    \* the bit of processingChunks
  visible,    \* visibleCell
  slotOf,     \* internalMapIcons, internalTextLabels
  slots,      \* mapIconIdentifier
  loop,       \* the loop that is running and the rounds it has left
  saved,      \* the player's queue while processMapIcons uses its own
  client,     \* what the client shows, by slot
  lost,       \* slots that are neither in use nor to be had again
  lowered,    \* a limit was set under the number of items on the client
  retiered    \* items that left the global cell while on the client

playerVars  == <<pos, limit, current>>
queueVars   == <<queue, gone, pending, saved>>
clientVars  == <<slotOf, slots, client, lost>>
historyVars == <<lowered, retiered>>
vars == <<kind, item, ids, playerVars, chunked, queueVars, visible, clientVars, loop, historyVars>>

Idle   == loop.at = "idle"
Shown  == DOMAIN slotOf
NoFun  == [i \in {} |-> 0]
Without(f, S) == [i \in DOMAIN f \ S |-> f[i]]
With(f, i, v) == [j \in DOMAIN f \cup {i} |-> IF j = i THEN v ELSE f[j]]
Merged(f, g)  == [i \in DOMAIN f \cup DOMAIN g |-> IF i \in DOMAIN g THEN g[i] ELSE f[i]]
EmptyQueue    == [disc |-> NoFun, exist |-> NoFun]

-----------------------------------------------------------------------------
(* Identifiers.                                                            *)

NewIdentifier == [highest |-> 0, removed |-> {}]
LeastOf(S) == CHOOSE n \in S : \A m \in S : n <= m

(* Mutant: numbers are not used again.                                     *)
NextId_New(ident) == ident.highest + 1

(* The number that get returns, and what it leaves.                        *)
NextId(ident) == IF ident.removed # {} THEN LeastOf(ident.removed) ELSE ident.highest + 1

Taken(ident) ==
  IF ident.removed # {} THEN [ident EXCEPT !.removed = @ \ {LeastOf(@)}]
                        ELSE [ident EXCEPT !.highest = @ + 1]

(* Mutant: what remains is told after the removal.                         *)
Returned_Late(ident, numbers, remain) ==
  IF remain # {} /\ Cardinality(remain) # 1 THEN [ident EXCEPT !.removed = @ \cup numbers] ELSE NewIdentifier

(* remove, for each of some numbers, where remain is what is left then.    *)
Returned(ident, numbers, remain) ==
  IF remain # {} THEN [ident EXCEPT !.removed = @ \cup numbers] ELSE NewIdentifier

-----------------------------------------------------------------------------
(* Distances and cells.                                                    *)

Gap(x, y) == IF x < y THEN y - x ELSE x - y
Distance(i, x) == IF item[i].dist = Static THEN Static ELSE Gap(item[i].place, x)
InRange(i, x, band) == item[i].dist = Static \/ Distance(i, x) < item[i].dist + band
CellAt(dist) == dist # Static /\ dist <= CellDistance
HasCell(i) == item[i].cell

(* findAllCellsForPlayer.                                                  *)
Examined(x) == {i \in DOMAIN item : ~HasCell(i) \/ Gap(item[i].place, x) <= Reach \/ i \in visible}

Entries(S, x) == [i \in S |-> [prio |-> item[i].prio, dist |-> Distance(i, x)]]

(* The order of candidates; ties are broken in any way.                    *)
Precedes(e, f) == e.prio > f.prio \/ (e.prio = f.prio /\ e.dist < f.dist)
First(q) == {i \in DOMAIN q : \A j \in DOMAIN q : ~Precedes(q[j], q[i])}
Last(q)  == {i \in DOMAIN q : \A j \in DOMAIN q : ~Precedes(q[i], q[j])}

(* Whether the existing e makes room for the discovered d.                 *)
Yields(e, d) == e.prio < d.prio \/ (e.dist > 0 /\ d.dist < e.dist)

-----------------------------------------------------------------------------
(* The client.                                                             *)

SlotsOf(S) == {slotOf[i] : i \in S}

(* Mutant: the slots of map icons are not given back.                      *)
Hidden_Lost(S) == [slotOf |-> Without(slotOf, S), client |-> Without(client, SlotsOf(S)),
                   slots |-> slots, lost |-> lost]

(* RemovePlayerMapIcon and DeletePlayer3DTextLabel for the items S.        *)
Hidden(S) == [slotOf |-> Without(slotOf, S), client |-> Without(client, SlotsOf(S)),
              slots  |-> IF kind = "icon" THEN Returned(slots, SlotsOf(S), Shown \ S) ELSE slots,
              lost   |-> IF S = Shown THEN {} ELSE lost]

Becomes(c) ==
  /\ slotOf' = c.slotOf /\ client' = c.client /\ slots' = c.slots /\ lost' = c.lost

Hide(S) == IF S \cap Shown = {} THEN UNCHANGED clientVars ELSE Becomes(Hidden(S \cap Shown))

(* Slots that SetPlayerMapIcon and CreatePlayer3DTextLabel may use.        *)
SlotsFor(c) == IF kind = "icon" THEN {NextId(c.slots)} ELSE Labels \ DOMAIN c.client

(* Item i is shown in slot n.                                              *)
ShownIn(c, i, n) ==
  [slotOf |-> With(c.slotOf, i, n), client |-> With(c.client, n, i),
   slots  |-> IF kind = "icon" THEN Taken(c.slots) ELSE c.slots, lost |-> c.lost]

-----------------------------------------------------------------------------
(* Updates.                                                                *)

(* discoverMapIcons, discoverTextLabels, given the queue they add to.      *)
Discover(x, q) ==
  LET near == {i \in Examined(x) : InRange(i, x, 0)} IN
  /\ queue'   = [disc |-> Merged(q.disc, Entries(near \ Shown, x)),
                 exist |-> Merged(q.exist, Entries(near \cap Shown, x))]
  /\ gone'    = gone \cup ((Examined(x) \ near) \cap Shown)
  /\ visible' = {i \in near \cap Shown : HasCell(i)}
  /\ UNCHANGED <<clientVars, saved>>

(* processMapIcons, processTextLabels up to the loop over what is found.   *)
Process(x) ==
  LET near == {i \in Examined(x) : InRange(i, x, 0)}
      kept == {i \in Examined(x) \cap Shown : InRange(i, x, Band)}
  IN /\ Hide((Examined(x) \cap Shown) \ kept)
     /\ visible' = {i \in kept : HasCell(i)}
     /\ queue'   = [disc |-> Entries(near \ Shown, x), exist |-> Entries(kept, x)]
     /\ saved'   = queue
     /\ loop'    = [at |-> "process", left |-> Cardinality(near \ Shown)]
     /\ UNCHANGED <<gone, pending>>

(* Mutant: work that is only removals is not flagged.                      *)
Flagged_Discovered == queue'.disc # NoFun

Flagged == queue'.disc # NoFun \/ gone' # {}

(* performPlayerUpdate on a tick, for a player with no chunks pending; he  *)
(* has moved, or is updated when idle.                                     *)
AutomaticUpdate(x) ==
  /\ Idle /\ ~(chunked /\ pending)
  /\ pos' = x
  /\ IF chunked THEN /\ Discover(x, queue)
                     /\ pending' = (pending \/ Flagged)
                     /\ UNCHANGED loop
                ELSE Process(x)
  /\ UNCHANGED <<kind, item, ids, limit, current, chunked, historyVars>>

(* The loop a pass of streamMapIcons, streamTextLabels runs.               *)
PassOver(removed) == [at |-> IF removed # {} THEN "out" ELSE "in", left |-> ChunkSize]

(* startManualUpdate: the queue is emptied first and a pass made at once.  *)
ManualUpdate(x) ==
  /\ "update" \in Calls[kind] /\ Idle
  /\ pos' = x
  /\ IF chunked THEN /\ Discover(x, EmptyQueue)
                     /\ pending' = Flagged
                     /\ loop' = IF pending' THEN PassOver(gone') ELSE loop
                ELSE Process(x)
  /\ UNCHANGED <<kind, item, ids, limit, current, chunked, historyVars>>

ChunkUpdate ==
  /\ Idle /\ chunked /\ pending
  /\ loop' = PassOver(gone)
  /\ UNCHANGED <<kind, item, ids, playerVars, chunked, queueVars, visible, clientVars, historyVars>>

(* Mutant: an entry counts twice.                                          *)
OneLess_Two == [loop EXCEPT !.left = @ - 2]

OneLess == [loop EXCEPT !.left = @ - 1]

(* One of the removed items is taken off the client.                       *)
StreamOut ==
  /\ loop.at = "out" /\ loop.left > 0
  /\ \E i \in gone :
       /\ Hide({i})
       /\ gone' = gone \ {i}
       /\ loop' = OneLess
       /\ UNCHANGED <<kind, item, ids, playerVars, chunked, queue, pending, saved, visible, historyVars>>

(* Whether the client is taken to be full when it shows n items.           *)
Full(n) == IF kind = "icon" THEN n = limit ELSE n = current

NoRoom(n) == n = limit

Unevicted == [slotOf |-> slotOf, client |-> client, slots |-> slots, lost |-> lost]

(* What is left of the client, the queue and visibleCell when room is made *)
(* for d, or tried to.                                                     *)
Evictions(d) ==
  LET stay == [c |-> Unevicted, exist |-> queue.exist, visible |-> visible] IN
  IF ~Full(Cardinality(Shown)) \/ queue.exist = NoFun THEN {stay}
  ELSE {IF ~Yields(queue.exist[e], queue.disc[d]) THEN stay
        ELSE [c |-> IF e \in Shown THEN Hidden({e}) ELSE Unevicted,
              exist |-> Without(queue.exist, {e}),
              visible |-> IF HasCell(e) THEN visible \ {e} ELSE visible] : e \in Last(queue.exist)}

(* The rest is given up.                                                   *)
Cancel(v) ==
  /\ Becomes(v.c)
  /\ queue'   = [disc |-> NoFun, exist |-> v.exist]
  /\ visible' = v.visible
  /\ current' = IF kind = "label" THEN Cardinality(DOMAIN v.c.slotOf) ELSE current

(* Mutant: what is shown in a later pass is not put into visibleCell.      *)
CreateIn_Unseen(v, d, n) ==
  /\ Becomes(ShownIn(v.c, d, n))
  /\ queue'   = [disc |-> Without(queue.disc, {d}), exist |-> v.exist]
  /\ visible' = v.visible
  /\ UNCHANGED current

CreateIn(v, d, n) ==
  /\ Becomes(ShownIn(v.c, d, n))
  /\ queue'   = [disc |-> Without(queue.disc, {d}), exist |-> v.exist]
  /\ visible' = IF HasCell(d) THEN v.visible \cup {d} ELSE v.visible
  /\ UNCHANGED current

(* The first of the discovered items is shown, if it is not on the client  *)
(* by now and there is or can be made room for it.                         *)
StreamIn ==
  /\ loop.at \in {"in", "process"} /\ loop.left > 0
  /\ loop' = OneLess
  /\ \E d \in First(queue.disc) :
       IF d \in Shown
       THEN /\ queue' = [queue EXCEPT !.disc = Without(@, {d})]
            /\ UNCHANGED <<visible, clientVars, current>>
       ELSE \E v \in Evictions(d) :
              \/ NoRoom(Cardinality(DOMAIN v.c.slotOf)) /\ Cancel(v)
              \/ /\ ~NoRoom(Cardinality(DOMAIN v.c.slotOf))
                 /\ \/ \E n \in SlotsFor(v.c) : CreateIn(v, d, n)
                    \/ kind = "label" /\ ("refuse" \in Calls[kind] \/ SlotsFor(v.c) = {}) /\ Cancel(v)
  /\ UNCHANGED <<kind, item, ids, pos, limit, chunked, gone, pending, saved, historyVars>>

(* The end of a pass, its work done or its chunk used up.                  *)
EndPass ==
  /\ \/ loop.at = "out" /\ (loop.left = 0 \/ gone = {})
     \/ loop.at = "in" /\ (loop.left = 0 \/ queue.disc = NoFun)
  /\ LET done == queue.disc = NoFun /\ gone = {} IN
     /\ queue'   = IF done THEN EmptyQueue ELSE queue
     /\ pending' = ~done
  /\ loop' = [at |-> "idle", left |-> 0]
  /\ UNCHANGED <<kind, item, ids, playerVars, chunked, gone, saved, visible, clientVars, historyVars>>

EndProcess ==
  /\ loop.at = "process" /\ (loop.left = 0 \/ queue.disc = NoFun)
  /\ queue' = saved /\ saved' = EmptyQueue
  /\ loop' = [at |-> "idle", left |-> 0]
  /\ UNCHANGED <<kind, item, ids, playerVars, chunked, gone, pending, visible, clientVars, historyVars>>

-----------------------------------------------------------------------------
(* Natives.                                                                *)

CreateDynamicItem(x, dist, prio) ==
  /\ "create" \in Calls[kind] /\ Idle /\ Cardinality(DOMAIN item) < MaxItems
  /\ item' = With(item, NextId(ids),
                  [place |-> x, dist |-> dist, orig |-> Static, cell |-> CellAt(dist), prio |-> prio])
  /\ ids'  = Taken(ids)
  /\ UNCHANGED <<kind, playerVars, chunked, queueVars, visible, clientVars, loop, historyVars>>

QueueWithout(q, S) == [disc |-> Without(q.disc, S), exist |-> Without(q.exist, S)]

(* destroyMapIcon, destroyTextLabel, for one item or for all of a script.  *)
DestroyDynamicItems(S) ==
  /\ "destroy" \in Calls[kind] /\ Idle /\ S # {}
  /\ item'    = Without(item, S)
  /\ ids'     = Returned(ids, S, DOMAIN item \ S)
  /\ Hide(S)
  /\ queue'   = QueueWithout(queue, S)
  /\ gone'    = gone \ S
  /\ visible' = visible \ S
  /\ retiered' = retiered \ S
  /\ UNCHANGED <<kind, playerVars, chunked, pending, saved, loop, lowered>>

(* The natives that change an item show it again where it is on the        *)
(* client, an icon in its slot, a label in one that is free then.          *)
Reshow(i) ==
  IF kind = "label" /\ i \in Shown
  THEN \E n \in SlotsFor(Hidden({i})) : Becomes(ShownIn(Hidden({i}), i, n))
  ELSE UNCHANGED clientVars

(* Streamer_SetItemPos, and changes of looks, for which x is where it is.  *)
SetItemPos(i, x) ==
  /\ "place" \in Calls[kind] /\ Idle /\ i \in DOMAIN item
  /\ item' = [item EXCEPT ![i].place = x]
  /\ Reshow(i)
  /\ UNCHANGED <<kind, ids, playerVars, chunked, queueVars, visible, loop, historyVars>>

(* Streamer_ToggleItemStatic, which leaves the item in its cell.           *)
ToggleItemStatic(i) ==
  /\ "static" \in Calls[kind] /\ Idle /\ i \in DOMAIN item
  /\ (item[i].dist = Static) # (item[i].orig = Static)
  /\ item' = [item EXCEPT ![i].dist = item[i].orig, ![i].orig = item[i].dist]
  /\ UNCHANGED <<kind, ids, playerVars, chunked, queueVars, visible, clientVars, loop, historyVars>>

(* Streamer_SetFloatData: the item may get or lose its cell.               *)
SetStreamDistance(i, dist) ==
  /\ "distance" \in Calls[kind] /\ Idle /\ i \in DOMAIN item
  /\ item' = [item EXCEPT ![i].dist = dist, ![i].cell = CellAt(dist)]
  /\ retiered' = retiered \cup (IF i \in Shown /\ ~HasCell(i) /\ CellAt(dist) THEN {i} ELSE {})
  /\ UNCHANGED <<kind, ids, playerVars, chunked, queueVars, visible, clientVars, loop, lowered>>

(* Streamer_DestroyAllVisibleItems, which does not give slots back.        *)
DestroyAllVisibleItems(S) ==
  /\ "destroyVisible" \in Calls[kind] /\ Idle /\ S # {} /\ Cardinality(lost \cup SlotsOf(S)) <= MaxLost
  /\ slotOf' = Without(slotOf, S)
  /\ client' = Without(client, SlotsOf(S))
  /\ lost'   = IF kind = "icon" THEN lost \cup SlotsOf(S) ELSE lost
  /\ UNCHANGED <<kind, item, ids, playerVars, chunked, queueVars, visible, slots, loop, historyVars>>

(* Streamer_SetVisibleItems.                                               *)
SetVisibleItems(n) ==
  /\ "limit" \in Calls[kind] /\ Idle
  /\ limit' = n
  /\ lowered' = (lowered \/ n < Cardinality(Shown))
  /\ UNCHANGED <<kind, item, ids, pos, current, chunked, queueVars, visible, clientVars, loop, retiered>>

ToggleChunkStream ==
  /\ "chunks" \in Calls[kind] /\ Idle
  /\ chunked' = ~chunked
  /\ UNCHANGED <<kind, item, ids, playerVars, queueVars, visible, clientVars, loop, historyVars>>

-----------------------------------------------------------------------------
Init ==
  /\ kind \in Kinds /\ item = NoFun /\ ids = NewIdentifier
  /\ pos \in Places /\ limit \in Limits[kind] /\ current = limit /\ chunked = TRUE
  /\ queue = EmptyQueue /\ saved = EmptyQueue /\ gone = {} /\ pending = FALSE
  /\ visible = {} /\ slotOf = NoFun /\ slots = NewIdentifier /\ client = NoFun
  /\ lost = {} /\ lowered = FALSE /\ retiered = {}
  /\ loop = [at |-> "idle", left |-> 0]

Stream == ChunkUpdate \/ StreamOut \/ StreamIn \/ EndPass \/ EndProcess

Next ==
  \/ Stream \/ ToggleChunkStream
  \/ \E x \in Places :
       \/ AutomaticUpdate(x) \/ ManualUpdate(x)
       \/ \E dist \in Distances[kind], prio \in Priorities : CreateDynamicItem(x, dist, prio)
       \/ \E i \in DOMAIN item : SetItemPos(i, x)
  \/ \E S \in SUBSET DOMAIN item : DestroyDynamicItems(S)
  \/ \E S \in SUBSET Shown : DestroyAllVisibleItems(S)
  \/ \E i \in DOMAIN item : ToggleItemStatic(i)
  \/ \E i \in DOMAIN item, dist \in Distances[kind] \ {Static} : SetStreamDistance(i, dist)
  \/ \E n \in Limits[kind] : SetVisibleItems(n)

(* Ticks never stop, and a player who is idle is updated.                  *)
Fairness == WF_vars(Stream) /\ WF_vars(AutomaticUpdate(pos))

Spec == Init /\ [][Next]_vars
FairSpec == Spec /\ Fairness

-----------------------------------------------------------------------------
(* Properties.                                                             *)

ItemIds == Nat \ {0}
IdentifierType == [highest : Nat, removed : SUBSET ItemIds]
QueueOK(q) ==
  /\ q = [disc |-> q.disc, exist |-> q.exist]
  /\ \A i \in DOMAIN q.disc  : q.disc[i]  \in [prio : Int, dist : Int]
  /\ \A i \in DOMAIN q.exist : q.exist[i] \in [prio : Int, dist : Int]

(* Every variable keeps its type.                                          *)
TypeOK ==
  /\ kind \in Kinds
  /\ DOMAIN item \subseteq ItemIds
  /\ \A i \in DOMAIN item : item[i] \in [place : Places, dist : Distances[kind] \cup {Static}, orig : Distances[kind] \cup {Static},
                                       cell : BOOLEAN, prio : Priorities]
  /\ ids \in IdentifierType /\ slots \in IdentifierType
  /\ pos \in Places /\ limit \in Limits[kind] /\ current \in Nat /\ chunked \in BOOLEAN
  /\ QueueOK(queue) /\ QueueOK(saved) /\ pending \in BOOLEAN
  /\ \A i \in Shown : slotOf[i] \in Nat
  /\ \A n \in DOMAIN client : client[n] \in ItemIds
  /\ loop \in [at : {"idle", "out", "in", "process"}, left : Nat] /\ lowered \in BOOLEAN

(* The client shows each of the items on record once, in a slot of its     *)
(* own, and nothing else: in particular no icon has overwritten another.   *)
(* And no structure of the player names an item that does not exist,       *)
(* although ids are handed out again at once.                              *)
ClientMirrorsStreamer ==
  /\ Shown \cup gone \cup visible \cup retiered \subseteq DOMAIN item
  /\ \A q \in {queue, saved} : DOMAIN q.disc \cup DOMAIN q.exist \subseteq DOMAIN item
  /\ DOMAIN client = SlotsOf(Shown)
  /\ \A i \in Shown : client[slotOf[i]] = i

(* What is on the client and has a cell is in visibleCell, or condemned,   *)
(* so that it goes when the player does; except for what was in the global *)
(* cell when it was shown.                                                 *)
StaysReachable == \A i \in Shown \ retiered : HasCell(i) => i \in visible \cup gone

(* The ids of items are always the smallest there are, however many are    *)
(* destroyed at once.                                                      *)
ItemIdsAre == INSTANCE SmallestFree WITH held <- DOMAIN item
IdsAreSmallest == ItemIdsAre!Spec

(* So are the slots of map icons, but for those lost to                    *)
(* Streamer_DestroyAllVisibleItems, which come back when the last icon     *)
(* leaves in another way.                                                  *)
SlotsAre == INSTANCE SmallestFree WITH held <- IF kind = "icon" THEN SlotsOf(Shown) \cup lost ELSE {}
SlotsAreSmallest == SlotsAre!Spec

Wanted(x) == {i \in DOMAIN item : InRange(i, x, 0)}
Calm == UNCHANGED <<item, limit, chunked, pos>>

(* Whoever stands still while nothing else changes ends up with all items  *)
(* in range, and none beyond the distance within which those streamed may  *)
(* stay; if all in range are within his cells, the limit and the server's  *)
(* pool, and none was left behind by a change of its stream distance, or by*)
(* the end of chunk streaming when it had been condemned and not yet taken *)
(* off.                                                                    *)
ConvergesToWanted ==
  \A x \in Places :
    /\ <>[][Calm]_vars
    /\ <>[](/\ pos = x /\ retiered = {} /\ Cardinality(Wanted(x)) <= limit
            /\ Wanted(x) \subseteq Examined(x) /\ ~lowered
            /\ kind = "label" => Cardinality(Wanted(x)) <= Cardinality(Labels)
            /\ chunked \/ gone = {})
    => <>[](/\ Wanted(x) \subseteq Shown
            /\ \A i \in Shown : InRange(i, x, Band))

=============================================================================
