------------------------------ MODULE Checkpoints ------------------------------
(***************************************************************************)
(* Streaming of checkpoints and race checkpoints.  A client can show one   *)
(* of each kind.  An update picks the best in range; if it is not the one  *)
(* shown, that one is disabled at once, but the new one is only shown by   *)
(* the next automatic update: until then its id waits in delayedCheckpoint.*)
(*                                                                         *)
(* The ids of the two kinds are told apart here (an id determines its      *)
(* kind), and what the code keeps in two fields of Player for the two      *)
(* kinds is one function of the kind.  Space has one axis, as in           *)
(* ObjectStreaming; players, worlds and interiors are left out.            *)
(***************************************************************************)
EXTENDS Integers

CONSTANTS
  Players,
  Ids,             \* ids the identifiers hand out; None is not one of them
  None,            \* 0 in the code
  RaceIds,         \* those of race checkpoints
  Places,
  Origin,          \* the position of a Player just constructed
  Priority,        \* Ids -> Int
  StreamDistance,  \* Ids -> Int: negative for a static checkpoint
  CellWidth,       \* Ids -> Nat: 0 = globalCell
  ItemPlaces,      \* Ids -> SUBSET Places: where scripts put the checkpoint
  Lead,            \* how far ahead of a moving player prediction may look
  Calls            \* the natives the scripts call

ASSUME IdsAssumption    == None \notin Ids /\ RaceIds \subseteq Ids
ASSUME PlacesAssumption == Places \subseteq Int /\ Origin \in Places /\ Lead \in Nat
ASSUME AttributeAssumption ==
  /\ Priority \in [Ids -> Int]
  /\ StreamDistance \in [Ids -> Int]
  /\ CellWidth \in [Ids -> Nat]
  /\ ItemPlaces \in [Ids -> SUBSET Places]

VARIABLES
  checkpoints,     \* core->getData()->checkpoints and raceCheckpoints
  place,           \* Item::Checkpoint::position
  players,         \* core->getData()->players
  position,        \* Player::position, as sampled by the last update
  updateWhenIdle,  \* Player::updateWhenIdle
  enabledItems,    \* Player::enabledItems of the two types
  visible,         \* Player::visibleCheckpoint and visibleRaceCheckpoint
  active,          \* Player::activeCheckpoint and activeRaceCheckpoint
  delayed,         \* Player::delayedCheckpoint and delayedRaceCheckpoint
  visibleCell,     \* visibleCell->checkpoints and raceCheckpoints
  client,          \* what the client shows of each kind
  inside           \* whether the server has the player in it

itemVars   == <<checkpoints, place>>
playerVars == <<players, position, updateWhenIdle, enabledItems>>
viewVars   == <<visible, active, delayed, visibleCell, client, inside>>
vars == <<itemVars, playerVars, viewVars>>

Kinds == {"checkpoint", "race"}
KindOf(c) == IF c \in RaceIds THEN "race" ELSE "checkpoint"
Existing(k) == {c \in checkpoints : KindOf(c) = k}

-----------------------------------------------------------------------------
(* Geometry, as for objects.                                               *)

Abs(n) == IF n < 0 THEN -n ELSE n
HasCell(c) == CellWidth[c] # 0
Near(x, c) ==
  HasCell(c) => Abs((x \div CellWidth[c]) - (place[c] \div CellWidth[c])) <= 1

Distance(x, c) == IF StreamDistance[c] < 0 THEN -1 ELSE Abs(x - place[c])
InRange(x, c) == StreamDistance[c] < 0 \/ Distance(x, c) < StreamDistance[c]

(* CandidateCmp; equal candidates are taken in the order of a hash table.  *)
Precedes(y, c, d) ==
  \/ Priority[c] > Priority[d]
  \/ Priority[c] = Priority[d] /\ Distance(y, c) < Distance(y, d)
Bests(y, found) == {c \in found : \A d \in found : ~Precedes(y, d, c)}

Predicted(p, x) ==
  IF x = position[p] THEN {x} ELSE {y \in Places : Abs(y - x) <= Lead}

-----------------------------------------------------------------------------
Nothing == [k \in Kinds |-> None]
Nowhere == [k \in Kinds |-> FALSE]
NoView  == [visible |-> Nothing, active |-> Nothing, delayed |-> Nothing,
            cell |-> {}, client |-> Nothing, inside |-> Nowhere]

(* The view of one player, which the handlers below transform, as a record.*)
View(p) == [visible |-> visible[p], active |-> active[p], delayed |-> delayed[p],
            cell |-> visibleCell[p], client |-> client[p], inside |-> inside[p]]

SetView(p, v) ==
  /\ visible' = [visible EXCEPT ![p] = v.visible]
  /\ active' = [active EXCEPT ![p] = v.active]
  /\ delayed' = [delayed EXCEPT ![p] = v.delayed]
  /\ visibleCell' = [visibleCell EXCEPT ![p] = v.cell]
  /\ client' = [client EXCEPT ![p] = v.client]
  /\ inside' = [inside EXCEPT ![p] = v.inside]

(* Mutant: the script still finds the player in it.                        *)
Disable_Active(v, k) == [v EXCEPT !.client[k] = None, !.inside[k] = FALSE]

(* DisablePlayerCheckpoint, after which the player is in none.             *)
Disable(v, k) ==
  [v EXCEPT !.client[k] = None, !.inside[k] = FALSE, !.active[k] = None]

(* Disabled for good, and not only to make room for another.               *)
Hide(v, k) == [Disable(v, k) EXCEPT !.visible[k] = None]

(* Mutant: a queued checkpoint is not looked up.                           *)
ShowDelayed_NoLookup(v, k) ==
  [v EXCEPT !.client[k] = v.delayed[k], !.visible[k] = v.delayed[k], !.inside[k] = FALSE,
            !.delayed[k] = None]

(* SetPlayerCheckpoint of the one queued, unless it has been destroyed.    *)
ShowDelayed(v, k) ==
  IF v.delayed[k] \in checkpoints
  THEN [v EXCEPT !.client[k] = v.delayed[k], !.visible[k] = v.delayed[k], !.inside[k] = FALSE,
                 !.delayed[k] = None]
  ELSE [v EXCEPT !.delayed[k] = None]

(* One per update, and checkpoints before race checkpoints.                *)
ShowOne(v) ==
  IF v.delayed["checkpoint"] # None THEN ShowDelayed(v, "checkpoint")
  ELSE IF v.delayed["race"] # None THEN ShowDelayed(v, "race") ELSE v

(* Mutants: the kinds are not told apart; the checkpoint that gives way is *)
(* not disabled; the best is not cached.                                   *)
Seen_BothKinds(v, k, x) == {c \in checkpoints : Near(x, c) \/ c \in v.cell}
MakeRoom_None(v, k) == v
Cached_None(best) == {}

Seen(v, k, x) == {c \in Existing(k) : Near(x, c) \/ c \in v.cell}

MakeRoom(v, k) == IF v.visible[k] = None THEN v ELSE Disable(v, k)

(* What visibleCell holds of a kind after an update.                       *)
Cached(best) == {c \in {best} : HasCell(c)}

(* processCheckpoints and processRaceCheckpoints: the one believed visible *)
(* is hidden when it is out of range; the best in range is queued.  The    *)
(* views that can come of it.                                              *)
Process(v, k, x, y) ==
  LET seen  == Seen(v, k, x)
      found == {c \in seen : InRange(y, c)}
      bests == Bests(y, found)
      kept  == IF v.visible[k] \in seen \ found THEN Hide(v, k) ELSE v
      others == {c \in v.cell : KindOf(c) # k}
      queue(best) == [MakeRoom(kept, k) EXCEPT !.delayed[k] = best]
      after(best) == IF best = kept.visible[k] THEN kept ELSE queue(best)
  IN  IF found = {} THEN {[kept EXCEPT !.cell = others]}
      ELSE {[after(best) EXCEPT !.cell = others \cup Cached(best)] : best \in bests}

(* The types with items and enabled are processed one after the other.     *)
ProcessAll(v, kinds, x, y) ==
  LET todo == {k \in kinds : Existing(k) # {}}
      first  == IF "checkpoint" \in todo THEN Process(v, "checkpoint", x, y) ELSE {v}
      second(u) == IF "race" \in todo THEN Process(u, "race", x, y) ELSE {u}
  IN  UNION {second(u) : u \in first}

-----------------------------------------------------------------------------
Init ==
  /\ checkpoints = {}
  /\ place = [c \in Ids |-> Origin]
  /\ players = {}
  /\ position = [p \in Players |-> Origin]
  /\ updateWhenIdle = [p \in Players |-> FALSE]
  /\ enabledItems = [p \in Players |-> Kinds]
  /\ visible = [p \in Players |-> Nothing]
  /\ active = [p \in Players |-> Nothing]
  /\ delayed = [p \in Players |-> Nothing]
  /\ visibleCell = [p \in Players |-> {}]
  /\ client = [p \in Players |-> Nothing]
  /\ inside = [p \in Players |-> Nowhere]

Sample(p, x) ==
  /\ position' = [position EXCEPT ![p] = x]
  /\ UNCHANGED <<players, updateWhenIdle, enabledItems>>

(* Mutant: players who stand still are not updated.                        *)
IsProcessed_Moving(p, x) == x # position[p]

IsProcessed(p, x) == x # position[p] \/ updateWhenIdle[p]

(* performPlayerUpdate on a tick: what is queued is shown, then the player *)
(* who has moved, or is updated when idle, is processed.                   *)
AutomaticUpdate(p, x) ==
  /\ p \in players
  /\ Sample(p, x)
  /\ IF IsProcessed(p, x)
     THEN \E y \in Predicted(p, x) : \E v \in ProcessAll(ShowOne(View(p)), enabledItems[p], x, y) :
            SetView(p, v)
     ELSE SetView(p, ShowOne(View(p)))
  /\ UNCHANGED itemVars

(* Streamer_Update of one of the types, or of all that are enabled.        *)
ManualUpdate(p, x, kinds) ==
  /\ "update" \in Calls
  /\ p \in players
  /\ kinds = enabledItems[p] \/ \E k \in Kinds : kinds = {k}
  /\ Sample(p, x)
  /\ \E v \in ProcessAll(View(p), kinds, x, x) : SetView(p, v)
  /\ UNCHANGED itemVars

(* The server finds the player in the checkpoint its client shows.         *)
OnPlayerEnterCheckpoint(p, k) ==
  /\ p \in players
  /\ client[p][k] # None /\ ~inside[p][k]
  /\ inside' = [inside EXCEPT ![p][k] = TRUE]
  /\ active' = [active EXCEPT ![p][k] = visible[p][k]]
  /\ UNCHANGED <<itemVars, playerVars, visible, delayed, visibleCell, client>>

(* And no longer.                                                          *)
OnPlayerLeaveCheckpoint(p, k) ==
  /\ p \in players
  /\ inside[p][k]
  /\ inside' = [inside EXCEPT ![p][k] = FALSE]
  /\ active' = [active EXCEPT ![p][k] = IF @ = visible[p][k] THEN None ELSE @]
  /\ UNCHANGED <<itemVars, playerVars, visible, delayed, visibleCell, client>>

CreateDynamicCP(c, x) ==
  /\ c \notin checkpoints
  /\ checkpoints' = checkpoints \cup {c}
  /\ place' = [place EXCEPT ![c] = x]
  /\ UNCHANGED <<playerVars, viewVars>>

(* c is hidden from every player for whom it is the visible one.           *)
HideFromAll(c, cells) ==
  LET k == KindOf(c)
      hidden(p) == IF visible[p][k] = c THEN Hide(View(p), k) ELSE View(p)
  IN  /\ visible' = [p \in Players |-> hidden(p).visible]
      /\ active' = [p \in Players |-> hidden(p).active]
      /\ client' = [p \in Players |-> hidden(p).client]
      /\ inside' = [p \in Players |-> hidden(p).inside]
      /\ visibleCell' = cells
      /\ UNCHANGED delayed

(* Utility::destroyCheckpoint.  The ids that wait are not looked at.       *)
DestroyDynamicCP(c) ==
  /\ "destroy" \in Calls
  /\ c \in checkpoints
  /\ checkpoints' = checkpoints \ {c}
  /\ place' = [place EXCEPT ![c] = Origin]
  /\ HideFromAll(c, [p \in Players |-> visibleCell[p] \ {c}])
  /\ UNCHANGED playerVars

(* Streamer_SetItemPos, and any attribute set by the data manipulation     *)
(* natives (x is then where it is): to be streamed again by an update.     *)
SetItemPos(c, x) ==
  /\ "setPos" \in Calls
  /\ c \in checkpoints
  /\ place' = [place EXCEPT ![c] = x]
  /\ HideFromAll(c, visibleCell)
  /\ UNCHANGED <<checkpoints, playerVars>>

(* Streamer_DestroyAllVisibleItems.                                        *)
DestroyAllVisibleItems(p, k) ==
  /\ "destroyVisible" \in Calls
  /\ p \in players
  /\ visible[p][k] # None
  /\ SetView(p, Hide(View(p), k))
  /\ UNCHANGED <<itemVars, playerVars>>

ToggleItemUpdate(p, k) ==
  /\ "toggleItem" \in Calls
  /\ p \in players
  /\ enabledItems' = [enabledItems EXCEPT ![p] = IF k \in @ THEN @ \ {k} ELSE @ \cup {k}]
  /\ UNCHANGED <<itemVars, viewVars, players, position, updateWhenIdle>>

ToggleIdleUpdate(p) ==
  /\ "toggleIdle" \in Calls
  /\ p \in players
  /\ updateWhenIdle' = [updateWhenIdle EXCEPT ![p] = ~@]
  /\ UNCHANGED <<itemVars, viewVars, players, position, enabledItems>>

Connect(p, npc) ==
  /\ p \notin players
  /\ players' = players \cup {p}
  /\ enabledItems' = [enabledItems EXCEPT ![p] = IF npc THEN {} ELSE Kinds]
  /\ UNCHANGED <<itemVars, viewVars, position, updateWhenIdle>>

Disconnect(p) ==
  /\ "disconnect" \in Calls
  /\ p \in players
  /\ players' = players \ {p}
  /\ position' = [position EXCEPT ![p] = Origin]
  /\ updateWhenIdle' = [updateWhenIdle EXCEPT ![p] = FALSE]
  /\ enabledItems' = [enabledItems EXCEPT ![p] = Kinds]
  /\ SetView(p, NoView)
  /\ UNCHANGED itemVars

-----------------------------------------------------------------------------
PlayerStep(p) ==
  \/ \E x \in Places : AutomaticUpdate(p, x)
  \/ \E x \in Places, kinds \in SUBSET Kinds : ManualUpdate(p, x, kinds)
  \/ \E k \in Kinds : OnPlayerEnterCheckpoint(p, k) \/ OnPlayerLeaveCheckpoint(p, k)
  \/ \E k \in Kinds : DestroyAllVisibleItems(p, k) \/ ToggleItemUpdate(p, k)
  \/ ToggleIdleUpdate(p)
  \/ \E npc \in BOOLEAN : (npc => "npc" \in Calls) /\ Connect(p, npc)
  \/ Disconnect(p)

ItemStep(c) ==
  \/ \E x \in ItemPlaces[c] : CreateDynamicCP(c, x) \/ SetItemPos(c, x)
  \/ DestroyDynamicCP(c)

Next == (\E p \in Players : PlayerStep(p)) \/ (\E c \in Ids : ItemStep(c))

(* Ticks come again and again.                                             *)
Fairness == \A p \in Players : WF_vars(AutomaticUpdate(p, position[p]))

Spec == Init /\ [][Next]_vars
FairSpec == Spec /\ Fairness
-----------------------------------------------------------------------------
(* Properties.                                                             *)

(* What a slot of each kind may hold.                                      *)
Slots == {f \in [Kinds -> Ids \cup {None}] : \A k \in Kinds : f[k] # None => KindOf(f[k]) = k}

(* Every variable keeps its type; in particular the slot of a kind never   *)
(* names a checkpoint of the other.                                        *)
TypeOK ==
  /\ checkpoints \subseteq Ids
  /\ place \in [Ids -> Places]
  /\ players \subseteq Players
  /\ position \in [Players -> Places]
  /\ updateWhenIdle \in [Players -> BOOLEAN]
  /\ enabledItems \in [Players -> SUBSET Kinds]
  /\ visible \in [Players -> Slots]
  /\ active \in [Players -> Slots]
  /\ delayed \in [Players -> Slots]
  /\ visibleCell \in [Players -> SUBSET Ids]
  /\ client \in [Players -> Slots]
  /\ inside \in [Players -> [Kinds -> BOOLEAN]]

(* What the client shows is what GetPlayerVisibleDynamicCP answers, and    *)
(* nothing waits to replace it: whatever gives way has been disabled.      *)
ClientShowsVisible ==
  \A p \in Players, k \in Kinds :
    client[p][k] # None => client[p][k] = visible[p][k] /\ delayed[p][k] = None

(* IsPlayerInDynamicCP is only true of the checkpoint the client shows, in *)
(* which the player is: active is reset whenever it is disabled, by any of *)
(* the paths that do so.                                                   *)
ActiveIsShown ==
  \A p \in Players, k \in Kinds :
    active[p][k] # None => active[p][k] = client[p][k] /\ inside[p][k]

(* No player's view mentions a checkpoint that does not exist, but for the *)
(* queue, whose id is looked up before it is shown.                        *)
NoTraceOfDestroyed ==
  \A p \in Players :
    /\ visibleCell[p] \subseteq checkpoints
    /\ \A k \in Kinds : visible[p][k] \in checkpoints \cup {None}

(* Whether the next update examines checkpoint c.                          *)
Held(p, c) == HasCell(c) => c \in visibleCell[p]
Chosen(p, c) == delayed[p]["checkpoint"] = c
On(p, c) == client[p]["checkpoint"] = c

(* The checkpoint that an update chooses is examined again by the next     *)
(* one, wherever the player is by then, when that one shows it, and from   *)
(* then on until it is off the client.  (A script that forces an update    *)
(* while it waits to be shown spoils this, and so does a race checkpoint's *)
(* wait behind a checkpoint: what is shown then may be out of reach.)      *)
StaysReachable ==
  [][\A p \in Players, c \in checkpoints \cap checkpoints' :
        \/ Chosen(p, c)' /\ ~Chosen(p, c)
        \/ On(p, c)' /\ Held(p, c)
        => Held(p, c)']_vars

(* From some point on there are only ticks, on players who stand still.    *)
StandStill == \E p \in Players : AutomaticUpdate(p, position[p])

Choice(p, k) == Bests(position[p], {c \in Existing(k) : InRange(position[p], c)})
Streams(p, k) == p \in players /\ updateWhenIdle[p] /\ k \in enabledItems[p]

(* What is shown and out of reach, or is believed visible although it gave *)
(* way to one that has been destroyed since.                               *)
Stranded(p) ==
  LET k == "checkpoint" IN
  \/ \E c \in checkpoints : On(p, c) /\ ~Held(p, c)
  \/ visible[p][k] # client[p][k] /\ delayed[p][k] \notin checkpoints

(* Then the client ends up showing the best checkpoint in range, and none  *)
(* if none is; unless something a script did in between left the player    *)
(* stranded.                                                               *)
SettlesOnBest ==
  <>[][StandStill]_vars =>
    \A p \in Players : <>[](~Stranded(p)) =>
      <>[](LET choice == Choice(p, "checkpoint")
               shown  == client[p]["checkpoint"]
           IN  Streams(p, "checkpoint") =>
                 IF choice = {} THEN shown = None ELSE shown \in choice)

(* Claim of the documentation that the code does not keep.                 *)

(* "Fixed bug with checkpoints and race checkpoints that caused none to be *)
(* streamed until the one that was visible was no longer in range": a      *)
(* player who stands in range of one ends up seeing one (the queued one    *)
(* may be destroyed before it is shown).                                   *)
OneIsStreamed ==
  <>[][StandStill]_vars =>
    <>[](\A p \in Players, k \in Kinds : Streams(p, k) /\ Choice(p, k) # {} => client[p][k] # None)

=============================================================================
