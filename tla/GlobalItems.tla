------------------------------ MODULE GlobalItems ------------------------------
(***************************************************************************)
(* Streaming of pickups and actors.  Unlike objects they are not made for  *)
(* one player: the server holds one copy of an item per virtual world, and *)
(* a copy exists while some player would see it there.  Every tickRate     *)
(* ticks the wanted copies are collected over all players, those no longer *)
(* wanted are destroyed and the missing ones created.  A destroyed actor   *)
(* leaves its copies to the next such tick; a pickup takes them along.     *)
(*                                                                         *)
(* The two types do not interact and are told apart by Kind.  A place      *)
(* stands for a neighbourhood: who is in the same place is in range.  The  *)
(* conditions on players, interiors and areas are one set of players.      *)
(* Health, animation and the like are changed on the copies in place and   *)
(* are left out; model, rotation and invulnerability are set by making the *)
(* copies anew, as SetItemPos does.  Scripts create pickups and actors of  *)
(* their own in the same pools, but do not destroy those of the streamer.  *)
(* A server whose pool is full refuses.  The loop over actors notices; the *)
(* one over pickups compares with -1 what CreatePickup reports with 0, and *)
(* records the copy under the id 0, which may be another's.                *)
(***************************************************************************)
EXTENDS Integers, FiniteSets, Functions

CONSTANTS
  Kind,            \* "pickup" or "actor"
  Players,
  Npcs,            \* the players that are NPCs
  Ids,             \* ids the identifier hands out, the smallest free one first
  Places,
  Origin,          \* the position of a Player just constructed
  Worlds,          \* virtual worlds; 0 is that of a Player just constructed
  WorldSets,       \* the sets of worlds scripts create items with
  Audiences,       \* the sets of players an item may be restricted to
  GlobalCell,      \* the cell of items examined for everyone; none of Places
  Distances,       \* signs of the stream distances scripts specify
  Priorities,
  Scripts,         \* the AMX instances items belong to
  ServerIds,       \* the server's pool of pickups or actors
  Zero,            \* the id 0, in the pool or not
  Limits,          \* values of globalMaxVisibleItems, the first being MaxVisible
  MaxVisible,
  MaxCreations,    \* bound on the number of items created
  Calls            \* the natives the scripts call

AnyWorld == -1

ASSUME KindAssumption   == Kind \in {"pickup", "actor"} /\ Npcs \subseteq Players
ASSUME IdsAssumption    == IsFiniteSet(Ids) /\ Ids \subseteq Nat /\ Priorities \subseteq Int
ASSUME PlaceAssumption  == Origin \in Places /\ Audiences \subseteq SUBSET Players
ASSUME DistanceAssumption == GlobalCell \notin Places /\ Distances \subseteq {"negative", "positive"}
ASSUME WorldAssumption  ==
  /\ IsFiniteSet(Worlds) /\ Worlds \subseteq Nat /\ 0 \in Worlds
  /\ WorldSets \subseteq (SUBSET Worlds) \cup {{AnyWorld}}
ASSUME LimitAssumption  ==
  /\ IsFiniteSet(ServerIds)
  /\ Limits \subseteq Nat /\ MaxVisible \in Limits /\ MaxCreations \in Nat

VARIABLES
  item,       \* core->getData()->pickups or actors
  births,     \* how many items have been created
  player,     \* core->getData()->players
  internal,   \* internalPickups or internalActors: (id, world) to server id
  destroyed,  \* destroyedActors
  server,     \* the copies the server holds for the streamer, by server id
  foreign,    \* the server ids of what scripts create themselves
  maxVisible  \* globalMaxVisibleItems of the type

copyVars == <<internal, destroyed, server, foreign>>
vars == <<item, births, player, copyVars, maxVisible>>

Keys == Ids \X (Worlds \cup {AnyWorld})

(* f where it is defined, g elsewhere.                                     *)
Over(f, g) == [x \in DOMAIN f \cup DOMAIN g |-> IF x \in DOMAIN f THEN f[x] ELSE g[x]]

-----------------------------------------------------------------------------
(* What is wanted.                                                         *)

(* The cell Grid::addPickup and addActor choose; static: the comparable    *)
(* stream distance is negative.                                            *)
CellFor(static, x) == IF static THEN GlobalCell ELSE x

Near(p, i)    == item[i].cell \in {GlobalCell, player[p].at}
InRange(p, i) == item[i].static \/ item[i].place = player[p].at

(* Actors are not discovered for NPCs.                                     *)
Discovers(p) == player[p].enabled /\ (Kind = "actor" => p \notin Npcs)

WantedBy(p, k) ==
  LET i == k[1] IN
  /\ Discovers(p)
  /\ k[2] \in {AnyWorld, player[p].world}
  /\ Near(p, i) /\ InRange(p, i)
  /\ p \in item[i].audience

Discovered ==
  {k \in Keys : /\ k[1] \in DOMAIN item
                /\ k[2] \in item[k[1]].worlds
                /\ \E p \in DOMAIN player : WantedBy(p, k)}

-----------------------------------------------------------------------------
(* The copies of items and their ids.                                      *)

Streamed == DOMAIN internal
Used     == DOMAIN server
Free     == ServerIds \ (Used \cup foreign)
IdsOf(K) == {internal[k] : k \in K}

(* The recorded copies of item i.  Only the worlds it now has are searched.*)
CopiesOf(i) == {k \in Streamed : k[1] = i /\ k[2] \in item[i].worlds}

(* What the server creates from an item for one world.                     *)
Copy(it, k) == [born |-> it.born, place |-> it.place, world |-> k[2]]
Copies(items, id) == [s \in Range(id) |-> LET k == AntiFunction(id)[s] IN Copy(items[k[1]], k)]

(* Bound: copies of which one has been refused are not made anew.          *)
Intact(K) == IsInjective(Restrict(internal, K)) /\ IdsOf(K) \subseteq Used \cup foreign

(* Destroyed and created again one by one, the copies K take any free ids  *)
(* or their own, but no set of them just exchanges its ids.                *)
Reallocations(K) ==
  {id \in Injection(K, Free \cup IdsOf(K)) :
     \A S \in (SUBSET K) \ {{}} :
       {id[k] : k \in S} = IdsOf(S) => \E k \in S : id[k] = internal[k]}

(* The server's pickups or actors S are released, whoever made them.       *)
Release(S) ==
  /\ server' = Restrict(server, Used \ S)
  /\ foreign' = foreign \ S

(* Mutant: made anew from the item as it was.                              *)
Recreate_Before(i, items) ==
  LET K == CopiesOf(i) IN
  /\ Intact(K)
  /\ \E id \in Reallocations(K) :
       /\ internal' = Over(id, internal)
       /\ server' = Over(Copies(item, id), Restrict(server, Used \ IdsOf(K)))
  /\ foreign' = foreign \ IdsOf(K)
  /\ UNCHANGED destroyed

(* The copies of item i are made anew from items.                          *)
Recreate(i, items) ==
  LET K == CopiesOf(i) IN
  /\ Intact(K)
  /\ \E id \in Reallocations(K) :
       /\ internal' = Over(id, internal)
       /\ server' = Over(Copies(items, id), Restrict(server, Used \ IdsOf(K)))
  /\ foreign' = foreign \ IdsOf(K)
  /\ UNCHANGED destroyed

(* The copies K are destroyed and forgotten.                               *)
Discard(K) ==
  /\ internal' = Restrict(internal, Streamed \ K)
  /\ Release(IdsOf(K))

-----------------------------------------------------------------------------
Init ==
  /\ item = << >>
  /\ births = 0
  /\ player = << >>
  /\ internal = << >>
  /\ destroyed = {}
  /\ server = << >>
  /\ foreign = {}
  /\ maxVisible = MaxVisible

(* some is made before the rest of all, by ascending priority.             *)
FirstOf(some, all) == \A k \in some, l \in all \ some : item[k[1]].priority <= item[l[1]].priority

(* Mutant: the refusal of an actor is not noticed either.                  *)
Chosen_NoRefusal(fresh, kept, free) ==
  {new \in SUBSET fresh : new = fresh \/ Cardinality(kept) + Cardinality(new) = maxVisible}

(* Those of fresh that are made, or believed to be, in ascending order of  *)
(* priority until the limit is met exactly or an actor is refused.         *)
Chosen(fresh, kept, free) ==
  LET count(new) == Cardinality(kept) + Cardinality(new)
      full(new)  == Kind = "actor" /\ Cardinality(new) = Cardinality(free)
  IN  {new \in SUBSET fresh :
         /\ Cardinality(kept) <= maxVisible => count(new) <= maxVisible
         /\ Kind = "actor" => Cardinality(new) <= Cardinality(free)
         /\ new = fresh \/ count(new) = maxVisible \/ full(new)
         /\ FirstOf(new, fresh)}

(* Of new, those for which there is room; the last ones are refused.       *)
Served(new, free) ==
  {made \in SUBSET new :
     /\ Cardinality(made) <= Cardinality(free)
     /\ made = new \/ Cardinality(made) = Cardinality(free)
     /\ FirstOf(made, new)}

(* The copies new are made in the place of what was recorded beside kept   *)
(* and held beside left.                                                   *)
Make(new, kept, left, free) ==
  \E made \in Served(new, free) : \E id \in Injection(made, free) :
    /\ internal' = Over(id, Over([k \in new |-> Zero], Restrict(internal, kept)))
    /\ server' = Over(Copies(item, id), Restrict(server, left))

(* Mutants: the missing copies are made before any are destroyed; copies   *)
(* of items that are gone are passed over.                                 *)
Stream_CreateFirst(done) ==
  LET kept == Streamed \cap Discovered
      gone == IdsOf(Streamed \ kept)
  IN  /\ \E new \in Chosen(Discovered \ kept, Streamed, Free) :
           Make(new, kept, Used \ (done \cup gone), Free)
      /\ foreign' = foreign \ gone

Stream_SkipsGone(done) ==
  LET kept == {k \in Streamed : k \in Discovered \/ k[1] \notin DOMAIN item}
      gone == IdsOf(Streamed \ kept)
      left == Used \ (done \cup gone)
      free == ServerIds \ (left \cup (foreign \ gone))
  IN  /\ \E new \in Chosen(Discovered \ kept, kept, free) : Make(new, kept, left, free)
      /\ foreign' = foreign \ gone

(* Copies not wanted are destroyed, then missing ones are created; done is *)
(* what has been destroyed before.                                         *)
Stream(done) ==
  LET kept == Streamed \cap Discovered
      gone == IdsOf(Streamed \ kept)
      left == Used \ (done \cup gone)
      free == ServerIds \ (left \cup (foreign \ gone))
  IN  /\ \E new \in Chosen(Discovered \ kept, kept, free) : Make(new, kept, left, free)
      /\ foreign' = foreign \ gone

StreamPickups ==
  /\ Kind = "pickup"
  /\ Stream({})
  /\ UNCHANGED destroyed

(* processPendingDestroyedActors, then streamActors.                       *)
StreamActors ==
  /\ Kind = "actor"
  /\ Stream(destroyed)
  /\ destroyed' = {}

GlobalTick ==
  /\ StreamPickups \/ StreamActors
  /\ UNCHANGED <<item, births, player, maxVisible>>

-----------------------------------------------------------------------------
(* Natives.                                                                *)

NewId(i) == i \in Ids \ DOMAIN item /\ \A j \in Ids \ DOMAIN item : i <= j

CreateDynamicItem(it) ==
  /\ births < MaxCreations
  /\ births' = births + 1
  /\ \E i \in Ids : NewId(i) /\ item' = Over([j \in {i} |-> it], item)
  /\ UNCHANGED <<player, copyVars, maxVisible>>

(* Mutant: the copies of actors are not left to the tick.                  *)
DestroyItems_Lost(I) ==
  LET K == UNION {CopiesOf(i) : i \in I} IN
  /\ item' = Restrict(item, DOMAIN item \ I)
  /\ \/ Kind = "pickup" /\ Discard(K)
     \/ /\ Kind = "actor"
        /\ internal' = Restrict(internal, Streamed \ K)
        /\ UNCHANGED <<server, foreign>>
  /\ UNCHANGED <<births, player, destroyed, maxVisible>>

(* destroyPickup or destroyActor of each of I.                             *)
DestroyItems(I) ==
  LET K == UNION {CopiesOf(i) : i \in I} IN
  /\ item' = Restrict(item, DOMAIN item \ I)
  /\ \/ Kind = "pickup" /\ Discard(K) /\ UNCHANGED destroyed
     \/ /\ Kind = "actor"
        /\ internal' = Restrict(internal, Streamed \ K)
        /\ destroyed' = destroyed \cup IdsOf(K)
        /\ UNCHANGED <<server, foreign>>
  /\ UNCHANGED <<births, player, maxVisible>>

DestroyDynamicItem(i) ==
  /\ "destroy" \in Calls
  /\ i \in DOMAIN item
  /\ DestroyItems({i})

(* A script is unloaded and its items are destroyed.                       *)
OnAmxUnload(a) ==
  /\ "unload" \in Calls
  /\ DestroyItems({i \in DOMAIN item : item[i].script = a})

(* The worlds are set, one is added or one is taken away; a negative value *)
(* clears the set.  Copies in a world the item keeps are where they are.   *)
SetWorlds(i, w) ==
  /\ "setWorlds" \in Calls
  /\ i \in DOMAIN item
  /\ LET old == item[i].worlds IN
     \E new \in {{w}, old \cup {w}, old \ {w}, {}} : item' = [item EXCEPT ![i].worlds = new]
  /\ UNCHANGED <<births, player, copyVars, maxVisible>>

(* Item i becomes it and its copies are made anew.                         *)
Alter(i, it) ==
  LET altered == [item EXCEPT ![i] = it] IN
  /\ item' = altered
  /\ Recreate(i, altered)
  /\ UNCHANGED <<births, player, maxVisible>>

(* Streamer_SetItemPos, and model, type, height, rotation or vulnerability *)
(* set by the data manipulation natives: x is then where the item is.      *)
SetItemPos(i, x) ==
  /\ "setItemPos" \in Calls
  /\ i \in DOMAIN item
  /\ LET it == item[i]
         stays == x = it.place \/ it.cell = GlobalCell
     IN  Alter(i, [it EXCEPT !.place = x,
                             !.cell = IF stays THEN @ ELSE CellFor(it.static, x)])

(* Mutant: the item stays in its cell.                                     *)
SetCoordinate_SameCell(i, x) ==
  /\ "setCoordinate" \in Calls
  /\ i \in DOMAIN item
  /\ Alter(i, [item[i] EXCEPT !.place = x])

(* X or Y set by Streamer_SetFloatData.                                    *)
SetCoordinate(i, x) ==
  /\ "setCoordinate" \in Calls
  /\ i \in DOMAIN item
  /\ Alter(i, [item[i] EXCEPT !.place = x,
                              !.cell = IF @ = GlobalCell THEN @ ELSE CellFor(item[i].static, x)])

(* The stream distance set by Streamer_SetFloatData, which squares it.     *)
SetStreamDistance(i, d) ==
  /\ "setDistance" \in Calls
  /\ i \in DOMAIN item
  /\ item' = [item EXCEPT ![i].distance = d, ![i].static = FALSE, ![i].cell = item[i].place]
  /\ UNCHANGED <<births, player, copyVars, maxVisible>>

(* Streamer_ToggleItemStatic: kept tells that the original distance has    *)
(* been put aside.  The item stays in its cell.                            *)
ToggleItemStatic(i) ==
  /\ "toggleStatic" \in Calls
  /\ i \in DOMAIN item
  /\ item[i].static = item[i].kept
  /\ item' = [item EXCEPT ![i].static = ~@, ![i].kept = ~@]
  /\ UNCHANGED <<births, player, copyVars, maxVisible>>

(* SetDynamicActorPos: the copies are moved.  Without copies the actor     *)
(* stays in the grid cell it was in.                                       *)
SetActorPos(i, x) ==
  /\ Kind = "actor" /\ "setActorPos" \in Calls
  /\ i \in DOMAIN item
  /\ item' = [item EXCEPT ![i].place = x,
                          ![i].cell = IF CopiesOf(i) = {} THEN @ ELSE CellFor(item[i].static, x)]
  /\ server' = [s \in Used |-> IF s \in IdsOf(CopiesOf(i)) THEN [server[s] EXCEPT !.place = x]
                                                           ELSE server[s]]
  /\ UNCHANGED <<births, player, internal, destroyed, foreign, maxVisible>>

SetAudience(i, audience) ==
  /\ "setAudience" \in Calls
  /\ i \in DOMAIN item
  /\ item' = [item EXCEPT ![i].audience = audience]
  /\ UNCHANGED <<births, player, copyVars, maxVisible>>

(* Streamer_DestroyAllVisibleItems, of script a only or server-wide.       *)
DestroyAllVisibleItems(a, serverWide) ==
  /\ "destroyVisible" \in Calls
  /\ Discard({k \in Streamed :
                serverWide \/ (k[1] \in DOMAIN item /\ item[k[1]].script = a)})
  /\ UNCHANGED <<item, births, player, destroyed, maxVisible>>

SetVisibleItems(n) ==
  /\ "setVisible" \in Calls
  /\ maxVisible' = n
  /\ UNCHANGED <<item, births, player, copyVars>>

-----------------------------------------------------------------------------
(* Players and the server.                                                 *)

(* performPlayerUpdate samples where the player is.                        *)
Sample(p, x, w) ==
  /\ p \in DOMAIN player
  /\ player' = [player EXCEPT ![p].at = x, ![p].world = w]
  /\ UNCHANGED <<item, births, copyVars, maxVisible>>

ToggleItemUpdate(p) ==
  /\ "toggle" \in Calls
  /\ p \in DOMAIN player
  /\ player' = [player EXCEPT ![p].enabled = ~@]
  /\ UNCHANGED <<item, births, copyVars, maxVisible>>

Connect(p) ==
  /\ p \notin DOMAIN player
  /\ player' = Over([q \in {p} |-> [at |-> Origin, world |-> 0, enabled |-> p \notin Npcs]], player)
  /\ UNCHANGED <<item, births, copyVars, maxVisible>>

Disconnect(p) ==
  /\ "disconnect" \in Calls
  /\ p \in DOMAIN player
  /\ player' = Restrict(player, DOMAIN player \ {p})
  /\ UNCHANGED <<item, births, copyVars, maxVisible>>

(* A script creates or destroys a pickup or actor of its own.              *)
ScriptOccupies(s) ==
  /\ "occupy" \in Calls
  /\ s \in Free
  /\ foreign' = foreign \cup {s}
  /\ UNCHANGED <<item, births, player, internal, destroyed, server, maxVisible>>

ScriptReleases(s) ==
  /\ s \in foreign
  /\ foreign' = foreign \ {s}
  /\ UNCHANGED <<item, births, player, internal, destroyed, server, maxVisible>>

-----------------------------------------------------------------------------
(* An item as its creation leaves it.                                      *)
NewItem(x, d, W, P, n, a) ==
  LET static == d = "negative"
  IN  [born |-> births, place |-> x, cell |-> CellFor(static, x), distance |-> d,
       static |-> static, kept |-> FALSE, worlds |-> W, audience |-> P,
       priority |-> n, script |-> a]

CreationStep ==
  \E x \in Places, d \in Distances, W \in WorldSets, P \in Audiences, n \in Priorities,
     a \in Scripts :
    CreateDynamicItem(NewItem(x, d, W, P, n, a))

ItemStep(i) ==
  \/ DestroyDynamicItem(i)
  \/ \E w \in Worlds : SetWorlds(i, w)
  \/ \E x \in Places : SetItemPos(i, x) \/ SetCoordinate(i, x) \/ SetActorPos(i, x)
  \/ \E d \in Distances : SetStreamDistance(i, d)
  \/ ToggleItemStatic(i)
  \/ \E P \in Audiences : SetAudience(i, P)

PlayerStep(p) ==
  \/ \E x \in Places, w \in Worlds : Sample(p, x, w)
  \/ ToggleItemUpdate(p) \/ Connect(p) \/ Disconnect(p)

ScriptStep(a) ==
  \/ OnAmxUnload(a)
  \/ \E serverWide \in BOOLEAN : DestroyAllVisibleItems(a, serverWide)

Next ==
  \/ GlobalTick
  \/ CreationStep
  \/ \E i \in Ids : ItemStep(i)
  \/ \E p \in Players : PlayerStep(p)
  \/ \E a \in Scripts : ScriptStep(a)
  \/ \E n \in Limits : SetVisibleItems(n)
  \/ \E s \in ServerIds : ScriptOccupies(s) \/ ScriptReleases(s)

(* The server's ticks never stop.                                          *)
Fairness == WF_vars(GlobalTick)

Spec == Init /\ [][Next]_vars
FairSpec == Spec /\ Fairness

-----------------------------------------------------------------------------
(* Properties.                                                             *)

ItemType ==
  [born : Nat, place : Places, cell : Places \cup {GlobalCell},
   worlds : SUBSET (Worlds \cup {AnyWorld}), audience : SUBSET Players,
   distance : {"negative", "positive"}, static : BOOLEAN, kept : BOOLEAN,
   priority : Priorities, script : Scripts]
PlayerType == [at : Places, world : Worlds, enabled : BOOLEAN]
CopyType   == [born : Nat, place : Places, world : Worlds \cup {AnyWorld}]

(* Every variable keeps its type.                                          *)
TypeOK ==
  /\ DOMAIN item \subseteq Ids /\ Range(item) \subseteq ItemType
  /\ births \in Nat
  /\ DOMAIN player \subseteq Players /\ Range(player) \subseteq PlayerType
  /\ Streamed \subseteq Keys
  /\ Range(internal) \subseteq ServerIds \cup (IF Kind = "pickup" THEN {Zero} ELSE {})
  /\ destroyed \subseteq ServerIds
  /\ Used \subseteq ServerIds /\ Range(server) \subseteq CopyType
  /\ foreign \subseteq ServerIds
  /\ maxVisible \in Limits

(* The server holds exactly the copies on record and those about to be     *)
(* destroyed, each once and in the world it is recorded for, and nothing a *)
(* script made is among them: no copy is leaked or destroyed twice, and an *)
(* event that names a server id belongs to one item.                       *)
CopiesAccountedFor ==
  /\ Used = IdsOf(Streamed) \cup destroyed
  /\ destroyed \cap IdsOf(Streamed) = {}
  /\ \A k, l \in Streamed : internal[k] = internal[l] => k = l
  /\ \A k \in Streamed : server[internal[k]].world = k[2]
  /\ Used \cap foreign = {}

(* A copy on record was made from the item that has its id and stands      *)
(* where that item is, unless the item is gone or has left its world.      *)
CopiesAreCurrent ==
  \A k \in Streamed :
    k[1] \in DOMAIN item /\ k[2] \in item[k[1]].worlds =>
      /\ internal[k] \in Used
      /\ server[internal[k]].born = item[k[1]].born
      /\ server[internal[k]].place = item[k[1]].place

(* Every copy on record is of an item there is, in a world it is in.       *)
NoOrphans == \A k \in Streamed : k[1] \in DOMAIN item /\ k[2] \in item[k[1]].worlds

(* The limit holds as long as it is not changed.                           *)
LimitHolds == "setVisible" \notin Calls => Cardinality(Streamed) <= maxVisible

(* Whoever has an item in range has its cell examined; as long as actors   *)
(* are not moved by SetDynamicActorPos, which forgets the cell, and but    *)
(* for items that were made static, which stay in the cell they had.       *)
InRangeIsExamined ==
  "setActorPos" \notin Calls =>
    \A i \in DOMAIN item, p \in DOMAIN player :
      InRange(p, i) => Near(p, i) \/ (item[i].static /\ item[i].kept)

(* There is room for all that is wanted.                                   *)
Room == /\ Cardinality(Discovered) <= maxVisible
        /\ Cardinality(Discovered) <= Cardinality(ServerIds \ foreign)

(* A tick leaves copies only where they are wanted, those that were there  *)
(* untouched, and nothing waiting; with room for all, all are there (the   *)
(* ids of what is destroyed are free in time).                             *)
TickServesAll ==
  [][GlobalTick => /\ DOMAIN internal' \subseteq Discovered
                   /\ \A k \in Streamed \cap Discovered : internal'[k] = internal[k]
                   /\ destroyed' = {}
                   /\ Room => DOMAIN internal' = Discovered]_vars

(* Whatever scripts and players do in between, a copy that stays wanted    *)
(* with room for all keeps appearing, and one that stays unwanted goes.    *)
FollowsThePlayers ==
  \A k \in Keys :
    /\ <>[](k \in Discovered /\ Room) => []<>(k \in Streamed)
    /\ <>[](k \notin Discovered) => []<>(k \notin Streamed /\ destroyed = {})

(* Claim of the documentation that the code does not keep.                 *)

(* "Made a check to prevent too many objects, pickups, or 3D text labels   *)
(* from being created": what is on record has been made.                   *)
RefusalIsNoticed == \A k \in Streamed : internal[k] \in Used

=============================================================================
