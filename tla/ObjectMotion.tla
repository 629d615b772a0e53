------------------------------ MODULE ObjectMotion ------------------------------
(***************************************************************************)
(* Dynamic objects that move by themselves and objects attached to others, *)
(* to players or to vehicles.                                              *)
(*                                                                         *)
(* The streamer calculates where a moving object is, and where the base of *)
(* an attached one is, only when active items are processed: on ticks, and *)
(* in natives that ask.  It keeps both kinds of objects in sets of their   *)
(* own, refiles an object in the grid as its place changes, and tells the  *)
(* clients that have it to move or attach their copy.  Which objects the   *)
(* client has is up to streaming (see ObjectStreaming).  There are three   *)
(* ways to call all this: natives of objects, data of items, and the       *)
(* component interface for other server components; each its own code.     *)
(*                                                                         *)
(* Space is a line and speed one place per unit of time.  Rotations, which *)
(* move along with positions, materials, and positions relative to the     *)
(* base are left out.  A stream distance is near, for which the grid has   *)
(* cells, or far.                                                          *)
(* A base is an object, by its id, or an anchor: a player or a vehicle.    *)
(***************************************************************************)
EXTENDS Integers, FiniteSets

CONSTANTS
  Ids,         \* ids of objects
  Places,      \* where anything can be
  Stops,       \* the places that scripts name
  Roads,       \* the places where players and vehicles get
  Anchors,     \* the players and vehicles to attach to
  None,        \* no move, no attachment, no base
  Lost,        \* INVALID_OBJECT_ID taken for the id of an object
  Nowhere,     \* the position of what is attached to something that is gone
  GlobalCell,
  Wide,        \* how far apart an object and its base are together far
  Junk,        \* positions memory may hold before it is written
  Alike,       \* pairs of places that isApprox takes for the same
  Distances,   \* the stream distances scripts give to each object
  Calls        \* the natives that are called for each object

ASSUME IdsAssumption == Ids \subseteq Nat \ {0} /\ Anchors \cap Int = {}
ASSUME SpaceAssumption ==
  /\ Places \subseteq Int /\ \A x, y \in Places : x .. y \subseteq Places
  /\ Stops \subseteq Places /\ Roads \subseteq Places /\ Wide \in Nat
  /\ Junk \subseteq Places \cup {Nowhere} /\ Junk # {}
ASSUME AlikeAssumption ==
  /\ Alike \subseteq Places \X Places /\ \A x \in Places : <<x, x>> \in Alike
  /\ \A x, y \in Places : <<x, y>> \in Alike => <<y, x>> \in Alike
ASSUME DistancesAssumption == \A o \in Ids : Distances[o] \subseteq {"near", "far"}
ASSUME NamesAssumption ==
  /\ None \notin Int /\ Lost \notin Int /\ Nowhere \notin Int /\ GlobalCell \notin Int
  /\ None \notin Anchors /\ Lost \notin Anchors /\ Lost # None /\ GlobalCell # Nowhere
ASSUME RecordsAssumption ==
  /\ None \notin [from : Places, to : Places, gone : Nat, len : Nat]
  /\ None \notin [to : Ids \cup Anchors \cup {Lost}, at : Places \cup {Nowhere}]

VARIABLES
  item,        \* core->getData()->objects
  moving,      \* movingObjects, those that exist
  attached,    \* attachedObjects
  anchors,     \* where the players and vehicles are that exist
  client,      \* what each copy on the client was last told (internalObjects)
  arrived,     \* objectMoveCallbacks
  adrift,      \* objects that a call changed without the copy being told
  mistaken     \* attached objects whose base was taken for being where it, or junk, was

historyVars == <<adrift, mistaken>>
vars == <<item, moving, attached, anchors, client, arrived, historyVars>>

Exists(o) == o \in DOMAIN item
OnClient  == DOMAIN client
Gap(x, y) == IF x < y THEN y - x ELSE x - y
Without(f, i) == [j \in DOMAIN f \ {i} |-> f[j]]
With(f, i, v) == [j \in DOMAIN f \cup {i} |-> IF j = i THEN v ELSE f[j]]

-----------------------------------------------------------------------------
(* The grid.                                                               *)

(* Mutant: an attached object is filed where it would be by itself.        *)
Filed_Itself(r) ==
  [r EXCEPT !.cell = IF r.dist = "far" THEN GlobalCell ELSE r.place]

(* removeObject with reassign, addObject.                                  *)
Filed(r) ==
  [r EXCEPT !.cell = IF r.dist = "far" THEN GlobalCell
                     ELSE IF r.attach # None THEN r.attach.at ELSE r.place]

(* Only what has a cell is filed again.                                    *)
Refiled(r) == IF r.cell = GlobalCell THEN r ELSE Filed(r)

-----------------------------------------------------------------------------
(* What a copy is told.  Calls for players and vehicles that do not exist  *)
(* return before they reach the client, and so tell it nothing; a copy     *)
(* that was told nothing since it was made is still.                       *)

Still        == [does |-> "still", to |-> None]
MovesTo(x)   == [does |-> "moving", to |-> x]
IsAt(b)      == [does |-> "attached", to |-> b]

(* What a copy can be attached to.                                         *)
Holds(b) == b \in OnClient \cup DOMAIN anchors

(* Mutant: a copy that is made later does not move.                        *)
Made_Still(r) ==
  IF r.attach # None /\ Holds(r.attach.to) THEN IsAt(r.attach.to) ELSE Still

(* A copy that is made, or made anew: it is attached, if its base is there,*)
(* or else moves.                                                          *)
Made(r) ==
  IF r.attach = None THEN IF r.move = None THEN Still ELSE MovesTo(r.move.to)
  ELSE IF Holds(r.attach.to) THEN IsAt(r.attach.to) ELSE Still

(* Whether a copy does otherwise than its object r when it was told c.     *)
Astray(r, c) ==
  \/ r.attach # None /\ r.attach.to \in Anchors /\ c # IsAt(r.attach.to)
  \/ c.does = "attached" /\ (r.attach = None \/ c.to # r.attach.to)
  \/ c.does = "moving" /\ r.move = None /\ c.to # r.place

(* The copies when that of o is gone: what was attached to it hangs loose. *)
WithoutCopy(o) ==
  [j \in OnClient \ {o} |-> IF client[j] = IsAt(o) THEN Still ELSE client[j]]

(* The copy of o, if there is one, is told what to do.                     *)
Tell(o, doing) ==
  /\ client' = IF o \in OnClient THEN [client EXCEPT ![o] = doing] ELSE client
  /\ adrift' = adrift \ {o}

(* It is told nothing, though its object is r from now on.                 *)
Silence(o, r) ==
  /\ client' = client
  /\ adrift' = IF o \in OnClient /\ Astray(r, client[o]) THEN adrift \cup {o} ELSE adrift \ {o}

(* The objects adrift when o gets a copy as r: with a player or vehicle for*)
(* its base that does not exist, it is not attached, also not later.       *)
AdriftOnceMade(o, r) ==
  IF r.attach # None /\ r.attach.to \in Anchors \ DOMAIN anchors
  THEN adrift \cup {o} ELSE adrift \ {o}

(* The copy of o is destroyed and made anew, with r for its data.          *)
Renew(o, r) ==
  IF o \in OnClient
  THEN client' = With(WithoutCopy(o), o, Made(r)) /\ adrift' = AdriftOnceMade(o, r)
  ELSE UNCHANGED <<client, adrift>>

(* The client gets an object: one whose base it does not have has to wait, *)
(* but for players and vehicles.                                           *)
StreamIn(o) ==
  /\ Exists(o) /\ o \notin OnClient
  /\ item[o].attach # None => item[o].attach.to \in OnClient \cup Anchors
  /\ client' = With(client, o, Made(item[o]))
  /\ adrift' = AdriftOnceMade(o, item[o])
  /\ UNCHANGED <<item, moving, attached, anchors, arrived, mistaken>>

StreamOut(o) ==
  /\ o \in OnClient
  /\ client' = WithoutCopy(o)
  /\ adrift' = adrift \ {o}
  /\ UNCHANGED <<item, moving, attached, anchors, arrived, mistaken>>

-----------------------------------------------------------------------------
(* Processing of active items.                                             *)

(* Where one is, n places along the way.                                   *)
Along(m, n) == IF m.from < m.to THEN m.from + n ELSE m.from - n

(* Whether a move is over.                                                 *)
Over(m) == m.gone >= m.len

(* Mutant: without a cell one does not arrive.                             *)
Advanced_InCell(r) ==
  IF r.move = None \/ r.cell = GlobalCell THEN r
  ELSE IF Over(r.move) THEN Refiled([r EXCEPT !.place = r.move.to, !.move = None])
  ELSE Refiled([r EXCEPT !.place = Along(r.move, r.move.gone)])

(* processMovingObjects, for one.                                          *)
Advanced(r) ==
  IF r.move = None THEN r
  ELSE IF Over(r.move) THEN Refiled([r EXCEPT !.place = r.move.to, !.move = None])
  ELSE Refiled([r EXCEPT !.place = Along(r.move, r.move.gone)])

Arriving == {o \in moving : item[o].move # None /\ Over(item[o].move)}

(* Where a base is; of an object it is its own position, even if it is     *)
(* attached itself.                                                        *)
BasePlace(objects, b) ==
  IF b \in DOMAIN objects THEN objects[b].place
  ELSE IF b \in DOMAIN anchors THEN anchors[b] ELSE Nowhere

(* processAttachedObjects, for one: it is refiled if its base is not about *)
(* where it was the last time; what is remembered is where it is now.      *)
Following(r, x) ==
  LET s == [r EXCEPT !.attach.at = x] IN
  IF x # Nowhere /\ <<x, r.attach.at>> \notin Alike THEN Refiled(s) ELSE s

Processed ==
  LET objects == [o \in DOMAIN item |-> IF o \in moving THEN Advanced(item[o]) ELSE item[o]] IN
  [o \in DOMAIN item |->
     IF o \in attached /\ item[o].attach # None
     THEN Following(objects[o], BasePlace(objects, item[o].attach.to)) ELSE objects[o]]

(* Attached objects that are taken to be where they were filed: the base   *)
(* has moved too little since the last time, or seems to.                  *)
Overlooked ==
  {o \in attached :
     LET at == Processed[o].attach.at IN
     <<at, item[o].attach.at>> \in Alike /\ (o \in mistaken \/ at # item[o].attach.at)}

(* On ticks, by Streamer_ProcessActiveItems and by natives that ask for    *)
(* the position of a moving object.  Copies that move get there by         *)
(* themselves.                                                             *)
ProcessActiveItems ==
  /\ UNCHANGED <<attached, anchors, client, adrift>>
  /\ moving'  = moving \ Arriving
  /\ arrived' = arrived \cup Arriving
  /\ item'    = Processed
  /\ mistaken' = Overlooked

(* OnDynamicObjectMoved is called for what has arrived and exists.         *)
ExecuteCallbacks ==
  /\ arrived # {} /\ arrived' = {}
  /\ UNCHANGED <<item, moving, attached, anchors, client, historyVars>>

(* Time passes.                                                            *)
Elapse ==
  /\ \E o \in DOMAIN item : item[o].move # None /\ ~Over(item[o].move)
  /\ item' = [o \in DOMAIN item |->
                IF item[o].move # None /\ ~Over(item[o].move)
                THEN [item[o] EXCEPT !.move.gone = @ + 1] ELSE item[o]]
  /\ UNCHANGED <<moving, attached, anchors, client, arrived, historyVars>>

(* A player or vehicle appears, moves or disappears.                       *)
AnchorMoves(a, x) ==
  /\ anchors' = IF x = Nowhere THEN Without(anchors, a) ELSE With(anchors, a, x)
  /\ anchors' # anchors
  /\ UNCHANGED <<item, moving, attached, client, arrived, historyVars>>

-----------------------------------------------------------------------------
(* Objects come, go and are put elsewhere.                                 *)

CreateDynamicObject(o, x, dist) ==
  /\ ~Exists(o) /\ \A j \in Ids : j < o => Exists(j)
  /\ item' = With(item, o, Filed([place |-> x, dist |-> dist, orig |-> "none", cell |-> GlobalCell,
                                  move |-> None, attach |-> None]))
  /\ UNCHANGED <<moving, attached, anchors, client, arrived, historyVars>>

(* destroyObject.  What is in movingObjects without a move stays there; as *)
(* it is passed over for ever, it does not count.                          *)
DestroyDynamicObject(o) ==
  /\ "destroy" \in Calls[o] /\ Exists(o)
  /\ item' = Without(item, o)
  /\ moving' = moving \ {o} /\ attached' = attached \ {o}
  /\ client' = WithoutCopy(o)
  /\ adrift' = adrift \ {o} /\ mistaken' = mistaken \ {o}
  /\ UNCHANGED <<anchors, arrived>>

(* Mutant: the rest of the move takes as long as all of it.                *)
Redirected_Long(r, x) ==
  IF r.move = None THEN r
  ELSE [r EXCEPT !.move = [from |-> x, to |-> r.move.to, gone |-> 0, len |-> r.move.len]]

(* What is left of a move when its object is put to x.                     *)
Redirected(r, x) ==
  IF r.move = None THEN r
  ELSE [r EXCEPT !.move = [from |-> x, to |-> r.move.to, gone |-> 0, len |-> Gap(x, r.move.to)]]

(* SetDynamicObjectPos and Streamer_SetItemPos.  The copy is put there too,*)
(* but not stopped if it has yet to arrive from an earlier move.           *)
SetDynamicObjectPos(o, x) ==
  /\ "setPos" \in Calls[o] /\ Exists(o)
  /\ LET r == [item[o] EXCEPT !.place = x] IN
     item' = [item EXCEPT ![o] = Redirected(IF x = item[o].place THEN r ELSE Refiled(r), x)]
  /\ Silence(o, item'[o])
  /\ UNCHANGED <<moving, attached, anchors, arrived, mistaken>>

(* setObjectPos of the component interface: a move goes on as before, and  *)
(* what has no cell is filed again too.                                    *)
SetPosByComponent(o, x) ==
  /\ "componentMove" \in Calls[o] /\ Exists(o)
  /\ item' = [item EXCEPT ![o] = Filed([@ EXCEPT !.place = x])]
  /\ Silence(o, item'[o])
  /\ UNCHANGED <<moving, attached, anchors, arrived, mistaken>>

-----------------------------------------------------------------------------
(* Moves.                                                                  *)

(* An object on its way, and its copies.                                   *)
SetOff(o, x) ==
  /\ item' = [item EXCEPT ![o].move = [from |-> item[o].place, to |-> x, gone |-> 0,
                                       len |-> Gap(item[o].place, x)]]
  /\ Tell(o, MovesTo(x))
  /\ moving' = moving \cup {o}
  /\ UNCHANGED <<attached, anchors, arrived, mistaken>>

(* A move that would take no time is not made, nor one that is going on    *)
(* continued; the client is not told.                                      *)
MoveDynamicObject(o, x) ==
  /\ "move" \in Calls[o] /\ Exists(o) /\ item[o].attach = None
  /\ IF Gap(item[o].place, x) > 0 THEN SetOff(o, x)
     ELSE /\ item' = [item EXCEPT ![o].move = None]
          /\ Silence(o, item'[o])
          /\ UNCHANGED <<moving, attached, anchors, arrived, mistaken>>

(* moveObject of the component interface moves in no time as well.         *)
MoveByComponent(o, x) ==
  /\ "componentMove" \in Calls[o] /\ Exists(o) /\ item[o].attach = None
  /\ SetOff(o, x)

StopDynamicObject(o) ==
  /\ "stop" \in Calls[o] /\ Exists(o) /\ item[o].move # None
  /\ item' = [item EXCEPT ![o].move = None]
  /\ moving' = moving \ {o}
  /\ Tell(o, Still)
  /\ UNCHANGED <<attached, anchors, arrived, mistaken>>

-----------------------------------------------------------------------------
(* Attachments.                                                            *)

(* Whether going up from b one meets o, or never an end.                   *)
Above(o, b) ==
  LET up[n \in 0 .. Cardinality(Ids)] ==
        IF n = 0 THEN b
        ELSE LET c == up[n - 1] IN
             IF c \in DOMAIN item /\ item[c].attach # None THEN item[c].attach.to ELSE None
  IN  \/ \E n \in DOMAIN up : up[n] = o
      \/ up[Cardinality(Ids)] \in DOMAIN item

(* A new attachment; at is what its memory held.                           *)
Attached(r, b, at) == [r EXCEPT !.attach = [to |-> b, at |-> at]]

(* Whether memory held a position.                                         *)
Mistaken(o, at) == IF at = Nowhere THEN mistaken \ {o} ELSE mistaken \cup {o}

(* The stream distance of o when it is attached to b.                      *)
Widened(r, b) ==
  IF b \notin DOMAIN item THEN r
  ELSE [r EXCEPT !.orig = r.dist,
                 !.dist = IF item[b].dist = "far" \/ Gap(r.place, item[b].place) >= Wide
                          THEN "far" ELSE "near"]

(* AttachDynamicObjectToObject, unless that would make a circle.           *)
AttachDynamicObjectToObject(o, b, at) ==
  /\ "attach" \in Calls[o] /\ Exists(o) /\ item[o].move = None /\ ~Above(o, b)
  /\ item' = [item EXCEPT ![o] = Widened(Attached(@, b, at), b)]
  /\ attached' = attached \cup {o}
  /\ IF b \in OnClient THEN Tell(o, IsAt(b)) ELSE Silence(o, item'[o])
  /\ mistaken' = Mistaken(o, at)
  /\ UNCHANGED <<moving, anchors, arrived>>

(* AttachDynamicObjectToPlayer, AttachDynamicObjectToVehicle: neither looks*)
(* whether there is one.                                                   *)
AttachDynamicObjectToAnchor(o, a, at) ==
  /\ "attach" \in Calls[o] /\ Exists(o) /\ item[o].move = None
  /\ item' = [item EXCEPT ![o] = Attached(@, a, at)]
  /\ attached' = attached \cup {o}
  /\ IF a \in DOMAIN anchors THEN Tell(o, IsAt(a)) ELSE Silence(o, item'[o])
  /\ mistaken' = Mistaken(o, at)
  /\ UNCHANGED <<moving, anchors, arrived>>

(* Mutant: the object stays among the attached ones.                       *)
Detached_Kept(o, r) ==
  /\ item' = [item EXCEPT ![o] = Filed([r EXCEPT !.attach = None])]
  /\ mistaken' = mistaken \ {o}
  /\ UNCHANGED attached

(* An object by itself again.                                              *)
Detached(o, r) ==
  /\ item' = [item EXCEPT ![o] = Filed([r EXCEPT !.attach = None])]
  /\ mistaken' = mistaken \ {o}
  /\ attached' = attached \ {o}

(* The first native with no object as base; it restores the distance and   *)
(* tells the client nothing.                                               *)
DetachFromObject(o) ==
  /\ "detach" \in Calls[o] /\ Exists(o) /\ item[o].move = None
  /\ LET r == item[o] IN Detached(o, IF r.orig = "none" THEN r ELSE [r EXCEPT !.dist = r.orig])
  /\ Silence(o, item'[o])
  /\ UNCHANGED <<moving, anchors, arrived>>

(* AttachDynamicObjectToVehicle with no vehicle, which leaves the distance;*)
(* for no vehicle the client is told nothing either.  The native for       *)
(* players rejects the id for none.                                        *)
DetachFromAnchor(o) ==
  /\ "detach" \in Calls[o] /\ Exists(o) /\ item[o].move = None
  /\ Detached(o, item[o])
  /\ Silence(o, item'[o])
  /\ UNCHANGED <<moving, anchors, arrived>>

(* attachObjectToObject, -Player and -Vehicle of the component interface   *)
(* write the offset into the position, say nothing to the client, and name *)
(* as base, where it is not an object, one that does not exist.            *)
AttachByComponent(o, b, at) ==
  /\ "componentAttach" \in Calls[o] /\ Exists(o) /\ item[o].move = None /\ b \in DOMAIN item \cup Anchors
  /\ LET to == IF b \in Anchors THEN Lost ELSE b IN
     /\ item' = [item EXCEPT ![o] = Attached(@, to, at)]
     /\ mistaken' = Mistaken(o, at)
  /\ attached' = attached \cup {o}
  /\ Silence(o, item'[o])
  /\ UNCHANGED <<moving, anchors, arrived>>

-----------------------------------------------------------------------------
(* Data of items.                                                          *)

(* AttachedObject, AttachedPlayer and AttachedVehicle: circles are not     *)
(* looked for, and the copy is made anew.                                  *)
SetAttachedData(o, b, at) ==
  /\ "data" \in Calls[o] /\ Exists(o) /\ item[o].move = None
  /\ item' = [item EXCEPT ![o] = Attached(@, b, at)]
  /\ attached' = attached \cup {o}
  /\ Renew(o, item'[o])
  /\ mistaken' = Mistaken(o, at)
  /\ UNCHANGED <<moving, anchors, arrived>>

(* The same with no base, when there is one of that sort.                  *)
UnsetAttachedData(o) ==
  /\ "data" \in Calls[o] /\ Exists(o) /\ item[o].attach # None
  /\ Detached(o, item[o])
  /\ Renew(o, item'[o])
  /\ UNCHANGED <<moving, anchors, arrived>>

(* X.                                                                      *)
SetCoordinate(o, x) ==
  /\ "data" \in Calls[o] /\ Exists(o) /\ item[o].move = None
  /\ item' = [item EXCEPT ![o] = Refiled([@ EXCEPT !.place = x])]
  /\ Renew(o, item'[o])
  /\ UNCHANGED <<moving, attached, anchors, arrived, mistaken>>

(* ModelId, Z and others, for which the copy is made anew.                 *)
SetLooks(o) ==
  /\ "data" \in Calls[o] /\ Exists(o)
  /\ Renew(o, item[o])
  /\ UNCHANGED <<item, moving, attached, anchors, arrived, mistaken>>

SetStreamDistance(o, dist) ==
  /\ "distance" \in Calls[o] /\ Exists(o)
  /\ item' = [item EXCEPT ![o] = Filed([@ EXCEPT !.dist = dist])]
  /\ UNCHANGED <<moving, attached, anchors, client, arrived, historyVars>>

-----------------------------------------------------------------------------
Init ==
  /\ item = [o \in {} |-> 0] /\ moving = {} /\ attached = {}
  /\ anchors = [a \in {} |-> 0] /\ client = [o \in {} |-> 0]
  /\ arrived = {} /\ adrift = {} /\ mistaken = {}

Server == ProcessActiveItems \/ ExecuteCallbacks \/ Elapse

World == \E a \in Anchors, x \in Roads \cup {Nowhere} : AnchorMoves(a, x)

Script(o) ==
  \/ \E x \in Stops, dist \in Distances[o] : CreateDynamicObject(o, x, dist)
  \/ DestroyDynamicObject(o) \/ StopDynamicObject(o)
  \/ DetachFromObject(o) \/ DetachFromAnchor(o) \/ UnsetAttachedData(o) \/ SetLooks(o)
  \/ \E x \in Stops : SetDynamicObjectPos(o, x) \/ SetPosByComponent(o, x) \/ SetCoordinate(o, x)
  \/ \E x \in Stops : MoveDynamicObject(o, x) \/ MoveByComponent(o, x)
  \/ \E dist \in Distances[o] : SetStreamDistance(o, dist)
  \/ \E at \in Junk :
       \/ \E b \in Ids : AttachDynamicObjectToObject(o, b, at)
       \/ \E a \in Anchors : AttachDynamicObjectToAnchor(o, a, at)
       \/ \E b \in Ids \cup Anchors : AttachByComponent(o, b, at) \/ SetAttachedData(o, b, at)

Next == Server \/ World \/ \E o \in Ids : StreamIn(o) \/ StreamOut(o) \/ Script(o)

(* Ticks and time do not stop as long as there is something they change.   *)
Fairness == WF_vars(Server)

Spec == Init /\ [][Next]_vars
FairSpec == Spec /\ Fairness

-----------------------------------------------------------------------------
(* Properties.                                                             *)

Moves == [from : Places, to : Places, gone : Nat, len : Nat]
Attachments == [to : Ids \cup Anchors \cup {Lost}, at : Places \cup {Nowhere}]
Objects == [place : Places, dist : {"near", "far"}, orig : {"none", "near", "far"},
            cell : Places \cup {Nowhere, GlobalCell},
            move : Moves \cup {None}, attach : Attachments \cup {None}]

(* Every variable keeps its type: a moving object, in particular, is at a  *)
(* place, even when redirected or out of step with its copy.               *)
TypeOK ==
  /\ DOMAIN item \subseteq Ids /\ \A o \in DOMAIN item : item[o] \in Objects
  /\ moving \subseteq Ids /\ attached \subseteq Ids /\ arrived \subseteq Ids
  /\ DOMAIN anchors \subseteq Anchors /\ \A a \in DOMAIN anchors : anchors[a] \in Places
  /\ \A o \in OnClient : client[o].does \in {"still", "moving", "attached"}
  /\ adrift \subseteq Ids /\ mistaken \subseteq Ids

(* What moves or is attached is processed, and nothing does both; only     *)
(* what exists is on the client.  No path forgets an object in one of the  *)
(* two sets that ticks go through, or leaves it out.                       *)
MembersAreExact ==
  /\ attached = {o \in DOMAIN item : item[o].attach # None}
  /\ OnClient \subseteq DOMAIN item
  /\ \A o \in DOMAIN item : item[o].move # None => o \in moving /\ item[o].attach = None

(* The copy on the client was last told to move to where the object is     *)
(* going, however it came by it.  Nor does it do otherwise than an object  *)
(* that stands or is attached: it has the player or vehicle for its base   *)
(* that the object has, no base that the object does not have, and no      *)
(* place to go to other than the object's.  This is so until a call that   *)
(* does not reach the client changes the object, or a copy is made for a   *)
(* base that does not exist, and again from the next call that does.       *)
ClientFollows ==
  \A o \in OnClient :
    /\ item[o].move # None => client[o] = MovesTo(item[o].move.to)
    /\ o \in adrift \/ ~Astray(item[o], client[o])

(* Once active items are processed, what has a cell is in that of the      *)
(* place where it is, or where its base is, so that players there find it; *)
(* if there is a base, which is not attached itself and was not overlooked *)
(* when it moved: by little at a time, or to where memory had it before    *)
(* its position was known.                                                 *)
CellFollows ==
  [][ProcessActiveItems =>
       \A o \in DOMAIN item' \ mistaken' :
         LET r == item'[o] IN
         \/ r.cell = GlobalCell
         \/ r.dist = "near" /\ r.cell = IF r.attach = None THEN r.place ELSE BasePlace(item', r.attach.to)
         \/ r.attach # None /\ \/ BasePlace(item', r.attach.to) = Nowhere
                               \/ r.attach.to \in attached]_vars

(* When scripts leave it at that, every object arrives and its callback is *)
(* called, also when moves have been redirected or objects put elsewhere   *)
(* on the way.                                                             *)
MovesEnd ==
  <>[][Server]_vars => <>[](arrived = {} /\ \A o \in DOMAIN item : item[o].move = None)

=============================================================================
