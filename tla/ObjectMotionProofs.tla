---------------------------- MODULE ObjectMotionProofs ----------------------------
(***************************************************************************)
(* Theorems about ObjectMotion, for any number of objects, players and     *)
(* vehicles, any line of places and any natives called.                    *)
(***************************************************************************)
EXTENDS ObjectMotion, TLAPS

(* A move takes as long as its way is.                                     *)
Measured(r) == r.move # None => r.move.len = Gap(r.move.from, r.move.to)

(* Objects whose moves are measured.                                       *)
Sane == {r \in Objects : Measured(r)}

(* s is r but for its cell.                                                *)
ButCell(r, s) ==
  /\ s \in Sane /\ s.place = r.place /\ s.dist = r.dist /\ s.orig = r.orig
  /\ s.move = r.move /\ s.attach = r.attach

(* s moves and is attached as r does and is.                               *)
SameMotion(r, s) ==
  /\ (s.move = None <=> r.move = None) /\ (r.move # None => s.move.to = r.move.to)
  /\ (s.attach = None <=> r.attach = None) /\ (r.attach # None => s.attach.to = r.attach.to)

-----------------------------------------------------------------------------
(* What the operators on one object return.                                *)

(* The fields of an object.                                                *)
LEMMA FieldTypes ==
  ASSUME NEW r \in Objects
  PROVE  /\ r.place \in Places /\ r.dist \in {"near", "far"} /\ r.orig \in {"none", "near", "far"}
         /\ r.cell \in Places \cup {Nowhere, GlobalCell}
         /\ r.move \in Moves \cup {None} /\ r.attach \in Attachments \cup {None}
  BY DEF Objects

(* Filing changes nothing but the cell.                                    *)
LEMMA FilingKeeps ==
  ASSUME NEW r \in Sane
  PROVE  ButCell(r, Filed(r)) /\ ButCell(r, Refiled(r))
  <1>1. ButCell(r, Filed(r))
    BY DEF Filed, Sane, Objects, Attachments, ButCell, Measured
  <1>2. ButCell(r, r)
    BY DEF Sane, ButCell
  <1> QED BY <1>1, <1>2 DEF Refiled

(* Where one is on the way is a place.                                     *)
LEMMA OnTheWay ==
  ASSUME NEW m \in Moves, ~Over(m), m.len = Gap(m.from, m.to)
  PROVE  Along(m, m.gone) \in Places
  <1> DEFINE x == m.from  y == m.to  n == m.gone
  <1>1. x \in Places /\ y \in Places /\ x \in Int /\ y \in Int /\ n \in Nat /\ m.len \in Nat
    BY SpaceAssumption DEF Moves
  <1>2. n < m.len
    BY <1>1 DEF Over
  <1>3. CASE x < y
    <2>1. x + n \in x .. y
      BY <1>1, <1>2, <1>3 DEF Gap
    <2> QED BY <2>1, <1>1, <1>3, SpaceAssumption DEF Along
  <1>4. CASE ~(x < y)
    <2>1. x - n \in y .. x
      BY <1>1, <1>2, <1>4 DEF Gap
    <2> QED BY <2>1, <1>1, <1>4, SpaceAssumption DEF Along
  <1> QED BY <1>3, <1>4

(* What time does to a moving object: it stays one until it arrives.       *)
LEMMA Advances ==
  ASSUME NEW r \in Sane
  PROVE  /\ Advanced(r) \in Sane /\ Advanced(r).attach = r.attach
         /\ r.move # None /\ ~Over(r.move) => Advanced(r).move = r.move
         /\ r.move = None \/ Over(r.move) => Advanced(r).move = None
         /\ r.move = None => Advanced(r).place = r.place
         /\ r.move # None /\ Over(r.move) => Advanced(r).place = r.move.to
  <1> r \in Objects /\ Measured(r)
    BY DEF Sane
  <1>1. CASE r.move = None
    BY <1>1 DEF Advanced
  <1>2. CASE r.move # None /\ Over(r.move)
    <2> DEFINE s == [r EXCEPT !.place = r.move.to, !.move = None]
    <2>1. r.move \in Moves
      BY <1>2, FieldTypes
    <2>2. s \in Sane /\ s.attach = r.attach /\ s.move = None /\ s.place = r.move.to
      BY <2>1 DEF Objects, Moves, Sane, Measured
    <2>3. Advanced(r) = Refiled(s)
      BY <1>2 DEF Advanced
    <2> QED BY <2>2, <2>3, FilingKeeps, <1>2 DEF ButCell
  <1>3. CASE r.move # None /\ ~Over(r.move)
    <2> DEFINE x == Along(r.move, r.move.gone)
               s == [r EXCEPT !.place = x]
    <2>1. r.move \in Moves
      BY <1>3, FieldTypes
    <2>2. x \in Places
      BY <2>1, <1>3, OnTheWay DEF Measured
    <2>3. s \in Sane /\ s.attach = r.attach /\ s.move = r.move /\ s.place = x
      BY <2>2 DEF Objects, Sane, Measured
    <2>4. Advanced(r) = Refiled(s)
      BY <1>3 DEF Advanced
    <2> QED BY <2>3, <2>4, FilingKeeps, <1>3 DEF ButCell
  <1> QED BY <1>1, <1>2, <1>3

(* A base is at a place or nowhere.                                        *)
LEMMA BaseIsSomewhere ==
  ASSUME TypeOK, NEW f, \A o \in DOMAIN f : f[o].place \in Places, NEW b
  PROVE  BasePlace(f, b) \in Places \cup {Nowhere}
  BY DEF BasePlace, TypeOK

(* What follows its base moves as before.                                  *)
LEMMA Follows ==
  ASSUME NEW r \in Sane, r.attach # None, NEW x \in Places \cup {Nowhere}
  PROVE  /\ Following(r, x) \in Sane /\ Following(r, x).move = r.move
         /\ Following(r, x).attach # None /\ Following(r, x).attach.to = r.attach.to
         /\ Following(r, x).place = r.place /\ Following(r, x).attach.at = x
  <1> DEFINE s == [r EXCEPT !.attach.at = x]
  <1>1. r \in Objects /\ r.attach \in Attachments /\ Measured(r)
    BY FieldTypes DEF Sane
  <1>2. /\ s.attach \in Attachments /\ s.attach.to = r.attach.to /\ s.attach.at = x
        /\ s.move = r.move /\ s.place = r.place
    BY <1>1 DEF Objects, Attachments
  <1>3. s \in Sane
    BY <1>1, <1>2 DEF Objects, Sane, Measured
  <1>4. s.attach # None
    BY <1>2, RecordsAssumption DEF Attachments
  <1>5. Following(r, x) = s \/ Following(r, x) = Refiled(s)
    BY DEF Following
  <1> QED BY <1>2, <1>3, <1>4, <1>5, FilingKeeps DEF ButCell

-----------------------------------------------------------------------------
(* Types.                                                                  *)

TypeInv == TypeOK /\ \A o \in DOMAIN item : Measured(item[o])

(* It is enough to look at the objects of the next state.                  *)
ItemsSane == DOMAIN item \subseteq Ids /\ \A o \in DOMAIN item : item[o] \in Sane

LEMMA SaneItems == TypeInv => ItemsSane
  BY DEF TypeInv, TypeOK, ItemsSane, Sane

(* Where processing takes the objects.                                     *)
LEMMA ProcessedItems ==
  ASSUME TypeInv, NEW o \in DOMAIN item
  PROVE  /\ DOMAIN Processed = DOMAIN item
         /\ Processed[o] \in Sane
         /\ Processed[o].attach = None <=> item[o].attach = None
         /\ item[o].attach # None => Processed[o].attach.to = item[o].attach.to
         /\ o \notin Arriving => Processed[o].move = item[o].move
         /\ o \in Arriving => Processed[o].move = None /\ Processed[o].place = item[o].move.to
         /\ item[o].move = None => Processed[o].place = item[o].place
  <1> DEFINE objects == [j \in DOMAIN item |-> IF j \in moving THEN Advanced(item[j]) ELSE item[j]]
             x == BasePlace(objects, item[o].attach.to)
  <1>1. \A j \in DOMAIN item : item[j] \in Sane
    BY SaneItems DEF ItemsSane
  <1>2. \A j \in DOMAIN item : /\ objects[j] \in Sane /\ objects[j].attach = item[j].attach
                               /\ objects[j].place \in Places
    BY <1>1, Advances, FieldTypes DEF Sane
  <1>3. /\ o \notin Arriving => objects[o].move = item[o].move
        /\ o \in Arriving => objects[o].move = None /\ objects[o].place = item[o].move.to
        /\ item[o].move = None => objects[o].place = item[o].place
    BY <1>1, Advances DEF Arriving
  <1>4. x \in Places \cup {Nowhere}
    BY <1>2, BaseIsSomewhere DEF TypeInv
  <1>5. DOMAIN Processed = DOMAIN item
    BY DEF Processed
  <1>6. Processed[o] = IF o \in attached /\ item[o].attach # None THEN Following(objects[o], x) ELSE objects[o]
    BY DEF Processed
  <1>7. CASE o \in attached /\ item[o].attach # None
    BY <1>2, <1>3, <1>4, <1>5, <1>6, <1>7, Follows
  <1>8. CASE ~(o \in attached /\ item[o].attach # None)
    BY <1>2, <1>3, <1>5, <1>6, <1>8
  <1> QED BY <1>7, <1>8

-----------------------------------------------------------------------------
(* The invariant, and what keeps it.                                       *)

Doing == {"still", "moving", "attached"}

(* What a copy that was told c has to do for an object r; ab: the object is*)
(* adrift.                                                                 *)
FollowsAs(r, c, ab) ==
  /\ r.move # None => c = MovesTo(r.move.to)
  /\ ab \/ ~Astray(r, c)
  /\ c.does \in Doing

Inv == TypeInv /\ MembersAreExact /\ ClientFollows

(* The copies other than that of o are as before, but for those that were  *)
(* attached to it.                                                         *)
OthersStay(o) ==
  \A j \in OnClient' \ {o} :
    j \in OnClient /\ (client'[j] = client[j] \/ (client[j] = IsAt(o) /\ client'[j] = Still))

(* Each copy does as its object does.                                      *)
LEMMA EachFollows ==
  ASSUME Inv, NEW j \in OnClient
  PROVE  FollowsAs(item[j], client[j], j \in adrift)
  BY DEF Inv, TypeInv, TypeOK, ClientFollows, FollowsAs, Doing

(* To lose an object one is attached to is of no account to others.        *)
LEMMA LooseEnds ==
  ASSUME Inv, NEW o \in Ids, OthersStay(o), NEW j \in OnClient' \ {o}
  PROVE  j \in OnClient /\ FollowsAs(item[j], client'[j], j \in adrift)
  <1>1. j \in OnClient /\ FollowsAs(item[j], client[j], j \in adrift)
    BY EachFollows DEF OthersStay
  <1>2. CASE client'[j] = client[j]
    BY <1>1, <1>2
  <1>3. CASE client[j] = IsAt(o) /\ client'[j] = Still
    <2>1. client[j].does = "attached" /\ client[j].to = o /\ o \notin Anchors
      BY <1>3, IdsAssumption DEF IsAt
    <2>2. item[j].move = None
      BY <1>1, <2>1 DEF FollowsAs, MovesTo
    <2>3. Astray(item[j], Still) => Astray(item[j], client[j])
      BY <1>3, <2>1 DEF Astray, IsAt, Still
    <2> QED BY <1>1, <1>3, <2>2, <2>3 DEF FollowsAs, Still, Doing
  <1> QED BY <1>2, <1>3, <1>1 DEF OthersStay

(* What is left to show of a step that gives one object other data.        *)
LEMMA OneObject ==
  ASSUME Inv, NEW o \in DOMAIN item, NEW s \in Sane,
         item' = [item EXCEPT ![o] = s],
         attached' = IF s.attach = None THEN attached \ {o} ELSE attached \cup {o},
         s.move # None => o \in moving' /\ s.attach = None,
         moving' \ {o} = moving \ {o}, adrift' \ {o} = adrift \ {o},
         mistaken' \ {o} = mistaken \ {o}, UNCHANGED <<anchors, arrived>>,
         OnClient' \subseteq OnClient, OthersStay(o),
         o \in OnClient => FollowsAs(s, client'[o], o \in adrift')
  PROVE  Inv'
  <1> o \in Ids /\ DOMAIN item' = DOMAIN item /\ OnClient \subseteq DOMAIN item
    BY DEF Inv, TypeInv, TypeOK, MembersAreExact
  <1>1. \A j \in DOMAIN item : j # o => item'[j] = item[j]
    OBVIOUS
  <1>2. item'[o] = s
    OBVIOUS
  <1>3. \A j \in DOMAIN item' : item'[j] \in Sane
    BY <1>1, <1>2, SaneItems DEF ItemsSane, Inv
  <1>4. \A j \in OnClient' : FollowsAs(item'[j], client'[j], j \in adrift')
    <2> SUFFICES ASSUME NEW j \in OnClient' PROVE FollowsAs(item'[j], client'[j], j \in adrift')
      OBVIOUS
    <2>1. CASE j = o
      BY <2>1, <1>2
    <2>2. CASE j # o
      <3>1. FollowsAs(item[j], client'[j], j \in adrift) /\ j \in OnClient
        BY <2>2, LooseEnds
      <3>2. (j \in adrift) <=> (j \in adrift')
        BY <2>2
      <3>3. item'[j] = item[j]
        BY <3>1, <2>2, <1>1
      <3> QED BY <3>1, <3>2, <3>3 DEF FollowsAs
    <2> QED BY <2>1, <2>2
  <1>5. ClientFollows'
    BY <1>4 DEF ClientFollows, FollowsAs
  <1>6. TypeInv'
    <2>1. moving' \subseteq Ids /\ attached' \subseteq Ids /\ adrift' \subseteq Ids /\ mistaken' \subseteq Ids
      BY DEF Inv, TypeInv, TypeOK
    <2>2. \A j \in OnClient' : client'[j].does \in Doing
      BY <1>4 DEF FollowsAs
    <2> QED BY <2>1, <2>2, <1>3 DEF Inv, TypeInv, TypeOK, Sane, Doing
  <1>7. MembersAreExact'
    BY <1>1, <1>2 DEF Inv, MembersAreExact
  <1> QED BY <1>5, <1>6, <1>7 DEF Inv

(* What is left to show of a step that only concerns copies.               *)
LEMMA CopiesOnly ==
  ASSUME Inv, NEW o \in DOMAIN item, OthersStay(o), OnClient' \subseteq DOMAIN item,
         UNCHANGED <<item, moving, attached, anchors, arrived, mistaken>>,
         adrift' \ {o} = adrift \ {o},
         o \in OnClient' => FollowsAs(item[o], client'[o], o \in adrift')
  PROVE  Inv'
  <1> o \in Ids
    BY DEF Inv, TypeInv, TypeOK
  <1>1. \A j \in OnClient' : FollowsAs(item[j], client'[j], j \in adrift')
    <2> SUFFICES ASSUME NEW j \in OnClient', j # o
                 PROVE  FollowsAs(item[j], client'[j], j \in adrift')
      OBVIOUS
    <2>1. FollowsAs(item[j], client'[j], j \in adrift)
      BY LooseEnds
    <2>2. (j \in adrift) <=> (j \in adrift')
      OBVIOUS
    <2> QED BY <2>1, <2>2 DEF FollowsAs
  <1>2. ClientFollows'
    BY <1>1 DEF ClientFollows, FollowsAs
  <1>3. TypeInv'
    <2>1. adrift' \subseteq Ids /\ \A j \in OnClient' : client'[j].does \in Doing
      BY <1>1 DEF Inv, TypeInv, TypeOK, FollowsAs
    <2> QED BY <2>1 DEF Inv, TypeInv, TypeOK, Doing
  <1>4. MembersAreExact'
    BY DEF Inv, MembersAreExact
  <1> QED BY <1>2, <1>3, <1>4 DEF Inv

(* What is made does as its object does, if it can.                        *)
LEMMA MadeFollows ==
  ASSUME NEW o, NEW r, r.move # None => r.attach = None, adrift' = AdriftOnceMade(o, r)
  PROVE  FollowsAs(r, Made(r), o \in adrift') /\ adrift' \ {o} = adrift \ {o}
  <1>1. CASE r.attach # None /\ r.attach.to \in Anchors \ DOMAIN anchors
    BY <1>1 DEF AdriftOnceMade, FollowsAs, Made, IsAt, Still, Doing
  <1>2. CASE ~(r.attach # None /\ r.attach.to \in Anchors \ DOMAIN anchors)
    <2>1. ~Astray(r, Made(r))
      BY <1>2 DEF Astray, Made, Holds, IsAt, Still, MovesTo
    <2> QED BY <1>2, <2>1 DEF AdriftOnceMade, FollowsAs, Made, IsAt, Still, MovesTo, Doing
  <1> QED BY <1>1, <1>2

(* The ways to change copies leave others alone.                           *)
LEMMA CopyGone ==
  ASSUME NEW o, client' = WithoutCopy(o)
  PROVE  OthersStay(o) /\ OnClient' = OnClient \ {o}
  BY DEF WithoutCopy, OthersStay, OnClient

LEMMA CopyTold ==
  ASSUME NEW o, NEW c, Tell(o, c)
  PROVE  /\ OthersStay(o) /\ OnClient' = OnClient /\ adrift' \ {o} = adrift \ {o}
         /\ o \in OnClient => client'[o] = c
  BY DEF Tell, OthersStay, OnClient

(* A copy that was told nothing does as its object does or is known not to.*)
LEMMA CopySilent ==
  ASSUME Inv, NEW o \in DOMAIN item, NEW r, Silence(o, r),
         r.move # None => item[o].move # None /\ r.move.to = item[o].move.to
  PROVE  /\ OthersStay(o) /\ OnClient' = OnClient /\ adrift' \ {o} = adrift \ {o}
         /\ o \in OnClient => FollowsAs(r, client'[o], o \in adrift')
  <1>1. /\ client' = client
        /\ adrift' = IF o \in OnClient /\ Astray(r, client[o]) THEN adrift \cup {o} ELSE adrift \ {o}
    BY DEF Silence
  <1>2. OthersStay(o) /\ OnClient' = OnClient
    BY <1>1 DEF OthersStay, OnClient
  <1>3. o \in OnClient => FollowsAs(r, client'[o], o \in adrift')
    BY <1>1, EachFollows DEF FollowsAs
  <1> QED BY <1>1, <1>2, <1>3

LEMMA CopyRenewed ==
  ASSUME NEW o, NEW r, Renew(o, r), r.move # None => r.attach = None
  PROVE  /\ OthersStay(o) /\ OnClient' = OnClient /\ adrift' \ {o} = adrift \ {o}
         /\ o \in OnClient => FollowsAs(r, client'[o], o \in adrift')
  <1>1. CASE o \in OnClient
    <2>1. client' = With(WithoutCopy(o), o, Made(r)) /\ adrift' = AdriftOnceMade(o, r)
      BY <1>1 DEF Renew
    <2>2. OthersStay(o) /\ OnClient' = OnClient /\ client'[o] = Made(r)
      BY <1>1, <2>1 DEF With, WithoutCopy, OthersStay, OnClient
    <2> QED BY <2>1, <2>2, MadeFollows
  <1>2. CASE o \notin OnClient
    BY <1>2 DEF Renew, OthersStay, OnClient
  <1> QED BY <1>1, <1>2

-----------------------------------------------------------------------------
(* Steps of the server and of the world.                                   *)

LEMMA InitKeeps == Init => Inv
  BY DEF Init, Inv, TypeInv, TypeOK, MembersAreExact, ClientFollows, OnClient

LEMMA ProcessKeeps == Inv /\ ProcessActiveItems => Inv'
  <1> SUFFICES ASSUME Inv, ProcessActiveItems PROVE Inv'
    OBVIOUS
  <1> USE DEF ProcessActiveItems
  <1> TypeInv /\ MembersAreExact
    BY DEF Inv
  <1>1. /\ DOMAIN item' = DOMAIN item /\ DOMAIN item \subseteq Ids
        /\ \A o \in DOMAIN item : item'[o] \in Sane
    BY ProcessedItems, SaneItems DEF Processed, ItemsSane
  <1>2. \A o \in OnClient : FollowsAs(item'[o], client'[o], o \in adrift) /\ OnClient' = OnClient
    <2> SUFFICES ASSUME NEW o \in OnClient
                 PROVE  FollowsAs(item'[o], client'[o], o \in adrift) /\ OnClient' = OnClient
      OBVIOUS
    <2>1. o \in DOMAIN item /\ FollowsAs(item[o], client[o], o \in adrift) /\ OnClient' = OnClient
      BY EachFollows DEF MembersAreExact, OnClient
    <2> USE <2>1
    <2>2. client'[o] = client[o] /\ client[o].does \in Doing
      BY <2>1 DEF FollowsAs
    <2>3. /\ item'[o].attach = None <=> item[o].attach = None
          /\ item[o].attach # None => item'[o].attach.to = item[o].attach.to
      BY <2>1, ProcessedItems
    <2>4. CASE o \in Arriving
      <3>1. item'[o].move = None /\ item'[o].place = item[o].move.to
        BY <2>1, <2>4, ProcessedItems
      <3>2. item[o].move # None /\ item[o].attach = None
        BY <2>1, <2>4 DEF Arriving, MembersAreExact
      <3>3. client[o] = MovesTo(item[o].move.to)
        BY <2>1, <3>2 DEF FollowsAs
      <3>4. ~Astray(item'[o], client[o])
        BY <2>3, <3>1, <3>2, <3>3 DEF Astray, MovesTo
      <3> QED BY <2>1, <2>2, <3>1, <3>4 DEF FollowsAs
    <2>5. CASE o \notin Arriving
      <3>1. item'[o].move = item[o].move /\ (item[o].move = None => item'[o].place = item[o].place)
        BY <2>1, <2>5, ProcessedItems
      <3>2. Astray(item'[o], client[o]) => Astray(item[o], client[o])
        BY <2>3, <3>1 DEF Astray
      <3> QED BY <2>1, <2>2, <3>1, <3>2 DEF FollowsAs
    <2> QED BY <2>4, <2>5
  <1>3. ClientFollows'
    <2>1. OnClient' = OnClient
      BY DEF OnClient
    <2>2. \A o \in OnClient' : FollowsAs(item'[o], client'[o], o \in adrift')
      BY <1>2, <2>1
    <2> QED BY <2>2 DEF ClientFollows, FollowsAs
  <1>4. MembersAreExact'
    <2>1. \A o \in DOMAIN item : item'[o].attach = None <=> item[o].attach = None
      BY ProcessedItems
    <2>2. \A o \in DOMAIN item : item'[o].move # None => o \notin Arriving /\ item[o].move # None
      BY ProcessedItems
    <2>3. OnClient' = OnClient
      BY DEF OnClient
    <2> QED BY <1>1, <2>1, <2>2, <2>3 DEF MembersAreExact
  <1>5. TypeInv'
    <2>1. \A o \in OnClient' : client'[o].does \in Doing
      BY <1>2 DEF FollowsAs, OnClient
    <2>2. mistaken' \subseteq Ids
      BY DEF Overlooked, TypeInv, TypeOK
    <2> QED BY <1>1, <2>1, <2>2 DEF TypeInv, TypeOK, Sane, Doing, Arriving
  <1> QED BY <1>3, <1>4, <1>5 DEF Inv

LEMMA ElapseKeeps == Inv /\ Elapse => Inv'
  <1> SUFFICES ASSUME Inv, Elapse PROVE Inv'
    OBVIOUS
  <1> USE DEF Elapse
  <1>1. \A o \in DOMAIN item :
          item'[o] \in Sane /\ SameMotion(item[o], item'[o]) /\ item'[o].place = item[o].place
    <2> SUFFICES ASSUME NEW o \in DOMAIN item
                 PROVE  item'[o] \in Sane /\ SameMotion(item[o], item'[o]) /\ item'[o].place = item[o].place
      OBVIOUS
    <2>1. item[o] \in Sane /\ item[o] \in Objects
      BY SaneItems DEF ItemsSane, Inv, Sane
    <2>2. CASE item[o].move # None /\ ~Over(item[o].move)
      <3> DEFINE s == [item[o] EXCEPT !.move.gone = @ + 1]
      <3>1. item[o].move \in Moves
        BY <2>1, <2>2, FieldTypes
      <3>2. /\ s.move \in Moves /\ s.move.to = item[o].move.to /\ s.move.from = item[o].move.from
            /\ s.move.len = item[o].move.len /\ s.attach = item[o].attach /\ s.place = item[o].place
        BY <2>1, <3>1 DEF Objects, Moves
      <3>3. s \in Objects
        BY <2>1, <3>2 DEF Objects
      <3>4. s.move # None
        BY <3>2, RecordsAssumption DEF Moves
      <3>5. item'[o] = s
        BY <2>2
      <3> QED BY <2>1, <2>2, <3>2, <3>3, <3>4, <3>5 DEF Sane, Measured, SameMotion
    <2>3. CASE ~(item[o].move # None /\ ~Over(item[o].move))
      BY <2>1, <2>3 DEF SameMotion
    <2> QED BY <2>2, <2>3
  <1>2. DOMAIN item' = DOMAIN item /\ OnClient' = OnClient /\ client' = client
    BY DEF OnClient
  <1>3. TypeInv'
    BY <1>1, <1>2 DEF Inv, TypeInv, TypeOK, Sane, historyVars
  <1>4. MembersAreExact'
    BY <1>1, <1>2 DEF Inv, MembersAreExact, SameMotion
  <1>5. ClientFollows'
    <2>1. adrift' = adrift
      BY DEF historyVars
    <2>2. ASSUME NEW o \in OnClient
          PROVE  FollowsAs(item'[o], client'[o], o \in adrift')
      <3>1. o \in DOMAIN item /\ FollowsAs(item[o], client[o], o \in adrift)
        BY EachFollows DEF Inv, MembersAreExact
      <3>2. SameMotion(item[o], item'[o]) /\ item'[o].place = item[o].place
        BY <1>1, <3>1
      <3>3. Astray(item'[o], client[o]) => Astray(item[o], client[o])
        BY <3>2 DEF Astray, SameMotion
      <3> QED BY <1>2, <2>1, <3>1, <3>2, <3>3 DEF FollowsAs, SameMotion
    <2> QED BY <1>2, <2>2 DEF ClientFollows, FollowsAs
  <1> QED BY <1>3, <1>4, <1>5 DEF Inv

LEMMA OtherServerKeeps ==
  ASSUME Inv, ExecuteCallbacks \/ World
  PROVE  Inv'
  <1>1. UNCHANGED <<item, moving, attached, client, historyVars>>
    BY DEF ExecuteCallbacks, World, AnchorMoves
  <1>2. arrived' \subseteq Ids
    BY DEF ExecuteCallbacks, World, AnchorMoves, Inv, TypeInv, TypeOK
  <1>3. DOMAIN anchors' \subseteq Anchors /\ \A a \in DOMAIN anchors' : anchors'[a] \in Places
    BY SpaceAssumption DEF ExecuteCallbacks, World, AnchorMoves, Inv, TypeInv, TypeOK, With, Without
  <1>4. TypeInv'
    BY <1>1, <1>2, <1>3 DEF Inv, TypeInv, TypeOK, OnClient, historyVars
  <1>5. MembersAreExact' /\ ClientFollows'
    BY <1>1 DEF Inv, MembersAreExact, ClientFollows, OnClient, historyVars
  <1> QED BY <1>4, <1>5 DEF Inv

LEMMA StreamingKeeps ==
  ASSUME Inv, NEW o \in Ids, StreamIn(o) \/ StreamOut(o)
  PROVE  Inv'
  <1> \A j \in DOMAIN item : item[j].move # None => item[j].attach = None
    BY DEF Inv, MembersAreExact
  <1> OnClient \subseteq DOMAIN item
    BY DEF Inv, MembersAreExact
  <1>1. CASE StreamIn(o)
    <2> USE <1>1 DEF StreamIn, Exists
    <2>1. OnClient' = OnClient \cup {o} /\ client'[o] = Made(item[o]) /\ OthersStay(o)
      <3>1. client' = With(client, o, Made(item[o])) /\ o \notin OnClient
        OBVIOUS
      <3>2. OnClient' = OnClient \cup {o} /\ client'[o] = Made(item[o])
        BY <3>1 DEF With, OnClient
      <3>3. \A j \in OnClient' \ {o} : j \in OnClient /\ client'[j] = client[j]
        BY <3>1 DEF With, OnClient
      <3> QED BY <3>2, <3>3 DEF OthersStay
    <2>2. FollowsAs(item[o], client'[o], o \in adrift') /\ adrift' \ {o} = adrift \ {o}
      BY <2>1, MadeFollows
    <2> QED BY <2>1, <2>2, CopiesOnly
  <1>2. CASE StreamOut(o)
    <2> USE <1>2 DEF StreamOut
    <2>1. OnClient' = OnClient \ {o} /\ OthersStay(o)
      BY CopyGone
    <2> QED BY <2>1, CopiesOnly
  <1> QED BY <1>1, <1>2

-----------------------------------------------------------------------------
(* Natives.                                                                *)

(* What is known of an object there is.                                    *)
LEMMA OneKnown ==
  ASSUME Inv, NEW o \in DOMAIN item
  PROVE  /\ o \in Ids /\ item[o] \in Sane /\ item[o] \in Objects
         /\ item[o].move # None => item[o].attach = None /\ o \in moving
         /\ item[o].attach # None <=> o \in attached
         /\ moving \subseteq Ids
         /\ o \in OnClient => FollowsAs(item[o], client[o], o \in adrift)
  BY SaneItems, EachFollows DEF Inv, TypeInv, TypeOK, MembersAreExact, ItemsSane, Sane

LEMMA CreationKeeps ==
  ASSUME Inv, NEW o \in Ids, NEW x \in Stops, NEW dist \in Distances[o], CreateDynamicObject(o, x, dist)
  PROVE  Inv'
  <1> USE DEF CreateDynamicObject, Exists
  <1> DEFINE r == [place |-> x, dist |-> dist, orig |-> "none", cell |-> GlobalCell,
                   move |-> None, attach |-> None]
  <1>1. r \in Sane
    BY SpaceAssumption, DistancesAssumption DEF Sane, Measured, Objects
  <1>2. Filed(r) \in Sane /\ Filed(r).move = None /\ Filed(r).attach = None
    BY <1>1, FilingKeeps DEF ButCell
  <1>3. /\ DOMAIN item' = DOMAIN item \cup {o} /\ item'[o] = Filed(r)
        /\ \A j \in DOMAIN item : item'[j] = item[j]
    BY DEF With
  <1>4. \A j \in DOMAIN item' : item'[j] \in Sane
    BY <1>2, <1>3, SaneItems DEF Inv, ItemsSane
  <1>5. TypeInv'
    BY <1>3, <1>4 DEF Inv, TypeInv, TypeOK, Sane, historyVars, OnClient
  <1>6. MembersAreExact'
    BY <1>2, <1>3 DEF Inv, MembersAreExact, OnClient
  <1>7. ClientFollows'
    <2>1. \A j \in OnClient : j \in DOMAIN item
      BY DEF Inv, MembersAreExact
    <2> QED BY <1>3, <2>1 DEF Inv, ClientFollows, OnClient, historyVars
  <1> QED BY <1>5, <1>6, <1>7 DEF Inv

LEMMA DestructionKeeps ==
  ASSUME Inv, NEW o \in Ids, DestroyDynamicObject(o)
  PROVE  Inv'
  <1> USE DEF DestroyDynamicObject, Exists
  <1>1. DOMAIN item' = DOMAIN item \ {o} /\ \A j \in DOMAIN item' : item'[j] = item[j]
    BY DEF Without
  <1>2. OthersStay(o) /\ OnClient' = OnClient \ {o}
    BY CopyGone
  <1>3. \A j \in OnClient' : FollowsAs(item[j], client'[j], j \in adrift)
    BY <1>2, LooseEnds
  <1>4. \A j \in OnClient' : j \in DOMAIN item' /\ (j \in adrift' <=> j \in adrift)
    BY <1>1, <1>2 DEF Inv, MembersAreExact
  <1>5. ClientFollows'
    BY <1>1, <1>3, <1>4 DEF ClientFollows, FollowsAs
  <1>6. TypeInv'
    <2>1. \A j \in OnClient' : client'[j].does \in Doing
      BY <1>3 DEF FollowsAs
    <2> QED BY <1>1, <2>1 DEF Inv, TypeInv, TypeOK, Doing
  <1>7. MembersAreExact'
    BY <1>1, <1>4 DEF Inv, MembersAreExact
  <1> QED BY <1>5, <1>6, <1>7 DEF Inv

(* A step that leaves the motion of an object as it is.                    *)
LEMMA SameMotionKeeps ==
  ASSUME Inv, NEW o \in DOMAIN item, NEW s \in Sane, SameMotion(item[o], s),
         item' = [item EXCEPT ![o] = s],
         UNCHANGED <<moving, attached, anchors, arrived, mistaken>>,
         OthersStay(o), OnClient' = OnClient, adrift' \ {o} = adrift \ {o},
         o \in OnClient => FollowsAs(s, client'[o], o \in adrift')
  PROVE  Inv'
  <1>1. attached' = IF s.attach = None THEN attached \ {o} ELSE attached \cup {o}
    BY OneKnown DEF SameMotion
  <1>2. s.move # None => o \in moving' /\ s.attach = None
    BY OneKnown DEF SameMotion
  <1> QED BY <1>1, <1>2, OneObject

(* So does one that tells the copy nothing.                                *)
LEMMA SilentlyKeeps ==
  ASSUME Inv, NEW o \in DOMAIN item, NEW s \in Sane, SameMotion(item[o], s),
         item' = [item EXCEPT ![o] = s], Silence(o, item'[o]),
         UNCHANGED <<moving, attached, anchors, arrived, mistaken>>
  PROVE  Inv'
  <1>1. Silence(o, s)
    OBVIOUS
  <1>2. s.move # None => item[o].move # None /\ s.move.to = item[o].move.to
    BY DEF SameMotion
  <1>3. /\ OthersStay(o) /\ OnClient' = OnClient /\ adrift' \ {o} = adrift \ {o}
        /\ o \in OnClient => FollowsAs(s, client'[o], o \in adrift')
    BY <1>1, <1>2, CopySilent
  <1> QED BY <1>3, SameMotionKeeps

LEMMA PlacingKeeps ==
  ASSUME Inv, NEW o \in Ids, NEW x \in Stops, SetDynamicObjectPos(o, x) \/ SetPosByComponent(o, x)
  PROVE  Inv'
  <1> USE DEF Exists
  <1> DEFINE r == [item[o] EXCEPT !.place = x]
  <1>0. o \in DOMAIN item /\ x \in Places
    BY SpaceAssumption DEF SetDynamicObjectPos, SetPosByComponent
  <1>1. item[o] \in Sane /\ item[o] \in Objects
    BY <1>0, OneKnown
  <1>2. r \in Sane /\ r.move = item[o].move /\ r.attach = item[o].attach
    BY <1>0, <1>1 DEF Sane, Measured, Objects
  <1>3. CASE SetDynamicObjectPos(o, x)
    <2> DEFINE q == IF x = item[o].place THEN r ELSE Refiled(r)
               s == Redirected(q, x)
    <2>1. q \in Sane /\ q.move = item[o].move /\ q.attach = item[o].attach
      BY <1>2, FilingKeeps DEF ButCell
    <2>2. s \in Sane /\ SameMotion(item[o], s)
      <3>1. CASE q.move = None
        BY <2>1, <3>1 DEF Redirected, SameMotion
      <3>2. CASE q.move # None
        <4> DEFINE m == [from |-> x, to |-> q.move.to, gone |-> 0, len |-> Gap(x, q.move.to)]
        <4>1. q \in Objects /\ q.move \in Moves
          BY <2>1, <3>2, FieldTypes DEF Sane
        <4>2. q.move.to \in Places /\ Gap(x, q.move.to) \in Nat
          BY <4>1, <1>0, SpaceAssumption DEF Moves, Gap
        <4>3. m \in Moves /\ m # None
          BY <4>2, <1>0, RecordsAssumption DEF Moves
        <4>4. s = [q EXCEPT !.move = m]
          BY <3>2 DEF Redirected
        <4> QED BY <2>1, <3>2, <4>1, <4>3, <4>4 DEF Sane, Measured, Objects, SameMotion
      <3> QED BY <3>1, <3>2
    <2>3. /\ item' = [item EXCEPT ![o] = s] /\ Silence(o, item'[o])
          /\ UNCHANGED <<moving, attached, anchors, arrived, mistaken>>
      BY <1>3 DEF SetDynamicObjectPos
    <2> QED BY <1>0, <2>2, <2>3, SilentlyKeeps
  <1>4. CASE SetPosByComponent(o, x)
    <2>1. Filed(r) \in Sane /\ SameMotion(item[o], Filed(r))
      BY <1>2, FilingKeeps DEF ButCell, SameMotion
    <2>2. /\ item' = [item EXCEPT ![o] = Filed(r)] /\ Silence(o, item'[o])
          /\ UNCHANGED <<moving, attached, anchors, arrived, mistaken>>
      BY <1>4 DEF SetPosByComponent
    <2> QED BY <1>0, <2>1, <2>2, SilentlyKeeps
  <1> QED BY <1>3, <1>4

LEMMA DistanceKeeps ==
  ASSUME Inv, NEW o \in Ids, NEW dist \in Distances[o], SetStreamDistance(o, dist)
  PROVE  Inv'
  <1> USE DEF SetStreamDistance, Exists
  <1> DEFINE r == [item[o] EXCEPT !.dist = dist]
  <1>1. item[o] \in Sane
    BY OneKnown
  <1>2. r \in Sane /\ SameMotion(item[o], r)
    BY <1>1, DistancesAssumption DEF Sane, Measured, Objects, SameMotion
  <1>3. Filed(r) \in Sane /\ SameMotion(item[o], Filed(r))
    BY <1>2, FilingKeeps DEF ButCell, SameMotion
  <1>4. Filed(r).place = item[o].place /\ o \in DOMAIN item
    BY <1>1, <1>2, FilingKeeps DEF ButCell, Sane, Objects
  <1>5. Astray(Filed(r), client[o]) => Astray(item[o], client[o])
    BY <1>3, <1>4 DEF Astray, SameMotion
  <1>6. client' = client /\ adrift' = adrift /\ OnClient' = OnClient /\ OthersStay(o)
    BY DEF historyVars, OnClient, OthersStay
  <1>7. o \in OnClient => FollowsAs(Filed(r), client'[o], o \in adrift')
    BY <1>3, <1>5, <1>6, OneKnown DEF FollowsAs, SameMotion
  <1>8. mistaken' = mistaken
    BY DEF historyVars
  <1> QED BY <1>3, <1>4, <1>6, <1>7, <1>8, SameMotionKeeps

LEMMA SettingOffKeeps ==
  ASSUME Inv, NEW o \in DOMAIN item, NEW x \in Stops, item[o].attach = None, SetOff(o, x)
  PROVE  Inv'
  <1> USE DEF SetOff
  <1> DEFINE m == [from |-> item[o].place, to |-> x, gone |-> 0, len |-> Gap(item[o].place, x)]
             s == [item[o] EXCEPT !.move = m]
  <1>1. item[o] \in Sane /\ item[o] \in Objects /\ item[o].place \in Places /\ x \in Places
    BY OneKnown, FieldTypes, SpaceAssumption
  <1>2. m \in Moves /\ m # None
    <2>1. Gap(item[o].place, x) \in Nat
      BY <1>1, SpaceAssumption DEF Gap
    <2> QED BY <1>1, <2>1, RecordsAssumption DEF Moves
  <1>3. s \in Sane /\ s.move = m /\ s.attach = None
    BY <1>1, <1>2 DEF Sane, Measured, Objects
  <1>4. /\ OthersStay(o) /\ OnClient' = OnClient /\ adrift' \ {o} = adrift \ {o}
        /\ o \in OnClient => client'[o] = MovesTo(x)
    BY CopyTold
  <1>5. o \in OnClient => FollowsAs(s, client'[o], o \in adrift')
    BY <1>2, <1>3, <1>4 DEF FollowsAs, Astray, MovesTo, Doing
  <1>6. attached' = IF s.attach = None THEN attached \ {o} ELSE attached \cup {o}
    BY <1>3, OneKnown
  <1> QED BY <1>3, <1>4, <1>5, <1>6, OneKnown, OneObject

LEMMA MovingKeeps ==
  ASSUME Inv, NEW o \in Ids, NEW x \in Stops, MoveDynamicObject(o, x) \/ MoveByComponent(o, x)
  PROVE  Inv'
  <1> USE DEF Exists
  <1>1. o \in DOMAIN item /\ item[o].attach = None
    BY DEF MoveDynamicObject, MoveByComponent
  <1>2. CASE SetOff(o, x)
    BY <1>1, <1>2, SettingOffKeeps
  <1>3. CASE MoveDynamicObject(o, x) /\ ~SetOff(o, x)
    <2> DEFINE s == [item[o] EXCEPT !.move = None]
    <2>1. /\ item' = [item EXCEPT ![o] = s]
          /\ Silence(o, item'[o])
          /\ UNCHANGED <<attached, moving, anchors, arrived, mistaken>>
      BY <1>3 DEF MoveDynamicObject
    <2>2. item[o] \in Sane
      BY <1>1, OneKnown
    <2>3. s \in Sane /\ s.move = None /\ s.attach = None
      BY <1>1, <2>2 DEF Sane, Measured, Objects
    <2>4. Silence(o, s)
      BY <1>1, <2>1
    <2>5. /\ OthersStay(o) /\ OnClient' = OnClient /\ adrift' \ {o} = adrift \ {o}
          /\ o \in OnClient => FollowsAs(s, client'[o], o \in adrift')
      BY <1>1, <2>3, <2>4, CopySilent
    <2>6. attached' = IF s.attach = None THEN attached \ {o} ELSE attached \cup {o}
      BY <1>1, <2>1, <2>3, OneKnown
    <2> QED BY <1>1, <2>1, <2>3, <2>5, <2>6, OneObject
  <1> QED BY <1>2, <1>3 DEF MoveByComponent

LEMMA StoppingKeeps ==
  ASSUME Inv, NEW o \in Ids, StopDynamicObject(o)
  PROVE  Inv'
  <1> USE DEF StopDynamicObject, Exists
  <1> DEFINE s == [item[o] EXCEPT !.move = None]
  <1>1. item[o] \in Sane /\ item[o].attach = None
    BY OneKnown
  <1>2. s \in Sane /\ s.move = None /\ s.attach = None
    BY <1>1 DEF Sane, Measured, Objects
  <1>3. /\ OthersStay(o) /\ OnClient' = OnClient /\ adrift' \ {o} = adrift \ {o}
        /\ o \in OnClient => client'[o] = Still
    BY CopyTold
  <1>4. o \in OnClient => FollowsAs(s, client'[o], o \in adrift')
    BY <1>2, <1>3 DEF FollowsAs, Astray, Still, Doing
  <1>5. attached' = IF s.attach = None THEN attached \ {o} ELSE attached \cup {o}
    BY <1>1, <1>2, OneKnown
  <1> QED BY <1>2, <1>3, <1>4, <1>5, OneKnown, OneObject

(* Being attached is a fact about data.                                    *)
LEMMA Attaching ==
  ASSUME NEW r \in Sane, NEW b \in Ids \cup Anchors \cup {Lost}, NEW at \in Junk
  PROVE  /\ Attached(r, b, at) \in Sane /\ Attached(r, b, at).move = r.move
         /\ Attached(r, b, at).attach # None /\ Attached(r, b, at).attach.to = b
         /\ Attached(r, b, at).place = r.place
  <1> DEFINE a == [to |-> b, at |-> at]
  <1>1. a \in Attachments /\ a # None
    BY SpaceAssumption, RecordsAssumption DEF Attachments
  <1> QED BY <1>1 DEF Attached, Sane, Measured, Objects

(* A step that attaches an object that does not move.                      *)
LEMMA AttachmentKeeps ==
  ASSUME Inv, NEW o \in DOMAIN item, NEW s \in Sane, s.attach # None, s.move = None,
         item' = [item EXCEPT ![o] = s], item[o].move = None,
         attached' = attached \cup {o}, moving' = moving,
         UNCHANGED <<anchors, arrived>>, mistaken' \ {o} = mistaken \ {o},
         adrift' \ {o} = adrift \ {o},
         OthersStay(o), OnClient' = OnClient,
         o \in OnClient => FollowsAs(s, client'[o], o \in adrift')
  PROVE  Inv'
  BY OneKnown, OneObject

(* The copy of what is attached to b is told so, or told nothing.          *)
LEMMA CopiesAttached ==
  ASSUME Inv, NEW o \in DOMAIN item, NEW s, s.move = None, s.attach # None, NEW b, s.attach.to = b,
         Silence(o, s) \/ Tell(o, IsAt(b))
  PROVE  /\ OthersStay(o) /\ OnClient' = OnClient /\ adrift' \ {o} = adrift \ {o}
         /\ o \in OnClient => FollowsAs(s, client'[o], o \in adrift')
  <1>1. CASE Silence(o, s)
    BY <1>1, CopySilent
  <1>2. CASE Tell(o, IsAt(b))
    <2>1. /\ OthersStay(o) /\ OnClient' = OnClient /\ adrift' \ {o} = adrift \ {o}
          /\ o \in OnClient => client'[o] = IsAt(b)
      BY <1>2, CopyTold
    <2>2. FollowsAs(s, IsAt(b), o \in adrift')
      BY DEF FollowsAs, Astray, IsAt, Doing
    <2> QED BY <2>1, <2>2
  <1> QED BY <1>1, <1>2

LEMMA MistakenIs ==
  ASSUME NEW o, NEW at, mistaken' = Mistaken(o, at)
  PROVE  mistaken' \ {o} = mistaken \ {o}
  BY DEF Mistaken

LEMMA AttachToObjectKeeps ==
  ASSUME Inv, NEW o \in Ids, NEW b \in Ids, NEW at \in Junk, AttachDynamicObjectToObject(o, b, at)
  PROVE  Inv'
  <1> USE DEF AttachDynamicObjectToObject, Exists
  <1> DEFINE r == Attached(item[o], b, at)
             s == Widened(r, b)
  <1>1. item[o] \in Sane /\ item[o].move = None /\ o \in DOMAIN item
    BY OneKnown
  <1>2. r \in Sane /\ r.move = None /\ r.attach # None /\ r.attach.to = b
    BY <1>1, Attaching
  <1>3. s \in Sane /\ s.move = None /\ s.attach # None /\ s.attach.to = b
    BY <1>2 DEF Widened, Sane, Measured, Objects
  <1>4. item' = [item EXCEPT ![o] = s]
    OBVIOUS
  <1>5. b \notin Anchors
    BY IdsAssumption
  <1>6. Silence(o, s) \/ Tell(o, IsAt(b))
    BY <1>1, <1>4
  <1>7. /\ OthersStay(o) /\ OnClient' = OnClient /\ adrift' \ {o} = adrift \ {o}
        /\ o \in OnClient => FollowsAs(s, client'[o], o \in adrift')
    BY <1>1, <1>3, <1>5, <1>6, CopiesAttached
  <1>8. mistaken' \ {o} = mistaken \ {o}
    BY MistakenIs
  <1> QED BY <1>1, <1>3, <1>4, <1>7, <1>8, AttachmentKeeps

LEMMA AttachToAnchorKeeps ==
  ASSUME Inv, NEW o \in Ids, NEW a \in Anchors, NEW at \in Junk, AttachDynamicObjectToAnchor(o, a, at)
  PROVE  Inv'
  <1> USE DEF AttachDynamicObjectToAnchor, Exists
  <1> DEFINE s == Attached(item[o], a, at)
  <1>1. item[o] \in Sane /\ item[o].move = None /\ o \in DOMAIN item
    BY OneKnown
  <1>2. s \in Sane /\ s.move = None /\ s.attach # None /\ s.attach.to = a
    BY <1>1, Attaching
  <1>3. Silence(o, s) \/ Tell(o, IsAt(a))
    BY <1>1
  <1>4. /\ OthersStay(o) /\ OnClient' = OnClient /\ adrift' \ {o} = adrift \ {o}
        /\ o \in OnClient => FollowsAs(s, client'[o], o \in adrift')
    BY <1>1, <1>2, <1>3, CopiesAttached
  <1>5. mistaken' \ {o} = mistaken \ {o}
    BY MistakenIs
  <1> QED BY <1>1, <1>2, <1>4, <1>5, AttachmentKeeps

LEMMA AttachByComponentKeeps ==
  ASSUME Inv, NEW o \in Ids, NEW b \in Ids \cup Anchors, NEW at \in Junk, AttachByComponent(o, b, at)
  PROVE  Inv'
  <1> USE DEF AttachByComponent, Exists
  <1> DEFINE to == IF b \in Anchors THEN Lost ELSE b
             s == Attached(item[o], to, at)
  <1>1. item[o] \in Sane /\ item[o].move = None /\ o \in DOMAIN item
    BY OneKnown
  <1>2. to \in Ids \cup Anchors \cup {Lost} /\ to \notin Anchors
    BY NamesAssumption
  <1>3. s \in Sane /\ s.move = None /\ s.attach # None /\ s.attach.to = to
    BY <1>1, <1>2, Attaching
  <1>4. Silence(o, s)
    BY <1>1
  <1>5. /\ OthersStay(o) /\ OnClient' = OnClient /\ adrift' \ {o} = adrift \ {o}
        /\ o \in OnClient => FollowsAs(s, client'[o], o \in adrift')
    BY <1>1, <1>3, <1>4, CopiesAttached
  <1>6. mistaken' \ {o} = mistaken \ {o}
    BY MistakenIs
  <1> QED BY <1>1, <1>3, <1>5, <1>6, AttachmentKeeps

(* A step that detaches an object that does not move.                      *)
LEMMA DetachmentKeeps ==
  ASSUME Inv, NEW o \in DOMAIN item, NEW r \in Sane, r.move = None, Detached(o, r),
         moving' = moving, UNCHANGED <<anchors, arrived>>, Silence(o, item'[o])
  PROVE  Inv'
  <1> DEFINE q == [r EXCEPT !.attach = None]
             s == Filed(q)
  <1>1. q \in Sane /\ q.move = None /\ q.attach = None
    BY DEF Sane, Measured, Objects
  <1>2. s \in Sane /\ s.move = None /\ s.attach = None
    BY <1>1, FilingKeeps DEF ButCell
  <1>3. /\ item' = [item EXCEPT ![o] = s] /\ attached' = attached \ {o}
        /\ mistaken' \ {o} = mistaken \ {o}
    BY DEF Detached
  <1> HIDE DEF s
  <1>4. Silence(o, s)
    BY <1>3
  <1>5. /\ OthersStay(o) /\ OnClient' = OnClient /\ adrift' \ {o} = adrift \ {o}
        /\ o \in OnClient => FollowsAs(s, client'[o], o \in adrift')
    BY <1>2, <1>4, CopySilent
  <1> QED BY <1>2, <1>3, <1>5, OneKnown, OneObject

LEMMA DetachingKeeps ==
  ASSUME Inv, NEW o \in Ids, DetachFromObject(o) \/ DetachFromAnchor(o)
  PROVE  Inv'
  <1> USE DEF Exists
  <1>1. /\ o \in DOMAIN item /\ item[o].move = None /\ Silence(o, item'[o])
        /\ UNCHANGED <<moving, anchors, arrived>>
    BY DEF DetachFromObject, DetachFromAnchor
  <1>2. item[o] \in Sane /\ item[o] \in Objects
    BY <1>1, OneKnown
  <1>3. CASE DetachFromObject(o)
    <2> DEFINE r == IF item[o].orig = "none" THEN item[o] ELSE [item[o] EXCEPT !.dist = item[o].orig]
    <2>1. Detached(o, r)
      BY <1>3 DEF DetachFromObject
    <2>2. r \in Sane /\ r.move = None
      BY <1>1, <1>2, FieldTypes DEF Sane, Measured, Objects
    <2> QED BY <1>1, <2>1, <2>2, DetachmentKeeps
  <1>4. CASE DetachFromAnchor(o)
    <2>1. Detached(o, item[o])
      BY <1>4 DEF DetachFromAnchor
    <2> QED BY <1>1, <1>2, <2>1, DetachmentKeeps
  <1> QED BY <1>3, <1>4

(* A step that makes the copies of an object anew.                         *)
LEMMA RenewalKeeps ==
  ASSUME Inv, NEW o \in DOMAIN item, NEW s \in Sane, s.move # None => s.attach = None /\ o \in moving,
         item' = [item EXCEPT ![o] = s], Renew(o, s),
         attached' = IF s.attach = None THEN attached \ {o} ELSE attached \cup {o},
         moving' = moving, UNCHANGED <<anchors, arrived>>,
         mistaken' \ {o} = mistaken \ {o}
  PROVE  Inv'
  <1>1. /\ OthersStay(o) /\ OnClient' = OnClient /\ adrift' \ {o} = adrift \ {o}
        /\ o \in OnClient => FollowsAs(s, client'[o], o \in adrift')
    BY CopyRenewed
  <1> QED BY <1>1, OneObject

LEMMA DataKeeps ==
  ASSUME Inv, NEW o \in Ids,
         \/ \E b \in Ids \cup Anchors, at \in Junk : SetAttachedData(o, b, at)
         \/ UnsetAttachedData(o) \/ SetLooks(o)
         \/ \E x \in Stops : SetCoordinate(o, x)
  PROVE  Inv'
  <1> USE DEF Exists
  <1>1. o \in DOMAIN item
    BY DEF SetAttachedData, UnsetAttachedData, SetLooks, SetCoordinate
  <1>2. /\ item[o] \in Sane /\ item[o] \in Objects
        /\ item[o].move # None => item[o].attach = None /\ o \in moving
        /\ attached = IF item[o].attach = None THEN attached \ {o} ELSE attached \cup {o}
    BY <1>1, OneKnown
  <1>3. ASSUME NEW b \in Ids \cup Anchors, NEW at \in Junk, SetAttachedData(o, b, at)
        PROVE  Inv'
    <2> DEFINE s == Attached(item[o], b, at)
    <2>1. s \in Sane /\ s.move = None /\ s.attach # None
      BY <1>2, <1>3, Attaching DEF SetAttachedData
    <2>2. item' = [item EXCEPT ![o] = s]
      BY <1>3 DEF SetAttachedData
    <2>3. item'[o] = s
      BY <1>1, <2>2
    <2>4. Renew(o, s)
      BY <1>3, <2>3 DEF SetAttachedData
    <2>5. mistaken' \ {o} = mistaken \ {o}
      BY <1>3, MistakenIs DEF SetAttachedData
    <2>6. attached' = attached \cup {o} /\ UNCHANGED <<moving, anchors, arrived>>
      BY <1>3 DEF SetAttachedData
    <2> QED BY <1>1, <2>1, <2>2, <2>4, <2>5, <2>6, RenewalKeeps
  <1>4. CASE UnsetAttachedData(o)
    <2> DEFINE q == [item[o] EXCEPT !.attach = None]
               s == Filed(q)
    <2>1. item[o].move = None
      BY <1>2, <1>4 DEF UnsetAttachedData
    <2>2. q \in Sane /\ q.move = None /\ q.attach = None
      BY <1>2, <2>1 DEF Sane, Measured, Objects
    <2>3. s \in Sane /\ s.move = None /\ s.attach = None
      BY <2>2, FilingKeeps DEF ButCell
    <2>4. /\ item' = [item EXCEPT ![o] = s] /\ attached' = attached \ {o}
          /\ mistaken' = mistaken \ {o}
          /\ UNCHANGED <<moving, anchors, arrived>>
      BY <1>4 DEF UnsetAttachedData, Detached
    <2>5. item'[o] = s
      BY <1>1, <2>4
    <2>6. Renew(o, s)
      BY <1>4, <2>5 DEF UnsetAttachedData
    <2> QED BY <1>1, <2>3, <2>4, <2>6, RenewalKeeps
  <1>5. CASE SetLooks(o)
    <2>1. Renew(o, item[o]) /\ UNCHANGED <<item, moving, anchors, arrived, attached, mistaken>>
      BY <1>5 DEF SetLooks
    <2>2. /\ OthersStay(o) /\ OnClient' = OnClient /\ adrift' \ {o} = adrift \ {o}
          /\ o \in OnClient => FollowsAs(item[o], client'[o], o \in adrift')
      BY <1>2, <2>1, CopyRenewed
    <2>5. OnClient' \subseteq DOMAIN item
      BY <2>2 DEF Inv, MembersAreExact
    <2> QED BY <1>1, <2>1, <2>2, <2>5, CopiesOnly
  <1>6. ASSUME NEW x \in Stops, SetCoordinate(o, x) PROVE Inv'
    <2> DEFINE q == [item[o] EXCEPT !.place = x]
               s == Refiled(q)
    <2>1. q \in Sane /\ q.move = item[o].move /\ q.attach = item[o].attach
      BY <1>2, SpaceAssumption DEF Sane, Measured, Objects
    <2>2. s \in Sane /\ s.move = item[o].move /\ s.attach = item[o].attach
      BY <2>1, FilingKeeps DEF ButCell
    <2>3. /\ item' = [item EXCEPT ![o] = s]
          /\ UNCHANGED <<moving, attached, anchors, arrived, mistaken>>
      BY <1>6 DEF SetCoordinate
    <2>4. item'[o] = s
      BY <1>1, <2>3
    <2>5. Renew(o, s)
      BY <1>6, <2>4 DEF SetCoordinate
    <2> QED BY <1>1, <1>2, <2>2, <2>3, <2>5, RenewalKeeps
  <1> QED BY <1>3, <1>4, <1>5, <1>6

LEMMA StutterKeeps ==
  ASSUME Inv, UNCHANGED vars
  PROVE  Inv'
  BY DEF vars, historyVars, Inv, TypeInv, TypeOK, MembersAreExact, ClientFollows, OnClient

LEMMA StepKeeps == Inv /\ [Next]_vars => Inv'
  <1> SUFFICES ASSUME Inv, [Next]_vars PROVE Inv'
    OBVIOUS
  <1>1. CASE UNCHANGED vars
    BY <1>1, StutterKeeps
  <1>2. CASE Server \/ World
    BY <1>2, ProcessKeeps, ElapseKeeps, OtherServerKeeps DEF Server
  <1>3. ASSUME NEW o \in Ids, StreamIn(o) \/ StreamOut(o) PROVE Inv'
    BY <1>3, StreamingKeeps
  <1>4. ASSUME NEW o \in Ids, Script(o) PROVE Inv'
    <2>1. ASSUME NEW x \in Stops, NEW dist \in Distances[o], CreateDynamicObject(o, x, dist) PROVE Inv'
      BY <2>1, CreationKeeps
    <2>2. CASE DestroyDynamicObject(o) \/ StopDynamicObject(o)
      BY <2>2, DestructionKeeps, StoppingKeeps
    <2>3. CASE DetachFromObject(o) \/ DetachFromAnchor(o)
      BY <2>3, DetachingKeeps
    <2>4. CASE \/ \E b \in Ids \cup Anchors, at \in Junk : SetAttachedData(o, b, at)
               \/ UnsetAttachedData(o) \/ SetLooks(o)
               \/ \E x \in Stops : SetCoordinate(o, x)
      BY <2>4, DataKeeps
    <2>5. CASE \E x \in Stops : SetDynamicObjectPos(o, x) \/ SetPosByComponent(o, x)
      BY <2>5, PlacingKeeps
    <2>6. CASE \E x \in Stops : MoveDynamicObject(o, x) \/ MoveByComponent(o, x)
      BY <2>6, MovingKeeps
    <2>7. CASE \E dist \in Distances[o] : SetStreamDistance(o, dist)
      BY <2>7, DistanceKeeps
    <2>8. CASE \E at \in Junk :
                 \/ \E b \in Ids : AttachDynamicObjectToObject(o, b, at)
                 \/ \E a \in Anchors : AttachDynamicObjectToAnchor(o, a, at)
                 \/ \E b \in Ids \cup Anchors : AttachByComponent(o, b, at)
      BY <2>8, AttachToObjectKeeps, AttachToAnchorKeeps, AttachByComponentKeeps
    <2> QED BY <1>4, <2>1, <2>2, <2>3, <2>4, <2>5, <2>6, <2>7, <2>8 DEF Script
  <1> QED BY <1>1, <1>2, <1>3, <1>4 DEF Next

LEMMA InvHolds == Spec => []Inv
  <1>1. Init => Inv
    BY InitKeeps
  <1>2. Inv /\ [Next]_vars => Inv'
    BY StepKeeps
  <1> QED BY <1>1, <1>2, PTL DEF Spec

-----------------------------------------------------------------------------
(* Every variable keeps its type; what moves stays on its way.             *)
THEOREM MotionTypes == Spec => []TypeOK
  <1>1. Inv => TypeOK
    BY DEF Inv, TypeInv
  <1> QED BY <1>1, InvHolds, PTL

(* No native, tick or destruction leaves an object out of the sets that    *)
(* ticks go through, or in one of them, or on a client, when it should not *)
(* be.                                                                     *)
THEOREM MembersStayExact == Spec => []MembersAreExact
  <1>1. Inv => MembersAreExact
    BY DEF Inv
  <1> QED BY <1>1, InvHolds, PTL

(* The copies of moving objects were told to move to where these go, what- *)
(* ever interface sent them there; and no copy is attached or on its way   *)
(* otherwise than its object, unless the last call to change the object was*)
(* one that says nothing to clients.                                       *)
THEOREM CopiesFollow == Spec => []ClientFollows
  <1>1. Inv => ClientFollows
    BY DEF Inv
  <1> QED BY <1>1, InvHolds, PTL

-----------------------------------------------------------------------------
(* Cells.                                                                  *)

(* What has a cell is in that of its own place or of its base's, if that is*)
(* known.                                                                  *)
CellKnown(r) ==
  \/ r.cell = GlobalCell
  \/ r.attach = None /\ r.dist = "near" /\ r.cell = r.place
  \/ r.attach # None /\ (r.attach.at = Nowhere \/ (r.dist = "near" /\ r.cell = r.attach.at))

CellsKnown == \A o \in DOMAIN item \ mistaken : CellKnown(item[o])

(* Whoever is filed is filed rightly.                                      *)
LEMMA FilingIsRight ==
  ASSUME NEW r \in Sane
  PROVE  CellKnown(Filed(r)) /\ CellKnown(Refiled(r))
  <1>1. CellKnown(Filed(r))
    BY FieldTypes DEF Sane, Objects, Filed, CellKnown
  <1> QED BY <1>1 DEF Refiled, CellKnown

(* A moving object is in the cell of its place.                            *)
LEMMA AdvancingIsRight ==
  ASSUME NEW r \in Sane
  PROVE  CellKnown(r) => CellKnown(Advanced(r))
  <1> r \in Objects /\ Measured(r)
    BY DEF Sane
  <1>1. CASE r.move = None
    BY <1>1 DEF Advanced
  <1>2. CASE r.move # None /\ Over(r.move)
    <2> DEFINE s == [r EXCEPT !.place = r.move.to, !.move = None]
    <2>1. r.move \in Moves
      BY <1>2, FieldTypes
    <2>2. s \in Sane /\ Advanced(r) = Refiled(s)
      BY <1>2, <2>1 DEF Advanced, Objects, Moves, Sane, Measured
    <2> QED BY <2>2, FilingIsRight
  <1>3. CASE r.move # None /\ ~Over(r.move)
    <2> DEFINE x == Along(r.move, r.move.gone)
               s == [r EXCEPT !.place = x]
    <2>1. r.move \in Moves
      BY <1>3, FieldTypes
    <2>2. x \in Places
      BY <2>1, <1>3, OnTheWay DEF Measured
    <2>3. s \in Sane /\ Advanced(r) = Refiled(s)
      BY <1>3, <2>2 DEF Advanced, Objects, Sane, Measured
    <2> QED BY <2>3, FilingIsRight
  <1> QED BY <1>1, <1>2, <1>3

(* What follows a base ends up right if that has visibly moved, or if it   *)
(* was right and the base has not moved at all.                            *)
LEMMA FollowingIsRight ==
  ASSUME NEW r \in Sane, r.attach # None, NEW x \in Places \cup {Nowhere},
         <<x, r.attach.at>> \notin Alike \/ (CellKnown(r) /\ x = r.attach.at)
  PROVE  CellKnown(Following(r, x))
  <1> DEFINE s == [r EXCEPT !.attach.at = x]
  <1>1. r \in Objects /\ r.attach \in Attachments /\ Measured(r)
    BY FieldTypes DEF Sane
  <1>2. /\ s.attach \in Attachments /\ s.attach.at = x /\ s.move = r.move
        /\ s.dist = r.dist /\ s.cell = r.cell /\ s.place = r.place
    BY <1>1 DEF Objects, Attachments
  <1>3. s \in Sane /\ s.attach # None
    BY <1>1, <1>2, RecordsAssumption DEF Objects, Sane, Measured, Attachments
  <1>4. CASE x # Nowhere /\ <<x, r.attach.at>> \notin Alike
    <2>1. Following(r, x) = Refiled(s)
      BY <1>4 DEF Following
    <2> HIDE DEF s
    <2> QED BY <1>3, <2>1, FilingIsRight
  <1>5. CASE x = Nowhere
    <2>1. Following(r, x) = s
      BY <1>5 DEF Following
    <2> QED BY <1>2, <1>3, <1>5, <2>1 DEF CellKnown
  <1>6. CASE <<x, r.attach.at>> \in Alike
    <2>1. CellKnown(r) /\ x = r.attach.at /\ Following(r, x) = s
      BY <1>6 DEF Following
    <2> QED BY <1>2, <1>3, <2>1 DEF CellKnown
  <1> QED BY <1>4, <1>5, <1>6

(* What processing leaves: right cells, and attachments to known bases.    *)
LEMMA ProcessingIsRight ==
  ASSUME Inv, CellsKnown, mistaken \subseteq attached, ProcessActiveItems,
         NEW o \in DOMAIN item' \ mistaken'
  PROVE  /\ CellKnown(item'[o])
         /\ item'[o].attach # None => item'[o].attach.at = BasePlace(item', item'[o].attach.to)
  <1> USE DEF ProcessActiveItems
  <1> DEFINE objects == [j \in DOMAIN item |-> IF j \in moving THEN Advanced(item[j]) ELSE item[j]]
             y(j) == BasePlace(objects, item[j].attach.to)
             x == y(o)
  <1>0. TypeInv /\ DOMAIN item' = DOMAIN item /\ o \in DOMAIN item
    BY DEF Inv, Processed
  <1>1. \A j \in DOMAIN item : item[j] \in Sane
    BY OneKnown
  <1>2. \A j \in DOMAIN item : /\ objects[j] \in Sane /\ objects[j].attach = item[j].attach
                               /\ objects[j].place \in Places
    BY <1>1, Advances, FieldTypes DEF Sane
  <1>3. \A j \in DOMAIN item : CellKnown(item[j]) => CellKnown(objects[j])
    BY <1>1, AdvancingIsRight
  <1>4. \A j \in DOMAIN item : y(j) \in Places \cup {Nowhere}
    BY <1>0, <1>2, BaseIsSomewhere DEF TypeInv
  <1>5. \A j \in DOMAIN item :
          item'[j] = IF j \in attached /\ item[j].attach # None THEN Following(objects[j], y(j)) ELSE objects[j]
    BY DEF Processed
  <1>6. \A j \in DOMAIN item : item'[j].place = objects[j].place
    <2> SUFFICES ASSUME NEW j \in DOMAIN item PROVE item'[j].place = objects[j].place
      OBVIOUS
    <2>1. objects[j] \in Sane /\ objects[j].attach = item[j].attach /\ y(j) \in Places \cup {Nowhere}
      BY <1>2, <1>4
    <2>2. item[j].attach # None => Following(objects[j], y(j)).place = objects[j].place
      BY <2>1, Follows
    <2>3. item'[j] = objects[j] \/ (item[j].attach # None /\ item'[j] = Following(objects[j], y(j)))
      BY <1>5
    <2> QED BY <2>2, <2>3
  <1>7. \A b : BasePlace(item', b) = BasePlace(objects, b)
    BY <1>0, <1>6 DEF BasePlace
  <1>8. CASE item[o].attach = None
    <2>1. item'[o] = objects[o]
      BY <1>0, <1>5, <1>8
    <2>2. o \notin mistaken
      BY <1>0, <1>8, OneKnown
    <2> QED BY <1>0, <1>2, <1>3, <1>8, <2>1, <2>2 DEF CellsKnown
  <1>9. CASE item[o].attach # None
    <2>1. item'[o] = Following(objects[o], x)
      BY <1>0, <1>5, <1>9, OneKnown
    <2>2. objects[o] \in Sane /\ objects[o].attach # None /\ x \in Places \cup {Nowhere}
      BY <1>0, <1>2, <1>4, <1>9
    <2>3. item'[o].attach.at = x /\ objects[o].attach.at = item[o].attach.at
      BY <1>0, <1>2, <2>1, <2>2, Follows
    <2>4. <<x, item[o].attach.at>> \notin Alike \/ (o \notin mistaken /\ x = item[o].attach.at)
      BY <1>0, <1>9, <2>3, OneKnown DEF Overlooked
    <2>5. o \notin mistaken => CellKnown(objects[o])
      BY <1>0, <1>3 DEF CellsKnown
    <2>6. CellKnown(item'[o])
      BY <2>1, <2>2, <2>3, <2>4, <2>5, FollowingIsRight
    <2>7. item'[o].attach.to = item[o].attach.to
      BY <1>0, <1>2, <2>1, <2>2, Follows
    <2> QED BY <1>7, <2>3, <2>6, <2>7
  <1> QED BY <1>8, <1>9

(* A step that gives one object other data.                                *)
LEMMA OneCell ==
  ASSUME CellsKnown, NEW o \in DOMAIN item, NEW s, item' = [item EXCEPT ![o] = s],
         mistaken' \ {o} = mistaken \ {o}, o \notin mistaken' => CellKnown(s)
  PROVE  CellsKnown'
  <1>1. \A j \in DOMAIN item' \ mistaken' : j # o => j \in DOMAIN item \ mistaken /\ item'[j] = item[j]
    OBVIOUS
  <1> QED BY <1>1 DEF CellsKnown

LEMMA CellsOfScripts ==
  ASSUME Inv, CellsKnown, NEW o \in Ids, Script(o)
  PROVE  CellsKnown'
  <1> USE DEF Exists
  <1>1. ASSUME NEW x \in Stops, NEW dist \in Distances[o], CreateDynamicObject(o, x, dist) PROVE CellsKnown'
    <2> DEFINE r == [place |-> x, dist |-> dist, orig |-> "none", cell |-> GlobalCell,
                     move |-> None, attach |-> None]
    <2>1. r \in Sane
      BY SpaceAssumption, DistancesAssumption DEF Sane, Measured, Objects
    <2>2. /\ DOMAIN item' = DOMAIN item \cup {o} /\ item'[o] = Filed(r) /\ mistaken' = mistaken
          /\ \A j \in DOMAIN item : item'[j] = item[j]
      BY <1>1 DEF CreateDynamicObject, With, historyVars
    <2>3. CellKnown(item'[o])
      BY <2>1, <2>2, FilingIsRight
    <2> QED BY <2>2, <2>3 DEF CellsKnown
  <1>2. CASE DestroyDynamicObject(o)
    <2>1. DOMAIN item' = DOMAIN item \ {o} /\ mistaken' = mistaken \ {o}
      BY <1>2 DEF DestroyDynamicObject, Without
    <2>2. \A j \in DOMAIN item' : item'[j] = item[j]
      BY <1>2 DEF DestroyDynamicObject, Without
    <2> QED BY <2>1, <2>2 DEF CellsKnown
  <1> DEFINE old == item[o]
  <1>3. ASSUME o \in DOMAIN item PROVE old \in Sane /\ old \in Objects /\ (o \notin mistaken => CellKnown(old))
    BY <1>3, OneKnown DEF CellsKnown
  <1>4. ASSUME o \in DOMAIN item, mistaken' = mistaken, NEW m, item' = [item EXCEPT ![o].move = m]
        PROVE  CellsKnown'
    <2>1. item' = [item EXCEPT ![o] = [old EXCEPT !.move = m]]
      BY <1>4
    <2>2. o \notin mistaken => CellKnown([old EXCEPT !.move = m])
      BY <1>3, <1>4 DEF CellKnown, Objects
    <2> QED BY <1>4, <2>1, <2>2, OneCell
  <1>5. CASE StopDynamicObject(o) \/ \E x \in Stops : MoveDynamicObject(o, x) \/ MoveByComponent(o, x)
    BY <1>5, <1>4 DEF StopDynamicObject, MoveDynamicObject, MoveByComponent, SetOff, historyVars
  <1>6. ASSUME o \in DOMAIN item, NEW r \in Sane, Detached(o, r) PROVE CellsKnown'
    <2>1. [r EXCEPT !.attach = None] \in Sane
      BY DEF Sane, Measured, Objects
    <2>2. CellKnown(Filed([r EXCEPT !.attach = None]))
      BY <2>1, FilingIsRight
    <2>3. mistaken' \ {o} = mistaken \ {o}
      BY <1>6 DEF Detached
    <2> QED BY <1>6, <2>2, <2>3, OneCell DEF Detached
  <1>7. CASE DetachFromObject(o) \/ DetachFromAnchor(o) \/ UnsetAttachedData(o)
    <2>1. o \in DOMAIN item
      BY <1>7 DEF DetachFromObject, DetachFromAnchor, UnsetAttachedData
    <2>2. (IF old.orig = "none" THEN old ELSE [old EXCEPT !.dist = old.orig]) \in Sane
      BY <1>3, <2>1, FieldTypes DEF Sane, Measured, Objects
    <2> QED BY <1>3, <1>6, <1>7, <2>1, <2>2 DEF DetachFromObject, DetachFromAnchor, UnsetAttachedData
  <1>8. CASE SetLooks(o)
    BY <1>8 DEF SetLooks, CellsKnown
  <1>9. ASSUME NEW x \in Stops, SetDynamicObjectPos(o, x) \/ SetPosByComponent(o, x) \/ SetCoordinate(o, x)
        PROVE  CellsKnown'
    <2> DEFINE r == [old EXCEPT !.place = x]
    <2>1. o \in DOMAIN item /\ mistaken' = mistaken
      BY <1>9 DEF SetDynamicObjectPos, SetPosByComponent, SetCoordinate, historyVars
    <2>2. r \in Sane
      BY <1>3, <2>1, SpaceAssumption DEF Sane, Measured, Objects
    <2>3. Filed(r) \in Sane /\ Refiled(r) \in Sane /\ CellKnown(Filed(r)) /\ CellKnown(Refiled(r))
      BY <2>2, FilingKeeps, FilingIsRight DEF ButCell
    <2>4. CASE SetDynamicObjectPos(o, x)
      <3> DEFINE q == IF x = old.place THEN r ELSE Refiled(r)
      <3>1. q \in Sane /\ (o \notin mistaken => CellKnown(q))
        <4>1. CASE x = old.place
          <5>1. r.cell = old.cell /\ r.attach = old.attach /\ r.dist = old.dist /\ r.place = old.place
            BY <1>3, <2>1, <4>1 DEF Objects
          <5> QED BY <1>3, <2>1, <2>2, <4>1, <5>1 DEF CellKnown
        <4>2. CASE x # old.place
          BY <2>3, <4>2
        <4> QED BY <4>1, <4>2
      <3>2. item' = [item EXCEPT ![o] = Redirected(q, x)]
        BY <2>4 DEF SetDynamicObjectPos
      <3>3. CellKnown(q) => CellKnown(Redirected(q, x))
        <4>1. q \in Objects
          BY <3>1 DEF Sane
        <4> HIDE DEF q
        <4> QED BY <4>1 DEF Redirected, CellKnown, Objects
      <3> QED BY <2>1, <3>1, <3>2, <3>3, OneCell
    <2>5. CASE SetPosByComponent(o, x)
      <3>1. item' = [item EXCEPT ![o] = Filed(r)]
        BY <2>5 DEF SetPosByComponent
      <3> QED BY <2>1, <2>3, <3>1, OneCell
    <2>6. CASE SetCoordinate(o, x)
      <3>1. item' = [item EXCEPT ![o] = Refiled(r)]
        BY <2>6 DEF SetCoordinate
      <3> QED BY <2>1, <2>3, <3>1, OneCell
    <2> QED BY <1>9, <2>4, <2>5, <2>6
  <1>10. ASSUME NEW dist \in Distances[o], SetStreamDistance(o, dist) PROVE CellsKnown'
    <2> DEFINE r == [old EXCEPT !.dist = dist]
    <2>1. o \in DOMAIN item /\ mistaken' = mistaken /\ item' = [item EXCEPT ![o] = Filed(r)]
      BY <1>10 DEF SetStreamDistance, historyVars
    <2>2. r \in Sane
      BY <1>3, <2>1, DistancesAssumption DEF Sane, Measured, Objects
    <2> QED BY <2>1, <2>2, FilingIsRight, OneCell
  <1>11. ASSUME o \in DOMAIN item, NEW b \in Ids \cup Anchors \cup {Lost}, NEW at \in Junk,
                mistaken' = Mistaken(o, at),
                \/ item' = [item EXCEPT ![o] = Attached(old, b, at)]
                \/ item' = [item EXCEPT ![o] = Widened(Attached(old, b, at), b)]
         PROVE  CellsKnown'
    <2> DEFINE r == Attached(old, b, at)
    <2>1. r \in Objects /\ r.attach # None
      BY <1>3, <1>11, Attaching DEF Sane
    <2>2. r.attach.at = at
      BY <1>3, <1>11 DEF Attached, Objects
    <2>3. Widened(r, b).attach = r.attach
      BY <2>1 DEF Widened, Objects
    <2>4. o \notin mistaken' => at = Nowhere
      BY <1>11 DEF Mistaken
    <2>5. o \notin mistaken' => CellKnown(r) /\ CellKnown(Widened(r, b))
      BY <2>1, <2>2, <2>3, <2>4 DEF CellKnown
    <2>6. mistaken' \ {o} = mistaken \ {o}
      BY <1>11, MistakenIs
    <2> QED BY <1>11, <2>5, <2>6, OneCell
  <1>12. ASSUME NEW b \in Ids \cup Anchors, NEW at \in Junk,
                \/ b \in Ids /\ AttachDynamicObjectToObject(o, b, at)
                \/ b \in Anchors /\ AttachDynamicObjectToAnchor(o, b, at)
                \/ AttachByComponent(o, b, at) \/ SetAttachedData(o, b, at)
         PROVE  CellsKnown'
    <2>1. o \in DOMAIN item /\ mistaken' = Mistaken(o, at)
      BY <1>12 DEF AttachDynamicObjectToObject, AttachDynamicObjectToAnchor, AttachByComponent, SetAttachedData
    <2>2. \E c \in Ids \cup Anchors \cup {Lost} :
            \/ item' = [item EXCEPT ![o] = Attached(old, c, at)]
            \/ item' = [item EXCEPT ![o] = Widened(Attached(old, c, at), c)]
      BY <1>12 DEF AttachDynamicObjectToObject, AttachDynamicObjectToAnchor, AttachByComponent, SetAttachedData
    <2> QED BY <1>11, <2>1, <2>2
  <1> QED BY <1>1, <1>2, <1>5, <1>7, <1>8, <1>9, <1>10, <1>12 DEF Script

(* Only what is attached can be mistaken.                                  *)
LEMMA MistakenStep == mistaken \subseteq attached /\ [Next]_vars => mistaken' \subseteq attached'
  <1> SUFFICES ASSUME mistaken \subseteq attached, [Next]_vars PROVE mistaken' \subseteq attached'
    OBVIOUS
  <1>1. CASE UNCHANGED <<attached, mistaken>>
    BY <1>1
  <1>2. CASE ProcessActiveItems
    BY <1>2 DEF ProcessActiveItems, Overlooked
  <1>3. ASSUME NEW o \in Ids, NEW b, NEW at,
               \/ AttachDynamicObjectToObject(o, b, at) \/ AttachDynamicObjectToAnchor(o, b, at)
               \/ AttachByComponent(o, b, at) \/ SetAttachedData(o, b, at)
        PROVE  mistaken' \subseteq attached'
    <2>1. attached' = attached \cup {o} /\ mistaken' = Mistaken(o, at)
      BY <1>3 DEF AttachDynamicObjectToObject, AttachDynamicObjectToAnchor, AttachByComponent, SetAttachedData
    <2> QED BY <2>1 DEF Mistaken
  <1>4. ASSUME NEW o \in Ids, \/ DestroyDynamicObject(o) \/ DetachFromObject(o)
                              \/ DetachFromAnchor(o) \/ UnsetAttachedData(o)
        PROVE  mistaken' \subseteq attached'
    <2>1. attached' = attached \ {o} /\ mistaken' = mistaken \ {o}
      BY <1>4 DEF DestroyDynamicObject, DetachFromObject, DetachFromAnchor, UnsetAttachedData, Detached
    <2> QED BY <2>1
  <1>5. CASE ExecuteCallbacks \/ Elapse \/ World \/ UNCHANGED vars
    BY <1>1, <1>5 DEF ExecuteCallbacks, Elapse, World, AnchorMoves, vars, historyVars
  <1>6. ASSUME NEW o \in Ids, NEW x, NEW dist,
               \/ StreamIn(o) \/ StreamOut(o) \/ CreateDynamicObject(o, x, dist) \/ StopDynamicObject(o)
               \/ SetLooks(o) \/ SetDynamicObjectPos(o, x) \/ SetPosByComponent(o, x) \/ SetCoordinate(o, x)
               \/ MoveDynamicObject(o, x) \/ MoveByComponent(o, x) \/ SetStreamDistance(o, dist)
        PROVE  mistaken' \subseteq attached'
    <2>1. UNCHANGED <<attached, mistaken>>
      BY <1>6 DEF StreamIn, StreamOut, CreateDynamicObject, StopDynamicObject, SetLooks, SetDynamicObjectPos,
                  SetPosByComponent, SetCoordinate, MoveDynamicObject, MoveByComponent, SetOff,
                  SetStreamDistance, historyVars
    <2> QED BY <1>1, <2>1
  <1> QED BY <1>2, <1>3, <1>4, <1>5, <1>6 DEF Next, Server, Script

LEMMA CellsStep ==
  Inv /\ CellsKnown /\ mistaken \subseteq attached /\ [Next]_vars => CellsKnown'
  <1> SUFFICES ASSUME Inv, CellsKnown, mistaken \subseteq attached, [Next]_vars PROVE CellsKnown'
    OBVIOUS
  <1>1. CASE UNCHANGED <<item, mistaken>>
    BY <1>1 DEF CellsKnown
  <1>2. CASE ProcessActiveItems
    BY <1>2, ProcessingIsRight DEF CellsKnown
  <1>3. CASE Elapse
    <2>1. mistaken' = mistaken /\ DOMAIN item' = DOMAIN item
      BY <1>3 DEF Elapse, historyVars
    <2>2. \A o \in DOMAIN item : /\ item'[o].cell = item[o].cell /\ item'[o].attach = item[o].attach
                                 /\ item'[o].dist = item[o].dist /\ item'[o].place = item[o].place
      <3> SUFFICES ASSUME NEW o \in DOMAIN item
                   PROVE  /\ item'[o].cell = item[o].cell /\ item'[o].attach = item[o].attach
                          /\ item'[o].dist = item[o].dist /\ item'[o].place = item[o].place
        OBVIOUS
      <3>1. item[o] \in Objects
        BY OneKnown
      <3>2. item'[o] = item[o] \/ \E m : item'[o] = [item[o] EXCEPT !.move = m]
        BY <1>3 DEF Elapse
      <3> QED BY <3>1, <3>2 DEF Objects
    <2> QED BY <2>1, <2>2 DEF CellsKnown, CellKnown
  <1>4. CASE ExecuteCallbacks \/ World
    BY <1>1, <1>4 DEF ExecuteCallbacks, World, AnchorMoves, historyVars
  <1>5. ASSUME NEW o \in Ids, StreamIn(o) \/ StreamOut(o) PROVE CellsKnown'
    BY <1>1, <1>5 DEF StreamIn, StreamOut, historyVars
  <1>6. ASSUME NEW o \in Ids, Script(o) PROVE CellsKnown'
    BY <1>6, CellsOfScripts
  <1>7. CASE UNCHANGED vars
    BY <1>1, <1>7 DEF vars, historyVars
  <1> QED BY <1>2, <1>3, <1>4, <1>5, <1>6, <1>7 DEF Next, Server

LEMMA CellsHold == Spec => [](Inv /\ CellsKnown /\ mistaken \subseteq attached)
  <1>1. Init => Inv /\ CellsKnown /\ mistaken \subseteq attached
    BY InitKeeps DEF Init, CellsKnown
  <1>2. Inv /\ CellsKnown /\ mistaken \subseteq attached /\ [Next]_vars =>
          (Inv /\ CellsKnown /\ mistaken \subseteq attached)'
    BY StepKeeps, CellsStep, MistakenStep
  <1> QED BY <1>1, <1>2, PTL DEF Spec

(* Once active items are processed, what has a cell is in that of the place*)
(* where it is or where its base is, unless the base was taken for not     *)
(* having moved, by isApprox or for what memory held.                      *)
THEOREM CellsFollow == Spec => CellFollows
  <1>1. Inv /\ CellsKnown /\ mistaken \subseteq attached /\ [Next]_vars =>
          [ProcessActiveItems =>
             \A o \in DOMAIN item' \ mistaken' :
               LET r == item'[o] IN
               \/ r.cell = GlobalCell
               \/ r.dist = "near" /\ r.cell = IF r.attach = None THEN r.place ELSE BasePlace(item', r.attach.to)
               \/ r.attach # None /\ \/ BasePlace(item', r.attach.to) = Nowhere
                                     \/ r.attach.to \in attached]_vars
    BY ProcessingIsRight DEF CellKnown
  <1> QED BY <1>1, CellsHold, PTL DEF Spec, CellFollows

===============================================================================
