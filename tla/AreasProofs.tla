------------------------------- MODULE AreasProofs -------------------------------
(***************************************************************************)
(* Theorems about Areas, for any number of areas, players and things to    *)
(* attach areas to, any line of places and any natives called.             *)
(***************************************************************************)
EXTENDS Areas, WellFoundedInduction, TLAPS

-----------------------------------------------------------------------------
(* Types.                                                                  *)

(* A set of numbers has a least one.                                       *)
LEMMA LeastInNat ==
  ASSUME NEW S \in SUBSET Nat, S # {}
  PROVE  \E i \in S : \A j \in S : i <= j
  <1> DEFINE R == OpToRel(<, Nat)
  <1>1. PICK i \in S : \A j \in S : <<j, i>> \notin R
    <2>1. IsWellFoundedOn(R, Nat)
      BY NatLessThanWellFounded
    <2> HIDE DEF R
    <2> QED BY <2>1, WFMin
  <1>2. ASSUME NEW j \in S PROVE i <= j
    <2>1. <<j, i>> \in Nat \X Nat /\ <<j, i>>[1] = j /\ <<j, i>>[2] = i
      OBVIOUS
    <2>2. ~(j < i)
      BY <1>1, <2>1 DEF OpToRel
    <2> QED BY <2>2
  <1> QED BY <1>1, <1>2

(* The fields of an area.                                                  *)
LEMMA AreaFields ==
  ASSUME NEW ar \in AreaType
  PROVE  /\ ar.shape \in Shapes /\ ar.place \in Places /\ ar.size \in Sizes
         /\ ar.audience \in SUBSET Players /\ ar.spectate \in BOOLEAN
         /\ ar.base \in Bases \cup {NoBase} /\ ar.at \in Int \cup {Nowhere}
         /\ ar.offset \in Int /\ ar.heights \in BOOLEAN /\ ar.cell \in Cells
  BY DEF AreaType

(* The cell of an area is one of the grid's.                               *)
LEMMA CellForIsCell ==
  ASSUME NEW ar \in AreaType, NEW g \in GridType
  PROVE  CellFor(ar, g) \in Cells
  <1>1. ar.place \in Int /\ ar.at \in Int \cup {Nowhere}
    BY AreaFields, SpaceAssumption
  <1>2. PlaceOf(ar) \in Int \cup {Nowhere}
    BY <1>1 DEF PlaceOf
  <1>3. g.size \in Nat \ {0} /\ g.coarseSize \in Nat \ {0}
    BY DEF GridType
  <1>4. \A x \in Int \cup {Nowhere}, w \in Nat \ {0} : IndexOf(x, w) \in Int \cup {Nowhere}
    BY DEF IndexOf
  <1>5. /\ IndexOf(PlaceOf(ar), g.size) \in Int \cup {Nowhere}
        /\ IndexOf(PlaceOf(ar), g.coarseSize) \in Int \cup {Nowhere}
    BY <1>2, <1>3, <1>4
  <1> QED BY <1>3, <1>5 DEF CellFor, Cells

LEMMA ReassignedType ==
  ASSUME NEW ar \in AreaType, NEW g \in GridType
  PROVE  Reassigned(ar, g) \in AreaType
  BY CellForIsCell DEF Reassigned, AreaType

(* What follows its base is an area.                                       *)
LEMMA FollowedType ==
  ASSUME NEW ar \in AreaType, base \in [Bases -> Places \cup {Nowhere}], grid \in GridType
  PROVE  FollowBase(ar) \in AreaType
  <1>1. CASE ar.base = NoBase
    BY <1>1 DEF FollowBase
  <1>2. CASE ar.base # NoBase /\ base[ar.base] = Nowhere
    <2>1. [ar EXCEPT !.at = Nowhere] \in AreaType
      BY DEF AreaType
    <2> QED BY <1>2, <2>1 DEF FollowBase
  <1>3. CASE ar.base # NoBase /\ base[ar.base] # Nowhere
    <2> DEFINE moved == ConstructAttachedArea(ar, base[ar.base])
    <2>1. ar.base \in Bases /\ ar.offset \in Int
      BY <1>3, AreaFields
    <2>2. base[ar.base] \in Int
      BY <1>3, <2>1, SpaceAssumption
    <2>3. base[ar.base] + ar.offset \in Int
      BY <2>1, <2>2
    <2>4. moved \in AreaType
      BY <2>3 DEF ConstructAttachedArea, AreaType
    <2> QED BY <1>3, <2>4, ReassignedType DEF FollowBase
  <1> QED BY <1>1, <1>2, <1>3

LEMMA AllFollowed ==
  ASSUME TypeOK
  PROVE  DOMAIN Followed = DOMAIN area /\ \A a \in DOMAIN area : Followed[a] \in AreaType
  BY FollowedType DEF Followed, TypeOK

-----------------------------------------------------------------------------
(* The invariant.                                                          *)

In(a, p) == p \in DOMAIN player /\ a \in player[p].internal

(* A leave callback is being waited for.                                   *)
LeavePending(a, p) == <<a, p>> \in leaves \/ (phase = "leave" /\ <<a, p>> \in batch)

(* Scripts know, or will in the end, that p is in a.                       *)
WillKnow(a, p) ==
  \/ <<a, p>> \in nested \cup enters
  \/ phase = "enter" /\ <<a, p>> \in batch /\ <<a, p>> \notin leaves
  \/ a \in told[p] /\ ~LeavePending(a, p)

InsideIsAnnounced == \A a \in AreaIds, p \in Players : In(a, p) => a \in DOMAIN area /\ WillKnow(a, p)

(* The leaves queued in the leave phase come from leave callbacks.         *)
LeavesAreNested == phase = "leave" => leaves \subseteq nested

(* Scripts know nothing of areas that do not exist.                        *)
OnlyAreasAreTold == \A p \in Players : told[p] \subseteq DOMAIN area

(* What scripts know, or are about to be told, is so or will be taken back.*)
ToldAreInside ==
  \A a \in AreaIds, p \in Players :
    <<a, p>> \notin rushed \cup erased =>
      /\ a \in told[p] => In(a, p) \/ LeavePending(a, p)
      /\ <<a, p>> \in EnterPending => In(a, p)

Books == InsideIsAnnounced /\ LeavesAreNested /\ OnlyAreasAreTold /\ ToldAreInside

Inv == TypeOK /\ Books

LEMMA BooksImply == Inv => InsideIsTold /\ OutsideIsTold
  <1> SUFFICES ASSUME Inv PROVE InsideIsTold /\ OutsideIsTold
    OBVIOUS
  <1> USE DEF Inv, Books
  <1>1. ASSUME NEW p \in DOMAIN player, NEW a \in player[p].internal
        PROVE  a \in DOMAIN area /\ (<<a, p>> \in Pending \cup nested \/ a \in told[p])
    <2>1. p \in Players /\ a \in AreaIds
      BY <1>1 DEF TypeOK, PlayerType
    <2>2. a \in DOMAIN area /\ WillKnow(a, p)
      BY <1>1, <2>1 DEF InsideIsAnnounced, In
    <2> QED BY <2>2 DEF WillKnow, Pending
  <1>2. ASSUME NEW p \in DOMAIN player, NEW a \in DOMAIN area,
               <<a, p>> \notin Pending \cup rushed \cup erased, a \in told[p]
        PROVE  a \in player[p].internal
    <2>1. p \in Players /\ a \in AreaIds
      BY <1>2 DEF TypeOK
    <2>2. In(a, p) \/ LeavePending(a, p)
      BY <1>2, <2>1 DEF ToldAreInside
    <2> QED BY <1>2, <2>2 DEF In, LeavePending, Pending
  <1> QED BY <1>1, <1>2 DEF InsideIsTold, OutsideIsTold

LEMMA InitKeeps == Init => Inv
  <1> SUFFICES ASSUME Init PROVE Inv
    OBVIOUS
  <1> USE DEF Init
  <1>0. grid \in GridType
    BY GridAssumption DEF GridType
  <1>1. TypeOK
    BY <1>0, SpaceAssumption DEF TypeOK, Idle
  <1>2. Books
    BY DEF Books, InsideIsAnnounced, LeavesAreNested, OnlyAreasAreTold, ToldAreInside, In, EnterPending
  <1> QED BY <1>1, <1>2 DEF Inv

-----------------------------------------------------------------------------
(* Steps that do not change who is on record as being where.               *)

(* A step that leaves records, queues and what exists as they are.         *)
LEMMA NobodyMoves ==
  ASSUME Inv, DOMAIN area' = DOMAIN area, \A a \in DOMAIN area : area'[a] \in AreaType,
         DOMAIN player' = DOMAIN player,
         \A p \in DOMAIN player : player'[p] \in PlayerType /\ player'[p].internal = player[p].internal,
         base' \in [Bases -> Places \cup {Nowhere}], grid' \in GridType, retiered' \subseteq AreaIds,
         UNCHANGED <<enters, leaves, phase, batch, told, rushed, nested, erased>>
  PROVE  Inv'
  <1> USE DEF Inv, Books
  <1>1. TypeOK'
    BY DEF TypeOK, Idle
  <1>2. \A a, p : In(a, p)' <=> In(a, p)
    BY DEF In
  <1>3. \A a, p : (LeavePending(a, p)' <=> LeavePending(a, p)) /\ (WillKnow(a, p)' <=> WillKnow(a, p))
    BY DEF LeavePending, WillKnow
  <1>4. InsideIsAnnounced'
    BY <1>2, <1>3 DEF InsideIsAnnounced
  <1>5. ToldAreInside'
    BY <1>2, <1>3 DEF ToldAreInside, EnterPending
  <1>6. LeavesAreNested' /\ OnlyAreasAreTold'
    BY DEF LeavesAreNested, OnlyAreasAreTold
  <1> QED BY <1>1, <1>4, <1>5, <1>6

(* A step that changes one area.                                           *)
LEMMA OneArea ==
  ASSUME Inv, NEW a \in DOMAIN area, NEW ar \in AreaType, area' = [area EXCEPT ![a] = ar],
         retiered' \subseteq AreaIds, UNCHANGED <<player, base, grid, enters, leaves, phase, batch, told, rushed, nested, erased>>
  PROVE  Inv'
  <1>1. DOMAIN area' = DOMAIN area /\ \A i \in DOMAIN area : area'[i] \in AreaType
    BY DEF Inv, TypeOK
  <1>2. \A p \in DOMAIN player : player'[p] \in PlayerType /\ player'[p].internal = player[p].internal
    BY DEF Inv, TypeOK
  <1> QED BY <1>1, <1>2, NobodyMoves DEF Inv, TypeOK

LEMMA AreaStepKeeps ==
  ASSUME Inv, NEW a \in AreaIds, AreaStep(a)
  PROVE  Inv'
  <1> DEFINE ar == area[a]
  <1>0. a \in DOMAIN area
    BY DEF AreaStep, Attach, SetAttachData, Detach, SetSize, SetItemPos, ToggleDynAreaSpectateMode, SetAudience
  <1>1. ar \in AreaType /\ retiered \subseteq AreaIds /\ grid \in GridType
    BY <1>0 DEF Inv, TypeOK
  <1>2. ASSUME NEW b \in Bases, NEW o \in Offsets, Attach(a, b, o) PROVE Inv'
    <2> DEFINE s == [ar EXCEPT !.base = b, !.at = ar.place, !.offset = o, !.heights = FALSE]
    <2>1. ar.place \in Int /\ o \in Int
      BY <1>1, AreaFields, SpaceAssumption
    <2>2. s \in AreaType
      BY <1>1, <2>1 DEF AreaType
    <2>3. area' = [area EXCEPT ![a] = s]
      BY <1>2 DEF Attach
    <2> QED BY <1>0, <1>1, <1>2, <2>2, <2>3, OneArea DEF Attach, queues, history
  <1>3. ASSUME NEW b \in Bases, SetAttachData(a, b) PROVE Inv'
    BY <1>2, <1>3 DEF SetAttachData
  <1>4. ASSUME NEW b \in Bases, Detach(a, b) PROVE Inv'
    <2> DEFINE s == Reassigned([ar EXCEPT !.base = NoBase], grid)
    <2>1. [ar EXCEPT !.base = NoBase] \in AreaType
      BY <1>1 DEF AreaType
    <2>2. s \in AreaType /\ area' = [area EXCEPT ![a] = s]
      BY <1>1, <1>4, <2>1, ReassignedType DEF Detach
    <2> QED BY <1>0, <1>1, <1>4, <2>2, OneArea DEF Detach, queues, history
  <1>5. ASSUME NEW size \in Sizes, SetSize(a, size) PROVE Inv'
    <2> DEFINE s == Reassigned([ar EXCEPT !.size = size], grid)
    <2>1. [ar EXCEPT !.size = size] \in AreaType
      BY <1>1 DEF AreaType
    <2>2. s \in AreaType /\ area' = [area EXCEPT ![a] = s]
      BY <1>1, <1>5, <2>1, ReassignedType DEF SetSize
    <2>3. retiered' \subseteq AreaIds
      BY <1>1, <1>5 DEF SetSize, OutOfGlobalCell, Inv, TypeOK
    <2> QED BY <1>0, <1>5, <2>2, <2>3, OneArea DEF SetSize, queues
  <1>6. ASSUME NEW x \in Places, SetItemPos(a, x) PROVE Inv'
    <2> DEFINE s == Reassigned([ar EXCEPT !.place = x], grid)
    <2>1. [ar EXCEPT !.place = x] \in AreaType
      BY <1>1 DEF AreaType
    <2>2. s \in AreaType /\ area' = [area EXCEPT ![a] = s]
      BY <1>1, <1>6, <2>1, ReassignedType DEF SetItemPos
    <2> QED BY <1>0, <1>1, <1>6, <2>2, OneArea DEF SetItemPos, queues, history
  <1>7. CASE ToggleDynAreaSpectateMode(a)
    <2> DEFINE s == [ar EXCEPT !.spectate = ~@]
    <2>1. s \in AreaType
      BY <1>1 DEF AreaType
    <2>2. area' = [area EXCEPT ![a] = s]
      BY <1>7 DEF ToggleDynAreaSpectateMode
    <2> QED BY <1>0, <1>1, <1>7, <2>1, <2>2, OneArea DEF ToggleDynAreaSpectateMode, queues, history
  <1>8. ASSUME NEW audience \in Audiences, SetAudience(a, audience) PROVE Inv'
    <2> DEFINE s == [ar EXCEPT !.audience = audience]
    <2>1. s \in AreaType
      BY <1>1, PeopleAssumption DEF AreaType
    <2>2. area' = [area EXCEPT ![a] = s]
      BY <1>8 DEF SetAudience
    <2> QED BY <1>0, <1>1, <1>8, <2>1, <2>2, OneArea DEF SetAudience, queues, history
  <1> QED BY <1>2, <1>3, <1>4, <1>5, <1>6, <1>7, <1>8 DEF AreaStep

(* A step that changes one player, but not where he is taken to be, and    *)
(* perhaps has attached areas processed.                                   *)
LEMMA OnePlayer ==
  ASSUME Inv, NEW p \in DOMAIN player, NEW pl \in PlayerType, pl.internal = player[p].internal,
         player' = [player EXCEPT ![p] = pl], area' = area \/ area' = Followed,
         UNCHANGED <<base, grid, enters, leaves, phase, batch, told, rushed, nested, retiered, erased>>
  PROVE  Inv'
  <1>1. DOMAIN area' = DOMAIN area /\ \A i \in DOMAIN area : area'[i] \in AreaType
    BY AllFollowed DEF Inv, TypeOK
  <1>2. /\ DOMAIN player' = DOMAIN player
        /\ \A q \in DOMAIN player : player'[q] \in PlayerType /\ player'[q].internal = player[q].internal
    BY DEF Inv, TypeOK
  <1> QED BY <1>1, <1>2, NobodyMoves DEF Inv, TypeOK

-----------------------------------------------------------------------------
(* Examination of a player.                                                *)

(* What a player is found to be in is part of what he is examined against. *)
LEMMA OutcomesAreParts ==
  ASSUME NEW p, NEW pl, NEW A, NEW as, NEW I \in Outcomes(p, pl, A, as)
  PROVE  I \subseteq A
  BY DEF Outcomes

(* Whoever is examined is announced where he enters, taken back where he   *)
(* leaves, and told as before where neither happens.                       *)
LEMMA ExaminationKeeps ==
  ASSUME Inv, NEW p \in DOMAIN player, NEW pl \in PlayerType, pl.internal = player[p].internal,
         NEW A \in SUBSET DOMAIN area, NEW I \in SUBSET A, NEW as,
         player' = [player EXCEPT ![p] = Examined(pl, A, I, as)],
         QueueEvents(p, Entered(pl, I), Left(pl, A, I)),
         area' = area \/ area' = Followed, UNCHANGED <<base, grid, phase, batch, told, retiered>>
  PROVE  Inv'
  <1> USE DEF Inv, Books
  <1> DEFINE new == Examined(pl, A, I, as)
             entered == EventsOf(p, I \ player[p].internal)
             left == EventsOf(p, (A \ I) \cap player[p].internal)
  <1>0. /\ A \subseteq AreaIds /\ p \in Players
        /\ DOMAIN area' = DOMAIN area /\ \A i \in DOMAIN area : area'[i] \in AreaType
    BY AllFollowed DEF TypeOK
  <1>1. new \in PlayerType /\ new.internal = (player[p].internal \ A) \cup I
    <2>1. A \in SUBSET AreaIds
      BY <1>0
    <2>2. /\ Examined(pl, A, I, as) \in PlayerType
          /\ Examined(pl, A, I, as).internal = (pl.internal \ A) \cup I
      BY <2>1 DEF Examined, PlayerType
    <2> QED BY <2>2
  <1>2. /\ DOMAIN player' = DOMAIN player /\ player'[p] = new
        /\ \A q \in DOMAIN player : q # p => player'[q] = player[q]
    OBVIOUS
  <1>3. /\ enters' = enters \cup entered /\ leaves' = leaves \cup left
        /\ rushed' = rushed \cup (left \cap EnterPending)
        /\ nested' = nested \cup (IF phase = "leave" THEN left ELSE {})
        /\ erased' = erased \ entered
    BY DEF QueueEvents, Entered, Left
  <1>4. \A a, q : /\ <<a, q>> \in entered <=> q = p /\ a \in I /\ a \notin player[p].internal
                  /\ <<a, q>> \in left <=> q = p /\ a \in A /\ a \notin I /\ a \in player[p].internal
    BY DEF EventsOf
  <1>5. \A a, q : In(a, q)' <=> (In(a, q) /\ <<a, q>> \notin left) \/ <<a, q>> \in entered
    <2> SUFFICES ASSUME NEW a, NEW q
                 PROVE  In(a, q)' <=> (In(a, q) /\ <<a, q>> \notin left) \/ <<a, q>> \in entered
      OBVIOUS
    <2> HIDE DEF new, entered, left
    <2>1. CASE q = p
      <3>1. In(a, q)' <=> a \in new.internal
        BY <1>2, <2>1 DEF In
      <3>2. In(a, q) <=> a \in player[p].internal
        BY <2>1 DEF In
      <3> QED BY <1>1, <1>4, <2>1, <3>1, <3>2
    <2>2. CASE q # p
      <3>1. In(a, q)' <=> In(a, q)
        BY <1>2, <2>2 DEF In
      <3> QED BY <1>4, <2>2, <3>1
    <2> QED BY <2>1, <2>2
  <1>6. entered \subseteq Pairs /\ left \subseteq Pairs
    BY <1>0, <1>1 DEF EventsOf, Pairs
  <1> HIDE DEF new, entered, left
  <1>7. TypeOK'
    <2>1. \A q \in DOMAIN player' : player'[q] \in PlayerType
      BY <1>1, <1>2 DEF TypeOK
    <2>2. /\ enters' \subseteq Pairs /\ leaves' \subseteq Pairs /\ rushed' \subseteq Pairs
          /\ nested' \subseteq Pairs /\ erased' \subseteq Pairs
      BY <1>3, <1>6 DEF TypeOK
    <2> QED BY <1>0, <1>2, <2>1, <2>2 DEF TypeOK, Idle
  <1>8. InsideIsAnnounced'
    <2> SUFFICES ASSUME NEW a \in AreaIds, NEW q \in Players, In(a, q)'
                 PROVE  a \in DOMAIN area' /\ WillKnow(a, q)'
      BY DEF InsideIsAnnounced
    <2>1. CASE <<a, q>> \in entered
      <3>1. a \in DOMAIN area
        <4>1. a \in I
          BY <1>4, <2>1
        <4> QED BY <4>1
      <3> QED BY <1>0, <1>3, <2>1, <3>1 DEF WillKnow
    <2>2. CASE In(a, q) /\ <<a, q>> \notin left
      <3>1. a \in DOMAIN area /\ WillKnow(a, q)
        BY <2>2 DEF InsideIsAnnounced
      <3>2. <<a, q>> \in leaves' <=> <<a, q>> \in leaves
        BY <1>3, <2>2
      <3>3. LeavePending(a, q)' <=> LeavePending(a, q)
        BY <3>2 DEF LeavePending
      <3> QED BY <1>0, <1>3, <3>1, <3>2, <3>3 DEF WillKnow
    <2> QED BY <1>5, <2>1, <2>2
  <1>9. LeavesAreNested'
    BY <1>3 DEF LeavesAreNested
  <1>10. OnlyAreasAreTold'
    BY <1>0 DEF OnlyAreasAreTold
  <1>11. ToldAreInside'
    <2> SUFFICES ASSUME NEW a \in AreaIds, NEW q \in Players, <<a, q>> \notin rushed' \cup erased'
                 PROVE  /\ a \in told[q] => In(a, q)' \/ LeavePending(a, q)'
                        /\ <<a, q>> \in EnterPending' => In(a, q)'
      BY DEF ToldAreInside
    <2>1. /\ <<a, q>> \notin rushed /\ ~(<<a, q>> \in left /\ <<a, q>> \in EnterPending)
          /\ <<a, q>> \notin erased \/ <<a, q>> \in entered
      BY <1>3
    <2>0. CASE <<a, q>> \in entered
      <3>1. In(a, q)'
        BY <1>5, <2>0
      <3> QED BY <3>1
    <2> SUFFICES ASSUME <<a, q>> \notin entered
                 PROVE  /\ a \in told[q] => In(a, q)' \/ LeavePending(a, q)'
                        /\ <<a, q>> \in EnterPending' => In(a, q)'
      BY <2>0
    <2>2. /\ a \in told[q] => In(a, q) \/ LeavePending(a, q)
          /\ <<a, q>> \in EnterPending => In(a, q)
      BY <2>1 DEF ToldAreInside
    <2>3. LeavePending(a, q) => LeavePending(a, q)'
      BY <1>3 DEF LeavePending
    <2>4. <<a, q>> \in left => LeavePending(a, q)'
      BY <1>3 DEF LeavePending
    <2>5. <<a, q>> \in EnterPending' => <<a, q>> \in EnterPending \/ <<a, q>> \in entered
      BY <1>3 DEF EnterPending
    <2> QED BY <1>5, <2>1, <2>2, <2>3, <2>4, <2>5
  <1> QED BY <1>7, <1>8, <1>9, <1>10, <1>11

LEMMA RecheckKeeps ==
  ASSUME Inv, NEW p \in Players,
         \/ \E a \in AreaIds : IsPlayerInDynamicArea(p, a)
         \/ IsPlayerInAnyDynamicArea(p)
  PROVE  Inv'
  <1> DEFINE pl == player[p]
  <1>1. /\ p \in DOMAIN player /\ UNCHANGED <<base, grid, phase, batch, told, retiered>> /\ area' = area
        /\ \E A \in SUBSET DOMAIN area : \E I \in SUBSET A :
             /\ player' = [player EXCEPT ![p] = Examined(pl, A, I, area)]
             /\ QueueEvents(p, Entered(pl, I), Left(pl, A, I))
    <2>1. CASE \E a \in AreaIds : IsPlayerInDynamicArea(p, a)
      <3>1. PICK a \in AreaIds : IsPlayerInDynamicArea(p, a)
        BY <2>1
      <3>2. {a} \in SUBSET DOMAIN area
        BY <3>1 DEF IsPlayerInDynamicArea
      <3> QED BY <3>1, <3>2, OutcomesAreParts DEF IsPlayerInDynamicArea, Recheck
    <2>2. CASE IsPlayerInAnyDynamicArea(p)
      <3>1. PICK I \in Outcomes(p, player[p], DOMAIN area, area) :
              \E A \in SUBSET DOMAIN area :
                /\ player' = [player EXCEPT ![p] = Examined(@, A, I \cap A, area)]
                /\ QueueEvents(p, Entered(player[p], I \cap A), Left(player[p], A, I \cap A))
                /\ UNCHANGED <<area, base, grid, phase, batch, told, retiered>>
        BY <2>2 DEF IsPlayerInAnyDynamicArea
      <3>2. PICK A \in SUBSET DOMAIN area :
                /\ player' = [player EXCEPT ![p] = Examined(@, A, I \cap A, area)]
                /\ QueueEvents(p, Entered(player[p], I \cap A), Left(player[p], A, I \cap A))
                /\ UNCHANGED <<area, base, grid, phase, batch, told, retiered>>
        BY <3>1
      <3>3. I \cap A \in SUBSET A /\ p \in DOMAIN player
        BY <2>2 DEF IsPlayerInAnyDynamicArea
      <3> QED BY <3>2, <3>3
    <2> QED BY <2>1, <2>2
  <1>2. PICK A \in SUBSET DOMAIN area : \E I \in SUBSET A :
          /\ player' = [player EXCEPT ![p] = Examined(pl, A, I, area)]
          /\ QueueEvents(p, Entered(pl, I), Left(pl, A, I))
    BY <1>1
  <1>3. PICK I \in SUBSET A :
          /\ player' = [player EXCEPT ![p] = Examined(pl, A, I, area)]
          /\ QueueEvents(p, Entered(pl, I), Left(pl, A, I))
    BY <1>2
  <1>4. pl \in PlayerType
    BY <1>1 DEF Inv, TypeOK
  <1>5. pl.internal = player[p].internal
    OBVIOUS
  <1> HIDE DEF pl
  <1> QED BY <1>1, <1>3, <1>4, <1>5, ExaminationKeeps

(* A player is updated, with other data but for what he is in.             *)
LEMMA UpdatingKeeps ==
  ASSUME Inv, NEW p \in DOMAIN player, NEW pl \in PlayerType, pl.internal = player[p].internal,
         area' = Followed, Update(p, pl, Followed) \/ Unexamined(p, pl),
         UNCHANGED <<base, grid, phase, batch, told, retiered>>
  PROVE  Inv'
  <1>1. CASE Unexamined(p, pl)
    BY <1>1, OnePlayer DEF Unexamined
  <1>2. CASE Update(p, pl, Followed)
    <2> DEFINE A == Found(pl, Followed)
    <2>1. PICK I \in Outcomes(p, pl, A, Followed) :
            /\ player' = [player EXCEPT ![p] = Examined([pl EXCEPT !.visible = {}], A, I, Followed)]
            /\ QueueEvents(p, Entered(pl, I), Left(pl, A, I))
      BY <1>2 DEF Update
    <2>2. I \in SUBSET A
      BY OutcomesAreParts
    <2>3. A \in SUBSET DOMAIN area
      BY AllFollowed DEF Found, Inv
    <2> DEFINE q == [pl EXCEPT !.visible = {}]
    <2>4. q \in PlayerType /\ q.internal = player[p].internal
      BY DEF PlayerType
    <2>5. /\ player' = [player EXCEPT ![p] = Examined(q, A, I, Followed)]
          /\ QueueEvents(p, Entered(q, I), Left(q, A, I))
      BY <2>1, <2>4 DEF Entered, Left
    <2> HIDE DEF A, q
    <2> QED BY <2>2, <2>3, <2>4, <2>5, ExaminationKeeps
  <1> QED BY <1>1, <1>2

(* Updates forced by scripts, and those that a delay was for.              *)
LEMMA ManualUpdateKeeps ==
  ASSUME Inv, NEW p \in DOMAIN player, NEW pl \in PlayerType, pl.internal = player[p].internal,
         NEW over \in BOOLEAN, ManualUpdate(p, pl, over)
  PROVE  Inv'
  <1> DEFINE pl1 == [pl EXCEPT !.delayed = @ /\ ~over]
  <1>1. pl1 \in PlayerType /\ pl1.internal = player[p].internal
    BY DEF PlayerType
  <1>2. /\ area' = Followed /\ (Update(p, pl1, Followed) \/ Unexamined(p, pl1))
        /\ UNCHANGED <<base, grid, phase, batch, told, retiered>>
    BY DEF ManualUpdate
  <1> HIDE DEF pl1
  <1> QED BY <1>1, <1>2, UpdatingKeeps

LEMMA UpdateNativesKeep ==
  ASSUME Inv, NEW p \in Players, NEW over \in BOOLEAN,
         Streamer_Update(p, over) \/ \E x \in Places, delay \in BOOLEAN : Streamer_UpdateEx(p, x, delay, over)
  PROVE  Inv'
  <1>1. p \in DOMAIN player /\ player[p] \in PlayerType
    BY DEF Streamer_Update, Streamer_UpdateEx, Inv, TypeOK
  <1>2. CASE Streamer_Update(p, over)
    <2> DEFINE pl == [player[p] EXCEPT !.pos = player[p].here]
    <2>1. pl \in PlayerType /\ pl.internal = player[p].internal
      BY <1>1 DEF PlayerType
    <2>2. ManualUpdate(p, pl, over)
      BY <1>2 DEF Streamer_Update
    <2> HIDE DEF pl
    <2> QED BY <1>1, <2>1, <2>2, ManualUpdateKeeps
  <1>3. ASSUME NEW x \in Places, NEW delay \in BOOLEAN, Streamer_UpdateEx(p, x, delay, over) PROVE Inv'
    <2> DEFINE pl == IF delay THEN [player[p] EXCEPT !.pos = x, !.here = x, !.delayed = TRUE]
                              ELSE [player[p] EXCEPT !.pos = x]
    <2>1. pl \in PlayerType /\ pl.internal = player[p].internal
      BY <1>1 DEF PlayerType
    <2>2. ManualUpdate(p, pl, over)
      BY <1>3 DEF Streamer_UpdateEx
    <2> HIDE DEF pl
    <2> QED BY <1>1, <2>1, <2>2, ManualUpdateKeeps
  <1> QED BY <1>2, <1>3

LEMMA TickKeeps ==
  ASSUME Inv, NEW p \in Players, Tick(p)
  PROVE  Inv'
  <1>1. p \in DOMAIN player /\ player[p] \in PlayerType
    BY DEF Tick, Inv, TypeOK
  <1>2. CASE player[p].delayed
    <2>1. PICK over \in BOOLEAN : ManualUpdate(p, player[p], over)
      BY <1>2 DEF Tick
    <2> QED BY <1>1, <2>1, ManualUpdateKeeps
  <1>3. CASE ~player[p].delayed
    <2> DEFINE pl == [player[p] EXCEPT !.pos = player[p].here]
    <2>1. pl \in PlayerType /\ pl.internal = player[p].internal
      BY <1>1 DEF PlayerType
    <2>2. /\ area' = Followed /\ (Update(p, pl, Followed) \/ Unexamined(p, pl))
          /\ UNCHANGED <<base, grid, phase, batch, told, retiered>>
      BY <1>3 DEF Tick
    <2> HIDE DEF pl
    <2> QED BY <1>1, <2>1, <2>2, UpdatingKeeps
  <1> QED BY <1>2, <1>3

(* Who is taken off the record without a leave is one that scripts may     *)
(* still take to be inside.                                                *)
LEMMA ErasureKeeps ==
  ASSUME Inv, NEW p \in Players, NEW A \in SUBSET DOMAIN area, DestroyAllVisibleAreas(p, A)
  PROVE  Inv'
  <1> USE DEF Inv, Books
  <1> DEFINE gone == EventsOf(p, A \cap player[p].internal)
  <1>1. /\ p \in DOMAIN player /\ erased' = erased \cup gone
        /\ UNCHANGED <<area, base, grid, enters, leaves, phase, batch, told, rushed, nested, retiered>>
    BY DEF DestroyAllVisibleAreas, queues
  <1>2. /\ DOMAIN player' = DOMAIN player
        /\ \A q \in DOMAIN player :
             /\ player'[q] \in PlayerType
             /\ player'[q].internal = IF q = p THEN player[q].internal \ A ELSE player[q].internal
    <2> DEFINE new == [player[p] EXCEPT !.internal = @ \ A]
    <2>1. player' = [player EXCEPT ![p] = new]
      BY DEF DestroyAllVisibleAreas
    <2>2. new \in PlayerType /\ new.internal = player[p].internal \ A
      BY <1>1 DEF TypeOK, PlayerType
    <2> HIDE DEF new
    <2> QED BY <1>1, <2>1, <2>2 DEF TypeOK
  <1>3. gone \subseteq Pairs
    BY DEF EventsOf, Pairs, TypeOK
  <1>4. TypeOK'
    BY <1>1, <1>2, <1>3 DEF TypeOK, Idle
  <1>5. \A a, q : /\ In(a, q)' => In(a, q)
                  /\ In(a, q) => In(a, q)' \/ <<a, q>> \in gone
    BY <1>1, <1>2 DEF In, EventsOf
  <1>6. \A a, q : /\ LeavePending(a, q)' <=> LeavePending(a, q)
                  /\ WillKnow(a, q)' <=> WillKnow(a, q)
                  /\ <<a, q>> \in EnterPending' <=> <<a, q>> \in EnterPending
    BY <1>1 DEF LeavePending, WillKnow, EnterPending
  <1> HIDE DEF gone
  <1>7. InsideIsAnnounced'
    BY <1>1, <1>5, <1>6 DEF InsideIsAnnounced
  <1>8. LeavesAreNested' /\ OnlyAreasAreTold'
    BY <1>1 DEF LeavesAreNested, OnlyAreasAreTold
  <1>9. ToldAreInside'
    <2> SUFFICES ASSUME NEW a \in AreaIds, NEW q \in Players, <<a, q>> \notin rushed' \cup erased'
                 PROVE  /\ a \in told'[q] => In(a, q)' \/ LeavePending(a, q)'
                        /\ <<a, q>> \in EnterPending' => In(a, q)'
      BY DEF ToldAreInside
    <2>1. <<a, q>> \notin rushed \cup erased /\ <<a, q>> \notin gone
      BY <1>1
    <2> QED BY <1>1, <1>5, <1>6, <2>1 DEF ToldAreInside
  <1> QED BY <1>4, <1>7, <1>8, <1>9

-----------------------------------------------------------------------------
(* Areas and players come and go.                                          *)

LEMMA CreationKeeps ==
  ASSUME Inv, NEW shape \in Shapes, NEW x \in Places, NEW size \in Sizes, NEW audience \in Audiences,
         Create(shape, x, size, audience)
  PROVE  Inv'
  <1> USE DEF Inv, Books
  <1> DEFINE free == AreaIds \ DOMAIN area
             id == CHOOSE i \in free : \A j \in free : i <= j
  <1>1. \A spectate \in BOOLEAN : NewArea(shape, x, size, audience, spectate) \in AreaType
    <2> SUFFICES ASSUME NEW spectate \in BOOLEAN PROVE NewArea(shape, x, size, audience, spectate) \in AreaType
      OBVIOUS
    <2>1. [shape |-> shape, place |-> x, size |-> size, audience |-> audience,
           spectate |-> spectate, base |-> NoBase, at |-> x, offset |-> 0,
           heights |-> TRUE, cell |-> GlobalCell] \in AreaType
      BY SpaceAssumption, PeopleAssumption DEF AreaType, Cells
    <2> QED BY <2>1, ReassignedType DEF NewArea, TypeOK
  <1>2. PICK spectate \in BOOLEAN :
          area' = [a \in DOMAIN area \cup {id} |->
                     IF a = id THEN NewArea(shape, x, size, audience, spectate) ELSE area[a]]
    BY DEF Create, SpectateModes
  <1>3. UNCHANGED <<player, base, grid, enters, leaves, phase, batch, told, rushed, nested, retiered, erased>>
    BY DEF Create, queues, history
  <1>4. /\ DOMAIN area \subseteq DOMAIN area'
        /\ DOMAIN area' \ {id} \subseteq DOMAIN area /\ id \in AreaIds
        /\ \A a \in DOMAIN area' : area'[a] \in AreaType
    <2>1. \E i \in free : \A j \in free : i <= j
      <3>1. free \subseteq Nat /\ free # {}
        BY AreaIdsAssumption DEF Create
      <3> HIDE DEF free
      <3> QED BY <3>1, LeastInNat
    <2>2. id \in free
      BY <2>1
    <2> HIDE DEF id
    <2> QED BY <1>1, <1>2, <2>2 DEF TypeOK
  <1>5. TypeOK'
    BY <1>3, <1>4 DEF TypeOK, Idle
  <1>6. Books'
    BY <1>3, <1>4 DEF InsideIsAnnounced, In, WillKnow, LeavePending, LeavesAreNested, OnlyAreasAreTold,
                      ToldAreInside, EnterPending
  <1> QED BY <1>5, <1>6

LEMMA DestructionKeeps ==
  ASSUME Inv, NEW A \in SUBSET DOMAIN area, Destroy(A)
  PROVE  Inv'
  <1> USE DEF Inv, Books
  <1>1. /\ DOMAIN area' = DOMAIN area \ A /\ \A a \in DOMAIN area' : area'[a] = area[a]
        /\ told' = [p \in Players |-> told[p] \ A]
        /\ rushed' = rushed \cup ((A \X Players) \cap EnterPending)
        /\ retiered' = retiered \ A /\ erased' = erased \ (A \X Players)
        /\ UNCHANGED <<base, grid, enters, leaves, phase, batch, nested>>
    BY DEF Destroy, FinalAreaCallbacks, queues
  <1>2. /\ DOMAIN player' = DOMAIN player
        /\ \A p \in DOMAIN player : player'[p] \in PlayerType /\ player'[p].internal = player[p].internal \ A
    <2>1. player' = [p \in DOMAIN player |-> Forget(player[p], A)]
      BY ONLY Destroy(A) DEF Destroy
    <2>2. \A pl \in PlayerType : Forget(pl, A) \in PlayerType /\ Forget(pl, A).internal = pl.internal \ A
      BY DEF Forget, PlayerType
    <2> QED BY <2>1, <2>2 DEF TypeOK
  <1>3. TypeOK'
    <2>1. (A \X Players) \cap EnterPending \subseteq Pairs
      BY DEF TypeOK, Pairs
    <2>2. told' \in [Players -> SUBSET AreaIds]
      BY <1>1 DEF TypeOK
    <2> QED BY <1>1, <1>2, <2>1, <2>2 DEF TypeOK, Idle
  <1>4. \A a, p : In(a, p)' <=> In(a, p) /\ a \notin A
    BY <1>2 DEF In
  <1>5. \A a, p : /\ LeavePending(a, p)' <=> LeavePending(a, p)
                  /\ <<a, p>> \in EnterPending' <=> <<a, p>> \in EnterPending
    BY <1>1 DEF LeavePending, EnterPending
  <1>6. \A a \in AreaIds, p \in Players : a \in told'[p] <=> a \in told[p] /\ a \notin A
    BY <1>1
  <1>7. InsideIsAnnounced'
    <2> SUFFICES ASSUME NEW a \in AreaIds, NEW p \in Players, In(a, p)'
                 PROVE  a \in DOMAIN area' /\ WillKnow(a, p)'
      BY DEF InsideIsAnnounced
    <2>1. a \in DOMAIN area /\ WillKnow(a, p) /\ a \notin A
      BY <1>4 DEF InsideIsAnnounced
    <2>2. a \in told'[p] <=> a \in told[p]
      BY <1>6, <2>1
    <2> QED BY <1>1, <1>5, <2>1, <2>2 DEF WillKnow
  <1>8. LeavesAreNested' /\ OnlyAreasAreTold'
    BY <1>1 DEF LeavesAreNested, OnlyAreasAreTold
  <1>9. ToldAreInside'
    <2> SUFFICES ASSUME NEW a \in AreaIds, NEW p \in Players, <<a, p>> \notin rushed' \cup erased'
                 PROVE  /\ a \in told'[p] => In(a, p)' \/ LeavePending(a, p)'
                        /\ <<a, p>> \in EnterPending' => In(a, p)'
      BY DEF ToldAreInside
    <2>1. /\ <<a, p>> \notin rushed /\ ~(a \in A /\ <<a, p>> \in EnterPending)
          /\ a \notin A => <<a, p>> \notin erased
      BY <1>1
    <2>2. CASE a \in A
      BY <1>5, <1>6, <2>1, <2>2
    <2>3. CASE a \notin A
      BY <1>4, <1>5, <1>6, <2>1, <2>3 DEF ToldAreInside
    <2> QED BY <2>2, <2>3
  <1> QED BY <1>3, <1>7, <1>8, <1>9

LEMMA ConnectKeeps ==
  ASSUME Inv, NEW p \in Players, NEW x \in Places, Connect(p, x)
  PROVE  Inv'
  <1> USE DEF Inv, Books
  <1>1. /\ DOMAIN player' = DOMAIN player \cup {p} /\ p \notin DOMAIN player /\ player'[p] = NewPlayer(x)
        /\ \A q \in DOMAIN player : player'[q] = player[q]
        /\ UNCHANGED <<area, base, grid, enters, leaves, phase, batch, told, rushed, nested, retiered, erased>>
    BY DEF Connect, queues, history
  <1>2. NewPlayer(x) \in PlayerType /\ NewPlayer(x).internal = {}
    BY SpaceAssumption DEF NewPlayer, PlayerType
  <1>3. TypeOK'
    BY <1>1, <1>2 DEF TypeOK, Idle
  <1>4. \A a, q : In(a, q)' <=> In(a, q)
    BY <1>1, <1>2 DEF In
  <1>5. \A a, q : /\ LeavePending(a, q)' <=> LeavePending(a, q)
                  /\ WillKnow(a, q)' <=> WillKnow(a, q)
    BY <1>1 DEF LeavePending, WillKnow
  <1> QED BY <1>1, <1>3, <1>4, <1>5 DEF InsideIsAnnounced, LeavesAreNested, OnlyAreasAreTold, ToldAreInside, EnterPending

LEMMA DisconnectKeeps ==
  ASSUME Inv, NEW p \in Players, Disconnect(p)
  PROVE  Inv'
  <1> USE DEF Inv, Books
  <1>1. /\ DOMAIN player' = DOMAIN player \ {p} /\ \A q \in DOMAIN player' : player'[q] = player[q]
        /\ told' = [told EXCEPT ![p] = {}]
        /\ rushed' = rushed \cup ((AreaIds \X {p}) \cap EnterPending)
        /\ erased' = erased \ (AreaIds \X {p})
        /\ UNCHANGED <<area, base, grid, enters, leaves, phase, batch, nested, retiered>>
    BY DEF Disconnect, queues
  <1>2. told'[p] = {} /\ \A q \in Players \ {p} : told'[q] = told[q]
    BY <1>1 DEF TypeOK
  <1>3. TypeOK'
    <2>1. (AreaIds \X {p}) \cap EnterPending \subseteq Pairs
      BY DEF Pairs
    <2>2. told' \in [Players -> SUBSET AreaIds]
      BY <1>1 DEF TypeOK
    <2> QED BY <1>1, <2>1, <2>2 DEF TypeOK, Idle
  <1>4. \A a, q : In(a, q)' <=> In(a, q) /\ q # p
    BY <1>1 DEF In
  <1>5. \A a, q : /\ LeavePending(a, q)' <=> LeavePending(a, q)
                  /\ <<a, q>> \in EnterPending' <=> <<a, q>> \in EnterPending
    BY <1>1 DEF LeavePending, EnterPending
  <1>6. InsideIsAnnounced'
    <2> SUFFICES ASSUME NEW a \in AreaIds, NEW q \in Players, In(a, q)'
                 PROVE  a \in DOMAIN area' /\ WillKnow(a, q)'
      BY DEF InsideIsAnnounced
    <2>1. a \in DOMAIN area /\ WillKnow(a, q) /\ q # p
      BY <1>4 DEF InsideIsAnnounced
    <2> QED BY <1>1, <1>2, <1>5, <2>1 DEF WillKnow
  <1>7. LeavesAreNested' /\ OnlyAreasAreTold'
    BY <1>1, <1>2 DEF LeavesAreNested, OnlyAreasAreTold
  <1>8. ToldAreInside'
    <2> SUFFICES ASSUME NEW a \in AreaIds, NEW q \in Players, <<a, q>> \notin rushed' \cup erased'
                 PROVE  /\ a \in told'[q] => In(a, q)' \/ LeavePending(a, q)'
                        /\ <<a, q>> \in EnterPending' => In(a, q)'
      BY DEF ToldAreInside
    <2>1. /\ <<a, q>> \notin rushed /\ ~(q = p /\ <<a, q>> \in EnterPending)
          /\ q # p => <<a, q>> \notin erased
      BY <1>1
    <2>2. CASE q = p
      BY <1>2, <1>5, <2>1, <2>2
    <2>3. CASE q # p
      BY <1>2, <1>4, <1>5, <2>1, <2>3 DEF ToldAreInside
    <2> QED BY <2>2, <2>3
  <1> QED BY <1>3, <1>6, <1>7, <1>8

-----------------------------------------------------------------------------
(* Callbacks.                                                              *)

LEMMA ExecutionKeeps ==
  ASSUME Inv, ExecuteCallbacks
  PROVE  Inv'
  <1> USE DEF Inv, Books
  <1>1. /\ phase = "idle" /\ batch = {} /\ phase' = "leave" /\ batch' = leaves /\ leaves' = {}
        /\ UNCHANGED <<area, player, base, grid, enters, told, rushed, nested, retiered, erased>>
    BY DEF ExecuteCallbacks, Idle, history, TypeOK
  <1>2. TypeOK'
    BY <1>1 DEF TypeOK, Idle
  <1>3. \A a, p : /\ LeavePending(a, p)' <=> LeavePending(a, p)
                  /\ WillKnow(a, p) => WillKnow(a, p)'
    BY <1>1 DEF LeavePending, WillKnow
  <1> QED BY <1>1, <1>2, <1>3 DEF InsideIsAnnounced, LeavesAreNested, OnlyAreasAreTold, ToldAreInside, EnterPending, In

LEMMA CallbackKeeps ==
  ASSUME Inv, NEW a \in AreaIds, NEW p \in Players, Callback(a, p)
  PROVE  Inv'
  <1> USE DEF Inv, Books
  <1>1. /\ phase \in {"leave", "enter"} /\ <<a, p>> \in batch /\ batch' = batch \ {<<a, p>>}
        /\ UNCHANGED <<area, player, base, grid, enters, leaves, phase, rushed, nested, retiered, erased>>
    BY DEF Callback, Idle, TypeOK
  <1>2. /\ told' \in [Players -> SUBSET AreaIds]
        /\ \A q \in Players \ {p} : told'[q] = told[q]
        /\ a \notin DOMAIN area => told'[p] = told[p]
        /\ a \in DOMAIN area /\ phase = "leave" => told'[p] = told[p] \ {a}
        /\ a \in DOMAIN area /\ phase # "leave" => told'[p] = told[p] \cup {a}
    BY DEF Callback, TypeOK
  <1>3. TypeOK'
    BY <1>1, <1>2 DEF TypeOK, Idle
  <1>4. OnlyAreasAreTold'
    BY <1>1, <1>2 DEF OnlyAreasAreTold
  <1>5. LeavesAreNested'
    BY <1>1 DEF LeavesAreNested
  <1>6. ASSUME NEW i \in AreaIds, NEW q \in Players, <<i, q>> # <<a, p>>
        PROVE  /\ i \in told'[q] <=> i \in told[q]
               /\ <<i, q>> \in batch' <=> <<i, q>> \in batch
    BY <1>1, <1>2, <1>6
  <1>7. InsideIsAnnounced'
    <2> SUFFICES ASSUME NEW i \in AreaIds, NEW q \in Players, In(i, q)'
                 PROVE  i \in DOMAIN area' /\ WillKnow(i, q)'
      BY DEF InsideIsAnnounced
    <2>1. i \in DOMAIN area /\ WillKnow(i, q)
      BY <1>1 DEF InsideIsAnnounced, In
    <2>2. CASE <<i, q>> # <<a, p>>
      BY <1>1, <1>6, <2>1, <2>2 DEF WillKnow, LeavePending
    <2>3. CASE i = a /\ q = p /\ phase = "leave"
      BY <1>1, <2>1, <2>3 DEF WillKnow, LeavePending
    <2>4. CASE i = a /\ q = p /\ phase = "enter"
      BY <1>1, <1>2, <2>1, <2>4 DEF WillKnow, LeavePending
    <2> QED BY <1>1, <2>2, <2>3, <2>4
  <1>8. ToldAreInside'
    <2> SUFFICES ASSUME NEW i \in AreaIds, NEW q \in Players, <<i, q>> \notin rushed' \cup erased'
                 PROVE  /\ i \in told'[q] => In(i, q)' \/ LeavePending(i, q)'
                        /\ <<i, q>> \in EnterPending' => In(i, q)'
      BY DEF ToldAreInside
    <2>1. /\ i \in told[q] => In(i, q) \/ LeavePending(i, q)
          /\ <<i, q>> \in EnterPending => In(i, q)
      BY <1>1 DEF ToldAreInside
    <2>2. In(i, q)' <=> In(i, q)
      BY <1>1 DEF In
    <2>3. <<i, q>> \in EnterPending' => <<i, q>> \in EnterPending
      BY <1>1 DEF EnterPending
    <2>4. CASE <<i, q>> # <<a, p>>
      BY <1>1, <1>6, <2>1, <2>2, <2>3, <2>4 DEF LeavePending
    <2>5. CASE i = a /\ q = p /\ phase = "leave"
      <3>1. i \notin told'[q]
        BY <1>2, <2>5 DEF OnlyAreasAreTold
      <3> QED BY <2>1, <2>2, <2>3, <3>1
    <2>6. CASE i = a /\ q = p /\ phase = "enter"
      <3>1. <<i, q>> \in EnterPending
        BY <1>1, <2>6 DEF EnterPending
      <3> QED BY <2>1, <2>2, <3>1
    <2> QED BY <1>1, <2>4, <2>5, <2>6
  <1> QED BY <1>3, <1>4, <1>5, <1>7, <1>8

(* The enters follow, and here it matters that a leave queued by a leave   *)
(* callback is excepted: the enter would be told first.                    *)
LEMMA NextCallbacksKeep ==
  ASSUME Inv, NextCallbacks
  PROVE  Inv'
  <1> USE DEF Inv, Books
  <1>1. /\ phase \in {"leave", "enter"} /\ batch = {}
        /\ UNCHANGED <<area, player, base, grid, leaves, told, rushed, nested, retiered, erased>>
        /\ \/ phase = "leave" /\ phase' = "enter" /\ batch' = enters /\ enters' = {}
           \/ phase = "enter" /\ phase' = "idle" /\ batch' = {} /\ enters' = enters
    BY DEF NextCallbacks, Idle, TypeOK, history
  <1>2. TypeOK'
    BY <1>1 DEF TypeOK, Idle
  <1>3. \A a, p : /\ LeavePending(a, p)' <=> LeavePending(a, p)
                  /\ <<a, p>> \in EnterPending' <=> <<a, p>> \in EnterPending
                  /\ In(a, p)' <=> In(a, p)
    BY <1>1 DEF LeavePending, EnterPending, In
  <1>4. \A a, p : WillKnow(a, p) => WillKnow(a, p)'
    <2> SUFFICES ASSUME NEW a, NEW p, WillKnow(a, p) PROVE WillKnow(a, p)'
      OBVIOUS
    <2>1. CASE <<a, p>> \in nested
      BY <1>1, <2>1 DEF WillKnow
    <2>2. CASE <<a, p>> \in enters /\ <<a, p>> \notin nested
      <3>1. phase = "leave" => <<a, p>> \notin leaves
        BY <2>2 DEF LeavesAreNested
      <3> QED BY <1>1, <2>2, <3>1 DEF WillKnow
    <2>3. CASE a \in told[p] /\ ~LeavePending(a, p)
      BY <1>1, <1>3, <2>3 DEF WillKnow
    <2> QED BY <1>1, <2>1, <2>2, <2>3 DEF WillKnow
  <1> QED BY <1>1, <1>2, <1>3, <1>4 DEF InsideIsAnnounced, LeavesAreNested, OnlyAreasAreTold, ToldAreInside

-----------------------------------------------------------------------------
(* Every step.                                                             *)

LEMMA SmallStepsKeep ==
  ASSUME Inv,
         \/ \E p \in Players : ToggleItemUpdate(p) \/ ToggleIdleUpdate(p) \/ Spectate(p)
         \/ \E p \in Players, x \in Places : Move(p, x)
         \/ Streamer_ProcessActiveItems
         \/ \E b \in Bases, x \in Roads \cup {Nowhere} : BaseMoves(b, x)
         \/ UNCHANGED vars
  PROVE  Inv'
  <1> \A p \in DOMAIN player : player[p] \in PlayerType
    BY DEF Inv, TypeOK
  <1>1. ASSUME NEW p \in Players, NEW pl \in PlayerType, p \in DOMAIN player, pl.internal = player[p].internal,
               player' = [player EXCEPT ![p] = pl], UNCHANGED <<area, base, grid, queues, history>>
        PROVE  Inv'
    BY <1>1, OnePlayer DEF queues, history
  <1>2. ASSUME NEW p \in Players, ToggleItemUpdate(p) PROVE Inv'
    <2>1. /\ [player[p] EXCEPT !.enabled = ~@] \in PlayerType
          /\ [player[p] EXCEPT !.enabled = ~@].internal = player[p].internal
      BY <1>2 DEF ToggleItemUpdate, PlayerType
    <2>2. player' = [player EXCEPT ![p] = [player[p] EXCEPT !.enabled = ~@]]
      BY <1>2 DEF ToggleItemUpdate
    <2> QED BY <1>1, <1>2, <2>1, <2>2 DEF ToggleItemUpdate
  <1>3. ASSUME NEW p \in Players, ToggleIdleUpdate(p) PROVE Inv'
    <2>1. /\ [player[p] EXCEPT !.idle = ~@] \in PlayerType
          /\ [player[p] EXCEPT !.idle = ~@].internal = player[p].internal
      BY <1>3 DEF ToggleIdleUpdate, PlayerType
    <2>2. player' = [player EXCEPT ![p] = [player[p] EXCEPT !.idle = ~@]]
      BY <1>3 DEF ToggleIdleUpdate
    <2> QED BY <1>1, <1>3, <2>1, <2>2 DEF ToggleIdleUpdate
  <1>4. ASSUME NEW p \in Players, Spectate(p) PROVE Inv'
    <2>1. /\ [player[p] EXCEPT !.spectating = ~@] \in PlayerType
          /\ [player[p] EXCEPT !.spectating = ~@].internal = player[p].internal
      BY <1>4 DEF Spectate, PlayerType
    <2>2. player' = [player EXCEPT ![p] = [player[p] EXCEPT !.spectating = ~@]]
      BY <1>4 DEF Spectate
    <2> QED BY <1>1, <1>4, <2>1, <2>2 DEF Spectate
  <1>5. ASSUME NEW p \in Players, NEW x \in Places, Move(p, x) PROVE Inv'
    <2>1. /\ [player[p] EXCEPT !.here = x] \in PlayerType
          /\ [player[p] EXCEPT !.here = x].internal = player[p].internal
      BY <1>5 DEF Move, PlayerType
    <2>2. player' = [player EXCEPT ![p] = [player[p] EXCEPT !.here = x]]
      BY <1>5 DEF Move
    <2> QED BY <1>1, <1>5, <2>1, <2>2 DEF Move
  <1>6. CASE Streamer_ProcessActiveItems
    <2>1. DOMAIN area' = DOMAIN area /\ \A a \in DOMAIN area : area'[a] \in AreaType
      BY <1>6, AllFollowed DEF Streamer_ProcessActiveItems, Inv
    <2>2. base' \in [Bases -> Places \cup {Nowhere}] /\ grid' \in GridType /\ retiered' \subseteq AreaIds
      BY <1>6 DEF Streamer_ProcessActiveItems, history, Inv, TypeOK
    <2> QED BY <1>6, <2>1, <2>2, NobodyMoves DEF Streamer_ProcessActiveItems, queues, history
  <1>7. ASSUME NEW b \in Bases, NEW x \in Roads \cup {Nowhere}, BaseMoves(b, x) PROVE Inv'
    <2>1. base' \in [Bases -> Places \cup {Nowhere}]
      BY <1>7, SpaceAssumption DEF BaseMoves, Inv, TypeOK
    <2>2. \A a \in DOMAIN area : area[a] \in AreaType
      BY DEF Inv, TypeOK
    <2>3. UNCHANGED <<area, player, enters, leaves, phase, batch, told, rushed, nested, retiered, erased>>
      BY <1>7 DEF BaseMoves, queues, history
    <2>4. grid' \in GridType /\ retiered' \subseteq AreaIds
      BY <1>7, <2>3 DEF BaseMoves, Inv, TypeOK
    <2> QED BY <2>1, <2>2, <2>3, <2>4, NobodyMoves
  <1>8. CASE UNCHANGED vars
    <2>1. \A a \in DOMAIN area : area[a] \in AreaType
      BY DEF Inv, TypeOK
    <2>2. UNCHANGED <<area, player, base, grid, enters, leaves, phase, batch, told, rushed, nested, retiered, erased>>
      BY <1>8 DEF vars, queues, history
    <2>3. base' \in [Bases -> Places \cup {Nowhere}] /\ grid' \in GridType /\ retiered' \subseteq AreaIds
      BY <2>2 DEF Inv, TypeOK
    <2> QED BY <2>1, <2>2, <2>3, NobodyMoves
  <1> QED BY <1>2, <1>3, <1>4, <1>5, <1>6, <1>7, <1>8

(* However the grid is rebuilt.                                            *)
LEMMA GridStepKeeps ==
  ASSUME Inv, GridStep
  PROVE  Inv'
  <1>1. grid \in GridType /\ base \in [Bases -> Places \cup {Nowhere}] /\ retiered \subseteq AreaIds
        /\ DOMAIN area \subseteq AreaIds /\ \A a \in DOMAIN area : area[a] \in AreaType
    BY DEF Inv, TypeOK
  <1>2. ASSUME NEW g \in GridType, RebuildGrid(g) PROVE Inv'
    <2>1. DOMAIN area' = DOMAIN area /\ \A a \in DOMAIN area : area'[a] \in AreaType
      BY <1>1, <1>2, ReassignedType DEF RebuildGrid
    <2>2. retiered' \subseteq AreaIds
      BY <1>1, <1>2 DEF RebuildGrid, OutOfGlobalCell
    <2>3. \A p \in DOMAIN player : player[p] \in PlayerType
      BY DEF Inv, TypeOK
    <2>4. grid' \in GridType /\ UNCHANGED <<player, base, enters, leaves, phase, batch, told, rushed, nested, erased>>
      BY <1>2 DEF RebuildGrid, queues
    <2> QED BY <1>1, <2>1, <2>2, <2>3, <2>4, NobodyMoves
  <1>3. ASSUME NEW w \in CellSizes, Streamer_SetCellSize(w) PROVE Inv'
    <2>1. [grid EXCEPT !.size = w] \in GridType
      BY <1>1, GridAssumption DEF GridType
    <2> QED BY <1>2, <1>3, <2>1 DEF Streamer_SetCellSize
  <1>4. ASSUME NEW w \in CellSizes, Streamer_SetCoarseCellSize(w) PROVE Inv'
    <2>1. [grid EXCEPT !.coarseSize = w] \in GridType
      BY <1>1, GridAssumption DEF GridType
    <2> QED BY <1>2, <1>4, <2>1 DEF Streamer_SetCoarseCellSize
  <1>5. ASSUME NEW d \in CellDistances, Streamer_SetCellDistance(d) PROVE Inv'
    <2>1. d \in Nat
      BY GridAssumption
    <2>2. d * d \in Nat
      BY <2>1
    <2>3. [grid EXCEPT !.dist = d * d] \in GridType
      BY <1>1, <2>2 DEF GridType
    <2> QED BY <1>2, <1>5, <2>3 DEF Streamer_SetCellDistance
  <1>6. ASSUME NEW d \in CellDistances, Streamer_SetCoarseCellDistance(d) PROVE Inv'
    <2>1. [grid EXCEPT !.coarseDist = d] \in GridType
      BY <1>1, GridAssumption DEF GridType
    <2> QED BY <1>2, <1>6, <2>1 DEF Streamer_SetCoarseCellDistance
  <1> QED BY <1>3, <1>4, <1>5, <1>6 DEF GridStep

LEMMA PlayerStepKeeps ==
  ASSUME Inv, NEW p \in Players, PlayerStep(p)
  PROVE  Inv'
  <1>1. CASE Tick(p)
    BY <1>1, TickKeeps
  <1>2. ASSUME NEW a \in AreaIds, IsPlayerInDynamicArea(p, a) PROVE Inv'
    BY <1>2, RecheckKeeps
  <1>3. ASSUME NEW a \in AreaIds, Callback(a, p) PROVE Inv'
    BY <1>3, CallbackKeeps
  <1>4. CASE IsPlayerInAnyDynamicArea(p)
    BY <1>4, RecheckKeeps
  <1>5. ASSUME NEW over \in BOOLEAN,
               Streamer_Update(p, over) \/ \E x \in Places, delay \in BOOLEAN : Streamer_UpdateEx(p, x, delay, over)
        PROVE  Inv'
    BY <1>5, UpdateNativesKeep
  <1>6. CASE ToggleItemUpdate(p) \/ ToggleIdleUpdate(p) \/ Spectate(p)
    BY <1>6, SmallStepsKeep
  <1>7. ASSUME NEW x \in Places, Connect(p, x) PROVE Inv'
    BY <1>7, ConnectKeeps
  <1>8. ASSUME NEW x \in Places, Move(p, x) PROVE Inv'
    BY <1>8, SmallStepsKeep
  <1>9. CASE Disconnect(p)
    BY <1>9, DisconnectKeeps
  <1>10. ASSUME NEW A \in SUBSET DOMAIN area, DestroyAllVisibleAreas(p, A) PROVE Inv'
    BY <1>10, ErasureKeeps
  <1> QED BY <1>1, <1>2, <1>3, <1>4, <1>5, <1>6, <1>7, <1>8, <1>9, <1>10 DEF PlayerStep

LEMMA StepKeeps == Inv /\ [Next]_vars => Inv'
  <1> SUFFICES ASSUME Inv, [Next]_vars PROVE Inv'
    OBVIOUS
  <1>1. ASSUME NEW shape \in Shapes, NEW x \in Places, NEW size \in Sizes, NEW audience \in Audiences,
               Create(shape, x, size, audience)
        PROVE  Inv'
    BY <1>1, CreationKeeps
  <1>2. ASSUME NEW a \in AreaIds, AreaStep(a) PROVE Inv'
    BY <1>2, AreaStepKeeps
  <1>3. ASSUME NEW A \in SUBSET DOMAIN area, Destroy(A) PROVE Inv'
    BY <1>3, DestructionKeeps
  <1>4. ASSUME NEW p \in Players, PlayerStep(p) PROVE Inv'
    BY <1>4, PlayerStepKeeps
  <1>5. CASE Streamer_ProcessActiveItems \/ UNCHANGED vars
    BY <1>5, SmallStepsKeep
  <1>6. CASE ExecuteCallbacks \/ NextCallbacks
    BY <1>6, ExecutionKeeps, NextCallbacksKeep
  <1>7. ASSUME NEW b \in Bases, NEW x \in Roads \cup {Nowhere}, BaseMoves(b, x) PROVE Inv'
    BY <1>7, SmallStepsKeep
  <1>8. CASE GridStep
    BY <1>8, GridStepKeeps
  <1> QED BY <1>1, <1>2, <1>3, <1>4, <1>5, <1>6, <1>7, <1>8 DEF Next

LEMMA InvHolds == Spec => []Inv
  <1>1. Init => Inv
    BY InitKeeps
  <1>2. Inv /\ [Next]_vars => Inv'
    BY StepKeeps
  <1> QED BY <1>1, <1>2, PTL DEF Spec

(* Every variable keeps its type.                                          *)
THEOREM AreaTypes == Spec => []TypeOK
  <1>1. Inv => TypeOK
    BY DEF Inv
  <1> QED BY <1>1, InvHolds, PTL

(* Whoever is on record as being in an area is in one there is, of which   *)
(* scripts have been told or will be, unless a leave callback saw him out. *)
THEOREM InsideIsKnown == Spec => []InsideIsTold
  <1>1. Inv => InsideIsTold
    BY BooksImply
  <1> QED BY <1>1, InvHolds, PTL

(* Scripts know of nobody in an area who is not, unless a leave overtook an*)
(* enter or an enter outlived its area or player.                          *)
THEOREM OutsideIsKnown == Spec => []OutsideIsTold
  <1>1. Inv => OutsideIsTold
    BY BooksImply
  <1> QED BY <1>1, InvHolds, PTL

-----------------------------------------------------------------------------
(* Cells.                                                                  *)

(* Sizes that only the global cell takes.                                  *)
TooLarge(size, g) == ~(size <= g.dist) /\ ~(g.coarseDist > 0 /\ size <= g.coarseDist)

(* An area whose place is known.                                           *)
Located(ar) == (ar.base = NoBase \/ ar.heights) /\ PlaceOf(ar) # Nowhere

(* An area is in the global cell when it is too large for the others, and  *)
(* in the one of its place, if that is known.                              *)
FiledIn(ar, g) ==
  /\ ar.cell = GlobalCell <=> TooLarge(ar.size, g)
  /\ Located(ar) => ar.cell = CellFor(ar, g)

AllFiled == \A a \in DOMAIN area : FiledIn(area[a], grid)

(* The areas a player is in come up when he is updated, wherever he is.    *)
KeptInView ==
  \A p \in DOMAIN player : \A a \in player[p].internal \ retiered :
    a \in player[p].visible \/ area[a].cell = GlobalCell

CellInv == AllFiled /\ KeptInView

LEMMA GlobalIfTooLarge ==
  ASSUME NEW ar \in AreaType, NEW g \in GridType
  PROVE  CellFor(ar, g) = GlobalCell <=> TooLarge(ar.size, g)
  <1>1. ar.place \in Int /\ ar.at \in Int \cup {Nowhere}
    BY AreaFields, SpaceAssumption
  <1>2. PlaceOf(ar) \in Int \cup {Nowhere}
    BY <1>1 DEF PlaceOf
  <1>3. g.size \in Nat \ {0} /\ g.coarseSize \in Nat \ {0}
    BY DEF GridType
  <1>4. \A x \in Int \cup {Nowhere}, w \in Nat \ {0} : IndexOf(x, w) \in Int \cup {Nowhere}
    BY DEF IndexOf
  <1>5. \A w \in Nat \ {0} : <<w, IndexOf(PlaceOf(ar), w)>> # GlobalCell
    <2> SUFFICES ASSUME NEW w \in Nat \ {0} PROVE <<w, IndexOf(PlaceOf(ar), w)>> # GlobalCell
      OBVIOUS
    <2> DEFINE i == IndexOf(PlaceOf(ar), w)
    <2>1. i \in Int \cup {Nowhere}
      BY <1>2, <1>4
    <2> HIDE DEF i
    <2>2. <<w, i>> \in (Nat \ {0}) \X (Int \cup {Nowhere})
      BY <2>1
    <2> QED BY <2>2, GridAssumption DEF i
  <1>6. /\ <<g.size, IndexOf(PlaceOf(ar), g.size)>> # GlobalCell
        /\ <<g.coarseSize, IndexOf(PlaceOf(ar), g.coarseSize)>> # GlobalCell
    BY <1>3, <1>5
  <1> QED BY <1>6 DEF CellFor, TooLarge

(* What is filed by removeArea is.                                         *)
LEMMA ReassignedIsFiled ==
  ASSUME NEW ar \in AreaType, NEW g \in GridType
  PROVE  FiledIn(Reassigned(ar, g), g)
  <1> DEFINE new == Reassigned(ar, g)
  <1>1. /\ new.cell = CellFor(ar, g) /\ new.size = ar.size /\ new.base = ar.base
        /\ new.place = ar.place /\ new.at = ar.at
    BY DEF Reassigned, AreaType
  <1> HIDE DEF new
  <1>2. PlaceOf(new) = PlaceOf(ar)
    BY <1>1 DEF PlaceOf
  <1>3. CellFor(new, g) = CellFor(ar, g)
    BY <1>1, <1>2 DEF CellFor
  <1>4. FiledIn(new, g)
    BY <1>1, <1>3, GlobalIfTooLarge DEF FiledIn
  <1> QED BY <1>4 DEF new

(* What follows its base remains filed, on this side of the global cell,   *)
(* and its place is known then, unless the base is gone.                   *)
LEMMA FollowedIsFiled ==
  ASSUME NEW ar \in AreaType, base \in [Bases -> Places \cup {Nowhere}], grid \in GridType, FiledIn(ar, grid)
  PROVE  LET new == FollowBase(ar) IN
         /\ FiledIn(new, grid)
         /\ new.cell = GlobalCell <=> ar.cell = GlobalCell
         /\ new.base = NoBase \/ new.heights \/ PlaceOf(new) = Nowhere
  <1> DEFINE new == FollowBase(ar)
  <1>1. CASE ar.base = NoBase
    BY <1>1 DEF FollowBase
  <1>2. CASE ar.base # NoBase /\ base[ar.base] = Nowhere
    <2>1. new = [ar EXCEPT !.at = Nowhere]
      BY <1>2 DEF FollowBase
    <2>2. new.base = ar.base /\ new.at = Nowhere /\ new.cell = ar.cell /\ new.size = ar.size
      BY <2>1 DEF AreaType
    <2> HIDE DEF new
    <2>3. PlaceOf(new) = Nowhere
      BY <1>2, <2>2 DEF PlaceOf
    <2>4. FiledIn(new, grid) /\ (new.cell = GlobalCell <=> ar.cell = GlobalCell)
      BY <2>2, <2>3 DEF FiledIn, Located
    <2> QED BY <2>3, <2>4 DEF new
  <1>3. CASE ar.base # NoBase /\ base[ar.base] # Nowhere
    <2> DEFINE moved == ConstructAttachedArea(ar, base[ar.base])
    <2>1. ar.base \in Bases /\ ar.offset \in Int
      BY <1>3, AreaFields
    <2>2. base[ar.base] \in Int
      BY <1>3, <2>1, SpaceAssumption
    <2>3. base[ar.base] + ar.offset \in Int
      BY <2>1, <2>2
    <2>4. moved \in AreaType
      BY <2>3 DEF ConstructAttachedArea, AreaType
    <2>5. moved.cell = ar.cell /\ moved.size = ar.size /\ moved.heights = TRUE
      BY DEF ConstructAttachedArea, AreaType
    <2>6. new = IF ar.cell = GlobalCell THEN moved ELSE Reassigned(moved, grid)
      BY <1>3 DEF FollowBase
    <2> HIDE DEF moved, new
    <2>7. CASE ar.cell = GlobalCell
      <3>1. FiledIn(moved, grid)
        BY <2>4, <2>5, <2>7, GlobalIfTooLarge DEF FiledIn
      <3> QED BY <2>5, <2>6, <2>7, <3>1 DEF new
    <2>8. CASE ar.cell # GlobalCell
      <3>0. new = Reassigned(moved, grid)
        BY <2>6, <2>8
      <3>1. FiledIn(new, grid) /\ new.size = moved.size /\ new.heights
        <4>1. FiledIn(new, grid)
          BY <2>4, <3>0, ReassignedIsFiled
        <4>2. new.size = moved.size /\ new.heights = moved.heights
          BY <2>4, <3>0 DEF Reassigned, AreaType
        <4> QED BY <2>5, <4>1, <4>2
      <3>2. new.cell # GlobalCell
        BY <2>5, <2>8, <3>1 DEF FiledIn
      <3> QED BY <2>8, <3>1, <3>2 DEF new
    <2> QED BY <2>7, <2>8
  <1> QED BY <1>1, <1>2, <1>3

LEMMA FollowedAreFiled ==
  ASSUME Inv, AllFiled
  PROVE  /\ DOMAIN Followed = DOMAIN area
         /\ \A a \in DOMAIN area :
              LET new == Followed[a] IN
              /\ new \in AreaType /\ FiledIn(new, grid)
              /\ new.cell = GlobalCell <=> area[a].cell = GlobalCell
              /\ new.base = NoBase \/ new.heights \/ PlaceOf(new) = Nowhere
  <1>1. \A a \in DOMAIN area : area[a] \in AreaType /\ FiledIn(area[a], grid)
    BY DEF Inv, TypeOK, AllFiled
  <1>2. \A a \in DOMAIN area : Followed[a] = FollowBase(area[a])
    BY DEF Followed
  <1>3. base \in [Bases -> Places \cup {Nowhere}] /\ grid \in GridType
    BY DEF Inv, TypeOK
  <1> SUFFICES ASSUME NEW a \in DOMAIN area
               PROVE  LET new == Followed[a] IN
                      /\ new \in AreaType /\ FiledIn(new, grid)
                      /\ new.cell = GlobalCell <=> area[a].cell = GlobalCell
                      /\ new.base = NoBase \/ new.heights \/ PlaceOf(new) = Nowhere
    BY AllFollowed DEF Inv
  <1> DEFINE new == FollowBase(area[a])
  <1>4. /\ FiledIn(new, grid)
        /\ new.cell = GlobalCell <=> area[a].cell = GlobalCell
        /\ new.base = NoBase \/ new.heights \/ PlaceOf(new) = Nowhere
    BY <1>1, <1>3, FollowedIsFiled
  <1>5. Followed[a] \in AreaType
    BY AllFollowed DEF Inv
  <1> QED BY <1>2, <1>4, <1>5

-----------------------------------------------------------------------------
(* Where areas reach.                                                      *)

LEMMA SquaresGrow ==
  ASSUME NEW d \in Int, NEW s \in Nat, d >= s
  PROVE  d * d >= s * s
  <1>1. d * s >= s * s /\ d * d >= d * s
    OBVIOUS
  <1> QED BY <1>1

LEMMA SquareIsNat ==
  ASSUME NEW d \in Int
  PROVE  d * d \in Nat /\ (-d) * (-d) = d * d
  OBVIOUS

(* An area reaches no further than its size.                               *)
LEMMA ReachOfArea ==
  ASSUME NEW d \in Int, NEW s \in Nat, NEW w \in Nat \ {0}, s <= w,
         d * d < s * s \/ 4 * d * d <= s * s
  PROVE  d < w /\ -d < w
  <1>1. d >= w => FALSE
    <2> SUFFICES ASSUME d >= w PROVE FALSE
      OBVIOUS
    <2>1. d * d >= w * w /\ w * w >= s * s /\ w * w > 0 /\ d * d > 0
      BY SquaresGrow
    <2>2. 4 * d * d = 4 * (d * d)
      OBVIOUS
    <2> QED BY <2>1, <2>2, SquareIsNat
  <1>2. -d >= w => FALSE
    <2> SUFFICES ASSUME -d >= w PROVE FALSE
      OBVIOUS
    <2>1. (-d) * (-d) >= w * w /\ w * w >= s * s /\ w * w > 0
      BY SquaresGrow
    <2>2. 4 * d * d = 4 * (d * d) /\ (-d) * (-d) = d * d
      OBVIOUS
    <2> QED BY <2>1, <2>2, SquareIsNat
  <1> QED BY <1>1, <1>2

(* What is less than a cell away is in a cell next to it.                  *)
LEMMA NextCell ==
  ASSUME NEW x \in Int, NEW y \in Int, NEW w \in Nat \ {0}, x - y < w
  PROVE  x \div w <= (y \div w) + 1
  <1> DEFINE p == x \div w
             q == y \div w
  <1>1. p \in Int /\ q \in Int /\ w * p <= x /\ y < w * q + w
    OBVIOUS
  <1> HIDE DEF p, q
  <1>2. w * p < w * q + w + w
    BY <1>1
  <1>3. p >= q + 2 => FALSE
    <2> SUFFICES ASSUME p >= q + 2 PROVE FALSE
      OBVIOUS
    <2>1. w * p >= w * (q + 2)
      BY <1>1
    <2>2. w * (q + 2) = w * q + w + w
      BY <1>1
    <2> QED BY <1>1, <1>2, <2>1, <2>2
  <1>4. p <= q + 1
    BY <1>1, <1>3
  <1> QED BY <1>4 DEF p, q

(* Whoever is in an area that is filed and fits its cell is near the cell. *)
LEMMA InsideIsAround ==
  ASSUME NEW ar \in AreaType, NEW g \in GridType, FiledIn(ar, g), Located(ar), Covered(ar),
         NEW x \in Places, IsPointInArea(x, ar)
  PROVE  Around(x, ar.cell)
  <1>1. CASE ar.cell = GlobalCell
    BY <1>1 DEF Around
  <1>2. CASE ar.cell # GlobalCell
    <2> DEFINE c == PlaceOf(ar)
    <2>1. ar.place \in Int /\ ar.at \in Int \cup {Nowhere} /\ ar.size \in Nat /\ x \in Int
      BY AreaFields, SpaceAssumption
    <2>2. c \in Int /\ c # Nowhere
      BY <2>1, SpaceAssumption DEF PlaceOf, Located
    <2>3. PICK w \in Nat \ {0} : ar.cell = <<w, IndexOf(c, w)>>
      BY <1>2 DEF FiledIn, CellFor, GridType
    <2>4. ar.size <= w
      BY <1>2, <2>3 DEF Covered
    <2>5. (x - c) * (x - c) < ar.size * ar.size \/ 4 * (x - c) * (x - c) <= ar.size * ar.size
      BY DEF IsPointInArea
    <2>6. ar.cell[1] = w /\ ar.cell[2] = c \div w
      BY <2>2, <2>3 DEF IndexOf
    <2> HIDE DEF c
    <2>7. x - c < w /\ -(x - c) < w /\ x - c \in Int
      BY <2>1, <2>2, <2>4, <2>5, ReachOfArea
    <2>8. x \div w <= (c \div w) + 1 /\ c \div w <= (x \div w) + 1
      <3>1. x - c < w /\ c - x < w /\ x \in Int /\ c \in Int
        BY <2>1, <2>2, <2>7
      <3>2. x \div w <= (c \div w) + 1
        BY ONLY <3>1, NextCell
      <3>3. c \div w <= (x \div w) + 1
        BY ONLY <3>1, NextCell
      <3> QED BY <3>2, <3>3
    <2>9. c \div w \in Int /\ x \div w \in Int
      BY <2>1, <2>2
    <2>10. c \div w # Nowhere
      BY <2>9, SpaceAssumption
    <2> QED BY <2>6, <2>8, <2>9, <2>10 DEF Around
  <1> QED BY <1>1, <1>2

(* A line that begins or ends in an area meets it.                         *)
LEMMA EndsMeet ==
  ASSUME NEW ar \in AreaType, NEW x \in Places, NEW y \in Places,
         IsPointInArea(x, ar) \/ IsPointInArea(y, ar)
  PROVE  DoesLineIntersect(x, y, ar)
  <1> DEFINE c == PlaceOf(ar)
             a == x - c
             b == y - c
             d == IF (x <= c /\ c <= y) \/ (y <= c /\ c <= x) THEN 0
                  ELSE IF a * a < b * b THEN a ELSE b
             S == ar.size * ar.size
  <1>1. ar.place \in Int /\ ar.at \in Int \cup {Nowhere} /\ ar.size \in Nat /\ x \in Int /\ y \in Int
    BY AreaFields, SpaceAssumption
  <1>2. c \in Int /\ c # Nowhere
    BY <1>1 DEF PlaceOf, IsPointInArea
  <1>3. a \in Int /\ b \in Int /\ S \in Nat
    BY <1>1, <1>2, SquareIsNat
  <1>4. d \in Int /\ d * d <= a * a /\ d * d <= b * b
    <2>1. a * a \in Nat /\ b * b \in Nat /\ 0 * 0 = 0
      BY <1>3, SquareIsNat
    <2>2. d = 0 \/ (d = a /\ a * a < b * b) \/ (d = b /\ ~(a * a < b * b))
      OBVIOUS
    <2> HIDE DEF a, b, c, d
    <2>3. CASE d = 0
      BY <2>1, <2>3
    <2>4. CASE d = a /\ a * a < b * b
      BY <1>3, <2>1, <2>4
    <2>5. CASE d = b /\ ~(a * a < b * b)
      BY <1>3, <2>1, <2>5
    <2> QED BY <2>2, <2>3, <2>4, <2>5
  <1>5. \/ ar.shape \in Round /\ (a * a < S \/ b * b < S)
        \/ ar.shape \notin Round /\ (4 * a * a <= S \/ 4 * b * b <= S)
    BY DEF IsPointInArea
  <1>6. IF ar.shape \in Round THEN d * d <= S ELSE 4 * d * d <= S
    <2> HIDE DEF a, b, c, d, S
    <2>1. a * a \in Nat /\ b * b \in Nat /\ d * d \in Nat
      BY <1>3, <1>4, SquareIsNat
    <2>2. 4 * a * a = 4 * (a * a) /\ 4 * b * b = 4 * (b * b) /\ 4 * d * d = 4 * (d * d)
      BY <1>3, <1>4
    <2>3. CASE ar.shape \in Round
      BY <1>3, <1>4, <1>5, <2>1, <2>3
    <2>4. CASE ar.shape \notin Round
      BY <1>3, <1>4, <1>5, <2>1, <2>2, <2>4
    <2> QED BY <2>3, <2>4
  <1> QED BY <1>2, <1>6 DEF DoesLineIntersect

LEMMA CellsImply == Inv /\ CellInv => PointQueriesAgree
  <1> SUFFICES ASSUME Inv, CellInv, NEW x \in Places
               PROVE  /\ \A a \in AreasAtPoint(x) \ AreasForPoint(x) :
                           ~Covered(area[a]) \/ (area[a].base # NoBase /\ ~area[a].heights)
                      /\ \A y \in Places : \A L \in AreasForLine(x, y) :
                           \A a \in (AreasAtPoint(x) \cup AreasAtPoint(y)) \ L :
                             area[a].base # NoBase /\ area[a].shape \in Tall
    BY DEF PointQueriesAgree
  <1>1. ASSUME NEW a \in AreasAtPoint(x), Covered(area[a]), area[a].base = NoBase \/ area[a].heights
        PROVE  a \in AreasForPoint(x)
    <2>1. a \in DOMAIN area /\ IsPointInArea(x, area[a]) /\ area[a] \in AreaType /\ grid \in GridType
      BY DEF AreasAtPoint, Inv, TypeOK
    <2>2. FiledIn(area[a], grid)
      BY <2>1 DEF CellInv, AllFiled
    <2>3. Located(area[a])
      BY <1>1, <2>1 DEF Located, IsPointInArea
    <2>4. Around(x, area[a].cell)
      BY <1>1, <2>1, <2>2, <2>3, InsideIsAround
    <2> QED BY <2>1, <2>4 DEF AreasForPoint
  <1>2. ASSUME NEW y \in Places, NEW L \in AreasForLine(x, y), NEW a \in AreasAtPoint(x) \cup AreasAtPoint(y),
               ~(area[a].base # NoBase /\ area[a].shape \in Tall)
        PROVE  a \in L
    <2>1. /\ a \in DOMAIN area /\ area[a] \in AreaType
          /\ IsPointInArea(x, area[a]) \/ IsPointInArea(y, area[a])
      BY DEF AreasAtPoint, Inv, TypeOK
    <2>2. DoesLineIntersect(x, y, area[a])
      BY <2>1, EndsMeet
    <2>3. LineVerdicts(x, y, area[a]) = {DoesLineIntersect(x, y, area[a])}
      BY <1>2 DEF LineVerdicts
    <2>4. \E v \in LineVerdicts(x, y, area[a]) : (a \in L) = v
      BY <2>1 DEF AreasForLine
    <2> QED BY <2>2, <2>3, <2>4
  <1> QED BY <1>1, <1>2

-----------------------------------------------------------------------------
(* Every step keeps areas filed and in view, and is exact.                 *)

Exact ==
  \A p \in DOMAIN player \cap DOMAIN player' :
    player'[p].enabled /\ player'[p].pos # player[p].pos =>
      LET Inside == {a \in DOMAIN area' \ retiered :
                       /\ SatisfiesConditions(p, player'[p], area'[a])
                       /\ IsPointInArea(player'[p].pos, area'[a])}
      IN /\ player'[p].internal \ retiered \subseteq Inside
         /\ \A a \in Inside : Covered(area'[a]) => a \in player'[p].internal

CellsKept == CellInv' /\ Exact

(* The areas someone is in exist.                                          *)
LEMMA InsideExists ==
  ASSUME Inv, NEW p \in DOMAIN player, NEW a \in player[p].internal
  PROVE  a \in DOMAIN area /\ a \in AreaIds
  <1>1. p \in Players /\ a \in AreaIds
    BY DEF Inv, TypeOK, PlayerType
  <1> QED BY <1>1 DEF Inv, Books, InsideIsAnnounced, In

LEMMA ViewKept ==
  ASSUME Inv, CellInv, retiered \subseteq retiered',
         \A p \in DOMAIN player' :
           \/ player'[p].internal = {}
           \/ /\ p \in DOMAIN player
              /\ player'[p].internal = player[p].internal /\ player'[p].visible = player[p].visible,
         \A p \in DOMAIN player : \A a \in player[p].internal \ retiered' :
           area[a].cell = GlobalCell => area'[a].cell = GlobalCell
  PROVE  KeptInView'
  BY DEF CellInv, KeptInView

(* A step after which nobody is taken to be elsewhere.                     *)
LEMMA NobodyIsElsewhere ==
  ASSUME \A p \in DOMAIN player \cap DOMAIN player' : player'[p].pos = player[p].pos
  PROVE  Exact
  BY DEF Exact

(* What only depends on where an area is and how large.                    *)
LEMMA FiledAlike ==
  ASSUME NEW ar, NEW new, NEW g, FiledIn(ar, g), new.size = ar.size, new.base = ar.base, new.heights = ar.heights,
         new.place = ar.place, new.at = ar.at, new.cell = ar.cell
  PROVE  FiledIn(new, g)
  BY DEF FiledIn, Located, CellFor, PlaceOf

(* One area is changed.                                                    *)
LEMMA OneAreaFiled ==
  ASSUME Inv, CellInv, NEW a \in DOMAIN area, NEW new, area' = [area EXCEPT ![a] = new], FiledIn(new, grid),
         UNCHANGED <<player, grid>>, retiered \subseteq retiered',
         \/ area[a].cell = GlobalCell => new.cell = GlobalCell
         \/ OutOfGlobalCell(area, area') \subseteq retiered'
  PROVE  CellsKept
  <1>1. /\ DOMAIN area' = DOMAIN area /\ area'[a] = new
        /\ \A i \in DOMAIN area : i # a => area'[i] = area[i]
    OBVIOUS
  <1>2. AllFiled'
    BY <1>1 DEF CellInv, AllFiled, FiledIn, TooLarge, Located, CellFor
  <1>3. ASSUME NEW p \in DOMAIN player, NEW i \in player[p].internal \ retiered', area[i].cell = GlobalCell
        PROVE  area'[i].cell = GlobalCell
    <2>1. i \in DOMAIN area
      BY InsideExists
    <2>2. CASE i # a
      BY <1>1, <1>3, <2>1, <2>2
    <2>3. CASE i = a
      BY <1>1, <1>3, <2>1, <2>3 DEF OutOfGlobalCell
    <2> QED BY <2>2, <2>3
  <1>4. KeptInView'
    BY <1>3, ViewKept
  <1> QED BY <1>2, <1>4, NobodyIsElsewhere DEF CellsKept, CellInv

LEMMA AreaStepFiles ==
  ASSUME Inv, CellInv, NEW a \in AreaIds, AreaStep(a)
  PROVE  CellsKept
  <1> DEFINE ar == area[a]
  <1>0. a \in DOMAIN area /\ UNCHANGED <<player, grid>>
    BY DEF AreaStep, Attach, SetAttachData, Detach, SetSize, SetItemPos, ToggleDynAreaSpectateMode, SetAudience
  <1>1. ar \in AreaType /\ grid \in GridType /\ FiledIn(ar, grid)
    BY <1>0 DEF Inv, TypeOK, CellInv, AllFiled
  <1>2. ASSUME NEW b \in Bases, NEW o \in Offsets, Attach(a, b, o) PROVE CellsKept
    <2> DEFINE s == [ar EXCEPT !.base = b, !.at = ar.place, !.offset = o, !.heights = FALSE]
    <2>1. s.base = b /\ s.heights = FALSE /\ s.cell = ar.cell /\ s.size = ar.size
      BY <1>1 DEF AreaType
    <2>2. area' = [area EXCEPT ![a] = s] /\ retiered' = retiered
      BY <1>2 DEF Attach, history
    <2> HIDE DEF s
    <2>3. FiledIn(s, grid)
      BY <1>1, <2>1, PeopleAssumption DEF FiledIn, Located
    <2> QED BY <1>0, <2>1, <2>2, <2>3, OneAreaFiled
  <1>3. ASSUME NEW b \in Bases, SetAttachData(a, b) PROVE CellsKept
    BY <1>2, <1>3 DEF SetAttachData
  <1>4. ASSUME NEW new \in AreaType, area' = [area EXCEPT ![a] = Reassigned(new, grid)], retiered \subseteq retiered',
               new.size = ar.size \/ OutOfGlobalCell(area, area') \subseteq retiered'
        PROVE  CellsKept
    <2> DEFINE s == Reassigned(new, grid)
    <2>1. FiledIn(s, grid) /\ s.size = new.size
      BY <1>1, ReassignedIsFiled DEF Reassigned, AreaType
    <2>2. area' = [area EXCEPT ![a] = s]
      BY <1>4
    <2> HIDE DEF s
    <2>3. new.size = ar.size => (ar.cell = GlobalCell => s.cell = GlobalCell)
      BY <1>1, <2>1 DEF FiledIn
    <2> QED BY <1>0, <1>4, <2>1, <2>2, <2>3, OneAreaFiled
  <1>5. ASSUME NEW b \in Bases, Detach(a, b) PROVE CellsKept
    <2>1. [ar EXCEPT !.base = NoBase] \in AreaType /\ [ar EXCEPT !.base = NoBase].size = ar.size
      BY <1>1 DEF AreaType
    <2>2. area' = [area EXCEPT ![a] = Reassigned([ar EXCEPT !.base = NoBase], grid)] /\ retiered' = retiered
      BY <1>5 DEF Detach, history
    <2> QED BY <1>4, <2>1, <2>2
  <1>6. ASSUME NEW size \in Sizes, SetSize(a, size) PROVE CellsKept
    <2>1. [ar EXCEPT !.size = size] \in AreaType
      BY <1>1 DEF AreaType
    <2>2. /\ area' = [area EXCEPT ![a] = Reassigned([ar EXCEPT !.size = size], grid)]
          /\ retiered' = retiered \cup OutOfGlobalCell(area, area')
      BY <1>6 DEF SetSize
    <2>3. retiered \subseteq retiered' /\ OutOfGlobalCell(area, area') \subseteq retiered'
      BY <2>2
    <2> QED BY <1>4, <2>1, <2>2, <2>3
  <1>7. ASSUME NEW x \in Places, SetItemPos(a, x) PROVE CellsKept
    <2>1. [ar EXCEPT !.place = x] \in AreaType /\ [ar EXCEPT !.place = x].size = ar.size
      BY <1>1 DEF AreaType
    <2>2. area' = [area EXCEPT ![a] = Reassigned([ar EXCEPT !.place = x], grid)] /\ retiered' = retiered
      BY <1>7 DEF SetItemPos, history
    <2> QED BY <1>4, <2>1, <2>2
  <1>8. ASSUME NEW s, area' = [area EXCEPT ![a] = s], retiered' = retiered, s.size = ar.size, s.base = ar.base,
               s.heights = ar.heights, s.place = ar.place, s.at = ar.at, s.cell = ar.cell
        PROVE  CellsKept
    <2>1. FiledIn(s, grid)
      BY <1>1, <1>8, FiledAlike
    <2> QED BY <1>0, <1>8, <2>1, OneAreaFiled
  <1>9. CASE ToggleDynAreaSpectateMode(a)
    <2> DEFINE s == [ar EXCEPT !.spectate = ~@]
    <2>1. /\ s.size = ar.size /\ s.base = ar.base /\ s.heights = ar.heights
          /\ s.place = ar.place /\ s.at = ar.at /\ s.cell = ar.cell
      BY <1>1 DEF AreaType
    <2>2. area' = [area EXCEPT ![a] = s] /\ retiered' = retiered
      BY <1>9 DEF ToggleDynAreaSpectateMode, history
    <2> HIDE DEF s
    <2> QED BY <1>8, <2>1, <2>2
  <1>10. ASSUME NEW audience \in Audiences, SetAudience(a, audience) PROVE CellsKept
    <2> DEFINE s == [ar EXCEPT !.audience = audience]
    <2>1. /\ s.size = ar.size /\ s.base = ar.base /\ s.heights = ar.heights
          /\ s.place = ar.place /\ s.at = ar.at /\ s.cell = ar.cell
      BY <1>1 DEF AreaType
    <2>2. area' = [area EXCEPT ![a] = s] /\ retiered' = retiered
      BY <1>10 DEF SetAudience, history
    <2> HIDE DEF s
    <2> QED BY <1>8, <2>1, <2>2
  <1> QED BY <1>2, <1>3, <1>5, <1>6, <1>7, <1>9, <1>10 DEF AreaStep

LEMMA GridStepFiles ==
  ASSUME Inv, CellInv, GridStep
  PROVE  CellsKept
  <1>0. grid' \in GridType
    BY GridStepKeeps DEF Inv, TypeOK
  <1>1. PICK g : RebuildGrid(g)
    BY DEF GridStep, Streamer_SetCellSize, Streamer_SetCellDistance, Streamer_SetCoarseCellSize,
           Streamer_SetCoarseCellDistance
  <1>2. /\ grid' = g /\ area' = [a \in DOMAIN area |-> Reassigned(area[a], g)] /\ player' = player
        /\ retiered' = retiered \cup OutOfGlobalCell(area, area')
    BY <1>1 DEF RebuildGrid
  <1>3. \A a \in DOMAIN area : area[a] \in AreaType
    BY DEF Inv, TypeOK
  <1>4. DOMAIN area' = DOMAIN area /\ \A a \in DOMAIN area : FiledIn(area'[a], grid')
    BY <1>0, <1>2, <1>3, ReassignedIsFiled
  <1>5. AllFiled'
    BY <1>4 DEF AllFiled, FiledIn, TooLarge, Located, CellFor
  <1>6. \A p \in DOMAIN player : \A a \in player[p].internal \ retiered' :
          area[a].cell = GlobalCell => area'[a].cell = GlobalCell
    BY <1>2, InsideExists DEF OutOfGlobalCell
  <1>7. KeptInView'
    BY <1>2, <1>6, ViewKept
  <1> QED BY <1>2, <1>5, <1>7, NobodyIsElsewhere DEF CellsKept, CellInv

LEMMA CreationFiles ==
  ASSUME Inv, CellInv, NEW shape \in Shapes, NEW x \in Places, NEW size \in Sizes, NEW audience \in Audiences,
         Create(shape, x, size, audience)
  PROVE  CellsKept
  <1> DEFINE free == AreaIds \ DOMAIN area
             id == CHOOSE i \in free : \A j \in free : i <= j
  <1>1. PICK spectate \in BOOLEAN :
          area' = [a \in DOMAIN area \cup {id} |->
                     IF a = id THEN NewArea(shape, x, size, audience, spectate) ELSE area[a]]
    BY DEF Create, SpectateModes
  <1>2. UNCHANGED <<player, grid, retiered>> /\ grid \in GridType
    BY DEF Create, history, Inv, TypeOK
  <1>3. FiledIn(NewArea(shape, x, size, audience, spectate), grid)
    <2>1. [shape |-> shape, place |-> x, size |-> size, audience |-> audience,
           spectate |-> spectate, base |-> NoBase, at |-> x, offset |-> 0,
           heights |-> TRUE, cell |-> GlobalCell] \in AreaType
      BY SpaceAssumption, PeopleAssumption DEF AreaType, Cells
    <2> QED BY <1>2, <2>1, ReassignedIsFiled DEF NewArea
  <1>4. id \notin DOMAIN area
    <2>1. free \subseteq Nat /\ free # {}
      BY AreaIdsAssumption DEF Create
    <2>2. \E i \in free : \A j \in free : i <= j
      <3> HIDE DEF free
      <3> QED BY <2>1, LeastInNat
    <2> QED BY <2>2
  <1> HIDE DEF id
  <1>5. /\ DOMAIN area' = DOMAIN area \cup {id} /\ area'[id] = NewArea(shape, x, size, audience, spectate)
        /\ \A a \in DOMAIN area : area'[a] = area[a]
    BY <1>1, <1>4
  <1>6. \A a \in DOMAIN area' : FiledIn(area'[a], grid)
    BY <1>3, <1>5 DEF CellInv, AllFiled
  <1>7. AllFiled'
    BY <1>2, <1>6 DEF AllFiled, FiledIn, TooLarge, Located, CellFor
  <1>8. KeptInView'
    BY <1>2, <1>5, InsideExists, ViewKept
  <1> QED BY <1>2, <1>7, <1>8, NobodyIsElsewhere DEF CellsKept, CellInv

LEMMA DestructionFiles ==
  ASSUME Inv, CellInv, NEW A \in SUBSET DOMAIN area, Destroy(A)
  PROVE  CellsKept
  <1>1. /\ DOMAIN area' = DOMAIN area \ A /\ \A a \in DOMAIN area' : area'[a] = area[a]
        /\ retiered' = retiered \ A /\ grid' = grid
    BY ONLY Destroy(A) DEF Destroy
  <1>2. /\ DOMAIN player' = DOMAIN player
        /\ \A p \in DOMAIN player : /\ player'[p].internal = player[p].internal \ A
                                    /\ player'[p].visible = player[p].visible \ A
                                    /\ player'[p].pos = player[p].pos
    BY DEF Destroy, Forget, Inv, TypeOK, PlayerType
  <1>3. AllFiled'
    BY <1>1 DEF CellInv, AllFiled, FiledIn, TooLarge, Located, CellFor
  <1>4. KeptInView'
    <2> SUFFICES ASSUME NEW p \in DOMAIN player, NEW a \in player'[p].internal \ retiered'
                 PROVE  a \in player'[p].visible \/ area'[a].cell = GlobalCell
      BY <1>2 DEF KeptInView
    <2>1. a \in player[p].internal \ retiered /\ a \notin A
      BY <1>1, <1>2
    <2>2. a \in DOMAIN area'
      BY <1>1, <2>1, InsideExists
    <2> QED BY <1>1, <1>2, <2>1, <2>2 DEF CellInv, KeptInView
  <1> QED BY <1>2, <1>3, <1>4, NobodyIsElsewhere DEF CellsKept, CellInv

(* A player who is examined keeps in view what he is found to be in.       *)
LEMMA ExaminationFiles ==
  ASSUME Inv, CellInv, NEW p \in DOMAIN player, NEW A \in SUBSET DOMAIN area, NEW I \in SUBSET A,
         player' = [player EXCEPT ![p] = Examined(player[p], A, I, area)], UNCHANGED <<area, grid, retiered>>
  PROVE  CellsKept
  <1> DEFINE new == Examined(player[p], A, I, area)
  <1>1. /\ new.internal = (player[p].internal \ A) \cup I /\ new.pos = player[p].pos
        /\ new.visible = player[p].visible \cup {a \in I : area[a].cell # GlobalCell}
    BY DEF Examined, Inv, TypeOK, PlayerType
  <1>2. /\ DOMAIN player' = DOMAIN player /\ player'[p] = new
        /\ \A q \in DOMAIN player : q # p => player'[q] = player[q]
    OBVIOUS
  <1> HIDE DEF new
  <1>3. AllFiled'
    BY DEF CellInv, AllFiled, FiledIn, TooLarge, Located, CellFor
  <1>4. KeptInView'
    <2> SUFFICES ASSUME NEW q \in DOMAIN player, NEW a \in player'[q].internal \ retiered
                 PROVE  a \in player'[q].visible \/ area[a].cell = GlobalCell
      BY <1>2 DEF KeptInView
    <2>1. CASE q # p
      BY <1>2, <2>1 DEF CellInv, KeptInView
    <2>2. CASE q = p
      BY <1>1, <1>2, <2>2 DEF CellInv, KeptInView
    <2> QED BY <2>1, <2>2
  <1>5. Exact
    BY <1>1, <1>2, NobodyIsElsewhere
  <1> QED BY <1>3, <1>4, <1>5 DEF CellsKept, CellInv

LEMMA RecheckFiles ==
  ASSUME Inv, CellInv, NEW p \in Players,
         (\E a \in AreaIds : IsPlayerInDynamicArea(p, a)) \/ IsPlayerInAnyDynamicArea(p)
  PROVE  CellsKept
  <1>1. p \in DOMAIN player /\ UNCHANGED <<area, grid, retiered>>
    BY DEF IsPlayerInDynamicArea, IsPlayerInAnyDynamicArea, Recheck
  <1>2. \E A \in SUBSET DOMAIN area : \E I \in SUBSET A :
          player' = [player EXCEPT ![p] = Examined(player[p], A, I, area)]
    <2>1. ASSUME NEW a \in AreaIds, IsPlayerInDynamicArea(p, a)
          PROVE  \E A \in SUBSET DOMAIN area : \E I \in SUBSET A :
                   player' = [player EXCEPT ![p] = Examined(player[p], A, I, area)]
      <3>1. PICK I \in Outcomes(p, player[p], {a}, area) :
              player' = [player EXCEPT ![p] = Examined(player[p], {a}, I, area)]
        BY <2>1 DEF IsPlayerInDynamicArea, Recheck
      <3>2. {a} \in SUBSET DOMAIN area /\ I \in SUBSET {a}
        BY <2>1, OutcomesAreParts DEF IsPlayerInDynamicArea
      <3> QED BY <3>1, <3>2
    <2>2. CASE IsPlayerInAnyDynamicArea(p)
      <3>1. PICK I \in Outcomes(p, player[p], DOMAIN area, area) :
              \E A \in IF I = {} THEN {DOMAIN area}
                       ELSE {R \in SUBSET DOMAIN area : Cardinality(R \cap I) = 1} :
                player' = [player EXCEPT ![p] = Examined(player[p], A, I \cap A, area)]
        BY <2>2 DEF IsPlayerInAnyDynamicArea
      <3>2. PICK A \in SUBSET DOMAIN area :
              player' = [player EXCEPT ![p] = Examined(player[p], A, I \cap A, area)]
        BY <3>1
      <3>3. I \cap A \in SUBSET A
        OBVIOUS
      <3> QED BY <3>2, <3>3
    <2> QED BY <2>1, <2>2
  <1> QED BY <1>1, <1>2, ExaminationFiles

(* A player who is updated is left in what he is in then, for all that is  *)
(* on record of him comes up, and all that he is in and fits its cell.     *)
LEMMA UpdateFiles ==
  ASSUME Inv, CellInv, NEW p \in DOMAIN player, NEW pl \in PlayerType,
         pl.internal = player[p].internal, pl.visible = player[p].visible,
         area' = Followed, Update(p, pl, Followed), UNCHANGED <<grid, retiered>>
  PROVE  CellsKept
  <1> DEFINE A == Found(pl, Followed)
             q == [pl EXCEPT !.visible = {}]
             In1(a) == SatisfiesConditions(p, pl, Followed[a]) /\ IsPointInArea(pl.pos, Followed[a])
  <1>1. PICK I \in Outcomes(p, pl, A, Followed) : player' = [player EXCEPT ![p] = Examined(q, A, I, Followed)]
    BY DEF Update
  <1> DEFINE new == Examined(q, A, I, Followed)
  <1>2. /\ new.internal = (player[p].internal \ A) \cup I /\ new.pos = pl.pos /\ new.spectating = pl.spectating
        /\ new.visible = {a \in I : Followed[a].cell # GlobalCell}
    BY DEF Examined, PlayerType
  <1>3. /\ DOMAIN player' = DOMAIN player /\ player'[p] = new
        /\ \A r \in DOMAIN player : r # p => player'[r] = player[r]
    BY <1>1
  <1>4. /\ DOMAIN Followed = DOMAIN area
        /\ \A a \in DOMAIN area :
             /\ Followed[a] \in AreaType /\ FiledIn(Followed[a], grid)
             /\ Followed[a].cell = GlobalCell <=> area[a].cell = GlobalCell
             /\ Followed[a].base = NoBase \/ Followed[a].heights \/ PlaceOf(Followed[a]) = Nowhere
    BY FollowedAreFiled DEF CellInv
  <1>5. I \subseteq A /\ A \subseteq DOMAIN area
    BY <1>4, OutcomesAreParts DEF Found
  <1>6. ASSUME NEW a \in player[p].internal \ retiered PROVE a \in A
    <2>1. a \in DOMAIN area
      BY InsideExists
    <2>2. a \in pl.visible \/ area[a].cell = GlobalCell
      BY DEF CellInv, KeptInView
    <2> QED BY <1>4, <2>1, <2>2 DEF Found, Around
  <1>7. ASSUME NEW a \in I PROVE In1(a)
    <2>1. PICK v \in Verdicts(pl.pos, Followed[a]) : SatisfiesConditions(p, pl, Followed[a]) /\ v
      BY <1>5 DEF Outcomes
    <2> QED BY <2>1 DEF Verdicts
  <1>8. ASSUME NEW a \in DOMAIN area, In1(a), Covered(Followed[a]) PROVE a \in I
    <2>1. PlaceOf(Followed[a]) # Nowhere
      BY <1>8 DEF IsPointInArea
    <2>2. Located(Followed[a]) /\ (Followed[a].base = NoBase \/ Followed[a].heights)
      BY <1>4, <2>1 DEF Located
    <2>3. pl.pos \in Places /\ grid \in GridType
      BY DEF PlayerType, Inv, TypeOK
    <2>4. Around(pl.pos, Followed[a].cell)
      BY <1>4, <1>8, <2>2, <2>3, InsideIsAround
    <2>5. a \in A
      BY <1>4, <2>4 DEF Found
    <2>6. Verdicts(pl.pos, Followed[a]) = {IsPointInArea(pl.pos, Followed[a])}
      BY <2>2 DEF Verdicts
    <2>7. \E v \in Verdicts(pl.pos, Followed[a]) : (a \in I) = (SatisfiesConditions(p, pl, Followed[a]) /\ v)
      BY <2>5 DEF Outcomes
    <2> HIDE DEF A
    <2> QED BY <1>8, <2>6, <2>7
  <1> HIDE DEF A, q, new
  <1>9. AllFiled'
    <2>1. \A a \in DOMAIN area' : FiledIn(area'[a], grid')
      BY <1>4
    <2> QED BY <2>1 DEF AllFiled, FiledIn, TooLarge, Located, CellFor
  <1>10. KeptInView'
    <2> SUFFICES ASSUME NEW r \in DOMAIN player, NEW a \in player'[r].internal \ retiered
                 PROVE  a \in player'[r].visible \/ Followed[a].cell = GlobalCell
      BY <1>3 DEF KeptInView
    <2>1. CASE r # p
      <3>1. a \in player[r].internal \ retiered /\ player'[r] = player[r]
        BY <1>3, <2>1
      <3>2. a \in DOMAIN area
        BY <3>1, InsideExists
      <3> QED BY <1>4, <3>1, <3>2 DEF CellInv, KeptInView
    <2>2. CASE r = p
      BY <1>2, <1>3, <1>6, <2>2
    <2> QED BY <2>1, <2>2
  <1>11. Exact
    <2> DEFINE Inside(r) == {a \in DOMAIN area' \ retiered :
                               /\ SatisfiesConditions(r, player'[r], area'[a])
                               /\ IsPointInArea(player'[r].pos, area'[a])}
    <2> SUFFICES ASSUME NEW r \in DOMAIN player, player'[r].pos # player[r].pos
                 PROVE  /\ player'[r].internal \ retiered \subseteq Inside(r)
                        /\ \A a \in Inside(r) : Covered(area'[a]) => a \in player'[r].internal
      BY <1>3 DEF Exact
    <2>1. r = p
      BY <1>3
    <2>2. \A a \in DOMAIN area : a \in Inside(r) <=> a \notin retiered /\ In1(a)
      BY <1>2, <1>3, <1>4, <2>1 DEF SatisfiesConditions
    <2>3. Inside(r) \subseteq DOMAIN area
      BY <1>4
    <2> HIDE DEF Inside, In1
    <2>4. player'[r].internal \ retiered \subseteq I
      BY <1>2, <1>3, <1>6, <2>1
    <2>5. I \subseteq player'[r].internal /\ I \subseteq DOMAIN area
      BY <1>2, <1>3, <1>5, <2>1
    <2> QED BY <1>7, <1>8, <2>2, <2>3, <2>4, <2>5
  <1> QED BY <1>9, <1>10, <1>11 DEF CellsKept, CellInv

(* A player who is not examined is not said to be elsewhere, or has his    *)
(* updates disabled; attached areas are processed all the same.            *)
LEMMA UnexaminedFiles ==
  ASSUME Inv, CellInv, area' = area \/ area' = Followed, UNCHANGED <<grid, retiered>>,
         DOMAIN player' = DOMAIN player,
         \A p \in DOMAIN player : /\ player'[p].internal = player[p].internal
                                  /\ player'[p].visible = player[p].visible
                                  /\ player'[p].pos = player[p].pos \/ ~player'[p].enabled
  PROVE  CellsKept
  <1>1. /\ DOMAIN area' = DOMAIN area
        /\ \A a \in DOMAIN area :
             FiledIn(area'[a], grid) /\ (area'[a].cell = GlobalCell <=> area[a].cell = GlobalCell)
    BY FollowedAreFiled DEF CellInv, AllFiled
  <1>2. AllFiled'
    BY <1>1 DEF AllFiled, FiledIn, TooLarge, Located, CellFor
  <1>3. KeptInView'
    BY <1>1, InsideExists, ViewKept
  <1>4. Exact
    BY DEF Exact
  <1> QED BY <1>2, <1>3, <1>4 DEF CellsKept, CellInv

(* Of a player's updates either is one.                                    *)
LEMMA UpdatingFiles ==
  ASSUME Inv, CellInv, NEW p \in DOMAIN player, NEW pl \in PlayerType,
         pl.internal = player[p].internal, pl.visible = player[p].visible, area' = Followed,
         \/ Update(p, pl, Followed)
         \/ Unexamined(p, pl) /\ (pl.pos = player[p].pos \/ ~pl.enabled),
         UNCHANGED <<grid, retiered>>
  PROVE  CellsKept
  <1>1. CASE Update(p, pl, Followed)
    BY <1>1, UpdateFiles
  <1>2. CASE Unexamined(p, pl) /\ (pl.pos = player[p].pos \/ ~pl.enabled)
    <2>1. player' = [player EXCEPT ![p] = pl]
      BY <1>2 DEF Unexamined
    <2> QED BY <1>2, <2>1, UnexaminedFiles
  <1> QED BY <1>1, <1>2

LEMMA ManualUpdateFiles ==
  ASSUME Inv, CellInv, NEW p \in DOMAIN player, NEW pl \in PlayerType,
         pl.internal = player[p].internal, pl.visible = player[p].visible,
         NEW over \in BOOLEAN, ManualUpdate(p, pl, over)
  PROVE  CellsKept
  <1> DEFINE pl1 == [pl EXCEPT !.delayed = @ /\ ~over]
  <1>1. /\ pl1 \in PlayerType /\ pl1.internal = player[p].internal /\ pl1.visible = player[p].visible
        /\ pl1.enabled = pl.enabled
    BY DEF PlayerType
  <1>2. /\ area' = Followed /\ UNCHANGED <<grid, retiered>>
        /\ Update(p, pl1, Followed) \/ (Unexamined(p, pl1) /\ ~pl.enabled)
    BY DEF ManualUpdate
  <1> HIDE DEF pl1
  <1> QED BY <1>1, <1>2, UpdatingFiles

LEMMA UpdatesFile ==
  ASSUME Inv, CellInv, NEW p \in Players,
         \/ Tick(p)
         \/ \E over \in BOOLEAN : Streamer_Update(p, over)
         \/ \E over \in BOOLEAN, x \in Places, delay \in BOOLEAN : Streamer_UpdateEx(p, x, delay, over)
  PROVE  CellsKept
  <1>1. p \in DOMAIN player /\ player[p] \in PlayerType
    BY DEF Tick, Streamer_Update, Streamer_UpdateEx, Inv, TypeOK
  <1>2. ASSUME NEW over \in BOOLEAN, Streamer_Update(p, over) PROVE CellsKept
    <2> DEFINE pl == [player[p] EXCEPT !.pos = player[p].here]
    <2>1. pl \in PlayerType /\ pl.internal = player[p].internal /\ pl.visible = player[p].visible
      BY <1>1 DEF PlayerType
    <2>2. ManualUpdate(p, pl, over)
      BY <1>2 DEF Streamer_Update
    <2> HIDE DEF pl
    <2> QED BY <1>1, <2>1, <2>2, ManualUpdateFiles
  <1>3. ASSUME NEW over \in BOOLEAN, NEW x \in Places, NEW delay \in BOOLEAN, Streamer_UpdateEx(p, x, delay, over)
        PROVE  CellsKept
    <2> DEFINE pl == IF delay THEN [player[p] EXCEPT !.pos = x, !.here = x, !.delayed = TRUE]
                              ELSE [player[p] EXCEPT !.pos = x]
    <2>1. pl \in PlayerType /\ pl.internal = player[p].internal /\ pl.visible = player[p].visible
      BY <1>1 DEF PlayerType
    <2>2. ManualUpdate(p, pl, over)
      BY <1>3 DEF Streamer_UpdateEx
    <2> HIDE DEF pl
    <2> QED BY <1>1, <2>1, <2>2, ManualUpdateFiles
  <1>4. CASE Tick(p)
    <2>1. CASE player[p].delayed
      <3>1. PICK over \in BOOLEAN : ManualUpdate(p, player[p], over)
        BY <1>4, <2>1 DEF Tick
      <3> QED BY <1>1, <3>1, ManualUpdateFiles
    <2>2. CASE ~player[p].delayed
      <3> DEFINE pl == [player[p] EXCEPT !.pos = player[p].here]
      <3>1. pl \in PlayerType /\ pl.internal = player[p].internal /\ pl.visible = player[p].visible
        BY <1>1 DEF PlayerType
      <3>2. /\ area' = Followed /\ UNCHANGED <<grid, retiered>>
            /\ IF pl.enabled /\ (pl.pos # player[p].pos \/ pl.idle)
               THEN Update(p, pl, Followed) ELSE Unexamined(p, pl)
        BY <1>4, <2>2 DEF Tick
      <3> HIDE DEF pl
      <3> QED BY <1>1, <3>1, <3>2, UpdatingFiles
    <2> QED BY <2>1, <2>2
  <1> QED BY <1>2, <1>3, <1>4

LEMMA SmallStepsFile ==
  ASSUME Inv, CellInv,
         \/ \E p \in Players : \/ ToggleItemUpdate(p) \/ ToggleIdleUpdate(p) \/ Spectate(p)
                               \/ \E x \in Places : Move(p, x)
                               \/ \E a \in AreaIds : Callback(a, p)
         \/ Streamer_ProcessActiveItems \/ ExecuteCallbacks \/ NextCallbacks
         \/ \E b \in Bases, x \in Roads \cup {Nowhere} : BaseMoves(b, x)
         \/ UNCHANGED vars
  PROVE  CellsKept
  <1>1. UNCHANGED <<grid, retiered>> /\ (area' = area \/ area' = Followed)
    BY DEF ToggleItemUpdate, ToggleIdleUpdate, Spectate, Move, Callback, Streamer_ProcessActiveItems,
           ExecuteCallbacks, NextCallbacks, BaseMoves, vars, history
  <1>2. CASE player' = player
    BY <1>1, <1>2, UnexaminedFiles
  <1>3. ASSUME NEW p \in Players, ToggleItemUpdate(p) \/ ToggleIdleUpdate(p) \/ Spectate(p) \/ \E x \in Places : Move(p, x)
        PROVE  CellsKept
    <2>1. p \in DOMAIN player /\ player[p] \in PlayerType
      BY <1>3 DEF ToggleItemUpdate, ToggleIdleUpdate, Spectate, Move, Inv, TypeOK
    <2>2. PICK pl : /\ player' = [player EXCEPT ![p] = pl] /\ pl.internal = player[p].internal
                    /\ pl.visible = player[p].visible /\ pl.pos = player[p].pos
      BY <1>3, <2>1 DEF ToggleItemUpdate, ToggleIdleUpdate, Spectate, Move, PlayerType
    <2>3. /\ DOMAIN player' = DOMAIN player /\ player'[p] = pl
          /\ \A q \in DOMAIN player : q # p => player'[q] = player[q]
      BY <2>1, <2>2
    <2> QED BY <1>1, <2>2, <2>3, UnexaminedFiles
  <1>4. player' = player \/ \E p \in Players : \/ ToggleItemUpdate(p) \/ ToggleIdleUpdate(p) \/ Spectate(p)
                                               \/ \E x \in Places : Move(p, x)
    BY DEF Callback, Streamer_ProcessActiveItems, ExecuteCallbacks, NextCallbacks, BaseMoves, vars
  <1> QED BY <1>2, <1>3, <1>4

LEMMA ConnectionFiles ==
  ASSUME Inv, CellInv, NEW p \in Players, (\E x \in Places : Connect(p, x)) \/ Disconnect(p)
  PROVE  CellsKept
  <1>1. UNCHANGED <<area, grid, retiered>>
    BY DEF Connect, Disconnect, history
  <1>2. \A q \in DOMAIN player' : \/ q = p /\ p \notin DOMAIN player /\ player'[q].internal = {}
                                  \/ q \in DOMAIN player /\ player'[q] = player[q]
    BY DEF Connect, Disconnect, NewPlayer
  <1>3. AllFiled'
    BY <1>1 DEF CellInv, AllFiled, FiledIn, TooLarge, Located, CellFor
  <1>4. KeptInView'
    BY <1>1, <1>2, ViewKept
  <1>5. Exact
    BY <1>2, NobodyIsElsewhere
  <1> QED BY <1>3, <1>4, <1>5 DEF CellsKept, CellInv

LEMMA ErasureFiles ==
  ASSUME Inv, CellInv, NEW p \in Players, NEW A \in SUBSET DOMAIN area, DestroyAllVisibleAreas(p, A)
  PROVE  CellsKept
  <1>1. UNCHANGED <<area, grid, retiered>>
    BY DEF DestroyAllVisibleAreas
  <1>2. /\ DOMAIN player' = DOMAIN player
        /\ \A q \in DOMAIN player :
             /\ player'[q].internal \subseteq player[q].internal
             /\ player'[q].visible = player[q].visible /\ player'[q].pos = player[q].pos
    BY DEF DestroyAllVisibleAreas, Inv, TypeOK, PlayerType
  <1>3. AllFiled'
    BY <1>1 DEF CellInv, AllFiled, FiledIn, TooLarge, Located, CellFor
  <1>4. KeptInView'
    BY <1>1, <1>2 DEF CellInv, KeptInView
  <1>5. Exact
    BY <1>2, NobodyIsElsewhere
  <1> QED BY <1>3, <1>4, <1>5 DEF CellsKept, CellInv

LEMMA StepFiles ==
  ASSUME Inv, CellInv, [Next]_vars
  PROVE  CellsKept
  <1>1. ASSUME NEW shape \in Shapes, NEW x \in Places, NEW size \in Sizes, NEW audience \in Audiences,
               Create(shape, x, size, audience)
        PROVE  CellsKept
    BY <1>1, CreationFiles
  <1>2. ASSUME NEW a \in AreaIds, AreaStep(a) PROVE CellsKept
    BY <1>2, AreaStepFiles
  <1>3. ASSUME NEW A \in SUBSET DOMAIN area, Destroy(A) PROVE CellsKept
    BY <1>3, DestructionFiles
  <1>4. ASSUME NEW p \in Players, PlayerStep(p) PROVE CellsKept
    <2>1. CASE \/ Tick(p)
               \/ \E over \in BOOLEAN : Streamer_Update(p, over)
               \/ \E over \in BOOLEAN, x \in Places, delay \in BOOLEAN : Streamer_UpdateEx(p, x, delay, over)
      BY <2>1, UpdatesFile
    <2>2. CASE (\E a \in AreaIds : IsPlayerInDynamicArea(p, a)) \/ IsPlayerInAnyDynamicArea(p)
      BY <2>2, RecheckFiles
    <2>3. CASE \/ ToggleItemUpdate(p) \/ ToggleIdleUpdate(p) \/ Spectate(p)
               \/ \E x \in Places : Move(p, x)
               \/ \E a \in AreaIds : Callback(a, p)
      BY <2>3, SmallStepsFile
    <2>4. CASE (\E x \in Places : Connect(p, x)) \/ Disconnect(p)
      BY <2>4, ConnectionFiles
    <2>5. ASSUME NEW A \in SUBSET DOMAIN area, DestroyAllVisibleAreas(p, A) PROVE CellsKept
      BY <2>5, ErasureFiles
    <2> QED BY <1>4, <2>1, <2>2, <2>3, <2>4, <2>5 DEF PlayerStep
  <1>5. CASE Streamer_ProcessActiveItems \/ ExecuteCallbacks \/ NextCallbacks \/ UNCHANGED vars
    BY <1>5, SmallStepsFile
  <1>6. ASSUME NEW b \in Bases, NEW x \in Roads \cup {Nowhere}, BaseMoves(b, x) PROVE CellsKept
    BY <1>6, SmallStepsFile
  <1>7. CASE GridStep
    BY <1>7, GridStepFiles
  <1> QED BY <1>1, <1>2, <1>3, <1>4, <1>5, <1>6, <1>7 DEF Next

LEMMA CellInvHolds == Spec => [](Inv /\ CellInv)
  <1>1. Init => CellInv
    BY DEF Init, CellInv, AllFiled, KeptInView
  <1>2. Inv /\ CellInv /\ [Next]_vars => CellInv'
    BY StepFiles DEF CellsKept
  <1> QED BY <1>1, <1>2, InitKeeps, StepKeeps, PTL DEF Spec

(* However areas are moved, attached, resized and the grid is rebuilt, a   *)
(* native that looks into the cells around a point finds every area the    *)
(* point is in, but for those too large for their cells and those just     *)
(* attached; and a line meets the areas its ends are in.                   *)
THEOREM QueriesAgree == Spec => []PointQueriesAgree
  BY CellInvHolds, CellsImply, PTL

(* An update that takes a player elsewhere leaves him in exactly the areas *)
(* that he is in there, those too large for their cells and those that have*)
(* left the global cell under him apart.                                   *)
THEOREM UpdatesAreExact == Spec => UpdateIsExact
  <1>1. Inv /\ CellInv /\ [Next]_vars =>
          [\A p \in DOMAIN player \cap DOMAIN player' :
             player'[p].enabled /\ player'[p].pos # player[p].pos =>
               LET Inside == {a \in DOMAIN area' \ retiered :
                                /\ SatisfiesConditions(p, player'[p], area'[a])
                                /\ IsPointInArea(player'[p].pos, area'[a])}
               IN /\ player'[p].internal \ retiered \subseteq Inside
                  /\ \A a \in Inside : Covered(area'[a]) => a \in player'[p].internal]_vars
    BY StepFiles DEF CellsKept, Exact
  <1> QED BY <1>1, CellInvHolds, PTL DEF Spec, UpdateIsExact

=============================================================================
