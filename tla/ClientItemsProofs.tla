---------------------------- MODULE ClientItemsProofs ----------------------------
(***************************************************************************)
(* Theorems about ClientItems, for any number of items, any line of places,*)
(* distances, priorities and limits, any pool of labels and any natives    *)
(* called.                                                                 *)
(***************************************************************************)
EXTENDS ClientItems, FiniteSetTheorems, WellFoundedInduction, TLAPS

-----------------------------------------------------------------------------
(* Identifiers.                                                            *)

(* A set of numbers has a least one.                                       *)
LEMMA LeastInNat ==
  ASSUME NEW S \in SUBSET Nat, S # {}
  PROVE  LeastOf(S) \in S /\ \A j \in S : LeastOf(S) <= j
  <1> DEFINE R == OpToRel(<, Nat)
  <1>1. PICK i \in S : \A j \in S : <<j, i>> \notin R
    <2>1. IsWellFoundedOn(R, Nat)
      BY NatLessThanWellFounded
    <2> HIDE DEF R
    <2> QED BY <2>1, WFMin
  <1>2. ASSUME NEW j \in S PROVE i <= j
    <2>1. <<j, i>> \in Nat \X Nat /\ <<j, i>>[1] = j /\ <<j, i>>[2] = i
      OBVIOUS
    <2>2. ~(j < i)
      BY <1>1, <2>1 DEF OpToRel
    <2> QED BY <2>2
  <1>3. \E n \in S : \A m \in S : n <= m
    BY <1>1, <1>2
  <1> QED BY <1>3 DEF LeastOf

(* An identifier knows who holds a number: all up to the highest do that   *)
(* have not been returned.                                                 *)
Knows(ident, held) ==
  ident \in IdentifierType /\ held = (1 .. ident.highest) \ ident.removed /\ ident.removed \subseteq 1 .. ident.highest

LEMMA NewKnowsNobody == Knows(NewIdentifier, {})
  BY DEF Knows, NewIdentifier, IdentifierType

(* The next number is free, and the ones below it are not.                 *)
LEMMA NextIsFree ==
  ASSUME NEW ident, NEW held, Knows(ident, held)
  PROVE  /\ NextId(ident) \in ItemIds /\ NextId(ident) \notin held
         /\ 1 .. NextId(ident) - 1 \subseteq held
  <1>1. ident.highest \in Nat /\ ident.removed \subseteq 1 .. ident.highest
    BY DEF Knows, IdentifierType
  <1>2. CASE ident.removed = {}
    BY <1>1, <1>2 DEF NextId, Knows, ItemIds
  <1>3. CASE ident.removed # {}
    <2>1. ident.removed \in SUBSET Nat
      BY <1>1
    <2> DEFINE n == LeastOf(ident.removed)
    <2>2. n \in ident.removed /\ \A j \in ident.removed : n <= j
      BY <1>3, <2>1, LeastInNat
    <2>3. NextId(ident) = n
      BY <1>3 DEF NextId
    <2> HIDE DEF n
    <2>4. n \in 1 .. ident.highest
      BY <1>1, <2>2
    <2>5. \A m \in 1 .. n - 1 : m \in 1 .. ident.highest /\ m \notin ident.removed
      BY <1>1, <2>2, <2>4
    <2> QED BY <1>1, <2>2, <2>3, <2>4, <2>5 DEF Knows, ItemIds
  <1> QED BY <1>2, <1>3

(* So it is what SmallestFree calls the smallest.                          *)
LEMMA NextIsSmallest ==
  ASSUME NEW ident, NEW held, Knows(ident, held)
  PROVE  NextId(ident) = ItemIdsAre!Smallest(held)
  <1> DEFINE n == NextId(ident)
             P(m) == m \notin held /\ 1 .. m - 1 \subseteq held
             Candidates == {1} \cup {m + 1 : m \in held}
  <1>1. n \in Nat /\ n >= 1 /\ P(n)
    BY NextIsFree DEF ItemIds
  <1>2. held \subseteq Nat
    BY DEF Knows, IdentifierType
  <1> HIDE DEF n
  <1>3. n \in Candidates
    <2>1. CASE n = 1
      BY <2>1
    <2>2. CASE n # 1
      <3>1. n - 1 \in held /\ n = (n - 1) + 1
        BY <1>1, <2>2
      <3> QED BY <3>1
    <2> QED BY <2>1, <2>2
  <1>4. \A m \in Candidates : P(m) => m = n
    <2> SUFFICES ASSUME NEW m \in Candidates, P(m) PROVE m = n
      OBVIOUS
    <2>1. m \in Nat /\ m >= 1
      BY <1>2, NextIsFree DEF Knows, IdentifierType
    <2> HIDE DEF Candidates
    <2>2. ~(m < n) /\ ~(n < m)
      BY <1>1, <2>1
    <2> QED BY <1>1, <2>1, <2>2
  <1>5. n = CHOOSE m \in Candidates : P(m)
    BY <1>1, <1>3, <1>4
  <1> QED BY <1>5 DEF n, ItemIdsAre!Smallest

(* get and remove keep an identifier's knowledge true.                     *)
LEMMA TakenKnows ==
  ASSUME NEW ident, NEW held, Knows(ident, held)
  PROVE  Knows(Taken(ident), held \cup {NextId(ident)})
  <1>1. ident.highest \in Nat /\ ident.removed \subseteq 1 .. ident.highest
        /\ held = (1 .. ident.highest) \ ident.removed
    BY DEF Knows, IdentifierType
  <1>2. CASE ident.removed = {}
    <2>1. Taken(ident) = [ident EXCEPT !.highest = @ + 1] /\ NextId(ident) = ident.highest + 1
      BY <1>2 DEF Taken, NextId
    <2>2. Taken(ident) \in IdentifierType /\ Taken(ident).highest = ident.highest + 1 /\ Taken(ident).removed = {}
      BY <1>2, <2>1 DEF Knows, IdentifierType
    <2>3. 1 .. ident.highest + 1 = (1 .. ident.highest) \cup {ident.highest + 1}
      BY <1>1
    <2> QED BY <1>1, <1>2, <2>1, <2>2, <2>3 DEF Knows
  <1>3. CASE ident.removed # {}
    <2> DEFINE n == LeastOf(ident.removed)
    <2>1. ident.removed \in SUBSET Nat
      BY <1>1
    <2>2. n \in ident.removed
      BY <1>3, <2>1, LeastInNat
    <2>3. Taken(ident) = [ident EXCEPT !.removed = ident.removed \ {n}] /\ NextId(ident) = n
      BY <1>3 DEF Taken, NextId
    <2> HIDE DEF n
    <2>4. /\ Taken(ident) \in IdentifierType /\ Taken(ident).highest = ident.highest
          /\ Taken(ident).removed = ident.removed \ {n}
      BY <2>3 DEF Knows, IdentifierType
    <2> QED BY <1>1, <2>2, <2>3, <2>4 DEF Knows
  <1> QED BY <1>2, <1>3

LEMMA ReturnedKnows ==
  ASSUME NEW ident, NEW held, Knows(ident, held), NEW numbers \in SUBSET held, NEW remain
  PROVE  /\ remain # {} => Knows(Returned(ident, numbers, remain), held \ numbers)
         /\ remain = {} => Knows(Returned(ident, numbers, remain), {})
  <1>1. CASE remain = {}
    BY <1>1, NewKnowsNobody DEF Returned
  <1>2. CASE remain # {}
    <2>1. Returned(ident, numbers, remain) = [ident EXCEPT !.removed = ident.removed \cup numbers]
      BY <1>2 DEF Returned
    <2>2. numbers \subseteq 1 .. ident.highest /\ ident.highest \in Nat
      BY DEF Knows, IdentifierType
    <2>3. numbers \subseteq ItemIds
      BY <2>2 DEF ItemIds
    <2> QED BY <1>2, <2>1, <2>2, <2>3 DEF Knows, IdentifierType
  <1> QED BY <1>1, <1>2

-----------------------------------------------------------------------------
(* The client.                                                             *)

(* What holds of a client and what the streamer has on record of it: each  *)
(* item is in a slot of its own, and of the slots of map icons all but     *)
(* those in use and those lost can be had.                                 *)
Sound(c) ==
  /\ c = [slotOf |-> c.slotOf, client |-> c.client, slots |-> c.slots, lost |-> c.lost]
  /\ DOMAIN c.slotOf \subseteq ItemIds
  /\ \A i \in DOMAIN c.slotOf :
       c.slotOf[i] \in Nat /\ c.slotOf[i] \in DOMAIN c.client /\ c.client[c.slotOf[i]] = i
  /\ \A n \in DOMAIN c.client : c.client[n] \in DOMAIN c.slotOf /\ c.slotOf[c.client[n]] = n
  /\ c.slots \in IdentifierType
  /\ kind = "icon" => /\ Knows(c.slots, DOMAIN c.client \cup c.lost)
                      /\ DOMAIN c.client \cap c.lost = {}

ClientSound == Sound(Unevicted)

LEMMA UnevictedFields ==
  /\ Unevicted.slotOf = slotOf /\ Unevicted.client = client
  /\ Unevicted.slots = slots /\ Unevicted.lost = lost
  BY DEF Unevicted

(* What is taken off a client leaves one that is sound.                    *)
LEMMA HiddenIsSound ==
  ASSUME ClientSound, NEW S \in SUBSET Shown, S # {}
  PROVE  /\ Sound(Hidden(S)) /\ DOMAIN Hidden(S).slotOf = Shown \ S
         /\ DOMAIN Hidden(S).client = DOMAIN client \ SlotsOf(S)
         /\ SlotsOf(S) \subseteq DOMAIN client
         /\ Hidden(S).lost = IF S = Shown THEN {} ELSE lost
         /\ S = Shown => DOMAIN Hidden(S).client = {}
  <1> DEFINE c == Hidden(S)
  <1>1. /\ Shown \subseteq ItemIds
        /\ \A i \in Shown : slotOf[i] \in Nat /\ slotOf[i] \in DOMAIN client /\ client[slotOf[i]] = i
        /\ \A n \in DOMAIN client : client[n] \in Shown /\ slotOf[client[n]] = n
        /\ slots \in IdentifierType
        /\ kind = "icon" => Knows(slots, DOMAIN client \cup lost) /\ DOMAIN client \cap lost = {}
    BY UnevictedFields DEF ClientSound, Sound, Shown
  <1>2. /\ c.slotOf = Without(slotOf, S) /\ c.client = Without(client, SlotsOf(S))
        /\ c.slots = IF kind = "icon" THEN Returned(slots, SlotsOf(S), Shown \ S) ELSE slots
        /\ c.lost = IF S = Shown THEN {} ELSE lost
        /\ c = [slotOf |-> c.slotOf, client |-> c.client, slots |-> c.slots, lost |-> c.lost]
    BY DEF Hidden
  <1> HIDE DEF c
  <1>3. /\ DOMAIN c.slotOf = Shown \ S /\ \A i \in Shown \ S : c.slotOf[i] = slotOf[i]
        /\ DOMAIN c.client = DOMAIN client \ SlotsOf(S)
        /\ \A n \in DOMAIN client \ SlotsOf(S) : c.client[n] = client[n]
    BY <1>2 DEF Without, Shown
  <1>4. SlotsOf(S) \subseteq DOMAIN client
    BY <1>1 DEF SlotsOf
  <1>5. \A i \in Shown \ S : slotOf[i] \notin SlotsOf(S)
    BY <1>1 DEF SlotsOf
  <1>6. \A n \in DOMAIN client \ SlotsOf(S) : client[n] \in Shown \ S
    BY <1>1 DEF SlotsOf
  <1>7. S = Shown => DOMAIN c.client = {}
    BY <1>3, <1>6
  <1>8. kind = "icon" => Knows(c.slots, DOMAIN c.client \cup c.lost) /\ DOMAIN c.client \cap c.lost = {}
    <2> SUFFICES ASSUME kind = "icon"
                 PROVE  Knows(c.slots, DOMAIN c.client \cup c.lost) /\ DOMAIN c.client \cap c.lost = {}
      OBVIOUS
    <2>1. c.slots = Returned(slots, SlotsOf(S), Shown \ S)
      BY <1>2
    <2>2. SlotsOf(S) \in SUBSET (DOMAIN client \cup lost)
      BY <1>4
    <2> DEFINE rest == Shown \ S
               had == DOMAIN client \cup lost
    <2>3. /\ rest # {} => Knows(c.slots, had \ SlotsOf(S))
          /\ rest = {} => Knows(c.slots, {})
      <3>1. Knows(slots, had) /\ SlotsOf(S) \in SUBSET had
        BY <1>1, <2>2
      <3>2. c.slots = Returned(slots, SlotsOf(S), rest)
        BY <2>1
      <3> HIDE DEF rest, had
      <3> QED BY <3>1, <3>2, ReturnedKnows
    <2>4. CASE S = Shown
      <3>1. rest = {} /\ DOMAIN c.client = {} /\ c.lost = {}
        BY <1>2, <1>7, <2>4
      <3>2. DOMAIN c.client \cup c.lost = {} /\ DOMAIN c.client \cap c.lost = {}
        BY <3>1
      <3> QED BY <2>3, <3>1, <3>2
    <2>5. CASE S # Shown
      <3>1. rest # {}
        BY <2>5
      <3>2. had \ SlotsOf(S) = DOMAIN c.client \cup c.lost
        BY <1>1, <1>2, <1>3, <1>4, <2>5
      <3> QED BY <1>1, <1>2, <1>3, <2>3, <2>5, <3>1, <3>2
    <2> QED BY <2>4, <2>5
  <1>9. c.slots \in IdentifierType
    BY <1>1, <1>2, <1>8 DEF Knows
  <1>10. Sound(c)
    BY <1>1, <1>2, <1>3, <1>5, <1>6, <1>8, <1>9 DEF Sound
  <1> QED BY <1>2, <1>3, <1>4, <1>7, <1>10 DEF c

(* So does what is shown in a slot that may be had, which is none in use.  *)
LEMMA ShownInIsSound ==
  ASSUME NEW c, Sound(c), NEW i \in ItemIds, i \notin DOMAIN c.slotOf, NEW n \in SlotsFor(c)
  PROVE  /\ Sound(ShownIn(c, i, n)) /\ DOMAIN ShownIn(c, i, n).slotOf = DOMAIN c.slotOf \cup {i}
         /\ DOMAIN ShownIn(c, i, n).client = DOMAIN c.client \cup {n}
         /\ ShownIn(c, i, n).lost = c.lost
         /\ kind = "icon" => n = NextId(c.slots)
  <1> DEFINE d == ShownIn(c, i, n)
  <1>1. /\ d.slotOf = With(c.slotOf, i, n) /\ d.client = With(c.client, n, i)
        /\ d.slots = IF kind = "icon" THEN Taken(c.slots) ELSE c.slots
        /\ d.lost = c.lost
        /\ d = [slotOf |-> d.slotOf, client |-> d.client, slots |-> d.slots, lost |-> d.lost]
    BY DEF ShownIn
  <1> HIDE DEF d
  <1>2. kind = "icon" => n = NextId(c.slots) /\ Knows(c.slots, DOMAIN c.client \cup c.lost)
    BY DEF SlotsFor, Sound
  <1>3. n \in Nat /\ n \notin DOMAIN c.client /\ (kind = "icon" => n \notin c.lost)
    <2>1. CASE kind = "icon"
      BY <1>2, <2>1, NextIsFree DEF ItemIds
    <2>2. CASE kind # "icon"
      BY <2>2, LabelsAssumption DEF SlotsFor
    <2> QED BY <2>1, <2>2
  <1>4. /\ DOMAIN d.slotOf = DOMAIN c.slotOf \cup {i} /\ d.slotOf[i] = n
        /\ \A j \in DOMAIN c.slotOf : j # i => d.slotOf[j] = c.slotOf[j]
        /\ DOMAIN d.client = DOMAIN c.client \cup {n} /\ d.client[n] = i
        /\ \A m \in DOMAIN c.client : m # n => d.client[m] = c.client[m]
    BY <1>1 DEF With
  <1>5. kind = "icon" => Knows(d.slots, DOMAIN d.client \cup d.lost) /\ DOMAIN d.client \cap d.lost = {}
    <2> SUFFICES ASSUME kind = "icon"
                 PROVE  Knows(d.slots, DOMAIN d.client \cup d.lost) /\ DOMAIN d.client \cap d.lost = {}
      OBVIOUS
    <2>1. Knows(Taken(c.slots), (DOMAIN c.client \cup c.lost) \cup {n})
      BY <1>2, TakenKnows
    <2>2. (DOMAIN c.client \cup c.lost) \cup {n} = DOMAIN d.client \cup d.lost
      BY <1>1, <1>4
    <2>3. DOMAIN c.client \cap c.lost = {}
      BY DEF Sound
    <2> QED BY <1>1, <1>3, <1>4, <2>1, <2>2, <2>3
  <1>6. d.slots \in IdentifierType
    BY <1>1, <1>5 DEF Sound, Knows
  <1>7. Sound(d)
    <2>1. \A j \in DOMAIN c.slotOf :
            c.slotOf[j] \in Nat /\ c.slotOf[j] \in DOMAIN c.client /\ c.client[c.slotOf[j]] = j
      BY DEF Sound
    <2>2. \A m \in DOMAIN c.client : c.client[m] \in DOMAIN c.slotOf /\ c.slotOf[c.client[m]] = m
      BY DEF Sound
    <2>3. \A j \in DOMAIN d.slotOf :
            d.slotOf[j] \in Nat /\ d.slotOf[j] \in DOMAIN d.client /\ d.client[d.slotOf[j]] = j
      BY <1>3, <1>4, <2>1
    <2>4. \A m \in DOMAIN d.client : d.client[m] \in DOMAIN d.slotOf /\ d.slotOf[d.client[m]] = m
      BY <1>3, <1>4, <2>2
    <2>5. DOMAIN d.slotOf \subseteq ItemIds
      BY <1>4 DEF Sound
    <2> QED BY <1>1, <1>5, <1>6, <2>3, <2>4, <2>5 DEF Sound
  <1> QED BY <1>1, <1>2, <1>4, <1>7 DEF d

-----------------------------------------------------------------------------
(* Slots.                                                                  *)

SlotsHeld == IF kind = "icon" THEN SlotsOf(Shown) \cup lost ELSE {}
SlotStep  == SlotsAre!Next \/ SlotsHeld' = SlotsHeld

LEMMA SlotsAreThoseOfClient ==
  ASSUME ClientSound
  PROVE  SlotsOf(Shown) = DOMAIN client
  <1>1. /\ \A i \in Shown : slotOf[i] \in DOMAIN client
        /\ \A n \in DOMAIN client : client[n] \in Shown /\ slotOf[client[n]] = n
    BY UnevictedFields DEF ClientSound, Sound, Shown
  <1> QED BY <1>1 DEF SlotsOf

(* The steps of SmallestFree, of the slots.                                *)
LEMMA SlotSteps ==
  ASSUME \/ SlotsHeld' = SlotsHeld
         \/ SlotsHeld' = SlotsHeld \cup {SlotsAre!Smallest(SlotsHeld)}
         \/ \E S \in SUBSET SlotsHeld : S # {} /\ SlotsHeld' = SlotsHeld \ S
         \/ \E S \in SUBSET SlotsHeld :
              S # {} /\ SlotsHeld' = (SlotsHeld \ S) \cup {SlotsAre!Smallest(SlotsHeld \ S)}
  PROVE  SlotStep
  BY DEF SlotStep, SlotsHeld, SlotsAre!Next, SlotsAre!Take, SlotsAre!Give, SlotsAre!Exchange

LEMMA NextSlotIsSmallest ==
  ASSUME NEW ident, NEW held, Knows(ident, held)
  PROVE  NextId(ident) = SlotsAre!Smallest(held)
  BY NextIsSmallest DEF ItemIdsAre!Smallest, SlotsAre!Smallest

(* A client that is the next one is sound, and holds its slots.            *)
LEMMA BecomesSound ==
  ASSUME NEW c, Sound(c), Becomes(c), UNCHANGED kind
  PROVE  /\ ClientSound' /\ Shown' = DOMAIN c.slotOf
         /\ SlotsHeld' = IF kind = "icon" THEN DOMAIN c.client \cup c.lost ELSE {}
  <1>1. slotOf' = c.slotOf /\ client' = c.client /\ slots' = c.slots /\ lost' = c.lost /\ kind' = kind
    BY DEF Becomes
  <1>2. ClientSound'
    BY <1>1 DEF ClientSound, Sound, Unevicted, Knows
  <1>3. SlotsOf(Shown)' = DOMAIN client'
    <2>1. /\ \A i \in DOMAIN c.slotOf : c.slotOf[i] \in DOMAIN c.client
          /\ \A n \in DOMAIN c.client : c.client[n] \in DOMAIN c.slotOf /\ c.slotOf[c.client[n]] = n
      BY DEF Sound
    <2> QED BY <1>1, <2>1 DEF SlotsOf, Shown
  <1> QED BY <1>1, <1>2, <1>3 DEF SlotsHeld, Shown

LEMMA ClientUnchanged ==
  ASSUME ClientSound, UNCHANGED <<kind, clientVars>>
  PROVE  ClientSound' /\ Shown' = Shown /\ SlotStep
  <1>1. SlotsHeld' = SlotsHeld
    BY DEF SlotsHeld, SlotsOf, Shown, clientVars
  <1> QED BY <1>1, SlotSteps DEF ClientSound, Sound, Unevicted, Knows, Shown, clientVars

LEMMA HideKeeps ==
  ASSUME ClientSound, NEW S, Hide(S), UNCHANGED kind
  PROVE  ClientSound' /\ Shown' = Shown \ S /\ SlotStep
  <1>1. CASE S \cap Shown = {}
    <2>1. UNCHANGED clientVars
      BY <1>1 DEF Hide
    <2>2. Shown \ S = Shown
      BY <1>1
    <2> QED BY <2>1, <2>2, ClientUnchanged
  <1>2. CASE S \cap Shown # {}
    <2> DEFINE T == S \cap Shown
               c == Hidden(T)
    <2>1. T \in SUBSET Shown /\ T # {} /\ Shown \ T = Shown \ S /\ Becomes(c)
      BY <1>2 DEF Hide
    <2> HIDE DEF T
    <2>2. /\ Sound(c) /\ DOMAIN c.slotOf = Shown \ T
          /\ DOMAIN c.client = DOMAIN client \ SlotsOf(T)
          /\ SlotsOf(T) \subseteq DOMAIN client
          /\ c.lost = IF T = Shown THEN {} ELSE lost
          /\ T = Shown => DOMAIN c.client = {}
      BY <2>1, HiddenIsSound
    <2> HIDE DEF c
    <2>3. /\ ClientSound' /\ Shown' = Shown \ T
          /\ SlotsHeld' = IF kind = "icon" THEN DOMAIN c.client \cup c.lost ELSE {}
      BY <2>1, <2>2, BecomesSound
    <2>4. SlotStep
      <3>1. CASE kind # "icon"
        <4>1. SlotsHeld' = SlotsHeld
          BY <2>3, <3>1 DEF SlotsHeld
        <4> QED BY <4>1, SlotSteps
      <3>2. CASE kind = "icon"
        <4>1. SlotsHeld = DOMAIN client \cup lost /\ DOMAIN client \cap lost = {}
          BY <3>2, SlotsAreThoseOfClient DEF SlotsHeld, ClientSound, Sound, Unevicted
        <4>2. PICK i \in T : TRUE
          BY <2>1
        <4>3. slotOf[i] \in SlotsOf(T)
          BY <4>2 DEF SlotsOf
        <4>4. CASE T = Shown
          <5>1. SlotsHeld' = SlotsHeld \ SlotsHeld /\ SlotsHeld # {}
            BY <2>2, <2>3, <3>2, <4>1, <4>3, <4>4
          <5> QED BY <5>1, SlotSteps
        <4>5. CASE T # Shown
          <5>1. SlotsHeld' = SlotsHeld \ SlotsOf(T) /\ SlotsOf(T) \subseteq SlotsHeld /\ SlotsOf(T) # {}
            BY <2>2, <2>3, <3>2, <4>1, <4>3, <4>5
          <5> QED BY <5>1, SlotSteps
        <4> QED BY <4>4, <4>5
      <3> QED BY <3>1, <3>2
    <2> QED BY <2>1, <2>3, <2>4
  <1> QED BY <1>1, <1>2

-----------------------------------------------------------------------------
(* The invariant.                                                          *)

(* What is on record of items, of those there are, D.                      *)
EntriesFor(f, D) == DOMAIN f \subseteq D /\ \A i \in DOMAIN f : f[i] \in [prio : Int, dist : Int]
QueueFor(q, D) == q = [disc |-> q.disc, exist |-> q.exist] /\ EntriesFor(q.disc, D) /\ EntriesFor(q.exist, D)

PlainOK ==
  /\ kind \in Kinds /\ pos \in Places /\ limit \in Limits[kind] /\ current \in Nat
  /\ chunked \in BOOLEAN /\ pending \in BOOLEAN /\ lowered \in BOOLEAN
  /\ loop \in [at : {"idle", "out", "in", "process"}, left : Nat]
ItemType ==
  [place : Places, dist : Distances[kind] \cup {Static}, orig : Distances[kind] \cup {Static},
   cell : BOOLEAN, prio : Priorities]
ItemsOK   == \A i \in DOMAIN item : item[i] \in ItemType
IdsKnown  == Knows(ids, DOMAIN item)
QueuesOK  == QueueFor(queue, DOMAIN item) /\ QueueFor(saved, DOMAIN item)
NamesOK   == Shown \subseteq DOMAIN item /\ gone \subseteq DOMAIN item
             /\ visible \subseteq DOMAIN item /\ retiered \subseteq DOMAIN item
SavedOK   == loop.at # "process" => saved = EmptyQueue

Inv == PlainOK /\ ItemsOK /\ IdsKnown /\ QueuesOK /\ NamesOK /\ SavedOK /\ ClientSound /\ StaysReachable

(* The parts of the invariant at work.                                     *)
LEMMA InvTypes ==
  ASSUME Inv
  PROVE  /\ DOMAIN item \subseteq ItemIds /\ IsFiniteSet(DOMAIN item)
         /\ IsFiniteSet(Shown) /\ Cardinality(Shown) \in Nat
  <1>1. ids.highest \in Nat /\ DOMAIN item = (1 .. ids.highest) \ ids.removed
    BY DEF Inv, IdsKnown, Knows, IdentifierType
  <1>2. IsFiniteSet(1 .. ids.highest)
    BY <1>1, FS_Interval
  <1>3. IsFiniteSet(DOMAIN item)
    BY <1>1, <1>2, FS_Subset
  <1>4. IsFiniteSet(Shown)
    BY <1>3, FS_Subset DEF Inv, NamesOK
  <1>5. \A n \in 1 .. ids.highest : n \in Nat \ {0}
    BY <1>1
  <1> QED BY <1>1, <1>3, <1>4, <1>5, FS_CardinalityType DEF ItemIds

LEMMA EntriesAreFor ==
  ASSUME Inv, NEW x \in Places, NEW S \in SUBSET DOMAIN item
  PROVE  DOMAIN Entries(S, x) = S /\ EntriesFor(Entries(S, x), DOMAIN item)
  <1>1. ASSUME NEW i \in S PROVE item[i].prio \in Int /\ Distance(i, x) \in Int
    <2>1. item[i] \in ItemType /\ x \in Int
      BY SpaceAssumption DEF Inv, ItemsOK
    <2>2. item[i].prio \in Int /\ item[i].place \in Int
      BY <2>1, SpaceAssumption DEF ItemType
    <2> QED BY <2>1, <2>2 DEF Distance, Gap, Static
  <1> QED BY <1>1 DEF Entries, EntriesFor

LEMMA MergedFor ==
  ASSUME NEW D, NEW f, NEW g, EntriesFor(f, D), EntriesFor(g, D)
  PROVE  EntriesFor(Merged(f, g), D)
  BY DEF EntriesFor, Merged

LEMMA WithoutFor ==
  ASSUME NEW D, NEW f, NEW S, EntriesFor(f, D)
  PROVE  EntriesFor(Without(f, S), D) /\ EntriesFor(Without(f, S), D \ S)
  BY DEF EntriesFor, Without

LEMMA EmptyFor ==
  ASSUME NEW D
  PROVE  EntriesFor(NoFun, D) /\ QueueFor(EmptyQueue, D)
  <1>1. EntriesFor(NoFun, D)
    BY DEF EntriesFor, NoFun
  <1> QED BY <1>1 DEF QueueFor, EmptyQueue

LEMMA QueueOf ==
  ASSUME NEW D, NEW f, NEW g, EntriesFor(f, D), EntriesFor(g, D)
  PROVE  QueueFor([disc |-> f, exist |-> g], D)
  BY DEF QueueFor

(* What is examined and in range are items.                                *)
LEMMA ExaminedAreItems ==
  ASSUME NEW x
  PROVE  Examined(x) \subseteq DOMAIN item
  BY DEF Examined

LEMMA VisibleIsExamined ==
  ASSUME Inv, NEW x
  PROVE  visible \subseteq Examined(x)
  BY DEF Inv, NamesOK, Examined

(* The invariant, when the items remain as they are.                       *)
LEMMA ItemsUnchanged ==
  ASSUME Inv, UNCHANGED <<kind, item, ids>>
  PROVE  ItemsOK' /\ IdsKnown'
  BY DEF Inv, ItemsOK, ItemType, IdsKnown, Knows

-----------------------------------------------------------------------------
(* Steps of the client and its queue.                                      *)

(* Items are discovered.                                                   *)
LEMMA DiscoverKeeps ==
  ASSUME Inv, NEW x \in Places, NEW q, QueueFor(q, DOMAIN item), Discover(x, q),
         UNCHANGED <<kind, item, ids, retiered>>
  PROVE  /\ QueuesOK' /\ NamesOK' /\ saved' = saved /\ queue' = [disc |-> queue'.disc, exist |-> queue'.exist]
         /\ ClientSound' /\ SlotStep /\ StaysReachable'
  <1> DEFINE near == {i \in Examined(x) : InRange(i, x, 0)}
             d == Merged(q.disc, Entries(near \ Shown, x))
             e == Merged(q.exist, Entries(near \cap Shown, x))
  <1>1. /\ queue' = [disc |-> d, exist |-> e]
        /\ gone' = gone \cup ((Examined(x) \ near) \cap Shown)
        /\ visible' = {i \in near \cap Shown : HasCell(i)}
        /\ UNCHANGED <<kind, clientVars, saved>>
    BY DEF Discover
  <1>2. near \ Shown \subseteq DOMAIN item /\ near \cap Shown \subseteq DOMAIN item /\ near \subseteq Examined(x)
    BY ExaminedAreItems
  <1>3. QueueFor(queue', DOMAIN item)
    <2>1. EntriesFor(Entries(near \ Shown, x), DOMAIN item) /\ EntriesFor(Entries(near \cap Shown, x), DOMAIN item)
      BY <1>2, EntriesAreFor
    <2>2. EntriesFor(d, DOMAIN item) /\ EntriesFor(e, DOMAIN item)
      BY <2>1, MergedFor DEF QueueFor
    <2> HIDE DEF d, e
    <2> QED BY <1>1, <2>2, QueueOf
  <1>4. ClientSound' /\ Shown' = Shown /\ SlotStep
    BY <1>1, ClientUnchanged DEF Inv
  <1> HIDE DEF d, e
  <1>5. QueuesOK'
    BY <1>1, <1>3 DEF Inv, QueuesOK, QueueFor, EntriesFor
  <1>6. NamesOK'
    BY <1>1, <1>2, <1>4 DEF Inv, NamesOK
  <1>7. StaysReachable'
    <2> SUFFICES ASSUME NEW i \in Shown \ retiered, HasCell(i) PROVE i \in visible' \cup gone'
      BY <1>4 DEF StaysReachable, HasCell
    <2>1. i \in visible \cup gone
      BY DEF Inv, StaysReachable
    <2>2. i \in visible => i \in Examined(x)
      BY VisibleIsExamined
    <2> HIDE DEF near
    <2> QED BY <1>1, <2>1, <2>2
  <1> QED BY <1>1, <1>4, <1>5, <1>6, <1>7

(* Items are processed.                                                    *)
LEMMA ProcessKeeps ==
  ASSUME Inv, NEW x \in Places, Process(x), UNCHANGED <<kind, item, ids, retiered>>
  PROVE  /\ QueuesOK' /\ NamesOK' /\ pending' = pending
         /\ loop' \in [at : {"idle", "out", "in", "process"}, left : Nat] /\ loop'.at = "process"
         /\ ClientSound' /\ SlotStep /\ StaysReachable'
  <1> DEFINE near == {i \in Examined(x) : InRange(i, x, 0)}
             kept == {i \in Examined(x) \cap Shown : InRange(i, x, Band)}
             left == (Examined(x) \cap Shown) \ kept
             d == Entries(near \ Shown, x)
             e == Entries(kept, x)
  <1>1. /\ Hide(left)
        /\ visible' = {i \in kept : HasCell(i)}
        /\ queue' = [disc |-> d, exist |-> e]
        /\ saved' = queue
        /\ loop' = [at |-> "process", left |-> Cardinality(near \ Shown)]
        /\ gone' = gone /\ pending' = pending
    BY DEF Process
  <1>2. near \ Shown \subseteq DOMAIN item /\ kept \subseteq DOMAIN item
    BY ExaminedAreItems
  <1>3. EntriesFor(d, DOMAIN item) /\ EntriesFor(e, DOMAIN item)
    BY <1>2, EntriesAreFor
  <1>4. Cardinality(near \ Shown) \in Nat
    BY <1>2, InvTypes, FS_Subset, FS_CardinalityType
  <1> HIDE DEF d, e
  <1>5. QueueFor(queue', DOMAIN item)
    BY <1>1, <1>3, QueueOf
  <1>6. ClientSound' /\ Shown' = Shown \ left /\ SlotStep
    BY <1>1, HideKeeps DEF Inv
  <1>7. QueuesOK'
    BY <1>1, <1>5 DEF Inv, QueuesOK, QueueFor, EntriesFor
  <1>8. NamesOK'
    BY <1>1, <1>2, <1>6 DEF Inv, NamesOK
  <1>9. StaysReachable'
    <2> SUFFICES ASSUME NEW i \in (Shown \ left) \ retiered, HasCell(i) PROVE i \in visible' \cup gone'
      BY <1>6 DEF StaysReachable, HasCell
    <2>1. i \in visible \cup gone
      BY DEF Inv, StaysReachable
    <2>2. i \in visible => i \in Examined(x)
      BY VisibleIsExamined
    <2>3. i \in Examined(x) => i \in kept
      OBVIOUS
    <2> HIDE DEF kept
    <2> QED BY <1>1, <2>1, <2>2, <2>3
  <1>10. loop' \in [at : {"idle", "out", "in", "process"}, left : Nat] /\ loop'.at = "process"
    <2> HIDE DEF near
    <2> QED BY <1>1, <1>4
  <1> QED BY <1>1, <1>6, <1>7, <1>8, <1>9, <1>10

-----------------------------------------------------------------------------
(* Every step keeps the invariant, and is one of SmallestFree or none, of  *)
(* the ids and of the slots.                                               *)

IdStep == ItemIdsAre!Next \/ DOMAIN item' = DOMAIN item
Keeps  == Inv' /\ IdStep /\ SlotStep

(* What is left to show when no item changes.                              *)
LEMMA KeepsItems ==
  ASSUME Inv, UNCHANGED <<kind, item, ids>>,
         PlainOK', QueuesOK', NamesOK', SavedOK', ClientSound', StaysReachable', SlotStep
  PROVE  Keeps
  BY ItemsUnchanged DEF Keeps, Inv, IdStep

LEMMA AutomaticUpdateKeeps ==
  ASSUME Inv, NEW x \in Places, AutomaticUpdate(x)
  PROVE  Keeps
  <1>1. /\ Idle /\ pos' = x /\ UNCHANGED <<kind, item, ids, limit, current, chunked, lowered, retiered>>
    BY DEF AutomaticUpdate, historyVars
  <1>2. CASE chunked
    <2>1. Discover(x, queue) /\ pending' = (pending \/ Flagged) /\ loop' = loop
      BY <1>2 DEF AutomaticUpdate
    <2>2. QueueFor(queue, DOMAIN item)
      BY DEF Inv, QueuesOK
    <2>3. /\ QueuesOK' /\ NamesOK' /\ saved' = saved /\ ClientSound' /\ SlotStep /\ StaysReachable'
      BY <1>1, <2>1, <2>2, DiscoverKeeps
    <2>4. pending' \in BOOLEAN
      BY <2>1
    <2>5. PlainOK'
      BY <1>1, <2>1, <2>4 DEF Inv, PlainOK
    <2>6. SavedOK'
      BY <2>1, <2>3 DEF Inv, SavedOK
    <2> QED BY <1>1, <2>3, <2>5, <2>6, KeepsItems
  <1>3. CASE ~chunked
    <2>1. Process(x)
      BY <1>3 DEF AutomaticUpdate
    <2>2. /\ QueuesOK' /\ NamesOK' /\ pending' = pending
          /\ loop' \in [at : {"idle", "out", "in", "process"}, left : Nat] /\ loop'.at = "process"
          /\ ClientSound' /\ SlotStep /\ StaysReachable'
      BY <1>1, <2>1, ProcessKeeps
    <2>3. PlainOK' /\ SavedOK'
      BY <1>1, <2>2 DEF Inv, PlainOK, SavedOK
    <2> QED BY <1>1, <2>2, <2>3, KeepsItems
  <1> QED BY <1>2, <1>3

(* The loop that a pass runs.                                              *)
LEMMA PassOverOK ==
  ASSUME NEW removed
  PROVE  /\ PassOver(removed) \in [at : {"idle", "out", "in", "process"}, left : Nat]
         /\ PassOver(removed).at # "process"
  BY LimitsAssumption DEF PassOver

LEMMA ManualUpdateKeeps ==
  ASSUME Inv, NEW x \in Places, ManualUpdate(x)
  PROVE  Keeps
  <1>1. /\ Idle /\ pos' = x /\ UNCHANGED <<kind, item, ids, limit, current, chunked, lowered, retiered>>
    BY DEF ManualUpdate, historyVars
  <1>2. CASE chunked
    <2>1. Discover(x, EmptyQueue) /\ pending' = Flagged /\ loop' = IF pending' THEN PassOver(gone') ELSE loop
      BY <1>2 DEF ManualUpdate
    <2>2. QueueFor(EmptyQueue, DOMAIN item)
      BY EmptyFor
    <2>3. /\ QueuesOK' /\ NamesOK' /\ saved' = saved /\ ClientSound' /\ SlotStep /\ StaysReachable'
      BY <1>1, <2>1, <2>2, DiscoverKeeps
    <2>4. pending' \in BOOLEAN
      BY <2>1 DEF Flagged
    <2>5. loop' \in [at : {"idle", "out", "in", "process"}, left : Nat] /\ loop'.at # "process"
      <3>1. loop \in [at : {"idle", "out", "in", "process"}, left : Nat] /\ loop.at # "process"
        BY <1>1 DEF Inv, PlainOK, Idle
      <3> QED BY <2>1, <3>1, PassOverOK
    <2>6. PlainOK'
      BY <1>1, <2>4, <2>5 DEF Inv, PlainOK
    <2>7. SavedOK'
      BY <1>1, <2>3, <2>5 DEF Inv, SavedOK, Idle
    <2> QED BY <1>1, <2>3, <2>6, <2>7, KeepsItems
  <1>3. CASE ~chunked
    <2>1. Process(x)
      BY <1>3 DEF ManualUpdate
    <2>2. /\ QueuesOK' /\ NamesOK' /\ pending' = pending
          /\ loop' \in [at : {"idle", "out", "in", "process"}, left : Nat] /\ loop'.at = "process"
          /\ ClientSound' /\ SlotStep /\ StaysReachable'
      BY <1>1, <2>1, ProcessKeeps
    <2>3. PlainOK' /\ SavedOK'
      BY <1>1, <2>2 DEF Inv, PlainOK, SavedOK
    <2> QED BY <1>1, <2>2, <2>3, KeepsItems
  <1> QED BY <1>2, <1>3

LEMMA ChunkUpdateKeeps ==
  ASSUME Inv, ChunkUpdate
  PROVE  Keeps
  <1>1. /\ Idle /\ loop' = PassOver(gone)
        /\ UNCHANGED <<kind, item, ids, pos, limit, current, chunked, queue, gone, pending, saved, visible,
                       slotOf, slots, client, lost, lowered, retiered>>
    BY DEF ChunkUpdate, playerVars, queueVars, clientVars, historyVars
  <1>2. ClientSound' /\ Shown' = Shown /\ SlotStep
    BY <1>1, ClientUnchanged DEF Inv, clientVars
  <1>3. PlainOK'
    BY <1>1, PassOverOK DEF Inv, PlainOK
  <1>4. QueuesOK' /\ NamesOK' /\ SavedOK'
    BY <1>1, <1>2 DEF Inv, QueuesOK, QueueFor, EntriesFor, NamesOK, SavedOK, Idle
  <1>5. StaysReachable'
    BY <1>1, <1>2 DEF Inv, StaysReachable, HasCell
  <1> QED BY <1>1, <1>2, <1>3, <1>4, <1>5, KeepsItems

LEMMA OneLessOK ==
  ASSUME Inv, loop.left > 0, loop' = OneLess
  PROVE  loop' \in [at : {"idle", "out", "in", "process"}, left : Nat] /\ loop'.at = loop.at
  BY DEF Inv, PlainOK, OneLess

LEMMA StreamOutKeeps ==
  ASSUME Inv, StreamOut
  PROVE  Keeps
  <1>1. PICK i \in gone :
          /\ Hide({i}) /\ gone' = gone \ {i} /\ loop' = OneLess
          /\ UNCHANGED <<kind, item, ids, pos, limit, current, chunked, queue, pending, saved, visible,
                         lowered, retiered>>
    BY DEF StreamOut, playerVars, historyVars
  <1>2. loop.at = "out" /\ loop.left > 0
    BY DEF StreamOut
  <1>3. loop' \in [at : {"idle", "out", "in", "process"}, left : Nat] /\ loop'.at = loop.at
    BY <1>1, <1>2, OneLessOK
  <1>4. ClientSound' /\ Shown' = Shown \ {i} /\ SlotStep
    BY <1>1, HideKeeps DEF Inv
  <1>5. PlainOK' /\ SavedOK'
    BY <1>1, <1>3 DEF Inv, PlainOK, SavedOK
  <1>6. QueuesOK' /\ NamesOK'
    BY <1>1, <1>4 DEF Inv, QueuesOK, QueueFor, EntriesFor, NamesOK
  <1>7. StaysReachable'
    BY <1>1, <1>4 DEF Inv, StaysReachable, HasCell
  <1> QED BY <1>1, <1>4, <1>5, <1>6, <1>7, KeepsItems

(* The slots held on a client.                                             *)
HeldIn(c) == IF kind = "icon" THEN DOMAIN c.client \cup c.lost ELSE {}

LEMMA HeldNow ==
  ASSUME ClientSound
  PROVE  HeldIn(Unevicted) = SlotsHeld
  BY SlotsAreThoseOfClient, UnevictedFields DEF HeldIn, SlotsHeld

(* Making room only takes items off the client.                            *)
LEMMA EvictionsKeep ==
  ASSUME Inv, NEW d, NEW v \in Evictions(d)
  PROVE  /\ Sound(v.c) /\ DOMAIN v.c.slotOf \subseteq Shown /\ HeldIn(v.c) \subseteq SlotsHeld
         /\ EntriesFor(v.exist, DOMAIN item)
         /\ v.visible \subseteq visible /\ visible \cap DOMAIN v.c.slotOf \subseteq v.visible
  <1> DEFINE stay == [c |-> Unevicted, exist |-> queue.exist, visible |-> visible]
             went(e) == [c |-> IF e \in Shown THEN Hidden({e}) ELSE Unevicted,
                         exist |-> Without(queue.exist, {e}),
                         visible |-> IF HasCell(e) THEN visible \ {e} ELSE visible]
  <1>1. v = stay \/ \E e \in Last(queue.exist) : v = went(e)
    BY DEF Evictions
  <1>2. EntriesFor(queue.exist, DOMAIN item) /\ ClientSound
    BY DEF Inv, QueuesOK, QueueFor
  <1>3. Sound(Unevicted) /\ DOMAIN Unevicted.slotOf = Shown /\ HeldIn(Unevicted) = SlotsHeld
    BY <1>2, HeldNow, UnevictedFields DEF ClientSound, Shown
  <1>4. CASE v = stay
    BY <1>2, <1>3, <1>4
  <1>5. ASSUME NEW e \in Last(queue.exist), v = went(e)
        PROVE  /\ Sound(v.c) /\ DOMAIN v.c.slotOf \subseteq Shown /\ HeldIn(v.c) \subseteq SlotsHeld
               /\ EntriesFor(v.exist, DOMAIN item)
               /\ v.visible \subseteq visible /\ visible \cap DOMAIN v.c.slotOf \subseteq v.visible
    <2>1. v.exist = Without(queue.exist, {e}) /\ v.visible = IF HasCell(e) THEN visible \ {e} ELSE visible
      BY <1>5
    <2>2. EntriesFor(v.exist, DOMAIN item)
      BY <1>2, <2>1, WithoutFor
    <2>3. CASE e \in Shown
      <3> DEFINE c == Hidden({e})
      <3>1. v.c = c /\ {e} \in SUBSET Shown /\ {e} # {}
        BY <1>5, <2>3
      <3>2. /\ Sound(c) /\ DOMAIN c.slotOf = Shown \ {e}
            /\ DOMAIN c.client = DOMAIN client \ SlotsOf({e})
            /\ c.lost = IF {e} = Shown THEN {} ELSE lost
        BY <1>2, <3>1, HiddenIsSound
      <3> HIDE DEF c
      <3>3. SlotsHeld = IF kind = "icon" THEN DOMAIN client \cup lost ELSE {}
        BY <1>2, SlotsAreThoseOfClient DEF SlotsHeld
      <3>4. HeldIn(c) \subseteq SlotsHeld
        BY <3>2, <3>3 DEF HeldIn
      <3> QED BY <2>1, <2>2, <3>1, <3>2, <3>4
    <2>4. CASE e \notin Shown
      <3>1. v.c = Unevicted
        BY <1>5, <2>4
      <3> QED BY <1>3, <2>1, <2>2, <2>4, <3>1
    <2> QED BY <2>3, <2>4
  <1> HIDE DEF stay, went
  <1> QED BY <1>1, <1>4, <1>5

(* So giving up, and showing an item, are steps of the slots.              *)
LEMMA CancelKeeps ==
  ASSUME Inv, NEW d, NEW v \in Evictions(d), Cancel(v), UNCHANGED <<kind, item, gone, saved, retiered>>
  PROVE  /\ QueuesOK' /\ NamesOK' /\ current' \in Nat
         /\ ClientSound' /\ SlotStep /\ StaysReachable'
  <1>1. /\ Becomes(v.c) /\ queue' = [disc |-> NoFun, exist |-> v.exist] /\ visible' = v.visible
        /\ current' = IF kind = "label" THEN Cardinality(DOMAIN v.c.slotOf) ELSE current
    BY DEF Cancel
  <1>2. /\ Sound(v.c) /\ DOMAIN v.c.slotOf \subseteq Shown /\ HeldIn(v.c) \subseteq SlotsHeld
        /\ EntriesFor(v.exist, DOMAIN item)
        /\ v.visible \subseteq visible /\ visible \cap DOMAIN v.c.slotOf \subseteq v.visible
    BY EvictionsKeep
  <1>3. ClientSound' /\ Shown' = DOMAIN v.c.slotOf /\ SlotsHeld' = HeldIn(v.c)
    BY <1>1, <1>2, BecomesSound DEF HeldIn
  <1>4. QueueFor(queue', DOMAIN item)
    BY <1>1, <1>2, EmptyFor, QueueOf
  <1>5. QueuesOK'
    BY <1>4 DEF Inv, QueuesOK, QueueFor, EntriesFor
  <1>6. NamesOK'
    BY <1>1, <1>2, <1>3 DEF Inv, NamesOK
  <1>7. current' \in Nat
    <2>1. Cardinality(DOMAIN v.c.slotOf) \in Nat
      BY <1>2, InvTypes, FS_Subset, FS_CardinalityType
    <2> QED BY <1>1, <2>1 DEF Inv, PlainOK
  <1>8. SlotStep
    <2>1. SlotsHeld' = SlotsHeld \ (SlotsHeld \ HeldIn(v.c))
      BY <1>2, <1>3
    <2>2. CASE SlotsHeld \ HeldIn(v.c) = {}
      <3>1. SlotsHeld' = SlotsHeld
        BY <2>1, <2>2
      <3> QED BY <3>1, SlotSteps
    <2>3. CASE SlotsHeld \ HeldIn(v.c) # {}
      <3>1. \E S \in SUBSET SlotsHeld : S # {} /\ SlotsHeld' = SlotsHeld \ S
        BY <2>1, <2>3
      <3> QED BY <3>1, SlotSteps
    <2> QED BY <2>2, <2>3
  <1>9. StaysReachable'
    BY <1>1, <1>2, <1>3 DEF Inv, StaysReachable, HasCell
  <1> QED BY <1>3, <1>5, <1>6, <1>7, <1>8, <1>9

LEMMA CreateInKeeps ==
  ASSUME Inv, NEW d \in DOMAIN queue.disc, d \notin Shown, NEW v \in Evictions(d), NEW n \in SlotsFor(v.c),
         CreateIn(v, d, n), UNCHANGED <<kind, item, gone, saved, retiered>>
  PROVE  /\ QueuesOK' /\ NamesOK' /\ current' = current
         /\ ClientSound' /\ SlotStep /\ StaysReachable'
  <1> DEFINE c == ShownIn(v.c, d, n)
  <1>1. /\ Becomes(c) /\ queue' = [disc |-> Without(queue.disc, {d}), exist |-> v.exist]
        /\ visible' = (IF HasCell(d) THEN v.visible \cup {d} ELSE v.visible) /\ current' = current
    BY DEF CreateIn
  <1>2. /\ Sound(v.c) /\ DOMAIN v.c.slotOf \subseteq Shown /\ HeldIn(v.c) \subseteq SlotsHeld
        /\ EntriesFor(v.exist, DOMAIN item)
        /\ v.visible \subseteq visible /\ visible \cap DOMAIN v.c.slotOf \subseteq v.visible
    BY EvictionsKeep
  <1>3. d \in DOMAIN item /\ d \in ItemIds
    BY InvTypes DEF Inv, QueuesOK, QueueFor, EntriesFor
  <1>4. d \notin DOMAIN v.c.slotOf
    BY <1>2
  <1>5. /\ Sound(c) /\ DOMAIN c.slotOf = DOMAIN v.c.slotOf \cup {d}
        /\ DOMAIN c.client = DOMAIN v.c.client \cup {n} /\ c.lost = v.c.lost
        /\ kind = "icon" => n = NextId(v.c.slots)
    BY <1>2, <1>3, <1>4, ShownInIsSound
  <1> HIDE DEF c
  <1>6. ClientSound' /\ Shown' = DOMAIN c.slotOf /\ SlotsHeld' = HeldIn(c)
    BY <1>1, <1>5, BecomesSound DEF HeldIn
  <1>7. QueueFor(queue', DOMAIN item)
    <2>1. EntriesFor(Without(queue.disc, {d}), DOMAIN item)
      BY WithoutFor DEF Inv, QueuesOK, QueueFor
    <2> QED BY <1>1, <1>2, <2>1, QueueOf
  <1>8. QueuesOK'
    BY <1>7 DEF Inv, QueuesOK, QueueFor, EntriesFor
  <1>9. NamesOK'
    BY <1>1, <1>2, <1>3, <1>5, <1>6 DEF Inv, NamesOK
  <1>10. SlotStep
    <2>1. CASE kind # "icon"
      <3>1. SlotsHeld' = SlotsHeld
        BY <1>6, <2>1 DEF HeldIn, SlotsHeld
      <3> QED BY <3>1, SlotSteps
    <2>2. CASE kind = "icon"
      <3> DEFINE held == HeldIn(v.c)
                 left == SlotsHeld \ held
      <3>1. Knows(v.c.slots, held)
        BY <1>2, <2>2 DEF Sound, HeldIn
      <3>2. n = SlotsAre!Smallest(held)
        BY <1>5, <2>2, <3>1, NextSlotIsSmallest
      <3>3. SlotsHeld' = held \cup {n}
        BY <1>5, <1>6, <2>2 DEF HeldIn
      <3>4. held = SlotsHeld \ left /\ left \in SUBSET SlotsHeld
        BY <1>2
      <3> HIDE DEF held
      <3>5. CASE left = {}
        <4>1. held = SlotsHeld
          BY <3>4, <3>5
        <4>2. SlotsHeld' = SlotsHeld \cup {SlotsAre!Smallest(SlotsHeld)}
          BY <3>2, <3>3, <4>1
        <4> QED BY <4>2, SlotSteps
      <3>6. CASE left # {}
        <4> HIDE DEF left
        <4>1. SlotsHeld' = (SlotsHeld \ left) \cup {SlotsAre!Smallest(SlotsHeld \ left)}
          BY <3>2, <3>3, <3>4
        <4> QED BY <3>4, <3>6, <4>1, SlotSteps
      <3> QED BY <3>5, <3>6
    <2> QED BY <2>1, <2>2
  <1>11. StaysReachable'
    BY <1>1, <1>2, <1>5, <1>6 DEF Inv, StaysReachable, HasCell
  <1> QED BY <1>1, <1>6, <1>8, <1>9, <1>10, <1>11

LEMMA StreamInKeeps ==
  ASSUME Inv, StreamIn
  PROVE  Keeps
  <1>1. /\ loop' = OneLess /\ loop.left > 0
        /\ UNCHANGED <<kind, item, ids, pos, limit, chunked, gone, pending, saved, lowered, retiered>>
    BY DEF StreamIn, historyVars
  <1>2. loop' \in [at : {"idle", "out", "in", "process"}, left : Nat] /\ loop'.at = loop.at
    BY <1>1, OneLessOK
  <1>3. SavedOK'
    BY <1>1, <1>2 DEF Inv, SavedOK
  <1>4. SUFFICES /\ QueuesOK' /\ NamesOK' /\ current' \in Nat
                 /\ ClientSound' /\ SlotStep /\ StaysReachable'
    <2>1. PlainOK'
      BY <1>1, <1>2, <1>4 DEF Inv, PlainOK
    <2> QED BY <1>1, <1>3, <1>4, <2>1, KeepsItems
  <1>5. PICK d \in First(queue.disc) :
          IF d \in Shown
          THEN /\ queue' = [queue EXCEPT !.disc = Without(@, {d})]
               /\ UNCHANGED <<visible, clientVars, current>>
          ELSE \E v \in Evictions(d) :
                 \/ NoRoom(Cardinality(DOMAIN v.c.slotOf)) /\ Cancel(v)
                 \/ /\ ~NoRoom(Cardinality(DOMAIN v.c.slotOf))
                    /\ \/ \E n \in SlotsFor(v.c) : CreateIn(v, d, n)
                       \/ kind = "label" /\ ("refuse" \in Calls[kind] \/ SlotsFor(v.c) = {}) /\ Cancel(v)
    BY DEF StreamIn
  <1>6. d \in DOMAIN queue.disc /\ current \in Nat
    BY DEF First, Inv, PlainOK
  <1>7. CASE d \in Shown
    <2>1. /\ queue' = [queue EXCEPT !.disc = Without(queue.disc, {d})]
          /\ UNCHANGED <<visible, clientVars, current>>
      BY <1>5, <1>7
    <2>2. ClientSound' /\ Shown' = Shown /\ SlotStep
      BY <1>1, <2>1, ClientUnchanged DEF Inv
    <2>3. EntriesFor(Without(queue.disc, {d}), DOMAIN item) /\ EntriesFor(queue.exist, DOMAIN item)
      BY WithoutFor DEF Inv, QueuesOK, QueueFor
    <2>4. queue = [disc |-> queue.disc, exist |-> queue.exist]
      BY DEF Inv, QueuesOK, QueueFor
    <2>5. queue' = [disc |-> Without(queue.disc, {d}), exist |-> queue.exist]
      BY <2>1, <2>4
    <2>6. QueueFor(queue', DOMAIN item)
      BY <2>3, <2>5, QueueOf
    <2>7. QueuesOK'
      BY <1>1, <2>6 DEF Inv, QueuesOK, QueueFor, EntriesFor
    <2>8. NamesOK' /\ StaysReachable'
      BY <1>1, <2>1, <2>2 DEF Inv, NamesOK, StaysReachable, HasCell
    <2> QED BY <1>6, <2>1, <2>2, <2>7, <2>8
  <1>8. CASE d \notin Shown
    <2>1. PICK v \in Evictions(d) : Cancel(v) \/ \E n \in SlotsFor(v.c) : CreateIn(v, d, n)
      BY <1>5, <1>8
    <2>2. CASE Cancel(v)
      BY <1>1, <2>2, CancelKeeps
    <2>3. ASSUME NEW n \in SlotsFor(v.c), CreateIn(v, d, n)
          PROVE  /\ QueuesOK' /\ NamesOK' /\ current' \in Nat
                 /\ ClientSound' /\ SlotStep /\ StaysReachable'
      BY <1>1, <1>6, <1>8, <2>3, CreateInKeeps
    <2> QED BY <2>1, <2>2, <2>3
  <1> QED BY <1>7, <1>8

(* What is on the client and in visibleCell remains.                       *)
LEMMA ClientStays ==
  ASSUME Inv, UNCHANGED <<kind, item, ids, gone, visible, retiered, clientVars>>,
         PlainOK', QueuesOK', SavedOK'
  PROVE  Keeps
  <1>1. ClientSound' /\ Shown' = Shown /\ SlotStep
    BY ClientUnchanged DEF Inv
  <1>2. NamesOK' /\ StaysReachable'
    BY <1>1 DEF Inv, NamesOK, StaysReachable, HasCell
  <1> QED BY <1>1, <1>2, KeepsItems

LEMMA EndPassKeeps ==
  ASSUME Inv, EndPass
  PROVE  Keeps
  <1> DEFINE done == queue.disc = NoFun /\ gone = {}
  <1>1. /\ queue' = (IF done THEN EmptyQueue ELSE queue) /\ pending' = ~done
        /\ loop' = [at |-> "idle", left |-> 0] /\ loop.at # "process"
        /\ UNCHANGED <<kind, item, ids, pos, limit, current, chunked, gone, saved, visible, clientVars,
                       lowered, retiered>>
    BY DEF EndPass, playerVars, historyVars
  <1>2. pending' \in BOOLEAN
    BY <1>1
  <1> HIDE DEF done
  <1>3. PlainOK' /\ SavedOK'
    BY <1>1, <1>2 DEF Inv, PlainOK, SavedOK
  <1>4. QueueFor(queue', DOMAIN item)
    BY <1>1, EmptyFor DEF Inv, QueuesOK
  <1>5. QueuesOK'
    BY <1>1, <1>4 DEF Inv, QueuesOK, QueueFor, EntriesFor
  <1> QED BY <1>1, <1>3, <1>5, ClientStays

LEMMA EndProcessKeeps ==
  ASSUME Inv, EndProcess
  PROVE  Keeps
  <1>1. /\ queue' = saved /\ saved' = EmptyQueue
        /\ loop' = [at |-> "idle", left |-> 0]
        /\ UNCHANGED <<kind, item, ids, pos, limit, current, chunked, gone, pending, visible, clientVars,
                       lowered, retiered>>
    BY DEF EndProcess, playerVars, historyVars
  <1>2. PlainOK' /\ SavedOK'
    BY <1>1 DEF Inv, PlainOK, SavedOK, EmptyQueue
  <1>3. QueueFor(queue', DOMAIN item) /\ QueueFor(saved', DOMAIN item)
    BY <1>1, EmptyFor DEF Inv, QueuesOK
  <1>4. QueuesOK'
    BY <1>1, <1>3 DEF QueuesOK, QueueFor, EntriesFor
  <1> QED BY <1>1, <1>2, <1>4, ClientStays

LEMMA SetVisibleItemsKeeps ==
  ASSUME Inv, NEW n \in Limits[kind], SetVisibleItems(n)
  PROVE  Keeps
  <1>1. /\ limit' = n /\ lowered' = (lowered \/ n < Cardinality(Shown))
        /\ UNCHANGED <<kind, item, ids, pos, current, chunked, queue, gone, pending, saved, visible, clientVars,
                       loop, retiered>>
    BY DEF SetVisibleItems, queueVars
  <1>2. lowered' \in BOOLEAN
    BY <1>1
  <1>3. PlainOK' /\ SavedOK'
    BY <1>1, <1>2 DEF Inv, PlainOK, SavedOK
  <1>4. QueuesOK'
    BY <1>1 DEF Inv, QueuesOK, QueueFor, EntriesFor
  <1> QED BY <1>1, <1>3, <1>4, ClientStays

LEMMA ToggleChunkStreamKeeps ==
  ASSUME Inv, ToggleChunkStream
  PROVE  Keeps
  <1>1. /\ chunked' = ~chunked
        /\ UNCHANGED <<kind, item, ids, pos, limit, current, queue, gone, pending, saved, visible, clientVars,
                       loop, lowered, retiered>>
    BY DEF ToggleChunkStream, playerVars, queueVars, historyVars
  <1>2. chunked' \in BOOLEAN
    BY <1>1
  <1>3. PlainOK' /\ SavedOK'
    BY <1>1, <1>2 DEF Inv, PlainOK, SavedOK
  <1>4. QueuesOK'
    BY <1>1 DEF Inv, QueuesOK, QueueFor, EntriesFor
  <1> QED BY <1>1, <1>3, <1>4, ClientStays

(* Ids are as SmallestFree has them.                                       *)
LEMMA IdSteps ==
  ASSUME \/ DOMAIN item' = DOMAIN item
         \/ DOMAIN item' = DOMAIN item \cup {ItemIdsAre!Smallest(DOMAIN item)}
         \/ \E S \in SUBSET DOMAIN item : S # {} /\ DOMAIN item' = DOMAIN item \ S
  PROVE  IdStep
  BY DEF IdStep, ItemIdsAre!Next, ItemIdsAre!Take, ItemIdsAre!Give

LEMMA CreateDynamicItemKeeps ==
  ASSUME Inv, NEW x \in Places, NEW dist \in Distances[kind], NEW prio \in Priorities,
         CreateDynamicItem(x, dist, prio)
  PROVE  Keeps
  <1> DEFINE n == NextId(ids)
             new == [place |-> x, dist |-> dist, orig |-> Static, cell |-> CellAt(dist), prio |-> prio]
  <1>1. /\ item' = With(item, n, new) /\ ids' = Taken(ids)
        /\ UNCHANGED <<kind, pos, limit, current, chunked, queue, gone, pending, saved, visible, clientVars,
                       loop, lowered, retiered>>
    BY DEF CreateDynamicItem, playerVars, queueVars, historyVars
  <1>2. n \in ItemIds /\ n \notin DOMAIN item /\ n = ItemIdsAre!Smallest(DOMAIN item)
    BY NextIsFree, NextIsSmallest DEF Inv, IdsKnown
  <1>3. new \in ItemType
    <2>1. CellAt(dist) \in BOOLEAN
      BY DEF CellAt
    <2> QED BY <2>1 DEF ItemType
  <1>4. Knows(Taken(ids), DOMAIN item \cup {n})
    BY TakenKnows DEF Inv, IdsKnown
  <1> HIDE DEF n, new
  <1>5. /\ DOMAIN item' = DOMAIN item \cup {n} /\ item'[n] = new
        /\ \A i \in DOMAIN item : i # n => item'[i] = item[i]
    BY <1>1 DEF With
  <1>6. ItemsOK' /\ IdsKnown'
    BY <1>1, <1>3, <1>4, <1>5 DEF Inv, ItemsOK, ItemType, IdsKnown, Knows
  <1>7. ClientSound' /\ Shown' = Shown /\ SlotStep
    BY <1>1, ClientUnchanged DEF Inv
  <1>8. PlainOK' /\ SavedOK'
    BY <1>1 DEF Inv, PlainOK, SavedOK
  <1>9. QueuesOK' /\ NamesOK'
    BY <1>1, <1>5, <1>7 DEF Inv, QueuesOK, QueueFor, EntriesFor, NamesOK
  <1>10. StaysReachable'
    <2> SUFFICES ASSUME NEW i \in Shown \ retiered, item'[i].cell PROVE i \in visible \cup gone
      BY <1>1, <1>7 DEF StaysReachable, HasCell
    <2>1. i \in DOMAIN item /\ i # n
      BY <1>2 DEF Inv, NamesOK
    <2> QED BY <1>5, <2>1 DEF Inv, StaysReachable, HasCell
  <1>11. IdStep
    BY <1>2, <1>5, IdSteps
  <1> QED BY <1>6, <1>7, <1>8, <1>9, <1>10, <1>11 DEF Keeps, Inv

LEMMA DestroyDynamicItemsKeeps ==
  ASSUME Inv, NEW S \in SUBSET DOMAIN item, DestroyDynamicItems(S)
  PROVE  Keeps
  <1>1. /\ S # {} /\ item' = Without(item, S) /\ ids' = Returned(ids, S, DOMAIN item \ S) /\ Hide(S)
        /\ queue' = QueueWithout(queue, S) /\ gone' = gone \ S /\ visible' = visible \ S
        /\ retiered' = retiered \ S /\ loop.at # "process"
        /\ UNCHANGED <<kind, pos, limit, current, chunked, pending, saved, loop, lowered>>
    BY DEF DestroyDynamicItems, playerVars, Idle
  <1>2. DOMAIN item' = DOMAIN item \ S /\ \A i \in DOMAIN item' : item'[i] = item[i]
    BY <1>1 DEF Without
  <1>3. IdsKnown'
    <2> DEFINE rest == DOMAIN item \ S
    <2>1. /\ rest # {} => Knows(ids', DOMAIN item \ S)
          /\ rest = {} => Knows(ids', {})
      <3>1. Knows(ids, DOMAIN item) /\ ids' = Returned(ids, S, rest)
        BY <1>1 DEF Inv, IdsKnown
      <3> HIDE DEF rest
      <3> QED BY <3>1, ReturnedKnows
    <2>2. Knows(ids', DOMAIN item')
      BY <1>2, <2>1
    <2> QED BY <2>2 DEF IdsKnown, Knows
  <1>4. ItemsOK'
    BY <1>1, <1>2 DEF Inv, ItemsOK, ItemType
  <1>5. ClientSound' /\ Shown' = Shown \ S /\ SlotStep
    BY <1>1, HideKeeps DEF Inv
  <1>6. PlainOK'
    BY <1>1 DEF Inv, PlainOK
  <1>7. SavedOK' /\ saved = EmptyQueue
    BY <1>1 DEF Inv, SavedOK
  <1>8. QueueFor(queue', DOMAIN item')
    <2>1. /\ EntriesFor(Without(queue.disc, S), DOMAIN item \ S)
          /\ EntriesFor(Without(queue.exist, S), DOMAIN item \ S)
      BY WithoutFor DEF Inv, QueuesOK, QueueFor
    <2> QED BY <1>1, <1>2, <2>1, QueueOf DEF QueueWithout
  <1>9. QueueFor(saved', DOMAIN item')
    BY <1>1, <1>7, EmptyFor
  <1>10. QueuesOK'
    BY <1>8, <1>9 DEF QueuesOK, QueueFor, EntriesFor
  <1>11. NamesOK'
    BY <1>1, <1>2, <1>5 DEF Inv, NamesOK
  <1>12. StaysReachable'
    BY <1>1, <1>2, <1>5 DEF Inv, NamesOK, StaysReachable, HasCell
  <1>13. IdStep
    BY <1>1, <1>2, IdSteps
  <1> QED BY <1>3, <1>4, <1>5, <1>6, <1>7, <1>10, <1>11, <1>12, <1>13 DEF Keeps, Inv

(* An item is shown again.                                                 *)
LEMMA ReshowKeeps ==
  ASSUME Inv, NEW i \in DOMAIN item, Reshow(i), UNCHANGED kind
  PROVE  ClientSound' /\ Shown' = Shown /\ SlotStep
  <1>1. CASE kind = "label" /\ i \in Shown
    <2> DEFINE h == Hidden({i})
    <2>1. PICK n \in SlotsFor(h) : Becomes(ShownIn(h, i, n))
      BY <1>1 DEF Reshow
    <2>2. {i} \in SUBSET Shown /\ {i} # {} /\ i \in ItemIds
      BY <1>1, InvTypes
    <2>3. Sound(h) /\ DOMAIN h.slotOf = Shown \ {i}
      BY <2>2, HiddenIsSound DEF Inv
    <2> HIDE DEF h
    <2> DEFINE c == ShownIn(h, i, n)
    <2>4. Sound(c) /\ DOMAIN c.slotOf = DOMAIN h.slotOf \cup {i}
      BY <2>2, <2>3, ShownInIsSound
    <2>5. Becomes(c)
      BY <2>1
    <2> HIDE DEF c
    <2>6. ClientSound' /\ Shown' = DOMAIN c.slotOf
      BY <2>4, <2>5, BecomesSound
    <2>7. SlotsHeld' = SlotsHeld
      BY <1>1 DEF SlotsHeld
    <2> QED BY <1>1, <2>3, <2>4, <2>6, <2>7, SlotSteps
  <1>2. CASE ~(kind = "label" /\ i \in Shown)
    <2>1. UNCHANGED clientVars
      BY <1>2 DEF Reshow
    <2> QED BY <2>1, ClientUnchanged DEF Inv
  <1> QED BY <1>1, <1>2

(* What is left to show when one item changes.                             *)
LEMMA ItemChanged ==
  ASSUME Inv, NEW i \in DOMAIN item, NEW new \in ItemType, item' = [item EXCEPT ![i] = new],
         UNCHANGED <<kind, ids, pos, limit, current, chunked, queue, gone, pending, saved, visible, loop, lowered>>,
         ClientSound', Shown' = Shown, SlotStep,
         retiered \subseteq retiered', retiered' \subseteq retiered \cup {i},
         new.cell => i \notin Shown \/ i \in retiered' \/ HasCell(i)
  PROVE  Keeps
  <1>1. /\ DOMAIN item' = DOMAIN item /\ item'[i] = new
        /\ \A j \in DOMAIN item : j # i => item'[j] = item[j]
    OBVIOUS
  <1>2. ItemsOK' /\ IdsKnown'
    BY <1>1 DEF Inv, ItemsOK, ItemType, IdsKnown, Knows
  <1>3. PlainOK' /\ SavedOK'
    BY DEF Inv, PlainOK, SavedOK
  <1>4. QueuesOK' /\ NamesOK'
    BY <1>1 DEF Inv, QueuesOK, QueueFor, EntriesFor, NamesOK
  <1>5. StaysReachable'
    <2> SUFFICES ASSUME NEW j \in Shown \ retiered', item'[j].cell PROVE j \in visible \cup gone
      BY DEF StaysReachable, HasCell
    <2>1. j \in DOMAIN item /\ j \in Shown \ retiered
      BY DEF Inv, NamesOK
    <2>2. HasCell(j)
      BY <1>1, <2>1 DEF HasCell
    <2> QED BY <2>1, <2>2 DEF Inv, StaysReachable
  <1>6. IdStep
    BY <1>1, IdSteps
  <1> QED BY <1>2, <1>3, <1>4, <1>5, <1>6 DEF Keeps, Inv

LEMMA SetItemPosKeeps ==
  ASSUME Inv, NEW i \in DOMAIN item, NEW x \in Places, SetItemPos(i, x)
  PROVE  Keeps
  <1> DEFINE new == [item[i] EXCEPT !.place = x]
  <1>1. /\ item' = [item EXCEPT ![i].place = x] /\ Reshow(i)
        /\ UNCHANGED <<kind, ids, pos, limit, current, chunked, queue, gone, pending, saved, visible,
                       loop, lowered, retiered>>
    BY DEF SetItemPos, playerVars, queueVars, historyVars
  <1>2. item[i] \in ItemType
    BY DEF Inv, ItemsOK
  <1>3. new \in ItemType /\ new.cell = item[i].cell
    BY <1>2 DEF ItemType
  <1>4. item' = [item EXCEPT ![i] = new]
    BY <1>1
  <1> HIDE DEF new
  <1>5. ClientSound' /\ Shown' = Shown /\ SlotStep
    BY <1>1, ReshowKeeps
  <1> QED BY <1>1, <1>3, <1>4, <1>5, ItemChanged DEF HasCell

LEMMA ToggleItemStaticKeeps ==
  ASSUME Inv, NEW i \in DOMAIN item, ToggleItemStatic(i)
  PROVE  Keeps
  <1> DEFINE new == [item[i] EXCEPT !.dist = item[i].orig, !.orig = item[i].dist]
  <1>1. /\ item' = [item EXCEPT ![i].dist = item[i].orig, ![i].orig = item[i].dist]
        /\ UNCHANGED <<kind, ids, pos, limit, current, chunked, queue, gone, pending, saved, visible, clientVars,
                       loop, lowered, retiered>>
    BY DEF ToggleItemStatic, playerVars, queueVars, historyVars
  <1>2. item[i] \in ItemType
    BY DEF Inv, ItemsOK
  <1>3. new \in ItemType /\ new.cell = item[i].cell
    BY <1>2 DEF ItemType
  <1>4. item' = [item EXCEPT ![i] = new]
    BY <1>1
  <1> HIDE DEF new
  <1>5. ClientSound' /\ Shown' = Shown /\ SlotStep
    BY <1>1, ClientUnchanged DEF Inv
  <1> QED BY <1>1, <1>3, <1>4, <1>5, ItemChanged DEF HasCell

LEMMA SetStreamDistanceKeeps ==
  ASSUME Inv, NEW i \in DOMAIN item, NEW dist \in Distances[kind] \ {Static}, SetStreamDistance(i, dist)
  PROVE  Keeps
  <1> DEFINE new == [item[i] EXCEPT !.dist = dist, !.cell = CellAt(dist)]
  <1>1. /\ item' = [item EXCEPT ![i].dist = dist, ![i].cell = CellAt(dist)]
        /\ retiered' = retiered \cup (IF i \in Shown /\ ~HasCell(i) /\ CellAt(dist) THEN {i} ELSE {})
        /\ UNCHANGED <<kind, ids, pos, limit, current, chunked, queue, gone, pending, saved, visible, clientVars,
                       loop, lowered>>
    BY DEF SetStreamDistance, playerVars, queueVars
  <1>2. item[i] \in ItemType /\ CellAt(dist) \in BOOLEAN
    BY DEF Inv, ItemsOK, CellAt
  <1>3. new \in ItemType /\ new.cell = CellAt(dist)
    BY <1>2 DEF ItemType
  <1>4. item' = [item EXCEPT ![i] = new]
    BY <1>1
  <1> HIDE DEF new
  <1>5. ClientSound' /\ Shown' = Shown /\ SlotStep
    BY <1>1, ClientUnchanged DEF Inv
  <1>6. new.cell => i \notin Shown \/ i \in retiered' \/ HasCell(i)
    BY <1>1, <1>3
  <1> QED BY <1>1, <1>3, <1>4, <1>5, <1>6, ItemChanged

LEMMA DestroyAllVisibleItemsKeeps ==
  ASSUME Inv, NEW S \in SUBSET Shown, DestroyAllVisibleItems(S)
  PROVE  Keeps
  <1> DEFINE c == [slotOf |-> Without(slotOf, S), client |-> Without(client, SlotsOf(S)), slots |-> slots,
                   lost |-> IF kind = "icon" THEN lost \cup SlotsOf(S) ELSE lost]
  <1>1. UNCHANGED <<kind, item, ids, pos, limit, current, chunked, queue, gone, pending, saved, visible,
                    loop, lowered, retiered>>
    BY DEF DestroyAllVisibleItems, playerVars, queueVars, historyVars
  <1>2. Becomes(c)
    BY DEF DestroyAllVisibleItems, Becomes
  <1>3. /\ Shown \subseteq ItemIds
        /\ \A i \in Shown : slotOf[i] \in Nat /\ slotOf[i] \in DOMAIN client /\ client[slotOf[i]] = i
        /\ \A n \in DOMAIN client : client[n] \in Shown /\ slotOf[client[n]] = n
        /\ slots \in IdentifierType
        /\ kind = "icon" => Knows(slots, DOMAIN client \cup lost) /\ DOMAIN client \cap lost = {}
    BY UnevictedFields DEF Inv, ClientSound, Sound, Shown
  <1>4. /\ c = [slotOf |-> c.slotOf, client |-> c.client, slots |-> c.slots, lost |-> c.lost]
        /\ c.slots = slots /\ c.lost = IF kind = "icon" THEN lost \cup SlotsOf(S) ELSE lost
        /\ DOMAIN c.slotOf = Shown \ S /\ \A i \in Shown \ S : c.slotOf[i] = slotOf[i]
        /\ DOMAIN c.client = DOMAIN client \ SlotsOf(S)
        /\ \A n \in DOMAIN client \ SlotsOf(S) : c.client[n] = client[n]
    BY DEF Without, Shown
  <1>5. \A i \in Shown \ S : slotOf[i] \notin SlotsOf(S)
    BY <1>3 DEF SlotsOf
  <1>6. \A n \in DOMAIN client \ SlotsOf(S) : client[n] \in Shown \ S
    BY <1>3 DEF SlotsOf
  <1>7. SlotsOf(S) \subseteq DOMAIN client
    BY <1>3 DEF SlotsOf
  <1> HIDE DEF c
  <1>8. kind = "icon" => /\ DOMAIN c.client \cup c.lost = DOMAIN client \cup lost
                         /\ DOMAIN c.client \cap c.lost = {}
    BY <1>3, <1>4, <1>7
  <1>9. Sound(c)
    BY <1>3, <1>4, <1>5, <1>6, <1>8 DEF Sound
  <1>10. /\ ClientSound' /\ Shown' = DOMAIN c.slotOf
         /\ SlotsHeld' = IF kind = "icon" THEN DOMAIN c.client \cup c.lost ELSE {}
    BY <1>1, <1>2, <1>9, BecomesSound
  <1>11. SlotsHeld' = SlotsHeld
    BY <1>8, <1>10, SlotsAreThoseOfClient DEF SlotsHeld, Inv
  <1>12. SlotStep
    BY <1>11, SlotSteps
  <1>13. PlainOK' /\ SavedOK'
    BY <1>1 DEF Inv, PlainOK, SavedOK
  <1>14. QueuesOK' /\ NamesOK'
    BY <1>1, <1>4, <1>10 DEF Inv, QueuesOK, QueueFor, EntriesFor, NamesOK
  <1>15. StaysReachable'
    BY <1>1, <1>4, <1>10 DEF Inv, StaysReachable, HasCell
  <1> QED BY <1>1, <1>10, <1>12, <1>13, <1>14, <1>15, KeepsItems

-----------------------------------------------------------------------------
(* Theorems.                                                               *)

LEMMA InitInv == Init => Inv /\ DOMAIN item = {} /\ SlotsHeld = {}
  <1> SUFFICES ASSUME Init PROVE Inv /\ DOMAIN item = {} /\ SlotsHeld = {}
    OBVIOUS
  <1>1. /\ DOMAIN item = {} /\ Shown = {} /\ DOMAIN client = {} /\ lost = {}
        /\ gone = {} /\ visible = {} /\ retiered = {}
    BY DEF Init, NoFun, Shown
  <1>2. PlainOK
    <2>1. limit \in Nat
      BY KindsAssumption, LimitsAssumption DEF Init
    <2> QED BY <2>1 DEF Init, PlainOK
  <1>3. ItemsOK /\ NamesOK /\ SavedOK /\ StaysReachable
    BY <1>1 DEF Init, ItemsOK, NamesOK, SavedOK, StaysReachable
  <1>4. Knows(ids, DOMAIN item) /\ Knows(slots, DOMAIN client \cup lost)
    <2>1. ids = NewIdentifier /\ slots = NewIdentifier /\ DOMAIN client \cup lost = {}
      BY <1>1 DEF Init
    <2> QED BY <1>1, <2>1, NewKnowsNobody
  <1>5. QueuesOK
    BY EmptyFor DEF Init, QueuesOK
  <1>6. ClientSound
    BY <1>1, <1>4 DEF ClientSound, Sound, Unevicted, Shown, Knows
  <1>7. SlotsHeld = {}
    BY <1>1 DEF SlotsHeld, SlotsOf
  <1> QED BY <1>1, <1>2, <1>3, <1>4, <1>5, <1>6, <1>7 DEF Inv, IdsKnown

LEMMA NextKeeps ==
  ASSUME Inv, [Next]_vars
  PROVE  Keeps
  <1>1. CASE UNCHANGED vars
    <2>1. UNCHANGED <<kind, item, ids, pos, limit, current, chunked, queue, gone, pending, saved, visible,
                      clientVars, loop, lowered, retiered>>
      BY <1>1 DEF vars, playerVars, queueVars, clientVars, historyVars
    <2>2. PlainOK' /\ SavedOK'
      BY <2>1 DEF Inv, PlainOK, SavedOK
    <2>3. QueuesOK'
      BY <2>1 DEF Inv, QueuesOK, QueueFor, EntriesFor
    <2> QED BY <2>1, <2>2, <2>3, ClientStays
  <1>2. CASE Stream
    BY <1>2, ChunkUpdateKeeps, StreamOutKeeps, StreamInKeeps, EndPassKeeps, EndProcessKeeps DEF Stream
  <1>3. CASE ToggleChunkStream
    BY <1>3, ToggleChunkStreamKeeps
  <1>4. ASSUME NEW x \in Places,
               \/ AutomaticUpdate(x) \/ ManualUpdate(x)
               \/ \E dist \in Distances[kind], prio \in Priorities : CreateDynamicItem(x, dist, prio)
               \/ \E i \in DOMAIN item : SetItemPos(i, x)
        PROVE  Keeps
    BY <1>4, AutomaticUpdateKeeps, ManualUpdateKeeps, CreateDynamicItemKeeps, SetItemPosKeeps
  <1>5. CASE \E S \in SUBSET DOMAIN item : DestroyDynamicItems(S)
    BY <1>5, DestroyDynamicItemsKeeps
  <1>6. CASE \E S \in SUBSET Shown : DestroyAllVisibleItems(S)
    BY <1>6, DestroyAllVisibleItemsKeeps
  <1>7. CASE \E i \in DOMAIN item : ToggleItemStatic(i)
    BY <1>7, ToggleItemStaticKeeps
  <1>8. CASE \E i \in DOMAIN item, dist \in Distances[kind] \ {Static} : SetStreamDistance(i, dist)
    BY <1>8, SetStreamDistanceKeeps
  <1>9. CASE \E n \in Limits[kind] : SetVisibleItems(n)
    BY <1>9, SetVisibleItemsKeeps
  <1> QED BY <1>1, <1>2, <1>3, <1>4, <1>5, <1>6, <1>7, <1>8, <1>9 DEF Next

LEMMA InvAlways == Spec => []Inv
  <1>1. Inv /\ [Next]_vars => Inv'
    BY NextKeeps DEF Keeps
  <1> QED BY <1>1, InitInv, PTL DEF Spec

LEMMA InvIsTyped == Inv => TypeOK
  <1> SUFFICES ASSUME Inv PROVE TypeOK
    OBVIOUS
  <1>1. DOMAIN item \subseteq ItemIds
    BY InvTypes
  <1>2. ids \in IdentifierType
    BY DEF Inv, IdsKnown, Knows
  <1>3. /\ \A i \in Shown : slotOf[i] \in Nat
        /\ \A n \in DOMAIN client : client[n] \in ItemIds
        /\ slots \in IdentifierType
    BY UnevictedFields DEF Inv, ClientSound, Sound, Shown
  <1>4. QueueOK(queue) /\ QueueOK(saved)
    BY DEF Inv, QueuesOK, QueueFor, EntriesFor, QueueOK
  <1>5. \A i \in DOMAIN item : item[i] \in ItemType
    BY DEF Inv, ItemsOK
  <1> QED BY <1>1, <1>2, <1>3, <1>4, <1>5 DEF Inv, PlainOK, ItemType, TypeOK

LEMMA InvMirrors == Inv => ClientMirrorsStreamer
  <1> SUFFICES ASSUME Inv PROVE ClientMirrorsStreamer
    OBVIOUS
  <1>1. Shown \cup gone \cup visible \cup retiered \subseteq DOMAIN item
    BY DEF Inv, NamesOK
  <1>2. \A q \in {queue, saved} : DOMAIN q.disc \cup DOMAIN q.exist \subseteq DOMAIN item
    BY DEF Inv, QueuesOK, QueueFor, EntriesFor
  <1>3. DOMAIN client = SlotsOf(Shown)
    BY SlotsAreThoseOfClient DEF Inv
  <1>4. \A i \in Shown : client[slotOf[i]] = i
    BY UnevictedFields DEF Inv, ClientSound, Sound, Shown
  <1> QED BY <1>1, <1>2, <1>3, <1>4 DEF ClientMirrorsStreamer

(* Whatever is streamed, created, changed and destroyed, every variable    *)
(* keeps its type: a current limit remains a number of items, and no entry *)
(* of a queue is without a priority and a distance.                        *)
THEOREM Types == Spec => []TypeOK
  BY InvAlways, InvIsTyped, PTL

(* The client shows each item the streamer has on record for it, once, in  *)
(* a slot of its own, and nothing else: no icon ever overwrites another.   *)
(* No queue, no set of the player's and no client names an item that has   *)
(* been destroyed, although its id is given out again at once.             *)
THEOREM NoIconIsOverwritten == Spec => []ClientMirrorsStreamer
  BY InvAlways, InvMirrors, PTL

(* An item with a cell that is on the client is in visibleCell or among    *)
(* the removed items, so that the player need only go for it to be taken   *)
(* off; whichever of updates, evictions and natives put it there.          *)
THEOREM NothingIsLeftBehind == Spec => []StaysReachable
  <1>1. Inv => StaysReachable
    BY DEF Inv
  <1> QED BY <1>1, InvAlways, PTL

(* Ids implement SmallestFree: whoever creates an item gets the smallest   *)
(* id that is free, also when a script that ends has destroyed many.       *)
THEOREM IdsImplementSmallestFree == Spec => IdsAreSmallest
  <1>1. Init => ItemIdsAre!Init
    BY InitInv DEF ItemIdsAre!Init
  <1>2. Inv /\ [Next]_vars => [ItemIdsAre!Next]_(DOMAIN item)
    BY NextKeeps DEF Keeps, IdStep
  <1> QED BY <1>1, <1>2, InvAlways, PTL DEF Spec, IdsAreSmallest, ItemIdsAre!Spec

(* Slots of map icons implement it too, evictions included, if those that  *)
(* Streamer_DestroyAllVisibleItems loses count as held until the last icon *)
(* is hidden.                                                              *)
THEOREM SlotsImplementSmallestFree == Spec => SlotsAreSmallest
  <1>1. Init => SlotsAre!Init
    BY InitInv DEF SlotsAre!Init, SlotsHeld
  <1>2. Inv /\ [Next]_vars => [SlotsAre!Next]_(IF kind = "icon" THEN SlotsOf(Shown) \cup lost ELSE {})
    <2> SUFFICES ASSUME Inv, [Next]_vars
                 PROVE  [SlotsAre!Next]_(IF kind = "icon" THEN SlotsOf(Shown) \cup lost ELSE {})
      OBVIOUS
    <2>1. SlotStep
      BY NextKeeps DEF Keeps
    <2> QED BY <2>1 DEF SlotStep, SlotsHeld
  <1> QED BY <1>1, <1>2, InvAlways, PTL DEF Spec, SlotsAreSmallest, SlotsAre!Spec

=============================================================================
