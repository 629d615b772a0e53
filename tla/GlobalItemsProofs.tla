--------------------------- MODULE GlobalItemsProofs ---------------------------
(* Proofs about GlobalItems, for every value of its constants.  First what *)
(* holds whatever the server refuses: types, the limit, the cells.  Then   *)
(* the books of copies, which no refused pickup may upset (AlwaysRoom).    *)
(* They are changed in four ways: copies are discarded, left to the next   *)
(* tick, cleared by it, and made.  Each keeps the books in order (Booked), *)
(* and every action is made of these.                                      *)
EXTENDS GlobalItems, FiniteSetTheorems, TLAPS

Image(f, K) == {f[k] : k \in K}

LEMMA OverIs ==
  ASSUME NEW f, NEW g
  PROVE  /\ DOMAIN Over(f, g) = DOMAIN f \cup DOMAIN g
         /\ \A x \in DOMAIN f : Over(f, g)[x] = f[x]
         /\ \A x \in DOMAIN g \ DOMAIN f : Over(f, g)[x] = g[x]
  BY DEF Over

LEMMA RestrictIs ==
  ASSUME NEW f, NEW S
  PROVE  DOMAIN Restrict(f, S) = S /\ \A x \in S : Restrict(f, S)[x] = f[x]
  BY DEF Restrict

(* The copies made under the ids id.                                       *)
LEMMA CopiesAre ==
  ASSUME NEW items, NEW id, IsInjective(id)
  PROVE  /\ DOMAIN Copies(items, id) = Image(id, DOMAIN id)
         /\ \A k \in DOMAIN id : Copies(items, id)[id[k]] = Copy(items[k[1]], k)
  <1>1. \A k \in DOMAIN id : AntiFunction(id)[id[k]] = k
    BY DEF AntiFunction, Inverse, Range, IsInjective
  <1> QED BY <1>1 DEF Copies, Range, Image

(* What is made from an item is a copy.                                    *)
LEMMA CopyTyped ==
  ASSUME NEW it \in ItemType, NEW k \in Keys
  PROVE  Copy(it, k) \in CopyType
  BY DEF Copy, CopyType, ItemType, Keys

LEMMA KeysFinite == IsFiniteSet(Keys)
  <1>1. IsFiniteSet(Worlds \cup {AnyWorld})
    BY FS_AddElement, WorldAssumption
  <1> QED BY <1>1, FS_Product, IdsAssumption DEF Keys

(* A set of keys that is not smaller than one that contains it.            *)
LEMMA NotSmaller ==
  ASSUME NEW new \in SUBSET Keys, NEW made \in SUBSET new, Cardinality(new) <= Cardinality(made)
  PROVE  made = new
  <1>1. IsFiniteSet(new)
    BY KeysFinite, FS_Subset
  <1>2. Cardinality(made) <= Cardinality(new) /\ IsFiniteSet(made)
    BY <1>1, FS_Subset
  <1>3. Cardinality(made) = Cardinality(new)
    BY <1>1, <1>2, FS_CardinalityType
  <1> QED BY <1>1, <1>3, FS_Subset

(* A refused actor is noticed.                                             *)
LEMMA ActorsAreServed ==
  ASSUME Kind = "actor", NEW fresh \in SUBSET Keys, NEW kept, NEW free,
         NEW new \in Chosen(fresh, kept, free), NEW made \in Served(new, free)
  PROVE  made = new
  <1>1. new \in SUBSET Keys /\ Cardinality(new) <= Cardinality(free)
    BY DEF Chosen
  <1>2. made \in SUBSET new /\ (made = new \/ Cardinality(made) = Cardinality(free))
    BY DEF Served
  <1> QED BY <1>1, <1>2, NotSmaller

-----------------------------------------------------------------------------
(* Types.                                                                  *)
Typed ==
  /\ DOMAIN item \subseteq Ids /\ \A i \in DOMAIN item : item[i] \in ItemType
  /\ births \in Nat
  /\ DOMAIN player \subseteq Players /\ \A p \in DOMAIN player : player[p] \in PlayerType
  /\ maxVisible \in Limits

Phantom == IF Kind = "pickup" THEN {Zero} ELSE {}

Recorded ==
  /\ DOMAIN internal \subseteq Keys
  /\ \A k \in DOMAIN internal : internal[k] \in ServerIds \cup Phantom
  /\ destroyed \subseteq ServerIds /\ foreign \subseteq ServerIds
  /\ DOMAIN server \subseteq ServerIds
  /\ \A s \in DOMAIN server : server[s] \in CopyType

LEMMA CreationKeepsTypes == Typed /\ CreationStep => Typed'
  <1> SUFFICES ASSUME Typed,
                      NEW x \in Places, NEW d \in Distances, NEW W \in WorldSets,
                      NEW P \in Audiences, NEW n \in Priorities, NEW a \in Scripts,
                      CreateDynamicItem(NewItem(x, d, W, P, n, a))
               PROVE  Typed'
    BY DEF CreationStep
  <1> DEFINE it == NewItem(x, d, W, P, n, a)
  <1>1. it \in ItemType
    <2>1. W \in SUBSET (Worlds \cup {AnyWorld})
      BY WorldAssumption
    <2> QED BY <2>1, PlaceAssumption, DistanceAssumption DEF NewItem, ItemType, CellFor, Typed
  <1>2. PICK i \in Ids : item' = Over([j \in {i} |-> it], item)
    BY DEF CreateDynamicItem
  <1> HIDE DEF it
  <1>3. DOMAIN item' \subseteq Ids /\ \A j \in DOMAIN item' : item'[j] \in ItemType
    BY <1>1, <1>2 DEF Over, Typed
  <1> QED BY <1>3 DEF CreateDynamicItem, Typed

LEMMA ItemStepKeepsTypes == Typed /\ (\E i \in Ids : ItemStep(i)) => Typed'
  <1> SUFFICES ASSUME Typed, NEW i \in Ids, ItemStep(i) PROVE Typed'
    OBVIOUS
  <1> USE DEF ItemType
  <1>1. ASSUME NEW it \in ItemType, i \in DOMAIN item, item' = [item EXCEPT ![i] = it],
               UNCHANGED <<births, player, maxVisible>>
        PROVE  Typed'
    BY <1>1 DEF Typed
  <1>2. i \in DOMAIN item => item[i] \in ItemType
    BY DEF Typed
  <1>3. CASE DestroyDynamicItem(i)
    BY <1>3, RestrictIs DEF DestroyDynamicItem, DestroyItems, Typed
  <1>4. ASSUME NEW w \in Worlds, SetWorlds(i, w) PROVE Typed'
    <2>1. PICK new \in {{w}, item[i].worlds \cup {w}, item[i].worlds \ {w}, {}} :
            item' = [item EXCEPT ![i].worlds = new]
      BY <1>4 DEF SetWorlds
    <2>2. [item[i] EXCEPT !.worlds = new] \in ItemType
      BY <1>2, <1>4, <2>1 DEF SetWorlds
    <2> QED BY <1>1, <1>4, <2>1, <2>2 DEF SetWorlds
  <1>5. ASSUME NEW x \in Places, SetItemPos(i, x) PROVE Typed'
    <2> DEFINE it == [item[i] EXCEPT !.place = x,
                        !.cell = IF x = item[i].place \/ item[i].cell = GlobalCell
                                 THEN @ ELSE CellFor(item[i].static, x)]
    <2>1. it \in ItemType
      BY <1>2, <1>5 DEF SetItemPos, CellFor
    <2>2. /\ i \in DOMAIN item /\ item' = [item EXCEPT ![i] = it]
          /\ UNCHANGED <<births, player, maxVisible>>
      BY <1>5 DEF SetItemPos, Alter
    <2> QED BY <1>1, <2>1, <2>2
  <1>6. ASSUME NEW x \in Places, SetCoordinate(i, x) PROVE Typed'
    <2> DEFINE it == [item[i] EXCEPT !.place = x,
                        !.cell = IF @ = GlobalCell THEN @ ELSE CellFor(item[i].static, x)]
    <2>1. it \in ItemType
      BY <1>2, <1>6 DEF SetCoordinate, CellFor
    <2>2. /\ i \in DOMAIN item /\ item' = [item EXCEPT ![i] = it]
          /\ UNCHANGED <<births, player, maxVisible>>
      BY <1>6 DEF SetCoordinate, Alter
    <2> QED BY <1>1, <2>1, <2>2
  <1>7. ASSUME NEW x \in Places, SetActorPos(i, x) PROVE Typed'
    <2>1. [item[i] EXCEPT !.place = x,
                          !.cell = IF CopiesOf(i) = {} THEN @ ELSE CellFor(item[i].static, x)]
            \in ItemType
      BY <1>2, <1>7 DEF SetActorPos, CellFor
    <2> QED BY <1>1, <1>7, <2>1 DEF SetActorPos
  <1>8. ASSUME NEW d \in Distances, SetStreamDistance(i, d) PROVE Typed'
    <2>1. item' = [item EXCEPT ![i] = [item[i] EXCEPT !.distance = d, !.static = FALSE,
                                                      !.cell = item[i].place]]
      BY <1>8 DEF SetStreamDistance
    <2>2. [item[i] EXCEPT !.distance = d, !.static = FALSE, !.cell = item[i].place] \in ItemType
      BY <1>2, <1>8, DistanceAssumption DEF SetStreamDistance
    <2> QED BY <1>1, <1>8, <2>1, <2>2 DEF SetStreamDistance
  <1>9. CASE ToggleItemStatic(i)
    <2>1. item' = [item EXCEPT ![i] = [item[i] EXCEPT !.static = ~@, !.kept = ~@]]
      BY <1>9 DEF ToggleItemStatic
    <2>2. [item[i] EXCEPT !.static = ~@, !.kept = ~@] \in ItemType
      BY <1>2, <1>9 DEF ToggleItemStatic
    <2> QED BY <1>1, <1>9, <2>1, <2>2 DEF ToggleItemStatic
  <1>10. ASSUME NEW P \in Audiences, SetAudience(i, P) PROVE Typed'
    <2>1. [item[i] EXCEPT !.audience = P] \in ItemType
      BY <1>2, <1>10, PlaceAssumption DEF SetAudience
    <2> QED BY <1>1, <1>10, <2>1 DEF SetAudience
  <1> QED BY <1>3, <1>4, <1>5, <1>6, <1>7, <1>8, <1>9, <1>10 DEF ItemStep

LEMMA PlayerStepKeepsTypes == Typed /\ (\E p \in Players : PlayerStep(p)) => Typed'
  <1> SUFFICES ASSUME Typed, NEW p \in Players, PlayerStep(p) PROVE Typed'
    OBVIOUS
  <1>1. ASSUME NEW x \in Places, NEW w \in Worlds, Sample(p, x, w) PROVE Typed'
    <2>1. player' = [player EXCEPT ![p] = [player[p] EXCEPT !.at = x, !.world = w]]
      BY <1>1 DEF Sample
    <2> QED BY <1>1, <2>1 DEF Sample, Typed, PlayerType
  <1>2. CASE ToggleItemUpdate(p)
    BY <1>2 DEF ToggleItemUpdate, Typed, PlayerType
  <1>3. CASE Connect(p)
    <2>1. [at |-> Origin, world |-> 0, enabled |-> p \notin Npcs] \in PlayerType
      BY PlaceAssumption, WorldAssumption DEF PlayerType
    <2> QED BY <1>3, <2>1 DEF Connect, Over, Typed
  <1>4. CASE Disconnect(p)
    BY <1>4 DEF Disconnect, Restrict, Typed
  <1> QED BY <1>1, <1>2, <1>3, <1>4 DEF PlayerStep

LEMMA StepKeepsTypes == Typed /\ [Next]_vars => Typed'
  <1> SUFFICES ASSUME Typed, [Next]_vars PROVE Typed'
    OBVIOUS
  <1>1. ASSUME NEW a \in Scripts, ScriptStep(a) PROVE Typed'
    <2>1. CASE OnAmxUnload(a)
      <3>1. PICK I : DestroyItems(I)
        BY <2>1 DEF OnAmxUnload
      <3> QED BY <3>1, RestrictIs DEF DestroyItems, Typed
    <2>2. CASE \E serverWide \in BOOLEAN : DestroyAllVisibleItems(a, serverWide)
      BY <2>2 DEF DestroyAllVisibleItems, Typed
    <2> QED BY <1>1, <2>1, <2>2 DEF ScriptStep
  <1>2. CASE \/ GlobalTick
             \/ \E n \in Limits : SetVisibleItems(n)
             \/ \E s \in ServerIds : ScriptOccupies(s) \/ ScriptReleases(s)
             \/ UNCHANGED vars
    BY <1>2 DEF GlobalTick, SetVisibleItems, ScriptOccupies, ScriptReleases, vars, Typed
  <1> QED BY <1>1, <1>2, CreationKeepsTypes, ItemStepKeepsTypes, PlayerStepKeepsTypes DEF Next

(* Copies of items are made under the ids m, in the place of old.          *)
LEMMA MakingKeepsTypes ==
  ASSUME NEW m, IsInjective(m), NEW old, NEW items,
         \A k \in DOMAIN m : m[k] \in ServerIds /\ Copy(items[k[1]], k) \in CopyType,
         DOMAIN old \subseteq ServerIds, \A s \in DOMAIN old : old[s] \in CopyType
  PROVE  /\ DOMAIN Over(Copies(items, m), old) \subseteq ServerIds
         /\ \A s \in DOMAIN Over(Copies(items, m), old) :
              Over(Copies(items, m), old)[s] \in CopyType
  <1> DEFINE c == Copies(items, m)
  <1>1. DOMAIN c = Image(m, DOMAIN m) /\ \A k \in DOMAIN m : c[m[k]] = Copy(items[k[1]], k)
    BY CopiesAre
  <1> HIDE DEF c
  <1>2. DOMAIN c \subseteq ServerIds /\ \A s \in DOMAIN c : c[s] \in CopyType
    BY <1>1 DEF Image
  <1> QED BY <1>2 DEF Over, c

(* The pieces of a tick: the copies that stay, the ids of the others, what *)
(* the server keeps and the ids free then; done is what went before.       *)
Kept == Streamed \cap Discovered
Gone == IdsOf(Streamed \ Kept)
Left(done) == Used \ (done \cup Gone)
Vacant(done) == ServerIds \ (Left(done) \cup (foreign \ Gone))

LEMMA TickIs ==
  ASSUME GlobalTick
  PROVE  \E done \in {destroyed, {}} :
           /\ Kind = "actor" => done = destroyed /\ destroyed' = {}
           /\ Kind # "actor" => done = {} /\ destroyed' = destroyed
           /\ foreign' = foreign \ Gone
           /\ \E new \in Chosen(Discovered \ Kept, Kept, Vacant(done)) :
                Make(new, Kept, Left(done), Vacant(done))
  <1>1. \A done : Stream(done) =>
          /\ foreign' = foreign \ Gone
          /\ \E new \in Chosen(Discovered \ Kept, Kept, Vacant(done)) :
               Make(new, Kept, Left(done), Vacant(done))
    BY Zenon DEF Stream, Kept, Gone, Left, Vacant
  <1>2. CASE StreamActors
    BY <1>1, <1>2 DEF StreamActors
  <1>3. CASE StreamPickups
    BY <1>1, <1>3 DEF StreamPickups
  <1> QED BY <1>2, <1>3 DEF GlobalTick

LEMMA TickRecords == Typed /\ Recorded /\ GlobalTick => Recorded'
  <1> SUFFICES ASSUME Typed, Recorded, GlobalTick PROVE Recorded'
    OBVIOUS
  <1>0. PICK done \in {destroyed, {}} :
          \E new \in Chosen(Discovered \ Kept, Kept, Vacant(done)) :
            Make(new, Kept, Left(done), Vacant(done))
    BY TickIs
  <1>1. PICK new \in Chosen(Discovered \ Kept, Kept, Vacant(done)) :
          Make(new, Kept, Left(done), Vacant(done))
    BY <1>0
  <1>2. PICK made \in Served(new, Vacant(done)) : \E id \in Injection(made, Vacant(done)) :
          /\ internal' = Over(id, Over([k \in new |-> Zero], Restrict(internal, Kept)))
          /\ server' = Over(Copies(item, id), Restrict(server, Left(done)))
    BY <1>1 DEF Make
  <1>3. PICK id \in Injection(made, Vacant(done)) :
          /\ internal' = Over(id, Over([k \in new |-> Zero], Restrict(internal, Kept)))
          /\ server' = Over(Copies(item, id), Restrict(server, Left(done)))
    BY <1>2
  <1>4. foreign' \subseteq foreign /\ destroyed' \subseteq destroyed
    BY TickIs
  <1>5. new \in SUBSET Discovered /\ made \in SUBSET new /\ Discovered \in SUBSET Keys
    BY <1>1, <1>2 DEF Chosen, Served, Discovered
  <1>6. \A k \in made : Copy(item[k[1]], k) \in CopyType
    BY <1>5, CopyTyped DEF Discovered, Typed
  <1>7. /\ DOMAIN id = made /\ IsInjective(id)
        /\ \A k \in made : id[k] \in ServerIds
    BY <1>3 DEF Injection, Vacant
  <1>8. /\ DOMAIN Restrict(server, Left(done)) \subseteq ServerIds
        /\ \A s \in DOMAIN Restrict(server, Left(done)) : Restrict(server, Left(done))[s] \in CopyType
    BY DEF Restrict, Left, Used, Recorded
  <1>9. DOMAIN server' \subseteq ServerIds /\ \A s \in DOMAIN server' : server'[s] \in CopyType
    BY <1>3, <1>6, <1>7, <1>8, MakingKeepsTypes
  <1>10. Kind = "actor" => made = new
    <2>1. Discovered \ Kept \in SUBSET Keys
      BY <1>5
    <2> QED BY <1>1, <1>2, <2>1, ActorsAreServed
  <1>11. Kept \subseteq DOMAIN internal
    BY DEF Kept, Streamed
  <1>12. /\ DOMAIN internal' = new \cup Kept
         /\ \A k \in new \cup Kept :
              internal'[k] = IF k \in made THEN id[k] ELSE IF k \in new THEN Zero ELSE internal[k]
    BY <1>3, <1>5, <1>7 DEF Over, Restrict
  <1>13. \A k \in new \cup Kept : internal'[k] \in ServerIds \cup Phantom
    BY <1>7, <1>10, <1>11, <1>12, KindAssumption DEF Recorded, Phantom
  <1> QED BY <1>4, <1>5, <1>9, <1>11, <1>12, <1>13 DEF Recorded

LEMMA AlterRecords ==
  ASSUME Typed, Recorded, NEW i \in DOMAIN item, NEW it, Alter(i, it), Typed'
  PROVE  Recorded'
  <1> DEFINE K == CopiesOf(i)
             others == Restrict(server, Used \ IdsOf(K))
  <1>1. PICK id \in Injection(K, Free \cup IdsOf(K)) :
          internal' = Over(id, internal) /\ server' = Over(Copies(item', id), others)
    BY DEF Alter, Recreate, Reallocations
  <1>2. K \subseteq Keys /\ K \subseteq DOMAIN internal /\ \A k \in K : k[1] = i
    BY DEF CopiesOf, Streamed, Recorded
  <1>3. IdsOf(K) \subseteq ServerIds /\ foreign' \subseteq foreign /\ destroyed' = destroyed
    BY DEF Alter, Recreate, Intact, Used, Recorded
  <1>4. DOMAIN id = K /\ IsInjective(id) /\ \A k \in K : id[k] \in ServerIds
    BY <1>1, <1>3 DEF Injection, Free
  <1>5. \A k \in K : Copy(item'[k[1]], k) \in CopyType
    <2>1. i \in DOMAIN item'
      BY DEF Alter
    <2> QED BY <1>2, <2>1, CopyTyped DEF Typed
  <1>6. DOMAIN others \subseteq ServerIds /\ \A s \in DOMAIN others : others[s] \in CopyType
    BY DEF Restrict, Used, Recorded
  <1> HIDE DEF K, others
  <1>7. DOMAIN server' \subseteq ServerIds /\ \A s \in DOMAIN server' : server'[s] \in CopyType
    BY <1>1, <1>4, <1>5, <1>6, MakingKeepsTypes
  <1>8. /\ DOMAIN internal' = DOMAIN internal
        /\ \A k \in DOMAIN internal : internal'[k] = IF k \in K THEN id[k] ELSE internal[k]
    BY <1>1, <1>2, <1>4 DEF Over
  <1> QED BY <1>3, <1>4, <1>7, <1>8 DEF Recorded

LEMMA DiscardRecords ==
  ASSUME Recorded, NEW K, Discard(K), destroyed' = destroyed
  PROVE  Recorded'
  BY DEF Discard, Release, Restrict, Streamed, Used, Recorded

LEMMA DestructionRecords ==
  ASSUME Recorded, NEW I, DestroyItems(I)
  PROVE  Recorded'
  <1> DEFINE K == UNION {CopiesOf(i) : i \in I}
  <1>1. CASE Kind = "pickup"
    <2>1. Discard(K) /\ destroyed' = destroyed
      BY <1>1 DEF DestroyItems
    <2> QED BY <2>1, DiscardRecords
  <1>2. CASE Kind # "pickup"
    <2>1. /\ internal' = Restrict(internal, Streamed \ K)
          /\ destroyed' = destroyed \cup IdsOf(K)
          /\ server' = server /\ foreign' = foreign
      BY <1>2 DEF DestroyItems
    <2>2. K \subseteq DOMAIN internal
      BY DEF CopiesOf, Streamed
    <2>3. IdsOf(K) \subseteq ServerIds
      BY <1>2, <2>2 DEF IdsOf, Recorded, Phantom
    <2> QED BY <2>1, <2>3 DEF Restrict, Streamed, Recorded
  <1> QED BY <1>1, <1>2

LEMMA StepRecords == Typed /\ Recorded /\ [Next]_vars => Recorded'
  <1> SUFFICES ASSUME Typed, Recorded, [Next]_vars PROVE Recorded'
    OBVIOUS
  <1>1. Typed'
    BY StepKeepsTypes
  <1>2. CASE UNCHANGED copyVars
    BY <1>2 DEF copyVars, Recorded
  <1>3. ASSUME NEW i \in Ids, ItemStep(i) PROVE Recorded'
    <2>1. CASE DestroyDynamicItem(i)
      BY <2>1, DestructionRecords DEF DestroyDynamicItem
    <2>2. CASE \E x \in Places : SetItemPos(i, x) \/ SetCoordinate(i, x)
      BY <1>1, <2>2, AlterRecords DEF SetItemPos, SetCoordinate
    <2>3. ASSUME NEW x \in Places, SetActorPos(i, x) PROVE Recorded'
      BY <2>3 DEF SetActorPos, Used, Recorded, CopyType
    <2> QED BY <1>2, <1>3, <2>1, <2>2, <2>3
            DEF ItemStep, SetWorlds, SetStreamDistance, ToggleItemStatic, SetAudience
  <1>4. ASSUME NEW a \in Scripts, ScriptStep(a) PROVE Recorded'
    <2>1. CASE OnAmxUnload(a)
      BY <2>1, DestructionRecords DEF OnAmxUnload
    <2>2. ASSUME NEW serverWide \in BOOLEAN, DestroyAllVisibleItems(a, serverWide)
          PROVE  Recorded'
      BY <2>2, DiscardRecords DEF DestroyAllVisibleItems
    <2> QED BY <1>4, <2>1, <2>2 DEF ScriptStep
  <1>5. ASSUME NEW s \in ServerIds, ScriptOccupies(s) \/ ScriptReleases(s) PROVE Recorded'
    BY <1>5 DEF ScriptOccupies, ScriptReleases, Recorded
  <1> QED BY <1>2, <1>3, <1>4, <1>5, TickRecords
          DEF Next, CreationStep, CreateDynamicItem, PlayerStep, Sample, ToggleItemUpdate,
              Connect, Disconnect, SetVisibleItems, vars

LEMMA InitiallyTyped == Init => Typed /\ Recorded
  <1> SUFFICES ASSUME Init PROVE Typed /\ Recorded
    OBVIOUS
  <1>1. DOMAIN item = {} /\ DOMAIN player = {} /\ DOMAIN internal = {} /\ DOMAIN server = {}
    BY DEF Init
  <1> QED BY <1>1, LimitAssumption DEF Init, Typed, Recorded

(* Every variable keeps its type, whatever the number of items, worlds,    *)
(* players and server ids and whatever the server refuses.                 *)
THEOREM GlobalItemTypes == Spec => []TypeOK
  <1>1. Typed /\ Recorded => TypeOK
    BY DEF Typed, Recorded, Phantom, TypeOK, Range, Streamed, Used
  <1>2. Typed /\ Recorded /\ [Next]_vars => (Typed /\ Recorded)'
    BY StepKeepsTypes, StepRecords
  <1> QED BY <1>1, <1>2, InitiallyTyped, PTL DEF Spec

-----------------------------------------------------------------------------
(* The limit.  Only a tick makes copies of what had none.                  *)
Few(id) == Cardinality(DOMAIN id) <= maxVisible

LEMMA TickMakesFew ==
  ASSUME Typed, Recorded, GlobalTick, Few(internal)
  PROVE  Few(internal')
  <1>0. PICK done \in {destroyed, {}} :
          \E new \in Chosen(Discovered \ Kept, Kept, Vacant(done)) :
            Make(new, Kept, Left(done), Vacant(done))
    BY TickIs
  <1>1. PICK new \in Chosen(Discovered \ Kept, Kept, Vacant(done)) :
          Make(new, Kept, Left(done), Vacant(done))
    BY <1>0
  <1>2. IsFiniteSet(Streamed) /\ IsFiniteSet(Kept) /\ IsFiniteSet(new)
    <2>1. Streamed \in SUBSET Keys /\ Kept \in SUBSET Keys /\ new \in SUBSET Keys
      BY <1>1 DEF Recorded, Streamed, Kept, Chosen, Discovered
    <2> QED BY <2>1, KeysFinite, FS_Subset
  <1>3. /\ Cardinality(Kept) \in Nat /\ Cardinality(new) \in Nat /\ maxVisible \in Nat
        /\ Cardinality(Streamed) \in Nat
    BY <1>2, FS_CardinalityType, LimitAssumption DEF Typed
  <1>4. Cardinality(Kept) <= maxVisible
    <2>1. Cardinality(Kept) <= Cardinality(Streamed)
      BY <1>2, FS_Subset DEF Kept
    <2> QED BY <1>3, <2>1 DEF Few, Streamed
  <1>5. Cardinality(Kept) + Cardinality(new) <= maxVisible
    BY <1>1, <1>4 DEF Chosen
  <1>6. DOMAIN internal' = new \cup Kept
    <2>1. PICK made \in SUBSET new : \E id \in [made -> Vacant(done)] :
            internal' = Over(id, Over([k \in new |-> Zero], Restrict(internal, Kept)))
      BY <1>1 DEF Make, Served, Injection
    <2> QED BY <2>1 DEF Over, Restrict
  <1>7. /\ Cardinality(new \cup Kept) <= maxVisible
    <2>1. /\ Cardinality(new \cup Kept)
                = Cardinality(new) + Cardinality(Kept) - Cardinality(new \cap Kept)
          /\ Cardinality(new \cap Kept) \in Nat
      BY <1>2, FS_Union, FS_Intersection, FS_CardinalityType
    <2> QED BY <1>3, <1>5, <2>1
  <1> QED BY <1>6, <1>7 DEF Few

LEMMA AlterAddsNone ==
  ASSUME NEW i, NEW it, Alter(i, it)
  PROVE  DOMAIN internal' \subseteq DOMAIN internal /\ maxVisible' = maxVisible
  <1>1. PICK id \in Injection(CopiesOf(i), Free \cup IdsOf(CopiesOf(i))) :
          internal' = Over(id, internal)
    BY DEF Alter, Recreate, Reallocations
  <1>2. DOMAIN internal' = CopiesOf(i) \cup DOMAIN internal
    BY <1>1, OverIs DEF Injection
  <1> QED BY <1>2 DEF CopiesOf, Streamed, Alter

LEMMA OthersAddNone ==
  ASSUME "setVisible" \notin Calls, [Next]_vars, ~GlobalTick
  PROVE  DOMAIN internal' \subseteq DOMAIN internal /\ maxVisible' = maxVisible
  <1>1. ASSUME NEW i \in Ids, ItemStep(i)
        PROVE  DOMAIN internal' \subseteq DOMAIN internal /\ maxVisible' = maxVisible
    <2>1. CASE DestroyDynamicItem(i)
      BY <2>1, RestrictIs DEF DestroyDynamicItem, DestroyItems, Discard, Streamed
    <2>2. CASE \E x \in Places : SetItemPos(i, x) \/ SetCoordinate(i, x)
      BY <2>2, AlterAddsNone DEF SetItemPos, SetCoordinate
    <2>3. CASE UNCHANGED <<internal, maxVisible>>
      BY <2>3
    <2> QED BY <1>1, <2>1, <2>2, <2>3
            DEF ItemStep, SetWorlds, SetActorPos, SetStreamDistance, ToggleItemStatic,
                SetAudience, copyVars
  <1>2. ASSUME NEW a \in Scripts, ScriptStep(a)
        PROVE  DOMAIN internal' \subseteq DOMAIN internal /\ maxVisible' = maxVisible
    <2>1. PICK K : internal' = Restrict(internal, Streamed \ K)
      BY <1>2 DEF ScriptStep, OnAmxUnload, DestroyAllVisibleItems, DestroyItems, Discard
    <2>2. maxVisible' = maxVisible
      BY <1>2 DEF ScriptStep, OnAmxUnload, DestroyAllVisibleItems, DestroyItems
    <2> QED BY <2>1, <2>2, RestrictIs DEF Streamed
  <1>3. CASE UNCHANGED <<internal, maxVisible>>
    BY <1>3
  <1> QED BY <1>1, <1>2, <1>3
          DEF Next, CreationStep, CreateDynamicItem, PlayerStep, Sample, ToggleItemUpdate,
              Connect, Disconnect, SetVisibleItems, ScriptOccupies, ScriptReleases, vars, copyVars

(* There are never more copies than the limit that no script changes, with *)
(* any number of items, worlds and players wanting them.                   *)
THEOREM LimitIsKept == Spec => []LimitHolds
  <1> DEFINE LInv == Typed /\ Recorded /\ LimitHolds
  <1>1. Init => LInv
    <2> SUFFICES ASSUME Init PROVE LInv
      OBVIOUS
    <2>1. Cardinality(Streamed) = 0 /\ maxVisible \in Nat
      BY FS_EmptySet, LimitAssumption DEF Init, Streamed
    <2> QED BY <2>1, InitiallyTyped DEF LimitHolds
  <1>2. LInv /\ [Next]_vars => LInv'
    <2> SUFFICES ASSUME LInv, [Next]_vars, "setVisible" \notin Calls
                 PROVE  Cardinality(Streamed') <= maxVisible'
      BY StepKeepsTypes, StepRecords DEF LimitHolds
    <2>1. CASE GlobalTick
      BY <2>1, TickMakesFew DEF GlobalTick, LimitHolds, Streamed, Few
    <2>2. CASE ~GlobalTick
      <3>1. DOMAIN internal' \subseteq DOMAIN internal /\ maxVisible' = maxVisible
        BY <2>2, OthersAddNone
      <3>2. IsFiniteSet(DOMAIN internal)
        BY KeysFinite, FS_Subset DEF Recorded
      <3>3. /\ Cardinality(DOMAIN internal') <= Cardinality(DOMAIN internal)
            /\ Cardinality(DOMAIN internal') \in Nat /\ Cardinality(DOMAIN internal) \in Nat
        BY <3>1, <3>2, FS_Subset, FS_CardinalityType
      <3> QED BY <3>1, <3>3, LimitAssumption DEF LimitHolds, Streamed, Typed
    <2> QED BY <2>1, <2>2
  <1> QED BY <1>1, <1>2, PTL DEF Spec

-----------------------------------------------------------------------------
(* An item is in the cell examined for everyone, or in the cell of its     *)
(* place, and not static unless it was made so later.                      *)
InItsCell(it) == it.cell = GlobalCell \/ ((it.static => it.kept) /\ it.cell = it.place)

LEMMA CellsKept ==
  ASSUME "setActorPos" \notin Calls,
         \A i \in DOMAIN item : InItsCell(item[i]), Typed, [Next]_vars
  PROVE  \A i \in DOMAIN item' : InItsCell(item'[i])
  <1> DEFINE Goal == \A i \in DOMAIN item' : InItsCell(item'[i])
  <1>1. CASE UNCHANGED item
    BY <1>1
  <1>2. ASSUME NEW i \in DOMAIN item, NEW it, item' = [item EXCEPT ![i] = it], InItsCell(it)
        PROVE  Goal
    BY <1>2
  <1>3. ASSUME NEW I, item' = Restrict(item, DOMAIN item \ I) PROVE Goal
    BY <1>3, RestrictIs
  <1>4. CASE CreationStep
    <2>1. PICK x \in Places, d \in Distances, W \in WorldSets, P \in Audiences,
               n \in Priorities, a \in Scripts :
            CreateDynamicItem(NewItem(x, d, W, P, n, a))
      BY <1>4 DEF CreationStep
    <2>2. InItsCell(NewItem(x, d, W, P, n, a))
      BY DEF InItsCell, NewItem, CellFor
    <2>3. PICK i \in Ids : item' = Over([j \in {i} |-> NewItem(x, d, W, P, n, a)], item)
      BY <2>1 DEF CreateDynamicItem
    <2> QED BY <2>2, <2>3 DEF Over
  <1>5. ASSUME NEW i \in Ids, ItemStep(i) PROVE Goal
    <2>1. CASE i \notin DOMAIN item
      BY <1>5, <2>1
         DEF ItemStep, DestroyDynamicItem, SetWorlds, SetItemPos, SetCoordinate, SetActorPos,
             SetStreamDistance, ToggleItemStatic, SetAudience
    <2>2. CASE i \in DOMAIN item
      <3>1. item[i] \in ItemType /\ InItsCell(item[i])
        BY <2>2 DEF Typed
      <3>2. CASE DestroyDynamicItem(i)
        BY <1>3, <3>2 DEF DestroyDynamicItem, DestroyItems
      <3>3. ASSUME NEW w \in Worlds, SetWorlds(i, w) PROVE Goal
        <4>1. PICK new : item' = [item EXCEPT ![i] = [item[i] EXCEPT !.worlds = new]]
          BY <3>3 DEF SetWorlds
        <4>2. InItsCell([item[i] EXCEPT !.worlds = new])
          BY <3>1 DEF InItsCell, ItemType
        <4> QED BY <1>2, <2>2, <4>1, <4>2
      <3>4. ASSUME NEW x \in Places, SetItemPos(i, x) PROVE Goal
        <4> DEFINE it == [item[i] EXCEPT !.place = x,
                            !.cell = IF x = item[i].place \/ item[i].cell = GlobalCell
                                     THEN @ ELSE CellFor(item[i].static, x)]
        <4>1. item' = [item EXCEPT ![i] = it]
          BY <3>4 DEF SetItemPos, Alter
        <4>2. InItsCell(it)
          BY <3>1 DEF InItsCell, ItemType, CellFor
        <4> QED BY <1>2, <2>2, <4>1, <4>2
      <3>5. ASSUME NEW x \in Places, SetCoordinate(i, x) PROVE Goal
        <4> DEFINE it == [item[i] EXCEPT !.place = x,
                            !.cell = IF @ = GlobalCell THEN @ ELSE CellFor(item[i].static, x)]
        <4>1. item' = [item EXCEPT ![i] = it]
          BY <3>5 DEF SetCoordinate, Alter
        <4>2. InItsCell(it)
          BY <3>1 DEF InItsCell, ItemType, CellFor
        <4> QED BY <1>2, <2>2, <4>1, <4>2
      <3>6. ASSUME NEW d \in Distances, SetStreamDistance(i, d) PROVE Goal
        <4> DEFINE it == [item[i] EXCEPT !.distance = d, !.static = FALSE, !.cell = item[i].place]
        <4>1. item' = [item EXCEPT ![i] = it]
          BY <3>6 DEF SetStreamDistance
        <4>2. InItsCell(it)
          BY <3>1 DEF InItsCell, ItemType
        <4> QED BY <1>2, <2>2, <4>1, <4>2
      <3>7. ASSUME NEW P \in Audiences, SetAudience(i, P) PROVE Goal
        <4>1. item' = [item EXCEPT ![i] = [item[i] EXCEPT !.audience = P]]
          BY <3>7 DEF SetAudience
        <4>2. InItsCell([item[i] EXCEPT !.audience = P])
          BY <3>1 DEF InItsCell, ItemType
        <4> QED BY <1>2, <2>2, <4>1, <4>2
      <3>8. CASE ToggleItemStatic(i)
        <4> DEFINE it == [item[i] EXCEPT !.static = ~@, !.kept = ~@]
        <4>1. item' = [item EXCEPT ![i] = it] /\ item[i].static = item[i].kept
          BY <3>8 DEF ToggleItemStatic
        <4>2. InItsCell(it)
          BY <3>1, <4>1 DEF InItsCell, ItemType
        <4> QED BY <1>2, <2>2, <4>1, <4>2
      <3> QED BY <1>5, <3>2, <3>3, <3>4, <3>5, <3>6, <3>7, <3>8 DEF ItemStep, SetActorPos
    <2> QED BY <2>1, <2>2
  <1>6. ASSUME NEW a \in Scripts, ScriptStep(a) PROVE Goal
    BY <1>1, <1>3, <1>6 DEF ScriptStep, OnAmxUnload, DestroyItems, DestroyAllVisibleItems
  <1> QED BY <1>1, <1>4, <1>5, <1>6
          DEF Next, GlobalTick, PlayerStep, Sample, ToggleItemUpdate, Connect, Disconnect,
              SetVisibleItems, ScriptOccupies, ScriptReleases, vars

(* Wherever items are put, whoever has one in range has its cell examined  *)
(* at the next tick, unless scripts use SetDynamicActorPos or the item was *)
(* made static, which leave it in a cell it has no more business in.       *)
THEOREM InRangeHasItsCell ==
  ASSUME "setActorPos" \notin Calls
  PROVE  Spec => []InRangeIsExamined
  <1> DEFINE Placed == Typed /\ \A i \in DOMAIN item : InItsCell(item[i])
  <1>1. Init => Placed
    BY InitiallyTyped DEF Init
  <1>2. Placed /\ [Next]_vars => Placed'
    BY StepKeepsTypes, CellsKept
  <1>3. Placed => InRangeIsExamined
    BY DEF InItsCell, InRangeIsExamined, InRange, Near
  <1> QED BY <1>1, <1>2, <1>3, PTL DEF Spec

-----------------------------------------------------------------------------
(* The books: what is recorded (id), pending (des), held by the server     *)
(* (ser) and occupied by scripts (fo).                                     *)
Booked(id, des, ser, fo) ==
  /\ DOMAIN id \subseteq Keys /\ IsFiniteSet(DOMAIN id)
  /\ des \subseteq ServerIds /\ fo \subseteq ServerIds /\ DOMAIN ser \subseteq ServerIds
  /\ \A s \in DOMAIN ser : ser[s] \in CopyType
  /\ DOMAIN ser = Image(id, DOMAIN id) \cup des
  /\ des \cap Image(id, DOMAIN id) = {}
  /\ \A k, l \in DOMAIN id : id[k] = id[l] => k = l
  /\ \A k \in DOMAIN id : ser[id[k]].world = k[2]
  /\ DOMAIN ser \cap fo = {}

(* A pickup is never refused if scripts make none of their own and the     *)
(* limit, which they leave alone, is not above what the server can hold.   *)
AlwaysRoom ==
  \/ Kind = "actor"
  \/ {"occupy", "setVisible"} \cap Calls = {} /\ MaxVisible <= Cardinality(ServerIds)

(* Pickups: nothing is pending, nothing is foreign, and the limit holds.   *)
Alone == Kind = "pickup" => /\ destroyed = {} /\ foreign = {}
                            /\ maxVisible = MaxVisible /\ Few(internal)

Invariant ==
  /\ Typed /\ Recorded
  /\ Booked(internal, destroyed, server, foreign)
  /\ Alone

LEMMA DiscardKeepsBooks ==
  ASSUME NEW id, NEW des, NEW ser, NEW fo, Booked(id, des, ser, fo),
         NEW K \in SUBSET DOMAIN id
  PROVE  Booked(Restrict(id, DOMAIN id \ K), des, Restrict(ser, DOMAIN ser \ Image(id, K)), fo)
  <1> DEFINE id2 == Restrict(id, DOMAIN id \ K)
             ser2 == Restrict(ser, DOMAIN ser \ Image(id, K))
  <1>1. DOMAIN id2 = DOMAIN id \ K /\ \A k \in DOMAIN id \ K : id2[k] = id[k]
    BY RestrictIs
  <1>2. /\ DOMAIN ser2 = DOMAIN ser \ Image(id, K)
        /\ \A s \in DOMAIN ser \ Image(id, K) : ser2[s] = ser[s]
    BY RestrictIs
  <1> HIDE DEF id2, ser2
  <1>3. IsFiniteSet(DOMAIN id2)
    BY <1>1, FS_Subset DEF Booked
  <1>4. Image(id2, DOMAIN id2) = Image(id, DOMAIN id) \ Image(id, K)
    BY <1>1 DEF Booked, Image
  <1>5. \A k \in DOMAIN id : id[k] \in DOMAIN ser
    BY DEF Booked, Image
  <1>6. \A k \in DOMAIN id2 : id2[k] \in DOMAIN ser2
    BY <1>1, <1>2, <1>4, <1>5 DEF Image
  <1>7. \A k \in DOMAIN id2 : ser2[id2[k]].world = k[2]
    BY <1>1, <1>2, <1>6 DEF Booked
  <1>8. DOMAIN ser2 = Image(id2, DOMAIN id2) \cup des /\ des \cap Image(id2, DOMAIN id2) = {}
    BY <1>1, <1>2, <1>4 DEF Booked, Image
  <1>9. Booked(id2, des, ser2, fo)
    BY <1>1, <1>2, <1>3, <1>7, <1>8 DEF Booked
  <1> QED BY <1>9 DEF id2, ser2

LEMMA LeavingKeepsBooks ==
  ASSUME NEW id, NEW des, NEW ser, NEW fo, Booked(id, des, ser, fo),
         NEW K \in SUBSET DOMAIN id
  PROVE  Booked(Restrict(id, DOMAIN id \ K), des \cup Image(id, K), ser, fo)
  <1> DEFINE id2 == Restrict(id, DOMAIN id \ K)
  <1>1. DOMAIN id2 = DOMAIN id \ K /\ \A k \in DOMAIN id \ K : id2[k] = id[k]
    BY RestrictIs
  <1> HIDE DEF id2
  <1>2. IsFiniteSet(DOMAIN id2)
    BY <1>1, FS_Subset DEF Booked
  <1>3. Image(id2, DOMAIN id2) = Image(id, DOMAIN id) \ Image(id, K)
    BY <1>1 DEF Booked, Image
  <1>4. Image(id, K) \subseteq DOMAIN ser
    BY DEF Booked, Image
  <1>5. /\ DOMAIN ser = Image(id2, DOMAIN id2) \cup (des \cup Image(id, K))
        /\ (des \cup Image(id, K)) \cap Image(id2, DOMAIN id2) = {}
    BY <1>3, <1>4 DEF Booked, Image
  <1>6. Booked(id2, des \cup Image(id, K), ser, fo)
    BY <1>1, <1>2, <1>4, <1>5 DEF Booked
  <1> QED BY <1>6 DEF id2

LEMMA ClearingKeepsBooks ==
  ASSUME NEW id, NEW des, NEW ser, NEW fo, Booked(id, des, ser, fo)
  PROVE  Booked(id, {}, Restrict(ser, DOMAIN ser \ des), fo)
  <1> DEFINE ser2 == Restrict(ser, DOMAIN ser \ des)
  <1>1. DOMAIN ser2 = DOMAIN ser \ des /\ \A s \in DOMAIN ser \ des : ser2[s] = ser[s]
    BY RestrictIs
  <1> HIDE DEF ser2
  <1>2. DOMAIN ser2 = Image(id, DOMAIN id)
    BY <1>1 DEF Booked
  <1>3. \A k \in DOMAIN id : id[k] \in DOMAIN ser2
    BY <1>2 DEF Image
  <1>4. \A k \in DOMAIN id : ser2[id[k]].world = k[2]
    BY <1>1, <1>3 DEF Booked
  <1>5. Booked(id, {}, ser2, fo)
    BY <1>1, <1>2, <1>4 DEF Booked
  <1> QED BY <1>5 DEF ser2

LEMMA MakingKeepsBooks ==
  ASSUME NEW id, NEW des, NEW ser, NEW fo, Booked(id, des, ser, fo),
         NEW new \in SUBSET Keys, new \cap DOMAIN id = {},
         NEW m \in Injection(new, ServerIds \ (DOMAIN ser \cup fo)),
         NEW items, \A k \in new : Copy(items[k[1]], k) \in CopyType
  PROVE  Booked(Over(m, id), des, Over(Copies(items, m), ser), fo)
  <1> DEFINE id2 == Over(m, id)
             ser2 == Over(Copies(items, m), ser)
  <1>1. /\ DOMAIN m = new /\ IsInjective(m)
        /\ \A k \in new : m[k] \in ServerIds /\ m[k] \notin DOMAIN ser /\ m[k] \notin fo
    BY DEF Injection
  <1>2. /\ DOMAIN id2 = new \cup DOMAIN id
        /\ \A k \in new : id2[k] = m[k]
        /\ \A k \in DOMAIN id : id2[k] = id[k]
    BY <1>1 DEF Over
  <1>3. /\ DOMAIN Copies(items, m) = Image(m, new)
        /\ \A k \in new : Copies(items, m)[m[k]] = Copy(items[k[1]], k)
    BY <1>1, CopiesAre
  <1>4. /\ DOMAIN ser2 = Image(m, new) \cup DOMAIN ser
        /\ \A k \in new : ser2[m[k]] = Copy(items[k[1]], k)
        /\ \A s \in DOMAIN ser : ser2[s] = ser[s]
    <2>1. (\A k \in new : m[k] \in Image(m, new)) /\ Image(m, new) \cap DOMAIN ser = {}
      BY <1>1 DEF Image
    <2> DEFINE c == Copies(items, m)
    <2>2. DOMAIN c = Image(m, new) /\ \A k \in new : c[m[k]] = Copy(items[k[1]], k)
      BY <1>3
    <2> HIDE DEF c
    <2>3. /\ DOMAIN Over(c, ser) = Image(m, new) \cup DOMAIN ser
          /\ \A k \in new : Over(c, ser)[m[k]] = c[m[k]]
          /\ \A s \in DOMAIN ser : Over(c, ser)[s] = ser[s]
      BY <2>1, <2>2 DEF Over
    <2> QED BY <2>2, <2>3 DEF c
  <1> HIDE DEF id2, ser2
  <1>5. IsFiniteSet(DOMAIN id2)
    <2>1. IsFiniteSet(ServerIds \ (DOMAIN ser \cup fo))
      BY LimitAssumption, FS_Subset
    <2>2. IsFiniteSet(new)
      BY <2>1, FS_Injection
    <2>3. IsFiniteSet(DOMAIN id)
      BY DEF Booked
    <2>4. IsFiniteSet(new \cup DOMAIN id)
      BY ONLY <2>2, <2>3, FS_Union
    <2> QED BY <1>2, <2>4
  <1>6. Image(id2, DOMAIN id2) = Image(m, new) \cup Image(id, DOMAIN id)
    BY <1>2 DEF Image
  <1>7. \A s \in DOMAIN ser2 : ser2[s] \in CopyType
    BY <1>4 DEF Booked, Image
  <1>8. \A k \in new : Copy(items[k[1]], k).world = k[2]
    BY DEF Copy
  <1>9. \A k \in DOMAIN id : id[k] \in DOMAIN ser
    BY DEF Booked, Image
  <1>10. \A k, l \in DOMAIN id2 : id2[k] = id2[l] => k = l
    BY <1>1, <1>2, <1>9 DEF Booked, IsInjective
  <1>11. \A k \in DOMAIN id2 : ser2[id2[k]].world = k[2]
    BY <1>2, <1>4, <1>8, <1>9 DEF Booked
  <1>12. /\ DOMAIN ser2 = Image(id2, DOMAIN id2) \cup des
         /\ des \cap Image(id2, DOMAIN id2) = {}
         /\ DOMAIN ser2 \cap fo = {} /\ DOMAIN ser2 \subseteq ServerIds
    <2>1. \A k \in new : m[k] \notin des
      BY <1>1 DEF Booked
    <2>2. Image(m, new) \cap des = {} /\ Image(m, new) \cap fo = {} /\ Image(m, new) \subseteq ServerIds
      BY <1>1, <2>1 DEF Image
    <2> QED BY <1>4, <1>6, <2>2 DEF Booked
  <1>13. Booked(id2, des, ser2, fo)
    BY <1>2, <1>5, <1>7, <1>10, <1>11, <1>12 DEF Booked
  <1> QED BY <1>13 DEF id2, ser2

-----------------------------------------------------------------------------
(* Every recorded copy is what would now be made from its item.            *)
Current(items, id, ser) ==
  \A k \in DOMAIN id :
    /\ k[1] \in DOMAIN items /\ k[2] \in items[k[1]].worlds
    /\ ser[id[k]].born = items[k[1]].born /\ ser[id[k]].place = items[k[1]].place

LEMMA DiscardKeepsCurrent ==
  ASSUME NEW id, NEW des, NEW ser, NEW fo, Booked(id, des, ser, fo),
         NEW items, Current(items, id, ser), NEW K \in SUBSET DOMAIN id
  PROVE  Current(items, Restrict(id, DOMAIN id \ K), Restrict(ser, DOMAIN ser \ Image(id, K)))
  <1>1. \A k \in DOMAIN id \ K : id[k] \in DOMAIN ser \ Image(id, K)
    BY DEF Booked, Image
  <1> QED BY <1>1 DEF Current, Restrict

LEMMA ClearingKeepsCurrent ==
  ASSUME NEW id, NEW des, NEW ser, NEW fo, Booked(id, des, ser, fo),
         NEW items, Current(items, id, ser)
  PROVE  Current(items, id, Restrict(ser, DOMAIN ser \ des))
  <1>1. \A k \in DOMAIN id : id[k] \in DOMAIN ser \ des
    BY DEF Booked, Image
  <1> QED BY <1>1 DEF Current, Restrict

LEMMA MakingKeepsCurrent ==
  ASSUME NEW id, NEW des, NEW ser, NEW fo, Booked(id, des, ser, fo),
         NEW items, Current(items, id, ser), NEW new,
         NEW m \in Injection(new, ServerIds \ (DOMAIN ser \cup fo)),
         \A k \in new : k[1] \in DOMAIN items /\ k[2] \in items[k[1]].worlds
  PROVE  Current(items, Over(m, id), Over(Copies(items, m), ser))
  <1> DEFINE c == Copies(items, m)
  <1>1. DOMAIN m = new /\ IsInjective(m) /\ \A k \in new : m[k] \notin DOMAIN ser
    BY DEF Injection
  <1>2. DOMAIN c = Image(m, new) /\ \A k \in new : c[m[k]] = Copy(items[k[1]], k)
    BY <1>1, CopiesAre
  <1> HIDE DEF c
  <1>3. \A k \in DOMAIN id : id[k] \in DOMAIN ser /\ id[k] \notin Image(m, new)
    BY <1>1 DEF Booked, Image
  <1>4. \A k \in new : m[k] \in Image(m, new)
    BY DEF Image
  <1>5. \A k \in new : Over(m, id)[k] = m[k] /\ Over(c, ser)[m[k]] = Copy(items[k[1]], k)
    BY <1>1, <1>2, <1>4 DEF Over
  <1>6. \A k \in DOMAIN id \ new : Over(m, id)[k] = id[k] /\ Over(c, ser)[id[k]] = ser[id[k]]
    BY <1>1, <1>2, <1>3 DEF Over
  <1>7. DOMAIN Over(m, id) = new \cup DOMAIN id
    BY <1>1, OverIs
  <1>8. Current(items, Over(m, id), Over(c, ser))
    <2> SUFFICES ASSUME NEW k \in new \cup DOMAIN id
                 PROVE  LET copy == Over(c, ser)[Over(m, id)[k]] IN
                          /\ k[1] \in DOMAIN items /\ k[2] \in items[k[1]].worlds
                          /\ copy.born = items[k[1]].born /\ copy.place = items[k[1]].place
      BY <1>7 DEF Current
    <2>1. CASE k \in new
      <3>1. Over(c, ser)[Over(m, id)[k]] = Copy(items[k[1]], k)
        BY <1>5, <2>1
      <3> QED BY <2>1, <3>1 DEF Copy
    <2>2. CASE k \in DOMAIN id \ new
      BY <1>6, <2>2 DEF Current
    <2> QED BY <2>1, <2>2
  <1> QED BY <1>8 DEF c

-----------------------------------------------------------------------------
(* The actions that change copies.                                         *)

LEMMA AllServed ==
  ASSUME AlwaysRoom, Invariant, NEW new \in Chosen(Discovered \ Kept, Kept, Vacant(destroyed)),
         NEW made \in Served(new, Vacant(destroyed))
  PROVE  made = new
  <1>1. CASE Kind = "actor"
    <2>1. Discovered \ Kept \in SUBSET Keys
      BY DEF Discovered
    <2> QED BY <1>1, <2>1, ActorsAreServed
  <1>2. CASE Kind # "actor"
    <2>1. /\ Kind = "pickup" /\ MaxVisible <= Cardinality(ServerIds)
          /\ destroyed = {} /\ foreign = {} /\ maxVisible = MaxVisible /\ Few(internal)
      BY <1>2, KindAssumption DEF AlwaysRoom, Invariant, Alone
    <2>2. /\ new \in SUBSET Keys /\ made \in SUBSET new
          /\ made = new \/ Cardinality(made) = Cardinality(Vacant(destroyed))
      BY DEF Chosen, Served, Discovered
    <2>3. IsFiniteSet(Kept) /\ IsFiniteSet(new) /\ IsFiniteSet(Streamed)
      <3>1. Kept \in SUBSET Keys /\ Streamed \in SUBSET Keys
        BY DEF Kept, Streamed, Invariant, Recorded
      <3> QED BY <2>2, <3>1, KeysFinite, FS_Subset
    <2>4. /\ Cardinality(Kept) \in Nat /\ Cardinality(new) \in Nat /\ maxVisible \in Nat
          /\ Cardinality(Streamed) \in Nat /\ Cardinality(ServerIds) \in Nat
      BY <2>3, FS_CardinalityType, LimitAssumption DEF Invariant, Typed
    <2>5. Cardinality(Kept) <= Cardinality(Streamed)
      BY <2>3, FS_Subset DEF Kept
    <2>6. Cardinality(Kept) + Cardinality(new) <= maxVisible
      BY <2>1, <2>4, <2>5 DEF Chosen, Few, Streamed
    <2>7. Left(destroyed) = Image(internal, Kept)
      BY <2>1 DEF Left, Gone, Kept, Used, Streamed, IdsOf, Image, Invariant, Booked
    <2>8. IsFiniteSet(Left(destroyed)) /\ Cardinality(Left(destroyed)) <= Cardinality(Kept)
      <3> DEFINE f == [k \in Kept |-> internal[k]]
      <3>1. f \in Surjection(Kept, Left(destroyed))
        BY <2>7 DEF Surjection, Image
      <3> QED BY ONLY <2>3, <3>1, FS_Surjection
    <2>9. Cardinality(Vacant(destroyed)) = Cardinality(ServerIds) - Cardinality(Left(destroyed))
      <3>1. Vacant(destroyed) = ServerIds \ Left(destroyed) /\ Left(destroyed) \subseteq ServerIds
        BY <2>1 DEF Vacant, Left, Used, Invariant, Recorded
      <3>2. ServerIds \cap Left(destroyed) = Left(destroyed)
        BY <3>1
      <3> QED BY <3>1, <3>2, FS_Difference, LimitAssumption
    <2>10. Cardinality(new) <= Cardinality(Vacant(destroyed))
      <3>1. Cardinality(Left(destroyed)) \in Nat
        BY <2>8, FS_CardinalityType
      <3> QED BY <2>1, <2>4, <2>6, <2>8, <2>9, <3>1
    <2> QED BY <2>2, <2>10, NotSmaller
  <1> QED BY <1>1, <1>2

(* With room for all, a tick replaces the copies not wanted by others.     *)
LEMMA TickReplaces ==
  ASSUME AlwaysRoom, Invariant, GlobalTick
  PROVE  /\ destroyed' = {} /\ foreign' = foreign
         /\ \E new \in SUBSET (Discovered \ Kept) :
            \E id \in Injection(new, ServerIds \ (Left(destroyed) \cup foreign)) :
              /\ new \in Chosen(Discovered \ Kept, Kept, Vacant(destroyed))
              /\ internal' = Over(id, Restrict(internal, Kept))
              /\ server' = Over(Copies(item, id), Restrict(server, Left(destroyed)))
  <1>1. /\ destroyed' = {} /\ foreign' = foreign \ Gone
        /\ \E new \in Chosen(Discovered \ Kept, Kept, Vacant(destroyed)) :
             Make(new, Kept, Left(destroyed), Vacant(destroyed))
    BY TickIs, KindAssumption DEF Invariant, Alone
  <1>2. Gone \cap foreign = {}
    BY DEF Gone, IdsOf, Streamed, Invariant, Booked, Image
  <1>3. Vacant(destroyed) = ServerIds \ (Left(destroyed) \cup foreign)
    BY <1>2 DEF Vacant
  <1>4. PICK new \in Chosen(Discovered \ Kept, Kept, Vacant(destroyed)) :
          Make(new, Kept, Left(destroyed), Vacant(destroyed))
    BY <1>1
  <1>5. PICK made \in Served(new, Vacant(destroyed)) :
          \E id \in Injection(made, Vacant(destroyed)) :
            /\ internal' = Over(id, Over([k \in new |-> Zero], Restrict(internal, Kept)))
            /\ server' = Over(Copies(item, id), Restrict(server, Left(destroyed)))
    BY <1>4 DEF Make
  <1>6. made = new
    BY AllServed
  <1>7. PICK id \in Injection(new, Vacant(destroyed)) :
            /\ internal' = Over(id, Over([k \in new |-> Zero], Restrict(internal, Kept)))
            /\ server' = Over(Copies(item, id), Restrict(server, Left(destroyed)))
    BY <1>5, <1>6
  <1>8. internal' = Over(id, Restrict(internal, Kept))
    <2>1. DOMAIN id = new
      BY DEF Injection
    <2> QED BY <1>7, <2>1 DEF Over
  <1>9. new \in SUBSET (Discovered \ Kept)
    BY DEF Chosen
  <1> QED BY <1>1, <1>2, <1>3, <1>7, <1>8, <1>9

LEMMA TickKeepsBooks ==
  ASSUME AlwaysRoom, Invariant, GlobalTick
  PROVE  /\ Booked(internal', destroyed', server', foreign')
         /\ Current(item, internal, server) => Current(item, internal', server')
  <1> DEFINE cleared == Restrict(server, DOMAIN server \ destroyed)
             left == Left(destroyed)
  <1>1. PICK new \in SUBSET (Discovered \ Kept) :
          \E id \in Injection(new, ServerIds \ (left \cup foreign)) :
            /\ internal' = Over(id, Restrict(internal, Kept))
            /\ server' = Over(Copies(item, id), Restrict(server, left))
    BY TickReplaces
  <1>2. PICK id \in Injection(new, ServerIds \ (left \cup foreign)) :
            /\ internal' = Over(id, Restrict(internal, Kept))
            /\ server' = Over(Copies(item, id), Restrict(server, left))
    BY <1>1
  <1>3. destroyed' = {} /\ foreign' = foreign
    BY TickReplaces
  <1>4. Booked(internal, {}, cleared, foreign)
    BY ClearingKeepsBooks DEF Invariant
  <1>5. Booked(Restrict(internal, DOMAIN internal \ (Streamed \ Kept)), {},
               Restrict(cleared, DOMAIN cleared \ Image(internal, Streamed \ Kept)), foreign)
    <2>1. Streamed \ Kept \in SUBSET DOMAIN internal
      BY DEF Streamed
    <2> QED BY <1>4, <2>1, DiscardKeepsBooks
  <1>6. Restrict(internal, DOMAIN internal \ (Streamed \ Kept)) = Restrict(internal, Kept)
    <2>1. DOMAIN internal \ (Streamed \ Kept) = Kept
      BY DEF Streamed, Kept
    <2> QED BY <2>1
  <1>7. Restrict(cleared, DOMAIN cleared \ Image(internal, Streamed \ Kept)) = Restrict(server, left)
    <2>1. DOMAIN cleared = DOMAIN server \ destroyed
      BY RestrictIs
    <2>2. DOMAIN cleared \ Image(internal, Streamed \ Kept) = left
      BY <2>1 DEF Left, Gone, Image, IdsOf, Used
    <2>3. left \subseteq DOMAIN server \ destroyed
      BY DEF Left, Used
    <2> QED BY <2>2, <2>3 DEF Restrict
  <1>8. Booked(Restrict(internal, Kept), {}, Restrict(server, left), foreign)
    BY <1>5, <1>6, <1>7
  <1>9. /\ new \in SUBSET Keys /\ new \cap DOMAIN Restrict(internal, Kept) = {}
        /\ \A k \in new : Copy(item[k[1]], k) \in CopyType
    <2>1. DOMAIN Restrict(internal, Kept) = Kept
      BY RestrictIs
    <2>2. \A k \in new : k \in Keys /\ k[1] \in DOMAIN item
      BY DEF Discovered
    <2>3. \A k \in new : Copy(item[k[1]], k) \in CopyType
      BY <2>2, CopyTyped DEF Invariant, Typed
    <2> QED BY <2>1, <2>2, <2>3
  <1>10. DOMAIN Restrict(server, left) = left
    BY RestrictIs
  <1>11. ASSUME Current(item, internal, server)
         PROVE  Current(item, Restrict(internal, Kept), Restrict(server, left))
    <2>1. Current(item, internal, cleared)
      BY <1>11, ClearingKeepsCurrent DEF Invariant
    <2>2. Streamed \ Kept \in SUBSET DOMAIN internal
      BY DEF Streamed
    <2>3. Current(item, Restrict(internal, DOMAIN internal \ (Streamed \ Kept)),
                  Restrict(cleared, DOMAIN cleared \ Image(internal, Streamed \ Kept)))
      BY <1>4, <2>1, <2>2, DiscardKeepsCurrent
    <2> QED BY <1>6, <1>7, <2>3
  <1>12. \A k \in new : k[1] \in DOMAIN item /\ k[2] \in item[k[1]].worlds
    BY DEF Discovered
  <1> HIDE DEF left
  <1>13. Booked(internal', destroyed', server', foreign')
    BY <1>2, <1>3, <1>8, <1>9, <1>10, MakingKeepsBooks
  <1>14. ASSUME Current(item, internal, server) PROVE Current(item, internal', server')
    BY <1>2, <1>8, <1>10, <1>11, <1>12, <1>14, MakingKeepsCurrent
  <1> QED BY <1>13, <1>14

LEMMA RecreateKeeps ==
  ASSUME Invariant, NEW i \in Ids, NEW items, \A k \in CopiesOf(i) : items[i] \in ItemType,
         Recreate(i, items)
  PROVE  /\ foreign' = foreign
         /\ Booked(internal', destroyed, server', foreign')
         /\ \/ ~Current(item, internal, server)
            \/ item[i].worlds # items[i].worlds \/ DOMAIN items # DOMAIN item
            \/ \E j \in DOMAIN item \ {i} : items[j] # item[j]
            \/ Current(items, internal', server')
  <1> DEFINE K == CopiesOf(i)
             rest == Restrict(internal, DOMAIN internal \ K)
             others == Restrict(server, Used \ IdsOf(K))
  <1>1. PICK id \in Injection(K, Free \cup IdsOf(K)) :
          /\ internal' = Over(id, internal)
          /\ server' = Over(Copies(items, id), others)
    BY DEF Recreate, Reallocations
  <1>2. K \subseteq DOMAIN internal /\ K \subseteq Keys /\ \A k \in K : k[1] = i
    BY DEF CopiesOf, Streamed, Invariant, Booked
  <1>3. IdsOf(K) \subseteq Used /\ Used \cap foreign = {} /\ Used \subseteq ServerIds
    BY <1>2 DEF Invariant, Booked, IdsOf, Used, Image
  <1>0. foreign' = foreign
    BY <1>3 DEF Recreate
  <1>4. Booked(rest, destroyed, others, foreign)
    <2>1. others = Restrict(server, DOMAIN server \ Image(internal, K))
      BY DEF Used, IdsOf, Image
    <2> QED BY <1>2, <2>1, DiscardKeepsBooks DEF Invariant
  <1>5. DOMAIN rest = DOMAIN internal \ K /\ DOMAIN others = Used \ IdsOf(K)
    BY RestrictIs
  <1>6. Free \cup IdsOf(K) = ServerIds \ (DOMAIN others \cup foreign)
    BY <1>3, <1>5 DEF Free
  <1>7. Over(id, internal) = Over(id, rest)
    <2>1. DOMAIN id = K
      BY <1>1 DEF Injection
    <2> QED BY <1>2, <2>1 DEF Over, Restrict
  <1>8. K \cap DOMAIN rest = {} /\ \A k \in K : Copy(items[k[1]], k) \in CopyType
    BY <1>2, <1>5, CopyTyped
  <1> HIDE DEF K, rest, others
  <1>9. Booked(Over(id, rest), destroyed, Over(Copies(items, id), others), foreign)
    BY <1>1, <1>2, <1>4, <1>6, <1>8, MakingKeepsBooks
  <1>10. ASSUME Current(item, internal, server), item[i].worlds = items[i].worlds,
                DOMAIN items = DOMAIN item, \A j \in DOMAIN item \ {i} : items[j] = item[j]
         PROVE  Current(items, internal', server')
    <2>1. others = Restrict(server, DOMAIN server \ Image(internal, K))
      BY DEF Used, IdsOf, Image, others
    <2>2. Current(item, rest, others)
      BY <1>2, <1>10, <2>1, DiscardKeepsCurrent DEF Invariant, rest
    <2>3. \A k \in DOMAIN rest : k[1] # i
      BY <1>5, <1>10 DEF K, CopiesOf, Streamed, Current
    <2>4. Current(items, rest, others)
      BY <1>10, <2>2, <2>3 DEF Current
    <2>5. \A k \in K : k[1] \in DOMAIN items /\ k[2] \in items[k[1]].worlds
      BY <1>2, <1>10 DEF K, Current
    <2>6. Current(items, Over(id, rest), Over(Copies(items, id), others))
      BY <1>1, <1>4, <1>6, <2>4, <2>5, MakingKeepsCurrent
    <2> QED BY <1>1, <1>7, <2>6
  <1> QED BY <1>0, <1>1, <1>7, <1>9, <1>10

LEMMA DiscardKeeps ==
  ASSUME Invariant, NEW K \in SUBSET Streamed, Discard(K)
  PROVE  foreign' = foreign /\ Booked(internal', destroyed, server', foreign')
  <1>1. foreign' = foreign
    BY DEF Discard, Release, IdsOf, Streamed, Invariant, Booked, Image
  <1>2. /\ internal' = Restrict(internal, DOMAIN internal \ K)
        /\ server' = Restrict(server, DOMAIN server \ Image(internal, K))
    BY DEF Discard, Release, Streamed, Used, IdsOf, Image
  <1> QED BY <1>1, <1>2, DiscardKeepsBooks DEF Invariant, Streamed

-----------------------------------------------------------------------------
(* The invariant.                                                          *)

LEMMA Initially == Init => Invariant
  <1> SUFFICES ASSUME Init PROVE Invariant
    OBVIOUS
  <1>1. DOMAIN internal = {} /\ DOMAIN server = {}
    BY DEF Init
  <1>2. Booked(internal, destroyed, server, foreign)
    BY <1>1, FS_EmptySet DEF Init, Booked, Image
  <1>3. Alone
    BY <1>1, FS_EmptySet, LimitAssumption DEF Init, Alone, Few
  <1> QED BY <1>2, <1>3, InitiallyTyped DEF Invariant

LEMMA DestructionKeepsBooks ==
  ASSUME Invariant, NEW I, DestroyItems(I)
  PROVE  Booked(internal', destroyed', server', foreign')
  <1> DEFINE K == UNION {CopiesOf(i) : i \in I}
  <1>1. K \in SUBSET Streamed
    BY DEF CopiesOf
  <1>2. CASE Kind = "pickup"
    <2>1. Discard(K) /\ destroyed' = destroyed
      BY <1>2 DEF DestroyItems
    <2> QED BY <1>1, <2>1, DiscardKeeps
  <1>3. CASE Kind # "pickup"
    <2>1. /\ internal' = Restrict(internal, DOMAIN internal \ K)
          /\ destroyed' = destroyed \cup Image(internal, K)
          /\ server' = server /\ foreign' = foreign
      BY <1>3 DEF DestroyItems, Streamed, IdsOf, Image
    <2> QED BY <1>1, <2>1, LeavingKeepsBooks DEF Invariant, Streamed
  <1> QED BY <1>2, <1>3

(* An item becomes another and its copies are made anew.                   *)
LEMMA AlterKeepsBooks ==
  ASSUME Invariant, NEW i \in DOMAIN item, NEW it, Alter(i, it), Typed'
  PROVE  Booked(internal', destroyed', server', foreign')
  <1> DEFINE altered == [item EXCEPT ![i] = it]
  <1>1. item' = altered /\ i \in DOMAIN item' /\ i \in Ids
    BY DEF Alter, Invariant, Typed
  <1>2. Recreate(i, altered) /\ destroyed' = destroyed
    BY DEF Alter, Recreate
  <1> HIDE DEF altered
  <1>3. altered[i] \in ItemType
    BY <1>1 DEF Typed
  <1>4. \A k \in CopiesOf(i) : altered[i] \in ItemType
    BY <1>3
  <1>5. Booked(internal', destroyed, server', foreign')
    BY <1>1, <1>2, <1>4, RecreateKeeps, Zenon
  <1> QED BY <1>2, <1>5

LEMMA ItemStepKeepsBooks ==
  ASSUME Invariant, NEW i \in Ids, ItemStep(i), Typed'
  PROVE  Booked(internal', destroyed', server', foreign')
  <1> DEFINE Goal == Booked(internal', destroyed', server', foreign')
  <1>1. CASE DestroyDynamicItem(i)
    BY <1>1, DestructionKeepsBooks DEF DestroyDynamicItem
  <1>2. CASE \E x \in Places : SetItemPos(i, x) \/ SetCoordinate(i, x)
    BY <1>2, AlterKeepsBooks DEF SetItemPos, SetCoordinate
  <1>3. ASSUME NEW x \in Places, SetActorPos(i, x) PROVE Goal
    <2>1. /\ DOMAIN server' = DOMAIN server
          /\ \A s \in DOMAIN server :
               server'[s] \in CopyType /\ server'[s].world = server[s].world
      BY <1>3 DEF SetActorPos, Used, Invariant, Booked, CopyType
    <2>2. UNCHANGED <<internal, destroyed, foreign>>
      BY <1>3 DEF SetActorPos
    <2>3. \A k \in DOMAIN internal : internal[k] \in DOMAIN server
      BY DEF Invariant, Booked, Image
    <2> QED BY <2>1, <2>2, <2>3 DEF Invariant, Booked
  <1>4. CASE UNCHANGED copyVars
    BY <1>4 DEF copyVars, Invariant
  <1> QED BY <1>1, <1>2, <1>3, <1>4
          DEF ItemStep, SetWorlds, SetStreamDistance, ToggleItemStatic, SetAudience

LEMMA ScriptStepKeepsBooks ==
  ASSUME Invariant, NEW a \in Scripts, ScriptStep(a)
  PROVE  Booked(internal', destroyed', server', foreign')
  <1>1. CASE OnAmxUnload(a)
    BY <1>1, DestructionKeepsBooks DEF OnAmxUnload
  <1>2. ASSUME NEW serverWide \in BOOLEAN, DestroyAllVisibleItems(a, serverWide)
        PROVE  Booked(internal', destroyed', server', foreign')
    <2>1. (\E K \in SUBSET Streamed : Discard(K)) /\ destroyed' = destroyed
      BY <1>2 DEF DestroyAllVisibleItems
    <2> QED BY <2>1, DiscardKeeps
  <1> QED BY <1>1, <1>2 DEF ScriptStep

LEMMA PoolStepKeepsBooks ==
  ASSUME Invariant, NEW s \in ServerIds, ScriptOccupies(s) \/ ScriptReleases(s)
  PROVE  Booked(internal', destroyed', server', foreign')
  <1>1. foreign' \subseteq ServerIds /\ foreign' \cap Used = {}
    BY DEF ScriptOccupies, ScriptReleases, Free, Used, Invariant, Booked
  <1> QED BY <1>1 DEF ScriptOccupies, ScriptReleases, Used, Invariant, Booked

(* Pickups are destroyed at once, and what scripts do not make is not      *)
(* foreign.                                                                *)
LEMMA PickupsAreNotPending ==
  ASSUME Kind = "pickup", "occupy" \notin Calls, [Next]_vars
  PROVE  destroyed' = destroyed /\ foreign' \subseteq foreign
  <1> DEFINE Goal == destroyed' = destroyed /\ foreign' \subseteq foreign
  <1>1. CASE GlobalTick
    BY <1>1, TickIs
  <1>2. ASSUME NEW i \in Ids, ItemStep(i) PROVE Goal
    BY <1>2 DEF ItemStep, DestroyDynamicItem, DestroyItems, Discard, Release, SetWorlds, SetItemPos,
                SetCoordinate, Alter, Recreate, SetActorPos, SetStreamDistance,
                ToggleItemStatic, SetAudience, copyVars
  <1>3. ASSUME NEW a \in Scripts, ScriptStep(a) PROVE Goal
    BY <1>3 DEF ScriptStep, OnAmxUnload, DestroyItems, DestroyAllVisibleItems, Discard, Release
  <1> QED BY <1>1, <1>2, <1>3
          DEF Next, CreationStep, CreateDynamicItem, PlayerStep, Sample, ToggleItemUpdate,
              Connect, Disconnect, SetVisibleItems, ScriptOccupies, ScriptReleases, vars, copyVars

LEMMA StaysAlone == AlwaysRoom /\ Invariant /\ [Next]_vars => Alone'
  <1> SUFFICES ASSUME AlwaysRoom, Invariant, [Next]_vars, Kind = "pickup"
               PROVE  /\ destroyed' = {} /\ foreign' = {}
                      /\ maxVisible' = MaxVisible /\ Cardinality(DOMAIN internal') <= maxVisible'
    BY DEF Alone, Few
  <1>1. /\ "occupy" \notin Calls /\ "setVisible" \notin Calls
        /\ destroyed = {} /\ foreign = {} /\ maxVisible = MaxVisible /\ Few(internal)
    BY DEF AlwaysRoom, Invariant, Alone
  <1>2. destroyed' = {} /\ foreign' = {}
    BY <1>1, PickupsAreNotPending
  <1>3. CASE GlobalTick
    BY <1>1, <1>2, <1>3, TickMakesFew DEF GlobalTick, Invariant, Few
  <1>4. CASE ~GlobalTick
    <2>1. DOMAIN internal' \subseteq DOMAIN internal /\ maxVisible' = maxVisible
      BY <1>1, <1>4, OthersAddNone
    <2>2. IsFiniteSet(DOMAIN internal)
      BY DEF Invariant, Booked
    <2>3. /\ Cardinality(DOMAIN internal') <= Cardinality(DOMAIN internal)
          /\ Cardinality(DOMAIN internal') \in Nat /\ Cardinality(DOMAIN internal) \in Nat
      BY <2>1, <2>2, FS_Subset, FS_CardinalityType
    <2> QED BY <1>1, <1>2, <2>1, <2>3, LimitAssumption DEF Few
  <1> QED BY <1>3, <1>4

LEMMA StepKeeps ==
  ASSUME AlwaysRoom
  PROVE  Invariant /\ [Next]_vars => Invariant'
  <1> SUFFICES ASSUME Invariant, [Next]_vars PROVE Invariant'
    OBVIOUS
  <1>1. Typed' /\ Recorded' /\ Alone'
    BY StepKeepsTypes, StepRecords, StaysAlone DEF Invariant
  <1>2. UNCHANGED copyVars => Booked(internal', destroyed', server', foreign')
    BY DEF copyVars, Invariant
  <1>3. Booked(internal', destroyed', server', foreign')
    BY <1>1, <1>2, TickKeepsBooks, ItemStepKeepsBooks, ScriptStepKeepsBooks, PoolStepKeepsBooks
       DEF Next, CreationStep, CreateDynamicItem, PlayerStep, Sample, ToggleItemUpdate,
           Connect, Disconnect, SetVisibleItems, vars, Invariant, copyVars
  <1> QED BY <1>1, <1>3 DEF Invariant

(* No copy is leaked, destroyed twice, shared by two items or confused     *)
(* with something a script made, whatever the order of ticks, creations,   *)
(* destructions, moves and changes of worlds; for pickups, if none is ever *)
(* refused.                                                                *)
THEOREM EveryCopyIsAccountedFor ==
  ASSUME AlwaysRoom
  PROVE  Spec => []CopiesAccountedFor
  <1>1. Invariant => CopiesAccountedFor
    BY DEF Invariant, Booked, CopiesAccountedFor, Streamed, Used, IdsOf, Image
  <1> QED BY <1>1, Initially, StepKeeps, PTL DEF Spec

-----------------------------------------------------------------------------
(* Copies are up to date as long as items stay in the worlds they were     *)
(* created in.                                                             *)
InOrder == Invariant /\ Current(item, internal, server)

LEMMA AlterKeepsOrder ==
  ASSUME InOrder, NEW i \in DOMAIN item, NEW it \in ItemType, Alter(i, it),
         it.worlds = item[i].worlds, Invariant'
  PROVE  InOrder'
  <1> DEFINE altered == [item EXCEPT ![i] = it]
  <1>1. item' = altered /\ Recreate(i, altered) /\ i \in Ids
    BY DEF Alter, InOrder, Invariant, Typed
  <1>2. /\ altered[i] = it /\ DOMAIN altered = DOMAIN item
        /\ \A j \in DOMAIN item \ {i} : altered[j] = item[j]
    OBVIOUS
  <1> HIDE DEF altered
  <1>3. Current(altered, internal', server')
    BY <1>1, <1>2, RecreateKeeps DEF InOrder
  <1> QED BY <1>1, <1>3 DEF InOrder

(* The items of the copies on record stay as they are.                     *)
LEMMA CopiesStayCurrent ==
  ASSUME InOrder, Invariant', UNCHANGED <<internal, server>>,
         \A i \in DOMAIN item :
           /\ i \in DOMAIN item' /\ item'[i].worlds = item[i].worlds
           /\ item'[i].born = item[i].born /\ item'[i].place = item[i].place
  PROVE  InOrder'
  BY DEF InOrder, Current

LEMMA DestructionKeepsOrder ==
  ASSUME InOrder, NEW I \in SUBSET DOMAIN item, DestroyItems(I), Invariant'
  PROVE  InOrder'
  <1> DEFINE K == UNION {CopiesOf(i) : i \in I}
             kept == Restrict(internal, DOMAIN internal \ K)
  <1>1. K \in SUBSET DOMAIN internal /\ \A k \in DOMAIN internal \ K : k[1] \notin I
    BY DEF CopiesOf, Streamed, InOrder, Current
  <1>2. /\ internal' = kept
        /\ server' \in {server, Restrict(server, DOMAIN server \ Image(internal, K))}
    BY DEF DestroyItems, Discard, Release, Streamed, Used, IdsOf, Image
  <1>3. DOMAIN item' = DOMAIN item \ I /\ \A i \in DOMAIN item \ I : item'[i] = item[i]
    BY RestrictIs DEF DestroyItems
  <1>4. DOMAIN kept = DOMAIN internal \ K /\ \A k \in DOMAIN kept : kept[k] = internal[k]
    BY RestrictIs
  <1> HIDE DEF K
  <1>5. Current(item, kept, Restrict(server, DOMAIN server \ Image(internal, K)))
    BY <1>1, DiscardKeepsCurrent DEF InOrder, Invariant
  <1> HIDE DEF kept
  <1>6. Current(item, kept, server)
    BY <1>4 DEF InOrder, Current
  <1>7. Current(item, internal', server')
    BY <1>2, <1>5, <1>6
  <1>8. Current(item', internal', server')
    BY <1>1, <1>2, <1>3, <1>4, <1>7 DEF Current
  <1> QED BY <1>8 DEF InOrder

LEMMA ItemStepKeepsOrder ==
  ASSUME "setWorlds" \notin Calls, InOrder, NEW i \in Ids, ItemStep(i), Invariant'
  PROVE  InOrder'
  <1>1. Invariant'
    OBVIOUS
  <1>2. CASE DestroyDynamicItem(i)
    BY <1>2, DestructionKeepsOrder DEF DestroyDynamicItem
  <1>3. ASSUME NEW x \in Places, SetItemPos(i, x) PROVE InOrder'
    <2> DEFINE it == [item[i] EXCEPT !.place = x,
                        !.cell = IF x = item[i].place \/ item[i].cell = GlobalCell
                                 THEN @ ELSE CellFor(item[i].static, x)]
    <2>1. i \in DOMAIN item /\ item[i] \in ItemType /\ Alter(i, it)
      BY <1>3 DEF SetItemPos, InOrder, Invariant, Typed
    <2>2. it \in ItemType /\ it.worlds = item[i].worlds
      BY <2>1 DEF ItemType, CellFor
    <2> QED BY <2>1, <2>2, AlterKeepsOrder
  <1>4. ASSUME NEW x \in Places, SetCoordinate(i, x) PROVE InOrder'
    <2> DEFINE it == [item[i] EXCEPT !.place = x,
                        !.cell = IF @ = GlobalCell THEN @ ELSE CellFor(item[i].static, x)]
    <2>1. i \in DOMAIN item /\ item[i] \in ItemType /\ Alter(i, it)
      BY <1>4 DEF SetCoordinate, InOrder, Invariant, Typed
    <2>2. it \in ItemType /\ it.worlds = item[i].worlds
      BY <2>1 DEF ItemType, CellFor
    <2> QED BY <2>1, <2>2, AlterKeepsOrder
  <1>5. ASSUME NEW x \in Places, SetActorPos(i, x) PROVE InOrder'
    <2>1. /\ i \in DOMAIN item /\ DOMAIN item' = DOMAIN item
          /\ \A j \in DOMAIN item :
               /\ item'[j].worlds = item[j].worlds /\ item'[j].born = item[j].born
               /\ item'[j].place = IF j = i THEN x ELSE item[j].place
      <3>1. i \in DOMAIN item /\ item[i] \in ItemType
        BY <1>5 DEF SetActorPos, InOrder, Invariant, Typed
      <3>2. PICK c : item' = [item EXCEPT ![i] = [item[i] EXCEPT !.place = x, !.cell = c]]
        BY <1>5, <3>1 DEF SetActorPos, ItemType
      <3> DEFINE it == [item[i] EXCEPT !.place = x, !.cell = c]
      <3>3. it.worlds = item[i].worlds /\ it.born = item[i].born /\ it.place = x
        BY <3>1 DEF ItemType
      <3>4. item' = [item EXCEPT ![i] = it]
        BY <3>2
      <3> HIDE DEF it
      <3> QED BY <3>1, <3>3, <3>4
    <2>2. \A k \in DOMAIN internal : internal[k] \in Used
      BY DEF InOrder, Invariant, Booked, Image, Used
    <2>3. \A k \in DOMAIN internal : internal[k] \in IdsOf(CopiesOf(i)) <=> k[1] = i
      BY DEF InOrder, Invariant, Booked, Current, CopiesOf, IdsOf, Streamed
    <2>4. \A s \in Used :
            /\ server'[s].born = server[s].born
            /\ server'[s].place = IF s \in IdsOf(CopiesOf(i)) THEN x ELSE server[s].place
      <3>1. \A s \in Used : server[s] \in CopyType
        BY DEF InOrder, Invariant, Recorded, Used
      <3> QED BY <1>5, <3>1 DEF SetActorPos, CopyType
    <2>5. Current(item', internal', server')
      <3>1. internal' = internal
        BY <1>5 DEF SetActorPos
      <3>2. \A k \in DOMAIN internal :
              /\ server'[internal[k]].born = server[internal[k]].born
              /\ server'[internal[k]].place = IF k[1] = i THEN x ELSE server[internal[k]].place
        BY <2>2, <2>3, <2>4
      <3> QED BY <2>1, <3>1, <3>2 DEF InOrder, Current
    <2> QED BY <1>1, <2>5 DEF InOrder
  <1>6. ASSUME NEW d \in Distances, SetStreamDistance(i, d) PROVE InOrder'
    BY <1>1, <1>6, CopiesStayCurrent
       DEF SetStreamDistance, copyVars, InOrder, Invariant, Typed, ItemType
  <1>7. CASE ToggleItemStatic(i)
    BY <1>1, <1>7, CopiesStayCurrent
       DEF ToggleItemStatic, copyVars, InOrder, Invariant, Typed, ItemType
  <1>8. ASSUME NEW P \in Audiences, SetAudience(i, P) PROVE InOrder'
    BY <1>1, <1>8, CopiesStayCurrent
       DEF SetAudience, copyVars, InOrder, Invariant, Typed, ItemType
  <1>9. ~(\E w \in Worlds : SetWorlds(i, w))
    BY DEF SetWorlds
  <1> QED BY <1>2, <1>3, <1>4, <1>5, <1>6, <1>7, <1>8, <1>9 DEF ItemStep

LEMMA StepKeepsOrder ==
  ASSUME AlwaysRoom, "setWorlds" \notin Calls
  PROVE  InOrder /\ [Next]_vars => InOrder'
  <1> SUFFICES ASSUME InOrder, [Next]_vars PROVE InOrder'
    OBVIOUS
  <1>1. Invariant'
    BY StepKeeps DEF InOrder
  <1>2. CASE GlobalTick
    BY <1>1, <1>2, TickKeepsBooks DEF InOrder, GlobalTick
  <1>3. CASE CreationStep
    <2>1. PICK x \in Places, d \in Distances, W \in WorldSets, P \in Audiences,
               n \in Priorities, a \in Scripts :
            CreateDynamicItem(NewItem(x, d, W, P, n, a))
      BY <1>3 DEF CreationStep
    <2>2. DOMAIN item \subseteq DOMAIN item' /\ \A j \in DOMAIN item : item'[j] = item[j]
      <3>1. PICK i \in Ids :
              NewId(i) /\ item' = Over([j \in {i} |-> NewItem(x, d, W, P, n, a)], item)
        BY <2>1 DEF CreateDynamicItem
      <3> QED BY <3>1 DEF Over, NewId
    <2>3. UNCHANGED copyVars
      BY <2>1 DEF CreateDynamicItem
    <2> QED BY <1>1, <2>2, <2>3, CopiesStayCurrent DEF copyVars
  <1>4. CASE \E i \in Ids : ItemStep(i)
    BY <1>1, <1>4, ItemStepKeepsOrder
  <1>5. CASE \E p \in Players : PlayerStep(p)
    BY <1>1, <1>5, CopiesStayCurrent
       DEF PlayerStep, Sample, ToggleItemUpdate, Connect, Disconnect, copyVars
  <1>6. ASSUME NEW a \in Scripts, ScriptStep(a) PROVE InOrder'
    <2>1. CASE OnAmxUnload(a)
      BY <1>1, <2>1, DestructionKeepsOrder DEF OnAmxUnload
    <2>2. ASSUME NEW serverWide \in BOOLEAN, DestroyAllVisibleItems(a, serverWide)
          PROVE  InOrder'
      <3>1. PICK K \in SUBSET Streamed : Discard(K)
        BY <2>2 DEF DestroyAllVisibleItems
      <3>2. /\ internal' = Restrict(internal, DOMAIN internal \ K)
            /\ server' = Restrict(server, DOMAIN server \ Image(internal, K))
        BY <3>1 DEF Discard, Release, Streamed, Used, IdsOf, Image
      <3>3. Current(item, internal', server')
        BY <3>2, DiscardKeepsCurrent DEF Streamed, InOrder, Invariant
      <3> QED BY <1>1, <2>2, <3>3 DEF DestroyAllVisibleItems, InOrder
    <2> QED BY <1>6, <2>1, <2>2 DEF ScriptStep
  <1>7. CASE \/ \E n \in Limits : SetVisibleItems(n)
             \/ \E s \in ServerIds : ScriptOccupies(s) \/ ScriptReleases(s)
             \/ UNCHANGED vars
    BY <1>1, <1>7, CopiesStayCurrent
       DEF SetVisibleItems, ScriptOccupies, ScriptReleases, vars, copyVars
  <1> QED BY <1>2, <1>3, <1>4, <1>5, <1>6, <1>7 DEF Next

(* Without changes of worlds no copy outlives its item, and every copy     *)
(* stands where its item is: a new item under an old id, a move, a tick or *)
(* an unloaded script never leaves a stale one.                            *)
THEOREM CopiesFollowItems ==
  ASSUME AlwaysRoom, "setWorlds" \notin Calls
  PROVE  Spec => [](NoOrphans /\ CopiesAreCurrent)
  <1>1. Init => InOrder
    BY Initially DEF InOrder, Current, Init
  <1>2. InOrder /\ [Next]_vars => InOrder'
    BY StepKeepsOrder
  <1>3. InOrder => NoOrphans /\ CopiesAreCurrent
    BY DEF InOrder, Invariant, Booked, Current, NoOrphans, CopiesAreCurrent, Streamed, Used, Image
  <1> QED BY <1>1, <1>2, <1>3, PTL DEF Spec


-----------------------------------------------------------------------------
(* What a tick achieves.                                                   *)

(* The ids of the copies kept are all the server holds of the streamer     *)
(* when missing copies are made, one for each, so that there is an id free *)
(* for all that is missing if there is one for all that is wanted.         *)
LEMMA RoomIsLeft ==
  ASSUME Invariant, Cardinality(Discovered) <= Cardinality(ServerIds \ foreign)
  PROVE  Cardinality(Discovered \ Kept) <= Cardinality(Vacant(destroyed))
  <1>1. Discovered \in SUBSET Keys /\ Kept \in SUBSET Discovered
    BY DEF Discovered, Kept
  <1>2. IsFiniteSet(Discovered) /\ IsFiniteSet(Kept)
    BY <1>1, KeysFinite, FS_Subset
  <1>3. Cardinality(Discovered \ Kept) = Cardinality(Discovered) - Cardinality(Kept)
    <2>1. Discovered \cap Kept = Kept
      BY <1>1
    <2> QED BY <1>2, <2>1, FS_Difference
  <1>4. Left(destroyed) = Image(internal, Kept)
    BY DEF Left, Gone, Kept, Used, Streamed, IdsOf, Image, Invariant, Booked
  <1>5. IsFiniteSet(Left(destroyed)) /\ Cardinality(Left(destroyed)) <= Cardinality(Kept)
    <2> DEFINE f == [k \in Kept |-> internal[k]]
    <2>1. f \in Surjection(Kept, Left(destroyed))
      BY <1>4 DEF Surjection, Image
    <2> QED BY ONLY <1>2, <2>1, FS_Surjection
  <1>6. Vacant(destroyed) = (ServerIds \ foreign) \ Left(destroyed)
    <2>1. Gone \cap foreign = {}
      BY DEF Gone, IdsOf, Streamed, Invariant, Booked, Image
    <2> QED BY <2>1 DEF Vacant
  <1>7. IsFiniteSet(ServerIds \ foreign)
    BY LimitAssumption, FS_Subset
  <1>8. /\ Cardinality(Vacant(destroyed))
             = Cardinality(ServerIds \ foreign) - Cardinality((ServerIds \ foreign) \cap Left(destroyed))
        /\ Cardinality((ServerIds \ foreign) \cap Left(destroyed)) <= Cardinality(Left(destroyed))
        /\ Cardinality((ServerIds \ foreign) \cap Left(destroyed)) \in Nat
    BY <1>5, <1>6, <1>7, FS_Difference, FS_Subset, FS_CardinalityType
  <1>9. /\ Cardinality(Discovered) \in Nat /\ Cardinality(Kept) \in Nat
        /\ Cardinality(ServerIds \ foreign) \in Nat /\ Cardinality(Left(destroyed)) \in Nat
    BY <1>2, <1>5, <1>7, FS_CardinalityType
  <1> QED BY <1>3, <1>5, <1>8, <1>9

(* With room for all that is wanted, all that is missing is chosen.        *)
LEMMA AllChosen ==
  ASSUME Invariant, Room, NEW new \in Chosen(Discovered \ Kept, Kept, Vacant(destroyed))
  PROVE  new = Discovered \ Kept
  <1>1. /\ new \in SUBSET (Discovered \ Kept) /\ Discovered \ Kept \in SUBSET Keys
        /\ \/ new = Discovered \ Kept
           \/ Cardinality(Kept) + Cardinality(new) = maxVisible
           \/ Cardinality(new) = Cardinality(Vacant(destroyed))
    BY DEF Chosen, Discovered
  <1>2. Kept \in SUBSET Discovered /\ Discovered \in SUBSET Keys
    BY DEF Kept, Discovered
  <1>3. IsFiniteSet(Discovered) /\ IsFiniteSet(Kept) /\ IsFiniteSet(new) /\ IsFiniteSet(Discovered \ Kept)
    BY <1>1, <1>2, KeysFinite, FS_Subset
  <1>4. Cardinality(Discovered \ Kept) = Cardinality(Discovered) - Cardinality(Kept)
    <2>1. Discovered \cap Kept = Kept
      BY <1>2
    <2> QED BY <1>3, <2>1, FS_Difference
  <1>5. /\ Cardinality(Discovered) \in Nat /\ Cardinality(Kept) \in Nat /\ Cardinality(new) \in Nat
        /\ Cardinality(Discovered \ Kept) \in Nat /\ maxVisible \in Nat
    BY <1>3, FS_CardinalityType, LimitAssumption DEF Invariant, Typed
  <1>6. CASE Cardinality(Kept) + Cardinality(new) = maxVisible
    <2>1. Cardinality(Discovered \ Kept) <= Cardinality(new)
      BY <1>4, <1>5, <1>6 DEF Room
    <2> QED BY <1>1, <2>1, NotSmaller
  <1>7. CASE Cardinality(new) = Cardinality(Vacant(destroyed))
    <2>1. Cardinality(Discovered \ Kept) <= Cardinality(new)
      BY <1>7, RoomIsLeft DEF Room
    <2> QED BY <1>1, <2>1, NotSmaller
  <1> QED BY <1>1, <1>6, <1>7

LEMMA TickServes ==
  ASSUME AlwaysRoom, Invariant, GlobalTick
  PROVE  /\ DOMAIN internal' \subseteq Discovered
         /\ \A k \in Streamed \cap Discovered : internal'[k] = internal[k]
         /\ destroyed' = {}
         /\ Room => DOMAIN internal' = Discovered
  <1>1. PICK new \in SUBSET (Discovered \ Kept) :
          \E id \in Injection(new, ServerIds \ (Left(destroyed) \cup foreign)) :
            /\ new \in Chosen(Discovered \ Kept, Kept, Vacant(destroyed))
            /\ internal' = Over(id, Restrict(internal, Kept))
    BY TickReplaces
  <1>2. PICK id \in Injection(new, ServerIds \ (Left(destroyed) \cup foreign)) :
            internal' = Over(id, Restrict(internal, Kept))
    BY <1>1
  <1>3. DOMAIN id = new /\ DOMAIN Restrict(internal, Kept) = Kept
        /\ \A k \in Kept : Restrict(internal, Kept)[k] = internal[k]
    BY RestrictIs DEF Injection
  <1> DEFINE rest == Restrict(internal, Kept)
  <1>4. DOMAIN internal' = new \cup Kept /\ \A k \in Kept : internal'[k] = internal[k]
    <2>1. DOMAIN Over(id, rest) = DOMAIN id \cup DOMAIN rest
          /\ \A k \in DOMAIN rest \ DOMAIN id : Over(id, rest)[k] = rest[k]
      BY OverIs
    <2>2. new \cap Kept = {}
      OBVIOUS
    <2> HIDE DEF rest
    <2> QED BY <1>2, <1>3, <2>1, <2>2 DEF rest
  <1>5. Kept = Streamed \cap Discovered
    BY DEF Kept
  <1>6. Room => new = Discovered \ Kept
    BY <1>1, AllChosen
  <1>7. destroyed' = {}
    BY TickReplaces
  <1> QED BY <1>1, <1>4, <1>5, <1>6, <1>7

(* A tick leaves copies only where they are wanted and those that were     *)
(* there untouched; if there is room for all, all that is wanted is there: *)
(* what is destroyed first leaves its ids in time.  For pickups, if none is*)
(* ever refused.                                                           *)
THEOREM TicksServeAll ==
  ASSUME AlwaysRoom
  PROVE  Spec => TickServesAll
  <1>1. ASSUME Invariant, [Next]_vars
        PROVE  GlobalTick => /\ DOMAIN internal' \subseteq Discovered
                             /\ \A k \in Streamed \cap Discovered : internal'[k] = internal[k]
                             /\ destroyed' = {}
                             /\ Room => DOMAIN internal' = Discovered
    BY <1>1, TickServes
  <1> QED BY <1>1, Initially, StepKeeps, PTL DEF Spec, TickServesAll

=============================================================================
