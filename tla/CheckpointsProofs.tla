--------------------------- MODULE CheckpointsProofs ---------------------------
(* Proofs about Checkpoints, for every value of its constants.  What the   *)
(* invariants say of one player is stated of a view (Sound); each handler  *)
(* makes sound views of sound ones, and each action sets one such view.    *)
EXTENDS Checkpoints, TLAPS

-----------------------------------------------------------------------------
Views == [visible : Slots, active : Slots, delayed : Slots, cell : SUBSET Ids,
          client : Slots, inside : [Kinds -> BOOLEAN]]

(* The view shows what it says is visible, and the player is only active   *)
(* in what it shows.                                                       *)
Agrees(v) ==
  \A k \in Kinds :
    /\ v.client[k] # None => v.client[k] = v.visible[k] /\ v.delayed[k] = None
    /\ v.active[k] # None => v.active[k] = v.client[k] /\ v.inside[k]

(* It mentions none but the checkpoints of a set.                          *)
Mentions(v, ids) == v.cell \subseteq ids /\ \A k \in Kinds : v.visible[k] \in ids \cup {None}

Sound(v) == v \in Views /\ Agrees(v) /\ Mentions(v, checkpoints)

(* The invariant that is proved, and which implies the others.             *)
Invariant == TypeOK /\ ClientShowsVisible /\ ActiveIsShown /\ NoTraceOfDestroyed

(* A slot of a kind changed to None or to an id of that kind is a slot.    *)
LEMMA SlotChanged ==
  ASSUME NEW f \in Slots, NEW k \in Kinds, NEW c \in Ids \cup {None},
         c = None \/ KindOf(c) = k
  PROVE  [f EXCEPT ![k] = c] \in Slots
  BY DEF Slots

(* Every view of an invariant state is sound.                              *)
LEMMA ViewIsSound ==
  ASSUME Invariant, NEW p \in Players
  PROVE  Sound(View(p))
  BY DEF Invariant, Sound, View, Views, Agrees, Mentions, TypeOK, ClientShowsVisible,
         ActiveIsShown, NoTraceOfDestroyed

(* A step that sets one view to a sound one keeps the invariant.           *)
LEMMA SetViewKeeps ==
  ASSUME Invariant, NEW p \in Players, NEW v, Sound(v), SetView(p, v),
         checkpoints' = checkpoints, place' \in [Ids -> Places], players' \subseteq Players,
         position' \in [Players -> Places], updateWhenIdle' \in [Players -> BOOLEAN],
         enabledItems' \in [Players -> SUBSET Kinds]
  PROVE  Invariant'
  <1>1. v \in Views
    BY DEF Sound
  <1>2. TypeOK'
    BY <1>1 DEF Invariant, TypeOK, SetView, Views
  <1>3. /\ visible'[p] = v.visible /\ active'[p] = v.active /\ delayed'[p] = v.delayed
        /\ visibleCell'[p] = v.cell /\ client'[p] = v.client /\ inside'[p] = v.inside
    BY DEF Invariant, TypeOK, SetView
  <1>4. \A q \in Players \ {p} :
          /\ visible'[q] = visible[q] /\ active'[q] = active[q] /\ delayed'[q] = delayed[q]
          /\ visibleCell'[q] = visibleCell[q] /\ client'[q] = client[q] /\ inside'[q] = inside[q]
    BY DEF Invariant, TypeOK, SetView
  <1>5. ClientShowsVisible'
    BY <1>3, <1>4 DEF Invariant, ClientShowsVisible, Sound, Agrees
  <1>6. ActiveIsShown'
    BY <1>3, <1>4 DEF Invariant, ActiveIsShown, Sound, Agrees
  <1>7. NoTraceOfDestroyed'
    BY <1>3, <1>4 DEF Invariant, NoTraceOfDestroyed, Sound, Mentions
  <1> QED BY <1>2, <1>5, <1>6, <1>7 DEF Invariant

-----------------------------------------------------------------------------
(* The handlers.                                                           *)

LEMMA NoneIsSound == Sound(NoView)
  BY DEF Sound, NoView, Nothing, Nowhere, Views, Agrees, Mentions, Slots

LEMMA DisableIsSound ==
  ASSUME NEW v, Sound(v), NEW k \in Kinds
  PROVE  /\ Sound(Disable(v, k))
         /\ Disable(v, k).client[k] = None /\ Disable(v, k).active[k] = None
  <1>1. v \in Views
    BY DEF Sound
  <1>2. /\ [v.client EXCEPT ![k] = None] \in Slots
        /\ [v.active EXCEPT ![k] = None] \in Slots
    BY <1>1, SlotChanged DEF Views
  <1>2a. [v.inside EXCEPT ![k] = FALSE] \in [Kinds -> BOOLEAN]
    BY <1>1 DEF Views
  <1>3. Disable(v, k) = [v EXCEPT !.client = [v.client EXCEPT ![k] = None],
                                  !.inside = [v.inside EXCEPT ![k] = FALSE],
                                  !.active = [v.active EXCEPT ![k] = None]]
    BY <1>1 DEF Disable, Views
  <1>4. Disable(v, k) \in Views
    BY <1>1, <1>2, <1>2a, <1>3 DEF Views
  <1>5. Disable(v, k).client[k] = None /\ Disable(v, k).active[k] = None
    BY <1>1, <1>3 DEF Views, Slots
  <1>6. Agrees(Disable(v, k))
    BY <1>1, <1>3 DEF Sound, Agrees, Views, Slots
  <1>7. Mentions(Disable(v, k), checkpoints)
    BY <1>1, <1>3 DEF Sound, Mentions, Views
  <1> QED BY <1>4, <1>5, <1>6, <1>7 DEF Sound

LEMMA HideIsSound ==
  ASSUME NEW v, Sound(v), NEW k \in Kinds
  PROVE  /\ Sound(Hide(v, k))
         /\ Hide(v, k).visible[k] = None /\ Hide(v, k).client[k] = None
         /\ Hide(v, k) = [Disable(v, k) EXCEPT !.visible = [v.visible EXCEPT ![k] = None]]
  <1> DEFINE d == Disable(v, k)
  <1>1. Sound(d) /\ d \in Views /\ d.client[k] = None /\ d.active[k] = None
    BY DisableIsSound DEF Sound
  <1>2. d.visible = v.visible /\ v \in Views
    BY DEF Sound, Disable, Views
  <1>3. [v.visible EXCEPT ![k] = None] \in Slots
    BY <1>2, SlotChanged DEF Views
  <1>4. Hide(v, k) = [d EXCEPT !.visible = [v.visible EXCEPT ![k] = None]]
    BY <1>1, <1>2 DEF Hide, Views
  <1>5. Hide(v, k) \in Views
    BY <1>1, <1>3, <1>4 DEF Views
  <1>6. Agrees(Hide(v, k))
    BY <1>1, <1>2, <1>4 DEF Sound, Agrees, Views, Slots
  <1>7. Mentions(Hide(v, k), checkpoints)
    BY <1>1, <1>2, <1>4 DEF Sound, Mentions, Views, Slots
  <1>8. Hide(v, k).visible[k] = None /\ Hide(v, k).client[k] = None
    BY <1>1, <1>2, <1>4 DEF Views, Slots
  <1> QED BY <1>4, <1>5, <1>6, <1>7, <1>8 DEF Sound

(* Nothing is on the client while a checkpoint waits, so showing it puts   *)
(* no player inside a checkpoint that has gone.                            *)
LEMMA ShowOneIsSound ==
  ASSUME NEW v, Sound(v)
  PROVE  Sound(ShowOne(v))
  <1>1. ASSUME NEW k \in Kinds, v.delayed[k] # None PROVE Sound(ShowDelayed(v, k))
    <2>1. v \in Views /\ v.delayed[k] \in Ids /\ KindOf(v.delayed[k]) = k
      BY <1>1 DEF Sound, Views, Slots
    <2>2. v.client[k] = None /\ v.active[k] = None
      BY <1>1 DEF Sound, Agrees
    <2>3. /\ [v.client EXCEPT ![k] = v.delayed[k]] \in Slots
          /\ [v.visible EXCEPT ![k] = v.delayed[k]] \in Slots
          /\ [v.delayed EXCEPT ![k] = None] \in Slots
      BY <2>1, SlotChanged DEF Views
    <2>3a. [v.inside EXCEPT ![k] = FALSE] \in [Kinds -> BOOLEAN]
      BY <2>1 DEF Views
    <2>4. CASE v.delayed[k] \in checkpoints
      <3> DEFINE u == ShowDelayed(v, k)
      <3>1. u = [v EXCEPT !.client = [v.client EXCEPT ![k] = v.delayed[k]],
                          !.visible = [v.visible EXCEPT ![k] = v.delayed[k]],
                          !.inside = [v.inside EXCEPT ![k] = FALSE],
                          !.delayed = [v.delayed EXCEPT ![k] = None]]
        BY <2>1, <2>4 DEF ShowDelayed, Views
      <3>2. u \in Views
        BY <2>1, <2>3, <2>3a, <3>1 DEF Views
      <3>3. Agrees(u)
        BY <2>1, <2>2, <3>1 DEF Sound, Agrees, Views, Slots
      <3>4. Mentions(u, checkpoints)
        BY <2>1, <2>4, <3>1 DEF Sound, Mentions, Views, Slots
      <3> QED BY <3>2, <3>3, <3>4 DEF Sound
    <2>5. CASE v.delayed[k] \notin checkpoints
      <3> DEFINE u == ShowDelayed(v, k)
      <3>1. u = [v EXCEPT !.delayed = [v.delayed EXCEPT ![k] = None]]
        BY <2>1, <2>5 DEF ShowDelayed, Views
      <3>2. u \in Views
        BY <2>1, <2>3, <3>1 DEF Views
      <3>3. Agrees(u) /\ Mentions(u, checkpoints)
        BY <2>1, <2>2, <3>1 DEF Sound, Agrees, Mentions, Views, Slots
      <3> QED BY <3>2, <3>3 DEF Sound
    <2> QED BY <2>4, <2>5
  <1>2. "checkpoint" \in Kinds /\ "race" \in Kinds
    BY DEF Kinds
  <1> QED BY <1>1, <1>2 DEF ShowOne

(* A best candidate exists and is of the kind.                             *)
LEMMA BestIsFound ==
  ASSUME Invariant, NEW v, NEW k, NEW x, NEW y,
         NEW best \in Bests(y, {c \in Seen(v, k, x) : InRange(y, c)})
  PROVE  best \in checkpoints /\ best \in Ids /\ KindOf(best) = k
  BY DEF Invariant, TypeOK, Bests, Seen, Existing

(* Queueing makes room first: the client shows none of the kind after it.  *)
LEMMA QueueIsSound ==
  ASSUME NEW v, Sound(v), NEW k \in Kinds, NEW best \in Ids, KindOf(best) = k
  PROVE  /\ Sound([MakeRoom(v, k) EXCEPT !.delayed[k] = best])
         /\ MakeRoom(v, k).cell = v.cell
  <1> DEFINE m == MakeRoom(v, k)
             u == [m EXCEPT !.delayed[k] = best]
  <1>1. Sound(m) /\ m \in Views
    BY DisableIsSound DEF MakeRoom, Sound
  <1>2. m.client[k] = None /\ m.active[k] = None
    <2>1. CASE v.visible[k] = None
      BY <2>1 DEF MakeRoom, Sound, Agrees
    <2>2. CASE v.visible[k] # None
      BY <2>2, DisableIsSound DEF MakeRoom
    <2> QED BY <2>1, <2>2
  <1>3. [m.delayed EXCEPT ![k] = best] \in Slots
    BY <1>1, SlotChanged DEF Views
  <1>4. u = [m EXCEPT !.delayed = [m.delayed EXCEPT ![k] = best]]
    BY <1>1 DEF Views
  <1>5. u \in Views
    BY <1>1, <1>3, <1>4 DEF Views
  <1>6. Agrees(u) /\ Mentions(u, checkpoints)
    BY <1>1, <1>2, <1>4 DEF Sound, Agrees, Mentions, Views, Slots
  <1>7. m.cell = v.cell
    BY DEF MakeRoom, Disable, Sound, Views
  <1> QED BY <1>5, <1>6, <1>7 DEF Sound

LEMMA CellIsSound ==
  ASSUME Invariant, NEW v, Sound(v), NEW ids \in SUBSET checkpoints
  PROVE  Sound([v EXCEPT !.cell = ids])
  <1>1. v \in Views /\ ids \in SUBSET Ids
    BY DEF Sound, Invariant, TypeOK
  <1> QED BY <1>1 DEF Sound, Views, Agrees, Mentions

LEMMA ProcessIsSound ==
  ASSUME Invariant, NEW v, Sound(v), NEW k \in Kinds, NEW x, NEW y, NEW u \in Process(v, k, x, y)
  PROVE  Sound(u)
  <1> DEFINE seen  == Seen(v, k, x)
             found == {c \in seen : InRange(y, c)}
             bests == Bests(y, found)
             kept  == IF v.visible[k] \in seen \ found THEN Hide(v, k) ELSE v
             others == {c \in v.cell : KindOf(c) # k}
             queue(best) == [MakeRoom(kept, k) EXCEPT !.delayed[k] = best]
             after(best) == IF best = kept.visible[k] THEN kept ELSE queue(best)
  <1>1. Sound(kept)
    BY HideIsSound
  <1>2. others \in SUBSET checkpoints
    BY DEF Sound, Mentions
  <1>3. CASE found = {}
    <2>1. u = [kept EXCEPT !.cell = others]
      <3> HIDE DEF kept, others
      <3> QED BY <1>3 DEF Process, kept, others
    <2> QED BY <1>1, <1>2, <2>1, CellIsSound
  <1>4. CASE found # {}
    <2>1. PICK best \in bests : u = [after(best) EXCEPT !.cell = others \cup Cached(best)]
      BY <1>4 DEF Process
    <2>2. best \in checkpoints /\ best \in Ids /\ KindOf(best) = k
      BY BestIsFound
    <2>3. Sound(after(best))
      BY <1>1, <2>2, QueueIsSound
    <2>4. others \cup Cached(best) \in SUBSET checkpoints
      BY <1>2, <2>2 DEF Cached
    <2> QED BY <2>1, <2>3, <2>4, CellIsSound
  <1> QED BY <1>3, <1>4

LEMMA ProcessAllIsSound ==
  ASSUME Invariant, NEW v, Sound(v), NEW kinds, NEW x, NEW y, NEW u \in ProcessAll(v, kinds, x, y)
  PROVE  Sound(u)
  <1> DEFINE todo == {k \in kinds : Existing(k) # {}}
             first  == IF "checkpoint" \in todo THEN Process(v, "checkpoint", x, y) ELSE {v}
             second(t) == IF "race" \in todo THEN Process(t, "race", x, y) ELSE {t}
  <1>1. PICK t \in first : u \in second(t)
    BY DEF ProcessAll
  <1>2. Sound(t)
    BY <1>1, ProcessIsSound DEF Kinds
  <1> QED BY <1>1, <1>2, ProcessIsSound DEF Kinds

-----------------------------------------------------------------------------
(* The actions.                                                            *)

LEMMA UpdateKeeps ==
  ASSUME Invariant, NEW p \in Players, NEW x \in Places, NEW kinds,
         AutomaticUpdate(p, x) \/ ManualUpdate(p, x, kinds)
  PROVE  Invariant'
  <1>1. /\ UNCHANGED <<checkpoints, place, players, updateWhenIdle, enabledItems>>
        /\ position' \in [Players -> Places]
    <2>1. UNCHANGED itemVars /\ Sample(p, x)
      BY DEF AutomaticUpdate, ManualUpdate
    <2> QED BY <2>1 DEF Sample, itemVars, Invariant, TypeOK
  <1>2. PICK v : Sound(v) /\ SetView(p, v)
    <2>1. Sound(View(p))
      BY ViewIsSound
    <2>2. CASE AutomaticUpdate(p, x)
      <3>1. Sound(ShowOne(View(p)))
        BY <2>1, ShowOneIsSound
      <3>2. \/ SetView(p, ShowOne(View(p)))
            \/ \E y \in Predicted(p, x) :
                 \E v \in ProcessAll(ShowOne(View(p)), enabledItems[p], x, y) : SetView(p, v)
        BY <2>2 DEF AutomaticUpdate
      <3> QED BY <3>1, <3>2, ProcessAllIsSound
    <2>3. CASE ManualUpdate(p, x, kinds)
      <3>1. \E v \in ProcessAll(View(p), kinds, x, x) : SetView(p, v)
        BY <2>3 DEF ManualUpdate
      <3> QED BY <2>1, <3>1, ProcessAllIsSound
    <2> QED BY <2>2, <2>3
  <1>3. /\ place \in [Ids -> Places] /\ players \subseteq Players
        /\ updateWhenIdle \in [Players -> BOOLEAN] /\ enabledItems \in [Players -> SUBSET Kinds]
    BY DEF Invariant, TypeOK
  <1> QED BY <1>1, <1>2, <1>3, SetViewKeeps

(* What SetItemPos and DestroyDynamicCP do to the views: each is hidden    *)
(* from or left alone, and its cell replaced by a part of it.              *)
LEMMA HideFromAllKeeps ==
  ASSUME Invariant, NEW c \in Ids, NEW cells, HideFromAll(c, cells),
         cells \in [Players -> SUBSET Ids],
         \A p \in Players : cells[p] \subseteq visibleCell[p] \cap checkpoints',
         checkpoints' \in {checkpoints, checkpoints \ {c}},
         place' \in [Ids -> Places], UNCHANGED playerVars
  PROVE  Invariant'
  <1> DEFINE k == KindOf(c)
             hidden(p) == IF visible[p][k] = c THEN Hide(View(p), k) ELSE View(p)
  <1>1. k \in Kinds
    BY DEF KindOf, Kinds
  <1>2. ASSUME NEW p \in Players PROVE Sound(hidden(p)) /\ hidden(p) \in Views
    BY <1>1, ViewIsSound, HideIsSound DEF Sound
  <1>3. /\ visible' = [p \in Players |-> hidden(p).visible]
        /\ active' = [p \in Players |-> hidden(p).active]
        /\ client' = [p \in Players |-> hidden(p).client]
        /\ inside' = [p \in Players |-> hidden(p).inside]
        /\ visibleCell' = cells
        /\ UNCHANGED delayed
    BY DEF HideFromAll
  <1>4. TypeOK'
    BY <1>2, <1>3 DEF Invariant, TypeOK, Views, playerVars
  <1>5. ASSUME NEW p \in Players PROVE hidden(p).delayed = delayed[p]
    <2>1. View(p) \in Views /\ View(p).delayed = delayed[p]
      BY ViewIsSound DEF Sound, View
    <2>2. Hide(View(p), k).delayed = View(p).delayed
      BY <2>1 DEF Hide, Disable, Views
    <2> QED BY <2>1, <2>2
  <1>6. ClientShowsVisible' /\ ActiveIsShown'
    BY <1>2, <1>3, <1>5 DEF Sound, Agrees, ClientShowsVisible, ActiveIsShown
  <1>7. NoTraceOfDestroyed'
    <2>1. ASSUME NEW p \in Players, NEW j \in Kinds
          PROVE  hidden(p).visible[j] \in (checkpoints \ {c}) \cup {None} \/ checkpoints' = checkpoints
      <3>1. hidden(p).visible \in Slots /\ hidden(p).visible[j] \in checkpoints \cup {None}
        BY <1>2 DEF Sound, Views, Mentions
      <3>2. CASE hidden(p).visible[j] = c /\ c # None
        <4>1. j = k
          BY <3>1, <3>2 DEF Slots
        <4>2. visible[p][k] # c
          <5> SUFFICES ASSUME visible[p][k] = c PROVE FALSE
            OBVIOUS
          <5> QED BY <1>1, <3>2, <4>1, ViewIsSound, HideIsSound
        <4> QED BY <3>2, <4>1, <4>2 DEF View
      <3> QED BY <3>1, <3>2
    <2>2. \A p \in Players, j \in Kinds : visible'[p][j] \in checkpoints' \cup {None}
      <3> SUFFICES ASSUME NEW p \in Players, NEW j \in Kinds
                   PROVE  visible'[p][j] \in checkpoints' \cup {None}
        OBVIOUS
      <3>1. visible'[p][j] = hidden(p).visible[j]
        BY <1>3
      <3>2. hidden(p).visible[j] \in checkpoints \cup {None}
        BY <1>2 DEF Sound, Mentions
      <3> QED BY <2>1, <3>1, <3>2
    <2> QED BY <1>3, <2>2 DEF NoTraceOfDestroyed
  <1> QED BY <1>4, <1>6, <1>7 DEF Invariant

LEMMA ItemStepKeeps ==
  ASSUME Invariant, NEW c \in Ids, ItemStep(c)
  PROVE  Invariant'
  <1>0. ItemPlaces[c] \subseteq Places /\ Origin \in Places
    BY PlacesAssumption, AttributeAssumption
  <1>1. ASSUME NEW x \in ItemPlaces[c], CreateDynamicCP(c, x) PROVE Invariant'
    <2>1. /\ UNCHANGED <<playerVars, viewVars>>
          /\ checkpoints' = checkpoints \cup {c} /\ place' = [place EXCEPT ![c] = x]
      BY <1>1 DEF CreateDynamicCP
    <2>2. TypeOK'
      BY <1>0, <2>1 DEF Invariant, TypeOK, playerVars, viewVars
    <2>3. ClientShowsVisible' /\ ActiveIsShown' /\ NoTraceOfDestroyed'
      BY <2>1 DEF Invariant, ClientShowsVisible, ActiveIsShown, NoTraceOfDestroyed, viewVars
    <2> QED BY <2>2, <2>3 DEF Invariant
  <1>2. ASSUME NEW x \in ItemPlaces[c], SetItemPos(c, x) PROVE Invariant'
    <2>1. /\ HideFromAll(c, visibleCell) /\ UNCHANGED <<checkpoints, playerVars>>
          /\ place' = [place EXCEPT ![c] = x]
      BY <1>2 DEF SetItemPos
    <2>2. /\ visibleCell \in [Players -> SUBSET Ids] /\ place' \in [Ids -> Places]
          /\ \A p \in Players : visibleCell[p] \subseteq checkpoints
      BY <1>0, <2>1 DEF Invariant, TypeOK, NoTraceOfDestroyed
    <2> QED BY <2>1, <2>2, HideFromAllKeeps
  <1>3. CASE DestroyDynamicCP(c)
    <2> DEFINE cells == [p \in Players |-> visibleCell[p] \ {c}]
    <2>1. /\ HideFromAll(c, cells) /\ UNCHANGED playerVars
          /\ checkpoints' = checkpoints \ {c} /\ place' = [place EXCEPT ![c] = Origin]
      BY <1>3 DEF DestroyDynamicCP
    <2>2. /\ cells \in [Players -> SUBSET Ids] /\ place' \in [Ids -> Places]
          /\ \A p \in Players : cells[p] \subseteq visibleCell[p] \cap checkpoints'
      BY <1>0, <2>1 DEF Invariant, TypeOK, NoTraceOfDestroyed
    <2> QED BY <2>1, <2>2, HideFromAllKeeps
  <1> QED BY <1>1, <1>2, <1>3 DEF ItemStep

(* The server's report of entering: of the visible checkpoint, which is    *)
(* the one the client shows.                                               *)
LEMMA EnterLeaveKeeps ==
  ASSUME Invariant, NEW p \in Players, NEW k \in Kinds,
         OnPlayerEnterCheckpoint(p, k) \/ OnPlayerLeaveCheckpoint(p, k)
  PROVE  Invariant'
  <1>1. UNCHANGED <<itemVars, playerVars, visible, delayed, visibleCell, client>>
    BY DEF OnPlayerEnterCheckpoint, OnPlayerLeaveCheckpoint
  <1>2. PICK c \in {None, active[p][k], visible[p][k]}, in \in BOOLEAN :
          /\ active' = [active EXCEPT ![p][k] = c]
          /\ inside' = [inside EXCEPT ![p][k] = in]
          /\ c # None => c = client[p][k] /\ in
    <2>1. CASE OnPlayerEnterCheckpoint(p, k)
      <3>1. client[p][k] = visible[p][k]
        BY <2>1 DEF OnPlayerEnterCheckpoint, Invariant, ClientShowsVisible
      <3> QED BY <2>1, <3>1 DEF OnPlayerEnterCheckpoint
    <2>2. CASE OnPlayerLeaveCheckpoint(p, k)
      <3>1. active[p][k] # None => active[p][k] = visible[p][k]
        BY DEF Invariant, ActiveIsShown, ClientShowsVisible
      <3>2. (IF active[p][k] = visible[p][k] THEN None ELSE active[p][k]) = None
        BY <3>1
      <3> QED BY <2>2, <3>2 DEF OnPlayerLeaveCheckpoint
    <2> QED BY <2>1, <2>2
  <1>3. /\ active[p] \in Slots /\ visible[p] \in Slots
        /\ inside[p] \in [Kinds -> BOOLEAN]
    BY DEF Invariant, TypeOK
  <1>4. [active[p] EXCEPT ![k] = c] \in Slots
    BY <1>2, <1>3, SlotChanged DEF Slots
  <1>5. [inside[p] EXCEPT ![k] = in] \in [Kinds -> BOOLEAN]
    BY <1>3
  <1>6. /\ active' = [active EXCEPT ![p] = [active[p] EXCEPT ![k] = c]]
        /\ inside' = [inside EXCEPT ![p] = [inside[p] EXCEPT ![k] = in]]
    BY <1>2 DEF Invariant, TypeOK
  <1>7. active' \in [Players -> Slots] /\ inside' \in [Players -> [Kinds -> BOOLEAN]]
    BY <1>4, <1>5, <1>6 DEF Invariant, TypeOK
  <1>8. TypeOK'
    BY <1>1, <1>7 DEF Invariant, TypeOK, itemVars, playerVars
  <1>9. ClientShowsVisible' /\ NoTraceOfDestroyed'
    BY <1>1 DEF Invariant, ClientShowsVisible, NoTraceOfDestroyed, itemVars
  <1>10. ActiveIsShown'
    <2> SUFFICES ASSUME NEW q \in Players, NEW j \in Kinds, active'[q][j] # None
                 PROVE  active'[q][j] = client'[q][j] /\ inside'[q][j]
      BY DEF ActiveIsShown
    <2>1. CASE q = p /\ j = k
      <3>1. active'[q][j] = c /\ inside'[q][j] = in
        BY <1>3, <1>6, <2>1 DEF Invariant, TypeOK, Slots
      <3> QED BY <1>1, <1>2, <2>1, <3>1
    <2>2. CASE ~(q = p /\ j = k)
      <3>1. active'[q][j] = active[q][j] /\ inside'[q][j] = inside[q][j]
        BY <1>3, <1>6, <2>2 DEF Invariant, TypeOK, Slots
      <3> QED BY <1>1, <3>1 DEF Invariant, ActiveIsShown
    <2> QED BY <2>1, <2>2
  <1> QED BY <1>8, <1>9, <1>10 DEF Invariant

LEMMA PlayerStepKeeps ==
  ASSUME Invariant, NEW p \in Players, PlayerStep(p)
  PROVE  Invariant'
  <1>1. ASSUME NEW k \in Kinds, DestroyAllVisibleItems(p, k) PROVE Invariant'
    <2>1. SetView(p, Hide(View(p), k)) /\ UNCHANGED <<itemVars, playerVars>>
      BY <1>1 DEF DestroyAllVisibleItems
    <2>2. Sound(Hide(View(p), k))
      BY ViewIsSound, HideIsSound
    <2> QED BY <2>1, <2>2, SetViewKeeps DEF Invariant, TypeOK, itemVars, playerVars
  <1>2. ASSUME NEW k \in Kinds, ToggleItemUpdate(p, k) PROVE Invariant'
    <2>1. UNCHANGED <<itemVars, viewVars, players, position, updateWhenIdle>>
      BY <1>2 DEF ToggleItemUpdate
    <2>2. enabledItems' \in [Players -> SUBSET Kinds]
      BY <1>2 DEF ToggleItemUpdate, Invariant, TypeOK
    <2>3. TypeOK'
      BY <2>1, <2>2 DEF Invariant, TypeOK, itemVars, viewVars
    <2> QED BY <2>1, <2>3
        DEF Invariant, ClientShowsVisible, ActiveIsShown, NoTraceOfDestroyed, itemVars, viewVars
  <1>3. ASSUME ToggleIdleUpdate(p) \/ \E npc \in BOOLEAN : Connect(p, npc) PROVE Invariant'
    <2>1. UNCHANGED <<itemVars, viewVars, position>>
      BY <1>3 DEF ToggleIdleUpdate, Connect
    <2>2. /\ updateWhenIdle' \in [Players -> BOOLEAN] /\ players' \subseteq Players
          /\ enabledItems' \in [Players -> SUBSET Kinds]
      <3>1. CASE ToggleIdleUpdate(p)
        <4>1. UNCHANGED <<players, enabledItems>>
          BY <3>1 DEF ToggleIdleUpdate
        <4>2. updateWhenIdle' = [updateWhenIdle EXCEPT ![p] = ~updateWhenIdle[p]]
          BY <3>1 DEF ToggleIdleUpdate
        <4> QED BY <4>1, <4>2 DEF Invariant, TypeOK
      <3>2. ASSUME NEW npc \in BOOLEAN, Connect(p, npc)
            PROVE  /\ updateWhenIdle' \in [Players -> BOOLEAN] /\ players' \subseteq Players
                   /\ enabledItems' \in [Players -> SUBSET Kinds]
        BY <3>2 DEF Connect, Invariant, TypeOK
      <3> QED BY <1>3, <3>1, <3>2
    <2>3. TypeOK'
      BY <2>1, <2>2 DEF Invariant, TypeOK, itemVars, viewVars
    <2> QED BY <2>1, <2>3
        DEF Invariant, ClientShowsVisible, ActiveIsShown, NoTraceOfDestroyed, itemVars, viewVars
  <1>4. ASSUME Disconnect(p) PROVE Invariant'
    <2>1. SetView(p, NoView) /\ UNCHANGED itemVars
      BY <1>4 DEF Disconnect
    <2>2. /\ players' \subseteq Players /\ position' \in [Players -> Places]
          /\ updateWhenIdle' \in [Players -> BOOLEAN] /\ enabledItems' \in [Players -> SUBSET Kinds]
      BY <1>4, PlacesAssumption DEF Disconnect, Invariant, TypeOK
    <2>3. checkpoints' = checkpoints /\ place' \in [Ids -> Places]
      BY <2>1 DEF Invariant, TypeOK, itemVars
    <2> QED BY <2>1, <2>2, <2>3, NoneIsSound, SetViewKeeps
  <1> QED BY <1>1, <1>2, <1>3, <1>4, UpdateKeeps, EnterLeaveKeeps DEF PlayerStep

-----------------------------------------------------------------------------
(* The theorems.                                                           *)

LEMMA InvariantHolds == Spec => []Invariant
  <1>1. Init => Invariant
    BY PlacesAssumption DEF Init, Invariant, TypeOK, ClientShowsVisible, ActiveIsShown,
         NoTraceOfDestroyed, Nothing, Nowhere, Slots
  <1>2. Invariant /\ [Next]_vars => Invariant'
    <2> SUFFICES ASSUME Invariant, [Next]_vars PROVE Invariant'
      OBVIOUS
    <2>1. CASE Next
      BY <2>1, PlayerStepKeeps, ItemStepKeeps DEF Next
    <2>2. CASE UNCHANGED vars
      BY <2>2 DEF vars, itemVars, playerVars, viewVars, Invariant, TypeOK, ClientShowsVisible,
           ActiveIsShown, NoTraceOfDestroyed
    <2> QED BY <2>1, <2>2
  <1> QED BY <1>1, <1>2, PTL DEF Spec

(* Every variable keeps its type, and the slot of a kind names none of the *)
(* other.                                                                  *)
THEOREM CheckpointTypes == Spec => []TypeOK
  BY InvariantHolds, PTL DEF Invariant

(* What the client shows is what scripts are told is visible, and nothing  *)
(* waits to replace it.                                                    *)
THEOREM VisibleIsShown == Spec => []ClientShowsVisible
  BY InvariantHolds, PTL DEF Invariant

(* A player is only in a checkpoint (IsPlayerInDynamicCP) that the client  *)
(* shows and in which the server has the player.                           *)
THEOREM ActiveOnlyInShown == Spec => []ActiveIsShown
  BY InvariantHolds, PTL DEF Invariant

(* Nothing but the queue names a checkpoint that was destroyed.            *)
THEOREM DestroyedIsForgotten == Spec => []NoTraceOfDestroyed
  BY InvariantHolds, PTL DEF Invariant

-----------------------------------------------------------------------------
(* StaysReachable.  It is stated of two views, before and after.           *)

Reaches(v, c) == HasCell(c) => c \in v.cell

Stays(v, u, c) ==
  \/ u.delayed["checkpoint"] = c /\ v.delayed["checkpoint"] # c
  \/ u.client["checkpoint"] = c /\ Reaches(v, c)
  => Reaches(u, c)

(* Hiding one kind keeps what waits, the cell, and the client's other kind.*)
LEMMA DisableKeepsRest ==
  ASSUME NEW v \in Views, NEW k \in Kinds, NEW u \in {Disable(v, k), Hide(v, k), MakeRoom(v, k)}
  PROVE  /\ u \in Views /\ u.delayed = v.delayed /\ u.cell = v.cell
         /\ \A j \in Kinds \ {k} : u.client[j] = v.client[j]
  <1> DEFINE d == Disable(v, k)
  <1>1. d = [v EXCEPT !.client = [v.client EXCEPT ![k] = None],
                      !.inside = [v.inside EXCEPT ![k] = FALSE],
                      !.active = [v.active EXCEPT ![k] = None]]
    BY DEF Disable, Views
  <1>2. /\ [v.client EXCEPT ![k] = None] \in Slots /\ [v.active EXCEPT ![k] = None] \in Slots
        /\ [v.inside EXCEPT ![k] = FALSE] \in [Kinds -> BOOLEAN]
        /\ [v.visible EXCEPT ![k] = None] \in Slots
    BY SlotChanged DEF Views
  <1>3. /\ d \in Views /\ d.delayed = v.delayed /\ d.cell = v.cell /\ d.visible = v.visible
        /\ \A j \in Kinds \ {k} : d.client[j] = v.client[j]
    <2> DEFINE shown == [v.client EXCEPT ![k] = None]
    <2>1. \A j \in Kinds \ {k} : shown[j] = v.client[j]
      BY DEF Views, Slots
    <2> HIDE DEF shown, d
    <2>2. d.client = shown /\ d.delayed = v.delayed /\ d.cell = v.cell /\ d.visible = v.visible
      BY <1>1 DEF Views, shown
    <2>3. d \in Views
      BY <1>1, <1>2 DEF Views
    <2> QED BY <2>1, <2>2, <2>3
  <1> HIDE DEF d
  <1>4. Hide(v, k) = [d EXCEPT !.visible = [v.visible EXCEPT ![k] = None]]
    BY <1>3 DEF Hide, d, Views
  <1>5. /\ Hide(v, k) \in Views /\ Hide(v, k).delayed = v.delayed /\ Hide(v, k).cell = v.cell
        /\ \A j \in Kinds \ {k} : Hide(v, k).client[j] = v.client[j]
    BY <1>2, <1>3, <1>4 DEF Views
  <1> QED BY <1>3, <1>5 DEF MakeRoom, d

(* What streaming race checkpoints leaves alone.                           *)
LEMMA RaceKeepsOther ==
  ASSUME NEW v \in Views, NEW x, NEW y, NEW u \in Process(v, "race", x, y)
  PROVE  /\ u.delayed["checkpoint"] = v.delayed["checkpoint"]
         /\ u.client["checkpoint"] = v.client["checkpoint"]
         /\ \A c \in v.cell : KindOf(c) = "checkpoint" => c \in u.cell
  <1> DEFINE k == "race"
             seen  == Seen(v, k, x)
             found == {c \in seen : InRange(y, c)}
             kept  == IF v.visible[k] \in seen \ found THEN Hide(v, k) ELSE v
             others == {c \in v.cell : KindOf(c) # k}
             queue(best) == [MakeRoom(kept, k) EXCEPT !.delayed[k] = best]
             after(best) == IF best = kept.visible[k] THEN kept ELSE queue(best)
  <1>1. "race" \in Kinds /\ "checkpoint" \in Kinds \ {"race"}
    BY DEF Kinds
  <1>2. /\ kept \in Views /\ kept.delayed = v.delayed
        /\ kept.client["checkpoint"] = v.client["checkpoint"]
    BY <1>1, DisableKeepsRest
  <1> DEFINE m == MakeRoom(kept, k)
  <1>3. /\ m \in Views /\ m.delayed = v.delayed /\ m.client["checkpoint"] = v.client["checkpoint"]
    <2> HIDE DEF kept
    <2> QED BY <1>1, <1>2, DisableKeepsRest
  <1> HIDE DEF kept, m
  <1>4. ASSUME NEW best
        PROVE  /\ [m EXCEPT !.delayed[k] = best].delayed["checkpoint"] = v.delayed["checkpoint"]
               /\ [m EXCEPT !.delayed[k] = best].client["checkpoint"] = v.client["checkpoint"]
               /\ \A f \in {"cell", "delayed", "client"} : f \in DOMAIN [m EXCEPT !.delayed[k] = best]
    <2> DEFINE e == [m.delayed EXCEPT ![k] = best]
    <2>1. e["checkpoint"] = m.delayed["checkpoint"]
      BY <1>1, <1>3 DEF Views, Slots
    <2>2. [m EXCEPT !.delayed[k] = best] = [m EXCEPT !.delayed = e]
      BY <1>3 DEF Views
    <2> HIDE DEF e
    <2> QED BY <1>3, <2>1, <2>2 DEF Views
  <1>5. PICK w, best : /\ w = kept \/ w = [m EXCEPT !.delayed[k] = best]
                       /\ \/ u = [w EXCEPT !.cell = others]
                          \/ u = [w EXCEPT !.cell = others \cup Cached(best)]
    BY DEF Process, kept, m
  <1>6. /\ w.delayed["checkpoint"] = v.delayed["checkpoint"]
        /\ w.client["checkpoint"] = v.client["checkpoint"]
    BY <1>2, <1>4, <1>5
  <1>7. "cell" \in DOMAIN w /\ "delayed" \in DOMAIN w /\ "client" \in DOMAIN w
    <2>1. CASE w = kept
      BY <1>2, <2>1 DEF Views
    <2> QED BY <1>4, <1>5, <2>1
  <1>8. u.delayed = w.delayed /\ u.client = w.client /\ others \subseteq u.cell
    BY <1>5, <1>7
  <1> QED BY <1>6, <1>8

(* What is queued is cached, and what is shown stays cached or is hidden.  *)
LEMMA ProcessStays ==
  ASSUME Invariant, NEW v, Sound(v), NEW x, NEW y, NEW u \in Process(v, "checkpoint", x, y),
         NEW c \in checkpoints, KindOf(c) = "checkpoint"
  PROVE  Stays(v, u, c)
  <1> DEFINE k == "checkpoint"
             seen  == Seen(v, k, x)
             found == {d \in seen : InRange(y, d)}
             bests == Bests(y, found)
             kept  == IF v.visible[k] \in seen \ found THEN Hide(v, k) ELSE v
             others == {d \in v.cell : KindOf(d) # k}
             queue(best) == [MakeRoom(kept, k) EXCEPT !.delayed[k] = best]
             after(best) == IF best = kept.visible[k] THEN kept ELSE queue(best)
  <1>1. k \in Kinds /\ c # None /\ v \in Views
    BY IdsAssumption DEF Kinds, Invariant, TypeOK, Sound
  <1>2. /\ kept \in Views /\ Sound(kept) /\ kept.delayed = v.delayed
        /\ kept.client[k] = c => kept = v /\ v.visible[k] = c /\ c \notin seen \ found
    <2>1. v.client[k] = c => v.visible[k] = c
      BY <1>1 DEF Sound, Agrees
    <2>2. Hide(v, k).client[k] = None /\ Sound(Hide(v, k))
      BY <1>1, HideIsSound
    <2> QED BY <1>1, <2>1, <2>2, DisableKeepsRest
  <1>3. kept.client[k] = c /\ HasCell(c) /\ c \in v.cell => c \in found
    BY <1>2 DEF Seen, Existing
  <1>4. CASE found = {}
    <2>1. u = [kept EXCEPT !.cell = others]
      BY <1>4 DEF Process
    <2> HIDE DEF kept
    <2>2. u.delayed = v.delayed /\ u.client = kept.client
      BY <1>2, <2>1 DEF Views
    <2> QED BY <1>3, <1>4, <2>2 DEF Stays, Reaches
  <1>5. CASE found # {}
    <2>1. PICK best \in bests : u = [after(best) EXCEPT !.cell = others \cup Cached(best)]
      BY <1>5 DEF Process
    <2>2. CASE best = kept.visible[k]
      <3>1. u = [kept EXCEPT !.cell = others \cup Cached(best)]
        BY <2>1, <2>2
      <3>2. u.delayed = v.delayed /\ u.client = kept.client /\ u.cell = others \cup Cached(best)
        <4> HIDE DEF kept, others
        <4> QED BY <1>2, <3>1 DEF Views
      <3>3. kept.client[k] = c => best = c
        BY <1>2, <2>2
      <3> HIDE DEF kept
      <3> QED BY <3>2, <3>3 DEF Stays, Reaches, Cached
    <2>3. CASE best # kept.visible[k]
      <3>1. u = [queue(best) EXCEPT !.cell = others \cup Cached(best)]
        BY <2>1, <2>3
      <3> DEFINE m == MakeRoom(kept, k)
      <3>2. m \in Views /\ m.delayed = v.delayed /\ m.client[k] # c
        <4>1. CASE kept.visible[k] = None
          <5>1. m = kept
            BY <4>1 DEF MakeRoom
          <5> QED BY <1>1, <1>2, <4>1, <5>1
        <4>2. CASE kept.visible[k] # None
          <5> HIDE DEF kept
          <5>1. m = Disable(kept, k)
            BY <4>2 DEF MakeRoom
          <5> QED BY <1>1, <1>2, <5>1, DisableIsSound, DisableKeepsRest
        <4> QED BY <4>1, <4>2
      <3>3. queue(best) = [m EXCEPT !.delayed = [m.delayed EXCEPT ![k] = best]]
        <4> HIDE DEF m
        <4> QED BY <3>2 DEF Views, m
      <3> HIDE DEF m, kept
      <3>4. u.client = m.client /\ u.delayed = [m.delayed EXCEPT ![k] = best]
            /\ u.cell = others \cup Cached(best)
        BY <3>1, <3>2, <3>3 DEF Views
      <3>5. u.delayed[k] = c => best = c
        BY <1>1, <3>2, <3>4 DEF Views, Slots
      <3> QED BY <3>2, <3>4, <3>5 DEF Stays, Reaches, Cached
    <2> QED BY <2>2, <2>3
  <1> QED BY <1>4, <1>5

LEMMA ProcessAllStays ==
  ASSUME Invariant, NEW v, Sound(v), NEW kinds, NEW x, NEW y, NEW u \in ProcessAll(v, kinds, x, y),
         NEW c \in checkpoints
  PROVE  Stays(v, u, c)
  <1> DEFINE todo == {k \in kinds : Existing(k) # {}}
             first  == IF "checkpoint" \in todo THEN Process(v, "checkpoint", x, y) ELSE {v}
             second(t) == IF "race" \in todo THEN Process(t, "race", x, y) ELSE {t}
  <1>1. PICK t \in first : u \in second(t)
    BY DEF ProcessAll
  <1>2. Sound(t)
    BY <1>1, ProcessIsSound DEF Kinds
  <1>3. Sound(u)
    BY <1>1, <1>2, ProcessIsSound DEF Kinds
  <1>4. CASE KindOf(c) = "checkpoint"
    <2>1. Stays(v, t, c)
      BY <1>1, <1>4, ProcessStays DEF Stays
    <2>2. /\ u.delayed["checkpoint"] = t.delayed["checkpoint"]
          /\ u.client["checkpoint"] = t.client["checkpoint"]
          /\ Reaches(t, c) => Reaches(u, c)
      BY <1>1, <1>2, <1>4, RaceKeepsOther DEF Sound, Reaches
    <2> QED BY <2>1, <2>2 DEF Stays
  <1>5. CASE KindOf(c) # "checkpoint"
    <2>1. c # None /\ "checkpoint" \in Kinds
      BY IdsAssumption DEF Invariant, TypeOK, Kinds
    <2>2. u.delayed["checkpoint"] # c /\ u.client["checkpoint"] # c
      BY <1>3, <1>5, <2>1 DEF Sound, Views, Slots
    <2> QED BY <2>2 DEF Stays
  <1> QED BY <1>4, <1>5

(* Showing what waits examines nothing.                                    *)
LEMMA ShowOneStays ==
  ASSUME NEW v \in Views
  PROVE  /\ ShowOne(v).cell = v.cell
         /\ ShowOne(v).delayed["checkpoint"] \in {v.delayed["checkpoint"], None}
  <1>1. ASSUME NEW k \in Kinds
        PROVE  /\ ShowDelayed(v, k).cell = v.cell
               /\ ShowDelayed(v, k).delayed["checkpoint"] \in {v.delayed["checkpoint"], None}
    <2>1. ShowDelayed(v, k).cell = v.cell
      BY DEF ShowDelayed, Views
    <2>2. ShowDelayed(v, k).delayed = [v.delayed EXCEPT ![k] = None]
      BY DEF ShowDelayed, Views
    <2>3. "checkpoint" \in DOMAIN v.delayed
      BY DEF Views, Slots, Kinds
    <2> QED BY <2>1, <2>2, <2>3
  <1>2. "checkpoint" \in Kinds /\ "race" \in Kinds
    BY DEF Kinds
  <1> QED BY <1>1, <1>2 DEF ShowOne

-----------------------------------------------------------------------------
(* What StaysReachable says of one player and one checkpoint.              *)
Reachable(p, c) ==
  \/ Chosen(p, c)' /\ ~Chosen(p, c)
  \/ On(p, c)' /\ Held(p, c)
  => Held(p, c)'

(* A step that sets the view of one player.                                *)
LEMMA SetViewStays ==
  ASSUME Invariant, NEW p \in Players, NEW v, SetView(p, v), NEW c, Stays(View(p), v, c)
  PROVE  \A q \in Players : Reachable(q, c)
  <1>1. /\ delayed'[p] = v.delayed /\ visibleCell'[p] = v.cell /\ client'[p] = v.client
        /\ \A q \in Players \ {p} : /\ delayed'[q] = delayed[q] /\ visibleCell'[q] = visibleCell[q]
                                    /\ client'[q] = client[q]
    BY DEF SetView, Invariant, TypeOK
  <1>2. Reachable(p, c)
    BY <1>1 DEF Stays, Reaches, View, Reachable, Chosen, On, Held
  <1>3. \A q \in Players \ {p} : Reachable(q, c)
    BY <1>1 DEF Reachable, Chosen, On, Held
  <1> QED BY <1>2, <1>3

(* A step that queues nothing, and takes c out of no cell.                 *)
LEMMA OthersStay ==
  ASSUME UNCHANGED delayed, NEW c, \A p \in Players : Held(p, c) => Held(p, c)'
  PROVE  \A p \in Players : Reachable(p, c)
  BY DEF Reachable, Chosen

LEMMA UpdateStays ==
  ASSUME Invariant, NEW p \in Players, NEW x, NEW kinds, NEW c \in checkpoints,
         AutomaticUpdate(p, x) \/ ManualUpdate(p, x, kinds)
  PROVE  \A q \in Players : Reachable(q, c)
  <1>1. Sound(View(p)) /\ View(p) \in Views /\ c # None
    BY ViewIsSound, IdsAssumption DEF Sound, Invariant, TypeOK
  <1>2. CASE AutomaticUpdate(p, x)
    <2> DEFINE s == ShowOne(View(p))
    <2>1. Sound(s) /\ s.cell = View(p).cell
          /\ (s.delayed["checkpoint"] = c => View(p).delayed["checkpoint"] = c)
      BY <1>1, ShowOneIsSound, ShowOneStays
    <2>2. \/ SetView(p, s)
          \/ \E y \in Predicted(p, x) : \E v \in ProcessAll(s, enabledItems[p], x, y) : SetView(p, v)
      BY <1>2 DEF AutomaticUpdate
    <2> HIDE DEF s
    <2>3. CASE SetView(p, s)
      <3>1. Stays(View(p), s, c)
        BY <2>1 DEF Stays, Reaches
      <3> QED BY <2>3, <3>1, SetViewStays
    <2>4. ASSUME NEW y, NEW v \in ProcessAll(s, enabledItems[p], x, y), SetView(p, v)
          PROVE  \A q \in Players : Reachable(q, c)
      <3>1. Stays(s, v, c)
        BY <2>1, <2>4, ProcessAllStays
      <3>2. Stays(View(p), v, c)
        BY <2>1, <3>1 DEF Stays, Reaches
      <3> QED BY <2>4, <3>2, SetViewStays
    <2> QED BY <2>2, <2>3, <2>4
  <1>3. CASE ManualUpdate(p, x, kinds)
    <2>1. PICK v \in ProcessAll(View(p), kinds, x, x) : SetView(p, v)
      BY <1>3 DEF ManualUpdate
    <2>2. Stays(View(p), v, c)
      BY <1>1, <2>1, ProcessAllStays
    <2> QED BY <2>1, <2>2, SetViewStays
  <1> QED BY <1>2, <1>3

LEMMA PlayerStepStays ==
  ASSUME Invariant, NEW p \in Players, PlayerStep(p), NEW c \in checkpoints
  PROVE  \A q \in Players : Reachable(q, c)
  <1>1. CASE \E x \in Places : AutomaticUpdate(p, x) \/ \E kinds \in SUBSET Kinds : ManualUpdate(p, x, kinds)
    BY <1>1, UpdateStays
  <1>2. ASSUME NEW k \in Kinds, DestroyAllVisibleItems(p, k) PROVE \A q \in Players : Reachable(q, c)
    <2>1. View(p) \in Views
      BY ViewIsSound DEF Sound
    <2>2. Hide(View(p), k).cell = View(p).cell /\ Hide(View(p), k).delayed = View(p).delayed
      BY <2>1, DisableKeepsRest
    <2>3. Stays(View(p), Hide(View(p), k), c)
      BY <2>2 DEF Stays, Reaches
    <2> QED BY <1>2, <2>3, SetViewStays DEF DestroyAllVisibleItems
  <1>3. CASE Disconnect(p)
    <2>1. c # None /\ "checkpoint" \in Kinds
      BY IdsAssumption DEF Invariant, TypeOK, Kinds
    <2>2. Stays(View(p), NoView, c)
      BY <2>1 DEF Stays, NoView, Nothing
    <2> QED BY <1>3, <2>2, SetViewStays DEF Disconnect
  <1>4. CASE \/ \E k \in Kinds : OnPlayerEnterCheckpoint(p, k) \/ OnPlayerLeaveCheckpoint(p, k)
             \/ \E k \in Kinds : ToggleItemUpdate(p, k)
             \/ ToggleIdleUpdate(p) \/ \E npc \in BOOLEAN : Connect(p, npc)
    <2>1. UNCHANGED <<delayed, visibleCell>>
      BY <1>4 DEF OnPlayerEnterCheckpoint, OnPlayerLeaveCheckpoint, ToggleItemUpdate,
                  ToggleIdleUpdate, Connect, viewVars
    <2> QED BY <2>1, OthersStay DEF Held
  <1> QED BY <1>1, <1>2, <1>3, <1>4 DEF PlayerStep

LEMMA ItemStepStays ==
  ASSUME Invariant, NEW d \in Ids, ItemStep(d), NEW c \in checkpoints \cap checkpoints'
  PROVE  \A q \in Players : Reachable(q, c)
  <1>1. UNCHANGED delayed /\ \A p \in Players : c \in visibleCell[p] => c \in visibleCell'[p]
    <2>1. CASE DestroyDynamicCP(d)
      <3>1. c # d /\ visibleCell' = [p \in Players |-> visibleCell[p] \ {d}] /\ UNCHANGED delayed
        BY <2>1 DEF DestroyDynamicCP, HideFromAll
      <3> QED BY <3>1
    <2>2. ASSUME NEW x, CreateDynamicCP(d, x) \/ SetItemPos(d, x)
          PROVE  UNCHANGED <<delayed, visibleCell>>
      BY <2>2 DEF CreateDynamicCP, SetItemPos, HideFromAll, viewVars
    <2> QED BY <2>1, <2>2 DEF ItemStep
  <1> QED BY <1>1, OthersStay DEF Held

(* The checkpoint an update chooses is in reach of the next, and one that  *)
(* is shown stays so until it is off the client: what gives way or gets out*)
(* of range is disabled in the step that forgets it.                       *)
THEOREM ChosenStaysReachable == Spec => StaysReachable
  <1>1. ASSUME Invariant, [Next]_vars
        PROVE  \A p \in Players, c \in checkpoints \cap checkpoints' : Reachable(p, c)
    <2> SUFFICES ASSUME NEW c \in checkpoints \cap checkpoints'
                 PROVE  \A p \in Players : Reachable(p, c)
      OBVIOUS
    <2>1. CASE Next
      BY <1>1, <2>1, PlayerStepStays, ItemStepStays DEF Next
    <2>2. CASE UNCHANGED vars
      BY <2>2, OthersStay DEF vars, viewVars, Held
    <2> QED BY <1>1, <2>1, <2>2
  <1>2. ASSUME Invariant, [Next]_vars
        PROVE  \A p \in Players, c \in checkpoints \cap checkpoints' :
                 \/ Chosen(p, c)' /\ ~Chosen(p, c)
                 \/ On(p, c)' /\ Held(p, c)
                 => Held(p, c)'
    BY <1>1, <1>2 DEF Reachable
  <1> QED BY <1>2, InvariantHolds, PTL DEF Spec, StaysReachable

=============================================================================
