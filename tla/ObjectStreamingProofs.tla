------------------------- MODULE ObjectStreamingProofs -------------------------
(* Proofs about ObjectStreaming, for every value of its constants.         *)
EXTENDS ObjectStreaming, FiniteSetTheorems, TLAPS

-----------------------------------------------------------------------------
(* Type correctness.                                                       *)

(* Entries made for objects of this module are entries.                    *)
LEMMA EntriesOfType ==
  ASSUME NEW x \in Places, NEW ids, ids \subseteq Objects, place \in [Objects -> Places]
  PROVE  EntriesOf(x, ids) \in SUBSET Entries
  <1> SUFFICES ASSUME NEW o \in ids PROVE Distance(x, o) \in Int
    BY DEF EntriesOf, Entries
  <1>1. x \in Int /\ place[o] \in Int
    BY PlacesAssumption
  <1> QED BY <1>1 DEF Distance, Abs

(* Counts of copies stay integers.                                         *)
LEMMA CountsType ==
  ASSUME NEW counts \in [Objects -> Int], NEW ids, NEW o
  PROVE  /\ Hidden(counts, ids) \in [Objects -> Int]
         /\ Shown(counts, o) \in [Objects -> Int]
  BY DEF Hidden, Shown

LEMMA RemainingFinite ==
  ASSUME TypeOK, NEW p \in Players, NEW out
  PROVE  /\ Remaining(p, out) \subseteq Objects
         /\ IsFiniteSet(Remaining(p, out))
         /\ Cardinality(Remaining(p, out)) \in Nat
  <1>1. Remaining(p, out) \subseteq Objects
    BY DEF Remaining, TypeOK
  <1>2. IsFiniteSet(Remaining(p, out))
    BY <1>1, ObjectsAssumption, FS_Subset
  <1> QED BY <1>1, <1>2, FS_CardinalityType

(* The two outcomes of an attempt to create an object.                     *)
LEMMA CreationType ==
  ASSUME TypeOK, NEW p \in Players, NEW d \in Entries, NEW out,
         CreateObject(p, d, out) \/ CancelStreaming(p, out)
  PROVE  /\ internalObjects' \in [Players -> SUBSET Objects]
         /\ clientObjects' \in [Players -> [Objects -> Int]]
         /\ visibleObjects' \in [Players -> SUBSET Objects]
         /\ currentVisibleObjects' \in [Players -> Nat]
  <1>1. d.id \in Objects
    BY DEF Entries
  <1>2. Remaining(p, out) \subseteq Objects /\ Cardinality(Remaining(p, out)) \in Nat
    BY RemainingFinite
  <1>3. clientObjects[p] \in [Objects -> Int]
    BY DEF TypeOK
  <1>4. /\ Hidden(clientObjects[p], Ids(out) \cap internalObjects[p]) \in [Objects -> Int]
        /\ Shown(Hidden(clientObjects[p], Ids(out) \cap internalObjects[p]), d.id) \in [Objects -> Int]
    BY <1>3, CountsType
  <1>5. CASE CreateObject(p, d, out)
    BY <1>1, <1>2, <1>4, <1>5 DEF CreateObject, TypeOK, InVisibleCell
  <1>6. CASE CancelStreaming(p, out)
    BY <1>2, <1>4, <1>6 DEF CancelStreaming, TypeOK
  <1> QED BY <1>5, <1>6

LEMMA EnterType ==
  ASSUME NEW p \in Players, NEW removed, EnterStreamObjects(p, removed), TypeOK
  PROVE  loop' \in Loops /\ chunkCount' \in Nat /\ candidates' \in SUBSET Entries /\ kept' \in SUBSET Entries
  BY DEF EnterStreamObjects, Loops, TypeOK

(* One update of a player.                                                 *)
LEMMA DiscoverType ==
  ASSUME TypeOK, NEW p \in Players, NEW x \in Places, NEW y \in Places, NEW w \in Worlds,
         NEW discovered \in SUBSET Entries, NEW existing \in SUBSET Entries, NEW pending \in BOOLEAN,
         DiscoverObjects(p, x, y, w, discovered, existing, pending)
  PROVE  /\ visibleObjects' \in [Players -> SUBSET Objects]
         /\ discoveredObjects' \in [Players -> SUBSET Entries]
         /\ existingObjects' \in [Players -> SUBSET Entries]
         /\ removedObjects' \in [Players -> SUBSET Objects]
         /\ processingChunks' \in [Players -> BOOLEAN]
  <1> DEFINE seen == Examined(p, x)
             inRange == {o \in seen : InRange(y, w, o)}
             on == internalObjects[p]
  <1>1. seen \subseteq Objects
    BY DEF Examined, TypeOK
  <1>2. EntriesOf(y, NotStreamed(p, inRange)) \in SUBSET Entries /\ EntriesOf(y, inRange \cap on) \in SUBSET Entries
    BY <1>1, EntriesOfType DEF TypeOK, NotStreamed
  <1>3. /\ InsertOrAssign(discovered, y, NotStreamed(p, inRange)) \in SUBSET Entries
        /\ InsertOrAssign(existing, y, inRange \cap on) \in SUBSET Entries
    BY <1>2 DEF InsertOrAssign
  <1>4. InVisibleCell(inRange \cap on) \subseteq Objects
    BY <1>1 DEF InVisibleCell
  <1> QED BY <1>1, <1>3, <1>4 DEF DiscoverObjects, TypeOK

LEMMA BeginProcessType ==
  ASSUME TypeOK, NEW p \in Players, NEW x \in Places, NEW y \in Places, NEW w \in Worlds,
         BeginProcessObjects(p, x, y, w)
  PROVE  /\ internalObjects' \in [Players -> SUBSET Objects]
         /\ clientObjects' \in [Players -> [Objects -> Int]]
         /\ visibleObjects' \in [Players -> SUBSET Objects]
         /\ candidates' \in SUBSET Entries
         /\ kept' \in SUBSET Entries
         /\ loop' \in Loops
         /\ chunkCount' \in Nat
  <1> DEFINE seen == Examined(p, x)
             inRange == {o \in seen : InRange(y, w, o)}
             on == internalObjects[p]
             keep == {o \in seen \cap on : o \in inRange \/ Within(y, w, o, KeepDistance[o])}
  <1>1. seen \subseteq Objects
    BY DEF Examined, TypeOK
  <1>2. EntriesOf(y, NotStreamed(p, inRange)) \in SUBSET Entries /\ EntriesOf(y, keep) \in SUBSET Entries
    BY <1>1, EntriesOfType DEF TypeOK, NotStreamed
  <1>3. InVisibleCell(keep) \subseteq Objects
    BY <1>1 DEF InVisibleCell
  <1>4. Hidden(clientObjects[p], (seen \cap on) \ keep) \in [Objects -> Int]
    BY CountsType DEF TypeOK
  <1> QED BY <1>1, <1>2, <1>3, <1>4 DEF BeginProcessObjects, TypeOK, Loops

(* The steps of the streaming loops.                                       *)
LEMMA StreamingStepType ==
  ASSUME TypeOK, NEW p \in Players, StreamingStep(p)
  PROVE  TypeOK'
  <1>1. CASE StreamOut(p)
    <2>1. PICK o \in removedObjects[p] :
            /\ removedObjects' = [removedObjects EXCEPT ![p] = @ \ {o}]
            /\ internalObjects' = [internalObjects EXCEPT ![p] = @ \ {o}]
            /\ clientObjects' =
                 [clientObjects EXCEPT ![p] = Hidden(@, {o} \cap internalObjects[p])]
      BY <1>1 DEF StreamOut
    <2>2. Hidden(clientObjects[p], {o} \cap internalObjects[p]) \in [Objects -> Int]
      BY CountsType DEF TypeOK
    <2>3. /\ removedObjects' \in [Players -> SUBSET Objects]
          /\ internalObjects' \in [Players -> SUBSET Objects]
          /\ clientObjects' \in [Players -> [Objects -> Int]]
      BY <2>1, <2>2 DEF TypeOK
    <2>4. /\ chunkCount' = chunkCount + 1
          /\ UNCHANGED <<serverVars, sampleVars, limitVars, currentVisibleObjects, visibleObjects,
                         discoveredObjects, existingObjects, processingChunks, loop, candidates,
                         kept>>
      BY <1>1 DEF StreamOut
    <2> QED BY <2>3, <2>4 DEF TypeOK, serverVars, sampleVars, limitVars
  <1>2. CASE SkipStreamed(p)
    <2>1. PICK d \in discoveredObjects[p] :
            discoveredObjects' = [discoveredObjects EXCEPT ![p] = @ \ {d}]
      BY <1>2 DEF SkipStreamed
    <2>2. discoveredObjects' \in [Players -> SUBSET Entries]
      BY <2>1 DEF TypeOK
    <2> QED BY <1>2, <2>2 DEF SkipStreamed, TypeOK, serverVars, sampleVars, limitVars, shownVars
  <1>3. CASE StreamIn(p)
    <2>1. PICK d \in discoveredObjects[p] :
            LET out == Evicted(p, d, WorstExisting(p))
            IN  /\ existingObjects' = [existingObjects EXCEPT ![p] = @ \ out]
                /\ \/ /\ CreateObject(p, d, out)
                      /\ discoveredObjects' = [discoveredObjects EXCEPT ![p] = @ \ {d}]
                   \/ /\ CancelStreaming(p, out)
                      /\ discoveredObjects' = [discoveredObjects EXCEPT ![p] = {}]
      BY <1>3 DEF StreamIn
    <2>2. d \in Entries
      BY DEF TypeOK
    <2>3. /\ internalObjects' \in [Players -> SUBSET Objects]
          /\ clientObjects' \in [Players -> [Objects -> Int]]
          /\ visibleObjects' \in [Players -> SUBSET Objects]
          /\ currentVisibleObjects' \in [Players -> Nat]
      BY <2>1, <2>2, CreationType
    <2>4. /\ existingObjects' \in [Players -> SUBSET Entries]
          /\ discoveredObjects' \in [Players -> SUBSET Entries]
      <3>1. existingObjects[p] \subseteq Entries /\ discoveredObjects[p] \subseteq Entries
        BY DEF TypeOK
      <3> QED BY <2>1, <3>1 DEF TypeOK
    <2> QED BY <1>3, <2>3, <2>4 DEF StreamIn, TypeOK, serverVars, sampleVars, limitVars
  <1>4. CASE EndStreamObjects(p)
    BY <1>4 DEF EndStreamObjects, TypeOK, Loops, Idle, serverVars, sampleVars, limitVars, shownVars
  <1>5. CASE ProcessObject(p)
    <2>1. PICK d \in candidates, out \in SUBSET kept :
            /\ kept' = kept \ out
            /\ \/ CreateObject(p, d, out) /\ candidates' = candidates \ {d}
               \/ CancelStreaming(p, out) /\ candidates' = {}
      <3>1. PICK d \in candidates,
                worst \in IF kept = {} THEN {{}} ELSE {{e} : e \in {k \in kept : SortedLast(k, kept)}} :
              /\ kept' = kept \ Evicted(p, d, worst)
              /\ \/ CreateObject(p, d, Evicted(p, d, worst)) /\ candidates' = candidates \ {d}
                 \/ CancelStreaming(p, Evicted(p, d, worst)) /\ candidates' = {}
        BY <1>5 DEF ProcessObject
      <3>2. Evicted(p, d, worst) \in SUBSET kept
        BY <3>1 DEF Evicted
      <3> QED BY <3>1, <3>2
    <2>2. d \in Entries
      BY DEF TypeOK
    <2>3. /\ internalObjects' \in [Players -> SUBSET Objects]
          /\ clientObjects' \in [Players -> [Objects -> Int]]
          /\ visibleObjects' \in [Players -> SUBSET Objects]
          /\ currentVisibleObjects' \in [Players -> Nat]
      BY <2>1, <2>2, CreationType
    <2> QED BY <1>5, <2>1, <2>3
         DEF ProcessObject, TypeOK, serverVars, sampleVars, limitVars, chunkVars
  <1>6. CASE EndProcessObjects(p)
    BY <1>6 DEF EndProcessObjects, TypeOK, Loops, Idle, serverVars, sampleVars, limitVars, shownVars,
                chunkVars
  <1> QED BY <1>1, <1>2, <1>3, <1>4, <1>5, <1>6 DEF StreamingStep

LEMMA SampleType ==
  ASSUME TypeOK, NEW p \in Players, NEW x \in Places, NEW w \in Worlds, Sample(p, x, w)
  PROVE  players' \subseteq Players /\ position' \in [Players -> Places] /\ worldId' \in [Players -> Worlds]
  BY DEF Sample, TypeOK

(* The updates and passes onTick gives a player.                           *)
LEMMA TickStepType ==
  ASSUME TypeOK, NEW p \in Players, TickStep(p)
  PROVE  TypeOK'
  <1>1. CASE StartChunkPass(p)
    BY <1>1, EnterType
       DEF StartChunkPass, TypeOK, serverVars, sampleVars, limitVars, chunkVars, shownVars
  <1>2. ASSUME NEW x \in Places, NEW w \in Worlds, AutomaticUpdate(p, x, w) PROVE TypeOK'
    <2>1. /\ players' \subseteq Players
          /\ position' \in [Players -> Places]
          /\ worldId' \in [Players -> Worlds]
      BY <1>2, SampleType DEF AutomaticUpdate
    <2>2. UNCHANGED <<serverVars, limitVars, currentVisibleObjects>>
      BY <1>2 DEF AutomaticUpdate
    <2>3. ASSUME NEW y \in Predicted(p, x) PROVE y \in Places
      BY DEF Predicted
    <2>4. CASE ~(enabledItems[p] /\ objects # {})
      BY <1>2, <2>1, <2>2, <2>4
         DEF AutomaticUpdate, TypeOK, serverVars, limitVars, chunkVars, shownVars, loopVars
    <2>5. CASE enabledItems[p] /\ objects # {} /\ chunkStreamingEnabled
      <3>1. PICK y \in Predicted(p, x) :
              DiscoverObjects(p, x, y, w, discoveredObjects[p], existingObjects[p], processingChunks[p])
        BY <1>2, <2>5 DEF AutomaticUpdate
      <3>2. /\ discoveredObjects[p] \in SUBSET Entries
            /\ existingObjects[p] \in SUBSET Entries
            /\ processingChunks[p] \in BOOLEAN
        BY DEF TypeOK
      <3>3. UNCHANGED <<internalObjects, clientObjects, loopVars>>
        BY <1>2, <2>5 DEF AutomaticUpdate
      <3>4. /\ visibleObjects' \in [Players -> SUBSET Objects]
            /\ discoveredObjects' \in [Players -> SUBSET Entries]
            /\ existingObjects' \in [Players -> SUBSET Entries]
            /\ removedObjects' \in [Players -> SUBSET Objects]
            /\ processingChunks' \in [Players -> BOOLEAN]
        <4>1. y \in Places
          BY <2>3
        <4> QED BY <3>1, <3>2, <4>1, DiscoverType
      <3> QED BY <2>1, <2>2, <3>3, <3>4 DEF TypeOK, serverVars, limitVars, loopVars
    <2>6. CASE enabledItems[p] /\ objects # {} /\ ~chunkStreamingEnabled
      <3>1. PICK y \in Predicted(p, x) : BeginProcessObjects(p, x, y, w) /\ UNCHANGED chunkVars
        BY <1>2, <2>6 DEF AutomaticUpdate
      <3>2. /\ internalObjects' \in [Players -> SUBSET Objects]
            /\ clientObjects' \in [Players -> [Objects -> Int]]
            /\ visibleObjects' \in [Players -> SUBSET Objects]
            /\ candidates' \in SUBSET Entries /\ kept' \in SUBSET Entries
            /\ loop' \in Loops /\ chunkCount' \in Nat
        BY <2>3, <3>1, BeginProcessType
      <3> QED BY <2>1, <2>2, <3>1, <3>2 DEF TypeOK, serverVars, limitVars, chunkVars
    <2> QED BY <2>4, <2>5, <2>6
  <1>3. ASSUME NEW w \in Worlds, IdleUpdate(p, w) PROVE TypeOK'
    BY <1>3 DEF IdleUpdate, Sample, TypeOK, serverVars, limitVars, chunkVars, shownVars, loopVars
  <1> QED BY <1>1, <1>2, <1>3 DEF TickStep

(* The natives that concern one player.                                    *)
LEMMA PlayerCallType ==
  ASSUME TypeOK, NEW p \in Players, PlayerCall(p)
  PROVE  TypeOK'
  <1>1. ASSUME NEW type, NEW x \in Places, NEW w \in Worlds, ManualUpdate(p, type, x, w)
        PROVE  TypeOK'
    <2> DEFINE own     == type \in {"updateObject", "updateAll"}
               enabled == type = "updateObject" \/ (type = "updateAll" /\ enabledItems[p])
               forget(queue) == IF own THEN {} ELSE queue
               pending == ~own /\ processingChunks[p]
    <2>1. /\ players' \subseteq Players
          /\ position' \in [Players -> Places]
          /\ worldId' \in [Players -> Worlds]
      BY <1>1, SampleType DEF ManualUpdate
    <2>2. UNCHANGED <<serverVars, limitVars, currentVisibleObjects>>
      BY <1>1 DEF ManualUpdate
    <2>3. CASE chunkStreamingEnabled
      <3>1. /\ visibleObjects' \in [Players -> SUBSET Objects]
            /\ discoveredObjects' \in [Players -> SUBSET Entries]
            /\ existingObjects' \in [Players -> SUBSET Entries]
            /\ removedObjects' \in [Players -> SUBSET Objects]
            /\ processingChunks' \in [Players -> BOOLEAN]
        <4>1. CASE enabled /\ objects # {}
          <5>1. DiscoverObjects(p, x, x, w, {}, {}, FALSE)
            BY <1>1, <2>3, <4>1 DEF ManualUpdate
          <5> QED BY <5>1, DiscoverType
        <4>2. CASE ~(enabled /\ objects # {})
          <5>1. /\ discoveredObjects' = [discoveredObjects EXCEPT ![p] = forget(@)]
                /\ existingObjects' = [existingObjects EXCEPT ![p] = forget(@)]
                /\ processingChunks' = [processingChunks EXCEPT ![p] = pending]
                /\ UNCHANGED <<removedObjects, visibleObjects>>
            BY <1>1, <2>3, <4>2 DEF ManualUpdate
          <5>2. pending \in BOOLEAN
            BY DEF TypeOK
          <5> QED BY <5>1, <5>2 DEF TypeOK
        <4> QED BY <4>1, <4>2
      <3>2. /\ loop' \in Loops /\ chunkCount' \in Nat
            /\ candidates' \in SUBSET Entries /\ kept' \in SUBSET Entries
        <4>1. CASE processingChunks'[p]
          <5>1. EnterStreamObjects(p, removedObjects'[p])
            BY <1>1, <2>3, <4>1 DEF ManualUpdate
          <5> QED BY <5>1, EnterType
        <4>2. CASE ~processingChunks'[p]
          BY <1>1, <2>3, <4>2 DEF ManualUpdate, TypeOK, loopVars
        <4> QED BY <4>1, <4>2
      <3>3. UNCHANGED <<internalObjects, clientObjects>>
        BY <1>1, <2>3 DEF ManualUpdate
      <3> QED BY <2>1, <2>2, <3>1, <3>2, <3>3 DEF TypeOK, serverVars, limitVars
    <2>4. CASE ~chunkStreamingEnabled
      <3>1. UNCHANGED chunkVars
        BY <1>1, <2>4 DEF ManualUpdate
      <3>2. CASE enabled /\ objects # {}
        <4>1. BeginProcessObjects(p, x, x, w)
          BY <1>1, <2>4, <3>2 DEF ManualUpdate
        <4> QED BY <2>1, <2>2, <3>1, <4>1, BeginProcessType DEF TypeOK, serverVars, limitVars, chunkVars
      <3>3. CASE ~(enabled /\ objects # {})
        <4>1. UNCHANGED <<shownVars, loopVars>>
          BY <1>1, <2>4, <3>3 DEF ManualUpdate
        <4> QED BY <2>1, <2>2, <3>1, <4>1
             DEF TypeOK, serverVars, limitVars, chunkVars, shownVars, loopVars
      <3> QED BY <3>2, <3>3
    <2> QED BY <2>3, <2>4
  <1>2. ASSUME NEW ids \in SUBSET internalObjects[p], DestroyAllVisibleItems(p, ids)
        PROVE  TypeOK'
    <2>1. Hidden(clientObjects[p], ids \cap internalObjects[p]) \in [Objects -> Int]
      BY CountsType DEF TypeOK
    <2>2. /\ internalObjects' \in [Players -> SUBSET Objects]
          /\ clientObjects' \in [Players -> [Objects -> Int]]
      BY <1>2, <2>1 DEF DestroyAllVisibleItems, TypeOK
    <2> QED BY <1>2, <2>2
         DEF DestroyAllVisibleItems, TypeOK, serverVars, sampleVars, limitVars, chunkVars, loopVars
  <1>3. CASE ToggleItemUpdate(p) \/ ToggleIdleUpdate(p)
    BY <1>3 DEF ToggleItemUpdate, ToggleIdleUpdate, TypeOK, serverVars, sampleVars, limitVars,
                chunkVars, shownVars, loopVars
  <1>4. ASSUME NEW n \in VisibleLimits, SetVisibleItems(p, n) PROVE TypeOK'
    <2>1. maxVisibleObjects' \in [Players -> Nat]
      BY <1>4, LimitAssumption DEF SetVisibleItems, TypeOK
    <2> QED BY <1>4, <2>1
         DEF SetVisibleItems, TypeOK, serverVars, sampleVars, limitVars, chunkVars, shownVars, loopVars
  <1> QED BY <1>1, <1>2, <1>3, <1>4 DEF PlayerCall

(* The natives that concern the server.                                    *)
LEMMA ServerCallType ==
  ASSUME TypeOK, ServerCall
  PROVE  TypeOK'
  <1>1. ASSUME NEW o \in Objects, NEW x \in ObjectPlaces[o],
               CreateDynamicObject(o, x) \/ SetDynamicObjectPos(o, x)
        PROVE  TypeOK'
    <2>1. x \in Places
      BY AttributeAssumption
    <2>2. objects' \subseteq Objects /\ place' \in [Objects -> Places]
      BY <1>1, <2>1 DEF CreateDynamicObject, SetDynamicObjectPos, TypeOK
    <2> QED BY <1>1, <2>2
         DEF CreateDynamicObject, SetDynamicObjectPos, TypeOK, sampleVars, limitVars, chunkVars,
             shownVars, loopVars
  <1>2. ASSUME NEW o \in Objects, DestroyDynamicObject(o) PROVE TypeOK'
    <2>1. objects' \subseteq Objects /\ place' \in [Objects -> Places]
      BY <1>2, PlacesAssumption DEF DestroyDynamicObject, TypeOK
    <2>2. /\ discoveredObjects' \in [Players -> SUBSET Entries]
          /\ existingObjects' \in [Players -> SUBSET Entries]
      BY <1>2 DEF DestroyDynamicObject, TypeOK, Without
    <2>3. clientObjects' \in [Players -> [Objects -> Int]]
      <3>1. ASSUME NEW p \in Players
            PROVE  Hidden(clientObjects[p], {o} \cap internalObjects[p]) \in [Objects -> Int]
        BY CountsType DEF TypeOK
      <3> QED BY <1>2, <3>1 DEF DestroyDynamicObject
    <2>4. /\ internalObjects' \in [Players -> SUBSET Objects]
          /\ removedObjects' \in [Players -> SUBSET Objects]
          /\ visibleObjects' \in [Players -> SUBSET Objects]
      BY <1>2 DEF DestroyDynamicObject, TypeOK
    <2> QED BY <1>2, <2>1, <2>2, <2>3, <2>4
         DEF DestroyDynamicObject, TypeOK, sampleVars, limitVars, loopVars
  <1>3. CASE ToggleChunkStream
    BY <1>3 DEF ToggleChunkStream, TypeOK, sampleVars, limitVars, chunkVars, shownVars, loopVars
  <1>4. ASSUME NEW n \in VisibleLimits, SetVisibleItemsForAll(n) PROVE TypeOK'
    <2>1. n \in Nat
      BY LimitAssumption
    <2>2. maxVisibleObjects' \in [Players -> Nat] /\ globalMaxVisible' \in Nat
      BY <1>4, <2>1 DEF SetVisibleItemsForAll, TypeOK
    <2> QED BY <1>4, <2>2
         DEF SetVisibleItemsForAll, TypeOK, sampleVars, chunkVars, shownVars, loopVars
  <1> QED BY <1>1, <1>2, <1>3, <1>4 DEF ServerCall

(* Players who come and go.                                                *)
LEMMA ComeAndGoType ==
  ASSUME TypeOK, NEW p \in Players, ComeAndGo(p)
  PROVE  TypeOK'
  <1>1. ASSUME NEW npc \in BOOLEAN, Connect(p, npc) PROVE TypeOK'
    BY <1>1 DEF Connect, TypeOK, serverVars, chunkVars, shownVars, loopVars
  <1>2. CASE Disconnect(p)
    <2>1. /\ players' \subseteq Players
          /\ position' \in [Players -> Places]
          /\ worldId' \in [Players -> Worlds]
          /\ updateWhenIdle' \in [Players -> BOOLEAN]
          /\ enabledItems' \in [Players -> BOOLEAN]
      BY <1>2, PlacesAssumption DEF Disconnect, TypeOK
    <2>2. /\ maxVisibleObjects' \in [Players -> Nat]
          /\ currentVisibleObjects' \in [Players -> Nat]
      BY <1>2, LimitAssumption DEF Disconnect, TypeOK
    <2>3. /\ internalObjects' \in [Players -> SUBSET Objects]
          /\ clientObjects' \in [Players -> [Objects -> Int]]
          /\ visibleObjects' \in [Players -> SUBSET Objects]
          /\ discoveredObjects' \in [Players -> SUBSET Entries]
          /\ existingObjects' \in [Players -> SUBSET Entries]
          /\ removedObjects' \in [Players -> SUBSET Objects]
          /\ processingChunks' \in [Players -> BOOLEAN]
      BY <1>2 DEF Disconnect, TypeOK
    <2> QED BY <1>2, <2>1, <2>2, <2>3 DEF Disconnect, TypeOK, serverVars, loopVars
  <1> QED BY <1>1, <1>2 DEF ComeAndGo

(* Every variable keeps its type, whatever is called and in which order.   *)
THEOREM TypeCorrect == Spec => []TypeOK
  <1>1. Init => TypeOK
    BY PlacesAssumption, LimitAssumption DEF Init, TypeOK, Loops
  <1>2. TypeOK /\ [Next]_vars => TypeOK'
    <2> SUFFICES ASSUME TypeOK, [Next]_vars PROVE TypeOK'
      OBVIOUS
    <2>1. CASE Next
      BY <2>1, StreamingStepType, TickStepType, PlayerCallType, ServerCallType, ComeAndGoType DEF Next
    <2>2. CASE UNCHANGED vars
      BY <2>2 DEF TypeOK, vars, serverVars, sampleVars, limitVars, chunkVars, shownVars, loopVars
    <2> QED BY <2>1, <2>2
  <1> QED BY <1>1, <1>2, PTL DEF Spec

-----------------------------------------------------------------------------
(* What the steps do to the bookkeeping, in the terms the invariants need. *)

(* What an update does: it discovers for the chunk streamer, begins to     *)
(* stream at once, or at most forgets what was queued.                     *)
UpdateOutcome(p, x, w) ==
  \/ /\ \E y \in Places,
           discovered \in {discoveredObjects[p], {}},
           existing \in {existingObjects[p], {}},
           pending \in {processingChunks[p], FALSE} :
           DiscoverObjects(p, x, y, w, discovered, existing, pending)
     /\ UNCHANGED <<internalObjects, clientObjects, candidates, kept>>
     /\ loop' = Idle \/ (loop'.kind # "process" /\ loop'.player = p)
  \/ /\ \E y \in Places : BeginProcessObjects(p, x, y, w)
     /\ UNCHANGED chunkVars
  \/ /\ UNCHANGED <<shownVars, removedObjects, candidates, kept>>
     /\ loop' = Idle \/ (loop'.kind # "process" /\ loop'.player = p)
     /\ \A q \in Players :
          /\ discoveredObjects'[q] \subseteq discoveredObjects[q]
          /\ existingObjects'[q] \subseteq existingObjects[q]
          /\ discoveredObjects'[q] = {} \/ processingChunks'[q] = processingChunks[q]

(* Nothing else happens in an update, automatic or manual.                 *)
LEMMA UpdateEffect ==
  ASSUME TypeOK, NEW p \in Players, NEW x \in Places, NEW w \in Worlds, NEW type,
         AutomaticUpdate(p, x, w) \/ ManualUpdate(p, type, x, w)
  PROVE  /\ loop = Idle /\ p \in players
         /\ UNCHANGED <<serverVars, players, limitVars, currentVisibleObjects>>
         /\ UpdateOutcome(p, x, w)
  <1>1. CASE AutomaticUpdate(p, x, w)
    <2>1. /\ loop = Idle /\ p \in players
          /\ UNCHANGED <<serverVars, players, limitVars, currentVisibleObjects>>
      BY <1>1 DEF AutomaticUpdate, Due, Sample
    <2>2. CASE ~(enabledItems[p] /\ objects # {})
      <3>1. UNCHANGED <<chunkVars, shownVars, loopVars>>
        BY <1>1, <2>2 DEF AutomaticUpdate
      <3> QED BY <2>1, <3>1 DEF UpdateOutcome, chunkVars, loopVars
    <2>3. CASE enabledItems[p] /\ objects # {} /\ chunkStreamingEnabled
      <3>1. PICK y \in Predicted(p, x) :
              DiscoverObjects(p, x, y, w, discoveredObjects[p], existingObjects[p], processingChunks[p])
        BY <1>1, <2>3 DEF AutomaticUpdate
      <3>2. UNCHANGED <<internalObjects, clientObjects, loopVars>>
        BY <1>1, <2>3 DEF AutomaticUpdate
      <3>3. y \in Places
        BY DEF Predicted
      <3> QED BY <2>1, <3>1, <3>2, <3>3 DEF UpdateOutcome, loopVars
    <2>4. CASE enabledItems[p] /\ objects # {} /\ ~chunkStreamingEnabled
      <3>1. PICK y \in Predicted(p, x) : BeginProcessObjects(p, x, y, w) /\ UNCHANGED chunkVars
        BY <1>1, <2>4 DEF AutomaticUpdate
      <3>2. y \in Places
        BY DEF Predicted
      <3> QED BY <2>1, <3>1, <3>2 DEF UpdateOutcome
    <2> QED BY <2>2, <2>3, <2>4
  <1>2. CASE ManualUpdate(p, type, x, w)
    <2> DEFINE own     == type \in {"updateObject", "updateAll"}
               enabled == type = "updateObject" \/ (type = "updateAll" /\ enabledItems[p])
               forget(queue) == IF own THEN {} ELSE queue
               pending == ~own /\ processingChunks[p]
    <2>1. /\ loop = Idle /\ p \in players
          /\ UNCHANGED <<serverVars, players, limitVars, currentVisibleObjects>>
      BY <1>2 DEF ManualUpdate, Sample
    <2>2. CASE chunkStreamingEnabled
      <3>1. /\ UNCHANGED <<internalObjects, clientObjects, candidates, kept>>
            /\ loop' = Idle \/ (loop'.kind # "process" /\ loop'.player = p)
        <4>1. UNCHANGED <<internalObjects, clientObjects>>
          BY <1>2, <2>2 DEF ManualUpdate
        <4>2. CASE processingChunks'[p]
          <5>1. EnterStreamObjects(p, removedObjects'[p])
            BY <1>2, <2>2, <4>2 DEF ManualUpdate
          <5> QED BY <4>1, <5>1 DEF EnterStreamObjects
        <4>3. CASE ~processingChunks'[p]
          <5>1. UNCHANGED loopVars
            BY <1>2, <2>2, <4>3 DEF ManualUpdate
          <5> QED BY <2>1, <4>1, <5>1 DEF loopVars
        <4> QED BY <4>2, <4>3
      <3>2. CASE enabled /\ objects # {}
        <4>1. DiscoverObjects(p, x, x, w, {}, {}, FALSE)
          BY <1>2, <2>2, <3>2 DEF ManualUpdate
        <4> QED BY <2>1, <3>1, <4>1 DEF UpdateOutcome
      <3>3. CASE ~(enabled /\ objects # {})
        <4>1. /\ discoveredObjects' = [discoveredObjects EXCEPT ![p] = forget(@)]
              /\ existingObjects' = [existingObjects EXCEPT ![p] = forget(@)]
              /\ processingChunks' = [processingChunks EXCEPT ![p] = pending]
              /\ UNCHANGED <<removedObjects, visibleObjects>>
          BY <1>2, <2>2, <3>3 DEF ManualUpdate
        <4>2. processingChunks[p] \in BOOLEAN
          BY DEF TypeOK
        <4>3. discoveredObjects'[p] = {} \/ processingChunks'[p] = processingChunks[p]
          BY <4>1, <4>2 DEF TypeOK
        <4>4. \A q \in Players :
                /\ discoveredObjects'[q] \subseteq discoveredObjects[q]
                /\ existingObjects'[q] \subseteq existingObjects[q]
                /\ discoveredObjects'[q] = {} \/ processingChunks'[q] = processingChunks[q]
          BY <4>1, <4>3 DEF TypeOK
        <4>5. UNCHANGED <<shownVars, removedObjects, candidates, kept>>
          BY <3>1, <4>1 DEF shownVars
        <4> QED BY <2>1, <3>1, <4>4, <4>5 DEF UpdateOutcome
      <3> QED BY <3>2, <3>3
    <2>3. CASE ~chunkStreamingEnabled
      <3>1. UNCHANGED chunkVars
        BY <1>2, <2>3 DEF ManualUpdate
      <3>2. CASE enabled /\ objects # {}
        <4>1. BeginProcessObjects(p, x, x, w)
          BY <1>2, <2>3, <3>2 DEF ManualUpdate
        <4> QED BY <2>1, <3>1, <4>1 DEF UpdateOutcome
      <3>3. CASE ~(enabled /\ objects # {})
        <4>1. UNCHANGED <<shownVars, loopVars>>
          BY <1>2, <2>3, <3>3 DEF ManualUpdate
        <4> QED BY <2>1, <3>1, <4>1 DEF UpdateOutcome, chunkVars, loopVars
      <3> QED BY <3>2, <3>3
    <2> QED BY <2>2, <2>3
  <1> QED BY <1>1, <1>2

(* The natives that touch neither the queues nor the client.               *)
Aside ==
  \/ \E p \in Players : ToggleItemUpdate(p) \/ ToggleIdleUpdate(p)
  \/ \E p \in Players, n \in VisibleLimits : "setVisible" \in Calls /\ SetVisibleItems(p, n)
  \/ \E n \in VisibleLimits : "setVisible" \in Calls /\ SetVisibleItemsForAll(n)
  \/ ToggleChunkStream
  \/ \E o \in Objects : \E x \in ObjectPlaces[o] :
       CreateDynamicObject(o, x) \/ SetDynamicObjectPos(o, x)
  \/ \E p \in Players, w \in Worlds : IdleUpdate(p, w)
  \/ UNCHANGED vars

LEMMA AsideEffect ==
  ASSUME Aside
  PROVE  /\ UNCHANGED <<players, currentVisibleObjects, chunkVars, shownVars, loopVars>>
         /\ objects \subseteq objects'
         /\ "setVisible" \in Calls \/ UNCHANGED maxVisibleObjects
  <1>1. CASE UNCHANGED vars
    BY <1>1 DEF vars, serverVars, sampleVars, limitVars
  <1>2. ASSUME NEW o \in Objects, NEW x \in ObjectPlaces[o],
               CreateDynamicObject(o, x) \/ SetDynamicObjectPos(o, x)
        PROVE  /\ UNCHANGED <<players, currentVisibleObjects, chunkVars, shownVars, loopVars>>
               /\ objects \subseteq objects'
               /\ UNCHANGED maxVisibleObjects
    BY <1>2 DEF CreateDynamicObject, SetDynamicObjectPos, sampleVars, limitVars
  <1>3. CASE \E p \in Players : ToggleItemUpdate(p) \/ ToggleIdleUpdate(p)
    BY <1>3 DEF ToggleItemUpdate, ToggleIdleUpdate, serverVars, sampleVars
  <1>4. CASE \/ \E p \in Players, n \in VisibleLimits : "setVisible" \in Calls /\ SetVisibleItems(p, n)
             \/ \E n \in VisibleLimits : "setVisible" \in Calls /\ SetVisibleItemsForAll(n)
    BY <1>4 DEF SetVisibleItems, SetVisibleItemsForAll, serverVars, sampleVars
  <1>5. CASE ToggleChunkStream
    BY <1>5 DEF ToggleChunkStream, sampleVars, limitVars
  <1>6. CASE \E p \in Players, w \in Worlds : IdleUpdate(p, w)
    BY <1>6 DEF IdleUpdate, Sample, serverVars, limitVars
  <1> QED BY <1>1, <1>2, <1>3, <1>4, <1>5, <1>6 DEF Aside

(* Every step is one of these.                                             *)
LEMMA StepCases ==
  ASSUME [Next]_vars
  PROVE  \/ \E p \in Players :
              StreamOut(p) \/ SkipStreamed(p) \/ EndStreamObjects(p) \/ EndProcessObjects(p)
         \/ \E p \in Players : StreamIn(p) \/ ProcessObject(p)
         \/ \E p \in Players : StartChunkPass(p)
         \/ \E p \in Players, x \in Places, w \in Worlds :
              AutomaticUpdate(p, x, w) \/ \E type \in UpdateTypes : ManualUpdate(p, type, x, w)
         \/ \E p \in Players : \E ids \in SUBSET internalObjects[p] : DestroyAllVisibleItems(p, ids)
         \/ \E o \in Objects : DestroyDynamicObject(o)
         \/ \E p \in Players : (\E npc \in BOOLEAN : Connect(p, npc)) \/ Disconnect(p)
         \/ Aside
  BY DEF Next, StreamingStep, TickStep, PlayerCall, ServerCall, ComeAndGo, Aside

-----------------------------------------------------------------------------
(* LoopIsSound.                                                            *)

LEMMA BeginProcessLoop ==
  ASSUME TypeOK, NEW p \in players, NEW x \in Places, NEW y \in Places, NEW w \in Worlds,
         LoopIsSound, BeginProcessObjects(p, x, y, w), UNCHANGED <<objects, players>>
  PROVE  LoopIsSound'
  <1> DEFINE inRange == {o \in Examined(p, x) : InRange(y, w, o)}
  <1>1. /\ loop' = [kind |-> "process", player |-> p]
        /\ candidates' = EntriesOf(y, NotStreamed(p, inRange))
        /\ \E out : internalObjects' = [internalObjects EXCEPT ![p] = @ \ out]
    BY DEF BeginProcessObjects
  <1>2. p \in Players /\ \A q \in Players : internalObjects'[q] \subseteq internalObjects[q]
    BY <1>1 DEF TypeOK
  <1>3. Ids(candidates') \subseteq objects \ internalObjects[p]
    BY <1>1 DEF Ids, EntriesOf, NotStreamed, Examined
  <1>4. \A a, b \in candidates' : a.id = b.id => a = b
    <2> SUFFICES ASSUME NEW a \in candidates', NEW b \in candidates', a.id = b.id PROVE a = b
      OBVIOUS
    <2>1. PICK o1 : a = [id |-> o1, distance |-> Distance(y, o1)]
      BY <1>1 DEF EntriesOf
    <2>2. PICK o2 : b = [id |-> o2, distance |-> Distance(y, o2)]
      BY <1>1 DEF EntriesOf
    <2>3. o1 = o2
      BY <2>1, <2>2
    <2> QED BY <2>1, <2>2, <2>3
  <1>5. \A q \in Players \ players : internalObjects'[q] = {}
    BY <1>2 DEF LoopIsSound
  <1> QED BY <1>1, <1>2, <1>3, <1>4, <1>5 DEF LoopIsSound

LEMMA LoopIsSoundStep ==
  ASSUME TypeOK, LoopIsSound, [Next]_vars
  PROVE  LoopIsSound'
  <1>1. ASSUME NEW p \in Players,
               StreamOut(p) \/ SkipStreamed(p) \/ EndStreamObjects(p) \/ EndProcessObjects(p)
        PROVE  LoopIsSound'
    <2>1. \/ loop' = Idle
          \/ loop' = loop /\ loop.kind # "process"
      BY <1>1 DEF StreamOut, SkipStreamed, EndStreamObjects, EndProcessObjects
    <2>2. /\ UNCHANGED players
          /\ \A q \in Players : internalObjects'[q] \subseteq internalObjects[q]
      <3>1. CASE StreamOut(p)
        <4>1. PICK o : internalObjects' = [internalObjects EXCEPT ![p] = @ \ {o}]
          BY <3>1 DEF StreamOut
        <4> QED BY <3>1, <4>1 DEF StreamOut, sampleVars, TypeOK
      <3>2. CASE ~StreamOut(p)
        BY <1>1, <3>2 DEF SkipStreamed, EndStreamObjects, EndProcessObjects, sampleVars, shownVars
      <3> QED BY <3>1, <3>2
    <2> QED BY <2>1, <2>2 DEF LoopIsSound, Idle
  <1>2. ASSUME NEW p \in Players, StreamIn(p) \/ ProcessObject(p)
        PROVE  LoopIsSound'
    <2>1. PICK d \in Entries :
            /\ \E out : CreateObject(p, d, out) \/ CancelStreaming(p, out)
            /\ loop.kind = "process" => d \in candidates /\ candidates' \subseteq candidates \ {d}
      <3>1. CASE StreamIn(p)
        <4>1. loop.kind # "process"
          BY <3>1 DEF StreamIn
        <4>2. PICK d \in discoveredObjects[p] :
                \/ CreateObject(p, d, Evicted(p, d, WorstExisting(p)))
                \/ CancelStreaming(p, Evicted(p, d, WorstExisting(p)))
          BY <3>1 DEF StreamIn
        <4>3. d \in Entries
          BY DEF TypeOK
        <4> QED BY <4>1, <4>2, <4>3
      <3>2. CASE ProcessObject(p)
        <4>1. PICK d \in candidates :
                \E worst :
                  \/ CreateObject(p, d, Evicted(p, d, worst)) /\ candidates' = candidates \ {d}
                  \/ CancelStreaming(p, Evicted(p, d, worst)) /\ candidates' = {}
          BY <3>2 DEF ProcessObject
        <4>2. d \in Entries
          BY DEF TypeOK
        <4> QED BY <4>1, <4>2
      <3> QED BY <1>2, <3>1, <3>2
    <2>2. /\ UNCHANGED <<loop, players, objects>>
          /\ loop # Idle /\ loop.player = p
      BY <1>2 DEF StreamIn, ProcessObject, serverVars, sampleVars, Idle
    <2>3. /\ internalObjects'[p] \subseteq internalObjects[p] \cup {d.id}
          /\ \A q \in Players \ {p} : internalObjects'[q] = internalObjects[q]
      BY <2>1 DEF CreateObject, CancelStreaming, Remaining, TypeOK
    <2>4. p \in players
      BY <2>2 DEF LoopIsSound
    <2>5. ASSUME loop.kind = "process"
          PROVE  /\ Ids(candidates') \subseteq objects' \ internalObjects'[p]
                 /\ \A a, b \in candidates' : a.id = b.id => a = b
      <3>1. d \in candidates /\ candidates' \subseteq candidates \ {d}
        BY <2>1, <2>5
      <3>2. /\ Ids(candidates) \subseteq objects \ internalObjects[p]
            /\ \A a, b \in candidates : a.id = b.id => a = b
        BY <2>2, <2>5 DEF LoopIsSound
      <3>3. d.id \notin Ids(candidates')
        BY <3>1, <3>2 DEF Ids
      <3>4. Ids(candidates') \subseteq Ids(candidates)
        BY <3>1 DEF Ids
      <3> QED BY <2>2, <2>3, <3>1, <3>2, <3>3, <3>4
    <2> QED BY <2>2, <2>3, <2>4, <2>5 DEF LoopIsSound
  <1>3. ASSUME NEW p \in Players, StartChunkPass(p) PROVE LoopIsSound'
    BY <1>3 DEF StartChunkPass, EnterStreamObjects, LoopIsSound, sampleVars, shownVars, Idle
  <1>4. ASSUME NEW p \in Players, NEW x \in Places, NEW w \in Worlds, NEW type,
               AutomaticUpdate(p, x, w) \/ ManualUpdate(p, type, x, w)
        PROVE  LoopIsSound'
    <2>1. p \in players /\ UNCHANGED <<players, objects>>
      BY <1>4, UpdateEffect DEF serverVars
    <2>2. CASE \E y \in Places : BeginProcessObjects(p, x, y, w)
      BY <2>1, <2>2, BeginProcessLoop
    <2>3. CASE ~\E y \in Places : BeginProcessObjects(p, x, y, w)
      <3>1. /\ UNCHANGED internalObjects
            /\ loop' = Idle \/ (loop'.kind # "process" /\ loop'.player = p)
        BY <1>4, <2>3, UpdateEffect DEF UpdateOutcome, shownVars
      <3> QED BY <2>1, <3>1 DEF LoopIsSound, Idle
    <2> QED BY <2>2, <2>3
  <1>5. ASSUME NEW p \in Players, NEW ids, DestroyAllVisibleItems(p, ids) PROVE LoopIsSound'
    BY <1>5 DEF DestroyAllVisibleItems, LoopIsSound, sampleVars, loopVars, Idle, TypeOK
  <1>6. ASSUME NEW o \in Objects, DestroyDynamicObject(o) PROVE LoopIsSound'
    BY <1>6 DEF DestroyDynamicObject, LoopIsSound, sampleVars, loopVars, Idle, TypeOK
  <1>7. ASSUME NEW p \in Players, (\E npc \in BOOLEAN : Connect(p, npc)) \/ Disconnect(p)
        PROVE  LoopIsSound'
    <2>1. /\ loop = Idle /\ loop' = Idle
          /\ \A q \in Players : internalObjects'[q] \in {internalObjects[q], {}}
          /\ \A q \in Players \ {p} : q \in players' <=> q \in players
          /\ p \notin players' => internalObjects'[p] = {}
      BY <1>7 DEF Connect, Disconnect, shownVars, loopVars, TypeOK
    <2> QED BY <2>1 DEF LoopIsSound, Idle
  <1>8. CASE Aside
    BY <1>8, AsideEffect DEF LoopIsSound, shownVars, loopVars
  <1> QED BY <1>1, <1>2, <1>3, <1>4, <1>5, <1>6, <1>7, <1>8, StepCases

(* The loops stream for connected players and what they are about to       *)
(* create exists and is not yet on the client.                             *)
THEOREM LoopsAreSound == Spec => []LoopIsSound
  <1>1. Init => LoopIsSound
    BY DEF Init, LoopIsSound, Idle
  <1>2. TypeOK /\ LoopIsSound /\ [Next]_vars => LoopIsSound'
    BY LoopIsSoundStep
  <1> QED BY <1>1, <1>2, TypeCorrect, PTL DEF Spec

-----------------------------------------------------------------------------
(* NoTraceOfDestroyed.                                                     *)

(* An attempt to create an object is for one that is not on the client,    *)
(* taken from a queue; the queues only shrink.                             *)
LEMMA AttemptEffect ==
  ASSUME TypeOK, LoopIsSound, NEW p \in Players, StreamIn(p) \/ ProcessObject(p)
  PROVE  \E d \in Entries, out \in SUBSET Entries :
           /\ d.id \notin internalObjects[p]
           /\ d \in discoveredObjects[p] \/ d.id \in objects
           /\ CreateObject(p, d, out) \/ CancelStreaming(p, out)
           /\ UNCHANGED <<serverVars, players, limitVars, removedObjects, processingChunks>>
           /\ \A q \in Players : /\ discoveredObjects'[q] \subseteq discoveredObjects[q]
                                 /\ existingObjects'[q] \subseteq existingObjects[q]
  <1>1. CASE StreamIn(p)
    <2> DEFINE out(d) == Evicted(p, d, WorstExisting(p))
    <2>1. PICK d \in discoveredObjects[p] :
            /\ ~OnClient(p, d)
            /\ existingObjects' = [existingObjects EXCEPT ![p] = @ \ out(d)]
            /\ \/ /\ CreateObject(p, d, out(d))
                  /\ discoveredObjects' = [discoveredObjects EXCEPT ![p] = @ \ {d}]
               \/ /\ CancelStreaming(p, out(d))
                  /\ discoveredObjects' = [discoveredObjects EXCEPT ![p] = {}]
      BY <1>1 DEF StreamIn
    <2>2. d \in Entries /\ out(d) \in SUBSET Entries
      BY DEF TypeOK, Evicted, WorstExisting
    <2>3. d.id \notin internalObjects[p]
      BY <2>1 DEF OnClient
    <2>4. \A q \in Players : /\ discoveredObjects'[q] \subseteq discoveredObjects[q]
                             /\ existingObjects'[q] \subseteq existingObjects[q]
      BY <2>1 DEF TypeOK
    <2>5. UNCHANGED <<serverVars, players, limitVars, removedObjects, processingChunks>>
      BY <1>1 DEF StreamIn, sampleVars
    <2> QED BY <2>1, <2>2, <2>3, <2>4, <2>5
  <1>2. CASE ProcessObject(p)
    <2>1. PICK d \in candidates,
              worst \in IF kept = {} THEN {{}} ELSE {{e} : e \in {k \in kept : SortedLast(k, kept)}} :
            CreateObject(p, d, Evicted(p, d, worst)) \/ CancelStreaming(p, Evicted(p, d, worst))
      BY <1>2 DEF ProcessObject
    <2>2. d \in Entries /\ Evicted(p, d, worst) \in SUBSET Entries
      <3>1. worst \in SUBSET kept
        BY <2>1
      <3> QED BY <3>1 DEF TypeOK, Evicted
    <2>3. d.id \in objects \ internalObjects[p]
      BY <1>2 DEF LoopIsSound, ProcessObject, Ids
    <2>4. UNCHANGED <<serverVars, players, limitVars, chunkVars>>
      BY <1>2 DEF ProcessObject, sampleVars
    <2> QED BY <2>1, <2>2, <2>3, <2>4 DEF chunkVars
  <1> QED BY <1>1, <1>2

LEMMA IdsMonotone ==
  ASSUME NEW a, NEW b, a \subseteq b
  PROVE  Ids(a) \subseteq Ids(b)
  BY DEF Ids

LEMMA IdsOfQueue ==
  ASSUME NEW entries, NEW y, NEW ids
  PROVE  Ids(InsertOrAssign(entries, y, ids)) \subseteq Ids(entries) \cup ids
  BY DEF Ids, InsertOrAssign, EntriesOf

LEMMA NoTraceStep ==
  ASSUME TypeOK, LoopIsSound, NoTraceOfDestroyed, [Next]_vars
  PROVE  NoTraceOfDestroyed'
  <1> DEFINE Clean(internal, discovered, existing, removed, visible, all) ==
        /\ internal \subseteq all /\ removed \subseteq all /\ visible \subseteq all
        /\ Ids(discovered) \subseteq all /\ Ids(existing) \subseteq all
  <1>0. ASSUME objects \subseteq objects',
               \A q \in Players :
                 /\ internalObjects'[q] \subseteq internalObjects[q]
                 /\ removedObjects'[q] \subseteq removedObjects[q]
                 /\ visibleObjects'[q] \subseteq visibleObjects[q]
                 /\ discoveredObjects'[q] \subseteq discoveredObjects[q]
                 /\ existingObjects'[q] \subseteq existingObjects[q]
        PROVE  NoTraceOfDestroyed'
    BY <1>0 DEF NoTraceOfDestroyed, Ids
  <1>1. ASSUME NEW p \in Players,
               StreamOut(p) \/ SkipStreamed(p) \/ EndStreamObjects(p) \/ EndProcessObjects(p)
        PROVE  NoTraceOfDestroyed'
    <2>1. CASE StreamOut(p)
      <3>1. PICK o : /\ internalObjects' = [internalObjects EXCEPT ![p] = @ \ {o}]
                     /\ removedObjects' = [removedObjects EXCEPT ![p] = @ \ {o}]
        BY <2>1 DEF StreamOut
      <3>2. UNCHANGED <<objects, visibleObjects, discoveredObjects, existingObjects>>
        BY <2>1 DEF StreamOut, serverVars
      <3> QED BY <1>0, <3>1, <3>2 DEF TypeOK
    <2>2. CASE SkipStreamed(p)
      <3>1. PICK d : discoveredObjects' = [discoveredObjects EXCEPT ![p] = @ \ {d}]
        BY <2>2 DEF SkipStreamed
      <3>2. UNCHANGED <<objects, shownVars, existingObjects, removedObjects>>
        BY <2>2 DEF SkipStreamed, serverVars
      <3> QED BY <1>0, <3>1, <3>2 DEF TypeOK, shownVars
    <2>3. CASE EndStreamObjects(p)
      <3>1. /\ existingObjects' = [existingObjects EXCEPT ![p] = IF Drained(p) THEN {} ELSE @]
            /\ UNCHANGED <<objects, shownVars, discoveredObjects, removedObjects>>
        BY <2>3 DEF EndStreamObjects, serverVars
      <3> QED BY <1>0, <3>1 DEF TypeOK, shownVars
    <2>4. CASE EndProcessObjects(p)
      <3>1. UNCHANGED <<objects, shownVars, chunkVars>>
        BY <2>4 DEF EndProcessObjects, serverVars
      <3> QED BY <1>0, <3>1 DEF chunkVars, shownVars
    <2> QED BY <1>1, <2>1, <2>2, <2>3, <2>4
  <1>2. ASSUME NEW p \in Players, StreamIn(p) \/ ProcessObject(p)
        PROVE  NoTraceOfDestroyed'
    <2>1. PICK d \in Entries, out \in SUBSET Entries :
            /\ d \in discoveredObjects[p] \/ d.id \in objects
            /\ CreateObject(p, d, out) \/ CancelStreaming(p, out)
            /\ UNCHANGED <<serverVars, removedObjects>>
            /\ \A q \in Players : /\ discoveredObjects'[q] \subseteq discoveredObjects[q]
                                  /\ existingObjects'[q] \subseteq existingObjects[q]
      BY <1>2, AttemptEffect
    <2>2. d.id \in objects
      BY <2>1 DEF NoTraceOfDestroyed, Ids
    <2>3. \A q \in Players : /\ internalObjects'[q] \subseteq internalObjects[q] \cup {d.id}
                             /\ visibleObjects'[q] \subseteq visibleObjects[q] \cup {d.id}
      <3>1. CASE CreateObject(p, d, out)
        <4>1. /\ internalObjects' = [internalObjects EXCEPT ![p] = Remaining(p, out) \cup {d.id}]
              /\ visibleObjects' = [visibleObjects EXCEPT
                    ![p] = (@ \ Ids(out)) \cup InVisibleCell({d.id})]
          BY <3>1 DEF CreateObject
        <4>2. /\ Remaining(p, out) \subseteq internalObjects[p]
              /\ InVisibleCell({d.id}) \subseteq {d.id}
          BY DEF Remaining, InVisibleCell
        <4> QED BY <4>1, <4>2 DEF TypeOK
      <3>2. CASE CancelStreaming(p, out)
        BY <3>2 DEF CancelStreaming, Remaining, TypeOK
      <3> QED BY <2>1, <3>1, <3>2
    <2>4. \A q \in Players : /\ Ids(discoveredObjects'[q]) \subseteq Ids(discoveredObjects[q])
                             /\ Ids(existingObjects'[q]) \subseteq Ids(existingObjects[q])
      BY <2>1, IdsMonotone
    <2> QED BY <2>1, <2>2, <2>3, <2>4 DEF NoTraceOfDestroyed, serverVars
  <1>3. ASSUME NEW p \in Players, StartChunkPass(p) PROVE NoTraceOfDestroyed'
    BY <1>0, <1>3 DEF StartChunkPass, serverVars, chunkVars, shownVars
  <1>4. ASSUME NEW p \in Players, NEW x \in Places, NEW w \in Worlds, NEW type,
               AutomaticUpdate(p, x, w) \/ ManualUpdate(p, type, x, w)
        PROVE  NoTraceOfDestroyed'
    <2>0. UNCHANGED objects
      BY <1>4, UpdateEffect DEF serverVars
    <2>1. ASSUME NEW y \in Places, NEW discovered \in {discoveredObjects[p], {}},
                 NEW existing \in {existingObjects[p], {}}, NEW pending,
                 DiscoverObjects(p, x, y, w, discovered, existing, pending),
                 UNCHANGED internalObjects
          PROVE  NoTraceOfDestroyed'
      <3> DEFINE seen == Examined(p, x)
                 inRange == {o \in seen : InRange(y, w, o)}
                 on == internalObjects[p]
      <3>1. seen \subseteq objects
        BY DEF Examined
      <3>2. Ids(discovered) \subseteq objects /\ Ids(existing) \subseteq objects
        BY DEF NoTraceOfDestroyed, Ids
      <3>3. /\ Ids(InsertOrAssign(discovered, y, NotStreamed(p, inRange))) \subseteq objects
            /\ Ids(InsertOrAssign(existing, y, inRange \cap on)) \subseteq objects
        BY <3>1, <3>2, IdsOfQueue DEF NotStreamed
      <3>4. /\ visibleObjects'[p] \subseteq objects
            /\ removedObjects'[p] \subseteq objects
            /\ Ids(discoveredObjects'[p]) \subseteq objects
            /\ Ids(existingObjects'[p]) \subseteq objects
        BY <2>1, <3>1, <3>3 DEF DiscoverObjects, InVisibleCell, NoTraceOfDestroyed, TypeOK
      <3>5. \A q \in Players \ {p} : /\ visibleObjects'[q] = visibleObjects[q]
                                     /\ removedObjects'[q] = removedObjects[q]
                                     /\ discoveredObjects'[q] = discoveredObjects[q]
                                     /\ existingObjects'[q] = existingObjects[q]
        BY <2>1 DEF DiscoverObjects, TypeOK
      <3> QED BY <2>0, <2>1, <3>4, <3>5 DEF NoTraceOfDestroyed
    <2>2. ASSUME NEW y \in Places, BeginProcessObjects(p, x, y, w), UNCHANGED chunkVars
          PROVE  NoTraceOfDestroyed'
      <3>1. visibleObjects'[p] \subseteq objects
        BY <2>2 DEF BeginProcessObjects, InVisibleCell, Examined, TypeOK
      <3>2. /\ \A q \in Players : internalObjects'[q] \subseteq internalObjects[q]
            /\ \A q \in Players \ {p} : visibleObjects'[q] = visibleObjects[q]
        BY <2>2 DEF BeginProcessObjects, TypeOK
      <3> QED BY <2>0, <2>2, <3>1, <3>2 DEF NoTraceOfDestroyed, chunkVars
    <2>3. ASSUME UNCHANGED <<shownVars, removedObjects>>,
                 \A q \in Players : /\ discoveredObjects'[q] \subseteq discoveredObjects[q]
                                   /\ existingObjects'[q] \subseteq existingObjects[q]
          PROVE  NoTraceOfDestroyed'
      BY <1>0, <2>0, <2>3 DEF shownVars
    <2>4. UpdateOutcome(p, x, w)
      BY <1>4, UpdateEffect
    <2>5. CASE /\ \E y \in Places, discovered \in {discoveredObjects[p], {}},
                      existing \in {existingObjects[p], {}}, pending \in {processingChunks[p], FALSE} :
                      DiscoverObjects(p, x, y, w, discovered, existing, pending)
               /\ UNCHANGED internalObjects
      BY <2>1, <2>5
    <2>6. CASE (\E y \in Places : BeginProcessObjects(p, x, y, w)) /\ UNCHANGED chunkVars
      BY <2>2, <2>6
    <2>7. CASE /\ UNCHANGED <<shownVars, removedObjects>>
               /\ \A q \in Players : /\ discoveredObjects'[q] \subseteq discoveredObjects[q]
                                     /\ existingObjects'[q] \subseteq existingObjects[q]
      BY <2>3, <2>7
    <2> QED BY <2>4, <2>5, <2>6, <2>7 DEF UpdateOutcome
  <1>5. ASSUME NEW p \in Players, NEW ids, DestroyAllVisibleItems(p, ids) PROVE NoTraceOfDestroyed'
    <2>1. /\ internalObjects' = [internalObjects EXCEPT ![p] = @ \ ids]
          /\ UNCHANGED <<objects, visibleObjects, chunkVars>>
      BY <1>5 DEF DestroyAllVisibleItems, serverVars
    <2> QED BY <1>0, <2>1 DEF TypeOK, chunkVars
  <1>6. ASSUME NEW o \in Objects, DestroyDynamicObject(o) PROVE NoTraceOfDestroyed'
    <2>1. SUFFICES ASSUME NEW q \in Players
                   PROVE  Clean(internalObjects'[q], discoveredObjects'[q], existingObjects'[q],
                                removedObjects'[q], visibleObjects'[q], objects \ {o})
      BY <1>6 DEF NoTraceOfDestroyed, DestroyDynamicObject
    <2>2. \A entries : Ids(Without(entries, o)) = Ids(entries) \ {o}
      BY DEF Ids, Without
    <2> QED BY <1>6, <2>2 DEF DestroyDynamicObject, NoTraceOfDestroyed
  <1>7. ASSUME NEW p \in Players, (\E npc \in BOOLEAN : Connect(p, npc)) \/ Disconnect(p)
        PROVE  NoTraceOfDestroyed'
    <2>1. CASE Disconnect(p)
      BY <1>0, <2>1 DEF Disconnect, serverVars, TypeOK
    <2>2. CASE \E npc \in BOOLEAN : Connect(p, npc)
      BY <1>0, <2>2 DEF Connect, serverVars, chunkVars, shownVars
    <2> QED BY <1>7, <2>1, <2>2
  <1>8. CASE Aside
    BY <1>0, <1>8, AsideEffect DEF chunkVars, shownVars
  <1> QED BY <1>1, <1>2, <1>3, <1>4, <1>5, <1>6, <1>7, <1>8, StepCases

(* An id that is handed out again starts afresh in every player's          *)
(* bookkeeping.                                                            *)
THEOREM DestroyedLeavesNoTrace == Spec => []NoTraceOfDestroyed
  <1>1. Init => NoTraceOfDestroyed
    BY DEF Init, NoTraceOfDestroyed, Ids
  <1>2. TypeOK /\ LoopIsSound /\ NoTraceOfDestroyed /\ [Next]_vars => NoTraceOfDestroyed'
    BY NoTraceStep
  <1> QED BY <1>1, <1>2, TypeCorrect, LoopsAreSound, PTL DEF Spec

-----------------------------------------------------------------------------
(* ClientMirrorsStreamer.                                                  *)

(* Objects leave the client and internalObjects together.                  *)
LEMMA HidingMirrors ==
  ASSUME TypeOK, ClientMirrorsStreamer, NEW p \in Players, NEW ids,
         internalObjects' = [internalObjects EXCEPT ![p] = @ \ ids],
         clientObjects' = [clientObjects EXCEPT ![p] = Hidden(@, ids \cap internalObjects[p])]
  PROVE  ClientMirrorsStreamer'
  <1> SUFFICES ASSUME NEW q \in Players, NEW o \in Objects
               PROVE  clientObjects'[q][o] = IF o \in internalObjects'[q] THEN 1 ELSE 0
    BY DEF ClientMirrorsStreamer
  <1>1. clientObjects[q][o] = IF o \in internalObjects[q] THEN 1 ELSE 0
    BY DEF ClientMirrorsStreamer
  <1>2. CASE q # p
    BY <1>1, <1>2 DEF TypeOK
  <1>3. CASE q = p
    <2>1. /\ internalObjects'[p] = internalObjects[p] \ ids
          /\ clientObjects'[p] = Hidden(clientObjects[p], ids \cap internalObjects[p])
      BY DEF TypeOK
    <2> QED BY <1>1, <1>3, <2>1 DEF Hidden
  <1> QED BY <1>2, <1>3

(* An object not on the client is created there, or the attempt fails.     *)
LEMMA CreationMirrors ==
  ASSUME TypeOK, ClientMirrorsStreamer, NEW p \in Players, NEW d \in Entries, NEW out,
         d.id \notin internalObjects[p],
         CreateObject(p, d, out) \/ CancelStreaming(p, out)
  PROVE  ClientMirrorsStreamer'
  <1>1. CASE CancelStreaming(p, out)
    BY <1>1, HidingMirrors DEF CancelStreaming, Remaining
  <1>2. CASE CreateObject(p, d, out)
    <2> SUFFICES ASSUME NEW q \in Players, NEW o \in Objects
                 PROVE  clientObjects'[q][o] = IF o \in internalObjects'[q] THEN 1 ELSE 0
      BY DEF ClientMirrorsStreamer
    <2>1. clientObjects[q][o] = IF o \in internalObjects[q] THEN 1 ELSE 0
      BY DEF ClientMirrorsStreamer
    <2>2. CASE q # p
      BY <1>2, <2>1, <2>2 DEF CreateObject, TypeOK
    <2>3. CASE q = p
      <3>1. /\ internalObjects'[p] = (internalObjects[p] \ Ids(out)) \cup {d.id}
            /\ clientObjects'[p] =
                 Shown(Hidden(clientObjects[p], Ids(out) \cap internalObjects[p]), d.id)
        BY <1>2 DEF CreateObject, Remaining, TypeOK
      <3> QED BY <2>1, <2>3, <3>1 DEF Hidden, Shown
    <2> QED BY <2>2, <2>3
  <1> QED BY <1>1, <1>2

LEMMA MirrorStep ==
  ASSUME TypeOK, LoopIsSound, ClientMirrorsStreamer, [Next]_vars
  PROVE  ClientMirrorsStreamer'
  <1>0. ASSUME UNCHANGED <<internalObjects, clientObjects>> PROVE ClientMirrorsStreamer'
    BY <1>0 DEF ClientMirrorsStreamer
  <1>1. ASSUME NEW p \in Players,
               StreamOut(p) \/ SkipStreamed(p) \/ EndStreamObjects(p) \/ EndProcessObjects(p)
        PROVE  ClientMirrorsStreamer'
    <2>1. CASE StreamOut(p)
      <3>1. PICK o : /\ internalObjects' = [internalObjects EXCEPT ![p] = @ \ {o}]
                     /\ clientObjects' =
                          [clientObjects EXCEPT ![p] = Hidden(@, {o} \cap internalObjects[p])]
        BY <2>1 DEF StreamOut
      <3> QED BY <3>1, HidingMirrors
    <2>2. CASE SkipStreamed(p) \/ EndStreamObjects(p) \/ EndProcessObjects(p)
      BY <1>0, <2>2 DEF SkipStreamed, EndStreamObjects, EndProcessObjects, shownVars
    <2> QED BY <1>1, <2>1, <2>2
  <1>2. ASSUME NEW p \in Players, StreamIn(p) \/ ProcessObject(p)
        PROVE  ClientMirrorsStreamer'
    BY <1>2, AttemptEffect, CreationMirrors
  <1>3. ASSUME NEW p \in Players, StartChunkPass(p) PROVE ClientMirrorsStreamer'
    BY <1>0, <1>3 DEF StartChunkPass, shownVars
  <1>4. ASSUME NEW p \in Players, NEW x \in Places, NEW w \in Worlds, NEW type,
               AutomaticUpdate(p, x, w) \/ ManualUpdate(p, type, x, w)
        PROVE  ClientMirrorsStreamer'
    <2>1. ASSUME NEW y \in Places, BeginProcessObjects(p, x, y, w) PROVE ClientMirrorsStreamer'
      <3>1. PICK out \in SUBSET internalObjects[p] :
              /\ internalObjects' = [internalObjects EXCEPT ![p] = @ \ out]
              /\ clientObjects' = [clientObjects EXCEPT ![p] = Hidden(@, out)]
        BY <2>1 DEF BeginProcessObjects
      <3>2. out \cap internalObjects[p] = out
        OBVIOUS
      <3> QED BY <3>1, <3>2, HidingMirrors
    <2> QED BY <1>0, <1>4, <2>1, UpdateEffect DEF UpdateOutcome, shownVars
  <1>5. ASSUME NEW p \in Players, NEW ids, DestroyAllVisibleItems(p, ids)
        PROVE  ClientMirrorsStreamer'
    BY <1>5, HidingMirrors DEF DestroyAllVisibleItems
  <1>6. ASSUME NEW o \in Objects, DestroyDynamicObject(o) PROVE ClientMirrorsStreamer'
    BY <1>6 DEF DestroyDynamicObject, ClientMirrorsStreamer, Hidden
  <1>7. ASSUME NEW p \in Players, (\E npc \in BOOLEAN : Connect(p, npc)) \/ Disconnect(p)
        PROVE  ClientMirrorsStreamer'
    <2>1. CASE Disconnect(p)
      BY <2>1 DEF Disconnect, ClientMirrorsStreamer, TypeOK
    <2>2. CASE \E npc \in BOOLEAN : Connect(p, npc)
      BY <1>0, <2>2 DEF Connect, shownVars
    <2> QED BY <1>7, <2>1, <2>2
  <1>8. CASE Aside
    BY <1>0, <1>8, AsideEffect DEF shownVars
  <1> QED BY <1>1, <1>2, <1>3, <1>4, <1>5, <1>6, <1>7, <1>8, StepCases

(* A client holds exactly one copy of what internalObjects lists, whatever *)
(* the scripts call between the passes and however creations fail.         *)
THEOREM ClientsMirrorTheStreamer == Spec => []ClientMirrorsStreamer
  <1>1. Init => ClientMirrorsStreamer
    BY DEF Init, ClientMirrorsStreamer
  <1>2. TypeOK /\ LoopIsSound /\ ClientMirrorsStreamer /\ [Next]_vars => ClientMirrorsStreamer'
    BY MirrorStep
  <1> QED BY <1>1, <1>2, TypeCorrect, LoopsAreSound, PTL DEF Spec

-----------------------------------------------------------------------------
(* StaysReachable.                                                         *)

LEMMA ReachableStep ==
  ASSUME TypeOK, LoopIsSound, NoTraceOfDestroyed, StaysReachable, [Next]_vars
  PROVE  StaysReachable'
  <1>0. ASSUME \A q \in Players :
                 /\ internalObjects'[q] \subseteq internalObjects[q]
                 /\ (visibleObjects[q] \cup removedObjects[q]) \cap internalObjects'[q]
                       \subseteq visibleObjects'[q] \cup removedObjects'[q]
        PROVE  StaysReachable'
    BY <1>0 DEF StaysReachable
  <1>1. ASSUME NEW p \in Players,
               StreamOut(p) \/ SkipStreamed(p) \/ EndStreamObjects(p) \/ EndProcessObjects(p)
        PROVE  StaysReachable'
    <2>1. CASE StreamOut(p)
      <3>1. PICK o : /\ internalObjects' = [internalObjects EXCEPT ![p] = @ \ {o}]
                     /\ removedObjects' = [removedObjects EXCEPT ![p] = @ \ {o}]
        BY <2>1 DEF StreamOut
      <3>2. UNCHANGED visibleObjects
        BY <2>1 DEF StreamOut
      <3> QED BY <1>0, <3>1, <3>2 DEF TypeOK
    <2>2. CASE SkipStreamed(p) \/ EndStreamObjects(p) \/ EndProcessObjects(p)
      <3>1. UNCHANGED <<internalObjects, visibleObjects, removedObjects>>
        BY <2>2 DEF SkipStreamed, EndStreamObjects, EndProcessObjects, shownVars, chunkVars
      <3> QED BY <1>0, <3>1
    <2> QED BY <1>1, <2>1, <2>2
  <1>2. ASSUME NEW p \in Players, StreamIn(p) \/ ProcessObject(p)
        PROVE  StaysReachable'
    <2>1. PICK d \in Entries, out \in SUBSET Entries :
            /\ CreateObject(p, d, out) \/ CancelStreaming(p, out)
            /\ UNCHANGED removedObjects
      BY <1>2, AttemptEffect
    <2>2. CASE CreateObject(p, d, out)
      <3>1. /\ internalObjects' = [internalObjects EXCEPT ![p] = (@ \ Ids(out)) \cup {d.id}]
            /\ visibleObjects' = [visibleObjects EXCEPT
                  ![p] = (@ \ Ids(out)) \cup InVisibleCell({d.id})]
        BY <2>2 DEF CreateObject, Remaining
      <3>2. HasCell(d.id) => d.id \in InVisibleCell({d.id})
        BY DEF InVisibleCell
      <3>3. ASSUME NEW o \in internalObjects'[p], HasCell(o)
            PROVE  o \in visibleObjects'[p] \cup removedObjects'[p]
        <4>1. CASE o = d.id
          BY <3>1, <3>2, <3>3, <4>1 DEF TypeOK
        <4>2. CASE o # d.id
          <5>1. o \in internalObjects[p] \ Ids(out)
            BY <3>1, <4>2 DEF TypeOK
          <5>2. o \in visibleObjects[p] \cup removedObjects[p]
            BY <3>3, <5>1 DEF StaysReachable
          <5> QED BY <2>1, <3>1, <5>1, <5>2 DEF TypeOK
        <4> QED BY <4>1, <4>2
      <3>4. \A q \in Players \ {p} : /\ internalObjects'[q] = internalObjects[q]
                                     /\ visibleObjects'[q] = visibleObjects[q]
                                     /\ removedObjects'[q] = removedObjects[q]
        BY <2>1, <3>1 DEF TypeOK
      <3> QED BY <3>3, <3>4 DEF StaysReachable
    <2>3. CASE CancelStreaming(p, out)
      <3>1. /\ internalObjects' = [internalObjects EXCEPT ![p] = @ \ Ids(out)]
            /\ visibleObjects' = [visibleObjects EXCEPT ![p] = @ \ Ids(out)]
        BY <2>3 DEF CancelStreaming, Remaining
      <3> QED BY <1>0, <2>1, <3>1 DEF TypeOK
    <2> QED BY <2>1, <2>2, <2>3
  <1>3. ASSUME NEW p \in Players, StartChunkPass(p) PROVE StaysReachable'
    BY <1>0, <1>3 DEF StartChunkPass, chunkVars, shownVars
  <1>4. ASSUME NEW p \in Players, NEW x \in Places, NEW w \in Worlds, NEW type,
               AutomaticUpdate(p, x, w) \/ ManualUpdate(p, type, x, w)
        PROVE  StaysReachable'
    <2>1. ASSUME NEW y \in Places, NEW discovered, NEW existing, NEW pending,
                 DiscoverObjects(p, x, y, w, discovered, existing, pending),
                 UNCHANGED internalObjects
          PROVE  StaysReachable'
      <3> DEFINE seen == Examined(p, x)
                 inRange == {o \in seen : InRange(y, w, o)}
                 on == internalObjects[p]
      <3>1. /\ visibleObjects' = [visibleObjects EXCEPT ![p] = InVisibleCell(inRange \cap on)]
            /\ removedObjects' = [removedObjects EXCEPT ![p] = @ \cup ((seen \cap on) \ inRange)]
        BY <2>1 DEF DiscoverObjects
      <3>2. ASSUME NEW o \in on, HasCell(o)
            PROVE  o \in InVisibleCell(inRange \cap on) \cup removedObjects[p]
                           \cup ((seen \cap on) \ inRange)
        <4>1. o \in visibleObjects[p] \cup removedObjects[p]
          BY <3>2 DEF StaysReachable
        <4>2. o \in objects
          BY DEF NoTraceOfDestroyed
        <4>3. o \in removedObjects[p] \cup seen
          BY <4>1, <4>2 DEF Examined
        <4> QED BY <3>2, <4>3 DEF InVisibleCell
      <3>3. /\ visibleObjects'[p] = InVisibleCell(inRange \cap on)
            /\ removedObjects'[p] = removedObjects[p] \cup ((seen \cap on) \ inRange)
            /\ \A q \in Players \ {p} : /\ visibleObjects'[q] = visibleObjects[q]
                                         /\ removedObjects'[q] = removedObjects[q]
        BY <3>1 DEF TypeOK
      <3> QED BY <2>1, <3>2, <3>3 DEF StaysReachable
    <2>2. ASSUME NEW y \in Places, BeginProcessObjects(p, x, y, w), UNCHANGED chunkVars
          PROVE  StaysReachable'
      <3> DEFINE seen == Examined(p, x)
                 inRange == {o \in seen : InRange(y, w, o)}
                 on == internalObjects[p]
                 keep == {o \in seen \cap on : o \in inRange \/ Within(y, w, o, KeepDistance[o])}
      <3>1. /\ internalObjects' = [internalObjects EXCEPT ![p] = @ \ ((seen \cap on) \ keep)]
            /\ visibleObjects' = [visibleObjects EXCEPT ![p] = InVisibleCell(keep)]
        BY <2>2 DEF BeginProcessObjects
      <3>2. ASSUME NEW o \in on \ ((seen \cap on) \ keep), HasCell(o)
            PROVE  o \in InVisibleCell(keep) \cup removedObjects[p]
        <4>1. o \in visibleObjects[p] \cup removedObjects[p]
          BY <3>2 DEF StaysReachable
        <4>2. o \in objects
          BY DEF NoTraceOfDestroyed
        <4>3. o \in removedObjects[p] \cup seen
          BY <4>1, <4>2 DEF Examined
        <4> QED BY <3>2, <4>3 DEF InVisibleCell
      <3>3. /\ internalObjects'[p] = on \ ((seen \cap on) \ keep)
            /\ visibleObjects'[p] = InVisibleCell(keep)
            /\ \A q \in Players \ {p} : /\ internalObjects'[q] = internalObjects[q]
                                         /\ visibleObjects'[q] = visibleObjects[q]
        BY <3>1 DEF TypeOK
      <3>4. UNCHANGED removedObjects
        BY <2>2 DEF chunkVars
      <3> QED BY <3>2, <3>3, <3>4 DEF StaysReachable
    <2>3. ASSUME UNCHANGED <<shownVars, removedObjects>> PROVE StaysReachable'
      BY <1>0, <2>3 DEF shownVars
    <2> QED BY <1>4, <2>1, <2>2, <2>3, UpdateEffect DEF UpdateOutcome
  <1>5. ASSUME NEW p \in Players, NEW ids, DestroyAllVisibleItems(p, ids) PROVE StaysReachable'
    <2>1. /\ internalObjects' = [internalObjects EXCEPT ![p] = @ \ ids]
          /\ UNCHANGED <<visibleObjects, chunkVars>>
      BY <1>5 DEF DestroyAllVisibleItems
    <2> QED BY <1>0, <2>1 DEF TypeOK, chunkVars
  <1>6. ASSUME NEW o \in Objects, DestroyDynamicObject(o) PROVE StaysReachable'
    BY <1>6 DEF DestroyDynamicObject, StaysReachable
  <1>7. ASSUME NEW p \in Players, (\E npc \in BOOLEAN : Connect(p, npc)) \/ Disconnect(p)
        PROVE  StaysReachable'
    <2>1. CASE Disconnect(p)
      BY <1>0, <2>1 DEF Disconnect, TypeOK
    <2>2. CASE \E npc \in BOOLEAN : Connect(p, npc)
      BY <1>0, <2>2 DEF Connect, chunkVars, shownVars
    <2> QED BY <1>7, <2>1, <2>2
  <1>8. CASE Aside
    BY <1>0, <1>8, AsideEffect DEF chunkVars, shownVars
  <1> QED BY <1>1, <1>2, <1>3, <1>4, <1>5, <1>6, <1>7, <1>8, StepCases

(* No streamed object escapes the next update, however far its cell is     *)
(* from the player's by then.                                              *)
THEOREM StreamedObjectsStayReachable == Spec => []StaysReachable
  <1>1. Init => StaysReachable
    BY DEF Init, StaysReachable
  <1>2. TypeOK /\ LoopIsSound /\ NoTraceOfDestroyed /\ StaysReachable /\ [Next]_vars => StaysReachable'
    BY ReachableStep
  <1> QED BY <1>1, <1>2, TypeCorrect, LoopsAreSound, DestroyedLeavesNoTrace, PTL DEF Spec

-----------------------------------------------------------------------------
(* WorkIsFlagged.                                                          *)

LEMMA WorkIsFlaggedStep ==
  ASSUME TypeOK, LoopIsSound, WorkIsFlagged, [Next]_vars
  PROVE  WorkIsFlagged'
  <1>0. ASSUME \A q \in Players :
                 /\ discoveredObjects'[q] \subseteq discoveredObjects[q]
                 /\ discoveredObjects'[q] = {} \/ processingChunks'[q] = processingChunks[q]
        PROVE  WorkIsFlagged'
    <2> SUFFICES ASSUME NEW q \in Players, discoveredObjects'[q] # {} PROVE processingChunks'[q]
      BY DEF WorkIsFlagged
    <2>1. discoveredObjects[q] # {}
      BY <1>0
    <2> QED BY <1>0, <2>1 DEF WorkIsFlagged
  <1>1. ASSUME NEW p \in Players,
               StreamOut(p) \/ SkipStreamed(p) \/ EndStreamObjects(p) \/ EndProcessObjects(p)
        PROVE  WorkIsFlagged'
    <2>1. CASE EndStreamObjects(p)
      <3>1. /\ processingChunks' = [processingChunks EXCEPT ![p] = @ /\ ~Drained(p)]
            /\ UNCHANGED discoveredObjects
        BY <2>1 DEF EndStreamObjects
      <3>2. processingChunks'[p] = (processingChunks[p] /\ ~Drained(p))
        BY <3>1 DEF TypeOK
      <3>3. \A q \in Players \ {p} : processingChunks'[q] = processingChunks[q]
        BY <3>1 DEF TypeOK
      <3> QED BY <3>1, <3>2, <3>3 DEF WorkIsFlagged, Drained
    <2>2. CASE StreamOut(p) \/ SkipStreamed(p) \/ EndProcessObjects(p)
      BY <1>0, <2>2 DEF StreamOut, SkipStreamed, EndProcessObjects, chunkVars, TypeOK
    <2> QED BY <1>1, <2>1, <2>2
  <1>2. ASSUME NEW p \in Players, StreamIn(p) \/ ProcessObject(p)
        PROVE  WorkIsFlagged'
    BY <1>0, <1>2, AttemptEffect
  <1>3. ASSUME NEW p \in Players, StartChunkPass(p) PROVE WorkIsFlagged'
    BY <1>0, <1>3 DEF StartChunkPass, chunkVars
  <1>4. ASSUME NEW p \in Players, NEW x \in Places, NEW w \in Worlds, NEW type,
               AutomaticUpdate(p, x, w) \/ ManualUpdate(p, type, x, w)
        PROVE  WorkIsFlagged'
    <2>1. ASSUME NEW y \in Places, NEW discovered, NEW existing, NEW pending,
                 DiscoverObjects(p, x, y, w, discovered, existing, pending)
          PROVE  WorkIsFlagged'
      <3>1. \E queue : discoveredObjects' = [discoveredObjects EXCEPT ![p] = queue]
        BY <2>1 DEF DiscoverObjects
      <3>2. processingChunks' = [processingChunks EXCEPT
               ![p] = pending \/ discoveredObjects'[p] # {} \/ removedObjects'[p] # {}]
        BY <2>1 DEF DiscoverObjects
      <3>3. processingChunks'[p] = (pending \/ discoveredObjects'[p] # {} \/ removedObjects'[p] # {})
        BY <3>2 DEF TypeOK
      <3>4. \A q \in Players \ {p} : /\ discoveredObjects'[q] = discoveredObjects[q]
                                     /\ processingChunks'[q] = processingChunks[q]
        BY <3>1, <3>2 DEF TypeOK
      <3> QED BY <3>3, <3>4 DEF WorkIsFlagged
    <2>2. ASSUME UNCHANGED chunkVars PROVE WorkIsFlagged'
      BY <1>0, <2>2 DEF chunkVars
    <2> QED BY <1>0, <1>4, <2>1, <2>2, UpdateEffect DEF UpdateOutcome
  <1>5. ASSUME NEW p \in Players, NEW ids, DestroyAllVisibleItems(p, ids) PROVE WorkIsFlagged'
    BY <1>0, <1>5 DEF DestroyAllVisibleItems, chunkVars
  <1>6. ASSUME NEW o \in Objects, DestroyDynamicObject(o) PROVE WorkIsFlagged'
    <2>1. /\ discoveredObjects' = [p \in Players |-> Without(discoveredObjects[p], o)]
          /\ UNCHANGED processingChunks
      BY <1>6 DEF DestroyDynamicObject
    <2> QED BY <1>0, <2>1 DEF Without
  <1>7. ASSUME NEW p \in Players, (\E npc \in BOOLEAN : Connect(p, npc)) \/ Disconnect(p)
        PROVE  WorkIsFlagged'
    <2>1. CASE Disconnect(p)
      BY <1>0, <2>1 DEF Disconnect, TypeOK
    <2>2. CASE \E npc \in BOOLEAN : Connect(p, npc)
      BY <1>0, <2>2 DEF Connect, chunkVars
    <2> QED BY <1>7, <2>1, <2>2
  <1>8. CASE Aside
    BY <1>0, <1>8, AsideEffect DEF chunkVars
  <1> QED BY <1>1, <1>2, <1>3, <1>4, <1>5, <1>6, <1>7, <1>8, StepCases

(* Queued creations are never stranded: the bit of processingChunks that   *)
(* makes ticks stream them is set.                                         *)
THEOREM QueuedWorkIsFlagged == Spec => []WorkIsFlagged
  <1>1. Init => WorkIsFlagged
    BY DEF Init, WorkIsFlagged
  <1>2. TypeOK /\ LoopIsSound /\ WorkIsFlagged /\ [Next]_vars => WorkIsFlagged'
    BY WorkIsFlaggedStep
  <1> QED BY <1>1, <1>2, TypeCorrect, LoopsAreSound, PTL DEF Spec

-----------------------------------------------------------------------------
(* VisibleCap.                                                             *)

(* A creation that is not refused leaves the client within the limit.      *)
LEMMA CreationStaysWithinCap ==
  ASSUME TypeOK, NEW p \in Players, NEW d, NEW out,
         Cardinality(internalObjects[p]) <= maxVisibleObjects[p], ~Full(p, out)
  PROVE  Cardinality(Remaining(p, out) \cup {d}) <= maxVisibleObjects[p]
  <1>1. /\ IsFiniteSet(Remaining(p, out))
        /\ Cardinality(Remaining(p, out)) \in Nat
    BY RemainingFinite
  <1>2. IsFiniteSet(internalObjects[p])
    BY ObjectsAssumption, FS_Subset DEF TypeOK
  <1>3. Cardinality(Remaining(p, out)) <= Cardinality(internalObjects[p])
    BY <1>2, FS_Subset DEF Remaining
  <1>4. Cardinality(internalObjects[p]) \in Nat /\ maxVisibleObjects[p] \in Nat
    BY <1>2, FS_CardinalityType DEF TypeOK
  <1>5. Cardinality(Remaining(p, out)) < maxVisibleObjects[p]
    BY <1>1, <1>3, <1>4 DEF Full
  <1>6. Cardinality(Remaining(p, out) \cup {d}) \in
          {Cardinality(Remaining(p, out)), Cardinality(Remaining(p, out)) + 1}
    BY <1>1, FS_AddElement
  <1> QED BY <1>1, <1>4, <1>5, <1>6

LEMMA VisibleCapStep ==
  ASSUME TypeOK, LoopIsSound, VisibleCap, [Next]_vars
  PROVE  VisibleCap'
  <1> SUFFICES ASSUME "setVisible" \notin Calls
               PROVE  \A q \in Players : Cardinality(internalObjects'[q]) <= maxVisibleObjects'[q]
    BY DEF VisibleCap
  <1> DEFINE Fits(q) == Cardinality(internalObjects'[q]) <= maxVisibleObjects'[q]
  <1>a. \A q \in Players : Cardinality(internalObjects[q]) <= maxVisibleObjects[q]
    BY DEF VisibleCap
  <1>b. ASSUME NEW q \in Players,
               internalObjects'[q] \subseteq internalObjects[q],
               maxVisibleObjects'[q] = maxVisibleObjects[q]
        PROVE  Fits(q)
    <2>1. IsFiniteSet(internalObjects[q])
      BY ObjectsAssumption, FS_Subset DEF TypeOK
    <2>2. /\ IsFiniteSet(internalObjects'[q])
          /\ Cardinality(internalObjects'[q]) <= Cardinality(internalObjects[q])
      BY <1>b, <2>1, FS_Subset
    <2>3. /\ Cardinality(internalObjects[q]) \in Nat /\ Cardinality(internalObjects'[q]) \in Nat
          /\ maxVisibleObjects[q] \in Nat
      BY <2>1, <2>2, FS_CardinalityType DEF TypeOK
    <2> QED BY <1>a, <1>b, <2>2, <2>3
  <1>1. ASSUME NEW p \in Players,
               StreamOut(p) \/ SkipStreamed(p) \/ EndStreamObjects(p) \/ EndProcessObjects(p)
        PROVE  \A q \in Players : Fits(q)
    <2>1. UNCHANGED maxVisibleObjects
      BY <1>1 DEF StreamOut, SkipStreamed, EndStreamObjects, EndProcessObjects, limitVars
    <2>2. \A q \in Players : internalObjects'[q] \subseteq internalObjects[q]
      <3>1. CASE StreamOut(p)
        <4>1. \E o : internalObjects' = [internalObjects EXCEPT ![p] = @ \ {o}]
          BY <3>1 DEF StreamOut
        <4> QED BY <4>1 DEF TypeOK
      <3>2. CASE SkipStreamed(p) \/ EndStreamObjects(p) \/ EndProcessObjects(p)
        BY <3>2 DEF SkipStreamed, EndStreamObjects, EndProcessObjects, shownVars
      <3> QED BY <1>1, <3>1, <3>2
    <2> QED BY <1>b, <2>1, <2>2
  <1>2. ASSUME NEW p \in Players, StreamIn(p) \/ ProcessObject(p)
        PROVE  \A q \in Players : Fits(q)
    <2>1. PICK d \in Entries, out \in SUBSET Entries :
            /\ CreateObject(p, d, out) \/ CancelStreaming(p, out)
            /\ UNCHANGED limitVars
      BY <1>2, AttemptEffect
    <2>2. UNCHANGED maxVisibleObjects
      BY <2>1 DEF limitVars
    <2>3. CASE CreateObject(p, d, out)
      <3>1. /\ ~Full(p, out)
            /\ internalObjects' = [internalObjects EXCEPT ![p] = Remaining(p, out) \cup {d.id}]
        BY <2>3 DEF CreateObject
      <3>2. internalObjects'[p] = Remaining(p, out) \cup {d.id}
        BY <3>1 DEF TypeOK
      <3>3. Fits(p)
        BY <1>a, <2>2, <3>1, <3>2, CreationStaysWithinCap
      <3>4. ASSUME NEW q \in Players \ {p} PROVE Fits(q)
        BY <1>a, <2>2, <3>1 DEF TypeOK
      <3> QED BY <3>3, <3>4
    <2>4. CASE CancelStreaming(p, out)
      <3>1. \A q \in Players : internalObjects'[q] \subseteq internalObjects[q]
        BY <2>4 DEF CancelStreaming, Remaining, TypeOK
      <3> QED BY <1>b, <2>2, <3>1
    <2> QED BY <2>1, <2>3, <2>4
  <1>3. ASSUME NEW p \in Players, StartChunkPass(p) PROVE \A q \in Players : Fits(q)
    BY <1>b, <1>3 DEF StartChunkPass, limitVars, shownVars
  <1>4. ASSUME NEW p \in Players, NEW x \in Places, NEW w \in Worlds, NEW type,
               AutomaticUpdate(p, x, w) \/ ManualUpdate(p, type, x, w)
        PROVE  \A q \in Players : Fits(q)
    <2>1. UNCHANGED maxVisibleObjects
      BY <1>4, UpdateEffect DEF limitVars
    <2>2. ASSUME NEW y \in Places, BeginProcessObjects(p, x, y, w)
          PROVE  \A q \in Players : internalObjects'[q] \subseteq internalObjects[q]
      <3>1. \E out : internalObjects' = [internalObjects EXCEPT ![p] = @ \ out]
        BY <2>2 DEF BeginProcessObjects
      <3> QED BY <3>1 DEF TypeOK
    <2>3. \A q \in Players : internalObjects'[q] \subseteq internalObjects[q]
      BY <1>4, <2>2, UpdateEffect DEF UpdateOutcome, shownVars
    <2> QED BY <1>b, <2>1, <2>3
  <1>5. ASSUME NEW p \in Players, NEW ids, DestroyAllVisibleItems(p, ids)
        PROVE  \A q \in Players : Fits(q)
    BY <1>b, <1>5 DEF DestroyAllVisibleItems, limitVars, TypeOK
  <1>6. ASSUME NEW o \in Objects, DestroyDynamicObject(o) PROVE \A q \in Players : Fits(q)
    BY <1>b, <1>6 DEF DestroyDynamicObject, limitVars
  <1>7. ASSUME NEW p \in Players, (\E npc \in BOOLEAN : Connect(p, npc)) \/ Disconnect(p)
        PROVE  \A q \in Players : Fits(q)
    <2>1. internalObjects'[p] = {} /\ maxVisibleObjects'[p] \in Nat
      BY <1>7, LimitAssumption DEF Connect, Disconnect, LoopIsSound, TypeOK, shownVars
    <2>2. Fits(p)
      BY <2>1, FS_EmptySet
    <2>3. \A q \in Players \ {p} : /\ internalObjects'[q] = internalObjects[q]
                                   /\ maxVisibleObjects'[q] = maxVisibleObjects[q]
      BY <1>7 DEF Connect, Disconnect, TypeOK, shownVars
    <2> QED BY <1>b, <2>2, <2>3
  <1>8. CASE Aside
    BY <1>b, <1>8, AsideEffect DEF shownVars
  <1> QED BY <1>1, <1>2, <1>3, <1>4, <1>5, <1>6, <1>7, <1>8, StepCases

(* The limit of objects per player holds as long as scripts leave it as    *)
(* it is: no order of evictions, refusals and creations goes beyond it.    *)
THEOREM LimitHolds == Spec => []VisibleCap
  <1>1. Init => VisibleCap
    BY LimitAssumption, FS_EmptySet DEF Init, VisibleCap
  <1>2. TypeOK /\ LoopIsSound /\ VisibleCap /\ [Next]_vars => VisibleCap'
    BY VisibleCapStep
  <1> QED BY <1>1, <1>2, TypeCorrect, LoopsAreSound, PTL DEF Spec

-----------------------------------------------------------------------------
(* QueueIsOfThisWorld.                                                     *)

(* What is discovered is of the world discovered for, if the queue had been*)
(* empty.                                                                  *)
LEMMA DiscoveredIsOfTheWorld ==
  ASSUME TypeOK, NEW p \in Players, NEW x, NEW y, NEW w, NEW existing, NEW pending,
         DiscoverObjects(p, x, y, w, {}, existing, pending)
  PROVE  \A d \in discoveredObjects'[p] : w \in ObjectWorlds[d.id]
  <1> DEFINE ids == NotStreamed(p, {o \in Examined(p, x) : InRange(y, w, o)})
  <1>1. discoveredObjects' = [discoveredObjects EXCEPT ![p] = InsertOrAssign({}, y, ids)]
    BY DEF DiscoverObjects
  <1>2. \A o \in ids : w \in ObjectWorlds[o]
    BY DEF NotStreamed, InRange, Within
  <1> HIDE DEF ids
  <1>3. discoveredObjects'[p] = InsertOrAssign({}, y, ids)
    BY <1>1 DEF TypeOK
  <1> QED BY <1>2, <1>3 DEF InsertOrAssign, EntriesOf

(* Only updates and departures change the world a player was sampled in.   *)
LEMMA WorldChanges ==
  ASSUME TypeOK, [Next]_vars, NEW p \in Players, worldId'[p] # worldId[p]
  PROVE  \/ \E x \in Places, w \in Worlds :
              AutomaticUpdate(p, x, w) \/ \E type \in UpdateTypes : ManualUpdate(p, type, x, w)
         \/ \E w \in Worlds : IdleUpdate(p, w)
         \/ Disconnect(p)
  <1>1. ASSUME NEW q \in Players, NEW x \in Places, NEW w \in Worlds,
               \/ AutomaticUpdate(q, x, w)
               \/ IdleUpdate(q, w)
               \/ \E type \in UpdateTypes : ManualUpdate(q, type, x, w)
        PROVE  q = p
    <2>1. worldId' = [worldId EXCEPT ![q] = w]
      BY <1>1 DEF AutomaticUpdate, IdleUpdate, ManualUpdate, Sample
    <2> QED BY <2>1 DEF TypeOK
  <1>2. ASSUME NEW q \in Players, Disconnect(q) PROVE q = p
    BY <1>2 DEF Disconnect, TypeOK
  <1>3. ~(\E q \in Players : StreamingStep(q) \/ StartChunkPass(q))
    BY DEF StreamingStep, StreamOut, SkipStreamed, StreamIn, EndStreamObjects, ProcessObject,
           EndProcessObjects, StartChunkPass, sampleVars
  <1>4. ~ServerCall
    BY DEF ServerCall, CreateDynamicObject, DestroyDynamicObject, SetDynamicObjectPos,
           ToggleChunkStream, SetVisibleItemsForAll, sampleVars
  <1>5. ASSUME NEW q \in Players, PlayerCall(q)
        PROVE  \E type \in UpdateTypes, x \in Places, w \in Worlds : ManualUpdate(q, type, x, w)
    BY <1>5 DEF PlayerCall, DestroyAllVisibleItems, ToggleItemUpdate, ToggleIdleUpdate,
                SetVisibleItems, sampleVars
  <1>6. ASSUME NEW q \in Players, ComeAndGo(q) PROVE Disconnect(q)
    BY <1>6 DEF ComeAndGo, Connect
  <1>7. PICK q \in Players : TickStep(q) \/ PlayerCall(q) \/ ComeAndGo(q)
    <2>1. Next
      BY DEF vars, sampleVars
    <2> QED BY <1>3, <1>4, <2>1 DEF Next, TickStep
  <1>8. CASE TickStep(q)
    <2>1. \/ \E x \in Places, w \in Worlds : AutomaticUpdate(q, x, w)
          \/ \E w \in Worlds : IdleUpdate(q, w)
      BY <1>3, <1>8 DEF TickStep
    <2> QED BY <1>1, <2>1, PlacesAssumption
  <1>9. CASE PlayerCall(q)
    BY <1>1, <1>5, <1>9
  <1>10. CASE ComeAndGo(q)
    BY <1>2, <1>6, <1>10
  <1> QED BY <1>7, <1>8, <1>9, <1>10

LEMMA WorldStep ==
  ASSUME TypeOK, WorkIsFlagged, [Next]_vars, NEW p \in Players,
         chunkStreamingEnabled, worldId'[p] # worldId[p]
  PROVE  \/ \A d \in discoveredObjects'[p] : worldId'[p] \in ObjectWorlds[d.id]
         \/ \E x \in Places : ManualUpdate(p, "updateOther", x, worldId'[p])
  <1>1. Due(p) => discoveredObjects[p] = {}
    BY DEF Due, WorkIsFlagged
  <1>2. ASSUME NEW x, NEW w, Sample(p, x, w) PROVE worldId'[p] = w
    BY <1>2 DEF Sample, TypeOK
  <1>3. ASSUME NEW x \in Places, NEW w \in Worlds, AutomaticUpdate(p, x, w)
        PROVE  \A d \in discoveredObjects'[p] : worldId'[p] \in ObjectWorlds[d.id]
    <2>1. discoveredObjects[p] = {} /\ worldId'[p] = w
      BY <1>1, <1>2, <1>3 DEF AutomaticUpdate
    <2>2. CASE enabledItems[p] /\ objects # {}
      <3>1. PICK y \in Predicted(p, x) :
              DiscoverObjects(p, x, y, w, discoveredObjects[p], existingObjects[p], processingChunks[p])
        BY <1>3, <2>2 DEF AutomaticUpdate
      <3> QED BY <2>1, <3>1, DiscoveredIsOfTheWorld
    <2>3. CASE ~(enabledItems[p] /\ objects # {})
      BY <1>3, <2>1, <2>3 DEF AutomaticUpdate, chunkVars
    <2> QED BY <2>2, <2>3
  <1>4. ASSUME NEW w \in Worlds, IdleUpdate(p, w)
        PROVE  discoveredObjects'[p] = {}
    BY <1>1, <1>4 DEF IdleUpdate, chunkVars
  <1>5. ASSUME NEW x \in Places, NEW w \in Worlds, NEW type \in {"updateObject", "updateAll"},
               ManualUpdate(p, type, x, w)
        PROVE  \A d \in discoveredObjects'[p] : worldId'[p] \in ObjectWorlds[d.id]
    <2>1. worldId'[p] = w
      BY <1>2, <1>5 DEF ManualUpdate
    <2> DEFINE enabled == type = "updateObject" \/ (type = "updateAll" /\ enabledItems[p])
    <2>2. CASE enabled /\ objects # {}
      <3>1. DiscoverObjects(p, x, x, w, {}, {}, FALSE)
        BY <1>5, <2>2 DEF ManualUpdate
      <3> QED BY <2>1, <3>1, DiscoveredIsOfTheWorld
    <2>3. CASE ~(enabled /\ objects # {})
      <3>1. discoveredObjects' = [discoveredObjects EXCEPT ![p] = {}]
        BY <1>5, <2>3 DEF ManualUpdate
      <3> QED BY <3>1 DEF TypeOK
    <2> QED BY <2>2, <2>3
  <1>6. ASSUME NEW x \in Places, NEW w \in Worlds, ManualUpdate(p, "updateOther", x, w)
        PROVE  ManualUpdate(p, "updateOther", x, worldId'[p])
    <2>1. worldId'[p] = w
      BY <1>2, <1>6 DEF ManualUpdate
    <2> QED BY <1>6, <2>1
  <1>7. Disconnect(p) => discoveredObjects'[p] = {}
    BY DEF Disconnect, TypeOK
  <1> QED BY <1>3, <1>4, <1>5, <1>6, <1>7, WorldChanges DEF UpdateTypes

(* What a chunk pass creates is of the virtual world the player was last   *)
(* sampled in: a change of world finds the queue empty (nobody with pending*)
(* chunks is updated, and queued creations are flagged as such) or empties *)
(* it, except for a script's update of another item type.                  *)
THEOREM QueueFollowsTheWorld == Spec => QueueIsOfThisWorld
  <1>1. ASSUME TypeOK, WorkIsFlagged, [Next]_vars
        PROVE  \A p \in Players :
                 chunkStreamingEnabled /\ worldId'[p] # worldId[p] =>
                   \/ \A d \in discoveredObjects'[p] : worldId'[p] \in ObjectWorlds[d.id]
                   \/ \E x \in Places : ManualUpdate(p, "updateOther", x, worldId'[p])
    BY <1>1, WorldStep
  <1> QED BY <1>1, TypeCorrect, QueuedWorkIsFlagged, PTL DEF Spec, QueueIsOfThisWorld

=============================================================================
