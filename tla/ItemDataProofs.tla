----------------------------- MODULE ItemDataProofs -----------------------------
(***************************************************************************)
(* Theorems about ItemData, for any kinds of items and areas looked at, any*)
(* number of members, clients and copies and any arrays.                   *)
(***************************************************************************)
EXTENDS ItemData, TLAPS

-----------------------------------------------------------------------------
(* The tables.                                                             *)

(* The data natives know of an item, and those its copies show.            *)
LEMMA Tables ==
  /\ kind = "object"    => Ints = ObjectInts /\ Floats = ObjectFloats /\ Shows[kind] = ObjectShows
  /\ kind = "pickup"    => Ints = PickupInts /\ Floats = PickupFloats /\ Shows[kind] = PickupShows
  /\ kind = "cp"        => Ints = CpInts /\ Floats = CpFloats /\ Shows[kind] = CpShows
  /\ kind = "raceCp"    => Ints = RaceInts /\ Floats = RaceFloats /\ Shows[kind] = RaceShows
  /\ kind = "mapIcon"   => Ints = IconInts /\ Floats = IconFloats /\ Shows[kind] = IconShows
  /\ kind = "textLabel" => Ints = LabelInts /\ Floats = LabelFloats /\ Shows[kind] = LabelShows
  /\ kind = "area"      => Ints = AreaInts /\ Floats = AreaFloats /\ Shows[kind] = {}
  /\ kind = "actor"     => Ints = ActorInts /\ Floats = ActorFloats /\ Shows[kind] = ActorShows
  BY DEF Ints, IntsOf, Floats, FloatsOf, Shows

LEMMA ShownTables ==
  /\ kind = "object"    => IntsShown[kind] = ObjectIntsShown /\ FloatsShown[kind] = ObjectFloatsShown
  /\ kind = "pickup"    => IntsShown[kind] = PickupIntsShown /\ FloatsShown[kind] = PickupFloatsShown
  /\ kind = "cp"        => IntsShown[kind] = {} /\ FloatsShown[kind] = CpFloatsShown
  /\ kind = "raceCp"    => IntsShown[kind] = RaceIntsShown /\ FloatsShown[kind] = RaceFloatsShown
  /\ kind = "mapIcon"   => IntsShown[kind] = IconIntsShown /\ FloatsShown[kind] = IconFloatsShown
  /\ kind = "textLabel" => IntsShown[kind] = LabelIntsShown /\ FloatsShown[kind] = LabelFloatsShown
  /\ kind = "area"      => IntsShown[kind] = {} /\ FloatsShown[kind] = {}
  /\ kind = "actor"     => IntsShown[kind] = ActorIntsShown /\ FloatsShown[kind] = ActorFloatsShown
  BY DEF IntsShown, FloatsShown

LEMMA ShapeTables ==
  /\ shape = "circle"    => AreaFloats = {"Offset", "Size", "X"}
  /\ shape = "cylinder"  => AreaFloats = {"Offset", "Size", "X", "MaxZ", "MinZ"}
  /\ shape = "sphere"    => AreaFloats = {"Offset", "Size", "X", "Z"}
  /\ shape = "rectangle" => AreaFloats = {"Offset", "Max", "Min"}
  /\ shape = "cuboid"    => AreaFloats = {"Offset", "Max", "Min", "MaxZ", "MinZ"}
  /\ shape = "polygon"   => AreaFloats = {"Offset", "MaxZ", "MinZ"}
  BY DEF AreaFloats

KindOK == kind \in Kinds /\ (IsArea => shape \in Shapes)

DataOK ==
  /\ data \in [Names -> Int] /\ DOMAIN boxes = Sets
  /\ IsArea => DOMAIN copies = {}
  /\ IsGlobal => DOMAIN copies \ strayed \subseteq boxes["WorldId"]

Inv == KindOK /\ DataOK /\ CopiesAreCurrent /\ FiledByData

(* The kinds there are, and the types of area.                             *)
LEMMA KindCases ==
  ASSUME KindOK
  PROVE  /\ \/ kind = "object" \/ kind = "pickup" \/ kind = "cp" \/ kind = "raceCp"
            \/ kind = "mapIcon" \/ kind = "textLabel" \/ kind = "area" \/ kind = "actor"
         /\ IsArea => \/ shape = "circle" \/ shape = "cylinder" \/ shape = "sphere"
                      \/ shape = "rectangle" \/ shape = "cuboid" \/ shape = "polygon"
  BY KindsAssumption DEF KindOK

(* No datum has two types, and those of the position are numbers.          *)
LEMMA IntsApart ==
  ASSUME KindOK
  PROVE  /\ Ints \cap {"StreamDistance", "X", "Z", "Max", "Min", "MaxZ", "MinZ", "Size"} = {}
         /\ "SyncRotation" \notin Floats
         /\ Bases \subseteq Ints /\ Bases \subseteq Names /\ Bases \cap Floats = {}
  <1>1. IsArea => Floats \subseteq {"Offset", "Size", "X", "Z", "Max", "Min", "MaxZ", "MinZ"}
    BY KindCases, Tables, ShapeTables DEF IsArea
  <1>2. Ints \cap {"StreamDistance", "X", "Z", "Max", "Min", "MaxZ", "MinZ", "Size"} = {}
    BY KindCases, Tables
       DEF ObjectInts, PickupInts, CpInts, RaceInts, IconInts, LabelInts, AreaInts, ActorInts
  <1>3. \A n \in {"SyncRotation", "AttachedObject", "AttachedPlayer", "AttachedVehicle"} : n \notin Floats
    BY <1>1, KindCases, Tables
       DEF IsArea, ObjectFloats, PickupFloats, CpFloats, RaceFloats, IconFloats, LabelFloats, ActorFloats, Common
  <1>. QED  BY <1>2, <1>3 DEF Bases, Names

(* Of what is no area: what natives know of it, and that they know all its *)
(* copies show.                                                            *)
LEMMA ItemTables ==
  ASSUME KindOK, ~IsArea
  PROVE  /\ Shows[kind] \subseteq Names
         /\ {"StreamDistance", "X", "Z"} \subseteq Floats
         /\ "Max" \notin Names /\ "Min" \notin Names
         /\ "StreamDistance" \notin Shows[kind]
         /\ {"X", "Z"} \subseteq Shows[kind]
  <1>1. Shows[kind] \subseteq Names
    BY KindCases, Tables
       DEF IsArea, Names, Common, ObjectInts, PickupInts, CpInts, RaceInts, IconInts, LabelInts, ActorInts,
           ObjectFloats, PickupFloats, CpFloats, RaceFloats, IconFloats, LabelFloats, ActorFloats,
           ObjectShows, PickupShows, CpShows, RaceShows, IconShows, LabelShows, ActorShows
  <1>2. {"StreamDistance", "X", "Z"} \subseteq Floats /\ "Max" \notin Floats /\ "Min" \notin Floats
    BY KindCases, Tables
       DEF IsArea, Common,
           ObjectFloats, PickupFloats, CpFloats, RaceFloats, IconFloats, LabelFloats, ActorFloats
  <1>3. "StreamDistance" \notin Shows[kind] /\ {"X", "Z"} \subseteq Shows[kind]
    BY KindCases, Tables
       DEF IsArea, ObjectShows, PickupShows, CpShows, RaceShows, IconShows, LabelShows, ActorShows
  <1>. QED  BY <1>1, <1>2, <1>3, IntsApart DEF Names

(* A datum that is shown is one whose change is told the clients.          *)
LEMMA ShownIsTold ==
  ASSUME KindOK
  PROVE  /\ \A n \in Ints \ Bases : n \in Shows[kind] => n \in IntsShown[kind]
         /\ \A n \in Floats : n \in Shows[kind] => n \in FloatsShown[kind]
  <1>1. \A n \in Ints \ Bases : n \in Shows[kind] => n \in IntsShown[kind]
    BY KindCases, Tables, ShownTables
       DEF Bases, ObjectInts, PickupInts, CpInts, RaceInts, IconInts, LabelInts, AreaInts, ActorInts,
           ObjectShows, PickupShows, CpShows, RaceShows, IconShows, LabelShows, ActorShows,
           ObjectIntsShown, PickupIntsShown, RaceIntsShown, IconIntsShown, LabelIntsShown, ActorIntsShown
  <1>2. \A n \in Floats : n \in Shows[kind] => n \in FloatsShown[kind]
    BY KindCases, Tables, ShownTables
       DEF Common, ObjectFloats, PickupFloats, CpFloats, RaceFloats, IconFloats, LabelFloats, ActorFloats,
           ObjectShows, PickupShows, CpShows, RaceShows, IconShows, LabelShows, ActorShows,
           ObjectFloatsShown, PickupFloatsShown, CpFloatsShown, RaceFloatsShown, IconFloatsShown,
           LabelFloatsShown, ActorFloatsShown
  <1>. QED  BY <1>1, <1>2

-----------------------------------------------------------------------------
(* The operators.                                                          *)

(* A datum is changed.                                                     *)
LEMMA PutKeeps ==
  ASSUME NEW N, NEW d \in [N -> Int], NEW n, NEW v \in Int
  PROVE  /\ [d EXCEPT ![n] = v] \in [N -> Int]
         /\ n \in N => [d EXCEPT ![n] = v][n] = v
         /\ \A m \in N \ {n} : [d EXCEPT ![n] = v][m] = d[m]
  OBVIOUS

(* Data that agree on what copies show make the same copies.               *)
LEMMA CopySame ==
  ASSUME NEW d, NEW e, \A n \in Shows[kind] : e[n] = d[n]
  PROVE  Copy(e) = Copy(d)
  BY DEF Copy

(* Data that agree on the place, the size and the base are filed alike.    *)
LEMMA FiledSame ==
  ASSUME KindOK, NEW d, NEW e,
         \A n \in Bases \cup ({"StreamDistance", "Max", "Min", "Size", "X"} \cap Floats) : e[n] = d[n]
  PROVE  (Attached(e) <=> Attached(d)) /\ Filed(e) = Filed(d)
  <1>1. Attached(e) <=> Attached(d)
    BY DEF Attached
  <1>2. IsFar(e) <=> IsFar(d)
    <2>1. CASE ~IsArea
      BY <2>1, ItemTables DEF IsFar
    <2>2. CASE IsArea
      <3>1. "Max" \in Floats => "Min" \in Floats
        BY <2>2, KindCases, Tables, ShapeTables DEF IsArea
      <3>. QED  BY <2>2, <3>1 DEF IsFar
    <2>. QED  BY <2>1, <2>2
  <1>3. Place(e) = Place(d)
    BY DEF Place
  <1>. QED  BY <1>1, <1>2, <1>3 DEF Filed

(* Centring a text label keeps every datum but its position.               *)
LEMMA CentredKeeps ==
  ASSUME KindOK, NEW d \in [Names -> Int]
  PROVE  /\ Centred(d) \in [Names -> Int]
         /\ \A n \in Names \ {"X", "Z"} : Centred(d)[n] = d[n]
         /\ ~(kind = "textLabel" /\ Attached(d)) => Centred(d) = d
         /\ Attached(Centred(d)) <=> Attached(d)
  <1>1. Centred(d) \in [Names -> Int]
    <2>1. CASE Centred(d) = d
      BY <2>1
    <2>2. CASE Centred(d) = [d EXCEPT !["X"] = 0, !["Z"] = 0]
      <3>. DEFINE e == [d EXCEPT !["X"] = 0]
      <3>1. e \in [Names -> Int]
        BY PutKeeps
      <3>2. Centred(d) = [e EXCEPT !["Z"] = 0]
        BY <2>2
      <3>. HIDE DEF e
      <3>. QED  BY <3>1, <3>2, PutKeeps
    <2>. QED  BY <2>1, <2>2 DEF Centred
  <1>2. \A n \in Names \ {"X", "Z"} : Centred(d)[n] = d[n]
    BY DEF Centred
  <1>3. \A n \in Bases : n \in Names \ {"X", "Z"}
    BY IntsApart
  <1>4. Attached(Centred(d)) <=> Attached(d)
    BY <1>2, <1>3 DEF Attached
  <1>. QED  BY <1>1, <1>2, <1>4 DEF Centred

(* Making copies anew leaves none behind the data, save the strayed ones.  *)
LEMMA RemadeIsCurrent ==
  ASSUME DataOK, NEW d
  PROVE  /\ DOMAIN Remade(d) \subseteq DOMAIN copies
         /\ \A h \in DOMAIN Remade(d) \ strayed : Remade(d)[h] = Copy(d)
  BY DEF DataOK, Remade, IsGlobal

-----------------------------------------------------------------------------
(* The inductive invariant, in the next state.                             *)

LEMMA InvNext ==
  ASSUME KindOK, UNCHANGED <<kind, shape>>, data' \in [Names -> Int], DOMAIN boxes' = Sets,
         IsArea => DOMAIN copies' = {},
         IsGlobal => DOMAIN copies' \ strayed' \subseteq boxes'["WorldId"],
         \A h \in DOMAIN copies' \ strayed' : copies'[h] = Copy(data'),
         Attached(data') \/ cell' = Filed(data')
  PROVE  Inv'
  <1>1. KindOK'
    BY DEF KindOK, IsArea
  <1>2. /\ Names' = Names /\ Sets' = Sets /\ Bases' = Bases /\ Floats' = Floats
        /\ IsArea' = IsArea /\ IsGlobal' = IsGlobal
    BY DEF Names, Sets, Bases, Ints, Floats, FloatsOf, AreaFloats, IsArea, IsGlobal
  <1>3. DataOK'
    BY <1>2 DEF DataOK
  <1>4. CopiesAreCurrent'
    BY DEF CopiesAreCurrent, Copy
  <1>5. FiledByData'
    BY <1>2 DEF FiledByData, Attached, Filed, IsFar, Place
  <1>. QED  BY <1>1, <1>3, <1>4, <1>5 DEF Inv

(* A step that makes the copies anew, or changes nothing they show.        *)
LEMMA DataStep ==
  ASSUME Inv, UNCHANGED <<kind, shape, boxes, strayed>>, data' \in [Names -> Int],
         \/ copies' = Remade(data')
         \/ UNCHANGED copies /\ (IsArea \/ \A n \in Shows[kind] : data'[n] = data[n]),
         Attached(data') \/ cell' = Filed(data')
  PROVE  Inv'
  <1>. USE DEF Inv
  <1>1. DOMAIN copies' \subseteq DOMAIN copies
    BY RemadeIsCurrent
  <1>2. \A h \in DOMAIN copies' \ strayed' : copies'[h] = Copy(data')
    <2>1. CASE copies' = Remade(data')
      BY <2>1, RemadeIsCurrent
    <2>2. CASE UNCHANGED copies /\ IsArea
      BY <2>2 DEF DataOK
    <2>3. CASE UNCHANGED copies /\ \A n \in Shows[kind] : data'[n] = data[n]
      BY <2>3, CopySame DEF CopiesAreCurrent
    <2>. QED  BY <2>1, <2>2, <2>3
  <1>3. DOMAIN boxes' = Sets
    BY DEF DataOK
  <1>4. IsArea => DOMAIN copies' = {}
    BY <1>1 DEF DataOK
  <1>5. IsGlobal => DOMAIN copies' \ strayed' \subseteq boxes'["WorldId"]
    BY <1>1 DEF DataOK
  <1>. QED  BY <1>2, <1>3, <1>4, <1>5, InvNext

(* A step that changes neither data nor copies.                            *)
LEMMA OtherStep ==
  ASSUME Inv, UNCHANGED <<kind, shape, data, cell, copies>>, DOMAIN boxes' = Sets,
         strayed \subseteq strayed',
         IsGlobal => DOMAIN copies' \ strayed' \subseteq boxes'["WorldId"]
  PROVE  Inv'
  <1>1. \A h \in DOMAIN copies' \ strayed' : copies'[h] = Copy(data')
    BY DEF Inv, CopiesAreCurrent
  <1>2. data' \in [Names -> Int] /\ (IsArea => DOMAIN copies' = {})
    BY DEF Inv, DataOK
  <1>3. Attached(data') \/ cell' = Filed(data')
    BY DEF Inv, FiledByData
  <1>. QED  BY <1>1, <1>2, <1>3, InvNext DEF Inv

-----------------------------------------------------------------------------
(* The actions.                                                            *)

LEMMA InitInv == Init => Inv
  <1>. SUFFICES ASSUME Init PROVE Inv
    OBVIOUS
  <1>1. KindOK
    BY DEF Init, KindOK, IsArea
  <1>2. DataOK
    BY DEF Init, DataOK, Default, None
  <1>3. CopiesAreCurrent /\ FiledByData
    BY DEF Init, CopiesAreCurrent, FiledByData
  <1>. QED  BY <1>1, <1>2, <1>3 DEF Inv

(* A datum that has to do with neither base nor place.                     *)
LEMMA SetIntInv ==
  ASSUME Inv, NEW n, NEW v \in Flags, SetInt(n, v)
  PROVE  Inv'
  <1>. DEFINE d == [data EXCEPT ![n] = v]
  <1>1. n \in Ints \ Bases /\ UNCHANGED <<kind, shape, boxes, cell, strayed>>
    BY DEF SetInt
  <1>2. d \in [Names -> Int] /\ \A m \in Names \ {n} : d[m] = data[m]
    <2>1. data \in [Names -> Int] /\ v \in Int
      BY DEF Inv, DataOK, Flags
    <2>. QED  BY <2>1, PutKeeps
  <1>3. KindOK
    BY DEF Inv
  <1>4. Centred(d) \in [Names -> Int] /\ (Attached(Centred(d)) <=> Attached(d))
        /\ (~(kind = "textLabel" /\ Attached(d)) => Centred(d) = d)
    BY <1>2, <1>3, CentredKeeps
  <1>5. \A m \in Bases \cup ({"StreamDistance", "Max", "Min", "Size", "X"} \cap Floats) : d[m] = data[m]
    BY <1>1, <1>2, <1>3, IntsApart DEF Names
  <1>6. (Attached(d) <=> Attached(data)) /\ Filed(d) = Filed(data)
    BY <1>3, <1>5, FiledSame
  <1>7. Attached(data) \/ cell = Filed(data)
    BY DEF Inv, FiledByData
  <1>8. CASE n \in IntsShown[kind]
    <2>1. data' = Centred(d) /\ copies' = Remade(data')
      BY <1>8 DEF SetInt
    <2>. QED  BY <1>1, <1>4, <1>6, <1>7, <2>1, DataStep
  <1>9. CASE n \notin IntsShown[kind]
    <2>1. data' = d /\ UNCHANGED copies
      BY <1>9 DEF SetInt
    <2>2. IsArea \/ Shows[kind] \subseteq Names \ {n}
      BY <1>1, <1>3, <1>9, ItemTables, ShownIsTold
    <2>. QED  BY <1>1, <1>2, <1>6, <1>7, <2>1, <2>2, DataStep
  <1>. QED  BY <1>8, <1>9

(* What is attached may be filed anywhere.                                 *)
LEMMA AttachIntInv ==
  ASSUME Inv, NEW n, AttachInt(n)
  PROVE  Inv'
  <1>. DEFINE d(junk) == [m \in Names |->
                 CASE m \in Bases        -> IF m = n THEN 1 ELSE None
                   [] m = "SyncRotation" -> IF n = "AttachedObject" THEN 1 ELSE 0
                   [] m = "Offset"       -> junk
                   [] m = "AttachR"      -> 0
                   [] OTHER              -> data[m]]
  <1>1. n \in Bases /\ UNCHANGED <<kind, shape, boxes, cell, strayed>> /\ copies' = Remade(data')
    BY DEF AttachInt
  <1>2. PICK junk \in Flags : data' = Centred(d(junk))
    BY DEF AttachInt, Flags
  <1>3. KindOK /\ data \in [Names -> Int]
    BY DEF Inv, DataOK
  <1>4. d(junk) \in [Names -> Int]
    BY <1>3 DEF Flags, None
  <1>5. n \in Names
    BY <1>1, <1>3, IntsApart
  <1>6. Attached(d(junk))
    <2>1. d(junk)[n] = CASE n \in Bases        -> IF n = n THEN 1 ELSE None
                         [] n = "SyncRotation" -> IF n = "AttachedObject" THEN 1 ELSE 0
                         [] n = "Offset"       -> junk
                         [] n = "AttachR"      -> 0
                         [] OTHER              -> data[n]
      BY <1>5
    <2>2. n \notin {"SyncRotation", "Offset", "AttachR"}
      BY <1>1 DEF Bases
    <2>3. d(junk)[n] = 1
      BY <1>1, <2>1, <2>2
    <2>. QED  BY <1>1, <2>3 DEF Attached, None
  <1>. HIDE DEF d
  <1>7. data' \in [Names -> Int] /\ Attached(data')
    BY <1>2, <1>3, <1>4, <1>6, CentredKeeps
  <1>. QED  BY <1>1, <1>7, DataStep

LEMMA DetachIntInv ==
  ASSUME Inv, NEW n, DetachInt(n)
  PROVE  Inv'
  <1>1. data' \in [Names -> Int]
    BY DEF DetachInt, Inv, DataOK, None
  <1>2. cell' = Filed(data') /\ copies' = Remade(data') /\ UNCHANGED <<kind, shape, boxes, strayed>>
    BY DEF DetachInt, Unbound
  <1>. QED  BY <1>1, <1>2, DataStep

(* What is filed for its size stays so when it is moved: the cell of what  *)
(* is far off is no cell of a place.                                       *)
LEMMA FarStaysFar ==
  ASSUME KindOK, ~IsArea, NEW d \in [Names -> Int], NEW e \in [Names -> Int],
         e["StreamDistance"] = d["StreamDistance"], \A b \in Bases : e[b] = d[b],
         ~Attached(d), Filed(d) = GlobalCell
  PROVE  ~Attached(e) /\ Filed(e) = GlobalCell
  <1>1. ~Attached(e)
    BY DEF Attached
  <1>2. "X" \in Floats /\ "X" \in Names
    BY ItemTables DEF Names
  <1>3. Place(d) \in Int
    BY <1>2 DEF Place
  <1>4. IsFar(d)
    BY <1>3, CellsAssumption DEF Filed
  <1>5. IsFar(e)
    BY <1>4 DEF IsFar
  <1>. QED  BY <1>1, <1>5 DEF Filed

LEMMA SetFloatInv ==
  ASSUME Inv, NEW n, NEW v \in Flags, SetFloat(n, v)
  PROVE  Inv'
  <1>1. ~IsArea /\ n \in Floats /\ data' = [data EXCEPT ![n] = v]
        /\ UNCHANGED <<kind, shape, boxes, strayed>>
    BY DEF SetFloat
  <1>2. KindOK /\ data \in [Names -> Int] /\ (Attached(data) \/ cell = Filed(data))
    BY DEF Inv, DataOK, FiledByData
  <1>3. data' \in [Names -> Int] /\ \A m \in Names \ {n} : data'[m] = data[m]
    <2>1. v \in Int
      BY DEF Flags
    <2>. QED  BY <1>1, <1>2, <2>1, PutKeeps
  <1>4. \A b \in Bases : data'[b] = data[b]
    BY <1>1, <1>2, <1>3, IntsApart
  <1>5. Attached(data') <=> Attached(data)
    BY <1>4 DEF Attached
  <1>6. Attached(data') \/ cell' = Filed(data')
    <2>1. CASE cell' = Filed(data')
      BY <2>1
    <2>2. CASE n = "X" /\ cell = GlobalCell /\ UNCHANGED cell
      <3>1. data'["StreamDistance"] = data["StreamDistance"]
        BY <1>1, <1>2, <1>3, <2>2, ItemTables DEF Names
      <3>2. CASE ~Attached(data)
        <4>1. Filed(data) = GlobalCell
          BY <1>2, <2>2, <3>2
        <4>2. Filed(data') = GlobalCell
          BY <1>1, <1>2, <1>3, <1>4, <3>1, <3>2, <4>1, FarStaysFar
        <4>. QED  BY <2>2, <4>2
      <3>. QED  BY <1>5, <3>2
    <2>3. CASE n \notin {"StreamDistance", "X"} /\ UNCHANGED cell
      <3>1. \A m \in Bases \cup ({"StreamDistance", "Max", "Min", "Size", "X"} \cap Floats) :
              data'[m] = data[m] \/ (m = n /\ m = "Size")
        BY <1>1, <1>2, <1>3, <1>4, <2>3, ItemTables DEF Names
      <3>2. IsFar(data') <=> IsFar(data)
        BY <1>1, <1>2, <3>1, <2>3, ItemTables DEF IsFar
      <3>3. Place(data') = Place(data)
        BY <1>1, <1>2, <3>1, <2>3, ItemTables DEF Place
      <3>. QED  BY <1>2, <1>5, <2>3, <3>2, <3>3 DEF Filed
    <2>. QED  BY <2>1, <2>2, <2>3 DEF SetFloat
  <1>7. \/ copies' = Remade(data')
        \/ UNCHANGED copies /\ \A m \in Shows[kind] : data'[m] = data[m]
    <2>1. CASE n \in FloatsShown[kind]
      BY <2>1 DEF SetFloat
    <2>2. CASE n \notin FloatsShown[kind]
      <3>1. Shows[kind] \subseteq Names \ {n}
        BY <1>1, <1>2, <2>2, ItemTables, ShownIsTold
      <3>. QED  BY <1>3, <2>2, <3>1 DEF SetFloat
    <2>. QED  BY <2>1, <2>2
  <1>. QED  BY <1>1, <1>3, <1>6, <1>7, DataStep

(* Putting corners in order keeps them numbers.                            *)
LEMMA OrderedKeeps ==
  ASSUME NEW N, NEW d \in [N -> Int], NEW lo \in N, NEW hi \in N, lo # hi
  PROVE  /\ Ordered(d, lo, hi) \in [N -> Int]
         /\ \A m \in N \ {lo, hi} : Ordered(d, lo, hi)[m] = d[m]
         /\ Ordered(d, lo, hi)[lo] <= Ordered(d, lo, hi)[hi]
         /\ \/ Ordered(d, lo, hi)[lo] = d[lo] /\ Ordered(d, lo, hi)[hi] = d[hi]
            \/ Ordered(d, lo, hi)[lo] = d[hi] /\ Ordered(d, lo, hi)[hi] = d[lo]
  <1>1. CASE d[lo] > d[hi]
    <2>. DEFINE e == [d EXCEPT ![lo] = d[hi]]
    <2>1. e \in [N -> Int]
      OBVIOUS
    <2>2. Ordered(d, lo, hi) = [e EXCEPT ![hi] = d[lo]]
      BY <1>1 DEF Ordered
    <2>. QED  BY <1>1, <2>1, <2>2
  <1>2. CASE ~(d[lo] > d[hi])
    BY <1>2 DEF Ordered
  <1>. QED  BY <1>1, <1>2

(* The names of corners a shape has.                                       *)
LEMMA Corners ==
  ASSUME KindOK, IsArea
  PROVE  /\ shape \in {"rectangle", "cuboid"} <=> "Max" \in Floats
         /\ "Max" \in Floats <=> "Min" \in Floats
         /\ "Max" \in Floats => "Size" \notin Floats /\ "X" \notin Floats
         /\ shape = "cuboid" => {"Max", "Min", "MaxZ", "MinZ"} \subseteq Floats
         /\ shape = "rectangle" => "MaxZ" \notin Floats /\ "MinZ" \notin Floats
  BY KindCases, Tables, ShapeTables DEF IsArea

(* The corners of a box are put in order, and nothing else changes.        *)
LEMMA CorrectedKeeps ==
  ASSUME KindOK, IsArea, NEW d \in [Names -> Int]
  PROVE  /\ Corrected(d) \in [Names -> Int]
         /\ \A m \in Names \ {"Max", "Min", "MaxZ", "MinZ"} : Corrected(d)[m] = d[m]
         /\ shape = "rectangle" => Corrected(d) = Ordered(d, "Min", "Max")
         /\ shape = "cuboid" =>
              /\ Corrected(d)["Min"] <= Corrected(d)["Max"]
              /\ {Corrected(d)["Min"], Corrected(d)["Max"]} = {d["Min"], d["Max"]}
              /\ Corrected(d)["MinZ"] <= Corrected(d)["MaxZ"]
              /\ {Corrected(d)["MinZ"], Corrected(d)["MaxZ"]} = {d["MinZ"], d["MaxZ"]}
         /\ shape \notin {"rectangle", "cuboid"} => Corrected(d) = d
  <1>1. CASE shape = "rectangle"
    <2>1. Corrected(d) = Ordered(d, "Min", "Max")
      BY <1>1 DEF Corrected
    <2>2. "Min" \in Names /\ "Max" \in Names
      BY <1>1, Corners DEF Names
    <2>. QED  BY <1>1, <2>1, <2>2, OrderedKeeps
  <1>2. CASE shape = "cuboid"
    <2>. DEFINE e == Ordered(d, "Min", "Max")
    <2>1. Corrected(d) = Ordered(e, "MinZ", "MaxZ")
      BY <1>2 DEF Corrected
    <2>2. {"Max", "Min", "MaxZ", "MinZ"} \subseteq Names
      BY <1>2, Corners DEF Names
    <2>3. /\ e \in [Names -> Int] /\ \A m \in Names \ {"Min", "Max"} : e[m] = d[m]
          /\ e["Min"] <= e["Max"]
          /\ (e["Min"] = d["Min"] /\ e["Max"] = d["Max"]) \/ (e["Min"] = d["Max"] /\ e["Max"] = d["Min"])
      <3>1. "Min" \in Names /\ "Max" \in Names
        BY <2>2
      <3>. QED  BY <3>1, OrderedKeeps
    <2>. HIDE DEF e
    <2>4. /\ Ordered(e, "MinZ", "MaxZ") \in [Names -> Int]
          /\ \A m \in Names \ {"MinZ", "MaxZ"} : Ordered(e, "MinZ", "MaxZ")[m] = e[m]
          /\ Ordered(e, "MinZ", "MaxZ")["MinZ"] <= Ordered(e, "MinZ", "MaxZ")["MaxZ"]
          /\ \/ Ordered(e, "MinZ", "MaxZ")["MinZ"] = e["MinZ"] /\ Ordered(e, "MinZ", "MaxZ")["MaxZ"] = e["MaxZ"]
             \/ Ordered(e, "MinZ", "MaxZ")["MinZ"] = e["MaxZ"] /\ Ordered(e, "MinZ", "MaxZ")["MaxZ"] = e["MinZ"]
      <3>1. e \in [Names -> Int] /\ "MinZ" \in Names /\ "MaxZ" \in Names
        BY <2>2, <2>3
      <3>. QED  BY <3>1, OrderedKeeps
    <2>5. Corrected(d) \in [Names -> Int]
      BY <2>1, <2>4
    <2>6. \A m \in Names \ {"Max", "Min", "MaxZ", "MinZ"} : Corrected(d)[m] = d[m]
      BY <2>1, <2>3, <2>4
    <2>7. Corrected(d)["Min"] = e["Min"] /\ Corrected(d)["Max"] = e["Max"]
      BY <2>1, <2>2, <2>4
    <2>8. e["MinZ"] = d["MinZ"] /\ e["MaxZ"] = d["MaxZ"]
      BY <2>2, <2>3
    <2>. QED  BY <1>2, <2>1, <2>3, <2>4, <2>5, <2>6, <2>7, <2>8
  <1>3. CASE shape \notin {"rectangle", "cuboid"}
    BY <1>3 DEF Corrected
  <1>. QED  BY <1>1, <1>2, <1>3

LEMMA SetAreaFloatInv ==
  ASSUME Inv, NEW n, NEW v \in Flags, SetAreaFloat(n, v)
  PROVE  Inv'
  <1>1. IsArea /\ n \in Floats /\ UNCHANGED <<kind, shape, boxes, copies, strayed>>
    BY DEF SetAreaFloat
  <1>2. KindOK /\ data \in [Names -> Int] /\ v \in Int /\ (Attached(data) \/ cell = Filed(data))
    BY DEF Inv, DataOK, FiledByData, Flags
  <1>. DEFINE d == [data EXCEPT ![n] = v]
  <1>3. d \in [Names -> Int] /\ \A m \in Names \ {n} : d[m] = data[m]
    BY <1>2, PutKeeps
  <1>4. CASE n \in {"Max", "Min", "Size", "X"}
    <2>1. data' = Corrected(d) /\ cell' = Filed(data')
      BY <1>4 DEF SetAreaFloat
    <2>2. data' \in [Names -> Int]
      BY <1>1, <1>2, <1>3, <2>1, CorrectedKeeps
    <2>. QED  BY <1>1, <2>1, <2>2, DataStep
  <1>5. CASE n \notin {"Max", "Min", "Size", "X"}
    <2>1. data' = d /\ UNCHANGED cell
      BY <1>5 DEF SetAreaFloat
    <2>2. \A m \in Bases \cup ({"StreamDistance", "Max", "Min", "Size", "X"} \cap Floats) :
            m \in Names \ {n}
      <3>1. "StreamDistance" \notin Floats
        BY <1>1, <1>2, KindCases, Tables, ShapeTables DEF IsArea
      <3>. QED  BY <1>1, <1>2, <1>5, <3>1, IntsApart DEF Names
    <2>3. (Attached(d) <=> Attached(data)) /\ Filed(d) = Filed(data)
      BY <1>2, <1>3, <2>2, FiledSame
    <2>. QED  BY <1>1, <1>2, <1>3, <2>1, <2>3, DataStep
  <1>. QED  BY <1>4, <1>5

LEMMA SetItemPosInv ==
  ASSUME Inv, NEW x \in Flags, NEW z \in Flags, SetItemPos(x, z)
  PROVE  Inv'
  <1>1. UNCHANGED <<kind, shape, boxes, strayed>>
        /\ data' = [n \in Names |-> CASE n = "X" -> x [] n = "Z" -> z [] OTHER -> data[n]]
    BY DEF SetItemPos
  <1>2. KindOK /\ data \in [Names -> Int] /\ (Attached(data) \/ cell = Filed(data))
    BY DEF Inv, DataOK, FiledByData
  <1>3. /\ data' \in [Names -> Int]
        /\ \A m \in Names \ {"X", "Z"} : data'[m] = data[m]
        /\ "X" \in Names => data'["X"] = x
        /\ "Z" \in Names => data'["Z"] = z
    BY <1>1, <1>2 DEF Flags
  <1>4. \A b \in Bases : data'[b] = data[b]
    BY <1>2, <1>3, IntsApart
  <1>5. Attached(data') <=> Attached(data)
    BY <1>4 DEF Attached
  <1>6. Attached(data') \/ cell' = Filed(data')
    <2>1. CASE cell' = Filed(data')
      BY <2>1
    <2>2. CASE ~IsArea /\ ~Attached(data) /\ cell = GlobalCell /\ UNCHANGED cell
      <3>1. data'["StreamDistance"] = data["StreamDistance"]
        BY <1>2, <1>3, <2>2, ItemTables DEF Names
      <3>2. Filed(data) = GlobalCell
        BY <1>2, <2>2
      <3>. QED  BY <1>2, <1>3, <1>4, <2>2, <3>1, <3>2, FarStaysFar
    <2>3. CASE ~IsArea /\ x = data["X"] /\ UNCHANGED cell
      <3>1. \A m \in Bases \cup ({"StreamDistance", "Max", "Min", "Size", "X"} \cap Floats) :
              data'[m] = data[m]
        BY <1>2, <1>3, <1>4, <2>3 DEF Names
      <3>. QED  BY <1>2, <1>5, <2>3, <3>1, FiledSame
    <2>. QED  BY <1>5, <2>1, <2>2, <2>3 DEF SetItemPos
  <1>7. CASE kind = "object"
    <2>1. copies' = [h \in DOMAIN copies |-> [copies[h] EXCEPT !["X"] = x, !["Z"] = z]]
      BY <1>7 DEF SetItemPos
    <2>2. ~IsArea /\ ~IsGlobal
      BY <1>7 DEF IsArea, IsGlobal
    <2>3. Shows[kind] \subseteq Names /\ "X" \in Names /\ "Z" \in Names
      BY <1>2, <2>2, ItemTables DEF Names
    <2>4. [Copy(data) EXCEPT !["X"] = x, !["Z"] = z] = Copy(data')
      BY <1>2, <1>3, <2>3 DEF Copy
    <2>5. \A h \in DOMAIN copies' \ strayed' : copies'[h] = Copy(data')
      BY <1>1, <2>1, <2>4 DEF Inv, CopiesAreCurrent
    <2>6. DOMAIN boxes' = Sets
      BY <1>1 DEF Inv, DataOK
    <2>. QED  BY <1>1, <1>2, <1>3, <1>6, <2>2, <2>5, <2>6, InvNext
  <1>8. CASE kind # "object"
    <2>1. copies' = Remade(data')
      BY <1>8 DEF SetItemPos
    <2>. QED  BY <1>1, <1>3, <1>6, <2>1, DataStep
  <1>. QED  BY <1>7, <1>8

(* A set becomes another one: a world taken away strays its copy.          *)
LEMMA BoxBecomesInv ==
  ASSUME Inv, NEW n, NEW s, BoxBecomes(n, s)
  PROVE  Inv'
  <1>1. /\ UNCHANGED <<kind, shape, data, cell, copies>>
        /\ boxes' = [boxes EXCEPT ![n] = s]
        /\ strayed' = IF IsGlobal THEN strayed \cup (DOMAIN copies \ boxes'["WorldId"]) ELSE strayed
    BY DEF BoxBecomes
  <1>2. DOMAIN boxes' = Sets
    BY <1>1 DEF Inv, DataOK
  <1>3. strayed \subseteq strayed' /\ (IsGlobal => DOMAIN copies' \ strayed' \subseteq boxes'["WorldId"])
    BY <1>1
  <1>. QED  BY <1>1, <1>2, <1>3, OtherStep

LEMMA ExtraInv ==
  ASSUME Inv, UNCHANGED <<kind, shape, data, boxes, cell, copies, strayed>>
  PROVE  Inv'
  <1>1. DOMAIN boxes' = Sets /\ (IsGlobal => DOMAIN copies' \ strayed' \subseteq boxes'["WorldId"])
    BY DEF Inv, DataOK
  <1>. QED  BY <1>1, OtherStep

LEMMA StreamInInv ==
  ASSUME Inv, NEW h, StreamIn(h)
  PROVE  Inv'
  <1>1. ~IsArea /\ UNCHANGED <<kind, shape, data, boxes, cell, strayed>>
        /\ copies' = [i \in DOMAIN copies \cup {h} |-> IF i = h THEN Copy(data) ELSE copies[i]]
    BY DEF StreamIn
  <1>2. \A i \in DOMAIN copies' \ strayed' : copies'[i] = Copy(data')
    BY <1>1 DEF Inv, CopiesAreCurrent
  <1>3. IsGlobal => DOMAIN copies' \ strayed' \subseteq boxes'["WorldId"]
    BY <1>1 DEF Inv, DataOK, StreamIn
  <1>4. data' \in [Names -> Int] /\ DOMAIN boxes' = Sets /\ (Attached(data') \/ cell' = Filed(data'))
    BY <1>1 DEF Inv, DataOK, FiledByData
  <1>. QED  BY <1>1, <1>2, <1>3, <1>4, InvNext DEF Inv

LEMMA StreamOutInv ==
  ASSUME Inv, NEW h, StreamOut(h)
  PROVE  Inv'
  <1>1. UNCHANGED <<kind, shape, data, boxes, cell>> /\ strayed' = strayed \ {h}
        /\ copies' = [i \in DOMAIN copies \ {h} |-> copies[i]]
    BY DEF StreamOut
  <1>2. \A i \in DOMAIN copies' \ strayed' : copies'[i] = Copy(data')
    BY <1>1 DEF Inv, CopiesAreCurrent
  <1>3. /\ IsGlobal => DOMAIN copies' \ strayed' \subseteq boxes'["WorldId"]
        /\ IsArea => DOMAIN copies' = {}
    BY <1>1 DEF Inv, DataOK
  <1>4. data' \in [Names -> Int] /\ DOMAIN boxes' = Sets /\ (Attached(data') \/ cell' = Filed(data'))
    BY <1>1 DEF Inv, DataOK, FiledByData
  <1>. QED  BY <1>1, <1>2, <1>3, <1>4, InvNext DEF Inv

LEMMA ScriptInv ==
  ASSUME Inv, Script
  PROVE  Inv'
  <1>1. ASSUME NEW n, ScriptInt(n) PROVE Inv'
    BY <1>1, AttachIntInv, DetachIntInv, SetIntInv, BoxBecomesInv DEF ScriptInt, SetFirst
  <1>2. ASSUME NEW n, ScriptFloat(n) PROVE Inv'
    BY <1>2, SetFloatInv, SetAreaFloatInv DEF ScriptFloat
  <1>3. ASSUME NEW n, ScriptArray(n) PROVE Inv'
    BY <1>3, BoxBecomesInv DEF ScriptArray, SetArray, AppendArray, RemoveArray
  <1>4. ASSUME NEW x \in Flags, NEW z \in Flags, SetItemPos(x, z) PROVE Inv'
    BY <1>4, SetItemPosInv
  <1>5. ASSUME ScriptExtra PROVE Inv'
    <2>1. UNCHANGED <<kind, shape, data, boxes, cell, copies, strayed>>
      BY <1>5 DEF ScriptExtra, SetExtra, AppendExtra, RemoveFromExtra, RemoveExtra, SetExtraArray, ExtraBecomes
    <2>. QED  BY <2>1, ExtraInv
  <1>. QED  BY <1>1, <1>2, <1>3, <1>4, <1>5 DEF Script

LEMMA NextInv == Inv /\ [Next]_vars => Inv'
  <1>. SUFFICES ASSUME Inv, [Next]_vars PROVE Inv'
    OBVIOUS
  <1>1. CASE UNCHANGED vars
    BY <1>1, ExtraInv DEF vars
  <1>2. CASE Next
    BY <1>2, ScriptInv, StreamInInv, StreamOutInv DEF Next
  <1>. QED  BY <1>1, <1>2

THEOREM Invariant == Spec => []Inv
  BY InitInv, NextInv, PTL DEF Spec

(* Whatever is changed, by whichever native, what clients have of the item *)
(* is as its data say, except for copies in worlds it was taken out of.    *)
THEOREM NoCopyIsStale == Spec => []CopiesAreCurrent
  <1>1. Inv => CopiesAreCurrent
    BY DEF Inv
  <1>. QED  BY <1>1, Invariant, PTL

(* What is not attached is filed in the grid where its data say.           *)
THEOREM GridFollowsData == Spec => []FiledByData
  <1>1. Inv => FiledByData
    BY DEF Inv
  <1>. QED  BY <1>1, Invariant, PTL

-----------------------------------------------------------------------------
(* What is set is what is read.                                            *)

LEMMA SetIntReads ==
  ASSUME Inv, NEW n \in Names, NEW v \in Flags, SetInt(n, v)
  PROVE  /\ n \notin {"Max", "Min"} /\ data'[n] = v
         /\ \A m \in Names \ {n} :
              data'[m] = data[m] \/ (kind = "textLabel" /\ Attached(data) /\ m \in {"X", "Z"})
  <1>. DEFINE d == [data EXCEPT ![n] = v]
  <1>1. KindOK /\ data \in [Names -> Int] /\ v \in Int
    BY DEF Inv, DataOK, Flags
  <1>2. n \in Ints \ Bases /\ n \notin {"Max", "Min", "X", "Z"}
    BY <1>1, IntsApart DEF SetInt
  <1>3. d \in [Names -> Int] /\ d[n] = v /\ \A m \in Names \ {n} : d[m] = data[m]
    BY <1>1, PutKeeps
  <1>4. Attached(d) <=> Attached(data)
    BY <1>1, <1>2, <1>3, IntsApart DEF Attached
  <1>5. data' = d \/ data' = Centred(d)
    BY DEF SetInt
  <1>. HIDE DEF d
  <1>6. /\ \A m \in Names \ {"X", "Z"} : Centred(d)[m] = d[m]
        /\ ~(kind = "textLabel" /\ Attached(d)) => Centred(d) = d
    BY <1>1, <1>3, CentredKeeps
  <1>. QED  BY <1>2, <1>3, <1>4, <1>5, <1>6

LEMMA SetFloatReads ==
  ASSUME Inv, NEW n \in Names, NEW v \in Flags, SetFloat(n, v)
  PROVE  /\ n \notin {"Max", "Min"} /\ data'[n] = v
         /\ \A m \in Names \ {n} : data'[m] = data[m]
  <1>1. KindOK /\ data \in [Names -> Int] /\ v \in Int /\ ~IsArea /\ data' = [data EXCEPT ![n] = v]
    BY DEF Inv, DataOK, Flags, SetFloat
  <1>2. n \notin {"Max", "Min"}
    BY <1>1, ItemTables
  <1>. QED  BY <1>1, <1>2, PutKeeps

(* Setting a corner puts it and the other one in order; heights too.       *)
LEMMA SetCornerReads ==
  ASSUME Inv, NEW n \in {"Max", "Min"}, NEW v \in Flags, SetAreaFloat(n, v)
  PROVE  LET other == data[IF n = "Max" THEN "Min" ELSE "Max"] IN
         /\ data'["Min"] <= data'["Max"]
         /\ {data'["Min"], data'["Max"]} = {v, other}
         /\ shape = "cuboid" =>
              data'["MinZ"] <= data'["MaxZ"] /\ {data'["MinZ"], data'["MaxZ"]} = {data["MinZ"], data["MaxZ"]}
         /\ \A m \in Names \ {"Max", "Min", "MaxZ", "MinZ"} : data'[m] = data[m]
  <1>. DEFINE d == [data EXCEPT ![n] = v]
              other == data[IF n = "Max" THEN "Min" ELSE "Max"]
  <1>1. KindOK /\ data \in [Names -> Int] /\ v \in Int /\ IsArea /\ n \in Floats /\ data' = Corrected(d)
    BY DEF Inv, DataOK, Flags, SetAreaFloat
  <1>2. "Max" \in Names /\ "Min" \in Names /\ shape \in {"rectangle", "cuboid"}
    BY <1>1, Corners DEF Names
  <1>3. d \in [Names -> Int] /\ d[n] = v /\ \A m \in Names \ {n} : d[m] = data[m]
    BY <1>1, <1>2, PutKeeps
  <1>. HIDE DEF d
  <1>4. (d["Min"] = v /\ d["Max"] = other) \/ (d["Max"] = v /\ d["Min"] = other)
    BY <1>2, <1>3
  <1>. HIDE DEF other
  <1>5. \A m \in Names \ {"Max", "Min", "MaxZ", "MinZ"} : data'[m] = data[m]
    BY <1>1, <1>3, CorrectedKeeps
  <1>6. data'["Min"] <= data'["Max"]
    <2>1. CASE shape = "rectangle"
      BY <1>1, <1>2, <1>3, <2>1, CorrectedKeeps, OrderedKeeps
    <2>2. CASE shape = "cuboid"
      BY <1>1, <1>3, <2>2, CorrectedKeeps
    <2>. QED  BY <1>2, <2>1, <2>2
  <1>7. {data'["Min"], data'["Max"]} = {d["Min"], d["Max"]}
    <2>1. CASE shape = "rectangle"
      <3>1. data' = Ordered(d, "Min", "Max")
        BY <1>1, <1>3, <2>1, CorrectedKeeps
      <3>2. \/ data'["Min"] = d["Min"] /\ data'["Max"] = d["Max"]
            \/ data'["Min"] = d["Max"] /\ data'["Max"] = d["Min"]
        BY <1>2, <1>3, <3>1, OrderedKeeps
      <3>. QED  BY <3>2
    <2>2. CASE shape = "cuboid"
      <3>1. {Corrected(d)["Min"], Corrected(d)["Max"]} = {d["Min"], d["Max"]}
        BY <1>1, <1>3, <2>2, CorrectedKeeps
      <3>. QED  BY <1>1, <3>1, Zenon
    <2>. QED  BY <1>2, <2>1, <2>2
  <1>8. {data'["Min"], data'["Max"]} = {v, other}
    BY <1>4, <1>7
  <1>9. ASSUME shape = "cuboid"
        PROVE  data'["MinZ"] <= data'["MaxZ"] /\ {data'["MinZ"], data'["MaxZ"]} = {data["MinZ"], data["MaxZ"]}
    <2>1. d["MinZ"] = data["MinZ"] /\ d["MaxZ"] = data["MaxZ"]
      BY <1>1, <1>3, <1>9, Corners DEF Names
    <2>2. Corrected(d)["MinZ"] <= Corrected(d)["MaxZ"]
      BY <1>1, <1>3, <1>9, CorrectedKeeps
    <2>3. {Corrected(d)["MinZ"], Corrected(d)["MaxZ"]} = {d["MinZ"], d["MaxZ"]}
      BY <1>1, <1>3, <1>9, CorrectedKeeps
    <2>4. {data'["MinZ"], data'["MaxZ"]} = {data["MinZ"], data["MaxZ"]}
      BY <1>1, <2>1, <2>3, Zenon
    <2>. QED  BY <1>1, <2>2, <2>4
  <1>. QED  BY <1>5, <1>6, <1>8, <1>9 DEF other

LEMMA SetAreaFloatReads ==
  ASSUME Inv, NEW n \in Names \ {"Max", "Min"}, NEW v \in Flags, SetAreaFloat(n, v)
  PROVE  data'[n] = v /\ \A m \in Names \ {n} : data'[m] = data[m]
  <1>. DEFINE d == [data EXCEPT ![n] = v]
  <1>1. KindOK /\ data \in [Names -> Int] /\ v \in Int /\ IsArea /\ n \in Floats
    BY DEF Inv, DataOK, Flags, SetAreaFloat
  <1>2. data' = d
    <2>1. CASE n \in {"Size", "X"}
      <3>1. shape \notin {"rectangle", "cuboid"}
        BY <1>1, <2>1, Corners
      <3>. QED  BY <2>1, <3>1 DEF SetAreaFloat, Corrected
    <2>2. CASE n \notin {"Size", "X"}
      BY <2>2 DEF SetAreaFloat
    <2>. QED  BY <2>1, <2>2
  <1>. QED  BY <1>1, <1>2, PutKeeps

(* The first of a set with one member is that member; of all players or of *)
(* none at all it is none.                                                 *)
LEMMA SetFirstReads ==
  ASSUME Inv, NEW n \in Sets, NEW v \in Values, SetFirst(n, v)
  PROVE  Firsts(n)' = {v}
  <1>1. boxes' = [boxes EXCEPT ![n] = Added(n, {}, v)[1]] /\ DOMAIN boxes = Sets
    BY DEF SetFirst, BoxBecomes, Inv, DataOK
  <1>2. boxes'[n] = Added(n, {}, v)[1]
    BY <1>1
  <1>3. {0, 1} \subseteq Members /\ -1 \notin Members /\ Members \subseteq Int
    BY MembersAssumption
  <1>4. CASE v \in Members
    <2>1. boxes'[n] = {v}
      BY <1>2, <1>4 DEF Added
    <2>2. {v} # Members
      BY <1>3
    <2>3. v <= v
      BY <1>3, <1>4
    <2>. QED  BY <2>1, <2>2, <2>3 DEF Firsts
  <1>5. CASE v \notin Members
    <2>1. v = -1
      BY <1>5 DEF Values
    <2>2. boxes'[n] = IF n = "PlayerId" THEN Members ELSE {}
      BY <1>2, <1>5, <2>1 DEF Added
    <2>. QED  BY <2>1, <2>2 DEF Firsts
  <1>. QED  BY <1>4, <1>5

(* What a script sets is what it reads then, and no other datum changes,   *)
(* except as corners are put in order and attached text labels centred.    *)
THEOREM WhatIsSetIsRead == Spec => ReadsBack
  <1>1. ASSUME Inv
        PROVE  \A n \in Names, v \in Flags :
          SetInt(n, v) \/ SetFloat(n, v) \/ SetAreaFloat(n, v) =>
            IF n \in {"Max", "Min"}
            THEN LET other == data[IF n = "Max" THEN "Min" ELSE "Max"] IN
                 /\ data'["Min"] <= data'["Max"] /\ {data'["Min"], data'["Max"]} = {v, other}
                 /\ shape = "cuboid" =>
                      data'["MinZ"] <= data'["MaxZ"] /\ {data'["MinZ"], data'["MaxZ"]} = {data["MinZ"], data["MaxZ"]}
                 /\ \A m \in Names \ {"Max", "Min", "MaxZ", "MinZ"} : data'[m] = data[m]
            ELSE /\ data'[n] = v
                 /\ \A m \in Names \ {n} :
                      data'[m] = data[m] \/ (kind = "textLabel" /\ Attached(data) /\ m \in {"X", "Z"})
    <2>. TAKE n \in Names, v \in Flags
    <2>1. CASE n \in {"Max", "Min"}
      <3>1. ~SetInt(n, v) /\ ~SetFloat(n, v)
        BY <1>1, <2>1, SetIntReads, SetFloatReads
      <3>. QED  BY <1>1, <2>1, <3>1, SetCornerReads
    <2>2. CASE n \notin {"Max", "Min"}
      BY <1>1, <2>2, SetIntReads, SetFloatReads, SetAreaFloatReads
    <2>. QED  BY <2>1, <2>2
  <1>2. ASSUME Inv
        PROVE  \A n \in Sets, v \in Values : SetFirst(n, v) => Firsts(n)' = {v}
    BY <1>2, SetFirstReads
  <1>. QED  BY <1>1, <1>2, Invariant, PTL DEF ReadsBack

=============================================================================
