-------------------------------- MODULE ItemData --------------------------------
(***************************************************************************)
(* The data of an item, and the natives that read and change them by name. *)
(*                                                                         *)
(* Every kind of item has its own table of data in every one of the natives*)
(* Streamer_GetIntData, SetIntData, GetFloatData and SetFloatData, and its *)
(* own consequences of a change: the item may have to be filed again in the*)
(* grid, and what the clients have of it must be made anew.  The sets of   *)
(* worlds, players and so on are shared by all kinds, as are the arrays a  *)
(* script keeps with an item.                                              *)
(*                                                                         *)
(* One item is looked at, of any kind.  What exists of it is a copy for    *)
(* each client that has it or, for pickups and actors, for each world.     *)
(* Which ones there should be is up to streaming (see ObjectStreaming,     *)
(* Checkpoints, ClientItems and GlobalItems), and what moves and follows is*)
(* left to ObjectMotion.  X stands for X and Y, R for a rotation, Max and  *)
(* Min for the corners of a box, Offset and AttachR for those relative to  *)
(* what the item is attached to.  The names AttachOffsetX to -Z of a text  *)
(* label are other names of X and Z.  Areas, extras and interiors are sets *)
(* as worlds are, and may be left out of SetNames.  What the natives return*)
(* is left out, and so are the calls that change nothing.                  *)
(***************************************************************************)
EXTENDS Integers, Sequences, FiniteSets, SequencesExt

CONSTANTS
  Kinds,       \* the kinds of item looked at
  Shapes,      \* the types of area looked at
  Members,     \* ids of worlds, players and so on; MAX_PLAYERS is their number
  SetNames,    \* the sets looked at
  Arrays,      \* the arrays scripts set them to
  Clients,     \* players who may have a copy
  MaxCopies,   \* how many of them, or of worlds, have one at a time
  MaxChanged,  \* how many data are other than at first
  MaxArray,    \* how long the array of a script gets
  GlobalCell,
  AtBase       \* the cell of what is attached, wherever that is

ASSUME KindsAssumption ==
  /\ Kinds \subseteq {"object", "pickup", "cp", "raceCp", "mapIcon", "textLabel", "area", "actor"}
  /\ Shapes \subseteq {"circle", "cylinder", "sphere", "rectangle", "cuboid", "polygon"}
ASSUME MembersAssumption ==
  Cardinality(Members) \in Nat \ {0, 1} /\ Members = 0 .. Cardinality(Members) - 1
ASSUME SetsAssumption ==
  {"PlayerId", "WorldId"} \subseteq SetNames
  /\ SetNames \subseteq {"AreaId", "ExtraId", "InteriorId", "PlayerId", "WorldId"}
ASSUME CellsAssumption == GlobalCell \notin Int /\ AtBase \notin Int /\ GlobalCell # AtBase

VARIABLES
  kind,        \* what the item is
  shape,       \* Area::type
  data,        \* numbers, by name
  boxes,       \* areas, extras, interiors, players and worlds
  extra,       \* extraExtras, at one key: no array or one
  cell,        \* where it is filed
  copies,      \* what the clients have (internalObjects and so on)
  strayed      \* worlds with a copy that the item has been taken out of

vars == <<kind, shape, data, boxes, extra, cell, copies, strayed>>

None     == -1
Flags    == {0, 1}
IsGlobal == kind \in {"pickup", "actor"}
IsArea   == kind = "area"

-----------------------------------------------------------------------------
(* What Streamer_GetIntData knows of each kind, next to the sets.          *)

ObjectInts == {"AttachedObject", "AttachedPlayer", "AttachedVehicle", "ModelId", "Priority", "SyncRotation"}
PickupInts == {"ModelId", "Priority", "Type"}
CpInts     == {"Priority"}
RaceInts   == {"Priority", "Type"}
IconInts   == {"Color", "Priority", "Style", "Type"}
LabelInts  == {"AttachedPlayer", "AttachedVehicle", "Color", "Priority", "TestLOS"}
AreaInts   == {"AttachedObject", "AttachedPlayer", "AttachedVehicle", "Priority"}
ActorInts  == {"Invulnerable", "ModelId", "Priority"}

IntsOf == [object |-> ObjectInts, pickup |-> PickupInts, cp |-> CpInts, raceCp |-> RaceInts,
           mapIcon |-> IconInts, textLabel |-> LabelInts, area |-> AreaInts, actor |-> ActorInts]

(* What Streamer_GetFloatData knows of each kind.                          *)

Common       == {"StreamDistance", "X", "Z"}
ObjectFloats == Common \cup {"AttachR", "DrawDistance", "Offset", "R"}
PickupFloats == Common
CpFloats     == Common \cup {"Size"}
RaceFloats   == Common \cup {"Next", "Size"}
IconFloats   == Common
LabelFloats  == Common \cup {"DrawDistance"}
ActorFloats  == Common \cup {"Health", "R"}

(* Of an area, what its shape has.                                         *)
AreaFloats ==
  {"Offset"} \cup [circle |-> {"Size", "X"}, cylinder |-> {"Size", "X", "MaxZ", "MinZ"},
                   sphere |-> {"Size", "X", "Z"}, rectangle |-> {"Max", "Min"},
                   cuboid |-> {"Max", "Min", "MaxZ", "MinZ"}, polygon |-> {"MaxZ", "MinZ"}, none |-> {}][shape]

FloatsOf == [object |-> ObjectFloats, pickup |-> PickupFloats, cp |-> CpFloats, raceCp |-> RaceFloats,
             mapIcon |-> IconFloats, textLabel |-> LabelFloats, area |-> AreaFloats, actor |-> ActorFloats]

Ints   == IntsOf[kind]
Floats == FloatsOf[kind]
Names  == Ints \cup Floats
Bases  == {"AttachedObject", "AttachedPlayer", "AttachedVehicle"} \cap Ints
Sets   == SetNames \ (IF IsArea THEN {"AreaId"} ELSE {})

Attached(d) == \E b \in Bases : d[b] # None

-----------------------------------------------------------------------------
(* What copies are made with, in streaming.                                *)

ObjectShows == {"AttachR", "AttachedObject", "AttachedPlayer", "AttachedVehicle", "DrawDistance",
                "ModelId", "Offset", "R", "SyncRotation", "X", "Z"}
PickupShows == {"ModelId", "Type", "X", "Z"}
CpShows     == {"Size", "X", "Z"}
RaceShows   == {"Next", "Size", "Type", "X", "Z"}
IconShows   == {"Color", "Style", "Type", "X", "Z"}
LabelShows  == {"AttachedPlayer", "AttachedVehicle", "Color", "DrawDistance", "TestLOS", "X", "Z"}
ActorShows  == {"Health", "Invulnerable", "ModelId", "R", "X", "Z"}

Shows == [object |-> ObjectShows, pickup |-> PickupShows, cp |-> CpShows, raceCp |-> RaceShows,
          mapIcon |-> IconShows, textLabel |-> LabelShows, area |-> {}, actor |-> ActorShows]

Copy(d) == [n \in Shows[kind] |-> d[n]]

(* The copies when they are made anew: the client's checkpoint is disabled *)
(* instead, to be shown on an update; of pickups and actors, those in the  *)
(* worlds the item has.                                                    *)
Remade(d) ==
  IF kind \in {"cp", "raceCp"} THEN [h \in {} |-> Copy(d)]
  ELSE [h \in DOMAIN copies |->
          IF IsGlobal /\ h \notin boxes["WorldId"] THEN copies[h] ELSE Copy(d)]

StreamIn(h) ==
  /\ ~IsArea /\ h \notin DOMAIN copies /\ Cardinality(DOMAIN copies) < MaxCopies
  /\ IsGlobal => h \in boxes["WorldId"]
  /\ copies' = [i \in DOMAIN copies \cup {h} |-> IF i = h THEN Copy(data) ELSE copies[i]]
  /\ UNCHANGED <<kind, shape, data, boxes, extra, cell, strayed>>

StreamOut(h) ==
  /\ h \in DOMAIN copies
  /\ copies' = [i \in DOMAIN copies \ {h} |-> copies[i]]
  /\ strayed' = strayed \ {h}
  /\ UNCHANGED <<kind, shape, data, boxes, extra, cell>>

-----------------------------------------------------------------------------
(* The grid.                                                               *)

(* A box is as large as its corners are apart.                             *)
IsFar(d) ==
  IF ~IsArea THEN d["StreamDistance"] = 1
  ELSE IF "Max" \in Floats THEN d["Max"] # d["Min"] ELSE "Size" \in Floats /\ d["Size"] = 1

Place(d) == IF "X" \in Floats THEN d["X"] ELSE IF "Min" \in Floats THEN d["Min"] ELSE 0

(* Where the grid adds it.                                                 *)
Filed(d) == IF IsFar(d) THEN GlobalCell ELSE IF Attached(d) THEN AtBase ELSE Place(d)

-----------------------------------------------------------------------------
(* Streamer_SetIntData.                                                    *)

(* What is in copies of each kind and may be set; the attachments apart.   *)

ObjectIntsShown == {"ModelId", "SyncRotation"}
PickupIntsShown == {"ModelId", "Type"}
RaceIntsShown   == {"Type"}

(* Mutant: the style of a map icon is not shown.                           *)
IconIntsShown_NoStyle == {"Color", "Type"}
IconIntsShown == {"Color", "Style", "Type"}

LabelIntsShown  == {"Color", "TestLOS"}
ActorIntsShown  == {"Invulnerable", "ModelId"}

IntsShown == [object |-> ObjectIntsShown, pickup |-> PickupIntsShown, cp |-> {}, raceCp |-> RaceIntsShown,
              mapIcon |-> IconIntsShown, textLabel |-> LabelIntsShown, area |-> {}, actor |-> ActorIntsShown]

(* An attached text label is put at its base when it was far off it, which *)
(* is the same place as its position.                                      *)
Centred(d) ==
  IF kind = "textLabel" /\ Attached(d) /\ (d["X"] = 1 \/ d["Z"] = 1)
  THEN [d EXCEPT !["X"] = 0, !["Z"] = 0] ELSE d

(* Without a base that is an object there is no rotation to synchronize,   *)
(* and nothing to show.                                                    *)
SetInt(n, v) ==
  /\ n \in Ints \ Bases
  /\ n = "SyncRotation" => data["AttachedObject"] # None
  /\ LET d == [data EXCEPT ![n] = v] IN
     /\ data'   = IF n \in IntsShown[kind] THEN Centred(d) ELSE d
     /\ copies' = IF n \in IntsShown[kind] THEN Remade(data') ELSE copies
  /\ UNCHANGED <<kind, shape, boxes, extra, cell, strayed>>

(* A new attachment.  That of an area does not get an offset: it is what   *)
(* memory held.                                                            *)
AttachInt(n) ==
  /\ n \in Bases /\ ~(IsArea /\ n = "AttachedObject")
  /\ \E junk \in IF IsArea THEN Flags ELSE {0} :
       data' = Centred([m \in Names |->
                 CASE m \in Bases        -> IF m = n THEN 1 ELSE None
                   [] m = "SyncRotation" -> IF n = "AttachedObject" THEN 1 ELSE 0
                   [] m = "Offset"       -> junk
                   [] m = "AttachR"      -> 0
                   [] OTHER              -> data[m]])
  /\ copies' = Remade(data')
  /\ UNCHANGED <<kind, shape, boxes, extra, cell, strayed>>

(* Mutant: it stays in the cell of its base.                               *)
Unbound_Kept(d) == cell

(* Where it is filed when it is detached.                                  *)
Unbound(d) == Filed(d)

(* No base, when it is attached to one of that sort.                       *)
DetachInt(n) ==
  /\ n \in Bases /\ ~(IsArea /\ n = "AttachedObject") /\ data[n] # None
  /\ data' = [m \in Names |-> CASE m \in Bases -> None
                                [] m \in {"AttachR", "Offset", "SyncRotation"} -> 0
                                [] OTHER -> data[m]]
  /\ cell' = Unbound(data')
  /\ copies' = Remade(data')
  /\ UNCHANGED <<kind, shape, boxes, extra, strayed>>

-----------------------------------------------------------------------------
(* Streamer_SetFloatData.                                                  *)

ObjectFloatsShown == {"AttachR", "DrawDistance", "Offset", "R", "X", "Z"}
PickupFloatsShown == {"X", "Z"}
CpFloatsShown     == {"Size", "X", "Z"}
RaceFloatsShown   == {"Next", "Size", "X", "Z"}
IconFloatsShown   == {"X", "Z"}
LabelFloatsShown  == {"DrawDistance", "X", "Z"}
ActorFloatsShown  == {"Health", "R", "X", "Z"}

FloatsShown == [object |-> ObjectFloatsShown, pickup |-> PickupFloatsShown, cp |-> CpFloatsShown,
                raceCp |-> RaceFloatsShown, mapIcon |-> IconFloatsShown, textLabel |-> LabelFloatsShown,
                area |-> {}, actor |-> ActorFloatsShown]

(* What has no cell is not filed again for its position.                   *)
SetFloat(n, v) ==
  /\ ~IsArea /\ n \in Floats
  /\ n \in {"AttachR", "Offset"} => Attached(data)
  /\ data' = [data EXCEPT ![n] = v]
  /\ cell' = IF n = "StreamDistance" \/ (n = "X" /\ cell # GlobalCell) THEN Filed(data') ELSE cell
  /\ copies' = IF n \in FloatsShown[kind] THEN Remade(data') ELSE copies
  /\ UNCHANGED <<kind, shape, boxes, extra, strayed>>

(* Mutant: corners are taken as they come.                                 *)
Corrected_Not(d) == d

(* Two corners, as far as one coordinate goes, in order.                   *)
Ordered(d, lo, hi) == IF d[lo] > d[hi] THEN [d EXCEPT ![lo] = d[hi], ![hi] = d[lo]] ELSE d

(* The corners of a box are put in order, in height too.                   *)
Corrected(d) ==
  CASE shape = "rectangle" -> Ordered(d, "Min", "Max")
    [] shape = "cuboid"    -> Ordered(Ordered(d, "Min", "Max"), "MinZ", "MaxZ")
    [] OTHER               -> d

SetAreaFloat(n, v) ==
  /\ IsArea /\ n \in Floats
  /\ n = "Offset" => Attached(data)
  /\ IF n \in {"Max", "Min", "Size", "X"}
     THEN data' = Corrected([data EXCEPT ![n] = v]) /\ cell' = Filed(data')
     ELSE data' = [data EXCEPT ![n] = v] /\ UNCHANGED cell
  /\ UNCHANGED <<kind, shape, boxes, extra, copies, strayed>>

(* Streamer_SetItemPos.  The copy of an object is moved and not made anew. *)
SetItemPos(x, z) ==
  /\ IsArea => shape \in {"circle", "sphere"}
  /\ data' = [n \in Names |-> CASE n = "X" -> x [] n = "Z" -> z [] OTHER -> data[n]]
  /\ cell' = IF IsArea \/ (x # data["X"] /\ cell # GlobalCell) THEN Filed(data') ELSE cell
  /\ copies' = IF kind = "object"
               THEN [h \in DOMAIN copies |-> [copies[h] EXCEPT !["X"] = x, !["Z"] = z]]
               ELSE Remade(data')
  /\ UNCHANGED <<kind, shape, boxes, extra, strayed>>

-----------------------------------------------------------------------------
(* Sets: with no members, one restricts nothing, except that it needs all  *)
(* players to let all of them.                                             *)

(* addToContainer: <<what it is then, whether it was added>>.              *)
Added(n, s, v) ==
  IF v \in Members THEN <<s \cup {v}, 1>>
  ELSE <<IF n = "PlayerId" /\ v < 0 THEN Members ELSE {}, 0>>

(* removeFromContainer.                                                    *)
Removed(s, v) == IF v \in Members THEN s \ {v} ELSE {}

(* convertArrayToContainer: it stops at a value that is not added.         *)
Converted(n, q) ==
  FoldLeft(LAMBDA acc, v : IF acc[2] = 0 THEN acc ELSE Added(n, acc[1], v), <<{}, 1>>, q)[1]

(* getFirstValueInContainer: of a set, any.                                *)
Firsts(n) ==
  IF n = "PlayerId"
  THEN IF boxes[n] = Members THEN {-1}
       ELSE {v \in boxes[n] : \A w \in boxes[n] : v <= w} \cup (IF boxes[n] = {} THEN {Cardinality(Members)} ELSE {})
  ELSE IF boxes[n] = {} THEN {-1} ELSE boxes[n]

BoxBecomes(n, s) ==
  /\ boxes' = [boxes EXCEPT ![n] = s]
  /\ strayed' = IF IsGlobal THEN strayed \cup (DOMAIN copies \ boxes'["WorldId"]) ELSE strayed
  /\ UNCHANGED <<kind, shape, data, extra, cell, copies>>

(* Streamer_SetIntData of a set.                                           *)
SetFirst(n, v) == n \in Sets /\ BoxBecomes(n, Added(n, {}, v)[1])

(* Streamer_SetArrayData, AppendArrayData and RemoveArrayData of a set; the*)
(* last two are Streamer_ToggleItem too.                                   *)
SetArray(n, q)     == n \in Sets /\ BoxBecomes(n, Converted(n, q))
AppendArray(n, v)  == n \in Sets /\ BoxBecomes(n, Added(n, boxes[n], v)[1])
RemoveArray(n, v)  == n \in Sets /\ BoxBecomes(n, Removed(boxes[n], v))

-----------------------------------------------------------------------------
(* Arrays of scripts.                                                      *)

ExtraBecomes(arrays) ==
  /\ extra' = arrays
  /\ UNCHANGED <<kind, shape, data, boxes, cell, copies, strayed>>

(* Streamer_SetIntData.                                                    *)
SetExtra(v) == ExtraBecomes({<<v>>})

(* Streamer_RemoveIntData.                                                 *)
RemoveExtra == ExtraBecomes({})

(* Streamer_SetArrayData.                                                  *)
SetExtraArray(q) == ExtraBecomes({q})

(* Streamer_AppendArrayData, for an array there is.                        *)
AppendExtra(v) == \E q \in extra : Len(q) < MaxArray /\ ExtraBecomes({Append(q, v)})

(* Streamer_RemoveArrayData: the first of its kind, if there is one.       *)
RemoveFromExtra(v) ==
  \E q \in extra :
    LET at == {i \in DOMAIN q : q[i] = v} IN
    at # {} /\ ExtraBecomes({RemoveAt(q, CHOOSE i \in at : \A j \in at : i <= j)})

-----------------------------------------------------------------------------
Default(n) == IF n \in Bases THEN None ELSE 0

Init ==
  /\ kind \in Kinds
  /\ shape \in IF kind = "area" THEN Shapes ELSE {"none"}
  /\ data = [n \in Names |-> Default(n)]
  /\ boxes = [n \in Sets |-> IF n = "PlayerId" THEN Members
                             ELSE IF n = "WorldId" /\ IsGlobal THEN {-1} ELSE {}]
  /\ extra = {}
  /\ cell = Filed(data)
  /\ copies = [h \in {} |-> Copy(data)] /\ strayed = {}

Values == Members \cup {-1}

ScriptInt(n) ==
  \/ AttachInt(n) \/ DetachInt(n)
  \/ \E v \in Flags : SetInt(n, v)
  \/ \E v \in Values : SetFirst(n, v)

ScriptFloat(n) == \E v \in Flags : SetFloat(n, v) \/ SetAreaFloat(n, v)

ScriptArray(n) ==
  \/ \E q \in Arrays : SetArray(n, q)
  \/ \E v \in Values : AppendArray(n, v) \/ RemoveArray(n, v)

ScriptExtra ==
  \/ \E v \in Flags : SetExtra(v) \/ AppendExtra(v) \/ RemoveFromExtra(v)
  \/ RemoveExtra \/ \E v, w \in Flags : SetExtraArray(<<v, w>>)

Changed ==
  {n \in Names : data[n] # Default(n)}
  \cup {n \in Sets : boxes[n] # IF n = "PlayerId" THEN Members
                                ELSE IF n = "WorldId" /\ IsGlobal THEN {-1} ELSE {}}
  \cup (IF extra = {} THEN {} ELSE {"extra"})

AllNames == UNION {IntsOf[k] : k \in DOMAIN IntsOf} \cup
            {"AttachR", "DrawDistance", "Health", "Max", "MaxZ", "Min", "MinZ", "Next", "Offset", "R",
             "Size", "StreamDistance", "X", "Z"} \cup SetNames

Script ==
  /\ \/ \E n \in AllNames : ScriptInt(n) \/ ScriptFloat(n) \/ ScriptArray(n)
     \/ \E x, z \in Flags : SetItemPos(x, z)
     \/ ScriptExtra
  /\ Cardinality(Changed') <= MaxChanged

Next == Script \/ \E h \in Clients \cup Values : StreamIn(h) \/ StreamOut(h)

Spec == Init /\ [][Next]_vars

-----------------------------------------------------------------------------
(* Properties.                                                             *)

(* Whatever is changed, by whichever native, what clients have of the item *)
(* is as its data say; except for the copy of a pickup or actor in a world *)
(* that was taken from it since, even if it was given back before the next *)
(* update: then that copy stays as it is.                                  *)
CopiesAreCurrent == \A h \in DOMAIN copies \ strayed : copies[h] = Copy(data)

(* Until the base of an attached item is processed, which is not here, an  *)
(* item is filed where its data say, so that the players there find it.    *)
FiledByData == Attached(data) \/ cell = Filed(data)

(* What a script sets is what it reads then, under the same name and by    *)
(* either native for sets, and no other datum changes, except that a corner*)
(* set past the other trades places with it, as heights of a cuboid do that*)
(* were set past each other before, and that an attached text label may be *)
(* centred.                                                                *)
ReadsBack ==
  [][/\ \A n \in Names, v \in Flags :
          SetInt(n, v) \/ SetFloat(n, v) \/ SetAreaFloat(n, v) =>
            IF n \in {"Max", "Min"}
            THEN LET other == data[IF n = "Max" THEN "Min" ELSE "Max"] IN
                 /\ data'["Min"] <= data'["Max"] /\ {data'["Min"], data'["Max"]} = {v, other}
                 /\ shape = "cuboid" =>
                      data'["MinZ"] <= data'["MaxZ"] /\ {data'["MinZ"], data'["MaxZ"]} = {data["MinZ"], data["MaxZ"]}
                 /\ \A m \in Names \ {"Max", "Min", "MaxZ", "MinZ"} : data'[m] = data[m]
            ELSE /\ data'[n] = v
                 /\ \A m \in Names \ {n} :
                      data'[m] = data[m] \/ (kind = "textLabel" /\ Attached(data) /\ m \in {"X", "Z"})
     /\ \A n \in Sets, v \in Values : SetFirst(n, v) => Firsts(n)' = {v}]_vars

=============================================================================
