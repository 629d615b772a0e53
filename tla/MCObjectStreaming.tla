--------------------------- MODULE MCObjectStreaming ---------------------------
(* Instances of ObjectStreaming for TLC.                                   *)
EXTENDS ObjectStreaming

Line3 == 0..2

(* Attributes by object id; each cfg has as many objects as it names.      *)
SamePriority == [o \in Objects |-> 0]

Streamed2 == [o \in Objects |-> 2]                      \* one place around
OneStatic == [o \in Objects |-> IF o = 2 THEN -1 ELSE 1]

Kept3      == [o \in Objects |-> 3]
KeptStatic == [o \in Objects |-> IF o = 2 THEN -1 ELSE 2]

CellsOf1  == [o \in Objects |-> 1]
OneGlobal == [o \in Objects |-> IF o = 2 THEN 0 ELSE 1]

OneWorld  == [o \in Objects |-> {0}]
TwoWorlds == [o \in Objects |-> IF o = 1 THEN {0} ELSE {0, 1}]

Roaming  == [o \in Objects |-> {0, 2}]
OneRoams == [o \in Objects |-> IF o = 1 THEN {0, 2} ELSE {1}]

=============================================================================
