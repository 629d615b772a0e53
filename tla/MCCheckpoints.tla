----------------------------- MODULE MCCheckpoints -----------------------------
(* Instances of Checkpoints for TLC.  Checkpoints 1 and 2 stand apart and  *)
(* compete for the middle; 3 is a race checkpoint.                         *)
EXTENDS Checkpoints

Line3 == 0..2

RisingPriority == [c \in Ids |-> c]
Streamed2 == [c \in Ids |-> 2]
CellsOf1  == [c \in Ids |-> 1]
Apart     == [c \in Ids |-> IF c = 1 THEN {0} ELSE {2}]
OneRoams  == [c \in Ids |-> IF c = 1 THEN {0, 2} ELSE {c - 1}]

=============================================================================
