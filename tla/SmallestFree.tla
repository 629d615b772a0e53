------------------------------ MODULE SmallestFree ------------------------------
(***************************************************************************)
(* What an Identifier promises: whoever asks for a number gets the         *)
(* smallest positive one that nobody holds.                                *)
(***************************************************************************)
EXTENDS Integers

VARIABLE held     \* the numbers that are held

(* The smallest number not in S, which is 1 or follows one that is.        *)
Smallest(S) == CHOOSE n \in {1} \cup {m + 1 : m \in S} : n \notin S /\ 1 .. n - 1 \subseteq S

Init == held = {}

Take == held' = held \cup {Smallest(held)}
Give == \E S \in SUBSET held : S # {} /\ held' = held \ S

(* Numbers are given back to make room, and the next one taken.            *)
Exchange == \E S \in SUBSET held : S # {} /\ held' = (held \ S) \cup {Smallest(held \ S)}

Next == Take \/ Give \/ Exchange
Spec == Init /\ [][Next]_held

=============================================================================
