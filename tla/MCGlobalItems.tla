----------------------------- MODULE MCGlobalItems -----------------------------
(* Instances of GlobalItems for TLC.                                       *)
EXTENDS GlobalItems, TLC

OneWorld   == {{0}}
TwoWorlds  == {{0}, {0, 1}}
AnyOrFirst == {{0}, {AnyWorld}}
Everyone   == {Players}
OneOrNone  == {{}, Players}

Symmetry == Permutations(ServerIds)

=============================================================================
