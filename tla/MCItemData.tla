------------------------------- MODULE MCItemData -------------------------------
(* Instances of ItemData for TLC.                                          *)
EXTENDS ItemData

AllKinds  == {"object", "pickup", "cp", "raceCp", "mapIcon", "textLabel", "area", "actor"}
AllShapes == {"circle", "cylinder", "sphere", "rectangle", "cuboid", "polygon"}

(* One is taken as it is, the others name nothing in particular first, last. *)
ThreeArrays == {<<0, 1>>, <<-1, 0>>, <<0, -1>>}

=============================================================================
