----------------------------- MODULE MCObjectMotion -----------------------------
(* Instances of ObjectMotion for TLC.                                      *)
EXTENDS ObjectMotion, TLC

Line2 == 0..2

(* One step at a time goes unnoticed.                                      *)
Neighbours == {p \in Line2 \X Line2 : Gap(p[1], p[2]) <= 1}

(* The first moves or is attached, the second is a base for it.            *)
OneOfTwo ==
  (1 :> {"destroy", "setPos", "move", "stop", "componentMove", "distance",
         "attach", "detach", "componentAttach", "data"})
  @@ (2 :> {"destroy", "setPos"})

(* Far is what is attached to something far away.                          *)
AllNear == (1 :> {"near"}) @@ (2 :> {"near"})

=============================================================================
