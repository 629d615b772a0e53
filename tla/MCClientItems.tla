----------------------------- MODULE MCClientItems -----------------------------
(* Instances of ClientItems for TLC.                                       *)
EXTENDS ClientItems

StreamDistances == [icon |-> {2}, label |-> {Static, 1}]
VisibleLimits   == [icon |-> {2, 1}, label |-> {2}]

(* What disturbs the slots of map icons, and what changes labels.          *)
CallsByKind ==
  [icon  |-> {"create", "destroy", "destroyVisible", "limit", "chunks"},
   label |-> {"create", "destroy", "place", "distance", "static", "update"}]

=============================================================================
