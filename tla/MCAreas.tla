-------------------------------- MODULE MCAreas --------------------------------
(* Instances of Areas for TLC.                                             *)
EXTENDS Areas

Everyone == {Players}

=============================================================================
