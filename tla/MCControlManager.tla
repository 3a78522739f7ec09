------------------------ MODULE MCControlManager ------------------------
(* Instances of ControlManager for TLC.                                   *)
EXTENDS ControlManager

CONSTANT none

MCBothWays == {-4, 0, 4}
==========================================================================
