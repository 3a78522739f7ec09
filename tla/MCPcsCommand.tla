---------------------------- MODULE MCPcsCommand ----------------------------
(* Instances of PcsCommand for TLC.                                         *)
EXTENDS PcsCommand

(* Rest and the extremes of each sign. *)
MCPowers == {-32768, 0, 32767}
MCCommands == 1 .. MaxOrders
=============================================================================
