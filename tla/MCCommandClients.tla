-------------------------- MODULE MCCommandClients --------------------------
(***************************************************************************)
(* CommandClients with one manager: what the dispatcher and the HMI server *)
(* keep for one target does not depend on the others.                      *)
(***************************************************************************)
EXTENDS CommandClients

MCTargets == {"control"}
MCTokens  == {"k1", "k2"}
=============================================================================
