------------------------------ MODULE MCLogger ------------------------------
(***************************************************************************)
(* Logger with days of two hours and months of two days.                   *)
(***************************************************************************)
EXTENDS Logger
=============================================================================
