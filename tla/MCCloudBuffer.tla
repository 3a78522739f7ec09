--------------------------- MODULE MCCloudBuffer ---------------------------
(***************************************************************************)
(* CloudBuffer with five records over two hours.                           *)
(***************************************************************************)
EXTENDS CloudBuffer

MCKinds == <<"event", "telemetry", "event", "telemetry", "event">>
=============================================================================
