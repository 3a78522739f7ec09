-------------------------- MODULE MCSafetyManager --------------------------
(* Instances of SafetyManager for TLC.                                      *)
EXTENDS SafetyManager

AtRest == {"ACDB_FEEDBACK", "DOOR_SWITCH", "ESTOP_NC"}
EStop == {"ACDB_FEEDBACK", "DOOR_SWITCH", "ESTOP_NO"}
FireInFlood == AtRest \union {"SMOKE_DETECTOR", "HEAT_DETECTOR", "FLOOD_SENSOR"}

(* One channel of each pair, with the contactor and the door open. *)
HalfConfirmed == {"ESTOP_NO", "ESTOP_NC", "SMOKE_DETECTOR"}

(* Rest, each latch with and without another, and every advisory condition. *)
MCInputs == {AtRest, EStop, FireInFlood, HalfConfirmed}

(* For a counterexample: rest, an E-Stop and half of one. *)
MCFewInputs == {AtRest, EStop, HalfConfirmed}
=============================================================================
