---------------------------- MODULE MCAlarmChain ----------------------------
(* Instances of AlarmChain for TLC.                                        *)
EXTENDS AlarmChain

CONSTANTS cell_voltage_low, cell_temp_high

MCSeverity == [a \in Alarms |-> IF a = cell_voltage_low THEN "protection" ELSE "action"]

On(ids, ticks) == [a \in ids |-> [enabled |-> TRUE, delay |-> ticks]]

(* Both rules; one with another delay and the other disabled; one removed. *)
MCConfigs ==
  {On(Alarms, 1),
   [On(Alarms, 0) EXCEPT ![cell_temp_high].enabled = FALSE],
   On({cell_voltage_low}, 2)}
=============================================================================
