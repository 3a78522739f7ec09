--------------------------- MODULE AlarmTracking ---------------------------
(***************************************************************************)
(* What control_manager remembers of the alarms (loop.py of                *)
(* ems_control_manager): the worst severity it heard of, and a cooldown    *)
(* after which it forgets.  Messages carry a severity and the tracking     *)
(* looks at nothing else, neither at the alarm nor at what befell it.      *)
(***************************************************************************)
EXTENDS Integers

CONSTANT Cooldown   (* _PROTECTION_COOLDOWN_S, in ticks. *)

ASSUME CooldownIsPositive == Cooldown \in Nat \ {0}

VARIABLES
  alarm_severity, (* _last_alarm_severity                 *)
  cooldown        (* Ticks until _alarm_cooldown_until_s. *)

Severities == {"none", "warning", "action", "protection"}

TrackingTypeOK ==
  alarm_severity \in Severities \ {"warning"} /\ cooldown \in 0 .. Cooldown

Rank == [none |-> 0, warning |-> 1, action |-> 2, protection |-> 3]

Left == IF cooldown > 0 THEN cooldown - 1 ELSE 0

Worst(event) == IF event # "none" /\ Rank[event] >= Rank[alarm_severity]
                THEN event ELSE alarm_severity

CooldownAfter(event) ==
  IF event \in {"action", "protection"} /\ Rank[event] >= Rank[alarm_severity]
  THEN Cooldown ELSE Left

(* The worst severity holds until its cooldown ends; a warning has none. *)
SeverityAfter(event) == IF CooldownAfter(event) = 0 THEN "none" ELSE Worst(event)

(* Step 3 of _tick, where event is the worst severity heard since the last. *)
Track(event) ==
  /\ cooldown' = CooldownAfter(event)
  /\ alarm_severity' = SeverityAfter(event)
=============================================================================
