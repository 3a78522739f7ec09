----------------------------- MODULE Evaluator -----------------------------
(***************************************************************************)
(* scheduler/evaluator.py: what a schedule asks for at a time of the day.  *)
(* Power is positive for discharge and negative for charge.                *)
(***************************************************************************)
EXTENDS Integers, Sequences, FiniteSetsExt

CONSTANTS
  Day,      (* The minutes of a day.                                       *)
  Interval  (* The minutes of a point of the curve.                        *)

Minutes == 0 .. Day - 1

ASSUME DayAssumption ==
  Day \in Nat \ {0} /\ Interval \in Nat \ {0} /\ Day % Interval = 0

(* Slip: no window goes over midnight. *)
InWindowOfOneDay(now, window) == window.start <= now /\ now < window.end

(* _in_window(): half open; a window that ends before it starts goes over   *)
(* midnight.                                                                *)
InWindow(now, window) ==
  IF window.start < window.end
  THEN window.start <= now /\ now < window.end
  ELSE now >= window.start \/ now < window.end

(* The action gives the sign, whatever sign the file has. *)
Abs(n) == IF n < 0 THEN -n ELSE n
Signed(window) ==
  CASE window.action = "charge"    -> -Abs(window.power)
    [] window.action = "discharge" -> Abs(window.power)
    [] OTHER                       -> 0

Idle == [index |-> 0, action |-> "idle", power |-> 0]

(* evaluate_time_of_day(): the first window that holds the time. *)
TimeOfDay(now, windows) ==
  LET matching == {i \in DOMAIN windows : InWindow(now, windows[i])}
      first    == Min(matching)
  IN  IF matching = {} THEN Idle
      ELSE [index |-> first, action |-> windows[first].action, power |-> Signed(windows[first])]

(* evaluate_curve() *)
Curve(now, curve) ==
  LET index == now \div Interval
  IN  [index |-> index + 1, action |-> "curve", power |-> curve[index + 1]]

(* evaluate_day_night(): this one does not go over midnight. *)
DayOrNight(now, config) ==
  IF config.day_start <= now /\ now < config.night_start THEN "DAY" ELSE "NIGHT"

(* What the schedule asks for, in the two modes that plan the power. *)
Plan(now, config) ==
  IF config.mode = "time_of_day" THEN TimeOfDay(now, config.windows) ELSE Curve(now, config.curve)
-----------------------------------------------------------------------------
(* The reference: a window is on from its start for the minutes it takes to *)
(* come to its end, a whole day when both are the same.  (The schema lets   *)
(* "29:59" pass; for such a time there is no reference.)                    *)
Timely(window) == window.start \in Minutes /\ window.end \in Minutes
Length(window) ==
  LET minutes == (window.end - window.start) % Day IN IF minutes = 0 THEN Day ELSE minutes
On(window) == {(window.start + k) % Day : k \in 0 .. Length(window) - 1}
=============================================================================
