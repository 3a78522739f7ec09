-------------------------- MODULE MCScheduleChain --------------------------
(***************************************************************************)
(* ScheduleChain with a day of four minutes: windows that overlap and one  *)
(* that goes over midnight, a curve of two points, and a manual schedule.  *)
(***************************************************************************)
EXTENDS ScheduleChain, TLC

Base == [mode |-> "manual", day_start |-> 1, night_start |-> 3, curve |-> <<1, 2>>,
         windows |-> <<[start |-> 3, end |-> 1, action |-> "charge", power |-> 1],
                       [start |-> 0, end |-> 2, action |-> "discharge", power |-> -2]>>]

MCConfigs == {Base, [Base EXCEPT !.mode = "time_of_day"], [Base EXCEPT !.mode = "curve"]}
=============================================================================
