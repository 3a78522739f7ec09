-------------------------- MODULE ControlManager --------------------------
(***************************************************************************)
(* The L4 control_manager process: the 1 Hz loop of loop.py around         *)
(* ControlStateMachine and the intelligence of intelligence.py.            *)
(*                                                                         *)
(* Every second the loop drains the operator requests, samples the PCS and *)
(* safety sections of the RTDB and the alarm events, ticks the state       *)
(* machine, ramps the setpoint, may ask for IDLE on a state-of-charge      *)
(* limit, and writes the system section.  Everything but that section is   *)
(* memory of the process, which may crash between any two steps.           *)
(***************************************************************************)
EXTENDS ControlStateMachine, AlarmTracking

CONSTANTS
  ChargeRamp, DischargeRamp   (* Largest change of the power in one tick.  *)

ASSUME RatesArePositive ==
  ChargeRamp \in Nat \ {0} /\ DischargeRamp \in Nat \ {0}

VARIABLES
  pc,             (* "tick": before steps 1-7 of _tick; "publish": before 8-10. *)
  seen,           (* What the last tick read of the PCS and of the safety DO.   *)
  ramped,         (* intelligence _last_setpoint_kw                             *)
  cutoff,         (* soc_cutoff_hit of the last evaluation.                     *)
  rtdb            (* control_state and active_setpoint_kw of the RTDB.          *)

vars == <<machine, pc, seen, alarm_severity, cooldown, ramped, cutoff, rtdb>>

Readings == [pcs : PcsStates, fault : BOOLEAN, emergency : BOOLEAN]

(* Powers between the extremes of the setpoints. *)
InRange(power) == \E low, high \in Setpoints : low <= power /\ power <= high

(* Variables stay in their domains, the timers and the retry counter within *)
(* their configured bounds, and no ramp leaves the range of the setpoints   *)
(* (loop.py __init__, state_machine.py _handle_fault_state,                 *)
(* intelligence.py _apply_ramp).                                            *)
TypeOK ==
  /\ MachineTypeOK
  /\ pc \in {"tick", "publish"} /\ seen \in Readings
  /\ TrackingTypeOK
  /\ ramped \in Int /\ InRange(ramped) /\ cutoff \in BOOLEAN
  /\ rtdb.control_state \in States
  /\ rtdb.active_setpoint_kw \in Int /\ InRange(rtdb.active_setpoint_kw)

Init ==
  /\ MachineInit
  /\ pc = "tick" /\ cutoff = FALSE /\ ramped = 0
  /\ seen = [pcs |-> "OFF", fault |-> FALSE, emergency |-> FALSE]
  /\ alarm_severity = "none" /\ cooldown = 0
  /\ rtdb = [control_state |-> "INIT", active_setpoint_kw |-> 0]

-----------------------------------------------------------------------------
(* Requests on the REP socket are served between two ticks, any number of   *)
(* them, in any order: _poll_commands() and _dispatch_command().            *)

Command ==
  /\ pc = "tick"
  /\ \/ \E target \in {"STANDBY", "IDLE"} : request_mode_change(target)
     \/ request_fault
     \/ \E power \in Setpoints : request_manual_setpoint(power)
     \/ request_fault_reset
     \/ request_maintenance_enter
     \/ request_maintenance_exit
  /\ UNCHANGED <<pc, seen, alarm_severity, cooldown, ramped, cutoff, rtdb>>

-----------------------------------------------------------------------------
(* Steps 1-7.                                                               *)

(* Slip: the alarm is tracked and never reaches the state machine. *)
InjectedByOperator(event) == pending_inject

(* Step 6: request_mode_change("fault") for as long as protection holds. *)
Injected(event) ==
  \/ pending_inject
  \/ SeverityAfter(event) = "protection" /\ state \notin Uninjectable

Tick ==
  /\ pc = "tick" /\ pc' = "publish"
  /\ \E reading \in Readings, event \in Severities :
       /\ seen' = reading
       /\ Track(event)
       /\ tick(reading.pcs, reading.fault, reading.emergency, Injected(event),
               rtdb.control_state)
  /\ UNCHANGED <<ramped, cutoff, rtdb>>

-----------------------------------------------------------------------------
(* Steps 8-10: evaluate(), the state-of-charge request, the RTDB write.     *)

(* An action alarm halves the power; protection leaves it to the FAULT trip. *)
Adjusted == IF alarm_severity = "action" THEN setpoint \div 2 ELSE setpoint

(* _apply_ramp(): at most one step towards the desired power. *)
Ramped(desired) == IF desired > ramped + ChargeRamp THEN ramped + ChargeRamp
                   ELSE IF desired < ramped - DischargeRamp
                   THEN ramped - DischargeRamp ELSE desired

(* The state of charge is beyond the limit of the direction in use, or not. *)
SocCutoff(hit) == cutoff' = hit /\ (hit => state \in {"CHARGING", "DISCHARGING"})

(* Slip: the cutoff is reported and nothing is requested. *)
RequestIdleNever == UNCHANGED pending_target

RequestIdle ==
  pending_target' = IF cutoff' /\ AcceptsTarget("IDLE") THEN "IDLE"
                    ELSE pending_target

Publish ==
  /\ pc = "publish" /\ pc' = "tick"
  /\ \E hit \in BOOLEAN : SocCutoff(hit)
  /\ RequestIdle
  /\ ramped' = Ramped(Adjusted)
  /\ rtdb' = [control_state |-> state, active_setpoint_kw |-> ramped']
  /\ UNCHANGED <<mode, pending_setpoint, lockout, pending_inject, recovery,
                 waited, issued, seen, alarm_severity, cooldown>>

(* A crash at any step, and the start that follows; the RTDB stays. *)
Restart ==
  /\ MachineRestart
  /\ pc' = "tick" /\ ramped' = 0 /\ cutoff' = FALSE
  /\ alarm_severity' = "none" /\ cooldown' = 0
  /\ UNCHANGED <<seen, rtdb>>

Next == Command \/ Tick \/ Publish \/ Restart

Spec == Init /\ [][Next]_vars

(* The loop never blocks: every tick and every write comes. *)
FairSpec == Spec /\ WF_vars(Tick) /\ WF_vars(Publish)

-----------------------------------------------------------------------------
(* What holds.                                                              *)

Ticks == pc = "tick" /\ pc' = "publish"

(* The state names what the power does: CHARGING and DISCHARGING have a     *)
(* power of their sign until they begin to stop, a stopping or locked-out   *)
(* machine has none, and only an IDLE machine is starting                   *)
(* (state_machine.py tick(), every branch).                                 *)
SetpointFollowsState ==
  /\ state = "CHARGING" /\ sub_state = "NONE" => setpoint > 0
  /\ state = "DISCHARGING" /\ sub_state = "NONE" => setpoint < 0
  /\ state = "MAINTENANCE" => setpoint = 0
  /\ sub_state = "STOPPING" => setpoint = 0 /\ state \in Dispatchable
  /\ sub_state = "STARTING" => state = "IDLE"

(* An accepted order still suits the state it meets at the next tick, also  *)
(* after later requests and faults: a power only where power may change,    *)
(* never against the direction in use, and a target only from its sources   *)
(* (state_machine.py request_mode_change(), request_manual_setpoint()).     *)
OrdersFit ==
  /\ pending_setpoint # NoOrder =>
       /\ state \in Dispatchable /\ sub_state = "NONE"
       /\ state = "CHARGING" => pending_setpoint >= 0
       /\ state = "DISCHARGING" => pending_setpoint <= 0
  /\ pending_target # "NONE" => AcceptsTarget(pending_target)

(* No order outlives the tick that follows it, whichever branch that tick   *)
(* takes: an order is served, overridden or dropped, never served late      *)
(* (state_machine.py tick()).                                               *)
OrdersNeverLinger ==
  pc = "publish" => pending_setpoint = NoOrder /\ pending_target = "NONE"

(* While a protection alarm or its cooldown lasts, nothing dispatches and   *)
(* no PCS sequence runs, whatever the operator asks                         *)
(* (loop.py _tick steps 3, 6 and 7).                                        *)
ProtectionStopsDispatch ==
  alarm_severity = "protection" => state \notin Dispatchable /\ sub_state = "NONE"

(* The direction of the power never reverses without STANDBY in between     *)
(* (state_machine.py request_manual_setpoint() and tick()).                 *)
NoDirectReversal ==
  [][/\ ~(state = "CHARGING" /\ state' = "DISCHARGING")
     /\ ~(state = "DISCHARGING" /\ state' = "CHARGING")]_vars

(* A tick ends in EMERGENCY exactly if it saw the safety outputs asserted,  *)
(* whatever else was due, and then sends nothing to the PCS and leaves no   *)
(* order behind (state_machine.py tick(), priority 1).                      *)
EmergencyWins ==
  [][Ticks =>
       /\ seen'.emergency <=> state' = "EMERGENCY"
       /\ state' = "EMERGENCY" =>
            /\ issued' = "NONE" /\ sub_state' = "NONE"
            /\ pending_setpoint' = NoOrder /\ pending_target' = "NONE"]_vars

(* The tick after a state-of-charge cutoff ends with no power asked for,    *)
(* even if an operator asked for power in between, unless it enters         *)
(* EMERGENCY (loop.py _tick step 9, state_machine.py tick()).               *)
CutoffStopsDispatch ==
  [][Ticks /\ cutoff => setpoint' = 0 \/ state' = "EMERGENCY"]_vars

(* Every FAULT_RESET is sent in FAULT and is either an operator's, which it *)
(* uses up, or one of the budgeted retries, and the budget comes back only  *)
(* with a new stay in FAULT (state_machine.py _handle_fault_state()).       *)
ResetsAreAccounted ==
  [][Ticks =>
       /\ issued' = "FAULT_RESET" =>
            /\ state = "FAULT" /\ state' = "FAULT"
            /\ (reset_requested /\ ~reset_requested') \/ retries' = retries + 1
       /\ state = "FAULT" /\ state' = "FAULT" => retries' >= retries]_vars

(* A start of the PCS ends, in STANDBY or in FAULT, even if the PCS never   *)
(* answers (state_machine.py _handle_starting_substate()).                  *)
StartingResolves == sub_state = "STARTING" ~> sub_state # "STARTING"

(* A stop comes to the OFF command, and ends if the PCS reports OFF time    *)
(* and again: there is no timeout, and pcs_shutdown_timeout_s has no effect *)
(* (state_machine.py _handle_stopping_substate()).                          *)
StoppingInsists == sub_state = "STOPPING" ~> sub_state # "STOPPING" \/ issued = "OFF"
StoppingResolves ==
  []<>(seen.pcs = "OFF") => (sub_state = "STOPPING" ~> sub_state # "STOPPING")

(* FAULT is left once the PCS stays healthy and operators stop asking for   *)
(* resets (state_machine.py _handle_fault_state()).                         *)
FaultRecovers ==
  <>[](seen.pcs # "FAULT" /\ ~seen.fault /\ ~reset_requested)
    => (state = "FAULT" ~> state # "FAULT")

(* In MAINTENANCE the published power comes down to zero                    *)
(* (intelligence.py _apply_ramp(), loop.py _tick step 10).                  *)
MaintenanceRampsDown ==
  state = "MAINTENANCE" ~> rtdb.active_setpoint_kw = 0 \/ state # "MAINTENANCE"

(* What the sequences come to, whatever the operators and the alarms do     *)
(* meanwhile: a start to its end although the PCS never answers; a stop to  *)
(* the OFF command, and to its end if the PCS reports OFF time and again (a *)
(* PCS that never does keeps the machine stopping for good: README, 4);     *)
(* MAINTENANCE to a published power of zero.                                *)
SequencesEnd ==
  StartingResolves /\ StoppingInsists /\ StoppingResolves /\ MaintenanceRampsDown
=============================================================================
