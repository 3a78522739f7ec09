------------------------ MODULE ControlStateMachine ------------------------
(***************************************************************************)
(* The dispatch state machine of the L4 control_manager                    *)
(* (src/control_manager/.../state_machine.py, class ControlStateMachine):  *)
(* the operator requests, which only leave a pending order or a flag, and  *)
(* tick(), which serves one of them in a fixed order of priority.          *)
(*                                                                         *)
(* One tick is one second of the 1 Hz loop.  Powers are integers, charging *)
(* positive.                                                               *)
(***************************************************************************)
EXTENDS Integers

CONSTANTS
  Setpoints,       (* The powers an operator may ask for.                  *)
  NoOrder,         (* No power is pending.                                 *)
  StartupTimeout,  (* pcs_startup_timeout_s, in ticks.                     *)
  RampHold,        (* _RAMP_HOLD_S, in ticks.                              *)
  FaultRetryCount  (* fault_retry_count.                                   *)

ASSUME SetpointsAreIntegers ==
  Setpoints \subseteq Int /\ 0 \in Setpoints /\ NoOrder \notin Int
ASSUME TimersAreNat ==
  /\ StartupTimeout \in Nat \ {0}
  /\ RampHold \in 0 .. StartupTimeout
  /\ FaultRetryCount \in Nat

States == {"INIT", "IDLE", "STANDBY", "CHARGING", "DISCHARGING", "FAULT",
           "EMERGENCY", "MAINTENANCE"}
SubStates == {"NONE", "STARTING", "STOPPING"}
PcsStates == {"OFF", "STANDBY", "RUNNING", "FAULT"}
PcsCommands == {"NONE", "ON", "OFF", "FAULT_RESET"}

Dispatchable == {"STANDBY", "CHARGING", "DISCHARGING"}

(* The states no fault trips, and those a fault request is refused in. *)
Untrippable == {"FAULT", "EMERGENCY", "MAINTENANCE", "INIT"}
Uninjectable == {"EMERGENCY", "FAULT", "MAINTENANCE"}

VARIABLES
  state, sub_state,
  setpoint,         (* _current_setpoint_kw                                *)
  pending_setpoint,
  pending_target,   (* _pending_target_state, or "NONE"                    *)
  pending_enter,    (* _pending_maintenance_enter                          *)
  pending_exit,     (* _pending_maintenance_exit                           *)
  pending_inject,   (* _pending_fault_inject                               *)
  reset_requested,  (* _fault_reset_requested                              *)
  retries,          (* _fault_retries_done                                 *)
  waited,           (* Ticks since _transition_start_s, while a PCS        *)
                    (* sequence runs, or _fault_retry_timer_s, in FAULT.   *)
  issued            (* The PCS command of the last tick's result.          *)

orders   == <<pending_setpoint, pending_target>>
lockout  == <<pending_enter, pending_exit>>
recovery == <<reset_requested, retries>>
mode     == <<state, sub_state, setpoint>>
machine  == <<state, sub_state, setpoint, pending_setpoint, pending_target,
              pending_enter, pending_exit, pending_inject, reset_requested,
              retries, waited, issued>>

FlagsOK ==
  /\ pending_enter \in BOOLEAN /\ pending_exit \in BOOLEAN
  /\ pending_inject \in BOOLEAN /\ reset_requested \in BOOLEAN

MachineTypeOK ==
  /\ FlagsOK
  /\ state \in States /\ sub_state \in SubStates
  /\ setpoint \in Setpoints /\ pending_setpoint \in Setpoints \union {NoOrder}
  /\ pending_target \in {"NONE", "STANDBY", "IDLE"}
  /\ retries \in 0 .. FaultRetryCount /\ waited \in 0 .. StartupTimeout
  /\ issued \in PcsCommands

MachineInit ==
  /\ state = "INIT" /\ sub_state = "NONE" /\ setpoint = 0
  /\ pending_setpoint = NoOrder /\ pending_target = "NONE"
  /\ pending_enter = FALSE /\ pending_exit = FALSE /\ pending_inject = FALSE
  /\ reset_requested = FALSE /\ retries = 0 /\ waited = 0 /\ issued = "NONE"

MachineRestart ==
  /\ state' = "INIT" /\ sub_state' = "NONE" /\ setpoint' = 0
  /\ pending_setpoint' = NoOrder /\ pending_target' = "NONE"
  /\ pending_enter' = FALSE /\ pending_exit' = FALSE /\ pending_inject' = FALSE
  /\ reset_requested' = FALSE /\ retries' = 0 /\ waited' = 0 /\ issued' = "NONE"

-----------------------------------------------------------------------------
(* Requests.  A refused request changes nothing.                            *)

Commandable == /\ state \notin {"EMERGENCY", "MAINTENANCE"}
               /\ sub_state = "NONE"

AcceptsTarget(target) ==
  /\ Commandable
  /\ \/ target = "STANDBY" /\ state \in {"IDLE", "CHARGING", "DISCHARGING"}
     \/ target = "IDLE" /\ state \in Dispatchable

request_mode_change(target) ==
  /\ AcceptsTarget(target)
  /\ pending_target' = target
  /\ UNCHANGED <<mode, pending_setpoint, lockout, pending_inject, recovery,
                 waited, issued>>

(* mode_change to "fault": accepted even while a PCS sequence runs. *)
request_fault ==
  /\ state \notin Uninjectable
  /\ pending_inject' = TRUE
  /\ UNCHANGED <<mode, orders, lockout, recovery, waited, issued>>

(* Slip: the direction of the power in use is not looked at. *)
request_manual_setpoint_any_way(power) ==
  /\ Commandable /\ state \in Dispatchable
  /\ pending_setpoint' = power
  /\ UNCHANGED <<mode, pending_target, lockout, pending_inject, recovery,
                 waited, issued>>

request_manual_setpoint(power) ==
  /\ Commandable /\ state \in Dispatchable
  /\ ~(state = "CHARGING" /\ power < 0)
  /\ ~(state = "DISCHARGING" /\ power > 0)
  /\ pending_setpoint' = power
  /\ UNCHANGED <<mode, pending_target, lockout, pending_inject, recovery,
                 waited, issued>>

request_fault_reset ==
  /\ state = "FAULT"
  /\ reset_requested' = TRUE
  /\ UNCHANGED <<mode, orders, lockout, pending_inject, retries, waited, issued>>

request_maintenance_enter ==
  /\ state # "EMERGENCY"
  /\ pending_enter' = TRUE
  /\ UNCHANGED <<mode, orders, pending_exit, pending_inject, recovery, waited,
                 issued>>

request_maintenance_exit ==
  /\ state = "MAINTENANCE"
  /\ pending_exit' = TRUE
  /\ UNCHANGED <<mode, orders, pending_enter, pending_inject, recovery, waited,
                 issued>>

-----------------------------------------------------------------------------
(* tick(), one disjunct per branch.  A branch is guarded by the failure of  *)
(* every branch above it.  emergency, fault and pcs are what this tick read *)
(* from the RTDB; inject is pending_fault_inject with the request that the  *)
(* loop itself makes just before it calls tick().                           *)

Elapsed == IF waited < StartupTimeout THEN waited + 1 ELSE waited

NoOrders == pending_setpoint' = NoOrder /\ pending_target' = "NONE"

EnterEmergency(emergency, inject) ==
  /\ emergency /\ state # "EMERGENCY"
  /\ state' = "EMERGENCY" /\ sub_state' = "NONE"
  /\ NoOrders /\ pending_enter' = FALSE
  /\ pending_inject' = inject
  /\ issued' = "NONE" /\ waited' = 0
  /\ UNCHANGED <<setpoint, pending_exit, recovery>>

LeaveEmergency(emergency, inject) ==
  /\ ~emergency /\ state = "EMERGENCY"
  /\ state' = "IDLE" /\ sub_state' = "NONE"
  /\ pending_inject' = inject
  /\ issued' = "NONE" /\ waited' = 0
  /\ UNCHANGED <<setpoint, orders, lockout, recovery>>

(* Slip: maintenance shields the machine from an emergency. *)
SteadyEmergencyUnlessLockedOut(emergency) ==
  emergency = (state = "EMERGENCY") \/ state = "MAINTENANCE"

(* Neither entering nor leaving EMERGENCY. *)
SteadyEmergency(emergency) == emergency = (state = "EMERGENCY")

(* An injected fault and a fault of the PCS trip alike. *)
Tripped(fault, inject) == (inject \/ fault) /\ state \notin Untrippable

EnterFault ==
  /\ state' = "FAULT" /\ sub_state' = "NONE"
  /\ retries' = 0 /\ reset_requested' = FALSE
  /\ waited' = 0 /\ issued' = "NONE"

Trip(emergency, fault, inject) ==
  /\ SteadyEmergency(emergency) /\ Tripped(fault, inject)
  /\ EnterFault
  /\ setpoint' = 0 /\ NoOrders /\ pending_inject' = FALSE
  /\ UNCHANGED lockout

(* What every branch below the trips starts from: a pending injection that  *)
(* could not trip is forgotten.                                             *)
Proceed(emergency, fault, inject) ==
  /\ SteadyEmergency(emergency) /\ ~Tripped(fault, inject)
  /\ pending_inject' = FALSE

-----------------------------------------------------------------------------
(* In FAULT: _handle_fault_state().                                         *)

ManualReset ==
  /\ reset_requested /\ reset_requested' = FALSE
  /\ issued' = "FAULT_RESET" /\ waited' = Elapsed
  /\ UNCHANGED <<mode, retries>>

(* Slip: only a PCS that runs again counts as recovered. *)
HealthyWhenRunning(pcs, fault) == ~fault /\ pcs = "RUNNING"

Healthy(pcs, fault) == ~fault /\ pcs \in {"OFF", "STANDBY", "RUNNING"}

Recover(pcs, fault) ==
  /\ ~reset_requested /\ Healthy(pcs, fault)
  /\ state' = "IDLE" /\ sub_state' = "NONE" /\ retries' = 0
  /\ issued' = "NONE" /\ waited' = 0
  /\ UNCHANGED <<setpoint, reset_requested>>

AutoRetry(pcs, fault) ==
  /\ ~reset_requested /\ ~Healthy(pcs, fault)
  /\ Elapsed >= StartupTimeout /\ retries < FaultRetryCount
  /\ retries' = retries + 1
  /\ issued' = "FAULT_RESET" /\ waited' = 0
  /\ UNCHANGED <<mode, reset_requested>>

StayInFault(pcs, fault) ==
  /\ ~reset_requested /\ ~Healthy(pcs, fault)
  /\ ~(Elapsed >= StartupTimeout /\ retries < FaultRetryCount)
  /\ issued' = "NONE" /\ waited' = Elapsed
  /\ UNCHANGED <<mode, recovery>>

HandleFaultState(pcs, fault) ==
  /\ state = "FAULT"
  /\ \/ ManualReset
     \/ Recover(pcs, fault)
     \/ AutoRetry(pcs, fault)
     \/ StayInFault(pcs, fault)
  /\ UNCHANGED <<orders, lockout>>

-----------------------------------------------------------------------------
(* In MAINTENANCE.                                                          *)

LeaveMaintenance ==
  /\ state = "MAINTENANCE" /\ pending_exit
  /\ pending_exit' = FALSE
  /\ state' = "IDLE" /\ sub_state' = "NONE"
  /\ issued' = "NONE" /\ waited' = 0
  /\ UNCHANGED <<setpoint, orders, pending_enter, recovery>>

StayInMaintenance ==
  /\ state = "MAINTENANCE" /\ ~pending_exit
  /\ issued' = "NONE" /\ waited' = 0
  /\ UNCHANGED <<mode, orders, lockout, recovery>>

-----------------------------------------------------------------------------
(* The PCS sequences.                                                       *)

Running == state \notin {"FAULT", "MAINTENANCE"}

Started(pcs) ==
  /\ Running /\ sub_state = "STARTING" /\ pcs = "RUNNING"
  /\ state' = "STANDBY" /\ sub_state' = "NONE"
  /\ issued' = "NONE" /\ waited' = 0
  /\ UNCHANGED <<setpoint, orders, lockout, recovery>>

StartTimesOut(pcs) ==
  /\ Running /\ sub_state = "STARTING" /\ pcs # "RUNNING"
  /\ Elapsed >= StartupTimeout
  /\ EnterFault
  /\ UNCHANGED <<setpoint, orders, lockout>>

(* Slip: every tick of the wait restarts the clock. *)
StillStartingAfresh(pcs) ==
  /\ Running /\ sub_state = "STARTING" /\ pcs # "RUNNING"
  /\ Elapsed < StartupTimeout
  /\ issued' = "NONE" /\ waited' = 0
  /\ UNCHANGED <<mode, orders, lockout, recovery>>

StillStarting(pcs) ==
  /\ Running /\ sub_state = "STARTING" /\ pcs # "RUNNING"
  /\ Elapsed < StartupTimeout
  /\ issued' = "NONE" /\ waited' = Elapsed
  /\ UNCHANGED <<mode, orders, lockout, recovery>>

HoldAtZero ==
  /\ Running /\ sub_state = "STOPPING" /\ Elapsed < RampHold
  /\ issued' = "NONE" /\ waited' = Elapsed
  /\ UNCHANGED <<mode, orders, lockout, recovery>>

(* Sent again on every tick until the PCS reports OFF. *)
SwitchOff(pcs) ==
  /\ Running /\ sub_state = "STOPPING" /\ Elapsed >= RampHold /\ pcs # "OFF"
  /\ issued' = "OFF" /\ waited' = Elapsed
  /\ UNCHANGED <<mode, orders, lockout, recovery>>

Stopped(pcs) ==
  /\ Running /\ sub_state = "STOPPING" /\ Elapsed >= RampHold /\ pcs = "OFF"
  /\ state' = "IDLE" /\ sub_state' = "NONE"
  /\ issued' = "NONE" /\ waited' = 0
  /\ UNCHANGED <<setpoint, orders, lockout, recovery>>

-----------------------------------------------------------------------------
(* Outside FAULT, MAINTENANCE and the sequences.                            *)

Settled == Running /\ sub_state = "NONE"

(* The state saved in the RTDB matters for MAINTENANCE only. *)
Boot(saved) ==
  /\ Settled /\ state = "INIT"
  /\ state' = IF saved = "MAINTENANCE" THEN "MAINTENANCE" ELSE "IDLE"
  /\ issued' = "NONE" /\ waited' = 0
  /\ UNCHANGED <<sub_state, setpoint, orders, lockout, recovery>>

EnterMaintenance(pcs) ==
  /\ Settled /\ state # "INIT" /\ pending_enter
  /\ pending_enter' = FALSE /\ NoOrders
  /\ state' = "MAINTENANCE" /\ sub_state' = "NONE" /\ setpoint' = 0
  /\ issued' = IF pcs # "OFF" THEN "OFF" ELSE "NONE"
  /\ waited' = 0
  /\ UNCHANGED <<pending_exit, recovery>>

(* A mode change or a power is due. *)
Ready == Settled /\ state # "INIT" /\ ~pending_enter

StartPcs ==
  /\ Ready /\ pending_target = "STANDBY" /\ state = "IDLE"
  /\ pending_target' = "NONE"
  /\ sub_state' = "STARTING" /\ waited' = 0 /\ issued' = "ON"
  /\ UNCHANGED <<state, setpoint, pending_setpoint, lockout, recovery>>

BackToStandby ==
  /\ Ready /\ pending_target = "STANDBY" /\ state \in {"CHARGING", "DISCHARGING"}
  /\ NoOrders
  /\ setpoint' = 0 /\ state' = "STANDBY"
  /\ issued' = "NONE" /\ waited' = 0
  /\ UNCHANGED <<sub_state, lockout, recovery>>

(* The state stays what it was until the PCS is off. *)
StopPcs ==
  /\ Ready /\ pending_target = "IDLE"
  /\ NoOrders
  /\ setpoint' = 0 /\ sub_state' = "STOPPING" /\ waited' = 0 /\ issued' = "NONE"
  /\ UNCHANGED <<state, lockout, recovery>>

StateFor(power) ==
  IF power > 0 THEN "CHARGING" ELSE IF power < 0 THEN "DISCHARGING" ELSE "STANDBY"

TakeSetpoint ==
  /\ Ready /\ pending_target = "NONE" /\ pending_setpoint # NoOrder
  /\ pending_setpoint' = NoOrder
  /\ setpoint' = pending_setpoint /\ state' = StateFor(pending_setpoint)
  /\ issued' = "NONE" /\ waited' = 0
  /\ UNCHANGED <<sub_state, pending_target, lockout, recovery>>

Steady ==
  /\ Ready /\ pending_target = "NONE" /\ pending_setpoint = NoOrder
  /\ issued' = "NONE" /\ waited' = 0
  /\ UNCHANGED <<mode, orders, lockout, recovery>>

tick(pcs, fault, emergency, inject, saved) ==
  \/ EnterEmergency(emergency, inject)
  \/ LeaveEmergency(emergency, inject)
  \/ Trip(emergency, fault, inject)
  \/ /\ Proceed(emergency, fault, inject)
     /\ \/ HandleFaultState(pcs, fault)
        \/ LeaveMaintenance \/ StayInMaintenance
        \/ Started(pcs) \/ StartTimesOut(pcs) \/ StillStarting(pcs)
        \/ HoldAtZero \/ SwitchOff(pcs) \/ Stopped(pcs)
        \/ Boot(saved) \/ EnterMaintenance(pcs)
        \/ StartPcs \/ BackToStandby \/ StopPcs
        \/ TakeSetpoint \/ Steady
=============================================================================
