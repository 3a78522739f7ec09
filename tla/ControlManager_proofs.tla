------------------------ MODULE ControlManager_proofs ------------------------
(***************************************************************************)
(* Proofs about ControlManager, for any set of setpoints, any timeouts,    *)
(* ramp rates and cooldown, and any number of retries.                     *)
(***************************************************************************)
EXTENDS ControlManager, TLAPS

(***************************************************************************)
(* The alarm tracking of loop.py, for any cooldown.                        *)
(***************************************************************************)
(* A cooldown runs only for an alarm, so that a warning never meets one. *)
CooldownHasAlarm == alarm_severity = "none" => cooldown = 0

(* A step of the tracking stays in its types and keeps the two variables in *)
(* agreement, whatever was heard (loop.py _tick step 3).                    *)
LEMMA TrackStep ==
  ASSUME TrackingTypeOK, CooldownHasAlarm, NEW event \in Severities, Track(event)
  PROVE  TrackingTypeOK' /\ CooldownHasAlarm'
<1>1. CooldownAfter(event) \in 0 .. Cooldown
  BY CooldownIsPositive DEF CooldownAfter, Left, TrackingTypeOK
<1>2. Worst(event) \in Severities
  BY DEF Worst, TrackingTypeOK, Severities
<1>3. CooldownAfter(event) # 0 => Worst(event) \notin {"none", "warning"}
  <2>1. CASE event \in {"action", "protection"} /\ Rank[event] >= Rank[alarm_severity]
    BY <2>1 DEF Worst
  <2>2. CASE ~(event \in {"action", "protection"} /\ Rank[event] >= Rank[alarm_severity])
    <3> SUFFICES ASSUME CooldownAfter(event) # 0
                 PROVE  Worst(event) \notin {"none", "warning"}
      OBVIOUS
    <3>1. cooldown > 0
      BY <2>2 DEF CooldownAfter, Left, TrackingTypeOK
    <3>2. alarm_severity \in {"action", "protection"}
      BY <3>1 DEF CooldownHasAlarm, TrackingTypeOK, Severities
    <3>3. event = "warning" => ~(Rank[event] >= Rank[alarm_severity])
      BY <3>2 DEF Rank
    <3> QED BY <2>2, <3>2, <3>3 DEF Worst, Severities
  <2> QED BY <2>1, <2>2
<1>4. /\ SeverityAfter(event) \in Severities \ {"warning"}
      /\ SeverityAfter(event) = "none" => CooldownAfter(event) = 0
  BY <1>2, <1>3 DEF SeverityAfter, Severities
<1>5. cooldown' = CooldownAfter(event) /\ alarm_severity' = SeverityAfter(event)
  BY DEF Track
<1> QED BY <1>1, <1>4, <1>5 DEF TrackingTypeOK, CooldownHasAlarm
-----------------------------------------------------------------------------

(* An emergency forgets a lockout that was asked for. *)
EmergencyIsQuiet == state = "EMERGENCY" => ~pending_enter

MachineInv ==
  /\ MachineTypeOK
  /\ SetpointFollowsState
  /\ OrdersFit
  /\ EmergencyIsQuiet

(* A cutoff found while the power could be changed has a target pending. *)
CutoffIsOrdered ==
  pc = "tick" /\ cutoff =>
    /\ state \in {"CHARGING", "DISCHARGING"}
    /\ sub_state = "NONE" => pending_target # "NONE"

(* The inductive invariant. *)
IInv ==
  /\ TypeOK
  /\ CooldownHasAlarm
  /\ MachineInv
  /\ OrdersNeverLinger
  /\ ProtectionStopsDispatch
  /\ CutoffIsOrdered

-----------------------------------------------------------------------------
(* What a tick of the state machine does.                                   *)

(* What each branch of a tick establishes, next to FlagsOK. *)
Ticked(inject) ==
  /\ state' \in States /\ sub_state' \in SubStates /\ setpoint' \in Setpoints
  /\ retries' \in 0 .. FaultRetryCount /\ waited' \in 0 .. StartupTimeout
  /\ issued' \in PcsCommands
  /\ SetpointFollowsState' /\ EmergencyIsQuiet'
  /\ pending_setpoint' = NoOrder /\ pending_target' = "NONE"
  /\ inject /\ state \notin Uninjectable => state' \notin Dispatchable /\ sub_state' = "NONE"

LEMMA TickFlags ==
  ASSUME FlagsOK,
         NEW pcs, NEW fault, NEW emergency, NEW inject \in BOOLEAN, NEW saved,
         tick(pcs, fault, emergency, inject, saved)
  PROVE  FlagsOK'
<1> USE DEF FlagsOK, lockout, recovery
<1>1. CASE EnterEmergency(emergency, inject) \/ LeaveEmergency(emergency, inject)
  BY <1>1, Zenon DEF EnterEmergency, LeaveEmergency
<1>2. CASE Trip(emergency, fault, inject)
  BY <1>2, Zenon DEF Trip, EnterFault
<1>3. CASE Proceed(emergency, fault, inject) /\ HandleFaultState(pcs, fault)
  BY <1>3, Zenon DEF Proceed, HandleFaultState, ManualReset, Recover, AutoRetry, StayInFault
<1>4. CASE /\ Proceed(emergency, fault, inject)
           /\ \/ LeaveMaintenance \/ StayInMaintenance
              \/ Started(pcs) \/ StartTimesOut(pcs) \/ StillStarting(pcs)
              \/ HoldAtZero \/ SwitchOff(pcs) \/ Stopped(pcs)
  BY <1>4, Zenon DEF Proceed, LeaveMaintenance, StayInMaintenance, Started, EnterFault,
                     StartTimesOut, StillStarting, HoldAtZero, SwitchOff, Stopped
<1>5. CASE /\ Proceed(emergency, fault, inject)
           /\ \/ Boot(saved) \/ EnterMaintenance(pcs)
              \/ StartPcs \/ BackToStandby \/ StopPcs
              \/ TakeSetpoint \/ Steady
  BY <1>5, Zenon DEF Proceed, Boot, EnterMaintenance, StartPcs, BackToStandby, StopPcs,
                     TakeSetpoint, Steady
<1> QED BY <1>1, <1>2, <1>3, <1>4, <1>5, Zenon DEF tick

LEMMA TickBranches ==
  ASSUME MachineInv,
         NEW pcs, NEW fault, NEW emergency, NEW inject, NEW saved,
         tick(pcs, fault, emergency, inject, saved)
  PROVE  Ticked(inject)
<1> USE SetpointsAreIntegers, TimersAreNat
        DEF Ticked, MachineInv, MachineTypeOK, SetpointFollowsState, OrdersFit,
            EmergencyIsQuiet, AcceptsTarget, Commandable, States, SubStates,
            PcsCommands, Dispatchable, Uninjectable, Untrippable, Tripped,
            SteadyEmergency, Elapsed, Running, Settled, Ready, NoOrders,
            mode, orders, lockout, recovery
<1>1. CASE EnterEmergency(emergency, inject)
  BY <1>1 DEF EnterEmergency
<1>2. CASE LeaveEmergency(emergency, inject)
  BY <1>2 DEF LeaveEmergency
<1>3. CASE Trip(emergency, fault, inject)
  BY <1>3 DEF Trip, EnterFault
<1>4. CASE /\ Proceed(emergency, fault, inject)
           /\ HandleFaultState(pcs, fault)
  BY <1>4 DEF Proceed, HandleFaultState, ManualReset, Recover, AutoRetry, StayInFault
<1>5. CASE Proceed(emergency, fault, inject) /\ (LeaveMaintenance \/ StayInMaintenance)
  BY <1>5 DEF Proceed, LeaveMaintenance, StayInMaintenance
<1>6. CASE /\ Proceed(emergency, fault, inject)
           /\ Started(pcs) \/ StartTimesOut(pcs) \/ StillStarting(pcs)
  BY <1>6 DEF Proceed, Started, StartTimesOut, StillStarting, EnterFault
<1>7. CASE /\ Proceed(emergency, fault, inject)
           /\ HoldAtZero \/ SwitchOff(pcs) \/ Stopped(pcs)
  BY <1>7 DEF Proceed, HoldAtZero, SwitchOff, Stopped
<1>8. CASE Proceed(emergency, fault, inject) /\ (Boot(saved) \/ EnterMaintenance(pcs))
  BY <1>8 DEF Proceed, Boot, EnterMaintenance
<1>9. CASE /\ Proceed(emergency, fault, inject)
           /\ StartPcs \/ BackToStandby \/ StopPcs
  BY <1>9 DEF Proceed, StartPcs, BackToStandby, StopPcs
<1>10. CASE Proceed(emergency, fault, inject) /\ (TakeSetpoint \/ Steady)
  BY <1>10 DEF Proceed, TakeSetpoint, Steady, StateFor
<1> QED BY <1>1, <1>2, <1>3, <1>4, <1>5, <1>6, <1>7, <1>8, <1>9, <1>10 DEF tick

(* No tick leads from FAULT, EMERGENCY or MAINTENANCE into dispatch. *)
LEMMA TickFromUninjectable ==
  ASSUME MachineInv, state \in Uninjectable,
         NEW pcs, NEW fault, NEW emergency, NEW inject, NEW saved,
         tick(pcs, fault, emergency, inject, saved)
  PROVE  state' \notin Dispatchable /\ sub_state' = "NONE"
<1> USE DEF Uninjectable, Dispatchable, MachineInv, SetpointFollowsState, OrdersFit,
            AcceptsTarget, Commandable, Running, Settled, Ready, mode, MachineTypeOK, SubStates
<1>1. CASE EnterEmergency(emergency, inject) \/ LeaveEmergency(emergency, inject)
  BY <1>1 DEF EnterEmergency, LeaveEmergency
<1>2. CASE Trip(emergency, fault, inject)
  BY <1>2 DEF Trip, EnterFault
<1>3. CASE HandleFaultState(pcs, fault)
  BY <1>3 DEF HandleFaultState, ManualReset, Recover, AutoRetry, StayInFault
<1>4. CASE \/ LeaveMaintenance \/ StayInMaintenance
           \/ Started(pcs) \/ StartTimesOut(pcs) \/ StillStarting(pcs)
           \/ HoldAtZero \/ SwitchOff(pcs) \/ Stopped(pcs)
           \/ Boot(saved) \/ EnterMaintenance(pcs)
           \/ StartPcs \/ BackToStandby \/ StopPcs \/ TakeSetpoint \/ Steady
  BY <1>4 DEF LeaveMaintenance, StayInMaintenance, Started, StartTimesOut, StillStarting,
              HoldAtZero, SwitchOff, Stopped, Boot, EnterMaintenance, EnterFault,
              StartPcs, BackToStandby, StopPcs, TakeSetpoint, Steady
<1> QED BY <1>1, <1>2, <1>3, <1>4 DEF tick

(* A tick sees an emergency and is in EMERGENCY, or neither. *)
LEMMA TickEmergency ==
  ASSUME MachineInv,
         NEW pcs \in PcsStates, NEW fault \in BOOLEAN, NEW emergency \in BOOLEAN,
         NEW inject \in BOOLEAN, NEW saved \in States,
         tick(pcs, fault, emergency, inject, saved)
  PROVE  /\ emergency <=> state' = "EMERGENCY"
         /\ state' = "EMERGENCY" => issued' = "NONE" /\ sub_state' = "NONE"
<1> USE SetpointsAreIntegers
        DEF MachineInv, MachineTypeOK, SetpointFollowsState, OrdersFit,
            EmergencyIsQuiet, AcceptsTarget, Commandable, Dispatchable,
            SteadyEmergency, Running, Settled, Ready, mode
<1>1. CASE EnterEmergency(emergency, inject) \/ LeaveEmergency(emergency, inject)
  BY <1>1 DEF EnterEmergency, LeaveEmergency
<1>2. CASE Trip(emergency, fault, inject)
  BY <1>2 DEF Trip, EnterFault, Tripped, Untrippable
<1>3. CASE /\ Proceed(emergency, fault, inject)
           /\ HandleFaultState(pcs, fault)
  BY <1>3 DEF Proceed, HandleFaultState, ManualReset, Recover, AutoRetry, StayInFault
<1>4. CASE /\ Proceed(emergency, fault, inject)
           /\ \/ LeaveMaintenance \/ StayInMaintenance
              \/ Started(pcs) \/ StartTimesOut(pcs) \/ StillStarting(pcs)
              \/ HoldAtZero \/ SwitchOff(pcs) \/ Stopped(pcs)
              \/ Boot(saved) \/ EnterMaintenance(pcs)
              \/ StartPcs \/ BackToStandby \/ StopPcs
  BY <1>4 DEF Proceed, LeaveMaintenance, StayInMaintenance, Started, StartTimesOut,
              StillStarting, HoldAtZero, SwitchOff, Stopped, Boot, EnterFault,
              EnterMaintenance, StartPcs, BackToStandby, StopPcs
<1>5. CASE Proceed(emergency, fault, inject) /\ (TakeSetpoint \/ Steady)
  BY <1>5 DEF Proceed, TakeSetpoint, Steady, StateFor
<1> QED BY <1>1, <1>2, <1>3, <1>4, <1>5 DEF tick

(* No tick reverses the power, and one that meets a target or ends a stop   *)
(* asks for none.                                                           *)
LEMMA TickPower ==
  ASSUME MachineInv,
         NEW pcs, NEW fault, NEW emergency, NEW inject, NEW saved,
         tick(pcs, fault, emergency, inject, saved)
  PROVE  /\ ~(state = "CHARGING" /\ state' = "DISCHARGING")
         /\ ~(state = "DISCHARGING" /\ state' = "CHARGING")
         /\ /\ state \in {"CHARGING", "DISCHARGING"}
            /\ sub_state = "NONE" => pending_target # "NONE"
            => setpoint' = 0 \/ state' = "EMERGENCY"
<1> USE SetpointsAreIntegers
        DEF MachineInv, MachineTypeOK, SetpointFollowsState, OrdersFit,
            AcceptsTarget, Commandable, Dispatchable, SubStates, Running, Settled,
            Ready, mode
<1>1. CASE EnterEmergency(emergency, inject) \/ LeaveEmergency(emergency, inject)
  BY <1>1 DEF EnterEmergency, LeaveEmergency
<1>2. CASE Trip(emergency, fault, inject)
  BY <1>2 DEF Trip, EnterFault
<1>3. CASE HandleFaultState(pcs, fault) \/ LeaveMaintenance \/ StayInMaintenance
  BY <1>3 DEF HandleFaultState, LeaveMaintenance, StayInMaintenance
<1>4. CASE \/ Started(pcs) \/ StartTimesOut(pcs) \/ StillStarting(pcs)
           \/ HoldAtZero \/ SwitchOff(pcs) \/ Stopped(pcs)
  BY <1>4 DEF Started, StartTimesOut, StillStarting, HoldAtZero, SwitchOff, Stopped,
              EnterFault
<1>5. CASE \/ Boot(saved) \/ EnterMaintenance(pcs)
           \/ StartPcs \/ BackToStandby \/ StopPcs \/ Steady
  BY <1>5 DEF Boot, EnterMaintenance, StartPcs, BackToStandby, StopPcs, Steady
<1>6. CASE TakeSetpoint
  BY <1>6 DEF TakeSetpoint, StateFor
<1> QED BY <1>1, <1>2, <1>3, <1>4, <1>5, <1>6 DEF tick

(* FAULT_RESET comes from the two branches that account for it. *)
LEMMA TickResets ==
  ASSUME MachineInv,
         NEW pcs, NEW fault, NEW emergency, NEW inject, NEW saved,
         tick(pcs, fault, emergency, inject, saved)
  PROVE  /\ issued' = "FAULT_RESET" =>
              /\ state = "FAULT" /\ state' = "FAULT"
              /\ (reset_requested /\ ~reset_requested') \/ retries' = retries + 1
         /\ state = "FAULT" /\ state' = "FAULT" => retries' >= retries
<1>0. retries \in Nat
  BY TimersAreNat DEF MachineInv, MachineTypeOK
<1> USE DEF mode, recovery, Running, Settled, Ready
<1>1. CASE EnterEmergency(emergency, inject) \/ LeaveEmergency(emergency, inject)
  BY <1>1 DEF EnterEmergency, LeaveEmergency
<1>2. CASE Trip(emergency, fault, inject)
  BY <1>2 DEF Trip, EnterFault, Tripped, Untrippable
<1>3. CASE HandleFaultState(pcs, fault)
  <2>1. CASE state = "FAULT" /\ ManualReset
    <3>1. reset_requested /\ ~reset_requested'
      BY <2>1, Zenon DEF ManualReset
    <3> QED BY <1>0, <2>1, <3>1 DEF ManualReset
  <2>2. CASE state = "FAULT" /\ (Recover(pcs, fault) \/ AutoRetry(pcs, fault)
                               \/ StayInFault(pcs, fault))
    BY <1>0, <2>2 DEF Recover, AutoRetry, StayInFault
  <2> QED BY <1>3, <2>1, <2>2 DEF HandleFaultState
<1>4. CASE \/ LeaveMaintenance \/ StayInMaintenance
           \/ Started(pcs) \/ StartTimesOut(pcs) \/ StillStarting(pcs)
           \/ HoldAtZero \/ SwitchOff(pcs) \/ Stopped(pcs)
           \/ Boot(saved) \/ EnterMaintenance(pcs)
           \/ StartPcs \/ BackToStandby \/ StopPcs \/ TakeSetpoint \/ Steady
  BY <1>4 DEF LeaveMaintenance, StayInMaintenance, Started, StartTimesOut, StillStarting,
              HoldAtZero, SwitchOff, Stopped, Boot, EnterMaintenance, EnterFault,
              StartPcs, BackToStandby, StopPcs, TakeSetpoint, Steady
<1> QED BY <1>1, <1>2, <1>3, <1>4 DEF tick

-----------------------------------------------------------------------------
(* The ramp stays in range.                                                 *)

LEMMA HalfInRange ==
  ASSUME NEW power \in Setpoints
  PROVE  power \div 2 \in Int /\ InRange(power \div 2) /\ InRange(power)
<1>1. power \in Int /\ 0 \in Setpoints
  BY SetpointsAreIntegers
<1>2. power >= 0 => 0 <= power \div 2 /\ power \div 2 <= power
  BY <1>1
<1>3. power < 0 => power <= power \div 2 /\ power \div 2 <= 0
  BY <1>1
<1> QED BY <1>1, <1>2, <1>3 DEF InRange

LEMMA RampInRange ==
  ASSUME NEW desired \in Int, InRange(desired), ramped \in Int, InRange(ramped)
  PROVE  Ramped(desired) \in Int /\ InRange(Ramped(desired))
<1>1. PICK low1, high1 \in Setpoints : low1 <= desired /\ desired <= high1
  BY DEF InRange
<1>2. PICK low2, high2 \in Setpoints : low2 <= ramped /\ ramped <= high2
  BY DEF InRange
<1>3. Setpoints \subseteq Int
  BY SetpointsAreIntegers
<1>4. CASE desired > ramped + ChargeRamp
  <2>1. Ramped(desired) = ramped + ChargeRamp
    BY <1>4 DEF Ramped
  <2>2. /\ ramped + ChargeRamp \in Int
        /\ low2 <= ramped + ChargeRamp /\ ramped + ChargeRamp <= high1
    BY <1>1, <1>2, <1>3, <1>4, RatesArePositive
  <2> QED BY <2>1, <2>2 DEF InRange
<1>5. CASE desired < ramped - DischargeRamp
  <2>1. Ramped(desired) = ramped - DischargeRamp
    BY <1>5, RatesArePositive DEF Ramped
  <2>2. /\ ramped - DischargeRamp \in Int
        /\ low1 <= ramped - DischargeRamp /\ ramped - DischargeRamp <= high2
    BY <1>1, <1>2, <1>3, <1>5, RatesArePositive
  <2> QED BY <2>1, <2>2 DEF InRange
<1>6. CASE ~(desired > ramped + ChargeRamp) /\ ~(desired < ramped - DischargeRamp)
  BY <1>6 DEF Ramped
<1> QED BY <1>4, <1>5, <1>6

-----------------------------------------------------------------------------
(* The inductive invariant.                                                 *)

loop == <<pc, seen, alarm_severity, cooldown, ramped, cutoff, rtdb>>

LEMMA InitInv == Init => IInv
<1> SUFFICES ASSUME Init PROVE IInv
  OBVIOUS
<1> USE SetpointsAreIntegers, TimersAreNat, RatesArePositive, CooldownIsPositive DEF Init, MachineInit
<1>1. FlagsOK
  BY Zenon DEF FlagsOK
<1>2. MachineInv
  BY <1>1 DEF MachineInv, MachineTypeOK, SetpointFollowsState, OrdersFit,
              EmergencyIsQuiet, States, SubStates, PcsCommands, Dispatchable
<1>3. seen \in Readings /\ cutoff \in BOOLEAN
  BY DEF Readings, PcsStates
<1>4. TypeOK
  BY <1>2, <1>3 DEF TypeOK, TrackingTypeOK, MachineInv, InRange, Severities, States
<1> QED BY <1>2, <1>4 DEF IInv, OrdersNeverLinger, ProtectionStopsDispatch, CutoffIsOrdered,
                          CooldownHasAlarm

(* A request leaves an order that fits, and changes no state. *)
LEMMA CommandMachine ==
  ASSUME MachineInv, Command
  PROVE  /\ MachineInv'
         /\ UNCHANGED <<state, sub_state, setpoint>> /\ UNCHANGED loop /\ pc = "tick"
         /\ pending_target # "NONE" => pending_target' # "NONE"
<1> USE DEF MachineInv, mode, orders, lockout, recovery
<1>1. FlagsOK'
  BY Zenon DEF Command, MachineTypeOK, FlagsOK, request_mode_change, request_fault,
            request_manual_setpoint, request_fault_reset, request_maintenance_enter,
            request_maintenance_exit
<1>2. UNCHANGED loop /\ pc = "tick" /\ UNCHANGED <<state, sub_state, setpoint>>
  BY DEF Command, loop, request_mode_change, request_fault, request_manual_setpoint,
         request_fault_reset, request_maintenance_enter, request_maintenance_exit
<1> USE SetpointsAreIntegers
        DEF MachineTypeOK, SetpointFollowsState, OrdersFit, EmergencyIsQuiet,
            AcceptsTarget, Commandable, Dispatchable
<1>3. CASE \E target \in {"STANDBY", "IDLE"} : request_mode_change(target)
  BY <1>1, <1>2, <1>3 DEF request_mode_change
<1>4. CASE \E power \in Setpoints : request_manual_setpoint(power)
  BY <1>1, <1>2, <1>4 DEF request_manual_setpoint
<1>5. CASE \/ request_fault \/ request_fault_reset
           \/ request_maintenance_enter \/ request_maintenance_exit
  BY <1>1, <1>2, <1>5 DEF request_fault, request_fault_reset,
                          request_maintenance_enter, request_maintenance_exit
<1> QED BY <1>3, <1>4, <1>5 DEF Command

LEMMA CommandInv == IInv /\ Command => IInv'
<1> SUFFICES ASSUME IInv, Command PROVE IInv'
  OBVIOUS
<1>1. /\ MachineInv'
      /\ UNCHANGED <<state, sub_state, setpoint>> /\ UNCHANGED loop /\ pc = "tick"
      /\ pending_target # "NONE" => pending_target' # "NONE"
  BY CommandMachine DEF IInv
<1>2. TypeOK'
  BY <1>1 DEF IInv, TypeOK, TrackingTypeOK, MachineInv, InRange, loop
<1> QED BY <1>1, <1>2 DEF IInv, OrdersNeverLinger, ProtectionStopsDispatch,
                          CutoffIsOrdered, CooldownHasAlarm, loop

(* A tick reads the RTDB and the alarms and runs the state machine once. *)
LEMMA TickStep ==
  ASSUME TypeOK, CooldownHasAlarm, Tick
  PROVE  \E reading \in Readings, event \in Severities :
           /\ seen' = reading
           /\ TrackingTypeOK' /\ CooldownHasAlarm'
           /\ Injected(event) \in BOOLEAN
           /\ alarm_severity' = "protection" /\ state \notin Uninjectable => Injected(event)
           /\ tick(reading.pcs, reading.fault, reading.emergency, Injected(event),
                   rtdb.control_state)
<1>1. PICK reading \in Readings, event \in Severities :
        /\ seen' = reading
        /\ Track(event)
        /\ tick(reading.pcs, reading.fault, reading.emergency, Injected(event),
                rtdb.control_state)
  BY Zenon DEF Tick
<1>2. TrackingTypeOK' /\ CooldownHasAlarm'
  BY <1>1, TrackStep DEF TypeOK
<1>3. Injected(event) \in BOOLEAN
  BY Zenon DEF Injected, TypeOK, MachineTypeOK, FlagsOK
<1>4. SeverityAfter(event) = "protection" /\ state \notin Uninjectable => Injected(event)
  BY Zenon DEF Injected
<1>5. alarm_severity' = SeverityAfter(event)
  BY <1>1 DEF Track
<1> QED BY <1>1, <1>2, <1>3, <1>4, <1>5

LEMMA TickInv == IInv /\ Tick => IInv'
<1> SUFFICES ASSUME IInv, Tick PROVE IInv'
  OBVIOUS
<1>1. PICK reading \in Readings, event \in Severities :
        /\ seen' = reading
        /\ TrackingTypeOK' /\ CooldownHasAlarm'
        /\ Injected(event) \in BOOLEAN
        /\ alarm_severity' = "protection" /\ state \notin Uninjectable => Injected(event)
        /\ tick(reading.pcs, reading.fault, reading.emergency, Injected(event),
                rtdb.control_state)
  BY TickStep DEF IInv
<1>2. Ticked(Injected(event))
  BY <1>1, TickBranches DEF IInv
<1>3. FlagsOK'
  BY <1>1, TickFlags DEF IInv, MachineInv, MachineTypeOK
<1>4. MachineInv'
  BY <1>2, <1>3 DEF Ticked, MachineInv, MachineTypeOK, OrdersFit
<1>5. pc' = "publish" /\ UNCHANGED <<ramped, cutoff, rtdb>>
  BY DEF Tick
<1>6. TypeOK'
  BY <1>1, <1>4, <1>5 DEF IInv, TypeOK, TrackingTypeOK, MachineInv, InRange
<1>7. ProtectionStopsDispatch'
  <2>1. CASE state \in Uninjectable
    <3> SUFFICES ASSUME alarm_severity' = "protection"
                 PROVE  state' \notin Dispatchable /\ sub_state' = "NONE"
      BY DEF ProtectionStopsDispatch
    <3> QED BY <1>1, <2>1, TickFromUninjectable DEF IInv
  <2>2. CASE state \notin Uninjectable
    BY <1>1, <1>2, <2>2 DEF Ticked, ProtectionStopsDispatch
  <2> QED BY <2>1, <2>2
<1> QED BY <1>1, <1>2, <1>4, <1>5, <1>6, <1>7
         DEF IInv, Ticked, OrdersNeverLinger, CutoffIsOrdered

LEMMA PublishInv == IInv /\ Publish => IInv'
<1> SUFFICES ASSUME IInv, Publish PROVE IInv'
  OBVIOUS
<1>1. /\ pc = "publish" /\ pc' = "tick"
      /\ UNCHANGED <<state, sub_state, setpoint, pending_setpoint, pending_enter,
                     pending_exit, pending_inject, reset_requested, retries, waited,
                     issued, seen, alarm_severity, cooldown>>
  BY DEF Publish, mode, lockout, recovery
<1>2. RequestIdle
  BY DEF Publish
<1>3. cutoff' \in BOOLEAN /\ (cutoff' => state \in {"CHARGING", "DISCHARGING"})
  <2>1. PICK hit \in BOOLEAN : SocCutoff(hit)
    BY DEF Publish
  <2>2. cutoff' = hit /\ (hit => state \in {"CHARGING", "DISCHARGING"})
    BY <2>1 DEF SocCutoff
  <2> QED BY <2>2, Zenon
<1>4. ramped' = Ramped(Adjusted)
      /\ rtdb' = [control_state |-> state, active_setpoint_kw |-> ramped']
  BY DEF Publish
<1>5. FlagsOK'
  BY <1>1, Zenon DEF FlagsOK, IInv, MachineInv, MachineTypeOK
<1>6. MachineInv'
  BY <1>1, <1>2, <1>5 DEF IInv, MachineInv, MachineTypeOK, SetpointFollowsState, OrdersFit,
                    EmergencyIsQuiet, AcceptsTarget, Commandable, RequestIdle
<1>7. Adjusted \in Int /\ InRange(Adjusted)
  BY HalfInRange, SetpointsAreIntegers DEF IInv, MachineInv, MachineTypeOK, Adjusted
<1>8. ramped' \in Int /\ InRange(ramped')
  BY <1>4, <1>7, RampInRange DEF IInv, TypeOK
<1>9. TypeOK'
  <2>1. rtdb'.control_state \in States /\ rtdb'.active_setpoint_kw = ramped'
    BY <1>4 DEF IInv, MachineInv, MachineTypeOK
  <2>2. InRange(rtdb'.active_setpoint_kw) /\ rtdb'.active_setpoint_kw \in Int
    BY <1>8, <2>1
  <2> QED BY <1>1, <1>6, <1>8, <1>3, <2>1, <2>2 DEF IInv, TypeOK, TrackingTypeOK, MachineInv, InRange
<1>10. CutoffIsOrdered'
  BY <1>1, <1>3, <1>2 DEF CutoffIsOrdered, AcceptsTarget, Commandable, Dispatchable,
                            RequestIdle, IInv, MachineInv, MachineTypeOK, SubStates
<1> QED BY <1>1, <1>6, <1>9, <1>10
         DEF IInv, OrdersNeverLinger, ProtectionStopsDispatch, CooldownHasAlarm

LEMMA RestartInv == IInv /\ Restart => IInv'
<1> SUFFICES ASSUME IInv, Restart PROVE IInv'
  OBVIOUS
<1> USE SetpointsAreIntegers, TimersAreNat, RatesArePositive, CooldownIsPositive
<1>1. FlagsOK' /\ cutoff' \in BOOLEAN
  BY Zenon DEF FlagsOK, Restart, MachineRestart
<1>2. MachineInv'
  BY <1>1 DEF Restart, MachineRestart, MachineInv, MachineTypeOK, SetpointFollowsState,
              OrdersFit, EmergencyIsQuiet, States, SubStates, PcsCommands, Dispatchable
<1>3. /\ pc' = "tick" /\ cutoff' = FALSE /\ ramped' = 0
      /\ alarm_severity' = "none" /\ cooldown' = 0 /\ UNCHANGED <<seen, rtdb>>
  BY DEF Restart
<1>4. TypeOK'
  <2>1. ramped' \in Int /\ InRange(ramped')
    BY <1>3 DEF InRange
  <2>3. MachineTypeOK'
    BY <1>2 DEF MachineInv
  <2>2. InRange(rtdb'.active_setpoint_kw)
    BY <1>3 DEF IInv, TypeOK, InRange
  <2>4. /\ seen' \in Readings /\ rtdb'.control_state \in States
        /\ rtdb'.active_setpoint_kw \in Int
    BY <1>3 DEF IInv, TypeOK
  <2> QED BY <1>1, <1>3, <2>1, <2>2, <2>3, <2>4 DEF TypeOK, TrackingTypeOK, Severities
<1>5. ~cutoff'
  BY <1>3, Zenon
<1> QED BY <1>2, <1>3, <1>4, <1>5 DEF IInv, OrdersNeverLinger, ProtectionStopsDispatch,
                                      CutoffIsOrdered, CooldownHasAlarm

LEMMA StepInv == IInv /\ [Next]_vars => IInv'
<1> SUFFICES ASSUME IInv, [Next]_vars PROVE IInv'
  OBVIOUS
<1>1. CASE UNCHANGED vars
  BY <1>1 DEF vars, machine, IInv, TypeOK, TrackingTypeOK, InRange, MachineInv, MachineTypeOK, FlagsOK,
              SetpointFollowsState, OrdersFit, EmergencyIsQuiet, AcceptsTarget, Commandable,
              OrdersNeverLinger, ProtectionStopsDispatch, CutoffIsOrdered, CooldownHasAlarm
<1> QED BY <1>1, CommandInv, TickInv, PublishInv, RestartInv DEF Next

LEMMA Invariant == Spec => []IInv
<1>1. IInv /\ [Next]_vars => IInv'
  BY StepInv
<1> QED BY <1>1, InitInv, PTL DEF Spec

-----------------------------------------------------------------------------
(* Invariants. *)

(* Every variable of the loop stays in its domain, the retries and timers   *)
(* within their configuration, the power within the setpoints.              *)
THEOREM TypeCorrect == Spec => []TypeOK
<1>1. IInv => TypeOK
  BY DEF IInv
<1> QED BY <1>1, Invariant, PTL

(* The state names what the power does. *)
THEOREM PowerFollowsState == Spec => []SetpointFollowsState
<1>1. IInv => SetpointFollowsState
  BY DEF IInv, MachineInv
<1> QED BY <1>1, Invariant, PTL

(* An accepted order still suits the state it meets. *)
THEOREM OrdersStayFit == Spec => []OrdersFit
<1>1. IInv => OrdersFit
  BY DEF IInv, MachineInv
<1> QED BY <1>1, Invariant, PTL

(* No order outlives the tick that follows it. *)
THEOREM OrdersAreServedAtOnce == Spec => []OrdersNeverLinger
<1>1. IInv => OrdersNeverLinger
  BY DEF IInv
<1> QED BY <1>1, Invariant, PTL

(* Nothing dispatches while a protection alarm or its cooldown lasts. *)
THEOREM ProtectionIsObeyed == Spec => []ProtectionStopsDispatch
<1>1. IInv => ProtectionStopsDispatch
  BY DEF IInv
<1> QED BY <1>1, Invariant, PTL

-----------------------------------------------------------------------------
(* Action properties. *)

(* A step that moves the program counter to "publish" is a tick. *)
LEMMA TicksAreTicks ==
  ASSUME IInv, [Next]_vars, Ticks
  PROVE  \E reading \in Readings, inject \in BOOLEAN :
           /\ seen' = reading
           /\ tick(reading.pcs, reading.fault, reading.emergency, inject,
                   rtdb.control_state)
<1>1. Tick
  BY CommandMachine DEF Ticks, Next, Publish, Restart, vars, loop, IInv
<1>2. PICK reading \in Readings, event \in Severities :
        /\ seen' = reading
        /\ Injected(event) \in BOOLEAN
        /\ tick(reading.pcs, reading.fault, reading.emergency, Injected(event),
                rtdb.control_state)
  BY <1>1, TickStep DEF IInv
<1> QED BY <1>2

(* Only a tick and a restart change the state. *)
LEMMA StateChanges ==
  ASSUME IInv, [Next]_vars, state' # state
  PROVE  Ticks \/ state' = "INIT"
<1> QED BY CommandMachine DEF Next, Tick, Ticks, Publish, Restart, MachineRestart, mode,
                              vars, machine, IInv

(* Charging never turns into discharging, or back, in one step. *)
THEOREM ReversalNeedsStandby == Spec => NoDirectReversal
<1>1. ASSUME IInv, [Next]_vars
      PROVE  /\ ~(state = "CHARGING" /\ state' = "DISCHARGING")
             /\ ~(state = "DISCHARGING" /\ state' = "CHARGING")
  <2>1. CASE Ticks
    <3>1. PICK reading \in Readings, inject \in BOOLEAN :
            tick(reading.pcs, reading.fault, reading.emergency, inject, rtdb.control_state)
      BY <1>1, <2>1, TicksAreTicks
    <3> QED BY <1>1, <3>1, TickPower DEF IInv
  <2>2. CASE ~Ticks
    BY <1>1, <2>2, StateChanges
  <2> QED BY <2>1, <2>2
<1>2. IInv /\ [Next]_vars =>
        [/\ ~(state = "CHARGING" /\ state' = "DISCHARGING")
         /\ ~(state = "DISCHARGING" /\ state' = "CHARGING")]_vars
  BY <1>1
<1> QED BY <1>2, Invariant, PTL DEF Spec, NoDirectReversal

(* A tick is in EMERGENCY exactly if it saw one, and then stands still. *)
THEOREM EmergencyHasPriority == Spec => EmergencyWins
<1> DEFINE Wins ==
      Ticks =>
        /\ seen'.emergency <=> state' = "EMERGENCY"
        /\ state' = "EMERGENCY" =>
             /\ issued' = "NONE" /\ sub_state' = "NONE"
             /\ pending_setpoint' = NoOrder /\ pending_target' = "NONE"
<1>1. ASSUME IInv, [Next]_vars, Ticks
      PROVE  Wins
  <2>1. PICK reading \in Readings, inject \in BOOLEAN :
          /\ seen' = reading
          /\ tick(reading.pcs, reading.fault, reading.emergency, inject,
                  rtdb.control_state)
    BY <1>1, TicksAreTicks
  <2>2. /\ rtdb.control_state \in States /\ reading.pcs \in PcsStates
        /\ reading.fault \in BOOLEAN /\ reading.emergency \in BOOLEAN
    BY <1>1 DEF IInv, TypeOK, Readings
  <2>3. MachineInv
    BY <1>1 DEF IInv
  <2>4. /\ reading.emergency <=> state' = "EMERGENCY"
        /\ state' = "EMERGENCY" => issued' = "NONE" /\ sub_state' = "NONE"
    BY <2>1, <2>2, <2>3, TickEmergency
  <2>5. pending_setpoint' = NoOrder /\ pending_target' = "NONE"
    BY <2>1, <2>3, TickBranches DEF Ticked
  <2> QED BY <2>1, <2>4, <2>5
<1>2. IInv /\ [Next]_vars => [Wins]_vars
  BY <1>1
<1> QED BY <1>2, Invariant, PTL DEF Spec, EmergencyWins

(* The tick after a cutoff asks for no power. *)
THEOREM CutoffIsObeyed == Spec => CutoffStopsDispatch
<1> DEFINE Stops == Ticks /\ cutoff => setpoint' = 0 \/ state' = "EMERGENCY"
<1>1. ASSUME IInv, [Next]_vars, Ticks, cutoff
      PROVE  setpoint' = 0 \/ state' = "EMERGENCY"
  <2>1. PICK reading \in Readings, inject \in BOOLEAN :
          tick(reading.pcs, reading.fault, reading.emergency, inject, rtdb.control_state)
    BY <1>1, TicksAreTicks
  <2>2. /\ state \in {"CHARGING", "DISCHARGING"}
        /\ sub_state = "NONE" => pending_target # "NONE"
    BY <1>1 DEF IInv, CutoffIsOrdered, Ticks
  <2> QED BY <1>1, <2>1, <2>2, TickPower DEF IInv
<1>2. IInv /\ [Next]_vars => [Stops]_vars
  BY <1>1
<1> QED BY <1>2, Invariant, PTL DEF Spec, CutoffStopsDispatch

(* Every FAULT_RESET is an operator's or a budgeted retry. *)
THEOREM ResetsStayInBudget == Spec => ResetsAreAccounted
<1> DEFINE Accounted ==
      Ticks =>
        /\ issued' = "FAULT_RESET" =>
             /\ state = "FAULT" /\ state' = "FAULT"
             /\ (reset_requested /\ ~reset_requested') \/ retries' = retries + 1
        /\ state = "FAULT" /\ state' = "FAULT" => retries' >= retries
<1>1. ASSUME IInv, [Next]_vars, Ticks
      PROVE  Accounted
  <2>1. PICK reading \in Readings, inject \in BOOLEAN :
          tick(reading.pcs, reading.fault, reading.emergency, inject, rtdb.control_state)
    BY <1>1, TicksAreTicks
  <2> QED BY <1>1, <2>1, TickResets DEF IInv
<1>2. IInv /\ [Next]_vars => [Accounted]_vars
  BY <1>1
<1> QED BY <1>2, Invariant, PTL DEF Spec, ResetsAreAccounted
=============================================================================
