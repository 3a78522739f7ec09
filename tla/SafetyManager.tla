--------------------------- MODULE SafetyManager ---------------------------
(***************************************************************************)
(* The L1 safety_manager process (src/safety_manager/src): a 10 ms scan    *)
(* that reads the digital inputs (DI), latches E-Stop, fire and flood,     *)
(* serves operator resets, computes the digital outputs (DO) from the      *)
(* response matrix, writes them to the pins and mirrors them in the RTDB,  *)
(* where control_manager looks for PCS_STOP.                               *)
(*                                                                         *)
(* The pins, the GPIO chip and the RTDB segment outlive the process, which *)
(* may crash between any two of its steps and is restarted by systemd.     *)
(* Raw levels are sets of the pins that read high; DI-5 and DO-7 are       *)
(* spare and left out.                                                     *)
(***************************************************************************)
EXTENDS Naturals, FiniteSets

CONSTANTS
  Inputs,      (* The raw input vectors the plant may present.            *)
  MaxPending,  (* Bound: reset requests queued on the REP socket.         *)
  MaxRestarts  (* Bound: restarts of the process and of the RTDB owner.   *)

DI == {"ACDB_FEEDBACK", "FLOOD_SENSOR", "DOOR_SWITCH", "SMOKE_DETECTOR",
       "HEAT_DETECTOR", "ESTOP_NO", "ESTOP_NC"}

DO == {"ACDB_TRIP", "EXTINGUISHER", "WARNING_LAMP", "RUNNING_LAMP",
       "FAULT_LAMP", "PCS_STOP", "SIREN"}

Latching == {"estop", "fire", "flood"}

(* Conditions that follow their inputs, without a latch. *)
Following == {"acdb_loss", "door_open", "estop_discrepancy", "fire_single_sensor"}

ASSUME InputsAreRawLevels == Inputs \subseteq SUBSET DI
ASSUME BoundsAreNat == MaxPending \in Nat /\ MaxRestarts \in Nat

VARIABLES
  di,           (* Plant: the raw level of every input, now.               *)
  chip,         (* Plant: "ok", or the GPIO operation that fails now.      *)
  pins,         (* Plant: the DO lines that are driven.                    *)
  pc,           (* Where the scan loop is; "off" when no process runs.     *)
  di_raw,       (* main.c di_raw: the last inputs read.                    *)
  active,       (* safety_state_t estop_active, fire_active, flood_active. *)
  latched,      (* safety_state_t estop_latched, fire_latched, ...         *)
  following,    (* safety_state_t: the conditions without a latch.         *)
  gpio_failure, (* safety_state_t gpio_failure.                            *)
  do_out,       (* main.c do_out: the outputs of the last evaluation.      *)
  attached,     (* The process maps the segment other modules now map.     *)
  rtdb,         (* gpio.do_state in that segment.                          *)
  pending,      (* Reset requests queued on the REP socket.                *)
  reply,        (* The last reply sent to an operator.                     *)
  wrote,        (* History: the last write_do reached the pins.            *)
  restarts      (* Restarts so far, for the bound.                         *)

plant    == <<di, chip>>
state    == <<active, latched, following, gpio_failure>>
operator == <<pending, reply>>
vars == <<di, chip, pins, pc, di_raw, active, latched, following,
          gpio_failure, do_out, attached, rtdb, pending, reply, wrote, restarts>>

-----------------------------------------------------------------------------
(* Input evaluation: evaluate_inputs() and what it calls.                   *)

(* The compiled-in polarity; no other configuration is ever loaded. *)
active_low_di == {"DOOR_SWITCH", "ESTOP_NC"}

(* The logical inputs: raw levels with the active-low pins inverted. *)
apply_active_low(raw) == (raw \ active_low_di) \union (active_low_di \ raw)

(* The pins that must all be logically high to confirm a latching condition. *)
Confirming == [estop |-> {"ESTOP_NO", "ESTOP_NC"},
               fire  |-> {"SMOKE_DETECTOR", "HEAT_DETECTOR"},
               flood |-> {"FLOOD_SENSOR"}]

Confirmed(raw) == {c \in Latching : Confirming[c] \subseteq apply_active_low(raw)}

(* Some, but not all, of a condition's channels are high. *)
Partial(c, raw) == /\ Confirming[c] \intersect apply_active_low(raw) # {}
                   /\ c \notin Confirmed(raw)

FollowingOf(raw) ==
  {c \in Following :
     CASE c = "acdb_loss"          -> "ACDB_FEEDBACK" \notin apply_active_low(raw)
       [] c = "door_open"          -> "DOOR_SWITCH" \in apply_active_low(raw)
       [] c = "estop_discrepancy"  -> Partial("estop", raw)
       [] c = "fire_single_sensor" -> Partial("fire", raw)}

(* Slip: a condition is active only in the scan that latches it. *)
evaluate_inputs_on_edge(raw) ==
  /\ latched'   = latched \union Confirmed(raw)
  /\ active'    = Confirmed(raw) \ latched
  /\ following' = FollowingOf(raw)

(* A latched condition stays active whatever its inputs do. *)
evaluate_inputs(raw) ==
  /\ latched'   = latched \union Confirmed(raw)
  /\ active'    = (active \intersect latched) \union Confirmed(raw)
  /\ following' = FollowingOf(raw)

-----------------------------------------------------------------------------
(* The response matrix.                                                     *)

Protective == {"ACDB_TRIP", "EXTINGUISHER", "PCS_STOP", "SIREN"}
StopOutputs == {"ACDB_TRIP", "FAULT_LAMP", "PCS_STOP", "SIREN"}

Response == [estop              |-> StopOutputs,
             fire               |-> StopOutputs \union {"EXTINGUISHER"},
             flood              |-> StopOutputs,
             acdb_loss          |-> {"FAULT_LAMP", "PCS_STOP", "SIREN"},
             door_open          |-> {"WARNING_LAMP"},
             fire_single_sensor |-> {"WARNING_LAMP"},
             estop_discrepancy  |-> {"WARNING_LAMP"},
             gpio_failure       |-> StopOutputs \union {"EXTINGUISHER"}]

Conditions(a, f, failed) ==
  a \union f \union (IF failed THEN {"gpio_failure"} ELSE {})

(* The green lamp is lit exactly when nothing protective is asserted. *)
evaluate_response_matrix(a, f, failed) ==
  LET asserted == UNION {Response[c] : c \in Conditions(a, f, failed)}
  IN  asserted \union (IF asserted \intersect Protective = {}
                       THEN {"RUNNING_LAMP"} ELSE {})

-----------------------------------------------------------------------------
(* Operator resets. Two functions decide about the same inputs: the REP     *)
(* handler on raw levels, before it replies, and safety_reset() on logical  *)
(* levels, after the reply has left.                                        *)

(* Slip: one fire sensor is enough to call the room clear. *)
check_inputs_clear_one_sensor(raw, latches) ==
  /\ "estop" \in latches => "ESTOP_NO" \notin raw /\ "ESTOP_NC" \in raw
  /\ "fire"  \in latches => "HEAT_DETECTOR" \notin raw
  /\ "flood" \in latches => "FLOOD_SENSOR" \notin raw

(* Slip: the NC contact is read as if it were active high. *)
check_inputs_clear_polarity(raw, latches) ==
  /\ "ESTOP_NC" \notin raw
  /\ "fire"  \in latches => {"SMOKE_DETECTOR", "HEAT_DETECTOR"} \intersect raw = {}
  /\ "flood" \in latches => "FLOOD_SENSOR" \notin raw

check_inputs_clear(raw, latches) ==
  /\ "estop" \in latches => "ESTOP_NO" \notin raw /\ "ESTOP_NC" \in raw
  /\ "fire"  \in latches => {"SMOKE_DETECTOR", "HEAT_DETECTOR"} \intersect raw = {}
  /\ "flood" \in latches => "FLOOD_SENSOR" \notin raw

(* The latches safety_reset() clears: no channel of theirs is high. *)
safety_reset(raw, latches) ==
  {c \in latches : Confirming[c] \intersect apply_active_low(raw) = {}}

-----------------------------------------------------------------------------
(* The process.                                                             *)

(* An RTDB segment is zero-filled when it is created. *)
Init ==
  /\ di \in Inputs
  /\ chip = "ok"
  /\ pins = {}
  /\ pc = "off"
  /\ di_raw = {}
  /\ active = {} /\ latched = {} /\ following = {} /\ gpio_failure = FALSE
  /\ do_out = {}
  /\ attached = FALSE /\ rtdb = {}
  /\ pending = 0 /\ reply = "none"
  /\ wrote = FALSE
  /\ restarts = 0

(* main() up to the loop. Requesting the DO lines drives them inactive; if  *)
(* GPIO init fails the lines keep their level. Attaching the RTDB may fail  *)
(* three times, and the process then runs without it for good. Its memory   *)
(* is zero: Init and ProcessEnds left it so.                                *)
Startup ==
  /\ pc = "off"
  /\ pc' = "read"
  /\ gpio_failure' \in (IF chip = "ok" THEN {FALSE} ELSE BOOLEAN)
  /\ pins' = IF gpio_failure' THEN pins ELSE {}
  /\ attached' \in BOOLEAN
  /\ UNCHANGED <<plant, di_raw, active, latched, following, do_out, rtdb,
                 operator, wrote, restarts>>

(* Steps 1 and 2 of the scan: read_di and, if it worked, evaluate_inputs.   *)
(* After the first failure neither is called again.                         *)
ReadInputs ==
  /\ pc = "read"
  /\ pc' = "reset"
  /\ IF gpio_failure \/ chip = "read"
       THEN /\ gpio_failure' = TRUE
            /\ UNCHANGED <<di_raw, active, latched, following>>
       ELSE /\ di_raw' = di
            /\ evaluate_inputs(di)
            /\ UNCHANGED gpio_failure
  /\ UNCHANGED <<plant, pins, do_out, attached, rtdb, operator, wrote, restarts>>

(* Step 3: no request is waiting. *)
NoReset ==
  /\ pc = "reset" /\ pending = 0
  /\ pc' = "write"
  /\ UNCHANGED <<plant, pins, di_raw, state, do_out, attached, rtdb, operator,
                 wrote, restarts>>

(* Step 3: one request is served; a malformed one is answered "error". *)
ServeReset(wellFormed) ==
  /\ pc = "reset" /\ pending > 0
  /\ pc' = "write"
  /\ pending' = pending - 1
  /\ IF wellFormed /\ check_inputs_clear(di_raw, latched)
       THEN /\ reply' = "ok"
            /\ latched' = latched \ safety_reset(di_raw, latched)
            /\ active' = active \ safety_reset(di_raw, latched)
       ELSE /\ reply' = "error"
            /\ UNCHANGED <<latched, active>>
  /\ UNCHANGED <<plant, pins, di_raw, following, gpio_failure, do_out, attached,
                 rtdb, wrote, restarts>>

(* Slip: the pins get the outputs of the scan before. *)
WriteOutputsLate ==
  /\ pc = "write"
  /\ pc' = "publish"
  /\ do_out' = evaluate_response_matrix(active, following, gpio_failure)
  /\ wrote' = (~gpio_failure /\ chip # "write")
  /\ pins' = IF wrote' THEN do_out ELSE pins
  /\ UNCHANGED <<plant, di_raw, state, attached, rtdb, operator, restarts>>

(* Steps 4 to 6: evaluate the matrix and write the pins, unless GPIO has    *)
(* failed. The result of write_do is ignored.                               *)
WriteOutputs ==
  /\ pc = "write"
  /\ pc' = "publish"
  /\ do_out' = evaluate_response_matrix(active, following, gpio_failure)
  /\ wrote' = (~gpio_failure /\ chip # "write")
  /\ pins' = IF wrote' THEN do_out' ELSE pins
  /\ UNCHANGED <<plant, di_raw, state, attached, rtdb, operator, restarts>>

(* Steps 7 to 11: mirror the outputs in the RTDB and sleep. *)
PublishOutputs ==
  /\ pc = "publish"
  /\ pc' = "read"
  /\ rtdb' = IF attached THEN do_out ELSE rtdb
  /\ UNCHANGED <<plant, pins, di_raw, state, do_out, attached, operator, wrote, restarts>>

(* What the end of the process takes with it: its memory and its queue. The *)
(* requests still on the client side survive or are lost.                   *)
ProcessEnds ==
  /\ restarts < MaxRestarts
  /\ restarts' = restarts + 1
  /\ pc' = "off"
  /\ di_raw' = {} /\ do_out' = {}
  /\ active' = {} /\ latched' = {} /\ following' = {} /\ gpio_failure' = FALSE
  /\ attached' = FALSE /\ wrote' = FALSE
  /\ pending' \in 0 .. pending

(* SIGTERM, seen at the top of the loop: all outputs are released unless    *)
(* GPIO has failed, and the RTDB keeps what it shows.                       *)
Shutdown ==
  /\ pc = "read"
  /\ ProcessEnds
  /\ pins' = IF ~gpio_failure /\ chip # "write" THEN {} ELSE pins
  /\ UNCHANGED <<plant, rtdb, reply>>

(* The process dies between two steps; the pins keep their level. *)
Crash ==
  /\ pc # "off"
  /\ ProcessEnds
  /\ UNCHANGED <<plant, pins, rtdb, reply>>

-----------------------------------------------------------------------------
(* The surroundings.                                                        *)

Plant ==
  /\ di' \in Inputs \ {di}
  /\ UNCHANGED <<chip, pins, pc, di_raw, state, do_out, attached, rtdb, operator,
                 wrote, restarts>>

Chip ==
  /\ chip' \in {"ok", "read", "write"} \ {chip}
  /\ UNCHANGED <<di, pins, pc, di_raw, state, do_out, attached, rtdb, operator,
                 wrote, restarts>>

RequestReset ==
  /\ pending < MaxPending
  /\ pending' = pending + 1
  /\ UNCHANGED <<plant, pins, pc, di_raw, state, do_out, attached, rtdb, reply,
                 wrote, restarts>>

(* data_manager restarts: rtdb_create() unlinks the segment and makes a     *)
(* zero-filled one; a process that mapped the old one keeps writing there.  *)
RecreateRtdb ==
  /\ restarts < MaxRestarts
  /\ restarts' = restarts + 1
  /\ rtdb' = {}
  /\ attached' = FALSE
  /\ UNCHANGED <<plant, pins, pc, di_raw, state, do_out, operator, wrote>>

Scan == \/ ReadInputs
        \/ NoReset
        \/ \E wellFormed \in BOOLEAN : ServeReset(wellFormed)
        \/ WriteOutputs
        \/ PublishOutputs

Next == \/ Startup \/ Scan \/ Shutdown \/ Crash
        \/ Plant \/ Chip \/ RequestReset \/ RecreateRtdb

Spec == Init /\ [][Next]_vars

(* The scan thread is SCHED_FIFO and never blocks; systemd restarts the     *)
(* process (Restart=always). Nothing else is fair.                          *)
Fairness == WF_vars(Startup) /\ WF_vars(Scan)
FairSpec == Spec /\ Fairness
-----------------------------------------------------------------------------
(* Properties.                                                              *)

(* Every variable stays in its type. *)
TypeOK ==
  /\ di \in Inputs /\ chip \in {"ok", "read", "write"} /\ pins \subseteq DO
  /\ pc \in {"off", "read", "reset", "write", "publish"}
  /\ di_raw \subseteq DI
  /\ active \subseteq Latching /\ latched \subseteq Latching
  /\ following \subseteq Following /\ gpio_failure \in BOOLEAN
  /\ do_out \subseteq DO
  /\ attached \in BOOLEAN /\ rtdb \subseteq DO
  /\ pending \in 0 .. MaxPending /\ reply \in {"none", "ok", "error"}
  /\ wrote \in BOOLEAN /\ restarts \in 0 .. MaxRestarts

(* While the GPIO works, a scan that has ended left every output that its   *)
(* latches demand on the pins: the plant is tripped and stopped, and a      *)
(* confirmed fire is being extinguished.                                    *)
LatchesDriveThePins ==
  pc = "read" /\ wrote =>
    /\ latched # {} => StopOutputs \subseteq pins
    /\ "EXTINGUISHER" \in pins <=> "fire" \in latched

(* control_manager learns of every latch: at the end of a scan the segment  *)
(* it reads shows PCS_STOP, and it does so even when GPIO has failed.       *)
RtdbShowsTheStop ==
  pc = "read" /\ attached /\ (latched # {} \/ (gpio_failure /\ do_out # {}))
    => "PCS_STOP" \in rtdb

(* IEC 60073: green and red are never lit together, whatever mixture of     *)
(* new, old and unwritten outputs the pins and the RTDB show.               *)
LampsExclude ==
  \A lines \in {pins, do_out, rtdb} : ~({"RUNNING_LAMP", "FAULT_LAMP"} \subseteq lines)

(* The extinguisher is only ever fired while a fire is latched, not for a   *)
(* GPIO failure, and a fire is only latched by one read that finds both     *)
(* sensors high, never by one sensor after the other.                       *)
DischargeNeedsConfirmedFire ==
  [][/\ "EXTINGUISHER" \in pins' \ pins => "fire" \in latched /\ ~gpio_failure
     /\ "fire" \in latched' \ latched => {"SMOKE_DETECTOR", "HEAT_DETECTOR"} \subseteq di]_vars

(* A running process releases a latch only while it serves a reset, and     *)
(* only if the last inputs it read show every channel of it at rest.        *)
LatchHeldUntilReset ==
  [][pc' # "off" => \A c \in latched \ latched' :
       /\ pending' < pending /\ reply' = "ok"
       /\ Confirming[c] \intersect apply_active_low(di_raw) = {}]_vars

(* The reply leaves before the latches are cleared by another function with *)
(* its own idea of polarity: "ok" must still mean that no latch is left.    *)
OkMeansReleased ==
  [][pc = "reset" /\ pending' < pending /\ pc' = "write" /\ reply' = "ok"
       => latched' = {} /\ active' = {}]_vars

EStopPressed == Confirming["estop"] \subseteq apply_active_low(di)

(* An E-Stop that stays pressed stops the PCS, across crashes and restarts, *)
(* unless the GPIO chip fails or has failed.                                *)
EStopStopsThePcs ==
  EStopPressed ~> \/ "PCS_STOP" \in pins
                  \/ ~EStopPressed
                  \/ chip # "ok" \/ gpio_failure

AllClear == di = {"ACDB_FEEDBACK", "DOOR_SWITCH", "ESTOP_NC"} /\ chip = "ok"

(* The plant cannot be locked out: if the inputs stay at rest and requests  *)
(* keep being served, the latches are released and the green lamp is lit    *)
(* for good.                                                                *)
ResetsEventuallyRelease ==
  (<>[]AllClear /\ []<><<ServeReset(TRUE)>>_vars)
    => <>[](gpio_failure \/ (latched = {} /\ (pc = "read" /\ wrote => "RUNNING_LAMP" \in pins)))

-----------------------------------------------------------------------------
(* What a comment says and the code does not do.                            *)

(* main.c: a GPIO failure enters fail-safe mode, all outputs asserted. *)
FailSafeReachesPins ==
  pc = "read" /\ gpio_failure /\ do_out # {} => StopOutputs \subseteq pins
=============================================================================
