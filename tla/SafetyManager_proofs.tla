------------------------ MODULE SafetyManager_proofs ------------------------
(***************************************************************************)
(* Proofs about SafetyManager, for any set of inputs the plant may present *)
(* and any number of queued requests and restarts.                         *)
(***************************************************************************)
EXTENDS SafetyManager, TLAPS

-----------------------------------------------------------------------------
(* The response matrix.                                                     *)

AllConditions == Latching \union Following \union {"gpio_failure"}

LEMMA ConditionsTyped ==
  ASSUME NEW a \in SUBSET Latching, NEW f \in SUBSET Following, NEW g \in BOOLEAN
  PROVE  Conditions(a, f, g) \subseteq AllConditions
BY DEF Conditions, AllConditions

(* Every row of the matrix names outputs, never the green lamp; one that    *)
(* lights the red lamp also stops the PCS; only fire and a GPIO failure     *)
(* fire the extinguisher.                                                   *)
LEMMA ResponseRows ==
  ASSUME NEW c \in AllConditions
  PROVE  /\ Response[c] \subseteq DO
         /\ "RUNNING_LAMP" \notin Response[c]
         /\ "FAULT_LAMP" \in Response[c] => "PCS_STOP" \in Response[c]
         /\ "EXTINGUISHER" \in Response[c] => c \in {"fire", "gpio_failure"}
         /\ c \in Latching => StopOutputs \subseteq Response[c]
         /\ c = "gpio_failure" => "PCS_STOP" \in Response[c]
         /\ c = "fire" => "EXTINGUISHER" \in Response[c]
<1> USE DEF Response, StopOutputs, DO, Latching
<1>1. CASE c \in Latching
  BY <1>1
<1>2. CASE c \in Following
  BY <1>2 DEF Following
<1>3. CASE c = "gpio_failure"
  BY <1>3
<1> QED BY <1>1, <1>2, <1>3 DEF AllConditions

LEMMA MatrixFacts ==
  ASSUME NEW a \in SUBSET Latching, NEW f \in SUBSET Following, NEW g \in BOOLEAN
  PROVE  LET out == evaluate_response_matrix(a, f, g)
         IN  /\ out \subseteq DO
             /\ ~({"RUNNING_LAMP", "FAULT_LAMP"} \subseteq out)
             /\ a # {} => StopOutputs \subseteq out
             /\ g => "PCS_STOP" \in out
             /\ "fire" \in a => "EXTINGUISHER" \in out
             /\ ~g /\ "EXTINGUISHER" \in out => "fire" \in a
<1> DEFINE asserted == UNION {Response[c] : c \in Conditions(a, f, g)}
           out == evaluate_response_matrix(a, f, g)
<1>0. \A c \in Conditions(a, f, g) : c \in AllConditions
  BY ConditionsTyped
<1>1. out = asserted \union (IF asserted \intersect Protective = {}
                             THEN {"RUNNING_LAMP"} ELSE {})
  BY DEF evaluate_response_matrix
<1>2. asserted \subseteq DO /\ "RUNNING_LAMP" \notin asserted
  BY <1>0, ResponseRows
<1>3. "FAULT_LAMP" \in asserted => "PCS_STOP" \in asserted
  BY <1>0, ResponseRows
<1>4. \A c \in Conditions(a, f, g) : Response[c] \subseteq asserted
  OBVIOUS
<1>5. out \subseteq DO
  BY <1>1, <1>2 DEF DO
<1>6. ~({"RUNNING_LAMP", "FAULT_LAMP"} \subseteq out)
  BY <1>1, <1>2, <1>3 DEF Protective
<1>7. a # {} => StopOutputs \subseteq out
  <2> SUFFICES ASSUME NEW c \in a PROVE StopOutputs \subseteq out
    OBVIOUS
  <2>1. c \in Conditions(a, f, g) /\ c \in Latching
    BY DEF Conditions
  <2>2. StopOutputs \subseteq Response[c]
    BY <1>0, <2>1, ResponseRows
  <2> QED BY <1>1, <1>4, <2>1, <2>2
<1>8. g => "PCS_STOP" \in out
  <2> SUFFICES ASSUME g PROVE "PCS_STOP" \in out
    OBVIOUS
  <2>1. "gpio_failure" \in Conditions(a, f, g)
    BY DEF Conditions
  <2> QED BY <1>0, <1>1, <1>4, <2>1, ResponseRows
<1>9. "fire" \in a => "EXTINGUISHER" \in out
  <2> SUFFICES ASSUME "fire" \in a PROVE "EXTINGUISHER" \in out
    OBVIOUS
  <2>1. "fire" \in Conditions(a, f, g)
    BY DEF Conditions
  <2> QED BY <1>0, <1>1, <1>4, <2>1, ResponseRows
<1>10. ~g /\ "EXTINGUISHER" \in out => "fire" \in a
  <2> SUFFICES ASSUME ~g, "EXTINGUISHER" \in out PROVE "fire" \in a
    OBVIOUS
  <2>1. "EXTINGUISHER" \in asserted
    BY <1>1
  <2>2. PICK c \in Conditions(a, f, g) : "EXTINGUISHER" \in Response[c]
    BY <2>1
  <2>3. c \in {"fire", "gpio_failure"}
    BY <1>0, <2>2, ResponseRows
  <2>4. "gpio_failure" \notin Conditions(a, f, g)
    BY DEF Conditions, Latching, Following
  <2>5. "fire" \in Conditions(a, f, g)
    BY <2>3, <2>4
  <2> QED BY <2>5 DEF Conditions, Following
<1> QED BY <1>5, <1>6, <1>7, <1>8, <1>9, <1>10
-----------------------------------------------------------------------------
(* Types. *)

LEMMA ConfirmedTyped == \A raw : Confirmed(raw) \subseteq Latching
BY DEF Confirmed

LEMMA InitType == ASSUME Init PROVE TypeOK
<1>1. pending \in 0 .. MaxPending /\ restarts \in 0 .. MaxRestarts
  BY BoundsAreNat DEF Init
<1>2. gpio_failure \in BOOLEAN /\ attached \in BOOLEAN /\ wrote \in BOOLEAN
  BY Zenon DEF Init
<1> QED BY <1>1, <1>2 DEF Init, TypeOK

(* What a process leaves behind when it ends is well typed. *)
LEMMA EndType ==
  ASSUME TypeOK, ProcessEnds
  PROVE  /\ pc' = "off" /\ di_raw' = {} /\ do_out' = {}
         /\ active' = {} /\ latched' = {} /\ following' = {}
         /\ gpio_failure' \in BOOLEAN /\ attached' \in BOOLEAN /\ wrote' \in BOOLEAN
         /\ pending' \in 0 .. MaxPending /\ restarts' \in 0 .. MaxRestarts
<1>1. pending' \in 0 .. MaxPending /\ restarts' \in 0 .. MaxRestarts
  BY BoundsAreNat DEF ProcessEnds, TypeOK
<1>2. gpio_failure' \in BOOLEAN /\ attached' \in BOOLEAN /\ wrote' \in BOOLEAN
  BY Zenon DEF ProcessEnds
<1> QED BY <1>1, <1>2 DEF ProcessEnds

LEMMA ScanType == ASSUME TypeOK, Scan PROVE TypeOK'
<1> USE InputsAreRawLevels, BoundsAreNat DEF TypeOK
<1>1. CASE ReadInputs
  <2>1. CASE gpio_failure \/ chip = "read"
    BY <1>1, <2>1 DEF ReadInputs, plant, operator
  <2>2. CASE ~(gpio_failure \/ chip = "read")
    <3>1. di_raw' = di /\ evaluate_inputs(di) /\ UNCHANGED gpio_failure
      BY <1>1, <2>2 DEF ReadInputs
    <3>2. latched' \subseteq Latching /\ active' \subseteq Latching
      BY <3>1, ConfirmedTyped DEF evaluate_inputs
    <3>3. following' \subseteq Following
      BY <3>1 DEF evaluate_inputs, FollowingOf
    <3>4. di_raw' \subseteq DI
      BY <3>1
    <3> QED BY <1>1, <3>1, <3>2, <3>3, <3>4 DEF ReadInputs, plant, operator
  <2> QED BY <2>1, <2>2
<1>2. CASE NoReset
  BY <1>2 DEF NoReset, plant, state, operator
<1>3. ASSUME NEW wellFormed \in BOOLEAN, ServeReset(wellFormed) PROVE TypeOK'
  BY <1>3 DEF ServeReset, plant
<1>4. CASE WriteOutputs
  <2>1. do_out' \subseteq DO
    BY <1>4, MatrixFacts DEF WriteOutputs
  <2> QED BY <1>4, <2>1 DEF WriteOutputs, plant, state, operator
<1>5. CASE PublishOutputs
  BY <1>5 DEF PublishOutputs, plant, state, operator
<1> QED BY <1>1, <1>2, <1>3, <1>4, <1>5 DEF Scan

LEMMA StepType == ASSUME TypeOK, [Next]_vars PROVE TypeOK'
<1> USE InputsAreRawLevels, BoundsAreNat DEF TypeOK
<1>1. CASE Startup
  BY <1>1 DEF Startup, plant, operator
<1>2. CASE Shutdown
  BY <1>2, EndType DEF Shutdown, plant
<1>3. CASE Crash
  BY <1>3, EndType DEF Crash, plant
<1>4. CASE Plant
  BY <1>4 DEF Plant, state, operator
<1>5. CASE Chip
  BY <1>5 DEF Chip, state, operator
<1>6. CASE RequestReset
  BY <1>6 DEF RequestReset, plant, state
<1>7. CASE RecreateRtdb
  <2>1. restarts' \in 0 .. MaxRestarts
    BY <1>7 DEF RecreateRtdb
  <2>2. attached' \in BOOLEAN
    BY <1>7, Zenon DEF RecreateRtdb
  <2> QED BY <1>7, <2>1, <2>2 DEF RecreateRtdb, plant, state, operator
<1>8. CASE UNCHANGED vars
  BY <1>8 DEF vars
<1> QED BY <1>1, <1>2, <1>3, <1>4, <1>5, <1>6, <1>7, <1>8, ScanType DEF Next

(* Every variable stays in its type. *)
THEOREM TypeCorrect == Spec => []TypeOK
<1>1. Init => TypeOK
  BY InitType
<1>2. TypeOK /\ [Next]_vars => TypeOK'
  BY StepType
<1> QED BY <1>1, <1>2, PTL DEF Spec

-----------------------------------------------------------------------------
(* The inductive invariant: what the outputs of the last scan, the pins and *)
(* the RTDB have to do with the latches, between which steps of the scan.   *)

(* A condition that latches is active exactly while it is latched. *)
Mirror == active = latched

(* A process that is not running has no memory. *)
OffInv == pc = "off" => latched = {} /\ do_out = {} /\ ~attached /\ ~wrote

(* From its evaluation to the next read do_out is the response to the       *)
(* state; before the first evaluation nothing is latched.                   *)
OutputsInv ==
  /\ pc = "publish" => do_out = evaluate_response_matrix(active, following, gpio_failure)
  /\ pc = "read" => \/ do_out = evaluate_response_matrix(active, following, gpio_failure)
                    \/ do_out = {} /\ latched = {} /\ ~wrote

(* Until the next read the pins are the outputs, if they were written. *)
PinsInv == pc \in {"publish", "read"} /\ wrote => pins = do_out /\ ~gpio_failure

(* So is the RTDB, once a scan has ended. *)
RtdbInv == pc = "read" /\ attached /\ do_out # {} => rtdb = do_out

IInv == TypeOK /\ Mirror /\ OffInv /\ OutputsInv /\ PinsInv /\ RtdbInv /\ LampsExclude

LEMMA InitInv == ASSUME Init PROVE IInv
BY InitType DEF Init, IInv, Mirror, OffInv, OutputsInv, PinsInv, RtdbInv, LampsExclude

LEMMA ScanInv == ASSUME IInv, Scan, TypeOK' PROVE IInv'
<1> USE DEF IInv, Mirror, OffInv, OutputsInv, PinsInv, RtdbInv, LampsExclude
<1>1. CASE ReadInputs
  <2>1. active' = latched'
    BY <1>1 DEF ReadInputs, evaluate_inputs
  <2> QED BY <1>1, <2>1 DEF ReadInputs
<1>2. CASE NoReset
  BY <1>2 DEF NoReset, state
<1>3. ASSUME NEW wellFormed \in BOOLEAN, ServeReset(wellFormed) PROVE IInv'
  BY <1>3 DEF ServeReset
<1>4. CASE WriteOutputs
  <2>1. do_out' = evaluate_response_matrix(active, following, gpio_failure)
    BY <1>4 DEF WriteOutputs
  <2>2. ~({"RUNNING_LAMP", "FAULT_LAMP"} \subseteq do_out')
    BY <2>1, MatrixFacts DEF TypeOK
  <2>3. pins' = pins \/ pins' = do_out'
    BY <1>4 DEF WriteOutputs
  <2>4. LampsExclude'
    BY <1>4, <2>2, <2>3 DEF WriteOutputs
  <2> QED BY <1>4, <2>1, <2>4 DEF WriteOutputs, state
<1>5. CASE PublishOutputs
  BY <1>5 DEF PublishOutputs, state
<1> QED BY <1>1, <1>2, <1>3, <1>4, <1>5 DEF Scan

LEMMA StepInv == ASSUME IInv, [Next]_vars PROVE IInv'
<1>t. TypeOK'
  BY StepType DEF IInv
<1> USE <1>t DEF IInv, Mirror, OffInv, OutputsInv, PinsInv, RtdbInv, LampsExclude
<1>1. CASE Startup
  BY <1>1 DEF Startup
<1>2. CASE Shutdown
  BY <1>2 DEF Shutdown, ProcessEnds
<1>3. CASE Crash
  BY <1>3 DEF Crash, ProcessEnds
<1>4. CASE Plant
  BY <1>4 DEF Plant, state
<1>5. CASE Chip
  BY <1>5 DEF Chip, state
<1>6. CASE RequestReset
  BY <1>6 DEF RequestReset, state
<1>7. CASE RecreateRtdb
  BY <1>7 DEF RecreateRtdb, state
<1>8. CASE UNCHANGED vars
  BY <1>8 DEF vars
<1> QED BY <1>1, <1>2, <1>3, <1>4, <1>5, <1>6, <1>7, <1>8, ScanInv DEF Next

LEMMA Invariant == Spec => []IInv
<1>1. Init => IInv
  BY InitInv
<1>2. IInv /\ [Next]_vars => IInv'
  BY StepInv
<1> QED BY <1>1, <1>2, PTL DEF Spec

-----------------------------------------------------------------------------
(* Safety. *)

(* A scan that wrote the pins left on them what the latches demand. *)
THEOREM LatchesReachThePins == Spec => []LatchesDriveThePins
<1>1. ASSUME IInv PROVE LatchesDriveThePins
  <2> SUFFICES ASSUME pc = "read", wrote
               PROVE  /\ latched # {} => StopOutputs \subseteq pins
                      /\ "EXTINGUISHER" \in pins <=> "fire" \in latched
    BY DEF LatchesDriveThePins
  <2>1. pins = evaluate_response_matrix(active, following, FALSE) /\ active = latched
    BY <1>1 DEF IInv, Mirror, OutputsInv, PinsInv, TypeOK
  <2> QED BY <1>1, <2>1, MatrixFacts DEF IInv, TypeOK
<1> QED BY <1>1, Invariant, PTL

(* A scan that ended shows a latch, and a GPIO failure, to control_manager. *)
THEOREM LatchesReachTheRtdb == Spec => []RtdbShowsTheStop
<1>1. ASSUME IInv PROVE RtdbShowsTheStop
  <2> SUFFICES ASSUME pc = "read", attached,
                      latched # {} \/ (gpio_failure /\ do_out # {})
               PROVE  "PCS_STOP" \in rtdb
    BY DEF RtdbShowsTheStop
  <2>1. do_out = evaluate_response_matrix(active, following, gpio_failure) /\ active = latched
    BY <1>1 DEF IInv, Mirror, OutputsInv
  <2>2. "PCS_STOP" \in do_out
    BY <1>1, <2>1, MatrixFacts DEF IInv, TypeOK, StopOutputs
  <2> QED BY <1>1, <2>2 DEF IInv, RtdbInv
<1> QED BY <1>1, Invariant, PTL

(* Green and red are never lit together. *)
THEOREM LampsNeverBoth == Spec => []LampsExclude
<1>1. IInv => LampsExclude
  BY DEF IInv
<1> QED BY <1>1, Invariant, PTL
-----------------------------------------------------------------------------
(* Action properties. *)

(* Latches grow while the inputs are read and shrink while a reset is       *)
(* served; no other step of a process that goes on touches them.            *)
LEMMA LatchSteps ==
  ASSUME IInv, [Next]_vars, pc' # "off"
  PROVE  \/ UNCHANGED <<latched, active>>
         \/ ReadInputs /\ evaluate_inputs(di)
         \/ \E wellFormed \in BOOLEAN : ServeReset(wellFormed)
<1>1. CASE Startup
  BY <1>1 DEF Startup
<1>2. CASE Scan
  BY <1>2 DEF Scan, ReadInputs, NoReset, WriteOutputs, PublishOutputs, state
<1>3. CASE Shutdown \/ Crash
  BY <1>3 DEF Shutdown, Crash, ProcessEnds
<1>4. CASE Plant \/ Chip \/ RequestReset \/ RecreateRtdb \/ UNCHANGED vars
  BY <1>4 DEF Plant, Chip, RequestReset, RecreateRtdb, state, vars
<1> QED BY <1>1, <1>2, <1>3, <1>4 DEF Next

(* A running process releases a latch only in a reset it answers with "ok", *)
(* and only when the last inputs it read show all its channels at rest.     *)
THEOREM LatchesAreHeld == Spec => LatchHeldUntilReset
<1>1. ASSUME IInv, [Next]_vars, pc' # "off", NEW c \in latched \ latched'
      PROVE  /\ pending' < pending /\ reply' = "ok"
             /\ Confirming[c] \intersect apply_active_low(di_raw) = {}
  <2>1. CASE UNCHANGED <<latched, active>>
    BY <1>1, <2>1
  <2>2. CASE evaluate_inputs(di)
    BY <1>1, <2>2 DEF evaluate_inputs
  <2>3. ASSUME NEW wellFormed \in BOOLEAN, ServeReset(wellFormed)
        PROVE  /\ pending' < pending /\ reply' = "ok"
               /\ Confirming[c] \intersect apply_active_low(di_raw) = {}
    <3>1. reply' = "ok" /\ latched' = latched \ safety_reset(di_raw, latched)
      BY <1>1, <2>3 DEF ServeReset
    <3>2. pending \in Nat /\ pending' = pending - 1
      BY <1>1, <2>3, BoundsAreNat DEF ServeReset, IInv, TypeOK
    <3>3. c \in safety_reset(di_raw, latched)
      BY <1>1, <3>1
    <3> QED BY <3>1, <3>2, <3>3 DEF safety_reset
  <2> QED BY <1>1, <2>1, <2>2, <2>3, LatchSteps
<1>2. IInv /\ [Next]_vars
        => [pc' # "off" => \A c \in latched \ latched' :
              /\ pending' < pending /\ reply' = "ok"
              /\ Confirming[c] \intersect apply_active_low(di_raw) = {}]_vars
  BY <1>1
<1> QED BY <1>2, Invariant, PTL DEF Spec, LatchHeldUntilReset

(* The two functions that decide about a reset agree: inputs that the REP   *)
(* handler calls clear let safety_reset() clear every latch.                *)
LEMMA ResetFunctionsAgree ==
  ASSUME NEW raw, NEW latches \in SUBSET Latching, check_inputs_clear(raw, latches)
  PROVE  safety_reset(raw, latches) = latches
<1> USE DEF check_inputs_clear, Confirming, apply_active_low, active_low_di
<1>1. ASSUME NEW c \in latches
      PROVE  Confirming[c] \intersect apply_active_low(raw) = {}
  <2>1. CASE c = "estop"
    BY <2>1
  <2>2. CASE c = "fire"
    BY <2>2
  <2>3. CASE c = "flood"
    BY <2>3
  <2> QED BY <2>1, <2>2, <2>3 DEF Latching
<1> QED BY <1>1 DEF safety_reset

(* "ok" means that no latch is left. *)
THEOREM OkIsTrue == Spec => OkMeansReleased
<1>1. ASSUME IInv, [Next]_vars,
             pc = "reset", pending' < pending, pc' = "write", reply' = "ok"
      PROVE  latched' = {} /\ active' = {}
  <2>1. PICK wellFormed \in BOOLEAN : ServeReset(wellFormed)
    <3>1. pending \in Nat /\ pending' # pending
      BY <1>1, BoundsAreNat DEF IInv, TypeOK
    <3>2. ~(Startup \/ Shutdown \/ Crash \/ Plant \/ Chip \/ RecreateRtdb)
      BY <1>1 DEF Startup, Shutdown, Crash, ProcessEnds, Plant, Chip, RecreateRtdb
    <3>3. ~RequestReset /\ ~(UNCHANGED vars)
      BY <1>1 DEF RequestReset, vars
    <3>4. ~(ReadInputs \/ NoReset \/ WriteOutputs \/ PublishOutputs)
      BY <1>1, <3>1 DEF ReadInputs, NoReset, WriteOutputs, PublishOutputs, operator
    <3> QED BY <1>1, <3>2, <3>3, <3>4 DEF Next, Scan
  <2>2. /\ check_inputs_clear(di_raw, latched)
        /\ latched' = latched \ safety_reset(di_raw, latched)
        /\ active' = active \ safety_reset(di_raw, latched)
    BY <1>1, <2>1 DEF ServeReset
  <2>3. safety_reset(di_raw, latched) = latched
    BY <1>1, <2>2, ResetFunctionsAgree DEF IInv, TypeOK
  <2> QED BY <1>1, <2>2, <2>3 DEF IInv, Mirror
<1>2. IInv /\ [Next]_vars
        => [pc = "reset" /\ pending' < pending /\ pc' = "write" /\ reply' = "ok"
              => latched' = {} /\ active' = {}]_vars
  BY <1>1
<1> QED BY <1>2, Invariant, PTL DEF Spec, OkMeansReleased

(* Only the write of the outputs can assert a pin. *)
LEMMA OnlyWriteAsserts ==
  ASSUME [Next]_vars, NEW d \in pins' \ pins PROVE WriteOutputs
<1>1. ~Startup
  BY DEF Startup
<1>2. ~(Shutdown \/ Crash)
  BY DEF Shutdown, Crash
<1>3. ~(Plant \/ Chip \/ RequestReset \/ RecreateRtdb \/ UNCHANGED vars)
  BY DEF Plant, Chip, RequestReset, RecreateRtdb, vars
<1>4. Scan => WriteOutputs
  BY DEF Scan, ReadInputs, NoReset, ServeReset, PublishOutputs
<1> QED BY <1>1, <1>2, <1>3, <1>4 DEF Next

(* The extinguisher is fired for a latched fire only, and a fire is latched *)
(* only when one read finds both sensors high.                              *)
THEOREM DischargeIsConfirmed == Spec => DischargeNeedsConfirmedFire
<1>1. ASSUME IInv, [Next]_vars, "EXTINGUISHER" \in pins' \ pins
      PROVE  "fire" \in latched /\ ~gpio_failure
  <2>1. /\ ~gpio_failure
        /\ pins' = evaluate_response_matrix(active, following, gpio_failure)
    BY <1>1, OnlyWriteAsserts DEF WriteOutputs
  <2>2. "fire" \in active
    BY <1>1, <2>1, MatrixFacts DEF IInv, TypeOK
  <2> QED BY <1>1, <2>1, <2>2 DEF IInv, Mirror
<1>2. ASSUME IInv, [Next]_vars, "fire" \in latched' \ latched
      PROVE  {"SMOKE_DETECTOR", "HEAT_DETECTOR"} \subseteq di
  <2>1. pc' # "off"
    BY <1>2, StepInv DEF IInv, OffInv
  <2>2. ~(\E wellFormed \in BOOLEAN : ServeReset(wellFormed))
    BY <1>2 DEF ServeReset
  <2>3. evaluate_inputs(di)
    BY <1>2, <2>1, <2>2, LatchSteps
  <2>4. Confirming["fire"] \subseteq apply_active_low(di)
    BY <1>2, <2>3 DEF evaluate_inputs, Confirmed
  <2> QED BY <2>4 DEF Confirming, apply_active_low, active_low_di
<1>3. IInv /\ [Next]_vars
        => [/\ "EXTINGUISHER" \in pins' \ pins => "fire" \in latched /\ ~gpio_failure
            /\ "fire" \in latched' \ latched
                 => {"SMOKE_DETECTOR", "HEAT_DETECTOR"} \subseteq di]_vars
  BY <1>1, <1>2
<1> QED BY <1>3, Invariant, PTL DEF Spec, DischargeNeedsConfirmedFire
=============================================================================
