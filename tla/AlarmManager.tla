---------------------------- MODULE AlarmManager ----------------------------
(***************************************************************************)
(* The life cycle of the alarms in alarm_manager: evaluator.py, the reload *)
(* of alarms_config in loop.py, and what resolver.py can say of a signal.  *)
(*                                                                         *)
(* A reading of a signal is abstracted to what the thresholds of its rule  *)
(* make of it: "exceeding", "clear", in the hysteresis "band" between, or  *)
(* "none" when no rack is online.  One tick is one second, so a delay is a *)
(* number of ticks.  The loop serves commands and ticks in one thread;     *)
(* all of its state is memory of the process.                              *)
(***************************************************************************)
EXTENDS Integers

CONSTANTS
  Alarms,    (* The alarm_ids that a configuration may name.              *)
  Configs,   (* The configurations on disk: rules of some of the alarms.  *)
  MaxDelay   (* The longest delay_ms among them, in ticks.                *)

Rule == [enabled : BOOLEAN, delay : 0 .. MaxDelay]

ASSUME DelayIsNat == MaxDelay \in Nat
ASSUME ConfigsAreRules ==
  \A config \in Configs : \E ids \in SUBSET Alarms : config \in [ids -> Rule]

VARIABLES
  rules,      (* The rules in force.                                           *)
  instances,  (* The AlarmInstance of each rule.                               *)
  told,       (* Of each alarm, the state in the last event published of it.   *)
  streak      (* Of each alarm, for how many readings on end it was exceeding, *)
              (* counted from the last time the rules were loaded.             *)

alarmVars == <<rules, instances, told, streak>>

LifeCycle == {"NORMAL", "ACTIVE_UNACKED", "ACTIVE_ACKED", "CLEARED_UNACKED", "RTN"}
Active == {"ACTIVE_UNACKED", "ACTIVE_ACKED"}
Readings == {"none", "clear", "band", "exceeding"}

(* since is the age of exceeded_since_ms; Never stands for None. *)
Never == -1
Instance == [state : LifeCycle, since : Never .. MaxDelay]
Fresh == [state |-> "NORMAL", since |-> Never]

AlarmTypeOK ==
  /\ rules \in Configs
  /\ instances \in [DOMAIN rules -> Instance]
  /\ told \in [Alarms -> {"NORMAL", "ACTIVE_UNACKED", "CLEARED_UNACKED", "RTN"}]
  /\ streak \in [Alarms -> 0 .. MaxDelay + 1]

AlarmInit ==
  /\ rules \in Configs
  /\ instances = [a \in DOMAIN rules |-> Fresh]
  /\ told = [a \in Alarms |-> "NORMAL"]
  /\ streak = [a \in Alarms |-> 0]

-----------------------------------------------------------------------------
(* One instance in one tick: _evaluate_one() and its handlers.              *)

(* An enabled rule whose signal has a value is evaluated. *)
Evaluable(rule, reading) == rule.enabled /\ reading # "none"

(* RTN returns to NORMAL before anything else, and is evaluated as NORMAL. *)
Resumed(inst) == IF inst.state = "RTN" THEN Fresh ELSE inst

Waited(inst) == IF inst.since = Never THEN 0 ELSE inst.since + 1

(* Slip: the delay has to be exceeded. *)
DelayExceeded(inst, rule) == Waited(inst) > rule.delay

DelayOver(inst, rule) == Waited(inst) >= rule.delay

(* The state a reading leads to; band changes nothing but a NORMAL timer. *)
Moved(inst, rule, reading) ==
  CASE inst.state = "NORMAL" /\ reading = "exceeding" /\ DelayOver(inst, rule)
         -> "ACTIVE_UNACKED"
    [] inst.state = "ACTIVE_UNACKED" /\ reading = "clear" -> "CLEARED_UNACKED"
    [] inst.state = "ACTIVE_ACKED" /\ reading = "clear" -> "RTN"
    [] inst.state = "CLEARED_UNACKED" /\ reading = "exceeding" -> "ACTIVE_UNACKED"
    [] OTHER -> inst.state

(* The delay runs only in NORMAL, while the signal exceeds. *)
Timed(inst, rule, reading) ==
  IF inst.state # "NORMAL" THEN inst.since
  ELSE IF reading = "exceeding" /\ ~DelayOver(inst, rule) THEN Waited(inst)
  ELSE Never

Evaluated(inst, rule, reading) ==
  IF Evaluable(rule, reading)
  THEN [state |-> Moved(Resumed(inst), rule, reading),
        since |-> Timed(Resumed(inst), rule, reading)]
  ELSE [inst EXCEPT !.since = IF rule.enabled THEN Never ELSE @]

(* Slip: an alarm that comes back before it was acknowledged is no news. *)
AnnouncesNews(inst, rule, reading) ==
  /\ Evaluable(rule, reading) /\ inst.state # "CLEARED_UNACKED"
  /\ Moved(Resumed(inst), rule, reading) # Resumed(inst).state

(* Every handler that changes the state makes an event of it. *)
Announces(inst, rule, reading) ==
  /\ Evaluable(rule, reading)
  /\ Moved(Resumed(inst), rule, reading) # Resumed(inst).state

-----------------------------------------------------------------------------
(* The operations of the process.                                           *)

(* _poll_config_reload(): a life cycle that has begun is carried over to    *)
(* the new rules, a pending delay and an alarm without a rule are not.      *)
Restored(config) ==
  [a \in DOMAIN config |->
     IF a \in DOMAIN instances /\ instances[a].state # "NORMAL"
     THEN instances[a] ELSE Fresh]

Kept(config, reload) == IF reload THEN Restored(config) ELSE instances

Announced(config, reload, reading) ==
  {a \in DOMAIN config : Announces(Kept(config, reload)[a], config[a], reading[a])}

StreakAfter(a, config, reload, reading) ==
  LET before == IF reload THEN 0 ELSE streak[a]
  IN  IF a \in DOMAIN config /\ config[a].enabled /\ reading[a] = "exceeding"
      THEN IF before > MaxDelay THEN before ELSE before + 1
      ELSE 0

(* _tick(): reload if told to, resolve the signals, evaluate every rule. *)
evaluate_tick(config, reload, reading) ==
  /\ reload \/ config = rules
  /\ rules' = config
  /\ instances' = [a \in DOMAIN config |->
                     Evaluated(Kept(config, reload)[a], config[a], reading[a])]
  /\ told' = [a \in Alarms |-> IF a \in Announced(config, reload, reading)
                               THEN instances'[a].state ELSE told[a]]
  /\ streak' = [a \in Alarms |-> StreakAfter(a, config, reload, reading)]

(* An operator acknowledges between two ticks; no event is published. *)
acknowledge(a) ==
  /\ a \in DOMAIN rules
  /\ \/ /\ instances[a].state = "ACTIVE_UNACKED"
        /\ instances' = [instances EXCEPT ![a].state = "ACTIVE_ACKED"]
     \/ /\ instances[a].state = "CLEARED_UNACKED"
        /\ instances' = [instances EXCEPT ![a].state = "RTN"]
  /\ UNCHANGED <<rules, told, streak>>

(* A crash and the start that follows: every alarm is NORMAL again. *)
AlarmRestart ==
  /\ rules' \in Configs
  /\ instances' = [a \in DOMAIN rules' |-> Fresh]
  /\ streak' = [a \in Alarms |-> 0]
  /\ UNCHANGED told
=============================================================================
