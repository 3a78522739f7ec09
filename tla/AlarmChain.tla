----------------------------- MODULE AlarmChain -----------------------------
(***************************************************************************)
(* From the thresholds of alarm_manager to what control_manager acts upon: *)
(* AlarmManager publishes each event once, on a PUB socket that drops what *)
(* it cannot deliver; control_manager drains its SUB socket in each of its *)
(* ticks and tracks the worst severity (AlarmTracking).  The two loops run *)
(* at 1 Hz, each at its own phase, and either process may restart.         *)
(***************************************************************************)
EXTENDS AlarmManager, AlarmTracking

CONSTANTS
  Severity,     (* Of each alarm, the severity of its rule.          *)
  Lossy,        (* Whether a message may be dropped.                 *)
  MaxRestarts   (* Bounds the restarts of each process.              *)

ASSUME SeveritiesAreReal == Severity \in [Alarms -> Severities \ {"none"}]
ASSUME LossAndRestarts == Lossy \in BOOLEAN /\ MaxRestarts \in Nat

VARIABLES
  inbox,    (* The severities of the messages in the SUB queue.            *)
  quiet,    (* Ticks since control_manager last heard "protection".        *)
  restarts  (* How often alarm_manager and control_manager were restarted. *)

vars == <<alarmVars, alarm_severity, cooldown, inbox, quiet, restarts>>

(* Variables stay in their domains: rules are a configuration, instances    *)
(* are theirs, and delays and cooldown stay within their configured lengths *)
(* (evaluator.py build_alarm_instances(), loop.py __init__).                *)
TypeOK ==
  /\ AlarmTypeOK /\ TrackingTypeOK
  /\ inbox \subseteq Severities \ {"none"}
  /\ quiet \in 0 .. Cooldown
  /\ restarts \in [{"alarm", "control"} -> 0 .. MaxRestarts]

Init ==
  /\ AlarmInit
  /\ alarm_severity = "none" /\ cooldown = 0
  /\ inbox = {} /\ quiet = Cooldown
  /\ restarts = [p \in {"alarm", "control"} |-> 0]

-----------------------------------------------------------------------------

Sent(config, reload, reading) ==
  {Severity[a] : a \in Announced(config, reload, reading)}

(* All of the messages arrive, or some of them. *)
Publish(messages) ==
  IF Lossy THEN \E arriving \in SUBSET messages : inbox' = inbox \union arriving
  ELSE inbox' = inbox \union messages

AlarmTick ==
  /\ \E config \in Configs, reload \in BOOLEAN, reading \in [Alarms -> Readings] :
       /\ evaluate_tick(config, reload, reading)
       /\ Publish(Sent(config, reload, reading))
  /\ UNCHANGED <<alarm_severity, cooldown, quiet, restarts>>

Acknowledge ==
  /\ \E a \in Alarms : acknowledge(a)
  /\ UNCHANGED <<alarm_severity, cooldown, inbox, quiet, restarts>>

(* Slip: the queue is left at its first message. *)
HeardFirst(event) == IF inbox = {} THEN event = "none" ELSE event \in inbox

(* _poll_alarm_events(): the worst of all that is in the queue. *)
Heard(event) ==
  IF inbox = {} THEN event = "none"
  ELSE event \in inbox /\ \A other \in inbox : Rank[event] >= Rank[other]

ControlTick ==
  /\ \E event \in Severities : Heard(event) /\ Track(event)
  /\ inbox' = {}
  /\ quiet' = IF "protection" \in inbox THEN 0
              ELSE IF quiet < Cooldown THEN quiet + 1 ELSE quiet
  /\ UNCHANGED <<alarmVars, restarts>>

RestartAlarms ==
  /\ restarts["alarm"] < MaxRestarts
  /\ restarts' = [restarts EXCEPT !["alarm"] = @ + 1]
  /\ AlarmRestart
  /\ UNCHANGED <<alarm_severity, cooldown, inbox, quiet>>

(* The new process has a new queue and remembers nothing. *)
RestartControl ==
  /\ restarts["control"] < MaxRestarts
  /\ restarts' = [restarts EXCEPT !["control"] = @ + 1]
  /\ alarm_severity' = "none" /\ cooldown' = 0
  /\ inbox' = {} /\ quiet' = Cooldown
  /\ UNCHANGED alarmVars

Next == AlarmTick \/ Acknowledge \/ ControlTick \/ RestartAlarms \/ RestartControl

Spec == Init /\ [][Next]_vars

-----------------------------------------------------------------------------
(* What holds.                                                              *)

IsActive(a) == a \in DOMAIN rules /\ instances[a].state \in Active

(* Whoever heard every event knows of every alarm that is active or has     *)
(* cleared, across reloads and acknowledgements, which publish nothing      *)
(* (evaluator.py _make_event(), loop.py _poll_config_reload()).             *)
NoSilentAlarm ==
  \A a \in DOMAIN rules :
    /\ instances[a].state \in Active => told[a] = "ACTIVE_UNACKED"
    /\ instances[a].state = "CLEARED_UNACKED" => told[a] = "CLEARED_UNACKED"
    /\ instances[a].state = "RTN" => told[a] \in {"CLEARED_UNACKED", "RTN"}

(* An alarm leaves NORMAL or RTN only after its signal has exceeded in      *)
(* every reading of its delay; gaps, reloads, disabled periods and earlier  *)
(* alarms count for nothing (evaluator.py _handle_normal()).                *)
RaisedAfterDelay ==
  [][\A a \in DOMAIN rules \intersect DOMAIN rules' :
       (/\ instances[a].state \in {"NORMAL", "RTN"}
        /\ instances'[a].state \in Active) => streak'[a] > rules'[a].delay]_vars

(* control_manager holds "protection" for exactly the cooldown after the    *)
(* last such message, whatever weaker messages come before or after it      *)
(* (loop.py _tick step 3).                                                  *)
ProtectionHeldForCooldown == alarm_severity = "protection" <=> quiet < Cooldown

(* An alarm is active once its signal has exceeded for longer than its      *)
(* delay, whatever it was before and whether or not it was acknowledged;    *)
(* only a reload in between makes it wait anew                              *)
(* (evaluator.py _evaluate_one(), loop.py _poll_config_reload()).           *)
PressingAlarmIsActive ==
  \A a \in DOMAIN rules : streak[a] > rules[a].delay => IsActive(a)
=============================================================================
