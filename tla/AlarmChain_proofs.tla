------------------------- MODULE AlarmChain_proofs -------------------------
(***************************************************************************)
(* Proofs about AlarmChain, for any alarms, severities, configurations,    *)
(* delays, cooldown and number of restarts, and with messages lost or not. *)
(***************************************************************************)
EXTENDS AlarmChain, TLAPS

(***************************************************************************)
(* The alarm tracking of loop.py, for any cooldown.                        *)
(***************************************************************************)
(* A cooldown runs only for an alarm, so that a warning never meets one. *)
CooldownHasAlarm == alarm_severity = "none" => cooldown = 0

(* A step of the tracking stays in its types and keeps the two variables in *)
(* agreement, whatever was heard (loop.py _tick step 3).                    *)
LEMMA TrackStep ==
  ASSUME TrackingTypeOK, CooldownHasAlarm, NEW event \in Severities, Track(event)
  PROVE  TrackingTypeOK' /\ CooldownHasAlarm'
<1>1. CooldownAfter(event) \in 0 .. Cooldown
  BY CooldownIsPositive DEF CooldownAfter, Left, TrackingTypeOK
<1>2. Worst(event) \in Severities
  BY DEF Worst, TrackingTypeOK, Severities
<1>3. CooldownAfter(event) # 0 => Worst(event) \notin {"none", "warning"}
  <2>1. CASE event \in {"action", "protection"} /\ Rank[event] >= Rank[alarm_severity]
    BY <2>1 DEF Worst
  <2>2. CASE ~(event \in {"action", "protection"} /\ Rank[event] >= Rank[alarm_severity])
    <3> SUFFICES ASSUME CooldownAfter(event) # 0
                 PROVE  Worst(event) \notin {"none", "warning"}
      OBVIOUS
    <3>1. cooldown > 0
      BY <2>2 DEF CooldownAfter, Left, TrackingTypeOK
    <3>2. alarm_severity \in {"action", "protection"}
      BY <3>1 DEF CooldownHasAlarm, TrackingTypeOK, Severities
    <3>3. event = "warning" => ~(Rank[event] >= Rank[alarm_severity])
      BY <3>2 DEF Rank
    <3> QED BY <2>2, <3>2, <3>3 DEF Worst, Severities
  <2> QED BY <2>1, <2>2
<1>4. /\ SeverityAfter(event) \in Severities \ {"warning"}
      /\ SeverityAfter(event) = "none" => CooldownAfter(event) = 0
  BY <1>2, <1>3 DEF SeverityAfter, Severities
<1>5. cooldown' = CooldownAfter(event) /\ alarm_severity' = SeverityAfter(event)
  BY DEF Track
<1> QED BY <1>1, <1>4, <1>5 DEF TrackingTypeOK, CooldownHasAlarm
-----------------------------------------------------------------------------

(* The timer of an instance and the readings that count towards it agree. *)
TimerAgrees(inst, rule, count) ==
  /\ count = 0 /\ inst.state = "NORMAL" => inst.since = Never
  /\ count > 0 =>
       /\ rule.enabled
       /\ \/ inst.state \in Active
          \/ inst.state = "NORMAL" /\ inst.since = count - 1 /\ count <= rule.delay

TimersAgree == \A a \in DOMAIN rules : TimerAgrees(instances[a], rules[a], streak[a])

(* What the state of an instance allows to have been said of it. *)
Says(inst, last) ==
  /\ inst.state \in Active => last = "ACTIVE_UNACKED"
  /\ inst.state = "CLEARED_UNACKED" => last = "CLEARED_UNACKED"
  /\ inst.state = "RTN" => last \in {"CLEARED_UNACKED", "RTN"}

(* The cooldown is what is left of the silence that ends a protection. *)
QuietAgrees ==
  /\ alarm_severity = "protection" => cooldown = Cooldown - quiet
  /\ ProtectionHeldForCooldown

(* The inductive invariant. *)
IInv ==
  /\ TypeOK
  /\ TimersAgree
  /\ NoSilentAlarm
  /\ CooldownHasAlarm
  /\ QuietAgrees

-----------------------------------------------------------------------------
(* One instance in one tick.                                                *)

(* An evaluated instance is an instance: delays never outrun the longest. *)
LEMMA EvaluatedType ==
  ASSUME NEW inst \in Instance, NEW rule \in Rule, NEW reading \in Readings
  PROVE  Evaluated(inst, rule, reading) \in Instance
<1>1. Resumed(inst) \in Instance
  BY DelayIsNat DEF Resumed, Fresh, Instance, LifeCycle, Never
<1>2. Moved(Resumed(inst), rule, reading) \in LifeCycle
  BY <1>1 DEF Moved, Instance, LifeCycle
<1>3. Timed(Resumed(inst), rule, reading) \in Never .. MaxDelay
  BY <1>1, DelayIsNat DEF Timed, DelayOver, Waited, Instance, Rule, Never
<1>4. [inst EXCEPT !.since = IF rule.enabled THEN Never ELSE @] \in Instance
  BY DelayIsNat DEF Instance, Never
<1> QED BY <1>2, <1>3, <1>4 DEF Evaluated, Instance

(* A tick moves the timer and the count of its readings alike. *)
LEMMA EvaluatedTimer ==
  ASSUME NEW inst \in Instance, NEW rule \in Rule, NEW reading \in Readings,
         NEW count \in 0 .. MaxDelay + 1, NEW next,
         TimerAgrees(inst, rule, count),
         next = IF rule.enabled /\ reading = "exceeding"
                THEN IF count > MaxDelay THEN count ELSE count + 1 ELSE 0
  PROVE  /\ TimerAgrees(Evaluated(inst, rule, reading), rule, next)
         /\ inst.state \in {"NORMAL", "RTN"} /\ Evaluated(inst, rule, reading).state \in Active
              => next > rule.delay
<1> USE DelayIsNat
<1>1. CASE ~rule.enabled
  BY <1>1 DEF TimerAgrees, Evaluated, Evaluable, Instance, Rule, Active, Never
<1>2. CASE rule.enabled /\ reading = "none"
  BY <1>2 DEF TimerAgrees, Evaluated, Evaluable, Instance, Rule, Active, Never
<1>3. CASE rule.enabled /\ reading \in {"clear", "band"}
  BY <1>3 DEF TimerAgrees, Evaluated, Evaluable, Resumed, Moved, Timed, Fresh, Instance,
              LifeCycle, Active, Never
<1>4. CASE rule.enabled /\ reading = "exceeding"
  <2>1. CASE inst.state \in {"NORMAL", "RTN"}
    BY <1>4, <2>1 DEF TimerAgrees, Evaluated, Evaluable, Resumed, Moved, Timed, DelayOver,
                      Waited, Fresh, Instance, Rule, Active, Never
  <2>2. CASE inst.state \notin {"NORMAL", "RTN"}
    BY <1>4, <2>2 DEF TimerAgrees, Evaluated, Evaluable, Resumed, Moved, Timed, Fresh,
                      Instance, LifeCycle, Rule, Active, Never
  <2> QED BY <2>1, <2>2
<1> QED BY <1>1, <1>2, <1>3, <1>4 DEF Readings

(* What is published of an instance is the state it has entered. *)
LEMMA EvaluatedSays ==
  ASSUME NEW inst \in Instance, NEW rule \in Rule, NEW reading \in Readings,
         NEW last, NEW next, Says(inst, last),
         next = IF Announces(inst, rule, reading)
                THEN Evaluated(inst, rule, reading).state ELSE last
  PROVE  /\ Says(Evaluated(inst, rule, reading), next)
         /\ next \in {last, "ACTIVE_UNACKED", "CLEARED_UNACKED", "RTN"}
<1>1. CASE ~Evaluable(rule, reading)
  BY <1>1 DEF Says, Announces, Evaluated, Instance
<1>2. CASE Evaluable(rule, reading)
  BY <1>2 DEF Says, Announces, Evaluated, Resumed, Moved, Fresh, Instance, LifeCycle, Active
<1> QED BY <1>1, <1>2

-----------------------------------------------------------------------------
(* The steps of alarm_manager.                                              *)

(* A configuration has a rule for each alarm that it names. *)
LEMMA ConfigType ==
  ASSUME NEW config \in Configs
  PROVE  /\ DOMAIN config \subseteq Alarms
         /\ \A a \in DOMAIN config : config[a] \in Rule
BY ConfigsAreRules

(* What a tick finds before it evaluates, after a reload or without one. *)
LEMMA KeptAgrees ==
  ASSUME IInv, NEW config \in Configs, NEW reload \in BOOLEAN, reload \/ config = rules,
         NEW a \in DOMAIN config
  PROVE  /\ Kept(config, reload)[a] \in Instance
         /\ TimerAgrees(Kept(config, reload)[a], config[a], IF reload THEN 0 ELSE streak[a])
         /\ Says(Kept(config, reload)[a], told[a])
         /\ ~reload => Kept(config, reload)[a] = instances[a] /\ a \in DOMAIN rules
         /\ Kept(config, reload)[a] \in {Fresh, instances[a]}
         /\ Kept(config, reload)[a] = Fresh \/ a \in DOMAIN rules
<1> USE DelayIsNat
<1>1. Fresh \in Instance /\ Says(Fresh, told[a]) /\ TimerAgrees(Fresh, config[a], 0)
  BY DEF Fresh, Instance, LifeCycle, Says, Active, TimerAgrees, Never
<1>2. \A b \in DOMAIN rules : instances[b] \in Instance /\ Says(instances[b], told[b])
  BY DEF IInv, TypeOK, AlarmTypeOK, NoSilentAlarm, IsActive, Says
<1>3. CASE reload
  <2>1. Kept(config, reload)[a] = IF a \in DOMAIN instances /\ instances[a].state # "NORMAL"
                                  THEN instances[a] ELSE Fresh
    BY <1>3 DEF Kept, Restored
  <2>2. DOMAIN instances = DOMAIN rules
    BY DEF IInv, TypeOK, AlarmTypeOK
  <2>3. a \in DOMAIN rules /\ instances[a].state # "NORMAL"
          => TimerAgrees(instances[a], config[a], 0)
    BY DEF TimerAgrees
  <2> QED BY <1>1, <1>2, <1>3, <2>1, <2>2, <2>3
<1>4. CASE ~reload
  <2>1. Kept(config, reload)[a] = instances[a] /\ config = rules
    BY <1>4 DEF Kept
  <2> QED BY <1>2, <1>4, <2>1 DEF IInv, TimersAgree
<1> QED BY <1>3, <1>4

(* A tick of alarm_manager moves each instance as the lemmas above say. *)
LEMMA AlarmTickStep ==
  ASSUME IInv, NEW config \in Configs, NEW reload \in BOOLEAN,
         NEW reading \in [Alarms -> Readings], evaluate_tick(config, reload, reading)
  PROVE  /\ AlarmTypeOK' /\ TimersAgree' /\ NoSilentAlarm'
         /\ \A a \in DOMAIN config :
              Kept(config, reload)[a].state \in {"NORMAL", "RTN"} /\ instances'[a].state \in Active
                => streak'[a] > config[a].delay
<1> DEFINE kept(a) == Kept(config, reload)[a]
<1>1. /\ rules' = config /\ (reload \/ config = rules)
      /\ instances' = [a \in DOMAIN config |-> Evaluated(kept(a), config[a], reading[a])]
      /\ told' = [a \in Alarms |-> IF a \in Announced(config, reload, reading)
                                   THEN instances'[a].state ELSE told[a]]
      /\ streak' = [a \in Alarms |-> StreakAfter(a, config, reload, reading)]
  BY DEF evaluate_tick
<1>2. /\ DOMAIN config \subseteq Alarms
      /\ \A a \in DOMAIN config : config[a] \in Rule /\ reading[a] \in Readings
  BY ConfigType
<1>3. \A a \in DOMAIN config :
        /\ instances'[a] \in Instance
        /\ TimerAgrees(instances'[a], config[a], streak'[a])
        /\ kept(a).state \in {"NORMAL", "RTN"} /\ instances'[a].state \in Active
             => streak'[a] > config[a].delay
        /\ Says(instances'[a], told'[a])
        /\ told'[a] \in {told[a], "ACTIVE_UNACKED", "CLEARED_UNACKED", "RTN"}
  <2> SUFFICES ASSUME NEW a \in DOMAIN config
               PROVE  /\ instances'[a] \in Instance
                      /\ TimerAgrees(instances'[a], config[a], streak'[a])
                      /\ kept(a).state \in {"NORMAL", "RTN"} /\ instances'[a].state \in Active
                           => streak'[a] > config[a].delay
                      /\ Says(instances'[a], told'[a])
                      /\ told'[a] \in {told[a], "ACTIVE_UNACKED", "CLEARED_UNACKED", "RTN"}
    OBVIOUS
  <2> DEFINE before == IF reload THEN 0 ELSE streak[a]
  <2>1. /\ kept(a) \in Instance /\ TimerAgrees(kept(a), config[a], before)
        /\ Says(kept(a), told[a])
    BY <1>1, KeptAgrees
  <2>2. instances'[a] = Evaluated(kept(a), config[a], reading[a])
    BY <1>1
  <2>3. before \in 0 .. MaxDelay + 1
    BY <1>2, DelayIsNat DEF IInv, TypeOK, AlarmTypeOK
  <2>4. streak'[a] = IF config[a].enabled /\ reading[a] = "exceeding"
                     THEN IF before > MaxDelay THEN before ELSE before + 1 ELSE 0
    BY <1>1, <1>2, Zenon DEF StreakAfter
  <2>5. told'[a] = IF Announces(kept(a), config[a], reading[a])
                   THEN Evaluated(kept(a), config[a], reading[a]).state ELSE told[a]
    BY <1>1, <1>2, <2>2, Zenon DEF Announced
  <2> HIDE DEF before, kept
  <2>6. instances'[a] \in Instance
    BY <1>2, <2>1, <2>2, EvaluatedType
  <2>7. /\ TimerAgrees(instances'[a], config[a], streak'[a])
        /\ kept(a).state \in {"NORMAL", "RTN"} /\ instances'[a].state \in Active
             => streak'[a] > config[a].delay
    BY <1>2, <2>1, <2>2, <2>3, <2>4, EvaluatedTimer
  <2>8. /\ Says(instances'[a], told'[a])
        /\ told'[a] \in {told[a], "ACTIVE_UNACKED", "CLEARED_UNACKED", "RTN"}
    BY <1>2, <2>1, <2>2, <2>5, EvaluatedSays
  <2> QED BY <2>6, <2>7, <2>8
<1>4. streak' \in [Alarms -> 0 .. MaxDelay + 1]
  <2> SUFFICES ASSUME NEW a \in Alarms
               PROVE  StreakAfter(a, config, reload, reading) \in 0 .. MaxDelay + 1
    BY <1>1
  <2>1. streak[a] \in 0 .. MaxDelay + 1
    BY DEF IInv, TypeOK, AlarmTypeOK
  <2> QED BY <2>1, DelayIsNat DEF StreakAfter
<1>5. told' \in [Alarms -> {"NORMAL", "ACTIVE_UNACKED", "CLEARED_UNACKED", "RTN"}]
  <2> SUFFICES ASSUME NEW a \in Alarms
               PROVE  told'[a] \in {told[a], "ACTIVE_UNACKED", "CLEARED_UNACKED", "RTN"}
    BY <1>1 DEF IInv, TypeOK, AlarmTypeOK
  <2>1. CASE a \in DOMAIN config
    BY <1>3, <2>1
  <2>2. CASE a \notin DOMAIN config
    BY <1>1, <2>2 DEF Announced
  <2> QED BY <2>1, <2>2
<1>6. instances' \in [DOMAIN rules' -> Instance]
  BY <1>1, <1>3
<1>7. AlarmTypeOK'
  BY <1>1, <1>4, <1>5, <1>6 DEF AlarmTypeOK
<1>8. TimersAgree' /\ NoSilentAlarm'
  BY <1>1, <1>3 DEF TimersAgree, NoSilentAlarm, Says
<1> QED BY <1>3, <1>7, <1>8

LEMMA AlarmTickInv == IInv /\ AlarmTick => IInv'
<1> SUFFICES ASSUME IInv, AlarmTick PROVE IInv'
  OBVIOUS
<1>1. PICK config \in Configs, reload \in BOOLEAN, reading \in [Alarms -> Readings] :
        /\ evaluate_tick(config, reload, reading)
        /\ Publish(Sent(config, reload, reading))
  BY DEF AlarmTick
<1>2. UNCHANGED <<alarm_severity, cooldown, quiet, restarts>>
  BY DEF AlarmTick
<1>3. AlarmTypeOK' /\ TimersAgree' /\ NoSilentAlarm'
  BY <1>1, AlarmTickStep
<1>4. inbox' \subseteq Severities \ {"none"}
  <2>1. Sent(config, reload, reading) \subseteq Severities \ {"none"}
    BY ConfigType, SeveritiesAreReal DEF Sent, Announced
  <2> QED BY <1>1, <2>1 DEF Publish, IInv, TypeOK
<1> QED BY <1>2, <1>3, <1>4 DEF IInv, TypeOK, TrackingTypeOK, CooldownHasAlarm, QuietAgrees,
                               ProtectionHeldForCooldown

LEMMA AcknowledgeInv == IInv /\ Acknowledge => IInv'
<1> SUFFICES ASSUME IInv, NEW a \in Alarms, acknowledge(a),
                    UNCHANGED <<alarm_severity, cooldown, inbox, quiet, restarts>>
             PROVE  IInv'
  BY DEF Acknowledge
<1>1. a \in DOMAIN rules /\ instances \in [DOMAIN rules -> Instance]
  BY DEF acknowledge, IInv, TypeOK, AlarmTypeOK
<1>2. PICK next \in {"ACTIVE_ACKED", "RTN"} :
        /\ instances' = [instances EXCEPT ![a].state = next]
        /\ instances[a].state = IF next = "RTN" THEN "CLEARED_UNACKED" ELSE "ACTIVE_UNACKED"
  BY DEF acknowledge
<1>3. UNCHANGED <<rules, told, streak>>
  BY DEF acknowledge
<1>4. \A b \in DOMAIN rules : b # a => instances'[b] = instances[b]
  BY <1>1, <1>2
<1>5. instances'[a] = [instances[a] EXCEPT !.state = next]
  BY <1>1, <1>2
<1>6. instances' \in [DOMAIN rules -> Instance]
  BY <1>1, <1>2 DEF Instance, LifeCycle
<1>7. instances'[a].state = next
  BY <1>1, <1>5 DEF Instance
<1>8. TimersAgree'
  BY <1>1, <1>2, <1>3, <1>4, <1>7 DEF IInv, TimersAgree, TimerAgrees, Active
<1>9. NoSilentAlarm'
  BY <1>1, <1>2, <1>3, <1>4, <1>7 DEF IInv, NoSilentAlarm, Active
<1>10. TypeOK' /\ CooldownHasAlarm' /\ QuietAgrees'
  BY <1>3, <1>6 DEF IInv, TypeOK, AlarmTypeOK, TrackingTypeOK, CooldownHasAlarm, QuietAgrees,
                   ProtectionHeldForCooldown
<1> QED BY <1>8, <1>9, <1>10 DEF IInv

LEMMA RestartAlarmsInv == IInv /\ RestartAlarms => IInv'
<1> SUFFICES ASSUME IInv, RestartAlarms PROVE IInv'
  OBVIOUS
<1>1. /\ rules' \in Configs /\ instances' = [a \in DOMAIN rules' |-> Fresh]
      /\ streak' = [a \in Alarms |-> 0] /\ UNCHANGED told
      /\ UNCHANGED <<alarm_severity, cooldown, inbox, quiet>>
      /\ restarts["alarm"] < MaxRestarts
      /\ restarts' = [restarts EXCEPT !["alarm"] = @ + 1]
  BY DEF RestartAlarms, AlarmRestart
<1>2. DOMAIN rules' \subseteq Alarms
  BY <1>1, ConfigType
<1>3. Fresh \in Instance
  BY DelayIsNat DEF Fresh, Instance, LifeCycle, Never
<1>4. TimersAgree' /\ NoSilentAlarm'
  BY <1>1, <1>2 DEF TimersAgree, TimerAgrees, NoSilentAlarm, Fresh, Active
<1>5. restarts' \in [{"alarm", "control"} -> 0 .. MaxRestarts]
  BY <1>1, LossAndRestarts DEF IInv, TypeOK
<1>6. streak' \in [Alarms -> 0 .. MaxDelay + 1] /\ instances' \in [DOMAIN rules' -> Instance]
  BY <1>1, <1>3, DelayIsNat
<1> QED BY <1>1, <1>4, <1>5, <1>6 DEF IInv, TypeOK, AlarmTypeOK, TrackingTypeOK,
                                     CooldownHasAlarm, QuietAgrees, ProtectionHeldForCooldown

-----------------------------------------------------------------------------
(* The steps of control_manager.                                            *)

(* The worst severity in the queue is protection if any is. *)
LEMMA HeardWorst ==
  ASSUME NEW event \in Severities, inbox \subseteq Severities \ {"none"}, Heard(event)
  PROVE  event = "protection" <=> "protection" \in inbox
<1>1. CASE inbox = {}
  BY <1>1 DEF Heard
<1>2. CASE inbox # {}
  BY <1>2 DEF Heard, Rank, Severities
<1> QED BY <1>1, <1>2

LEMMA ControlTickInv == IInv /\ ControlTick => IInv'
<1> SUFFICES ASSUME IInv, ControlTick PROVE IInv'
  OBVIOUS
<1>1. PICK event \in Severities : Heard(event) /\ Track(event)
  BY DEF ControlTick
<1>2. /\ inbox' = {} /\ UNCHANGED <<alarmVars, restarts>>
      /\ quiet' = IF "protection" \in inbox THEN 0
                  ELSE IF quiet < Cooldown THEN quiet + 1 ELSE quiet
  BY DEF ControlTick
<1>3. TrackingTypeOK' /\ CooldownHasAlarm'
  BY <1>1, TrackStep DEF IInv, TypeOK
<1>4. event = "protection" <=> "protection" \in inbox
  BY <1>1, HeardWorst DEF IInv, TypeOK
<1>5. cooldown' = CooldownAfter(event) /\ alarm_severity' = SeverityAfter(event)
  BY <1>1 DEF Track
<1>6. quiet \in 0 .. Cooldown /\ cooldown \in 0 .. Cooldown
      /\ alarm_severity \in Severities \ {"warning"}
  BY DEF IInv, TypeOK, TrackingTypeOK
<1>7. quiet' \in 0 .. Cooldown
  BY <1>2, <1>6, CooldownIsPositive
<1>8. QuietAgrees'
  <2>1. CASE event = "protection"
    <3>1. Rank[event] >= Rank[alarm_severity]
      BY <1>6, <2>1 DEF Rank, Severities
    <3>2. CooldownAfter(event) = Cooldown /\ SeverityAfter(event) = "protection"
      BY <2>1, <3>1, CooldownIsPositive DEF CooldownAfter, SeverityAfter, Worst
    <3> QED BY <1>2, <1>4, <1>5, <2>1, <3>2, CooldownIsPositive
            DEF QuietAgrees, ProtectionHeldForCooldown
  <2>2. CASE event # "protection" /\ alarm_severity = "protection"
    <3>1. event # "none" => ~(Rank[event] >= Rank[alarm_severity])
      BY <2>2 DEF Rank, Severities
    <3>2. CooldownAfter(event) = Left /\ Worst(event) = "protection"
      BY <2>2, <3>1 DEF CooldownAfter, Worst
    <3>3. cooldown = Cooldown - quiet /\ quiet < Cooldown
      BY <2>2 DEF IInv, QuietAgrees, ProtectionHeldForCooldown
    <3>4. Left = cooldown - 1
      BY <1>6, <3>3, CooldownIsPositive DEF Left
    <3> QED BY <1>2, <1>4, <1>5, <1>6, <2>2, <3>2, <3>3, <3>4, CooldownIsPositive
            DEF QuietAgrees, ProtectionHeldForCooldown, SeverityAfter
  <2>3. CASE event # "protection" /\ alarm_severity # "protection"
    <3>1. SeverityAfter(event) # "protection"
      BY <2>3 DEF SeverityAfter, Worst
    <3>2. quiet = Cooldown
      BY <1>6, <2>3, CooldownIsPositive DEF IInv, QuietAgrees, ProtectionHeldForCooldown
    <3> QED BY <1>2, <1>4, <1>5, <2>3, <3>1, <3>2, CooldownIsPositive
            DEF QuietAgrees, ProtectionHeldForCooldown
  <2> QED BY <2>1, <2>2, <2>3
<1>9. AlarmTypeOK' /\ TimersAgree' /\ NoSilentAlarm' /\ UNCHANGED restarts
  BY <1>2 DEF IInv, TypeOK, AlarmTypeOK, alarmVars, TimersAgree, NoSilentAlarm
<1> QED BY <1>2, <1>3, <1>7, <1>8, <1>9 DEF IInv, TypeOK

LEMMA RestartControlInv == IInv /\ RestartControl => IInv'
<1> SUFFICES ASSUME IInv, RestartControl PROVE IInv'
  OBVIOUS
<1>1. /\ restarts["control"] < MaxRestarts
      /\ restarts' = [restarts EXCEPT !["control"] = @ + 1]
      /\ alarm_severity' = "none" /\ cooldown' = 0 /\ inbox' = {} /\ quiet' = Cooldown
      /\ UNCHANGED alarmVars
  BY DEF RestartControl
<1>2. restarts' \in [{"alarm", "control"} -> 0 .. MaxRestarts]
  BY <1>1, LossAndRestarts DEF IInv, TypeOK
<1>3. AlarmTypeOK' /\ TimersAgree' /\ NoSilentAlarm'
  BY <1>1 DEF IInv, TypeOK, AlarmTypeOK, alarmVars, TimersAgree, NoSilentAlarm
<1>4. TrackingTypeOK' /\ CooldownHasAlarm' /\ QuietAgrees' /\ quiet' \in 0 .. Cooldown
  BY <1>1, CooldownIsPositive DEF TrackingTypeOK, Severities, CooldownHasAlarm, QuietAgrees,
                                  ProtectionHeldForCooldown
<1> QED BY <1>1, <1>2, <1>3, <1>4 DEF IInv, TypeOK

-----------------------------------------------------------------------------
(* The specification.                                                       *)

LEMMA InitInv == Init => IInv
<1> SUFFICES ASSUME Init PROVE IInv
  OBVIOUS
<1> USE DelayIsNat, CooldownIsPositive, LossAndRestarts DEF Init, AlarmInit
<1>1. DOMAIN rules \subseteq Alarms
  BY ConfigType
<1>2. Fresh \in Instance
  BY DEF Fresh, Instance, LifeCycle, Never
<1>3. AlarmTypeOK
  BY <1>2 DEF AlarmTypeOK
<1>4. TypeOK /\ CooldownHasAlarm /\ QuietAgrees
  BY <1>3 DEF TypeOK, TrackingTypeOK, Severities, CooldownHasAlarm, QuietAgrees,
              ProtectionHeldForCooldown
<1>5. TimersAgree /\ NoSilentAlarm
  BY <1>1 DEF TimersAgree, TimerAgrees, NoSilentAlarm, Fresh, Active
<1> QED BY <1>4, <1>5 DEF IInv

LEMMA StepInv == IInv /\ [Next]_vars => IInv'
<1>1. IInv /\ UNCHANGED vars => IInv'
  BY DEF IInv, vars, alarmVars, TypeOK, AlarmTypeOK, TrackingTypeOK, TimersAgree, NoSilentAlarm,
         CooldownHasAlarm, QuietAgrees, ProtectionHeldForCooldown
<1> QED BY <1>1, AlarmTickInv, AcknowledgeInv, ControlTickInv, RestartAlarmsInv,
           RestartControlInv DEF Next

(* Every variable of the chain stays in its type. *)
THEOREM TypeCorrect == Spec => []TypeOK
<1>1. IInv => TypeOK
  BY DEF IInv
<1> QED BY <1>1, InitInv, StepInv, PTL DEF Spec

(* No alarm is active or waits for its acknowledgement without having been  *)
(* published as such, whatever was reloaded or acknowledged meanwhile.      *)
THEOREM AlarmsAreAnnounced == Spec => []NoSilentAlarm
<1>1. IInv => NoSilentAlarm
  BY DEF IInv
<1> QED BY <1>1, InitInv, StepInv, PTL DEF Spec

(* A signal that exceeds for longer than its delay has an active alarm. *)
THEOREM PressingAlarmsAreActive == Spec => []PressingAlarmIsActive
<1>1. IInv => PressingAlarmIsActive
  <2> SUFFICES ASSUME IInv, NEW a \in DOMAIN rules, streak[a] > rules[a].delay
               PROVE  IsActive(a)
    BY DEF PressingAlarmIsActive
  <2>1. TimerAgrees(instances[a], rules[a], streak[a])
    BY DEF IInv, TimersAgree
  <2>2. rules[a] \in Rule /\ streak[a] \in Nat
    BY ConfigType, DelayIsNat DEF IInv, TypeOK, AlarmTypeOK
  <2> QED BY <2>1, <2>2 DEF TimerAgrees, IsActive, Rule
<1> QED BY <1>1, InitInv, StepInv, PTL DEF Spec

(* control_manager holds protection for exactly its cooldown. *)
THEOREM ProtectionIsHeld == Spec => []ProtectionHeldForCooldown
<1>1. IInv => ProtectionHeldForCooldown
  BY DEF IInv, QuietAgrees
<1> QED BY <1>1, InitInv, StepInv, PTL DEF Spec

(* No alarm is raised before its delay has passed in consecutive readings. *)
THEOREM DelaysAreKept == Spec => RaisedAfterDelay
<1> DEFINE Raised ==
      \A a \in DOMAIN rules \intersect DOMAIN rules' :
        (/\ instances[a].state \in {"NORMAL", "RTN"}
         /\ instances'[a].state \in Active) => streak'[a] > rules'[a].delay
<1>1. IInv /\ [Next]_vars => [Raised]_vars
  <2> SUFFICES ASSUME IInv, Next PROVE Raised
    OBVIOUS
  <2>1. CASE AlarmTick
    <3>1. PICK config \in Configs, reload \in BOOLEAN, reading \in [Alarms -> Readings] :
            evaluate_tick(config, reload, reading)
      BY <2>1 DEF AlarmTick
    <3>2. rules' = config /\ (reload \/ config = rules)
      BY <3>1 DEF evaluate_tick
    <3> SUFFICES ASSUME NEW a \in DOMAIN config, instances[a].state \in {"NORMAL", "RTN"},
                        instances'[a].state \in Active
                 PROVE  streak'[a] > config[a].delay
      BY <3>2
    <3>3. Kept(config, reload)[a] \in {Fresh, instances[a]}
      BY <3>2, KeptAgrees
    <3>4. Kept(config, reload)[a].state \in {"NORMAL", "RTN"}
      BY <3>3 DEF Fresh
    <3> QED BY <3>1, <3>4, AlarmTickStep
  <2>2. CASE Acknowledge
    <3>1. PICK b \in Alarms : acknowledge(b)
      BY <2>2 DEF Acknowledge
    <3>2. /\ UNCHANGED rules /\ b \in DOMAIN rules
          /\ \A a \in DOMAIN rules : a # b => instances'[a] = instances[a]
          /\ instances[b].state \notin {"NORMAL", "RTN"}
      BY <3>1 DEF acknowledge, IInv, TypeOK, AlarmTypeOK
    <3> QED BY <3>2 DEF Active
  <2>3. CASE RestartAlarms
    BY <2>3 DEF RestartAlarms, AlarmRestart, Fresh, Active
  <2>4. CASE ControlTick \/ RestartControl
    BY <2>4 DEF ControlTick, RestartControl, alarmVars, Active
  <2> QED BY <2>1, <2>2, <2>3, <2>4 DEF Next
<1> QED BY <1>1, InitInv, StepInv, PTL DEF Spec, RaisedAfterDelay
=============================================================================
