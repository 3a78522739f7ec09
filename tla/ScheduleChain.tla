--------------------------- MODULE ScheduleChain ---------------------------
(***************************************************************************)
(* The way of a schedule: the HMI server or an editor writes the file      *)
(* schedule_config.yaml, the watcher of config_manager sees it closed and  *)
(* reloads it half a second later, the scheduler hears of that and reads   *)
(* the file itself, and sends control_manager a command when what the      *)
(* schedule asks for has changed.                                          *)
(***************************************************************************)
EXTENDS Evaluator

CONSTANTS
  Configs,    (* The schedules that pass the schema.                       *)
  Torn,       (* A file that does not: cut short, edited wrongly, empty.   *)
  MaxWrites,  (* Bound: writes of the file.                                *)
  MaxMishaps  (* Bound: restarts, lost commands, commands of operators.    *)

(* What schedule_config.schema.json lets pass. *)
Windows == [start : Nat, end : Nat, action : {"charge", "discharge", "idle"}, power : Int]

ASSUME ScheduleAssumption ==
  /\ Torn \notin Configs /\ Configs # {}
  /\ \A config \in Configs :
       /\ config.mode \in {"manual", "time_of_day", "curve"}
       /\ config.windows \in Seq(Windows)
       /\ config.curve \in [1 .. Day \div Interval -> Int]
  /\ MaxWrites \in Nat /\ MaxMishaps \in Nat

VARIABLES
  now,       (* The minute of the day.                                     *)
  file,      (* What schedule_config.yaml holds.                           *)
  writing,   (* What the HMI server is about to write, or Torn.            *)
  manager,   (* config_manager: up (the configuration is cached), watching *)
             (* (the file is watched), due (a reload is), and the cache.   *)
  scheduler, (* config; last and last_day_night, what was sent for; owns,  *)
             (* _schedule_owns_priority; calls, the commands to send yet,  *)
             (* and asked: the first of them is sent; up, and subscribed.  *)
  notice,    (* A config_reload message waits in its socket.               *)
  control,   (* control_manager: its mode and its power (positive for      *)
             (* charge), ready for a setpoint, and the commands it got.    *)
  history,   (* heard: every command since the last load was obeyed and    *)
             (* nothing else moved control; ticked: this minute had a tick.*)
  writes, mishaps

vars == <<now, file, writing, manager, scheduler, notice, control, history, writes, mishaps>>

None == [index |-> -1]

Down == [up |-> FALSE, watching |-> FALSE, due |-> FALSE, config |-> Torn]
Loaded(config) ==
  [up |-> TRUE, subscribed |-> FALSE, config |-> config, last |-> None,
   last_day_night |-> "none", owns |-> FALSE, calls |-> <<>>, asked |-> FALSE]
Fresh == [mode |-> "DAY", power |-> 0, ready |-> TRUE, inbox |-> <<>>]

Init ==
  /\ now \in Minutes /\ file \in Configs /\ writing = Torn
  /\ manager = [Down EXCEPT !.up = TRUE, !.watching = TRUE, !.config = file]
  /\ scheduler = [Loaded(file) EXCEPT !.subscribed = TRUE]
  /\ notice = FALSE /\ control = Fresh
  /\ history = [heard |-> TRUE, ticked |-> FALSE]
  /\ writes = 0 /\ mishaps = 0

Mishap == mishaps < MaxMishaps /\ mishaps' = mishaps + 1

(* load_with_profile() finds it, and the schema lets it pass. *)
Passes == file # Torn

Clock ==
  /\ now' = (now + 1) % Day
  /\ history' = [history EXCEPT !.ticked = FALSE]
  /\ UNCHANGED <<file, writing, manager, scheduler, notice, control, writes, mishaps>>
-----------------------------------------------------------------------------
(* The file.                                                                *)

(* Slip: the file is watched from the start of the process. *)
ClosedUnwatched == manager' = [manager EXCEPT !.due = TRUE]

(* _on_readable(): a close restarts the wait of half a second.              *)
Closed == manager' = [manager EXCEPT !.due = manager.watching]

(* update_schedule(): write_text() empties the file, then fills and closes  *)
(* it.                                                                      *)
BeginPut ==
  /\ writing = Torn /\ writes < MaxWrites /\ writes' = writes + 1
  /\ writing' \in Configs /\ file' = Torn
  /\ UNCHANGED <<now, manager, scheduler, notice, control, history, mishaps>>

EndPut ==
  /\ writing # Torn
  /\ file' = writing /\ writing' = Torn /\ Closed
  /\ UNCHANGED <<now, scheduler, notice, control, history, writes, mishaps>>

(* The server dies between the two; the kernel closes the file. *)
BreakPut ==
  /\ writing # Torn /\ Mishap
  /\ writing' = Torn /\ Closed
  /\ UNCHANGED <<now, file, scheduler, notice, control, history, writes>>

(* Somebody edits the file in place. *)
Edit ==
  /\ writing = Torn /\ writes < MaxWrites /\ writes' = writes + 1
  /\ file' \in Configs \cup {Torn} /\ Closed
  /\ UNCHANGED <<now, writing, scheduler, notice, control, history, mishaps>>

-----------------------------------------------------------------------------
(* config_manager.                                                          *)

(* Slip: only a change is announced, and the diff is made after the swap.   *)
ReloadDiffsLate ==
  /\ manager.due
  /\ manager' = [manager EXCEPT !.due = FALSE, !.config = IF file = Torn THEN @ ELSE file]
  /\ notice' = (notice \/ (Passes /\ file # manager'.config /\ scheduler.subscribed))
  /\ UNCHANGED <<now, file, writing, scheduler, control, history, writes, mishaps>>

(* handle_reload(): a file that does not pass is reported and left alone;   *)
(* one that does is served from now on, and announced to who subscribes.    *)
Reload ==
  /\ manager.due
  /\ manager' = [manager EXCEPT !.due = FALSE, !.config = IF file = Torn THEN @ ELSE file]
  /\ notice' = (notice \/ (Passes /\ scheduler.subscribed))
  /\ UNCHANGED <<now, file, writing, scheduler, control, history, writes, mishaps>>

KillManager ==
  /\ manager.up /\ Mishap /\ manager' = Down
  /\ UNCHANGED <<now, file, writing, scheduler, notice, control, history, writes>>

(* load_all() ends the process on a file that does not pass; systemd tries  *)
(* again.                                                                   *)
StartManager ==
  /\ ~manager.up /\ Passes
  /\ manager' = [Down EXCEPT !.up = TRUE, !.config = file]
  /\ UNCHANGED <<now, file, writing, scheduler, notice, control, history, writes, mishaps>>

(* watch_loop() is entered after the load. *)
Watch ==
  /\ manager.up /\ ~manager.watching
  /\ manager' = [manager EXCEPT !.watching = TRUE]
  /\ UNCHANGED <<now, file, writing, scheduler, notice, control, history, writes, mishaps>>

-----------------------------------------------------------------------------
(* The scheduler.                                                           *)

Priority(mode) == [action |-> "source_priority", mode |-> mode, power |-> 0]
Setpoint(power) == [action |-> "manual_setpoint", mode |-> "MANUAL", power |-> power]

(* _evaluate_time_of_day_tick(), _evaluate_curve_tick(): the window, or the *)
(* index, is remembered before it is known whether the commands arrive.     *)
Differs(s, plan) == IF s.config.mode = "curve" THEN plan.index # s.last.index ELSE plan # s.last
Planned(s) ==
  LET plan  == Plan(now, s.config)
      owned == [s EXCEPT !.last = plan, !.owns = TRUE]
  IN  IF s.config.mode = "manual" \/ ~Differs(s, plan) THEN s
      ELSE [owned EXCEPT !.calls =
              @ \o (IF s.owns THEN <<>> ELSE <<Priority("MANUAL")>>) \o <<Setpoint(plan.power)>>]

(* _evaluate_day_night_tick(). *)
DayNight(s) ==
  LET dn == DayOrNight(now, s.config)
  IN  [s EXCEPT !.last_day_night = dn,
                !.calls = IF dn # s.last_day_night /\ ~s.owns THEN Append(@, Priority(dn)) ELSE @]

(* Slip: a reload keeps what was sent. *)
ReloadedKeepsTracking(s) == IF notice /\ Passes THEN [s EXCEPT !.config = file] ELSE s

(* _poll_config_reload(): the message says that there is a new file, and    *)
(* the file is read again; _on_config_reloaded() forgets what was sent.     *)
Reloaded(s) ==
  IF notice /\ Passes
  THEN [s EXCEPT !.config = file, !.last = None, !.last_day_night = "none", !.owns = FALSE]
  ELSE s

(* run(): one pass of the loop; its commands are sent one after another.    *)
Tick ==
  /\ scheduler.up /\ scheduler.calls = <<>>
  /\ notice' = FALSE
  /\ scheduler' = DayNight(Planned(Reloaded(scheduler)))
  /\ history' = [heard |-> history.heard \/ (notice /\ Passes), ticked |-> TRUE]
  /\ UNCHANGED <<now, file, writing, manager, control, writes, mishaps>>

(* _send_command() *)
Ask ==
  /\ scheduler.calls # <<>> /\ ~scheduler.asked
  /\ scheduler' = [scheduler EXCEPT !.asked = TRUE]
  /\ control' = [control EXCEPT !.inbox = Append(@, Head(scheduler.calls))]
  /\ UNCHANGED <<now, file, writing, manager, notice, history, writes, mishaps>>

Answered == [scheduler EXCEPT !.calls = Tail(@), !.asked = FALSE]

(* No answer in time: the socket is made anew and the loop goes on.  The    *)
(* command is lost, or still waits where control_manager will find it.      *)
Timeout ==
  /\ scheduler.asked
  /\ IF control.inbox = <<>> THEN UNCHANGED mishaps ELSE Mishap
  /\ scheduler' = Answered
  /\ history' = [history EXCEPT !.heard = FALSE]
  /\ UNCHANGED <<now, file, writing, manager, notice, control, writes>>

Lose ==
  /\ control.inbox # <<>> /\ Mishap
  /\ control' = [control EXCEPT !.inbox = <<>>]
  /\ UNCHANGED <<now, file, writing, manager, scheduler, notice, history, writes>>

KillScheduler ==
  /\ scheduler.up /\ Mishap
  /\ scheduler' = [scheduler EXCEPT !.up = FALSE, !.subscribed = FALSE, !.calls = <<>>, !.asked = FALSE]
  /\ notice' = FALSE
  /\ UNCHANGED <<now, file, writing, manager, control, history, writes>>

(* load_schedule_config() raises on a file that does not pass. *)
StartScheduler ==
  /\ ~scheduler.up /\ Passes
  /\ scheduler' = Loaded(file)
  /\ history' = [heard |-> TRUE, ticked |-> FALSE]
  /\ UNCHANGED <<now, file, writing, manager, notice, control, writes, mishaps>>

(* The subscription reaches the publisher some time after connect(). *)
Subscribe ==
  /\ scheduler.up /\ ~scheduler.subscribed /\ manager.up
  /\ scheduler' = [scheduler EXCEPT !.subscribed = TRUE]
  /\ UNCHANGED <<now, file, writing, manager, notice, control, history, writes, mishaps>>

-----------------------------------------------------------------------------
(* control_manager, as far as these commands go.                            *)

(* request_manual_setpoint(): no change of direction without a standby.     *)
Accepts(call) ==
  call.action = "source_priority" \/ (control.ready /\ control.power * call.power >= 0)

Obeyed(call) ==
  IF call.action = "source_priority" THEN [control EXCEPT !.mode = call.mode]
  ELSE [control EXCEPT !.power = call.power]

(* _poll_commands(): a command is answered, to who asked if it still waits. *)
Answer ==
  /\ control.inbox # <<>>
  /\ LET call  == Head(control.inbox)
         after == IF Accepts(call) THEN Obeyed(call) ELSE control
         last  == Len(control.inbox) = 1
     IN  /\ control' = [after EXCEPT !.inbox = Tail(@)]
         /\ IF scheduler.asked /\ last
            THEN /\ scheduler' = Answered
                 /\ history' = [history EXCEPT !.heard = @ /\ Accepts(call)]
            ELSE /\ UNCHANGED scheduler
                 /\ history' = [history EXCEPT !.heard = FALSE]
  /\ UNCHANGED <<now, file, writing, manager, notice, writes, mishaps>>

(* Another client, a fault, or a restart. *)
Interfere ==
  /\ Mishap
  /\ control' \in {[control EXCEPT !.mode = "MANUAL", !.power = 0],
                   [control EXCEPT !.power = 0, !.ready = FALSE], Fresh}
  /\ history' = [history EXCEPT !.heard = FALSE]
  /\ UNCHANGED <<now, file, writing, manager, scheduler, notice, writes>>

Recover ==
  /\ ~control.ready /\ control' = [control EXCEPT !.ready = TRUE]
  /\ UNCHANGED <<now, file, writing, manager, scheduler, notice, history, writes, mishaps>>

Files == BeginPut \/ EndPut \/ BreakPut \/ Edit
Manager == Reload \/ KillManager \/ StartManager \/ Watch
Scheduler == Tick \/ Ask \/ Timeout \/ KillScheduler \/ StartScheduler \/ Subscribe
Control == Answer \/ Lose \/ Interfere \/ Recover

Next == Clock \/ Files \/ Manager \/ Scheduler \/ Control

Spec == Init /\ [][Next]_vars

(* The services run, the watcher's timer fires, and control_manager answers *)
(* or the scheduler's wait ends.                                            *)
FairSpec ==
  Spec /\ WF_vars(Reload) /\ WF_vars(Tick) /\ WF_vars(Ask) /\ WF_vars(Timeout)
       /\ WF_vars(Answer) /\ WF_vars(Recover)
-----------------------------------------------------------------------------
(* Properties.                                                              *)

Calls == [action : {"source_priority", "manual_setpoint"}, mode : {"DAY", "NIGHT", "MANUAL"}, power : Int]

(* Every variable stays in its domain, and only a running scheduler that    *)
(* has a command to send waits for an answer.                               *)
TypeOK ==
  /\ now \in Minutes /\ file \in Configs \cup {Torn} /\ writing \in Configs \cup {Torn}
  /\ manager.config \in Configs \cup {Torn} /\ manager.up = (manager.config # Torn)
  /\ manager.watching => manager.up
  /\ manager.due => manager.watching
  /\ scheduler.config \in Configs
  /\ scheduler.calls \in Seq(Calls)
  /\ scheduler.asked => scheduler.up /\ scheduler.calls # <<>>
  /\ scheduler.subscribed => scheduler.up
  /\ notice \in BOOLEAN /\ control.inbox \in Seq(Calls)
  /\ writes \in 0 .. MaxWrites /\ mishaps \in 0 .. MaxMishaps

(* The window the evaluator finds is the first that is on, counting from    *)
(* its start over midnight (evaluator.py evaluate_time_of_day()).           *)
FirstWindowThatIsOn ==
  LET windows == scheduler.config.windows
      result  == TimeOfDay(now, windows)
  IN  /\ result.index > 0 /\ Timely(windows[result.index]) => now \in On(windows[result.index])
      /\ \A i \in DOMAIN windows :
           Timely(windows[i]) /\ now \in On(windows[i]) => result.index \in 1 .. i

(* While every command arrives and is accepted, control_manager has what    *)
(* the schedule asks for this minute, over any reloads and changes of mode  *)
(* (loop.py _evaluate_tick(), which sends changes only).                    *)
Quiet == scheduler.up /\ scheduler.calls = <<>> /\ history.ticked /\ history.heard
ScheduleIsObeyed ==
  Quiet =>
    IF scheduler.config.mode = "manual" THEN control.mode = DayOrNight(now, scheduler.config)
    ELSE control.mode = "MANUAL" /\ control.power = Plan(now, scheduler.config).power

(* A file that passes reaches the scheduler once it is due for a reload,    *)
(* unless it is spoilt, or one of the two goes away meanwhile (manager.py   *)
(* handle_reload(), loop.py _poll_config_reload()).                         *)
Attended == Passes /\ manager.up /\ scheduler.subscribed
ReloadArrives == (manager.due /\ Attended) ~> (scheduler.config = file \/ ~Attended)

(* "negative=charge (kW import)" (config/schedule_config.yaml:26): a window *)
(* that charges charges.                                                    *)
ChargeWindowsCharge ==
  Quiet /\ scheduler.config.mode = "time_of_day"
        /\ TimeOfDay(now, scheduler.config.windows).action = "charge"
    => control.power >= 0
=============================================================================
