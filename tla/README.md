# Verification of the EMS control core

TLA+ models, TLC checks and TLAPS proofs for the Energy Management System in
this repository (`src/EMS-master`). The EMS runs a battery container: it reads
batteries over CAN and an inverter (PCS) over Modbus, trips the plant on E-Stop,
fire and flood, and charges or discharges on request.

## 1. The system

Twelve processes in five layers, joined by ZMQ sockets and by one POSIX
shared-memory segment, the RTDB. Every section of the RTDB is guarded by a
seqlock and is meant to have one writer.

| Component (`src/…`) | State it keeps | Operations | Talks to | Hard behaviour | What makes it correct |
|---|---|---|---|---|---|
| safety_manager (C) | latches, digital outputs, GPIO-failure flag | 10 ms scan, operator reset, restart | GPIO, RTDB `gpio`, ZMQ reset and events, hardware watchdog | crashes between two steps, outputs that outlive the process, GPIO errors, resets racing inputs | a latched hazard stays on the pins and in the RTDB until a reset that finds the inputs at rest |
| common: seqlock, RTDB | one counter per section | begin, end, read, retry | every process | torn reads, dying writers, two writers, bounded retries | a section is an atomic register |
| data_manager (C, Python) | the segment, snapshots, health | create, initialise counters, publish | every process | recreation while others are attached | readers are never stuck on a dead counter |
| control_manager (Python) | dispatch state, pending orders, fault retries, ramp, alarm cooldown | operator requests, 1 Hz tick, RTDB write | RTDB `pcs`, `gpio`, `system`, ZMQ requests and alarms | requests, alarms, PCS answers, emergencies and restarts in any order | the state names the power; orders are served at once or dropped; faults and emergencies win |
| comm_manager, Modbus (Python) | back-off per device, last command counter | poll, write setpoint, execute command | Modbus line, RTDB `system`, `pcs` | lost writes, restarts of either side, blank copies | commands at most once and in order; the last power arrives |
| comm_manager, CAN (C) | rack data, online flags | decode frames, age-out | CAN buses, RTDB racks | two reader threads, check-then-act on `online` | no false offline, no lost recovery |
| alarm_manager | alarm life cycle, timers | evaluate, acknowledge, reload | ZMQ telemetry, alarms | missing values, reload between timer and raise | an alarm that should clear does |
| scheduler | configuration, last window and curve point, whether it owns the source priority | evaluate, send command, reload | ZMQ to control_manager, config_manager | command lost or late after its window was remembered, windows over midnight, torn files | control_manager has what the schedule asks for |
| ota_manager, boot script | version state, boot environment or flag file, two slots | download, verify, write, swap, check, roll back | U-Boot variables, `dd`, systemd | power cuts and failed writes between three environment writes, rollbacks beside updates | no incomplete image is selected; the unit comes up; a sick image is left |
| cloud_manager | offline buffer files, connection, rate limiter, one socket per target | collect, publish, buffer, replay, retention, dispatch commands | MQTT, ZMQ | replay against new records and retention; answers after the timeout | a file goes only after it was sent, in order; whoever asks is answered, and with his answer |
| config_manager | validated configuration, debounce timers | start, watch, reload, announce, answer queries | files, ZMQ | torn files, restarts, nobody listening yet | subscribers converge on the file |
| logger | Parquet and JSONL files, open handles | write, rotate, sync, clean up, query | ZMQ, SSD | crashes, a full disk, queries beside deletions | events stay and outlive telemetry; a full disk gets free; answers are whole |
| hmi_server and frontend | sessions, the schedule file | log in, relay commands, write the schedule, bridge telemetry | HTTP, websocket, ZMQ | sessions at their limit, a manager that does not answer | a login finds room; every request ends |
| diagnostics, tools | none that others use | analyse logged data | files | | |

`PROJECT.json` lists the components with their status, and every hazard at the
line where it bites with the properties that would catch it.

## 2. What is modelled

| Module | Models | Built on |
|---|---|---|
| `SafetyManager` | `safety_manager/src`: `main.c`, `response_matrix.c`, `safety_reset.c`, `gpio.c` | |
| `AtomicSection` | abstract: an atomic register with bounded reads that may give up | |
| `Seqlock` | `seqlock.h`, the Python reader of `loop.py`, the counters of `rtdb_lifecycle.c` | `AtomicSection` (refined) |
| `ControlStateMachine` | `state_machine.py`, all requests and `tick()` | |
| `AlarmTracking` | step 3 of `_tick` in `loop.py`: worst severity and cooldown | |
| `ControlManager` | `loop.py`, `intelligence.py` around the state machine | `ControlStateMachine`, `AlarmTracking` |
| `AlarmManager` | alarm_manager: `evaluator.py`, the reload in `loop.py` | |
| `AlarmChain` | alarm_manager, its events, and what control_manager tracks of them | `AlarmManager`, `AlarmTracking` |
| `CommandMailbox` | abstract: a mailbox of one command with a forgetful carrier | |
| `PcsLink` | the write of the `system` section (`loop.py` step 10), `pcs_device.py` | |
| `PcsCommand` | `PcsLink` between any control_manager and a PCS on a failing line | `PcsLink`, `CommandMailbox` (refined) |
| `OtaUpdate` | ota_manager: `state_machine.py`, `partition.py`, `loop.py`; `boot.cmd` | |
| `CloudBuffer` | cloud_manager: `buffer.py`, `buffered_loop.py`, `loop.py`, `publisher.py` | |
| `CommandClients` | `dispatcher.py` of cloud_manager, `auth.py`, `deps.py`, `control.py` of hmi_server, the REP loop of the managers | |
| `Evaluator` | scheduler: `evaluator.py`, as functions of the minute and the schedule | |
| `ScheduleChain` | hmi_server `schedule.py`, config_manager, scheduler `loop.py`, control_manager as their end | `Evaluator` |
| `Logger` | logger: `telemetry_writer.py`, `event_writer.py`, `cleanup.py`, `query_handler.py`, `__main__.py` | |
| `MC…` | the finite instances for TLC | |
| `…_proofs` | the theorems | |

Operators whose comment begins with *Slip* are mistakes a maintainer could
make. No specification uses them; each replaces the definition it resembles in
one run, to see that a property notices.

### safety_manager

One process variable `pc` walks through the scan of `main.c`: read the inputs
and evaluate them, serve one reset request, write the outputs, publish them in
the RTDB. Plant, GPIO chip, pins and RTDB are variables of their own because
they outlive the process: `Crash` may strike between any two steps and loses
what is memory of the process; `Shutdown` releases the outputs first, unless the
GPIO has failed, and leaves the RTDB as it is;
`Startup` is what systemd starts. A raw input vector is the set of pins that
read high, so the active-low inversion is a symmetric difference, applied where
the code applies it: the reset handler reads raw inputs with a polarity of its
own. The response matrix is a function from conditions to outputs. `RecreateRtdb`
is data_manager replacing the segment under a running safety_manager, which
then writes to a segment that nobody reads. Left out: the spare DI-5 and DO-7,
the event queue, and the watchdog.

### The seqlock

Each increment of the counter is a load and a store, as in C and Python alike,
and a section is a set of words that are stored and copied one by one. C readers
spin; Python readers give up after `_SEQLOCK_MAX_RETRIES` and return what they
have. Writers may die at any point, and there may be more than one, each storing
the words it owns. Memory is sequentially consistent and the 32-bit counter does
not wrap within one read. Weak memory is outside the model (section 7), also for the
Python readers and writers, which have no barriers.

### control_manager

`ControlStateMachine` has an action for every request (`request_mode_change`,
`request_manual_setpoint`, …: they only leave a pending order) and one per
branch of `tick()`, in the order of its early returns: emergency, fault trip,
FAULT handling, maintenance, running sequence, boot, maintenance entry, mode
change, setpoint. `ControlManager` adds the loop: `Command` any number of times
between ticks, `Tick` for steps 1-7 of `_tick` (alarms, cooldown, readings,
state machine), `Publish` for steps 8-10 (state-of-charge cutoff, ramp, RTDB),
and `Restart`. One tick is one second; powers are integers. What the RTDB says
of PCS and safety outputs is arbitrary in every tick, which covers stale and
blank copies as well. Left out: derating, source priority and reloads of the
configuration, on which no state of the dispatch depends.

### From a threshold to a reaction

`AlarmManager` keeps one instance per rule, as `evaluator.py` does. The value of
a signal is abstracted to what the thresholds of its rule make of it:
`exceeding`, `clear`, in the hysteresis `band` between, or `none` when no rack is
online (a rule without a resolver is a disabled one). `evaluate_tick` is one
`_tick`: it may load any configuration first, carries over the life cycles that
have begun, and evaluates every rule against any readings. `acknowledge` is the
operator's command, `AlarmRestart` a crash and the start that follows. `told` and
`streak` are history: the last event of each alarm, and for how many readings
on end it has exceeded.

`AlarmChain` adds the PUB/SUB pair, which may drop messages, and the tracking of
control_manager, which drains its queue in each of its own ticks and keeps the
worst severity until a cooldown ends. A message is its severity: the code looks
at nothing else. The two loops interleave arbitrarily, so that each may lag
behind the other. A rule keeps its severity in a reload; two rules on one signal
read independently, which is more than can happen.

### The command path to the PCS

control_manager has no line to the PCS. It stores the power, and sometimes a
command and a counter, in the `system` section; comm_manager copies the section
twice per cycle, sends the power every time, and sends the command when the
counter differs from the last it saw. `PcsLink` has one action per store of
control_manager and one per stretch between two awaits of comm_manager.
`PcsCommand` closes it: commands are numbered, so that one can tell which
reached the PCS, and both processes may restart. A copy is taken in one step,
and is blank while the counter is odd (100 retries take microseconds and then
the zero-filled copy is returned). `Seqlock` covers copies torn by a living
writer. A parity that a dead writer inverted is modelled: then the section is
read in the middle of the next write.

`CommandMailbox` is what this amounts to: one slot that newer commands
overwrite, commands that may be lost in the hand of the carrier, deliveries in
order, and no command taken twice unless the carrier forgot its counter.

### The update

`OtaUpdate` has both partition backends: `uboot`, three variables written one
by one with `fw_setenv`, and `json`, the file that `__main__.py` wires. Every
task of the command loop is a variable: an update goes through download,
verification, `dd` and the swap of the flag, a rollback looks at no state and may
come in between. What ota_manager does between two awaits is one step, except
that each write to storage is a step of its own (`job` is what remains of it),
before which the power may fail, the process may die or the write may raise.
`fw_printenv` may fail wherever a flag is read, and `systemctl reboot` may fail to
start after the last write; that it does so after another failure in the same
rollback is left out. The
boot script counts, gives a slot up, and boots what the environment names.
A version is what it does when booted: `good`, `sick` (its services do not start)
or `dead` (nothing runs, and somebody cycles the power). The bytes, signatures
and progress messages are left out; whatever refuses a package is `Refused`.

### The offline buffer

`CloudBuffer` numbers the records, so that order and loss can be seen. A file is
the records of one hour as another process would read it, the open handle holds
those not yet written through. `buffered` chooses between `CloudLoop` and
`BufferedCloudLoop`. The replay task is interrupted at its sleeps, and there the
other tasks write, rotate and delete files; the connection drops and is noticed
to have dropped at any time. What a replay publishes it has just parsed from JSON, so
that the handler for a publish that raises (`buffered_loop.py:264`) is not reached and
has no action. Sizes are counted in records. Ages are counted in
hours and from the start of the hour of a file, and the code compares the exact age:
a file that is `MaxAge` hours away from the clock is older by the fraction of the
running hour, so it goes (`Young`). Retention does not loop in the model: a file goes
if those that remain once all before it went are still too many (`Fit`).

### Commands from outside

`CommandClients` is the way of a command from MQTT or from a browser to the REP
socket of a manager, and back. The dispatcher of cloud_manager keeps one REQ
socket per target for its life, with the rule of ZMQ that it must receive before
it sends; the HMI server makes one per request. `RateLimiter` and `TokenStore`
are modelled as they are. A message is `garbled` (not JSON, or a field is
missing), `strange` (JSON of another shape: it raises before the limiter counts it,
or, for its parameters, after), `refused` by validation, or `good`.

### The schedule

`Evaluator` gives the window, the curve point and the day or night of a minute.
`ScheduleChain` follows a schedule from the file, which a write empties and then
fills, over the watcher, the reload and its announcement to the scheduler, whose
tick sends what changed, and to control_manager, which accepts or rejects it.
Restarts of config_manager and of the scheduler, lost messages, late answers and
other clients of control_manager are actions. `history` remembers whether every
command since the last load was obeyed.

### The logger

`Logger` has the finished files as a function from a kind and an hour or a day to
the records in it, beside the `.tmp` file and the JSONL handle with its buffered
tail. Rotation, the sync once a second and every `_SYNC_EVERY` events, stop, crash
and start are one action each.

A failing write is an action of its own, for `flush()` and `open()` may raise.
What becomes of it differs, as in the code: a row that fails ends the telemetry
task (`RowFails`), a periodic sync that fails ends that task (`SyncFails`), and an
event that fails is logged and forgotten, with the count of writes left where it
was, at or beyond `_SYNC_EVERY` (`EventFails`). What `flush()` had written through
before it raised is any part of the tail.

A sweep of the cleanup (`sweep`) is not one step. It holds the event loop, so no
other task of the logger runs, but other programs take space and the clock goes on
between any two of its deletions. It is four lists, one after the other: expired
telemetry, expired events, all telemetry, all events. Each deletion reads the usage
again, a deletion that raises does not (`DeleteFails`), and the end of a list does.
`sweep.calm` is history: no other program has taken space since the sweep began.

A query lists the files, reads them and answers in three steps, in a thread beside
all of that. It sees the files that match the prefix of its request. The writer
names telemetry `telemetry_system_*`; a request for a range has that prefix only if
it gives it, and `cell_snapshot` never has (section 4). The calendar is scaled down
(hours per day, days per month, the day at which the walk of `_build_date_globs`
stops). Left out: a `.tmp` file whose Parquet header could not be written, the
second kind of telemetry file, which differs in the name only, and what a query
aggregates.

## 3. What TLC checks

| Run | Instance | Shows |
|---|---|---|
| `SafetyManager` | 4 input vectors (rest, E-Stop, fire in a flood, half of everything), 1 queued reset, 1 restart | `LatchesDriveThePins`, `OkMeansReleased`, and with fairness `EStopStopsThePcs`, `ResetsEventuallyRelease` |
| `Seqlock` | 1 writer that may die once and is started again, a C and a Python reader, 2 words, 2 writes, 2 retries | `AtomicUntilACrash` (the refinement of `AtomicSection` as long as no writer died in a write), `ReadsReturn` |
| `ControlManager` | powers -4, 0, 4; timeout 2, hold 2, cooldown 1; 1 retry; ramps 2 and 4 | `ProtectionStopsDispatch`, `NoDirectReversal`, `EmergencyWins`, `CutoffStopsDispatch`, and with fairness `SequencesEnd`, `FaultRecovers` |
| `PcsCommand` | 3 writes, 1 restart of each process, powers at both ends of the register | `ImplementsMailbox` (the refinement of `CommandMailbox`), `OrdersArrive` |
| `AlarmChain` | a protection and an action alarm; 3 configurations with delays of 0-2 ticks, one disabling and one removing an alarm; cooldown 2; lossy; 1 restart of each process | `NoSilentAlarm`, `PressingAlarmIsActive`, `ProtectionHeldForCooldown` |
| `OtaUpdate` | a good, a sick, a dead version and one without an image; 2 tasks, 2 requests, 2 mishaps; both backends | `OnePipeline`, `UpdateSelectsComplete`, and with fairness `NeverBricked`, `UnhealthyIsLeft` |
| `CloudBuffer` | 5 records of both kinds, 3 hours, an age limit of 2 hours and a size limit of 2 records, a sync every 2 writes; any number of restarts and drops | `BufferIsBounded`, `DeletesWhatItSent`, `ReplaysInOrder`, and with fairness `BacklogDrains` |
| `CommandClients` | 1 target, 3 messages of every form, 1 request, 2 commands per window of 1, 1 session, 1 crash | `AnswersMatch`, `RateIsLimited`, `LoginsFindRoom`, and with fairness `RequestsAreAnswered` |
| `ScheduleChain` | a day of 4 minutes; a manual, a window and a curve schedule, windows that overlap and cross midnight; 2 writes of the file, 1 mishap | `FirstWindowThatIsOn`, `ScheduleIsObeyed`, and with fairness `ReloadArrives` |
| `Logger` | days of 2 hours, months of 2 days, 4 hours from the second on; 3 records; a threshold of 3 files, which is full; 1 file of others; 1 mishap | `EventsAreKept`, `EventsOutliveTelemetry`, `QueriesAreWhole`, and with fairness `PressureEnds` |

The last four also check the type invariant of their module, which there says
more than types: a linked handle has its file, a waiting dispatcher a socket that
sent, an awaited command a running scheduler. The type invariants of the others
are proved (section 5).

Why the bounds are enough. Safety: every latch alone and together with
another occurs, and a second restart or a second queued reset finds no state
the first has not left behind. Seqlock: the second write is the one that can
tear a read of the first, and a reader compares two loads only; the death of the
writer inverts the parity for the write after it. Control: a ramp
of one and of two steps, a timeout that can be hit before, at and after its end,
a hold at zero that lasts a tick before the OFF, both directions, and a retry budget that can be exhausted. Alarms: delays of no,
one and two ticks are over in the first, the next and a later reading, and
the cooldown is long enough to be refreshed while it runs. PCS: three commands
are one that was sent, one in hand and one that overwrites it; one restart
makes the counters of the two sides disagree and inverts the parity. OTA: two
requests are an update and a rollback that overtakes it, or two updates; two
mishaps are a cut between two writes and one in what repairs it; boots are not
bounded. Cloud: the third hour is beyond the retention of the first, and with
five records a file is synced, rotated away, replayed and written again.
Commands: the third message is the one the limiter stops, or the one that finds
the socket stuck; one session is all there are. Schedule: two writes let a reload
overtake a write, a day of four minutes has a minute in no window, in one, in two
and on each border. Logger: the hours begin in the second half of a day, so that the
first step of the clock turns it, and reach a third day, on which the first is
expired in both kinds and the second in one; three records are a file that is
read, one that is appended to meanwhile, and one more that turns the hour or the
day; the file of others fills the disk, or takes in the middle of a sweep what the
sweep has freed; one query after the other is asked.

Fairness. A scan thread under SCHED_FIFO that never blocks (`WF(Scan)`) and
`Restart=always` (`WF(Startup)`); a 1 Hz loop whose body never blocks (`WF(Tick)`,
`WF(Publish)`); reads and writes of a section, once begun, are run on; every
await of comm_manager has a timeout and its errors are caught, so its cycle has
no end (`WF(Comm)`), and a write control_manager began is run on
(`WF(FinishOrder)`). The boot script runs on, a reboot that was asked for comes
and a unit that hangs is cycled, ota_manager is restarted by systemd, its check has
a deadline and its writes end (`WF` of `Revert` or `Boot`, `Reboot`, `Startup`,
`Writing`). The replay task is a loop without an end and the MQTT client
reconnects and notices drops (`WF` of `Replay`, `Connect`, `Notice`). The
dispatcher's loop runs and every socket has a receive timeout (`WF(Dispatch)`,
`WF(GiveUp)` of each request). The debounce timer fires, the scheduler ticks, sends
and times out, control_manager answers and recovers (`WF` of `Reload`, `Tick`,
`Ask`, `Timeout`, `Answer`, `Recover`). The cleanup of the logger comes round while
it runs, and a sweep ends (`WF(Cleanup)`). Nothing is assumed of operators, plant, line, connection, crashes or
failures, except as premises that the properties state.

## 4. Where the code does not do what is written

Two are runs that expect a violation, and findings in `PROJECT.json`:

| Run | Written | Done |
|---|---|---|
| `Safety_FailSafeReachesPins` | `main.c:480`, `10-CONTEXT.md:49`: on GPIO failure all outputs are asserted | the scan skips `write_do` while the failure lasts: the outputs reach the RTDB and not the pins |
| `Schedule_ChargeWindowsCharge` | `config/schedule_config.yaml:26`: positive is discharge, negative is charge | the scheduler sends a charge window as a negative setpoint; `control_manager/state_machine.py:217` takes a negative setpoint as a discharge |

These were met in the models and have no run of their own. Of the core:

- Readers are to never block and writers to be serialized (`seqlock.h:15`); every
  CAN thread writes rack 0 of cluster 0 (`can_reader.c:179`) and the age-out thread
  writes it as well. An increment is lost and a C reader may spin for ever.
- IDLE is off (`14-CONTEXT.md:41`); an emergency keeps the setpoint, and IDLE
  after it has it again (`state_machine.py:341`).
- After a crash comm_manager is to keep sending the last power
  (`14-CONTEXT.md:65`); a writer that dies inside the section leaves it blank to
  its readers, which send 0.
- After 60 s a reduction is to be held while its alarm is active
  (`16-CONTEXT.md:106`); an event is published once, and control_manager forgets
  its severity when the cooldown ends (`loop.py:561`).
- `gpio_failure` is set in three places and cleared in none, though
  `response_matrix.h:17` and `10-CONTEXT.md:52` call it self-recovering.
- A shutdown is to wait 10 s and then to verify that the PCS is off
  (`14-CONTEXT.md:82`, and the docstring at `state_machine.py:674`).
  `pcs_shutdown_timeout_s` is read (`state_machine.py:118`) and used nowhere: a
  PCS that never reports OFF keeps the machine in STOPPING, and sending OFF in every
  tick, until an emergency or a fault. `SequencesEnd` says what is left:
  that the OFF is sent, and that the stop ends if the PCS reports OFF time and
  again.
- MAINTENANCE is to end by an explicit command (`14-CONTEXT.md:53`). An exit that
  an emergency overtook stays pending and ends the next lockout
  (`state_machine.py`, `_pending_maintenance_exit`).
- Events of alarms that clear carry the alarm's severity like those that raise
  it, and `loop.py:409` looks at the severity alone: the end of a protection
  alarm starts the FAULT and its cooldown anew. In `AlarmChain` a message is
  therefore sent on every change of state.
- A reload starts every pending delay anew (`alarm_manager/loop.py:360`), and an
  alarm that a reload disables while it is active stays active, with no
  evaluation that could end it.
- After a restart every alarm is NORMAL. If it was active, nobody is told that
  it cleared, and it is raised a second time if it still exceeds.
- After a restart of control_manager its counter starts from 0
  (`loop.py:196`). Its first command is dropped if its number is the one
  comm_manager saw last, although `rtdb.h:249` calls the counter monotonic.
  `CommandsArrive` therefore excludes restarts of control_manager.
- `intelligence.py` computes an effective power limit and a derating, and
  `loop.py:631` calls the published power derated; only an action alarm
  changes it.
- Above 3276.7 kW the setpoint register reads as a negative power; no limit
  rejects it (the assumption `PowersFitTheRegister`).
- `can_health.c:91` takes the time before it reads the racks, and a frame that
  arrives in between is younger than that time: the unsigned age wraps and the
  rack is marked offline. `prev_online` starts as 0 to avoid false recovery
  events (`can_health.c:75`), which is what makes the first frame one.
- A CAN reader thread whose `read()` fails ends for good
  (`can_reader.c`, the `break` after the error message), though
  `11-CONTEXT.md:39` says auto-recover on a frame received.
- A Python reader that exhausts its retries returns its blank copy as if it
  were data (`loop.py:134`, `pcs_device.py:65`).

- A configuration reload replaces the limits of the intelligence and not those of
  the state machine (`loop.py:423`); with no rack online the default temperature
  lifts a derating (`loop.py:476`), and an active alarm stays as it is
  (`evaluator.py:354`). A line that cannot be opened at start ends the polling of
  all its devices for the life of the process (`orchestrator.py:189`). A segment
  that data_manager recreates (`rtdb_lifecycle.c:72`) is not the one the writers
  still map.

Of the update:

- The boot count is cleared only with a new flag: `boot.cmd:80` says the health
  check will, and a pass writes the pending flag alone. A healthy slot is
  therefore left on every third boot.
- `__main__.py` wires the JSON backend, which `boot.cmd` never reads, and whose file
  nothing creates.
- The rollback is called automatic, without an operator (`24-CONTEXT.md`). A cut
  between the flag and the version state leaves a wrong version record, one
  between the flag and the reboot leaves the old image running, and a failed
  write or read in `_do_rollback` reboots into the same slot. A reboot that cannot be
  started leaves an update IDLE with the flag swapped, and a flag that cannot be read
  at start leaves the image unchecked.
- The standby device is that of the configuration: after one update `dd` writes
  to the slot that runs, though the active partition is never to be written
  (`24-CONTEXT.md`). `UpdateSelectsComplete` is about what is selected, not about
  what is overwritten.
- `PrivateTmp` and the cleanup of the staging directory make the HTTP resume
  unreachable; `extracted/` stays; `check_min_version` compares the version of the
  request; a good image whose services are slow is rolled back.

Of cloud_manager and the commands:

- "Files are deleted only after all their records are successfully published"
  (`buffered_loop.py:230`) does not hold of a file that grew while it was
  replayed, nor of QoS-0 records sent on a dead connection that nobody has
  noticed yet. Retention may delete the file that is open for writing, and what
  is buffered in it is lost. `DeletesWhatItSent` therefore speaks of the records
  that were read and handed to the client.
- A REQ socket that timed out stays stuck for the life of the process, also when
  the late answer comes, for nobody receives it (`dispatcher.py:89` calls this the
  pattern of the HMI, which makes a socket per call, `deps.py:62`). A command that timed out
  may still be executed; a QoS-1 duplicate is executed twice; a restart resets
  the limiter.
- A payload or parameters that are JSON of another shape end in a logged
  exception and no answer; a garbled one is answered with the id "unknown".

Of the schedule:

- A command whose answer times out is to be sent again at the next tick
  (`20-CONTEXT.md:27`). The window is remembered before the command is sent, and
  nothing is sent again before it changes or the file is reloaded. The same goes
  for a setpoint that is rejected because the direction changes without a standby
  in between, and for one that a restart of control_manager forgets.
- In `_evaluate_tick` the branch for a manual mode that owns the priority is never
  taken. Day and night do not wrap over midnight.
- The pattern of the schema permits hours up to 29 (`29:59`), minutes that no day
  has. Schedules with such windows are in the proofs; what the window means the
  code leaves open, and `FirstWindowThatIsOn` says nothing of it (`Timely`).
- config_manager and the scheduler do not start on a torn file. Changes during a
  restart, or before a subscription is there, are not announced. `_create_backup`
  copies the new file, not the one in force. A debounce that is cancelled removes
  the entry of its successor.

Of the logger:

- A stop and a start within the hour, or a clock that is set back, rename the new
  file over that hour's. The same hour of a later day continues an open file.
- A row that cannot be written ends the telemetry task, and a failed periodic sync
  that task, silently and until a restart. An event that cannot be written is
  dropped with a log line (`event_writer.py:189`), and `_writes_since_sync`, which
  only a sync that ends well resets, stays at or above `_SYNC_EVERY`: from then on
  every event syncs, until one succeeds.
- "JSONL never deleted before Parquet at the same tier" (`cleanup.py:318`,
  `12-CONTEXT.md:77`). The usage is read again between the tiers (`cleanup.py:366`,
  `382`, `398`) and after each deletion (`301`): what another program writes
  after the telemetry of a tier was enough sends the sweep on to the events of
  the next, with telemetry left that the first would have taken. So does an
  `unlink` that raises (`304`). `EventsOutliveTelemetry` has both as premises and
  is false without them.
- The last tier of the cleanup may unlink the open event file: the rest of
  the day's events go nowhere and the space stays taken (`PressureEnds` counts
  it). A torn last line swallows the first event after the restart.
- Telemetry is named `telemetry_system_*` and `telemetry_c_*`
  (`telemetry_writer.py:213`, `222`), and queries look for `system_*` and
  `cluster_{c}_*` (`query_handler.py:201`, `268`, `318`, `462`, `522`).
  `energy_totals` and `cell_snapshot` therefore answer "ok" and nothing, and the other
  three too unless the request gives `file_prefix`, which the HMI lets through
  (`query.py:37`) and the tests give (`test_logger_integration.py:197`, `411`).
  `QueriesAreWhole` promises the files that the prefix of the request matches: events
  always, telemetry for a request that gives the writer's prefix, and nothing for the
  others.
- `_build_date_globs` stops at day 28 of a month, and `query_event_log` raises on a
  range that leaves its month. `QueriesAreWhole` says up to where answers are
  complete.
- Event files and telemetry files are named by UTC, and the cleanup compares the
  names with the local `date.today()`: for the hours between the two midnights a file
  expires a day early or late. The model has one clock. Rows of an open
  Parquet file are lost in a crash. A query that timed out keeps its thread.

## 5. What is proved

TLAPS checks these for every value of the constants.

| Module | Theorems | Argument |
|---|---|---|
| `SafetyManager_proofs` | type, both safety properties of the run, `RtdbShowsTheStop`, `LampsExclude`, `LatchHeldUntilReset`, `DischargeNeedsConfirmedFire`, for any set of input vectors | `IInv`: the outputs last computed fit the latches they were computed from (`OutputsInv`), pins and RTDB are one of the outputs that the program point allows (`PinsInv`, `RtdbInv`, `Mirror`), and without a process nothing else remains (`OffInv`) |
| `Storage_proofs`, of `Seqlock` | type, parity, `ValidatedIsCurrent`, `AtomicUntilACrash`, for any words and readers and one writer, up to its first death (`ASSUME OneWriter`); where it cannot die, the refinement of `AtomicSection` without condition | a reader whose counter is unchanged has copied only words no write has touched since; `stable` equals the section whenever the counter is even |
| `Storage_proofs`, of `PcsLink` and `PcsCommand` | type, `CommandsComeInOrder`, refinement of `CommandMailbox`, and that every power that fits the register survives its encoding, for any number of writes and restarts | `Ordered`: what the PCS took <= what was fetched <= what was stored; `Remembered`: the counter of the last fetched command is the section's unless it was forgotten; `Numbered`: the section holds the newest command from the moment it is stored |
| `Storage_proofs`, of `Logger` | type, `EventsAreKept`, `EventsOutliveTelemetry`, `QueriesAreWhole`, for any calendar, retention, threshold, records, failures, crashes and stops | `LoggerInv`: a record that is in no file yet is in one place only (`IsApart`); a list of a calm sweep that comes after another finds of the earlier ones only what could not be deleted (`IsSwept`); what a query found when it was asked is not pending, and a file it will not read is not there, or is another one under the name of a deleted one, with nothing in common (`IsServed`). `Moves`: in every step files only get what was pending or is new, and only a sweep takes one away. `DaysAreNamed` is the walk over the days: within a month none is left out |
| `ControlManager_proofs` | type, every safety property of the run, `SetpointFollowsState`, `OrdersFit`, `OrdersNeverLinger`, `ResetsAreAccounted`, for any powers, timeouts, budgets and ramps | `MachineInv`: state, sub-state, setpoint and orders agree, and an emergency leaves no order; `CooldownHasAlarm`: a running cooldown has an alarm; `CutoffIsOrdered`: a cutoff in CHARGING or DISCHARGING has left an IDLE order |
| `AlarmChain_proofs` | type, every safety property of the run, `RaisedAfterDelay`, for any alarms, severities, configurations, cooldown and number of restarts, lossy or not | `IInv`: the timer of an instance and the number of its readings agree (`TimersAgree`), every alarm was announced as what it is (`NoSilentAlarm`), and what is left of the cooldown is what the quiet time leaves of it (`QuietAgrees`) |
| `OtaUpdate_proofs` | type, `OnePipeline`, `UpdateSelectsComplete`, for any tasks, versions, requests and mishaps | rollbacks overwrite the state that guards the updates, so `IInv` says what it still promises: it is not "idle" while a task is in the pipeline (`Busy`), at most one task is (`Alone`), an update's writes belong to that task and a confirmation is written while no command is heard (`Owned`, `Quiet`), the slot the code never writes is whole (`Complete`), and what is being checked has a flag (`Seen`) |
| `CloudBuffer_proofs` | type, `BufferIsBounded`, `DeletesWhatItSent`, `ReplaysInOrder`, for any records, hours, limit, age and flush interval | `Neat`: every file holds its records in the order of their making, a later file only later ones, and what is still to be flushed is newer than all files; `HasRoom`: the files and that tail together stay within the bound; `SendsAll`: what was read is sent or still to be sent; `ListsInOrder`: a file that a replay has not listed is of a later hour than all it has; `UnsentIsNewer`: what no replay has sent is newer than what one has. That retention ends below the limit is `FitFits`, with the oldest file it keeps as the witness |
| `CommandClients_proofs` | type, `AnswersMatch`, `RateIsLimited`, `LoginsFindRoom`, for any managers, limit, window, sessions, messages and crashes | `Counted`: the times the limiter keeps are in order, and a command that was let through inside the window has one no earlier, counted from their ends; `SessionsInv`: sessions are finitely many and at most the limit; `Ordered`: messages are taken in the order of their numbers, and a response is to a message before the one that waits and all that are queued; `Sockets`: of what a socket sent at most one command is unanswered or its answer unread, and it is the one the dispatcher waits for |
| `ScheduleChain_proofs` | type, `FirstWindowThatIsOn`, `ScheduleIsObeyed`, for any day, curve interval, file contents, writes and mishaps | `AwaitsTheLast`: an awaited command is the last that waits; `RemembersItsPlan`, `SendsItsPlan`: what the scheduler remembers is a plan of its file, and what it has to send is the end of what that plan takes; `DidWhatItSent`: as long as all was obeyed, what is not left to send has been done; `PlansForNow`: after a tick the plan is this minute's |

The properties themselves are not inductive: each speaks of one program point
or of one pair of variables, and it is the conjunction of what holds in
between that every step preserves. TLC checked the invariants as formulas
before they were proved.

Assumptions are the named `ASSUME`s of the modules, evaluated by TLC on every
instance. Where a proof needs a first window, an oldest file or a least index, it
takes it from the well-foundedness of the naturals (`MinIsLeast`), as nothing can
be proved by induction here; what is needed of cardinalities is that of intervals
and of their images. `Storage_proofs` extends three specifications at once, so the
names of `PcsCommand` and `Logger` that every specification has carry a prefix.

Every safety property that a passing run checks is a theorem. Only model-checked:
all liveness (the prover has no rules for `ENABLED`), and the seqlock after a death.

## 6. What a next step would be

1. `CanRack`: the CAN reader threads and the age-out of `can_health.c`: false
   recoveries at start, the unsigned age, `online` checked and then written.
2. `ControlManager` and `PcsLink` closed over a PCS that starts, stops and fails:
   the OFF of a lockout that is sent once and lost, the ON that times out.
3. `ScheduleChain` closed over `ControlStateMachine` instead of the abstract end
   of the chain it has now.
4. The polling of devices with its back-off, and the feed thread of the watchdog,
   for which time would have to be real.
5. An abstract queue that loses its oldest records, which `CloudBuffer` would
   implement, and the proof that it does.

## 7. Not modelled

CAN frame decoding (pure, table-driven), the age of CAN frames, ZMQ and msgpack
framing (models start from decoded requests), mpack (vendored), diagnostics
(analysis without an effect), the hardware watchdog (a bound in real time),
Modbus polling with its health back-off and discovery, the queries of
config_manager and its command line tool (they read a cache), telemetry,
heartbeat and status messages of every service (periodic reads that decide
nothing), the websocket bridge and the frontend of the HMI, and the bench tools
under `tools/`. Weak memory and the wrap of the 32-bit seqlock counter are not
modelled either: memory is sequentially consistent, and at one write per 10 ms a
wrap inside one read takes eight months.

## 8. Running

    tlc -workers 2 -config SafetyManager.cfg MCSafetyManager.tla
    tlapm SafetyManager_proofs.tla

and so for the others; the run table of `PROJECT.json` pairs modules and
configurations.
