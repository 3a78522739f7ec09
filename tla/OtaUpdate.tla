----------------------------- MODULE OtaUpdate -----------------------------
(***************************************************************************)
(* The A/B firmware update: ota_manager, a process on one event loop that  *)
(* downloads an image, writes it with dd and swaps the boot flag           *)
(* (state_machine.py, loop.py, partition.py), and the boot script that     *)
(* counts boots and falls back to the other slot (boot.cmd).               *)
(*                                                                         *)
(* A step of ota_manager is what it does between two awaits, except that   *)
(* each write to storage is a step of its own: the other tasks of the      *)
(* event loop do not run between those, but the power may fail there, the  *)
(* process may die, and the write itself may fail.                         *)
(***************************************************************************)
EXTENDS Integers, Sequences, FiniteSets

CONSTANTS
  Versions,    (* Firmware versions.                                       *)
  Factory,     (* The version both slots hold at first.                    *)
  Quality,     (* What a version does when booted: "good", "sick" (its     *)
               (* services do not start) or "dead" (nothing runs).         *)
  Bare,        (* Versions whose package has no firmware file.             *)
  Tasks,       (* Names of the background tasks of the command loop.       *)
  MaxRequests, (* Bound: requests for an update or a rollback.             *)
  MaxMishaps   (* Bound: power cuts, deaths, failed writes, reads, reboots.*)

ASSUME OtaAssumption ==
  /\ Factory \in Versions /\ Bare \subseteq Versions
  /\ "partial" \notin Versions /\ "main" \notin Tasks /\ "none" \notin Tasks
  /\ Quality \in [Versions -> {"good", "sick", "dead"}] /\ Quality[Factory] = "good"
  /\ MaxRequests \in Nat /\ MaxMishaps \in Nat

VARIABLES
  backend,  (* The partition backend: "uboot", or the "json" file that     *)
            (* __main__.py wires.                                          *)
  image,    (* What each slot holds: a version, or "partial" after a dd    *)
            (* that did not end.                                           *)
  env,      (* The U-Boot variables of the boot script.                    *)
  file,     (* The JSON boot flag.  Nothing in the code creates it.        *)
  record,   (* The version state on disk.                                  *)
  power,    (* "loader", "up", or "hung" when the slot booted is dead.     *)
  booted,   (* The slot that runs.                                         *)
  main,     (* ota_manager: "down", "starting", "checking", "serving".     *)
  state,    (* OtaStateMachine._state.                                     *)
  memory,   (* OtaStateMachine._version_state.                             *)
  tasks,    (* The background tasks.                                       *)
  job,      (* The writes under way, which block the event loop.           *)
  closing,  (* systemctl reboot was called.                                *)
  requests, mishaps (* So far, for the bounds.                             *)

disk    == <<image, env, file, record>>
process == <<main, state, memory, tasks, job>>
bounds  == <<requests, mishaps>>
vars    == <<backend, disk, power, booted, process, closing, bounds>>

Slots == {"a", "b"}
Other(slot) == IF slot = "a" THEN "b" ELSE "a"
Flags == [active : Slots, previous : Slots, count : 0 .. 3, pending : BOOLEAN]
Absent == [absent |-> TRUE]
NoTask == [pc |-> "none", version |-> Factory, old |-> Factory]
NoJob  == [owner |-> "none"]
(* The fields of a task that update the slot, and the writes of a flag.     *)
FlagWrites == IF backend = "uboot" THEN <<"active", "count", "pending">> ELSE <<"file">>
(* The write that completes a flag. *)
LastOfFlag == {"pending", "file"}

(* read_boot_flag() of the backend; it raises when there is no file. *)
NoFlag == backend = "json" /\ file = Absent
Flag == IF backend = "uboot"
        THEN [active |-> env.active, previous |-> Other(env.active),
              count |-> env.count, pending |-> env.pending]
        ELSE file

(* BasePartitionBackend writes to the device of its configuration, whatever *)
(* slot is active.                                                          *)
StandbyDevice == "b"

Runs(slot) == image[slot] \in Versions /\ Quality[image[slot]] # "dead"

Init ==
  /\ backend \in {"uboot", "json"}
  /\ image = [slot \in Slots |-> Factory]
  /\ env = [active |-> "a", count |-> 0, pending |-> FALSE]
  /\ file \in {Absent, [active |-> "a", previous |-> "b", count |-> 0, pending |-> FALSE]}
  /\ record = [current |-> Factory, previous |-> Factory]
  /\ power = "loader" /\ booted = "a"
  /\ main = "down" /\ state = "idle" /\ memory = record
  /\ tasks = [t \in Tasks |-> NoTask] /\ job = NoJob
  /\ closing = FALSE
  /\ requests = 0 /\ mishaps = 0

-----------------------------------------------------------------------------
(* The boot script.                                                         *)

(* Slip: the count starts again, and the slot stays. *)
RevertSame ==
  /\ power = "loader" /\ env.count > 2
  /\ env' = [env EXCEPT !.count = 0]
  /\ UNCHANGED <<backend, image, file, record, power, booted, process, closing, bounds>>

(* More than two boots of this slot: the other one, and count again. *)
Revert ==
  /\ power = "loader" /\ env.count > 2
  /\ env' = [env EXCEPT !.active = Other(env.active), !.count = 0]
  /\ UNCHANGED <<backend, image, file, record, power, booted, process, closing, bounds>>

Boot ==
  /\ power = "loader" /\ env.count <= 2
  /\ env' = [env EXCEPT !.count = @ + 1]
  /\ booted' = env.active
  /\ power' = IF Runs(env.active) THEN "up" ELSE "hung"
  /\ UNCHANGED <<backend, image, file, record, process, closing, bounds>>

-----------------------------------------------------------------------------
(* ota_manager: its start, and what ends it.                                *)

Free == power = "up" /\ main # "down" /\ job = NoJob

Start ==
  /\ power = "up" /\ main = "down"
  /\ main' = "starting" /\ memory' = record
  /\ UNCHANGED <<backend, disk, power, booted, state, tasks, job, closing, bounds>>

(* The process is gone, and a dd with it. *)
Gone == /\ main' = "down" /\ state' = "idle" /\ job' = NoJob
        /\ tasks' = [t \in Tasks |-> NoTask]
        /\ UNCHANGED memory

(* systemctl reboot takes effect; or somebody cycles the power of a unit    *)
(* that hangs.                                                              *)
Reboot ==
  /\ closing \/ power = "hung"
  /\ power' = "loader" /\ closing' = FALSE
  /\ Gone
  /\ UNCHANGED <<backend, disk, booted, bounds>>

Mishap == mishaps < MaxMishaps /\ mishaps' = mishaps + 1

PowerCut ==
  /\ power' = "loader" /\ closing' = FALSE
  /\ Mishap /\ Gone
  /\ UNCHANGED <<backend, disk, booted, requests>>

(* Somebody reboots the unit, as often as they like. *)
Maintain ==
  /\ power = "up" /\ main = "serving" /\ job = NoJob
  /\ power' = "loader" /\ closing' = FALSE
  /\ Gone
  /\ UNCHANGED <<backend, disk, booted, bounds>>

(* The process dies, and systemd will start it again. *)
Crash ==
  /\ power = "up" /\ main # "down"
  /\ Mishap /\ Gone
  /\ UNCHANGED <<backend, disk, power, booted, closing, requests>>

-----------------------------------------------------------------------------
(* What the event loop writes.                                              *)

(* A job of the given kind writes a flag and, but for a confirmation, the   *)
(* version state.                                                           *)
Job(owner, kind, flag, versions) ==
  [owner |-> owner, kind |-> kind, flag |-> flag, versions |-> versions,
   writes |-> FlagWrites \o IF kind = "confirm" THEN <<>> ELSE <<"version">>]

(* The end of a job: its task is over. *)
Done(owner) ==
  /\ main' = IF owner = "main" THEN "serving" ELSE main
  /\ tasks' = [t \in Tasks |-> IF t = owner THEN NoTask ELSE tasks[t]]

(* An update that failed cleans its staging files up and goes to IDLE.      *)
FailUpdate(t) == state' = "idle" /\ Done(t) /\ UNCHANGED closing

(* What a rollback does at last, also when its writes failed.               *)
EndRollback(owner) == state' = "rolled_back" /\ closing' = TRUE /\ Done(owner)

Store(write) ==
  /\ env' = CASE write = "active"  -> [env EXCEPT !.active = job.flag.active]
              [] write = "count"   -> [env EXCEPT !.count = job.flag.count]
              [] write = "pending" -> [env EXCEPT !.pending = job.flag.pending]
              [] OTHER -> env
  /\ file' = IF write = "file" THEN job.flag ELSE file
  /\ record' = IF write = "version" THEN job.versions ELSE record
  /\ memory' = IF write \in LastOfFlag /\ job.kind # "confirm" THEN job.versions ELSE memory

Write ==
  /\ power = "up" /\ job # NoJob
  /\ Store(Head(job.writes))
  /\ IF Len(job.writes) > 1
     THEN /\ job' = [job EXCEPT !.writes = Tail(@)]
          /\ state' = IF Head(job.writes) \in LastOfFlag /\ job.kind = "update"
                      THEN "rebooting" ELSE state
          /\ UNCHANGED <<main, tasks, closing>>
     ELSE /\ job' = NoJob
          /\ CASE job.kind = "update"   -> state' = state /\ closing' = TRUE /\ Done(job.owner)
               [] job.kind = "rollback" -> EndRollback(job.owner)
               [] job.kind = "confirm"  -> state' = "idle" /\ UNCHANGED closing /\ Done(job.owner)
  /\ UNCHANGED <<backend, image, power, booted, bounds>>

(* A write raises: an update fails, a rollback reboots all the same, and a  *)
(* confirmation is given up.                                                *)
WriteFails ==
  /\ power = "up" /\ job # NoJob
  /\ Mishap
  /\ job' = NoJob
  /\ CASE job.kind = "update"   -> FailUpdate(job.owner)
       [] job.kind = "rollback" -> EndRollback(job.owner)
       [] job.kind = "confirm"  -> state' = "idle" /\ UNCHANGED closing /\ Done(job.owner)
  /\ UNCHANGED <<backend, disk, power, booted, memory, requests>>

(* The reboot at the end of a job cannot be started: an update goes back to *)
(* IDLE with its flag swapped, and a rollback stays as it is.               *)
RebootFails ==
  /\ power = "up" /\ job # NoJob /\ Len(job.writes) = 1 /\ job.kind # "confirm"
  /\ Mishap
  /\ Store(Head(job.writes))
  /\ job' = NoJob /\ Done(job.owner)
  /\ state' = IF job.kind = "update" THEN "idle" ELSE "rolled_back"
  /\ UNCHANGED <<backend, image, power, booted, closing, requests>>

(* Slip: the flag goes back without its slots being swapped. *)
RollbackUnswapped(owner) ==
  IF NoFlag
  THEN EndRollback(owner) /\ UNCHANGED job
  ELSE /\ job' = Job(owner, "rollback", [Flag EXCEPT !.count = 0, !.pending = FALSE],
                     [current |-> memory.previous, previous |-> memory.current])
       /\ UNCHANGED <<state, main, tasks, closing>>

(* _do_rollback(): swap the slots of the flag, and the versions. *)
Rollback(owner) ==
  IF NoFlag
  THEN EndRollback(owner) /\ UNCHANGED job
  ELSE /\ job' = Job(owner, "rollback",
                     [active |-> Flag.previous, previous |-> Flag.active,
                      count |-> 0, pending |-> FALSE],
                     [current |-> memory.previous, previous |-> memory.current])
       /\ UNCHANGED <<state, main, tasks, closing>>

-----------------------------------------------------------------------------
(* The check after a boot, before any command is heard.                     *)

LookAtFlag ==
  /\ Free /\ main = "starting"
  /\ main' = IF ~NoFlag /\ Flag.pending THEN "checking" ELSE "serving"
  /\ UNCHANGED <<backend, disk, power, booted, state, memory, tasks, job, closing, bounds>>

(* All services became active in time. *)
CheckPasses ==
  /\ Free /\ main = "checking"
  /\ image[booted] \in Versions /\ Quality[image[booted]] = "good"
  /\ job' = Job("main", "confirm", [Flag EXCEPT !.pending = FALSE], memory)
  /\ UNCHANGED <<backend, disk, power, booted, main, state, memory, tasks, closing, bounds>>

(* The deadline passed: roll back. *)
CheckTimesOut ==
  /\ Free /\ main = "checking"
  /\ Rollback("main")
  /\ UNCHANGED <<backend, disk, power, booted, memory, bounds>>

(* fw_printenv fails, before the check or after it: no check, no            *)
(* confirmation, or a reboot without a rollback.                            *)
FlagUnreadAtStart ==
  /\ Free /\ backend = "uboot" /\ Mishap
  /\ \/ main = "starting" /\ main' = "serving" /\ UNCHANGED <<state, tasks, closing>>
     \/ /\ main = "checking" /\ image[booted] \in Versions /\ Quality[image[booted]] = "good"
        /\ state' = "idle" /\ Done("main") /\ UNCHANGED closing
     \/ main = "checking" /\ EndRollback("main")
  /\ UNCHANGED <<backend, disk, power, booted, memory, job, requests>>

-----------------------------------------------------------------------------
(* Commands, each a task of its own.                                        *)

(* start_update or rollback is heard and answered "queued". *)
Request(t, pc, version) ==
  /\ power = "up" /\ main = "serving" /\ job = NoJob
  /\ tasks[t] = NoTask /\ requests < MaxRequests
  /\ tasks' = [tasks EXCEPT ![t] = [pc |-> pc, version |-> version, old |-> Factory]]
  /\ requests' = requests + 1
  /\ UNCHANGED <<backend, disk, power, booted, main, state, memory, job, closing, mishaps>>

(* do_manual_rollback(), in whatever state. *)
RollbackTask(t) ==
  /\ Free /\ tasks[t].pc = "rollback"
  /\ Rollback(t)
  /\ UNCHANGED <<backend, disk, power, booted, memory, bounds>>

(* Slip: only a pipeline that is past its download is in the way. *)
BeginUpdateEarly(t) ==
  /\ Free /\ tasks[t].pc = "update"
  /\ IF state \in {"idle", "downloading"}
     THEN /\ state' = "downloading"
          /\ tasks' = [tasks EXCEPT ![t].pc = "downloading", ![t].old = memory.current]
     ELSE tasks' = [tasks EXCEPT ![t] = NoTask] /\ UNCHANGED state
  /\ UNCHANGED <<backend, disk, power, booted, main, memory, job, closing, bounds>>

(* start_update(): only in IDLE. *)
BeginUpdate(t) ==
  /\ Free /\ tasks[t].pc = "update"
  /\ IF state = "idle"
     THEN /\ state' = "downloading"
          /\ tasks' = [tasks EXCEPT ![t].pc = "downloading", ![t].old = memory.current]
     ELSE tasks' = [tasks EXCEPT ![t] = NoTask] /\ UNCHANGED state
  /\ UNCHANGED <<backend, disk, power, booted, main, memory, job, closing, bounds>>

(* The flag goes to the slot that is not active in it, to be checked there. *)
SwapFlag(t) ==
  IF NoFlag
  THEN FailUpdate(t) /\ UNCHANGED job
  ELSE /\ job' = Job(t, "update",
                     [active |-> Other(Flag.active), previous |-> Flag.active,
                      count |-> 0, pending |-> TRUE],
                     [current |-> tasks[t].version, previous |-> tasks[t].old])
       /\ state' = "applying"
       /\ UNCHANGED <<main, tasks, closing>>

(* The package is there and verified: dd begins, or there is nothing to     *)
(* write.                                                                   *)
Verified(t) ==
  /\ Free /\ tasks[t].pc = "downloading"
  /\ IF tasks[t].version \in Bare
     THEN UNCHANGED image /\ SwapFlag(t)
     ELSE /\ image' = [image EXCEPT ![StandbyDevice] = "partial"]
          /\ tasks' = [tasks EXCEPT ![t].pc = "flashing"]
          /\ state' = "applying"
          /\ UNCHANGED <<main, job, closing>>
  /\ UNCHANGED <<backend, env, file, record, power, booted, memory, bounds>>

(* dd ended well. *)
Flashed(t) ==
  /\ Free /\ tasks[t].pc = "flashing"
  /\ image' = [image EXCEPT ![StandbyDevice] = tasks[t].version]
  /\ SwapFlag(t)
  /\ UNCHANGED <<backend, env, file, record, power, booted, memory, bounds>>

(* Slip: the exit code of dd is not looked at. *)
RefusedUnseen(t) ==
  /\ Free /\ tasks[t].pc \in {"downloading", "flashing"}
  /\ IF tasks[t].pc = "flashing" THEN SwapFlag(t) ELSE FailUpdate(t) /\ UNCHANGED job
  /\ UNCHANGED <<backend, disk, power, booted, memory, bounds>>

(* The download, the verification or dd raises. *)
Refused(t) ==
  /\ Free /\ tasks[t].pc \in {"downloading", "flashing"}
  /\ FailUpdate(t)
  /\ UNCHANGED <<backend, disk, power, booted, memory, job, bounds>>

(* fw_printenv fails after dd, or in a rollback. *)
FlagUnread(t) ==
  /\ Free /\ backend = "uboot" /\ Mishap
  /\ \/ /\ tasks[t].pc = "flashing" /\ FailUpdate(t)
        /\ image' = [image EXCEPT ![StandbyDevice] = tasks[t].version]
     \/ tasks[t].pc = "rollback" /\ EndRollback(t) /\ UNCHANGED image
  /\ UNCHANGED <<backend, env, file, record, power, booted, memory, job, requests>>

Update(t) == BeginUpdate(t) \/ Verified(t) \/ Flashed(t) \/ Refused(t)
-----------------------------------------------------------------------------
Device == Revert \/ Boot \/ Reboot \/ Maintain \/ PowerCut
Startup == Start \/ LookAtFlag \/ CheckPasses \/ CheckTimesOut \/ FlagUnreadAtStart
Writing == Write \/ WriteFails \/ RebootFails
Command ==
  \E t \in Tasks :
    \/ \E version \in Versions \ {Factory} : Request(t, "update", version)
    \/ Request(t, "rollback", Factory)
    \/ Update(t) \/ RollbackTask(t) \/ FlagUnread(t)

Next == Device \/ Crash \/ Startup \/ Writing \/ Command

Spec == Init /\ [][Next]_vars

(* The boot script runs on, a device that hangs or was told to reboot is    *)
(* cycled, systemd restarts ota_manager, and its startup and its writes end *)
(* (the check of the services has a deadline).                              *)
FairSpec ==
  /\ Spec
  /\ WF_vars(Revert \/ Boot) /\ WF_vars(Reboot)
  /\ WF_vars(Startup) /\ WF_vars(Writing)
-----------------------------------------------------------------------------
(* Properties.                                                              *)

(* Every variable stays in its domain (state_machine.py, partition.py).     *)
TypeOK ==
  /\ backend \in {"uboot", "json"}
  /\ image \in [Slots -> Versions \cup {"partial"}]
  /\ env \in [active : Slots, count : 0 .. 3, pending : BOOLEAN]
  /\ file = Absent \/ file \in Flags
  /\ record \in [current : Versions, previous : Versions]
  /\ memory \in [current : Versions, previous : Versions]
  /\ power \in {"loader", "up", "hung"} /\ booted \in Slots
  /\ main \in {"down", "starting", "checking", "serving"}
  /\ state \in {"idle", "downloading", "applying", "rebooting", "rolled_back"}
  /\ \A t \in Tasks : tasks[t].pc \in {"none", "rollback", "update", "downloading", "flashing"}
  /\ job.owner \in Tasks \cup {"main", "none"}
  /\ job # NoJob => job.flag \in Flags /\ job.writes # <<>>
  /\ closing \in BOOLEAN
  /\ requests \in 0 .. MaxRequests /\ mishaps \in 0 .. MaxMishaps

(* Two updates never run at once, whatever rollbacks come in between and    *)
(* whatever the state then says, so that no two dd write the same device    *)
(* (state_machine.py start_update(), its guard on IDLE).                    *)
InPipeline(t) ==
  \/ tasks[t].pc \in {"downloading", "flashing"}
  \/ job.owner = t /\ job.kind = "update"
OnePipeline == Cardinality({t \in Tasks : InPipeline(t)}) <= 1

(* An update that carries an image never selects a slot whose image is      *)
(* incomplete, also when a rollback moved the flag while dd ran, or an      *)
(* earlier dd failed (state_machine.py start_update(): write, then swap).   *)
UpdateSelectsComplete ==
  job # NoJob /\ job.kind = "update" /\ tasks[job.owner].version \notin Bare
    => image[job.flag.active] # "partial"

(* A unit whose slot is dead comes up again: the boot script gives the slot *)
(* up after three boots, wherever the power failed between its two saves    *)
(* (boot.cmd, steps 4 and 5).                                               *)
NeverBricked == power # "up" ~> power = "up"

Sick(slot) == image[slot] \in Versions /\ Quality[image[slot]] = "sick"
Checking(slot) ==
  backend = "uboot" /\ main = "checking" /\ job = NoJob /\ booted = slot /\ Sick(slot)

(* A sick image that is being checked while the flag selects it is left for *)
(* the other slot, whatever happened before, once nothing else goes wrong   *)
(* and nobody asks for another rollback, which would undo this one          *)
(* (state_machine.py check_post_boot_health(), _do_rollback()).             *)
Settled == mishaps = MaxMishaps /\ requests = MaxRequests
UnhealthyIsLeft ==
  \A slot \in Slots :
    Checking(slot) /\ env.active = slot /\ Settled ~> booted # slot
=============================================================================
