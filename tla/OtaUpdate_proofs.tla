-------------------------- MODULE OtaUpdate_proofs --------------------------
(***************************************************************************)
(* Theorems about OtaUpdate, for any tasks, any versions and any number of *)
(* requests and mishaps.                                                   *)
(*                                                                         *)
(* That two updates never run at once rests on the state, but the state    *)
(* alone does not say it: rollbacks, which look at no state, write it while*)
(* an update runs.  The inductive invariant says what the state still      *)
(* promises: it is not "idle" while a task is in the pipeline.             *)
(***************************************************************************)
EXTENDS OtaUpdate, FiniteSetTheorems, TLAPS

Pair == [current : Versions, previous : Versions]
TaskType == [pc : {"none", "rollback", "update", "downloading", "flashing"},
             version : Versions, old : Versions]
Names == {"active", "count", "pending", "file", "version"}
JobType == [owner : Tasks \cup {"main"}, kind : {"update", "rollback", "confirm"},
            flag : Flags, versions : Pair, writes : Seq(Names) \ {<<>>}]

DiskTypes ==
  /\ backend \in {"uboot", "json"}
  /\ image \in [Slots -> Versions \cup {"partial"}]
  /\ env \in [active : Slots, count : 0 .. 3, pending : BOOLEAN]
  /\ file \in Flags \cup {Absent}
  /\ record \in Pair
DeviceTypes ==
  /\ power \in {"loader", "up", "hung"} /\ booted \in Slots
  /\ closing \in BOOLEAN
  /\ requests \in 0 .. MaxRequests /\ mishaps \in 0 .. MaxMishaps
ProcessTypes ==
  /\ main \in {"down", "starting", "checking", "serving"}
  /\ state \in {"idle", "downloading", "applying", "rebooting", "rolled_back"}
  /\ memory \in Pair
  /\ tasks \in [Tasks -> TaskType]
  /\ job \in JobType \cup {NoJob}
Types == DiskTypes /\ DeviceTypes /\ ProcessTypes

Piping(t) == tasks[t].pc \in {"downloading", "flashing"}

(* No task runs before the check after the boot is over. *)
Quiet == main # "serving" => \A t \in Tasks : tasks[t].pc = "none"
(* One task at most is in the pipeline, and the state shows it. *)
Alone == \A t, u \in Tasks : Piping(t) /\ Piping(u) => t = u
Busy == (\E t \in Tasks : Piping(t)) => state # "idle"
(* The writes of an update belong to the task in the pipeline, and a        *)
(* confirmation is written only while no command is heard.                  *)
Owned ==
  /\ job # NoJob /\ job.kind = "update" => job.owner \in Tasks /\ Piping(job.owner)
  /\ job # NoJob /\ job.kind = "confirm" => main = "checking"
(* Only the standby device is ever written, and an update has written it.   *)
Complete ==
  /\ image["a"] # "partial"
  /\ job # NoJob /\ job.kind = "update" /\ tasks[job.owner].version \notin Bare
       => image[job.flag.active] # "partial"

(* What is being checked after the boot has a flag. *)
Seen == main = "checking" => ~NoFlag

IInv == Types /\ Quiet /\ Alone /\ Busy /\ Owned /\ Complete /\ Seen
-----------------------------------------------------------------------------
(* The flag read is a flag (partition.py read_boot_flag()). *)
LEMMA FlagTyped == ASSUME DiskTypes, ~NoFlag PROVE Flag \in Flags
  BY DEF DiskTypes, NoFlag, Flag, Flags, Slots, Other

(* A job is made of what it is given, and it has something to write. *)
LEMMA JobTyped ==
  ASSUME backend \in {"uboot", "json"},
         NEW owner \in Tasks \cup {"main"}, NEW kind \in {"update", "rollback", "confirm"},
         NEW flag \in Flags, NEW versions \in Pair
  PROVE  /\ Job(owner, kind, flag, versions) \in JobType
         /\ Job(owner, kind, flag, versions) # NoJob
         /\ Job(owner, kind, flag, versions).owner = owner
         /\ Job(owner, kind, flag, versions).kind = kind
         /\ Job(owner, kind, flag, versions).flag = flag
<1> DEFINE rest == IF kind = "confirm" THEN <<>> ELSE <<"version">>
           writes == FlagWrites \o rest
<1>1. FlagWrites \in Seq(Names) /\ Len(FlagWrites) >= 1
  <2>1. CASE backend = "uboot"
    <3>1. FlagWrites = <<"active", "count", "pending">>
      BY <2>1 DEF FlagWrites
    <3> QED BY <3>1 DEF Names
  <2>2. CASE backend # "uboot"
    <3>1. FlagWrites = <<"file">>
      BY <2>2 DEF FlagWrites
    <3> QED BY <3>1 DEF Names
  <2> QED BY <2>1, <2>2
<1>2. rest \in Seq(Names)
  <2>1. <<>> \in Seq(Names)
    OBVIOUS
  <2>2. <<"version">> \in Seq(Names)
    BY DEF Names
  <2> QED BY <2>1, <2>2, Zenon
<1>3. writes \in Seq(Names) /\ Len(writes) >= 1
  <2> HIDE DEF rest
  <2>1. Len(rest) \in Nat /\ Len(FlagWrites) \in Nat
    BY <1>1, <1>2
  <2> QED BY <1>1, <1>2, <2>1
<1>4. writes \in Seq(Names) \ {<<>>}
  <2> HIDE DEF writes
  <2> QED BY <1>3
<1>5. Job(owner, kind, flag, versions) =
        [owner |-> owner, kind |-> kind, flag |-> flag, versions |-> versions, writes |-> writes]
  BY DEF Job
<1>6. owner # "none"
  BY OtaAssumption
<1> HIDE DEF writes
<1> QED BY <1>4, <1>5, <1>6 DEF JobType, NoJob

(* The job of a confirmation (state_machine.py check_post_boot_health()). *)
LEMMA ConfirmTyped ==
  ASSUME Types, NEW flag \in Flags, job' = Job("main", "confirm", flag, memory)
  PROVE  job' \in JobType /\ job' # NoJob /\ job'.kind = "confirm"
<1>1. memory \in Pair /\ backend \in {"uboot", "json"}
  BY DEF Types, ProcessTypes, DiskTypes
<1>2. Job("main", "confirm", flag, memory) \in JobType
  BY <1>1, JobTyped
<1>3. Job("main", "confirm", flag, memory) # NoJob
  BY <1>1, JobTyped
<1>4. Job("main", "confirm", flag, memory).kind = "confirm"
  BY <1>1, JobTyped
<1> QED BY <1>2, <1>3, <1>4

(* A job under way is a whole job. *)
LEMMA JobParts ==
  ASSUME ProcessTypes, job # NoJob
  PROVE  /\ job \in JobType
         /\ job.owner \in Tasks \cup {"main"} /\ job.kind \in {"update", "rollback", "confirm"}
         /\ job.flag \in Flags /\ job.versions \in Pair
         /\ job.writes \in Seq(Names) /\ job.writes # <<>>
  BY DEF ProcessTypes, JobType

(* The end of a job leaves a process in its types. *)
LEMMA DoneTyped ==
  ASSUME ProcessTypes, NEW owner, Done(owner)
  PROVE  /\ main' \in {"down", "starting", "checking", "serving"}
         /\ tasks' \in [Tasks -> TaskType]
         /\ \A t \in Tasks : tasks'[t] = IF t = owner THEN NoTask ELSE tasks[t]
         /\ \A t \in Tasks : Piping(t)' => Piping(t) /\ t # owner
<1>1. NoTask \in TaskType /\ NoTask.pc = "none"
  BY OtaAssumption DEF NoTask, TaskType
<1>2. \A t \in Tasks : tasks'[t] = IF t = owner THEN NoTask ELSE tasks[t]
  BY DEF Done
<1>3. tasks' \in [Tasks -> TaskType]
  BY <1>1 DEF Done, ProcessTypes
<1>4. \A t \in Tasks : Piping(t)' => Piping(t) /\ t # owner
  BY <1>1, <1>2 DEF Piping
<1>5. main' \in {"down", "starting", "checking", "serving"}
  BY DEF Done, ProcessTypes
<1> QED BY <1>2, <1>3, <1>4, <1>5

(* A rollback begins its writes, or ends at once when there is no flag. *)
LEMMA RollbackTyped ==
  ASSUME Types, NEW owner \in Tasks \cup {"main"}, job = NoJob, Rollback(owner),
         UNCHANGED memory
  PROVE  /\ ProcessTypes' /\ closing' \in BOOLEAN
         /\ job' = NoJob \/ (job' # NoJob /\ job'.kind = "rollback")
         /\ \/ UNCHANGED <<state, main, tasks>>
            \/ state' = "rolled_back" /\ Done(owner)
<1>1. CASE NoFlag
  <2>1. state' = "rolled_back" /\ closing' = TRUE /\ Done(owner) /\ job' = job
    BY <1>1 DEF Rollback, EndRollback
  <2> QED BY <2>1, DoneTyped DEF Types, ProcessTypes
<1>2. CASE ~NoFlag
  <2> DEFINE flag == [active |-> Flag.previous, previous |-> Flag.active,
                      count |-> 0, pending |-> FALSE]
             versions == [current |-> memory.previous, previous |-> memory.current]
  <2>1. flag \in Flags
    BY <1>2, FlagTyped DEF Flags, Types
  <2>2. versions \in Pair
    BY DEF Types, ProcessTypes, Pair
  <2>3. job' = Job(owner, "rollback", flag, versions)
    BY <1>2 DEF Rollback
  <2> HIDE DEF flag, versions
  <2>4. job' \in JobType /\ job' # NoJob /\ job'.kind = "rollback"
    BY <2>1, <2>2, <2>3, JobTyped DEF Types, DiskTypes
  <2>5. UNCHANGED <<state, main, tasks, closing>>
    BY <1>2 DEF Rollback
  <2> QED BY <2>4, <2>5 DEF Types, ProcessTypes, DeviceTypes
<1> QED BY <1>1, <1>2

(* An update begins its writes in a flag that selects the other slot, or    *)
(* fails when there is no flag.                                             *)
LEMMA SwapTyped ==
  ASSUME Types, NEW t \in Tasks, job = NoJob, SwapFlag(t), UNCHANGED memory
  PROVE  /\ ProcessTypes' /\ closing' \in BOOLEAN
         /\ \/ job' = NoJob /\ Done(t)
            \/ /\ job' # NoJob /\ job'.kind = "update" /\ job'.owner = t
               /\ job'.flag.active \in Slots
               /\ state' = "applying" /\ UNCHANGED <<main, tasks>>
<1>1. CASE NoFlag
  <2>1. state' = "idle" /\ closing' = closing /\ Done(t) /\ job' = job
    BY <1>1 DEF SwapFlag, FailUpdate
  <2> QED BY <2>1, DoneTyped DEF Types, ProcessTypes, DeviceTypes
<1>2. CASE ~NoFlag
  <2> DEFINE flag == [active |-> Other(Flag.active), previous |-> Flag.active,
                      count |-> 0, pending |-> TRUE]
             versions == [current |-> tasks[t].version, previous |-> tasks[t].old]
  <2>1. flag \in Flags
    BY <1>2, FlagTyped DEF Flags, Types, Other, Slots
  <2>2. versions \in Pair
    BY DEF Types, ProcessTypes, Pair, TaskType
  <2>3. /\ job' = Job(t, "update", flag, versions)
        /\ state' = "applying" /\ UNCHANGED <<main, tasks, closing>>
    BY <1>2 DEF SwapFlag
  <2> HIDE DEF flag, versions
  <2>4. /\ job' \in JobType /\ job' # NoJob /\ job'.kind = "update" /\ job'.owner = t
        /\ job'.flag = flag
    BY <2>1, <2>2, <2>3, JobTyped DEF Types, DiskTypes
  <2>5. job'.flag.active \in Slots
    BY <2>1, <2>4 DEF Flags
  <2> QED BY <2>3, <2>4, <2>5 DEF Types, ProcessTypes, DeviceTypes
<1> QED BY <1>1, <1>2
-----------------------------------------------------------------------------
(* What the steps do to the tasks and the job, in three ways.               *)

(* The process is gone: nothing is left of its tasks and its job. *)
LEMMA GoneKeeps ==
  ASSUME IInv, Gone, UNCHANGED image
  PROVE  ProcessTypes' /\ (Quiet /\ Alone /\ Busy /\ Owned /\ Complete)'
<1>1. NoTask \in TaskType /\ NoTask.pc = "none"
  BY OtaAssumption DEF NoTask, TaskType
<1>2. \A t \in Tasks : tasks'[t] = NoTask
  BY DEF Gone
<1>3. ProcessTypes'
  BY <1>1 DEF Gone, ProcessTypes, IInv, Types
<1> QED BY <1>1, <1>2, <1>3
        DEF Gone, IInv, Quiet, Alone, Busy, Owned, Complete, Piping

(* Nothing of it changes but the phase of the startup, which goes on. *)
LEMMA StartupKeeps ==
  ASSUME IInv, main # "serving", job = NoJob \/ main # "checking", UNCHANGED <<tasks, job, image>>
  PROVE  (Quiet /\ Alone /\ Busy /\ Owned /\ Complete)'
  BY DEF IInv, Quiet, Alone, Busy, Owned, Complete, Piping

(* A job that was there is over, and its task with it.  A confirmation sets *)
(* the state to "idle" while no task is in the pipeline, and an update that *)
(* fails does when its own was the only one.                                *)
LEMMA JobEnds ==
  ASSUME IInv, job # NoJob, job' = NoJob, Done(job.owner), UNCHANGED image,
         \/ state' = state
         \/ state' # "idle"
         \/ job.kind \in {"update", "confirm"}
  PROVE  (Quiet /\ Alone /\ Busy /\ Owned /\ Complete)'
<1>1. \A t \in Tasks : Piping(t)' => Piping(t) /\ t # job.owner
  BY DoneTyped DEF IInv, Types
<1>2. Alone'
  BY <1>1 DEF IInv, Alone
<1>3. Quiet'
  <2>1. SUFFICES ASSUME main' # "serving", NEW t \in Tasks PROVE tasks'[t].pc = "none"
    BY DEF Quiet
  <2>2. main # "serving" /\ tasks[t].pc = "none"
    BY <2>1 DEF Done, IInv, Quiet
  <2> QED BY <2>2 DEF Done, NoTask
<1>4. Busy'
  <2>1. SUFFICES ASSUME NEW t \in Tasks, Piping(t)' PROVE state' # "idle"
    BY DEF Busy
  <2>2. Piping(t) /\ t # job.owner /\ state # "idle"
    BY <1>1, <2>1 DEF IInv, Busy
  <2>3. job.kind # "update"
    BY <2>2 DEF IInv, Owned, Alone
  <2>4. job.kind # "confirm"
    BY <2>2 DEF IInv, Owned, Quiet, Piping
  <2> QED BY <2>2, <2>3, <2>4
<1> QED BY <1>2, <1>3, <1>4 DEF IInv, Owned, Complete

(* The process does not move. *)
LEMMA ProcessSame ==
  ASSUME IInv, UNCHANGED <<image, process>>
  PROVE  ProcessTypes' /\ (Quiet /\ Alone /\ Busy /\ Owned /\ Complete)'
  BY DEF process, IInv, Types, ProcessTypes, Quiet, Alone, Busy, Owned, Complete, Piping

(* A flag once written is never taken away. *)
LEMMA SeenKeeps ==
  ASSUME Seen, UNCHANGED backend, main' = main \/ main' # "checking",
         file' = file \/ file' \in Flags
  PROVE  Seen'
<1>1. \A flag \in Flags : flag # Absent
  BY DEF Flags, Absent
<1> QED BY <1>1 DEF Seen, NoFlag

(* A rollback adds a job that is neither an update nor a confirmation, or   *)
(* leaves the state at "rolled_back".                                       *)
LEMMA RollbackKeeps ==
  ASSUME IInv, NEW owner \in Tasks \cup {"main"}, job = NoJob, Rollback(owner),
         UNCHANGED <<memory, image>>
  PROVE  /\ ProcessTypes' /\ closing' \in BOOLEAN
         /\ (Quiet /\ Alone /\ Busy /\ Owned /\ Complete)'
<1>1. /\ ProcessTypes' /\ closing' \in BOOLEAN
      /\ job' = NoJob \/ (job' # NoJob /\ job'.kind = "rollback")
      /\ \/ UNCHANGED <<state, main, tasks>>
         \/ state' = "rolled_back" /\ Done(owner)
  BY RollbackTyped DEF IInv
<1>2. Owned' /\ Complete'
  BY <1>1 DEF IInv, Owned, Complete
<1>3. CASE UNCHANGED <<state, main, tasks>>
  BY <1>1, <1>2, <1>3 DEF IInv, Quiet, Alone, Busy, Piping
<1>4. CASE state' = "rolled_back" /\ Done(owner)
  <2>1. \A t \in Tasks : Piping(t)' => Piping(t)
    BY <1>4, DoneTyped DEF IInv, Types
  <2>2. Quiet'
    BY <1>4 DEF IInv, Quiet, Done, NoTask
  <2> QED BY <1>1, <1>2, <1>4, <2>1, <2>2 DEF IInv, Alone, Busy
<1> QED BY <1>1, <1>3, <1>4

(* The one task of the pipeline fails: none is left in it. *)
LEMMA PipelineEnds ==
  ASSUME IInv, NEW t \in Tasks, Piping(t), job' = NoJob, Done(t), image'["a"] # "partial"
  PROVE  (Quiet /\ Alone /\ Busy /\ Owned /\ Complete)'
<1>1. \A u \in Tasks : ~Piping(u)'
  BY DoneTyped DEF IInv, Types, Alone
<1>2. Quiet'
  BY DEF IInv, Quiet, Done, NoTask
<1> QED BY <1>1, <1>2 DEF Alone, Busy, Owned, Complete

(* The one task of the pipeline swaps the flag, with its image complete. *)
LEMMA SwapKeeps ==
  ASSUME IInv, NEW t \in Tasks, Piping(t), job = NoJob, SwapFlag(t), UNCHANGED memory,
         image'["a"] # "partial",
         tasks[t].version \notin Bare => image'["b"] # "partial"
  PROVE  /\ ProcessTypes' /\ closing' \in BOOLEAN
         /\ (Quiet /\ Alone /\ Busy /\ Owned /\ Complete)'
<1>1. /\ ProcessTypes' /\ closing' \in BOOLEAN
      /\ \/ job' = NoJob /\ Done(t)
         \/ /\ job' # NoJob /\ job'.kind = "update" /\ job'.owner = t
            /\ job'.flag.active \in Slots
            /\ state' = "applying" /\ UNCHANGED <<main, tasks>>
  BY SwapTyped DEF IInv
<1>2. CASE job' = NoJob /\ Done(t)
  BY <1>1, <1>2, PipelineEnds
<1>3. CASE /\ job' # NoJob /\ job'.kind = "update" /\ job'.owner = t
           /\ job'.flag.active \in Slots
           /\ state' = "applying" /\ UNCHANGED <<main, tasks>>
  <2>1. Quiet' /\ Alone' /\ Busy'
    BY <1>3 DEF IInv, Quiet, Alone, Busy, Piping
  <2>2. Owned'
    BY <1>3 DEF Owned, Piping
  <2>3. Complete'
    BY <1>3 DEF Complete, Slots
  <2> QED BY <1>1, <2>1, <2>2, <2>3
<1> QED BY <1>1, <1>2, <1>3

-----------------------------------------------------------------------------
(* One lemma for each group of steps of Next.                               *)

(* The initial states are in the invariant (__main__.py run()). *)
LEMMA InitInv == ASSUME Init PROVE IInv
<1>1. NoTask \in TaskType /\ NoTask.pc = "none"
  BY OtaAssumption DEF NoTask, TaskType
<1>2. DiskTypes
  <2>1. backend \in {"uboot", "json"} /\ image \in [Slots -> Versions \cup {"partial"}]
    BY OtaAssumption DEF Init
  <2>2. env \in [active : Slots, count : 0 .. 3, pending : BOOLEAN]
    BY DEF Init, Slots
  <2>3. file \in Flags \cup {Absent}
    <3>1. [active |-> "a", previous |-> "b", count |-> 0, pending |-> FALSE] \in Flags
      BY DEF Slots, Flags
    <3> QED BY <3>1, Zenon DEF Init
  <2>4. record \in Pair
    BY OtaAssumption DEF Init, Pair
  <2> QED BY <2>1, <2>2, <2>3, <2>4 DEF DiskTypes
<1>3. DeviceTypes
  <2>1. requests \in 0 .. MaxRequests /\ mishaps \in 0 .. MaxMishaps
    BY OtaAssumption DEF Init
  <2>2. power \in {"loader", "up", "hung"} /\ booted \in Slots /\ closing \in BOOLEAN
    BY DEF Init, Slots
  <2> QED BY <2>1, <2>2 DEF DeviceTypes
<1>4. ProcessTypes
  BY OtaAssumption, <1>1 DEF Init, ProcessTypes, Pair
<1>5. \A t \in Tasks : tasks[t].pc = "none"
  BY <1>1 DEF Init
<1>6. image["a"] # "partial"
  BY OtaAssumption DEF Init, Slots
<1> QED BY <1>2, <1>3, <1>4, <1>5, <1>6
        DEF Init, IInv, Types, Seen, Quiet, Alone, Busy, Owned, Complete, Piping

(* The boot script, the reboots, the power and the death of the process. *)
LEMMA DeviceStep == ASSUME IInv, Device \/ Crash PROVE IInv'
<1> USE DEF IInv, Types
<1>1. CASE Revert
  <2>1. DiskTypes' /\ DeviceTypes'
    <3>1. env' \in [active : Slots, count : 0 .. 3, pending : BOOLEAN]
      <4>1. Other(env.active) \in Slots
        BY DEF Other, Slots
      <4> DEFINE turned == [env EXCEPT !.active = Other(env.active)]
      <4>2. turned \in [active : Slots, count : 0 .. 3, pending : BOOLEAN]
        BY <4>1 DEF DiskTypes
      <4>3. env' = [turned EXCEPT !.count = 0]
        BY <1>1 DEF Revert, DiskTypes
      <4> HIDE DEF turned
      <4> QED BY <4>2, <4>3
    <3>2. UNCHANGED <<backend, image, file, record, power, booted, closing, requests, mishaps>>
      BY <1>1 DEF Revert, bounds
    <3> QED BY <3>1, <3>2 DEF DiskTypes, DeviceTypes
  <2> QED BY <1>1, <2>1, ProcessSame, SeenKeeps DEF Revert, process
<1>2. CASE Boot
  <2>1. DiskTypes'
    BY <1>2 DEF Boot, DiskTypes
  <2>2. DeviceTypes'
    BY <1>2 DEF Boot, DiskTypes, DeviceTypes, bounds
  <2> QED BY <1>2, <2>1, <2>2, ProcessSame, SeenKeeps DEF Boot, process
<1>3. CASE Reboot
  <2>1. DiskTypes' /\ DeviceTypes'
    BY <1>3 DEF Reboot, DiskTypes, DeviceTypes, bounds, disk
  <2> QED BY <1>3, <2>1, GoneKeeps, SeenKeeps DEF Reboot, disk, Gone
<1>4. CASE Maintain
  <2>1. DiskTypes' /\ DeviceTypes'
    BY <1>4 DEF Maintain, DiskTypes, DeviceTypes, bounds, disk
  <2> QED BY <1>4, <2>1, GoneKeeps, SeenKeeps DEF Maintain, disk, Gone
<1>5. CASE PowerCut
  <2>1. DiskTypes' /\ DeviceTypes'
    <3>1. mishaps' \in 0 .. MaxMishaps
      BY <1>5, OtaAssumption DEF PowerCut, Mishap, DeviceTypes
    <3>2. power' = "loader" /\ closing' = FALSE /\ UNCHANGED <<backend, disk, booted, requests>>
      BY <1>5 DEF PowerCut
    <3> QED BY <3>1, <3>2 DEF DiskTypes, DeviceTypes, disk
  <2> QED BY <1>5, <2>1, GoneKeeps, SeenKeeps DEF PowerCut, disk, Gone
<1>6. CASE Crash
  <2>1. DiskTypes' /\ DeviceTypes'
    <3>1. mishaps' \in 0 .. MaxMishaps
      BY <1>6, OtaAssumption DEF Crash, Mishap, DeviceTypes
    <3>2. UNCHANGED <<backend, disk, power, booted, closing, requests>>
      BY <1>6 DEF Crash
    <3> QED BY <3>1, <3>2 DEF DiskTypes, DeviceTypes, disk
  <2> QED BY <1>6, <2>1, GoneKeeps, SeenKeeps DEF Crash, disk, Gone
<1> QED BY <1>1, <1>2, <1>3, <1>4, <1>5, <1>6 DEF Device

(* The start of ota_manager and its check after the boot. *)
LEMMA StartupStep == ASSUME IInv, Startup PROVE IInv'
<1> USE DEF IInv, Types
<1>1. CASE Start
  <2>1. DiskTypes' /\ DeviceTypes'
    BY <1>1 DEF Start, DiskTypes, DeviceTypes, disk, bounds
  <2>2. ProcessTypes'
    BY <1>1 DEF Start, DiskTypes, ProcessTypes
  <2>3. (Quiet /\ Alone /\ Busy /\ Owned /\ Complete)'
    BY <1>1, StartupKeeps DEF Start, Owned, disk
  <2> QED BY <1>1, <2>1, <2>2, <2>3, SeenKeeps DEF Start, disk
<1>2. CASE LookAtFlag
  <2>1. DiskTypes' /\ DeviceTypes'
    BY <1>2 DEF LookAtFlag, DiskTypes, DeviceTypes, disk, bounds
  <2>2. ProcessTypes'
    BY <1>2 DEF LookAtFlag, ProcessTypes
  <2>3. (Quiet /\ Alone /\ Busy /\ Owned /\ Complete)'
    BY <1>2, StartupKeeps DEF LookAtFlag, Free, disk
  <2>4. Seen'
    BY <1>2 DEF LookAtFlag, Seen, NoFlag, disk
  <2> QED BY <2>1, <2>2, <2>3, <2>4
<1>3. CASE CheckPasses
  <2>1. DiskTypes' /\ DeviceTypes'
    BY <1>3 DEF CheckPasses, DiskTypes, DeviceTypes, disk, bounds
  <2> DEFINE flag == [Flag EXCEPT !.pending = FALSE]
  <2>2. flag \in Flags
    <3>1. Flag \in Flags
      BY <1>3, FlagTyped DEF CheckPasses, Seen
    <3> QED BY <3>1 DEF Flags
  <2>3. job' = Job("main", "confirm", flag, memory)
    BY <1>3 DEF CheckPasses
  <2> HIDE DEF flag
  <2>4. job' \in JobType /\ job' # NoJob /\ job'.kind = "confirm"
    BY <2>2, <2>3, ConfirmTyped
  <2>5. UNCHANGED <<image, main, state, memory, tasks>> /\ main = "checking"
    BY <1>3 DEF CheckPasses, disk
  <2>6. ProcessTypes'
    BY <2>4, <2>5 DEF ProcessTypes
  <2>7. (Quiet /\ Alone /\ Busy /\ Owned /\ Complete)'
    BY <2>4, <2>5 DEF Quiet, Alone, Busy, Owned, Complete, Piping
  <2>8. Seen'
    BY <1>3, SeenKeeps DEF CheckPasses, disk
  <2> QED BY <2>1, <2>6, <2>7, <2>8
<1>4. CASE CheckTimesOut
  <2>1. /\ job = NoJob /\ Rollback("main") /\ UNCHANGED <<memory, image>>
        /\ UNCHANGED <<backend, image, env, file, record, power, booted, requests, mishaps>>
    BY <1>4 DEF CheckTimesOut, Free, disk, bounds
  <2>2. /\ ProcessTypes' /\ closing' \in BOOLEAN
        /\ (Quiet /\ Alone /\ Busy /\ Owned /\ Complete)'
    BY <2>1, RollbackKeeps
  <2>3. main' = main \/ main' = "serving"
    BY <2>1 DEF Rollback, EndRollback, Done
  <2> QED BY <2>1, <2>2, <2>3, SeenKeeps DEF DiskTypes, DeviceTypes
<1>5. CASE FlagUnreadAtStart
  <2>1. /\ Free /\ main # "serving" /\ Mishap
        /\ UNCHANGED <<backend, image, env, file, record, power, booted, memory, job, requests>>
    BY <1>5 DEF FlagUnreadAtStart, disk
  <2>2. mishaps' \in 0 .. MaxMishaps
    BY <2>1, OtaAssumption DEF Mishap, DeviceTypes
  <2>3. main' = "serving" /\ closing' \in {closing, TRUE}
    BY <1>5 DEF FlagUnreadAtStart, EndRollback, Done
  <2>4. \/ UNCHANGED <<state, tasks>>
        \/ state' \in {"idle", "rolled_back"} /\ Done("main")
    BY <1>5 DEF FlagUnreadAtStart, EndRollback
  <2>5. ProcessTypes'
    BY <2>1, <2>3, <2>4, DoneTyped DEF ProcessTypes
  <2>6. DiskTypes' /\ DeviceTypes'
    BY <2>1, <2>2, <2>3 DEF DiskTypes, DeviceTypes
  <2>7. \A u \in Tasks : ~Piping(u)'
    <3>1. \A u \in Tasks : ~Piping(u)
      BY <2>1 DEF Quiet, Piping
    <3> QED BY <2>4, <3>1, DoneTyped DEF Piping
  <2>8. (Quiet /\ Alone /\ Busy /\ Owned /\ Complete)'
    BY <2>1, <2>3, <2>7 DEF Quiet, Alone, Busy, Owned, Complete, Free
  <2>9. Seen'
    BY <2>1, <2>3, SeenKeeps
  <2> QED BY <2>5, <2>6, <2>8, <2>9
<1> QED BY <1>1, <1>2, <1>3, <1>4, <1>5 DEF Startup

(* What one write stores is what the job carries (partition.py              *)
(* write_boot_flag(), state_machine.py VersionState.save()).                *)
LEMMA StoreTyped ==
  ASSUME Types, job # NoJob, NEW write \in Names, Store(write)
  PROVE  /\ env' \in [active : Slots, count : 0 .. 3, pending : BOOLEAN]
         /\ file' \in Flags \cup {Absent} /\ record' \in Pair /\ memory' \in Pair
         /\ file' = file \/ file' \in Flags
<1>1. /\ job.flag \in Flags /\ job.versions \in Pair
      /\ job.flag.active \in Slots /\ job.flag.count \in 0 .. 3 /\ job.flag.pending \in BOOLEAN
  BY JobParts DEF Types, Flags
<1>2. file' \in Flags \cup {Absent} /\ record' \in Pair /\ memory' \in Pair
  BY <1>1 DEF Store, Types, DiskTypes, ProcessTypes
<1>3. file' = file \/ file' \in Flags
  BY <1>1 DEF Store
<1>4. env' \in [active : Slots, count : 0 .. 3, pending : BOOLEAN]
  <2>1. CASE write = "active"
    BY <1>1, <2>1 DEF Store, Types, DiskTypes
  <2>2. CASE write = "count"
    BY <1>1, <2>2 DEF Store, Types, DiskTypes
  <2>3. CASE write = "pending"
    BY <1>1, <2>3 DEF Store, Types, DiskTypes
  <2>4. CASE write \notin {"active", "count", "pending"}
    BY <2>4 DEF Store, Types, DiskTypes
  <2> QED BY <2>1, <2>2, <2>3, <2>4
<1> QED BY <1>2, <1>3, <1>4

(* A write that ends well, or raises. *)
LEMMA WritingStep == ASSUME IInv, Writing PROVE IInv'
<1> USE DEF IInv, Types
<1>1. job # NoJob
  BY DEF Writing, Write, WriteFails, RebootFails
<1>2. /\ job \in JobType
      /\ job.owner \in Tasks \cup {"main"} /\ job.kind \in {"update", "rollback", "confirm"}
      /\ job.writes \in Seq(Names) /\ job.writes # <<>>
  BY <1>1, JobParts
<1>3. CASE Write
  <2>1. /\ UNCHANGED <<backend, image, power, booted, requests, mishaps>>
        /\ Store(Head(job.writes))
    BY <1>3 DEF Write, bounds
  <2>2. Head(job.writes) \in Names
    BY <1>2
  <2>3. DiskTypes' /\ memory' \in Pair
    BY <1>1, <2>1, <2>2, StoreTyped DEF DiskTypes
  <2>4. main' = main \/ main' = "serving"
    BY <1>2, <1>3 DEF Write, EndRollback, Done
  <2>5. Seen'
    BY <1>1, <2>1, <2>2, <2>4, StoreTyped, SeenKeeps
  <2>6. CASE Len(job.writes) > 1
    <3>1. /\ job' = [job EXCEPT !.writes = Tail(job.writes)]
          /\ state' \in {state, "rebooting"}
          /\ UNCHANGED <<main, tasks, closing>>
      BY <1>3, <2>6 DEF Write
    <3>2. Tail(job.writes) \in Seq(Names) \ {<<>>}
      <4>1. Tail(job.writes) \in Seq(Names) /\ Len(Tail(job.writes)) = Len(job.writes) - 1
        BY <1>2
      <4>2. Len(job.writes) \in Nat
        BY <1>2
      <4>3. Len(Tail(job.writes)) >= 1
        BY <2>6, <4>1, <4>2
      <4> DEFINE rest == Tail(job.writes)
      <4> HIDE DEF rest
      <4>4. rest \in Seq(Names) /\ Len(rest) >= 1
        BY <4>1, <4>3 DEF rest
      <4>5. rest \in Seq(Names) \ {<<>>}
        BY <4>4
      <4> QED BY <4>5 DEF rest
    <3>3. /\ job' \in JobType
          /\ job'.owner = job.owner /\ job'.kind = job.kind /\ job'.flag = job.flag
      BY <1>2, <3>1, <3>2 DEF JobType
    <3>4. ProcessTypes' /\ DeviceTypes'
      BY <2>1, <2>3, <3>1, <3>3 DEF ProcessTypes, DeviceTypes
    <3>5. (Quiet /\ Alone /\ Busy /\ Owned /\ Complete)'
      BY <1>1, <2>1, <3>1, <3>3 DEF Quiet, Alone, Busy, Owned, Complete, Piping
    <3> QED BY <2>3, <2>5, <3>4, <3>5
  <2>7. CASE ~(Len(job.writes) > 1)
    <3>1. /\ job' = NoJob /\ Done(job.owner) /\ closing' \in {closing, TRUE}
          /\ \/ state' = state \/ state' = "rolled_back"
             \/ state' = "idle" /\ job.kind = "confirm"
      BY <1>2, <1>3, <2>7 DEF Write, EndRollback
    <3>2. ProcessTypes' /\ DeviceTypes'
      BY <2>1, <2>3, <3>1, DoneTyped DEF ProcessTypes, DeviceTypes
    <3>3. (Quiet /\ Alone /\ Busy /\ Owned /\ Complete)'
      BY <1>1, <2>1, <3>1, JobEnds
    <3> QED BY <2>3, <2>5, <3>2, <3>3
  <2> QED BY <2>6, <2>7
<1>4. CASE WriteFails
  <2>1. /\ job' = NoJob /\ Done(job.owner) /\ closing' \in {closing, TRUE}
        /\ \/ state' = "rolled_back"
           \/ state' = "idle" /\ job.kind \in {"update", "confirm"}
    BY <1>2, <1>4 DEF WriteFails, EndRollback, FailUpdate
  <2>2. UNCHANGED <<backend, image, env, file, record, power, booted, memory, requests>>
    BY <1>4 DEF WriteFails, disk
  <2>3. mishaps' \in 0 .. MaxMishaps
    BY <1>4, OtaAssumption DEF WriteFails, Mishap, DeviceTypes
  <2>4. DiskTypes' /\ DeviceTypes' /\ ProcessTypes'
    BY <2>1, <2>2, <2>3, DoneTyped DEF DiskTypes, DeviceTypes, ProcessTypes
  <2>5. (Quiet /\ Alone /\ Busy /\ Owned /\ Complete)'
    BY <1>1, <2>1, <2>2, JobEnds
  <2>6. Seen'
    BY <2>1, <2>2, SeenKeeps DEF Done
  <2> QED BY <2>4, <2>5, <2>6
<1>5. CASE RebootFails
  <2>1. /\ UNCHANGED <<backend, image, power, booted, closing, requests>>
        /\ Store(Head(job.writes)) /\ Mishap
        /\ job' = NoJob /\ Done(job.owner)
        /\ state' = "rolled_back" \/ (state' = "idle" /\ job.kind = "update")
    BY <1>5 DEF RebootFails
  <2>2. Head(job.writes) \in Names
    BY <1>2
  <2>3. DiskTypes' /\ memory' \in Pair
    BY <1>1, <2>1, <2>2, StoreTyped DEF DiskTypes
  <2>4. mishaps' \in 0 .. MaxMishaps
    BY <2>1, OtaAssumption DEF Mishap, DeviceTypes
  <2>5. ProcessTypes' /\ DeviceTypes'
    BY <2>1, <2>3, <2>4, DoneTyped DEF ProcessTypes, DeviceTypes
  <2>6. (Quiet /\ Alone /\ Busy /\ Owned /\ Complete)'
    BY <1>1, <2>1, JobEnds
  <2>7. main' = main \/ main' = "serving"
    BY <2>1 DEF Done
  <2>8. Seen'
    BY <1>1, <2>1, <2>2, <2>7, StoreTyped, SeenKeeps
  <2> QED BY <2>3, <2>5, <2>6, <2>8
<1> QED BY <1>3, <1>4, <1>5 DEF Writing

(* A command is heard, and its task goes on. *)
LEMMA CommandStep == ASSUME IInv, Command PROVE IInv'
<1> USE DEF IInv, Types
<1>1. PICK t \in Tasks :
        \/ \E version \in Versions \ {Factory} : Request(t, "update", version)
        \/ Request(t, "rollback", Factory)
        \/ Update(t) \/ RollbackTask(t) \/ FlagUnread(t)
  BY DEF Command
<1>2. tasks[t] \in TaskType
  BY DEF ProcessTypes
<1>3. ASSUME NEW pc \in {"update", "rollback"}, NEW version \in Versions, Request(t, pc, version)
      PROVE  IInv'
  <2> DEFINE new == [pc |-> pc, version |-> version, old |-> Factory]
  <2>1. new \in TaskType /\ new.pc = pc
    BY OtaAssumption DEF TaskType
  <2>2. /\ tasks' = [tasks EXCEPT ![t] = new] /\ job = NoJob /\ main = "serving"
        /\ UNCHANGED <<backend, image, env, file, record, power, booted, main, state, memory>>
        /\ UNCHANGED <<job, closing, mishaps>>
    BY <1>3 DEF Request, disk
  <2> HIDE DEF new
  <2>3. requests' \in 0 .. MaxRequests
    BY <1>3, OtaAssumption DEF Request, DeviceTypes
  <2>4. DiskTypes' /\ DeviceTypes' /\ ProcessTypes'
    BY <2>1, <2>2, <2>3 DEF DiskTypes, DeviceTypes, ProcessTypes
  <2>5. \A u \in Tasks : Piping(u)' => Piping(u)
    BY <2>1, <2>2 DEF Piping, ProcessTypes
  <2>6. (Quiet /\ Alone /\ Busy /\ Owned /\ Complete)'
    BY <2>2, <2>5 DEF Quiet, Alone, Busy, Owned, Complete
  <2>7. Seen'
    BY <2>2, SeenKeeps
  <2> QED BY <2>4, <2>6, <2>7
<1>4. CASE BeginUpdate(t)
  <2>1. /\ job = NoJob /\ tasks[t].pc = "update" /\ main = "serving"
        /\ UNCHANGED <<backend, image, env, file, record, power, booted, main, memory>>
        /\ UNCHANGED <<job, closing, requests, mishaps>>
    BY <1>4 DEF BeginUpdate, Free, Quiet, disk, bounds
  <2>2. DiskTypes' /\ DeviceTypes'
    BY <2>1 DEF DiskTypes, DeviceTypes
  <2>3. Quiet' /\ Owned' /\ Complete' /\ Seen'
    BY <2>1, SeenKeeps DEF Quiet, Owned, Complete
  <2>4. CASE state = "idle"
    <3>1. /\ state' = "downloading"
          /\ tasks' = [tasks EXCEPT ![t].pc = "downloading", ![t].old = memory.current]
      BY <1>4, <2>4 DEF BeginUpdate
    <3>2. tasks' \in [Tasks -> TaskType]
      <4>1. memory.current \in Versions
        BY DEF ProcessTypes, Pair
      <4> DEFINE middle == [tasks EXCEPT ![t].pc = "downloading"]
      <4>2. middle \in [Tasks -> TaskType]
        BY DEF ProcessTypes, TaskType
      <4>3. tasks' = [middle EXCEPT ![t].old = memory.current]
        BY <3>1 DEF ProcessTypes, TaskType
      <4> HIDE DEF middle
      <4> QED BY <4>1, <4>2, <4>3 DEF TaskType
    <3>3. ProcessTypes'
      BY <2>1, <3>1, <3>2 DEF ProcessTypes
    <3>4. \A u \in Tasks : ~Piping(u)
      BY <2>4 DEF Busy
    <3>5. \A u \in Tasks : u # t => tasks'[u] = tasks[u]
      BY <3>1 DEF ProcessTypes
    <3>6. \A u \in Tasks : Piping(u)' => u = t
      BY <3>4, <3>5 DEF Piping
    <3> QED BY <2>2, <2>3, <3>1, <3>3, <3>6 DEF Alone, Busy
  <2>5. CASE state # "idle"
    <3>1. NoTask \in TaskType /\ NoTask.pc = "none"
      BY OtaAssumption DEF NoTask, TaskType
    <3>2. tasks' = [tasks EXCEPT ![t] = NoTask] /\ UNCHANGED state
      BY <1>4, <2>5 DEF BeginUpdate
    <3>3. ProcessTypes'
      BY <2>1, <3>1, <3>2 DEF ProcessTypes
    <3>4. \A u \in Tasks : Piping(u)' => Piping(u)
      BY <3>1, <3>2 DEF Piping, ProcessTypes
    <3> QED BY <2>2, <2>3, <2>5, <3>2, <3>3, <3>4 DEF Alone, Busy
  <2> QED BY <2>4, <2>5
<1>5. CASE Verified(t)
  <2>1. /\ job = NoJob /\ Piping(t) /\ tasks[t].pc = "downloading" /\ main = "serving"
        /\ UNCHANGED <<backend, env, file, record, power, booted, memory, requests, mishaps>>
    BY <1>5 DEF Verified, Free, Piping, Quiet, bounds
  <2>2. CASE tasks[t].version \in Bare
    <3>1. UNCHANGED image /\ SwapFlag(t)
      BY <1>5, <2>2 DEF Verified
    <3>2. /\ ProcessTypes' /\ closing' \in BOOLEAN
          /\ (Quiet /\ Alone /\ Busy /\ Owned /\ Complete)'
      BY <2>1, <2>2, <3>1, SwapKeeps DEF Complete
    <3>3. main' = main
      BY <2>1, <3>1, OtaAssumption DEF SwapFlag, FailUpdate, Done
    <3> QED BY <2>1, <3>1, <3>2, <3>3, SeenKeeps DEF DiskTypes, DeviceTypes
  <2>3. CASE tasks[t].version \notin Bare
    <3>1. /\ image' = [image EXCEPT !["b"] = "partial"]
          /\ tasks' = [tasks EXCEPT ![t].pc = "flashing"]
          /\ state' = "applying"
          /\ UNCHANGED <<main, job, closing>>
      BY <1>5, <2>3 DEF Verified, StandbyDevice
    <3>2. tasks' \in [Tasks -> TaskType]
      BY <3>1 DEF ProcessTypes, TaskType
    <3>3. ProcessTypes'
      BY <2>1, <3>1, <3>2 DEF ProcessTypes
    <3>4. DiskTypes' /\ DeviceTypes'
      BY <2>1, <3>1 DEF DiskTypes, DeviceTypes
    <3>5. image'["a"] # "partial"
      BY <3>1 DEF DiskTypes, Slots, Complete
    <3>6. \A u \in Tasks : Piping(u)' => Piping(u)
      BY <2>1, <3>1 DEF Piping, ProcessTypes
    <3>7. (Quiet /\ Alone /\ Busy /\ Owned /\ Complete)'
      BY <2>1, <3>1, <3>5, <3>6 DEF Quiet, Alone, Busy, Owned, Complete
    <3> QED BY <2>1, <3>1, <3>3, <3>4, <3>7, SeenKeeps
  <2> QED BY <2>2, <2>3
<1>6. CASE Flashed(t)
  <2>1. /\ job = NoJob /\ Piping(t) /\ SwapFlag(t) /\ main = "serving"
        /\ image' = [image EXCEPT !["b"] = tasks[t].version]
        /\ UNCHANGED <<backend, env, file, record, power, booted, memory, requests, mishaps>>
    BY <1>6 DEF Flashed, Free, Piping, Quiet, bounds, StandbyDevice
  <2>2. tasks[t].version \in Versions
    BY <1>2 DEF TaskType
  <2>3. /\ image' \in [Slots -> Versions \cup {"partial"}]
        /\ image'["a"] # "partial" /\ image'["b"] # "partial"
    BY <2>1, <2>2, OtaAssumption DEF DiskTypes, Slots, Complete
  <2>4. /\ ProcessTypes' /\ closing' \in BOOLEAN
        /\ (Quiet /\ Alone /\ Busy /\ Owned /\ Complete)'
    BY <2>1, <2>3, SwapKeeps
  <2>5. main' = main
    BY <2>1, OtaAssumption DEF SwapFlag, FailUpdate, Done
  <2> QED BY <2>1, <2>3, <2>4, <2>5, SeenKeeps DEF DiskTypes, DeviceTypes
<1>7. CASE Refused(t)
  <2>1. /\ job' = NoJob /\ Piping(t) /\ Done(t) /\ state' = "idle"
        /\ UNCHANGED <<backend, image, env, file, record, power, booted, memory>>
        /\ UNCHANGED <<closing, requests, mishaps>>
    BY <1>7 DEF Refused, Free, FailUpdate, Piping, disk, bounds
  <2>2. (Quiet /\ Alone /\ Busy /\ Owned /\ Complete)'
    BY <2>1, PipelineEnds DEF Complete
  <2>3. ProcessTypes'
    BY <2>1, DoneTyped DEF ProcessTypes
  <2>4. main' = main
    BY <2>1, OtaAssumption DEF Done
  <2> QED BY <2>1, <2>2, <2>3, <2>4, SeenKeeps DEF DiskTypes, DeviceTypes
<1>8. CASE RollbackTask(t)
  <2>1. /\ job = NoJob /\ Rollback(t) /\ UNCHANGED <<memory, image>>
        /\ UNCHANGED <<backend, env, file, record, power, booted, requests, mishaps>>
    BY <1>8 DEF RollbackTask, Free, disk, bounds
  <2>2. /\ ProcessTypes' /\ closing' \in BOOLEAN
        /\ (Quiet /\ Alone /\ Busy /\ Owned /\ Complete)'
    BY <2>1, RollbackKeeps
  <2>3. main' = main
    BY <2>1, OtaAssumption DEF Rollback, EndRollback, Done
  <2> QED BY <2>1, <2>2, <2>3, SeenKeeps DEF DiskTypes, DeviceTypes
<1>9. ASSUME NEW version \in Versions \ {Factory}, Request(t, "update", version) PROVE IInv'
  BY <1>3, <1>9
<1>10. CASE Request(t, "rollback", Factory)
  BY <1>3, <1>10, OtaAssumption
<1>11. CASE FlagUnread(t)
  <2>1. /\ job = NoJob /\ Mishap
        /\ UNCHANGED <<backend, env, file, record, power, booted, memory, job, requests>>
    BY <1>11 DEF FlagUnread, Free
  <2>2. mishaps' \in 0 .. MaxMishaps
    BY <2>1, OtaAssumption DEF Mishap, DeviceTypes
  <2>3. /\ Done(t) /\ closing' \in {closing, TRUE} /\ state' \in {"idle", "rolled_back"}
    BY <1>11 DEF FlagUnread, FailUpdate, EndRollback
  <2>4. ProcessTypes'
    BY <2>1, <2>3, DoneTyped DEF ProcessTypes
  <2>5. main' = main
    BY <2>3, OtaAssumption DEF Done
  <2>6. Seen'
    BY <2>1, <2>5, SeenKeeps
  <2>7. CASE tasks[t].pc = "flashing" /\ image' = [image EXCEPT !["b"] = tasks[t].version]
    <3>1. /\ image' \in [Slots -> Versions \cup {"partial"}]
          /\ image'["a"] # "partial"
      BY <1>2, <2>7, OtaAssumption DEF DiskTypes, Slots, Complete, TaskType
    <3>2. (Quiet /\ Alone /\ Busy /\ Owned /\ Complete)'
      BY <2>1, <2>3, <2>7, <3>1, PipelineEnds DEF Piping
    <3> QED BY <2>1, <2>2, <2>3, <2>4, <2>6, <3>1, <3>2 DEF DiskTypes, DeviceTypes
  <2>8. CASE state' = "rolled_back" /\ UNCHANGED image
    <3>1. \A u \in Tasks : Piping(u)' => Piping(u)
      BY <2>3, DoneTyped
    <3>2. Quiet'
      BY <2>3, <2>5 DEF Quiet, Done, NoTask
    <3>3. (Alone /\ Busy /\ Owned /\ Complete)'
      BY <2>1, <2>8, <3>1 DEF Alone, Busy, Owned, Complete
    <3> QED BY <2>1, <2>2, <2>3, <2>4, <2>6, <2>8, <3>2, <3>3 DEF DiskTypes, DeviceTypes
  <2> QED BY <1>11, <2>7, <2>8 DEF FlagUnread, EndRollback, StandbyDevice
<1> QED BY <1>1, <1>4, <1>5, <1>6, <1>7, <1>8, <1>9, <1>10, <1>11 DEF Update

-----------------------------------------------------------------------------
(* The invariant holds in every behaviour of the specification. *)
THEOREM Invariant == Spec => []IInv
<1>1. Init => IInv
  BY InitInv
<1>2. IInv /\ [Next]_vars => IInv'
  <2> SUFFICES ASSUME IInv, [Next]_vars PROVE IInv'
    OBVIOUS
  <2>1. CASE Next
    BY <2>1, DeviceStep, StartupStep, WritingStep, CommandStep DEF Next
  <2>2. CASE UNCHANGED vars
    <3>1. /\ UNCHANGED <<backend, image, env, file, record, power, booted>>
          /\ UNCHANGED <<main, state, memory, tasks, job, closing, requests, mishaps>>
      BY <2>2 DEF vars, disk, process, bounds
    <3>2. Types'
      BY <3>1 DEF IInv, Types, DiskTypes, DeviceTypes, ProcessTypes
    <3>3. (Quiet /\ Alone /\ Busy /\ Owned /\ Complete)'
      BY <3>1, ProcessSame DEF process
    <3>4. Seen'
      BY <3>1, SeenKeeps DEF IInv
    <3> QED BY <3>2, <3>3, <3>4 DEF IInv
  <2> QED BY <2>1, <2>2
<1> QED BY <1>1, <1>2, PTL DEF Spec

(* Every variable stays in its domain, for any bounds (state_machine.py,    *)
(* partition.py): a boot count that the script has incremented is still one *)
(* that it compares, and a job under way always has a write to do.          *)
THEOREM TypeCorrect == Spec => []TypeOK
<1>1. IInv => TypeOK
  <2> SUFFICES ASSUME IInv PROVE TypeOK
    OBVIOUS
  <2> USE DEF IInv, Types
  <2>1. \A t \in Tasks : tasks[t].pc \in {"none", "rollback", "update", "downloading", "flashing"}
    BY DEF ProcessTypes, TaskType
  <2>2. job.owner \in Tasks \cup {"main", "none"}
    BY JobParts DEF NoJob
  <2>3. job # NoJob => job.flag \in Flags /\ job.writes # <<>>
    BY JobParts
  <2>4. file = Absent \/ file \in Flags
    BY DEF DiskTypes
  <2> QED BY <2>1, <2>2, <2>3, <2>4 DEF TypeOK, DiskTypes, DeviceTypes, ProcessTypes, Pair
<1> QED BY <1>1, Invariant, PTL

(* Two updates never run at once, for any number of tasks: the guard of     *)
(* start_update() on IDLE is enough although rollbacks overwrite the state. *)
THEOREM UpdatesRunAlone == Spec => []OnePipeline
<1>1. IInv => OnePipeline
  <2> DEFINE running == {t \in Tasks : InPipeline(t)}
  <2> SUFFICES ASSUME IInv PROVE Cardinality(running) <= 1
    BY DEF OnePipeline
  <2>1. \A t \in running : Piping(t)
    <3>1. SUFFICES ASSUME NEW t \in Tasks, job.owner = t, job.kind = "update" PROVE Piping(t)
      BY DEF InPipeline, Piping
    <3>2. job # NoJob
      BY <3>1, OtaAssumption DEF NoJob
    <3> QED BY <3>1, <3>2 DEF IInv, Owned
  <2>2. \A t, u \in running : t = u
    BY <2>1 DEF IInv, Alone
  <2> HIDE DEF running
  <2>3. CASE running = {}
    BY <2>3, FS_EmptySet
  <2>4. CASE running # {}
    <3>1. PICK t \in running : running = {t}
      BY <2>2, <2>4
    <3>2. Cardinality({t}) = 1
      BY FS_Singleton
    <3> QED BY <3>1, <3>2
  <2> QED BY <2>3, <2>4
<1> QED BY <1>1, Invariant, PTL

(* An update that carries an image never selects an incomplete one, for any *)
(* interleaving of updates, rollbacks, failed writes and power cuts         *)
(* (state_machine.py start_update()).                                       *)
THEOREM UpdatesSelectComplete == Spec => []UpdateSelectsComplete
<1>1. IInv => UpdateSelectsComplete
  BY DEF IInv, Complete, UpdateSelectsComplete
<1> QED BY <1>1, Invariant, PTL
=============================================================================
