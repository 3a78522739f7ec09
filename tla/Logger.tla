------------------------------- MODULE Logger -------------------------------
(***************************************************************************)
(* What the logger keeps on the SSD, who takes it away and what a query    *)
(* sees of it: telemetry_writer.py writes one Parquet file per hour under  *)
(* a temporary name, event_writer.py appends events to one JSONL file per  *)
(* day, cleanup.py deletes files when the disk fills up, query_handler.py  *)
(* reads them in a thread of its own, __main__.py starts and stops it all. *)
(*                                                                         *)
(* One event loop runs the tasks; each of their steps is free of awaits    *)
(* between its reads and its writes of the directory. A sweep of the       *)
(* cleanup holds the loop too, but other programs write to the disk in the *)
(* middle of it, and the clock goes on; a query runs in a thread.          *)
(* There is one Parquet writer (the others differ in the name only).       *)
(***************************************************************************)
EXTENDS Integers, Sequences, FiniteSets, SequencesExt, FiniteSetsExt

CONSTANTS
  HoursPerDay, MonthDays, StopDay,  (* The calendar, scaled: 24, 28 and 28.*)
  LongRange,         (* More days than these (30) are one broad pattern.   *)
  ParquetRetention, EventRetention, (* Days that a file is kept.           *)
  Threshold, Capacity, (* In files: disk_usage_threshold_pct and 100 %.    *)
  SyncEvery,         (* _SYNC_EVERY: events between two syncs.             *)
  FirstHour, MaxHours, MaxRecords, MaxOther, MaxMishaps  (* Bounds of a run. *)

Hours == 0 .. MaxHours
Days  == 0 .. (MaxHours \div HoursPerDay)

ASSUME LoggerAssumption ==
  /\ {HoursPerDay, MonthDays, StopDay, Threshold, Capacity} \subseteq Nat \ {0}
  /\ SyncEvery \in Nat \ {0, 1}
  /\ {LongRange, ParquetRetention, EventRetention} \subseteq Nat
  /\ {MaxHours, MaxRecords, MaxOther, MaxMishaps} \subseteq Nat
  /\ FirstHour \in Hours

VARIABLES
  now,       (* The hour, UTC, counted from the first day.                 *)
  made,      (* Rows and events so far: a record is its number.            *)
  other,     (* What other programs keep on the disk.                      *)
  up,        (* The process runs.                                          *)
  recording, (* The telemetry task has not ended with an error.            *)
  syncing,   (* Nor has _periodic_sync.                                    *)
  current,   (* The Parquet file being written: its hour and its rows.     *)
  tmp,       (* The hours that have a .tmp file.                           *)
  disk,      (* The finished Parquet files and the JSONL files, as records.*)
  handle,    (* The JSONL file open for appending: its day, whether it is  *)
             (* still in its directory, what is buffered, and the writes   *)
             (* since the last sync.                                       *)
  unsynced,  (* _writes_pending.                                           *)
  sweep,     (* run_cleanup(): the list of files it is at, what is left of *)
             (* it, the files it could not delete, the day it began and    *)
             (* whether no other program has taken space since.            *)
  query,     (* The query being served, or the last answer.                *)
  mishaps    (* Crashes, stops and write errors so far.                    *)

process == <<up, recording, syncing>>
rows    == <<current, tmp>>
events  == <<handle, unsynced>>
loggerVars == <<now, made, other, process, rows, disk, events, sweep, query, mishaps>>

Closed == [hour |-> -1, rows |-> <<>>]
Nothing == [day |-> -1, linked |-> FALSE, tail |-> <<>>, writes |-> 0]
NoSweep == [list |-> 0, files |-> {}, failed |-> {}, began |-> 0, calm |-> TRUE]
Idle == [pc |-> "idle"]
Torn == 0   (* The first part of a line that was cut off. *)

(* Files are known by their kind and the hour or the day in their path. *)
Parquet(hour) == <<"parquet", hour>>
Jsonl(day)    == <<"jsonl", day>>
Today == now \div HoursPerDay
DayOf(file) == IF file[1] = "parquet" THEN file[2] \div HoursPerDay ELSE file[2]
OfKind(kind, dir) == {file \in DOMAIN dir : file[1] = kind}
With(dir, file, lines) ==
  [f \in DOMAIN dir \cup {file} |-> IF f = file THEN lines ELSE dir[f]]
Without(dir, files) == [file \in DOMAIN dir \ files |-> dir[file]]

(* get_disk_usage_pct(): a file that is open keeps its space. *)
Usage(dir) ==
  other + Cardinality(DOMAIN dir) + Cardinality(tmp)
    + IF handle.day >= 0 /\ Jsonl(handle.day) \notin DOMAIN dir THEN 1 ELSE 0

LoggerInit ==
  /\ now = FirstHour /\ made = 0 /\ other = 0 /\ mishaps = 0
  /\ up = TRUE /\ recording = TRUE /\ syncing = TRUE
  /\ current = Closed /\ tmp = {} /\ disk = <<>>
  /\ handle = Nothing /\ unsynced = FALSE /\ sweep = NoSweep /\ query = Idle

(* The tasks of the event loop can take a step. *)
LoopRuns == up /\ sweep = NoSweep

Mishap == mishaps < MaxMishaps /\ mishaps' = mishaps + 1

-----------------------------------------------------------------------------
(* telemetry_writer.py.                                                     *)

(* _close_current(): the file gets its name, over any that has it already.  *)
Finished(dir, w) ==
  IF w = Closed THEN dir ELSE With(dir, Parquet(w.hour), w.rows)

(* write_row(): another hour of the day than that of the open file. *)
Turned == current # Closed /\ current.hour % HoursPerDay # now % HoursPerDay

(* _open_new(): what a crash left of this hour is removed. *)
NewFile == [hour |-> now, rows |-> <<>>]

(* _build_cluster_row(), _build_system_row(): one row of the last second.   *)
Grown(w) == [w EXCEPT !.rows = Append(@, made')]

(* collect_and_write_once() *)
Row ==
  LET opens == Turned \/ current = Closed
  IN  /\ LoopRuns /\ recording /\ made < MaxRecords
      /\ made' = made + 1
      /\ disk' = IF Turned THEN Finished(disk, current) ELSE disk
      /\ current' = Grown(IF opens THEN NewFile ELSE current)
      /\ tmp' = IF opens THEN (tmp \ {current.hour}) \cup {now} ELSE tmp
      /\ UNCHANGED <<now, other, process, events, sweep, query, mishaps>>

(* A message that does not decode, or no space for a row: run() closes the  *)
(* file and ends, and nobody looks at the task before the shutdown. The     *)
(* file may fail to close, or to get its name.                              *)
RowFails ==
  /\ LoopRuns /\ recording
  /\ Mishap
  /\ recording' = FALSE
  /\ \/ /\ disk' = Finished(disk, current)
        /\ current' = Closed /\ tmp' = tmp \ {current.hour}
     \/ UNCHANGED <<disk, current, tmp>>
     \/ current' = Closed /\ UNCHANGED <<disk, tmp>>
  /\ UNCHANGED <<now, made, other, up, syncing, events, sweep, query>>

-----------------------------------------------------------------------------
(* event_writer.py.                                                         *)

(* What is on the disk when a handle has been flushed. *)
Flushed(dir, h) ==
  IF h.linked THEN [dir EXCEPT ![Jsonl(h.day)] = @ \o h.tail] ELSE dir

(* Slip: the file of the day is opened for writing, not for appending. *)
OpenedAnew(dir, day) == With(dir, Jsonl(day), <<>>)

(* open(path, "ab") *)
Opened(dir, day) == IF Jsonl(day) \in DOMAIN dir THEN dir ELSE With(dir, Jsonl(day), <<>>)

(* The sync is due: _SYNC_EVERY writes since the last one. *)
SyncDue(writes) == writes >= SyncEvery

(* append_event(): rotate by date, buffer the line, sync now and then. *)
Event ==
  LET turned == handle.day # Today
      dir    == IF turned THEN Opened(Flushed(disk, handle), Today) ELSE disk
      h      == IF turned THEN [Nothing EXCEPT !.day = Today, !.linked = TRUE] ELSE handle
      longer == [h EXCEPT !.tail = Append(@, made'), !.writes = @ + 1]
  IN  /\ LoopRuns /\ made < MaxRecords
      /\ made' = made + 1
      /\ unsynced' = TRUE
      /\ IF SyncDue(longer.writes)
         THEN /\ disk' = Flushed(dir, longer)
              /\ handle' = [longer EXCEPT !.tail = <<>>, !.writes = 0]
         ELSE disk' = dir /\ handle' = longer
      /\ UNCHANGED <<now, other, process, rows, sweep, query, mishaps>>

(* Slip: the count of the writes is reset although the sync has failed. *)
RemainingReset(h, n) == [h EXCEPT !.tail = SubSeq(@, n + 1, Len(@)), !.writes = 0]

(* What is still buffered when n lines have got through. *)
Remaining(h, n) == [h EXCEPT !.tail = SubSeq(@, n + 1, Len(@))]

(* _sync() raises on a full disk, in flush() or, when every line has got    *)
(* through, in fsync().                                                     *)
SyncRaises(h) ==
  /\ Usage(disk) >= Capacity
  /\ \E n \in 0 .. Len(h.tail) :
       /\ disk' = Flushed(disk, [h EXCEPT !.tail = SubSeq(@, 1, n)])
       /\ handle' = Remaining(h, n)

(* run() swallows what append_event() raises: there is no room to flush the *)
(* buffer into, before the event is in it or after, or none for the file of *)
(* a new day. _writes_pending stays what it was.                            *)
EventFails ==
  LET longer == [handle EXCEPT !.tail = Append(@, made'), !.writes = @ + 1]
  IN  /\ LoopRuns /\ made < MaxRecords
      /\ Mishap
      /\ made' = made + 1
      /\ \/ handle.tail # <<>> /\ SyncRaises(handle)
         \/ handle.day = Today /\ SyncDue(longer.writes) /\ SyncRaises(longer)
         \/ /\ handle.day # Today /\ Usage(disk) >= Capacity
            /\ disk' = Flushed(disk, handle) /\ handle' = Nothing
      /\ UNCHANGED <<now, other, process, rows, unsynced, sweep, query>>

(* _periodic_sync(), once a second. *)
PeriodicSync ==
  /\ LoopRuns /\ syncing /\ unsynced
  /\ disk' = Flushed(disk, handle)
  /\ handle' = [handle EXCEPT !.tail = <<>>, !.writes = 0]
  /\ unsynced' = FALSE
  /\ UNCHANGED <<now, made, other, process, rows, sweep, query, mishaps>>

(* Here nobody catches it: the task ends. *)
SyncFails ==
  /\ LoopRuns /\ syncing /\ unsynced
  /\ Mishap
  /\ syncing' = FALSE
  /\ SyncRaises(handle)
  /\ UNCHANGED <<now, made, other, up, recording, rows, unsynced, sweep, query>>

(* read_events(): the lines that parse. *)
Readable(lines) ==
  {lines[i] : i \in {j \in DOMAIN lines : lines[j] # Torn /\ (j > 1 => lines[j - 1] # Torn)}}

-----------------------------------------------------------------------------
(* cleanup.py.                                                              *)

(* find_expired_parquet(), find_expired_jsonl(), on that day. *)
IsExpired(file, day) ==
  day - DayOf(file) > IF file[1] = "parquet" THEN ParquetRetention ELSE EventRetention

(* A sweep has four lists, one after the other: expired telemetry, expired  *)
(* events, all telemetry, all events (tier 3, in this order).               *)
KindDeleted(list) == IF list % 2 = 1 THEN "parquet" ELSE "jsonl"
Doomed(list) ==
  {file \in OfKind(KindDeleted(list), disk) : list <= 2 => IsExpired(file, Today)}

(* Slip: no survival mode. *)
LastExpired == 2

LastList == 4

(* Slip: the usage is not read again when a list has ended. *)
NeverEnough == FALSE

EnoughFreed == Usage(disk) < Threshold

(* run_cleanup(), which run_periodic() calls: nothing is done below the     *)
(* threshold.                                                               *)
SweepStarts ==
  /\ LoopRuns /\ Usage(disk) >= Threshold
  /\ sweep' = [list |-> 1, files |-> Doomed(1), failed |-> {}, began |-> Today, calm |-> TRUE]
  /\ UNCHANGED <<now, made, other, process, rows, disk, events, query, mishaps>>

(* The oldest file that is left; files of one day tie, and go as the scan   *)
(* of the directory gives them.                                             *)
IsNextFile(file) ==
  file \in sweep.files /\ \A other_file \in sweep.files : DayOf(file) <= DayOf(other_file)

(* _delete_files(): unlink, then the rest of the list is left alone if that *)
(* was enough.                                                              *)
DeleteFile ==
  \E file \in sweep.files :
    /\ IsNextFile(file)
    /\ disk' = Without(disk, {file})
    /\ handle' = [handle EXCEPT !.linked = @ /\ file # Jsonl(handle.day)]
    /\ sweep' = [sweep EXCEPT !.files = IF Usage(disk') < Threshold THEN {} ELSE @ \ {file}]
    /\ UNCHANGED <<now, made, other, process, rows, unsynced, query, mishaps>>

(* unlink() raises: the next file, without a look at the usage. *)
DeleteFails ==
  \E file \in sweep.files :
    /\ IsNextFile(file)
    /\ Mishap
    /\ sweep' = [sweep EXCEPT !.files = @ \ {file}, !.failed = @ \cup {file}]
    /\ UNCHANGED <<now, made, other, process, rows, disk, events, query>>

(* A list has ended: the usage is read again, and the next list is made up. *)
(* (After a list that was empty it is not, but then nothing was freed.)     *)
NextList ==
  /\ sweep # NoSweep /\ sweep.files = {}
  /\ sweep' = IF EnoughFreed \/ sweep.list = LastList THEN NoSweep
              ELSE [sweep EXCEPT !.list = @ + 1, !.files = Doomed(sweep.list + 1)]
  /\ UNCHANGED <<now, made, other, process, rows, disk, events, query, mishaps>>

Cleanup == SweepStarts \/ DeleteFile \/ NextList

-----------------------------------------------------------------------------
(* query_handler.py: QueryServer serves one request after the other.        *)

DayOfMonth(day) == (day % MonthDays) + 1

(* Slip: the walk over the days starts with the second one. *)
DaysAfterFirst(first, last) ==
  IF last - first + 1 > LongRange THEN Days ELSE (first + 1) .. last

(* _build_date_globs(): the walk from day to day stays where it is from day *)
(* 28 of a month on.                                                        *)
DaysNamed(first, last) ==
  IF last - first + 1 > LongRange
  THEN Days
  ELSE {day \in first .. last : \A earlier \in first .. (day - 1) : DayOfMonth(earlier) < StopDay}

(* How the writers name their files, and which names the requests look for: *)
(* "system_*" is the default of file_prefix and what energy_totals takes,   *)
(* and cell_snapshot has a prefix of its own; no file is named like that.   *)
(* (query_latest() with the default finds as little, and is left out.)      *)
NamedAs(file) == IF file[1] = "parquet" THEN "telemetry_system_*" ELSE "events_*"
FilePrefixes(kind) ==
  CASE kind = "range"         -> {"telemetry_system_*", "system_*"}
    [] kind = "latest"        -> {"telemetry_system_*"}
    [] kind = "cell_snapshot" -> {"cluster_0_*"}
    [] kind = "event_log"     -> {"events_*"}

Matching(prefix) == {file \in DOMAIN disk : NamedAs(file) = prefix}

(* query_time_series(), query_range_stats() and query_energy_totals() *)
RangeFiles(q) == {file \in Matching(q.prefix) : DayOf(file) \in DaysNamed(q.first, q.last)}

(* query_latest(), _find_latest_day_glob(): the last day that has a file. *)
LatestFiles(q) ==
  LET all == Matching(q.prefix)
  IN  {file \in all : \A later \in all : DayOf(later) <= DayOf(file)}

(* query_cell_snapshot(): the day of the timestamp, or all if it has none. *)
SnapshotFiles(q) ==
  LET all   == Matching(q.prefix)
      daily == {file \in all : DayOf(file) = q.first}
  IN  IF daily = {} THEN all ELSE daily

(* query_event_log(): it cannot name a day beyond the month it starts in. *)
EventFiles(q) == {file \in Matching(q.prefix) : DayOf(file) \in q.first .. q.last}
CannotBeNamed(q) == DayOfMonth(q.first) + q.last - q.first > MonthDays

FilesNamed(q) ==
  CASE q.kind = "range"         -> RangeFiles(q)
    [] q.kind = "latest"        -> LatestFiles(q)
    [] q.kind = "cell_snapshot" -> SnapshotFiles(q)

(* What the lines, or the rows, of these files say. *)
Answer(files) == [pc |-> "ok", got |-> UNION {Readable(disk[file]) : file \in files}]

Serving == query.pc \in {"asked", "listed"}

(* What an answer owes (no state of the code): for days up to the 28th of   *)
(* one month, what is in the files of these days that have the prefix.      *)
Owed(kind, prefix, first, last) ==
  LET whole == kind # "latest" /\ DayOfMonth(first) + last - first <= StopDay
      files == {file \in Matching(prefix) : whole /\ DayOf(file) \in first .. last}
  IN  Without(disk, DOMAIN disk \ files)

(* A range ends today, as those of the screens of the HMI do. *)
Ask ==
  /\ LoopRuns /\ query = Idle
  /\ \E kind \in {"range", "latest", "cell_snapshot", "event_log"}, first \in 0 .. Today :
       \E prefix \in FilePrefixes(kind) :
         /\ kind \in {"latest", "cell_snapshot"} => first = Today
         /\ query' = [pc |-> "asked", kind |-> kind, prefix |-> prefix,
                      first |-> first, last |-> Today,
                      owed |-> Owed(kind, prefix, first, Today)]
  /\ UNCHANGED <<now, made, other, process, rows, disk, events, sweep, mishaps>>

(* An error is answered as it comes up. _dispatch(): a column that no       *)
(* schema has is refused before any file is looked for.                     *)
Refuse ==
  /\ query.pc = "asked" /\ query.kind \in {"range", "latest"}
  /\ query' = Idle
  /\ UNCHANGED <<now, made, other, process, rows, disk, events, sweep, mishaps>>

(* _glob_to_parquet_list(), in a thread of the executor: no file, no rows. *)
List ==
  /\ query.pc = "asked" /\ query.kind # "event_log"
  /\ query' = IF FilesNamed(query) = {} THEN Answer({})
              ELSE [pc |-> "listed", files |-> FilesNamed(query), owed |-> query.owed]
  /\ UNCHANGED <<now, made, other, process, rows, disk, events, sweep, mishaps>>

(* read_parquet([...]): a file that has gone is an error. *)
Read ==
  /\ query.pc = "listed"
  /\ query' = IF query.files \subseteq DOMAIN disk THEN Answer(query.files) ELSE Idle
  /\ UNCHANGED <<now, made, other, process, rows, disk, events, sweep, mishaps>>

(* read_events() of each file that is there. *)
ReadEvents ==
  /\ query.pc = "asked" /\ query.kind = "event_log"
  /\ query' = IF CannotBeNamed(query) THEN Idle ELSE Answer(EventFiles(query))
  /\ UNCHANGED <<now, made, other, process, rows, disk, events, sweep, mishaps>>

(* wait_for() gives up, or the result has more rows than the limit. *)
GiveUp ==
  /\ LoopRuns /\ Serving
  /\ query' = Idle
  /\ UNCHANGED <<now, made, other, process, rows, disk, events, sweep, mishaps>>

Reply ==
  /\ LoopRuns /\ query.pc = "ok"
  /\ query' = Idle
  /\ UNCHANGED <<now, made, other, process, rows, disk, events, sweep, mishaps>>

-----------------------------------------------------------------------------
(* __main__.py, and the world.                                              *)

Ended(dir) ==
  /\ disk' = dir
  /\ up' = FALSE /\ current' = Closed /\ handle' = Nothing /\ unsynced' = FALSE
  /\ sweep' = NoSweep /\ query' = Idle
  /\ UNCHANGED <<now, made, other, recording, syncing>>

(* What the buffered file object had written through when the process died. *)
Lost(dir) ==
  \E n \in 0 .. Len(handle.tail), torn \in {<<>>, <<Torn>>} :
    /\ n = Len(handle.tail) => torn = <<>>
    /\ Ended(Flushed(dir, [handle EXCEPT !.tail = SubSeq(@, 1, n) \o torn]))

Crash == up /\ Mishap /\ Lost(disk) /\ UNCHANGED tmp

(* run(), after the signal: every file is closed; if the telemetry file     *)
(* fails to close, the events are not closed either.                        *)
Stop ==
  /\ LoopRuns /\ Mishap
  /\ \/ /\ Ended(Flushed(Finished(disk, current), handle))
        /\ tmp' = tmp \ {current.hour}
     \/ current # Closed /\ Lost(disk) /\ UNCHANGED tmp

(* startup_recovery(), and the tasks. *)
Start ==
  /\ ~up
  /\ up' = TRUE /\ recording' = TRUE /\ syncing' = TRUE /\ tmp' = {}
  /\ UNCHANGED <<now, made, other, current, disk, events, sweep, query, mishaps>>

Clock ==
  /\ now < MaxHours /\ now' = now + 1
  /\ UNCHANGED <<made, other, process, rows, disk, events, sweep, query, mishaps>>

(* Another program takes more of the disk. *)
Others ==
  /\ other < MaxOther /\ other' = other + 1
  /\ sweep' = [sweep EXCEPT !.calm = sweep = NoSweep]
  /\ UNCHANGED <<now, made, process, rows, disk, events, query, mishaps>>

LoggerNext ==
  \/ Row \/ RowFails
  \/ Event \/ EventFails \/ PeriodicSync \/ SyncFails
  \/ Cleanup \/ DeleteFails
  \/ Ask \/ Refuse \/ List \/ Read \/ ReadEvents \/ GiveUp \/ Reply
  \/ Crash \/ Stop \/ Start
  \/ Clock \/ Others

LoggerSpec == LoggerInit /\ [][LoggerNext]_loggerVars

(* The cleanup comes round as long as the process runs. *)
LoggerFairSpec == LoggerSpec /\ WF_loggerVars(Cleanup)

-----------------------------------------------------------------------------
(* The variables hold what the code can put in them: an open Parquet file   *)
(* has its .tmp file and a linked handle its event file, no more lines are  *)
(* buffered than were written since the last sync, whatever failed in the   *)
(* meantime, and a sweep has files left to delete that there are.           *)
LoggerTypeOK ==
  /\ now \in Hours /\ made \in 0 .. MaxRecords /\ other \in 0 .. MaxOther
  /\ up \in BOOLEAN /\ recording \in BOOLEAN /\ syncing \in BOOLEAN /\ unsynced \in BOOLEAN
  /\ current \in {Closed} \cup [hour : tmp, rows : Seq(1 .. made)]
  /\ tmp \subseteq Hours /\ mishaps \in 0 .. MaxMishaps
  /\ DOMAIN disk \subseteq ({"parquet"} \X Hours) \cup ({"jsonl"} \X Days)
  /\ \A file \in DOMAIN disk : disk[file] \in Seq(0 .. made)
  /\ handle \in [day : Days \cup {-1}, linked : BOOLEAN, tail : Seq(1 .. made), writes : 0 .. made]
  /\ handle.linked => Jsonl(handle.day) \in DOMAIN disk
  /\ Len(handle.tail) <= handle.writes
  /\ sweep \in [list : 0 .. 4, files : SUBSET DOMAIN disk,
                failed : SUBSET (({"parquet"} \X Hours) \cup ({"jsonl"} \X Days)),
                began : Days, calm : BOOLEAN]

(* Events that reached a JSONL file stay in it through rotations, failed    *)
(* syncs, restarts and later events; only the cleanup of a full disk takes  *)
(* a file away.                                                             *)
EventsAreKept ==
  [][\A file \in OfKind("jsonl", disk) :
       IF file \in DOMAIN disk' THEN IsPrefix(disk[file], disk'[file])
       ELSE Usage(disk) >= Threshold]_loggerVars

(* "JSONL is never deleted before Parquet at the same tier" (LOG-06), in a  *)
(* sweep during which no other program takes space: when an event file      *)
(* goes, the telemetry that had expired when the sweep began has gone, and  *)
(* if that file has not expired itself, all the telemetry, except for what  *)
(* the sweep could not delete. (Without the premise it is false: README.)   *)
EventsOutliveTelemetry ==
  [][sweep.calm =>
       \A file \in OfKind("jsonl", disk) \ DOMAIN disk',
          left \in OfKind("parquet", disk') \ sweep.failed :
         IsExpired(file, Today) /\ ~IsExpired(left, sweep.began)]_loggerVars

(* A disk over the threshold gets below it again, unless nothing is left    *)
(* that the logger could delete.                                            *)
PressureEnds ==
  (up /\ Usage(disk) >= Threshold)
    ~> (Usage(disk) < Threshold \/ disk = <<>> \/ ~up)

(* For days up to the 28th of one month, an answer has every record of      *)
(* these days that was in a file when the query was asked and still is when *)
(* it is read, whatever is finished, appended or deleted in between. Of the *)
(* files that the request's prefix matches, that is: the events, and the    *)
(* telemetry for a request that gives the writer's prefix (see README).     *)
QueriesAreWhole ==
  [][query'.pc = "ok" /\ query.pc # "ok" =>
       \A file \in DOMAIN query.owed \cap DOMAIN disk :
         Readable(query.owed[file]) \cap Readable(disk[file]) \subseteq query'.got]_loggerVars
=============================================================================
