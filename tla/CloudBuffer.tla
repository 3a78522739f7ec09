---------------------------- MODULE CloudBuffer ----------------------------
(***************************************************************************)
(* The way of telemetry and events from cloud_manager to the MQTT broker:  *)
(* loop.py collects and publishes, publisher.py holds the connection,      *)
(* buffered_loop.py writes to the offline buffer while it is down and      *)
(* replays the buffer afterwards, buffer.py keeps one file per hour.       *)
(*                                                                         *)
(* One event loop runs the tasks: a task is interrupted at its awaits      *)
(* only.  The connection and its flag change at any time, in the network   *)
(* thread of the client.  A record is a number, given when it is built.    *)
(***************************************************************************)
EXTENDS Integers, Sequences, FiniteSets, FiniteSetsExt, Functions

CONSTANTS
  Kinds,       (* Kinds[r]: what record r is, "telemetry" or "event".      *)
  MaxHours,    (* Bound: hours that pass; offline_buffer.max_hours is      *)
  MaxAge,      (* this one, and max_mb, in records, this one.              *)
  MaxSize,
  SyncEvery    (* _SYNC_EVERY: writes between two flushes to the disk.     *)

Records == DOMAIN Kinds
Hours   == 1 .. MaxHours

ASSUME CloudAssumption ==
  /\ Kinds \in Seq({"telemetry", "event"})
  /\ MaxHours \in Nat \ {0} /\ MaxAge \in Nat /\ MaxSize \in Nat
  /\ SyncEvery \in Nat \ {0}

VARIABLES
  buffered,  (* offline_buffer.enabled: which of the two loops runs.       *)
  made,      (* The records built so far.                                  *)
  snapshot,  (* _telemetry_snapshot is not empty.                          *)
  now,       (* The hour.                                                  *)
  files,     (* The buffer directory: hour -> records, as others read it.  *)
  handle,    (* The file open for writing: its hour (0 when there is       *)
             (* none), whether it is still in the directory, the records   *)
             (* not written through, and the writes since the last sync.   *)
  replay,    (* The replay task: where it is, the files and the records    *)
             (* still to come, and the records it read of this file.       *)
  link,      (* The connection is up.                                      *)
  connected, (* MqttPublisher._connected, which follows.                   *)
  outbox,    (* Events (QoS 1) the client keeps until it can send them.    *)
  sent,      (* History: records handed to the client.                     *)
  newest     (* History: the newest record that a replay sent first.       *)

source == <<buffered, made, snapshot>>
disk   == <<files, handle>>
client == <<link, connected, outbox>>
vars   == <<source, now, disk, replay, client, sent, newest>>

Closed == [hour |-> 0, linked |-> FALSE, tail |-> <<>>, writes |-> 0]
Waiting == [pc |-> "waiting", hours |-> {}, hour |-> 0, rest |-> <<>>, batch |-> {}]

Lines(dir) == UNION {{hour} \X DOMAIN dir[hour] : hour \in DOMAIN dir}
Size(dir)  == Cardinality(Lines(dir))
Without(dir, hours) == [hour \in DOMAIN dir \ hours |-> dir[hour]]
Older(dir, hour)    == {older \in DOMAIN dir : older < hour}
(* Slip: the newest file comes first. *)
NewestFirst(hours) == Max(hours)
(* _all_files_sorted(): the file that comes first. *)
Oldest(hours) == Min(hours)

Init ==
  /\ buffered \in BOOLEAN
  /\ made = 0 /\ snapshot = FALSE /\ now = 1
  /\ files = <<>> /\ handle = Closed /\ replay = Waiting
  /\ link = FALSE /\ connected = FALSE /\ outbox = {}
  /\ sent = {} /\ newest = 0

(* The other tasks run while the replay task sleeps. *)
Yielded == replay.pc \in {"waiting", "asleep"}

-----------------------------------------------------------------------------
(* BufferManager.                                                           *)

(* The file that a handle leaves behind when it is flushed. *)
Flushed(dir, h) ==
  IF h.linked /\ h.hour \in DOMAIN dir THEN [dir EXCEPT ![h.hour] = @ \o h.tail] ELSE dir

(* The age of a file counts from the start of its hour, and the fraction of *)
(* this hour counts too: at a difference of MaxAge it is older.             *)
Young(dir) == Without(dir, {hour \in DOMAIN dir : now - hour >= MaxAge})

(* Slip: only the age of a file counts. *)
RetainedByAge == Young(files)

(* _enforce_retention(): the files that are too old, then the oldest ones   *)
(* until the rest fits, the one that is open for writing not excepted: a    *)
(* file goes when those that remain once all before it went are too many.   *)
Fit(dir) ==
  Without(dir, {hour \in DOMAIN dir : Size(Without(dir, Older(dir, hour))) > MaxSize})
Retained == Fit(Young(files))

(* _rotate(): close the file of another hour, open or create this one's.    *)
Rotated(dir, h) ==
  IF h.hour = now
  THEN <<dir, h>>
  ELSE LET closed == Flushed(dir, h)
       IN  <<[hour \in DOMAIN closed \cup {now} |->
                IF hour \in DOMAIN closed THEN closed[hour] ELSE <<>>],
             [hour |-> now, linked |-> TRUE, tail |-> <<>>, writes |-> 0]>>

(* Slip: one write too late. *)
SyncDueLate(writes) == writes > SyncEvery

SyncDue(writes) == writes >= SyncEvery

(* write(): retention, rotation, the record, and a sync now and then.       *)
Buffer(record) ==
  LET kept   == Retained
      opened == Rotated(kept, [handle EXCEPT !.linked = @ /\ handle.hour \in DOMAIN kept])
      h      == [opened[2] EXCEPT !.tail = Append(@, record), !.writes = @ + 1]
  IN  IF SyncDue(h.writes)
      THEN /\ files' = Flushed(opened[1], h)
           /\ handle' = [h EXCEPT !.tail = <<>>, !.writes = 0]
      ELSE files' = opened[1] /\ handle' = h

(* The buffer of the file object is full and is written through. *)
Spill ==
  /\ handle.tail # <<>>
  /\ files' = Flushed(files, handle)
  /\ handle' = [handle EXCEPT !.tail = <<>>]
  /\ UNCHANGED <<source, now, replay, client, sent, newest>>

-----------------------------------------------------------------------------
(* MqttPublisher.                                                           *)

(* Telemetry (QoS 0) is lost on a dead connection, an event is kept. *)
Publish(record) ==
  /\ sent' = sent \cup {record}
  /\ outbox' = IF ~link /\ Kinds[record] = "event" THEN outbox \cup {record} ELSE outbox
  /\ UNCHANGED <<link, connected>>

Connect ==
  /\ ~link /\ ~connected
  /\ link' = TRUE /\ connected' = TRUE /\ outbox' = {}
  /\ UNCHANGED <<source, now, disk, replay, sent, newest>>

Drop ==
  /\ link /\ link' = FALSE
  /\ UNCHANGED <<source, now, disk, replay, connected, outbox, sent, newest>>

(* _on_disconnect(), when the client notices. *)
Notice ==
  /\ ~link /\ connected
  /\ connected' = FALSE
  /\ UNCHANGED <<source, now, disk, replay, link, outbox, sent, newest>>

-----------------------------------------------------------------------------
(* The tasks that make records.                                             *)

(* A record is built and goes to the client or to the buffer.               *)
Route(kind) ==
  /\ made < Len(Kinds) /\ Kinds[made + 1] = kind /\ made' = made + 1
  /\ IF connected
     THEN Publish(made') /\ UNCHANGED disk
     ELSE Buffer(made') /\ UNCHANGED <<client, sent>>

(* _zmq_telemetry_collector(): the latest value of each topic wins. *)
Collect ==
  /\ Yielded /\ ~snapshot
  /\ snapshot' = TRUE
  /\ UNCHANGED <<buffered, made, now, disk, replay, client, sent, newest>>

(* _periodic_publish(): the snapshot goes out.                              *)
PublishSnapshot ==
  /\ Yielded /\ snapshot
  /\ Route("telemetry") /\ snapshot' = FALSE
  /\ UNCHANGED <<buffered, now, replay, newest>>

(* BufferedCloudLoop: to the client or to the buffer. *)
PublishTelemetry == buffered /\ PublishSnapshot
ForwardEvent ==
  /\ buffered /\ Yielded /\ Route("event")
  /\ UNCHANGED <<buffered, snapshot, now, replay, newest>>

(* CloudLoop: without a connection the snapshot waits, and an event is gone. *)
PublishUnbuffered == ~buffered /\ connected /\ PublishSnapshot
ForwardUnbuffered ==
  /\ ~buffered
  /\ connected /\ Route("event")
  /\ UNCHANGED <<buffered, snapshot, now, replay, newest>>

-----------------------------------------------------------------------------
(* _buffer_replay_task().                                                   *)

(* Slip: the file being written is left open. *)
BeginUnflushed ==
  /\ buffered /\ replay.pc = "waiting" /\ connected
  /\ DOMAIN files # {} \/ handle # Closed
  /\ replay' = [Waiting EXCEPT !.pc = "files", !.hours = DOMAIN files]
  /\ UNCHANGED <<source, now, disk, client, sent, newest>>

(* Connected: flush and close the file being written, and list the files;   *)
(* without either a cycle changes nothing.                                  *)
Begin ==
  /\ buffered /\ replay.pc = "waiting" /\ connected
  /\ DOMAIN files # {} \/ handle # Closed
  /\ files' = Flushed(files, handle) /\ handle' = Closed
  /\ replay' = [Waiting EXCEPT !.pc = "files", !.hours = DOMAIN files]
  /\ UNCHANGED <<source, now, client, sent, newest>>

(* drain() takes the next file; it passes over one that is gone, and over   *)
(* this hour's while any file is open for writing.                          *)
Passes(hour) == hour \notin DOMAIN files \/ (handle.hour # 0 /\ hour = now)
NextFile ==
  /\ replay.pc = "files"
  /\ LET hour == Oldest(replay.hours)
         left == [replay EXCEPT !.hours = @ \ {hour}]
     IN  IF replay.hours # {} /\ Passes(hour) THEN replay' = left
         ELSE IF replay.hours = {} \/ ~connected THEN replay' = Waiting
         ELSE replay' = [left EXCEPT !.pc = "records", !.hour = hour,
                                     !.rest = files[hour], !.batch = Range(files[hour])]
  /\ UNCHANGED <<source, now, disk, client, sent, newest>>

(* Slip: a connection that is down ends the file instead of the cycle. *)
ResendGivesUp ==
  /\ replay.pc = "records" /\ replay.rest # <<>>
  /\ IF connected
     THEN /\ Publish(Head(replay.rest))
          /\ newest' = Max({newest, Head(replay.rest)})
          /\ replay' = [replay EXCEPT !.pc = "asleep", !.rest = Tail(@)]
     ELSE replay' = [replay EXCEPT !.rest = <<>>] /\ UNCHANGED <<client, sent, newest>>
  /\ UNCHANGED <<source, now, disk>>

(* One record, and a sleep; or the connection is seen to be down.  To       *)
(* publish what was read from JSON raises nothing.                          *)
Resend ==
  /\ replay.pc = "records" /\ replay.rest # <<>>
  /\ IF connected
     THEN /\ Publish(Head(replay.rest))
          /\ newest' = Max({newest, Head(replay.rest)})
          /\ replay' = [replay EXCEPT !.pc = "asleep", !.rest = Tail(@)]
     ELSE replay' = Waiting /\ UNCHANGED <<client, sent, newest>>
  /\ UNCHANGED <<source, now, disk>>

Wake ==
  /\ replay.pc = "asleep"
  /\ replay' = [replay EXCEPT !.pc = "records"]
  /\ UNCHANGED <<source, now, disk, client, sent, newest>>

(* All records that were read are published: the file is deleted.           *)
DeleteFile ==
  /\ replay.pc = "records" /\ replay.rest = <<>>
  /\ files' = Without(files, {replay.hour})
  /\ handle' = [handle EXCEPT !.linked = @ /\ handle.hour # replay.hour]
  /\ replay' = [replay EXCEPT !.pc = "files"]
  /\ UNCHANGED <<source, now, client, sent, newest>>

Replay == Begin \/ NextFile \/ Resend \/ Wake \/ DeleteFile

-----------------------------------------------------------------------------
Hour ==
  /\ now < MaxHours /\ now' = now + 1
  /\ UNCHANGED <<source, disk, replay, client, sent, newest>>

(* The process dies and starts again: what was not written through is lost. *)
Restart ==
  /\ snapshot' = FALSE /\ handle' = Closed /\ replay' = Waiting
  /\ link' = FALSE /\ connected' = FALSE /\ outbox' = {}
  /\ UNCHANGED <<buffered, made, now, files, sent, newest>>

Next ==
  \/ Collect
  \/ PublishTelemetry \/ ForwardEvent
  \/ PublishUnbuffered \/ ForwardUnbuffered
  \/ Connect \/ Drop \/ Notice
  \/ Replay \/ Spill \/ Hour \/ Restart

Spec == Init /\ [][Next]_vars

(* The replay task is a loop without an end, and the client reconnects.     *)
FairSpec == Spec /\ WF_vars(Replay) /\ WF_vars(Connect) /\ WF_vars(Notice)
-----------------------------------------------------------------------------
(* Properties.                                                              *)

(* Every variable stays in its domain, and a handle that is in the          *)
(* directory has its file there (buffer.py, buffered_loop.py).              *)
TypeOK ==
  /\ buffered \in BOOLEAN /\ made \in 0 .. Len(Kinds) /\ snapshot \in BOOLEAN
  /\ now \in Hours
  /\ DOMAIN files \subseteq Hours /\ \A hour \in DOMAIN files : files[hour] \in Seq(Records)
  /\ handle \in [hour : 0 .. MaxHours, linked : BOOLEAN, tail : Seq(Records),
                 writes : 0 .. (SyncEvery - 1)]
  /\ handle.linked => handle.hour \in DOMAIN files
  /\ replay \in [pc : {"waiting", "files", "records", "asleep"}, hours : SUBSET Hours,
                 hour : 0 .. MaxHours, rest : Seq(Records), batch : SUBSET Records]
  /\ link \in BOOLEAN /\ connected \in BOOLEAN /\ outbox \subseteq Records
  /\ sent \subseteq Records /\ newest \in 0 .. Len(Kinds)

(* A replay deletes a file only after it handed over every record that it   *)
(* read there, whatever the connection did meanwhile (buffered_loop.py      *)
(* _buffer_replay_task(), all_published).                                   *)
DeletesWhatItSent == [][DeleteFile => replay.batch \subseteq sent]_vars

(* A replay sends what it has not sent before in the order it was recorded, *)
(* over interruptions, restarts and new files (buffer.py drain()).          *)
ReplaysInOrder ==
  [][\A record \in sent' \ sent : replay.pc = "records" => record > newest]_vars

(* The buffer never holds more than its limit and what is flushed at once   *)
(* (buffer.py _enforce_retention()).                                        *)
BufferIsBounded == Size(files) <= MaxSize + SyncEvery

(* A connection that lasts empties the buffer, the file of this hour too    *)
(* (buffered_loop.py _buffer_replay_task(), buffer.py flush()).             *)
BacklogDrains == buffered /\ <>[]connected => <>[](files = <<>>)
=============================================================================
