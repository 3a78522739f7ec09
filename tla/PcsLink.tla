------------------------------ MODULE PcsLink ------------------------------
(***************************************************************************)
(* The way of a power and of a command from control_manager to the PCS     *)
(* inverter: control_manager stores them in the system section of the RTDB *)
(* (loop.py _tick step 10), comm_manager fetches them there on every cycle *)
(* of its polling loop (orchestrator.py) and writes them to the Modbus     *)
(* registers of the PCS (pcs_device.py write_setpoint, process_command).   *)
(*                                                                         *)
(* The section holds one command, with a counter that tells comm_manager   *)
(* whether it has seen it.  Both processes may die between any two steps,  *)
(* a Modbus write may fail, and a reader of the section that exhausts its  *)
(* retries gets a blank copy.  A copy is taken in one step; module Seqlock *)
(* shows why a copy that is torn by a living writer is not used.           *)
(***************************************************************************)
EXTENDS Integers

CONSTANTS
  Commands,  (* What pcs_command may hold after the first command.         *)
  NoCommand, (* PCS_CMD_NONE, what it holds before.                        *)
  Powers     (* active_setpoint_kw, in units of 0.1 kW.                    *)

ASSUME LinkAssumption == NoCommand \notin Commands /\ 0 \in Powers

(* 3276.7 kW is the most that the register can hold; nothing in the code    *)
(* rejects more.                                                            *)
ASSUME PowersFitTheRegister ==
  \A power \in Powers : power \in Int /\ -32768 <= power /\ power <= 32767

VARIABLES
  section,    (* The system section: active_setpoint_kw, pcs_command,      *)
              (* pcs_command_seq.                                          *)
  odd,        (* Its lock.sequence is odd.                                 *)
  control,    (* Where control_manager is in its write of the section.     *)
  issued_seq, (* control_manager: _pcs_command_seq.                        *)
  comm,       (* Where comm_manager is in its cycle.                       *)
  raw,        (* comm_manager: the register value it is sending.           *)
  cmd,        (* comm_manager: the command it is sending.                  *)
  last_seq,   (* comm_manager: _last_cmd_seq.                              *)
  bus,        (* The serial line: "up", or "down" while writes fail.       *)
  registers   (* The PCS: register 0x500E, and the last command it took.   *)

issuer == <<control, issued_seq>>
link   == <<section, odd, control, issued_seq, comm, raw, cmd, last_seq, bus, registers>>

Word == 65536

(* Slip: a negative power is clamped before it is made unsigned. *)
EncodeClampedFirst(power) ==
  IF power < 0 THEN 0 ELSE IF power > Word - 1 THEN Word - 1 ELSE power

(* write_setpoint(): two's complement, then a clamp to 16 bits. *)
Encode(power) ==
  LET word == IF power < 0 THEN power + Word ELSE power
  IN  IF word < 0 THEN 0 ELSE IF word > Word - 1 THEN Word - 1 ELSE word

(* The PCS reads the register as a signed 16-bit number. *)
Signed(word) == IF word >= Word \div 2 THEN word - Word ELSE word

Blank == [power |-> 0, command |-> NoCommand, seq |-> 0]

(* _seqlock_read_section(): an odd counter exhausts the retries, and the    *)
(* reader goes on with its zero-filled copy.                                *)
Copy == IF odd THEN Blank ELSE section

LinkInit ==
  /\ section = Blank /\ odd = FALSE
  /\ control = "idle" /\ issued_seq = 0
  /\ comm = "sleep" /\ raw = 0 /\ cmd = NoCommand /\ last_seq = 0
  /\ bus = "up"
  /\ registers = [power |-> 0, command |-> NoCommand]

-----------------------------------------------------------------------------
(* control_manager: one store after the other.                              *)

BeginWrite ==
  /\ control = "idle" /\ control' = "begun"
  /\ odd' = ~odd
  /\ UNCHANGED <<section, issued_seq, comm, raw, cmd, last_seq, bus, registers>>

StorePower(power) ==
  /\ control = "begun" /\ control' = "powered"
  /\ section' = [section EXCEPT !.power = power]
  /\ UNCHANGED <<odd, issued_seq, comm, raw, cmd, last_seq, bus, registers>>

(* pcs_command_changed: the command, and then its counter. *)
StoreCommand(command) ==
  /\ control = "powered" /\ control' = "commanded"
  /\ issued_seq' = issued_seq + 1
  /\ section' = [section EXCEPT !.command = command]
  /\ UNCHANGED <<odd, comm, raw, cmd, last_seq, bus, registers>>

StoreSeq ==
  /\ control = "commanded" /\ control' = "counted"
  /\ section' = [section EXCEPT !.seq = issued_seq]
  /\ UNCHANGED <<odd, issued_seq, comm, raw, cmd, last_seq, bus, registers>>

(* With a command, or without. *)
EndWrite ==
  /\ control \in {"powered", "counted"} /\ control' = "idle"
  /\ odd' = ~odd
  /\ UNCHANGED <<section, issued_seq, comm, raw, cmd, last_seq, bus, registers>>

(* The process dies and starts again.  The section stays as it is, and so   *)
(* does the parity of a write that was under way.                           *)
RestartControl ==
  /\ control' = "idle" /\ issued_seq' = 0
  /\ UNCHANGED <<section, odd, comm, raw, cmd, last_seq, bus, registers>>

-----------------------------------------------------------------------------
(* comm_manager: each await is the end of a step.                           *)

FetchPower ==
  /\ comm = "sleep" /\ comm' = "power"
  /\ raw' = Encode(Copy.power)
  /\ UNCHANGED <<section, odd, issuer, cmd, last_seq, bus, registers>>

(* A failure is logged and forgotten. *)
SendPower ==
  /\ comm = "power" /\ comm' = "command"
  /\ registers' = IF bus = "up" THEN [registers EXCEPT !.power = raw] ELSE registers
  /\ raw' = 0
  /\ UNCHANGED <<section, odd, issuer, cmd, last_seq, bus>>

(* The counter is the one of the last command fetched. *)
SkipCommand ==
  /\ comm = "command" /\ comm' = "sleep"
  /\ Copy.seq = last_seq
  /\ UNCHANGED <<section, odd, issuer, raw, cmd, last_seq, bus, registers>>

(* The counter moved, and there is no command to execute: a blank copy. *)
IgnoreCommand ==
  /\ comm = "command" /\ comm' = "sleep"
  /\ Copy.seq # last_seq /\ Copy.command \notin Commands
  /\ last_seq' = Copy.seq
  /\ UNCHANGED <<section, odd, issuer, raw, cmd, bus, registers>>

(* Slip: the counter is not remembered. *)
FetchCommandUncounted ==
  /\ comm = "command" /\ comm' = "sending"
  /\ Copy.seq # last_seq /\ Copy.command \in Commands
  /\ cmd' = Copy.command
  /\ UNCHANGED <<section, odd, issuer, raw, last_seq, bus, registers>>

(* The counter is remembered before the command is sent. *)
FetchCommand ==
  /\ comm = "command" /\ comm' = "sending"
  /\ Copy.seq # last_seq /\ Copy.command \in Commands
  /\ last_seq' = Copy.seq
  /\ cmd' = Copy.command
  /\ UNCHANGED <<section, odd, issuer, raw, bus, registers>>

(* A failure ends the cycle; the command is not sent again. *)
SendCommand ==
  /\ comm = "sending" /\ comm' = "sleep"
  /\ registers' = IF bus = "up" THEN [registers EXCEPT !.command = cmd] ELSE registers
  /\ cmd' = NoCommand
  /\ UNCHANGED <<section, odd, issuer, raw, last_seq, bus>>

RestartComm ==
  /\ comm' = "sleep" /\ raw' = 0 /\ cmd' = NoCommand /\ last_seq' = 0
  /\ UNCHANGED <<section, odd, issuer, bus, registers>>

Bus ==
  /\ bus' = IF bus = "up" THEN "down" ELSE "up"
  /\ UNCHANGED <<section, odd, issuer, comm, raw, cmd, last_seq, registers>>
=============================================================================
