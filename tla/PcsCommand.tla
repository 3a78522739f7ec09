---------------------------- MODULE PcsCommand ----------------------------
(***************************************************************************)
(* PcsLink between any control_manager and the PCS: every second it writes *)
(* some power and perhaps a command.  A command is named by its number, so *)
(* that the PCS can be seen to take each once and in their order.          *)
(*                                                                         *)
(* The names of the specification begin with Command, so that a module can *)
(* extend it together with Seqlock, the section that carries it.           *)
(***************************************************************************)
EXTENDS PcsLink

CONSTANTS
  MaxOrders,   (* Bound: writes of the section.                            *)
  MaxRestarts  (* Bound: restarts, of either process.                      *)

ASSUME CommandsAreNumbered ==
  NoCommand = 0 /\ Commands = 1 .. MaxOrders
ASSUME BoundsAreNat == MaxOrders \in Nat /\ MaxRestarts \in Nat

VARIABLES
  number,    (* The commands stored so far.                                *)
  fetched,   (* History: the last command that comm_manager fetched.       *)
  forgot,    (* History: since then it lost its counter, or met the store  *)
             (* of one that no odd lock.sequence hid from it.              *)
  writes,    (* Writes so far, for the bound.                              *)
  restarts   (* Restarts so far of control_manager and of comm_manager.    *)

history == <<number, fetched, forgot>>
bounds  == <<writes, restarts>>
commandVars == <<link, number, fetched, forgot, writes, restarts>>

(* A write of control_manager ended in the middle, once: from then on the   *)
(* counter is even while the section is written and odd while it rests.     *)
Inverted == odd = (control = "idle")

(* Variables stay in their domains, and registers hold 16 bits              *)
(* (rtdb.h ems_system_t, pcs_device.py).                                    *)
CommandTypeOK ==
  /\ section \in [power : Powers, command : 0 .. MaxOrders, seq : 0 .. MaxOrders]
  /\ odd \in BOOLEAN
  /\ control \in {"idle", "begun", "powered", "commanded", "counted"}
  /\ issued_seq \in 0 .. MaxOrders
  /\ comm \in {"sleep", "power", "command", "sending"}
  /\ raw \in 0 .. Word - 1 /\ cmd \in 0 .. MaxOrders /\ last_seq \in 0 .. MaxOrders
  /\ bus \in {"up", "down"}
  /\ registers \in [power : 0 .. Word - 1, command : 0 .. MaxOrders]
  /\ number \in 0 .. MaxOrders /\ fetched \in 0 .. MaxOrders /\ forgot \in BOOLEAN
  /\ writes \in 0 .. MaxOrders
  /\ restarts \in [{"control", "comm"} -> 0 .. MaxRestarts]

CommandInit ==
  /\ LinkInit
  /\ number = 0 /\ fetched = 0 /\ forgot = FALSE
  /\ writes = 0 /\ restarts = [process \in {"control", "comm"} |-> 0]

-----------------------------------------------------------------------------
Begin ==
  /\ BeginWrite /\ writes < MaxOrders
  /\ writes' = writes + 1
  /\ UNCHANGED <<history, restarts>>

WritePower == (\E power \in Powers : StorePower(power)) /\ UNCHANGED <<history, bounds>>

WriteCommand ==
  /\ StoreCommand(number + 1)
  /\ number' = number + 1
  /\ UNCHANGED <<fetched, forgot, bounds>>

WriteSeq ==
  /\ StoreSeq
  /\ forgot' = (forgot \/ Inverted)
  /\ UNCHANGED <<number, fetched, bounds>>

End == EndWrite /\ UNCHANGED <<history, bounds>>

Control == Begin \/ WritePower \/ WriteCommand \/ WriteSeq \/ End

(* The steps of the cycle that neither take a command nor forget one. *)
Carry ==
  /\ FetchPower \/ SendPower \/ SkipCommand \/ SendCommand
  /\ UNCHANGED <<history, bounds>>

Ignore ==
  /\ IgnoreCommand
  /\ forgot' = TRUE
  /\ UNCHANGED <<number, fetched, bounds>>

Take ==
  /\ FetchCommand
  /\ fetched' = cmd' /\ forgot' = FALSE
  /\ UNCHANGED <<number, bounds>>

Comm == Carry \/ Ignore \/ Take

Restart(process) ==
  /\ restarts[process] < MaxRestarts
  /\ restarts' = [restarts EXCEPT ![process] = @ + 1]
  /\ \/ process = "control" /\ RestartControl /\ UNCHANGED <<history, writes>>
     \/ process = "comm" /\ RestartComm /\ forgot' = TRUE
        /\ UNCHANGED <<number, fetched, writes>>

CommandNext ==
  \/ Control \/ Comm
  \/ Bus /\ UNCHANGED <<history, bounds>>
  \/ \E process \in {"control", "comm"} : Restart(process)

CommandSpec == CommandInit /\ [][CommandNext]_commandVars

(* A write that was begun is run on, in a loop that does not block, and     *)
(* comm_manager's cycle has no end: each await has a timeout.               *)
FinishOrder == Control /\ control # "idle"
CommandFairSpec == CommandSpec /\ WF_commandVars(FinishOrder) /\ WF_commandVars(Comm)
-----------------------------------------------------------------------------
(* Properties.                                                              *)

(* The PCS never takes an older command after a newer one, nor one that     *)
(* control_manager has not finished storing: neither a failed write, nor a  *)
(* restart, nor a counter that starts again brings an older command back    *)
(* (pcs_device.py process_command()).                                       *)
CommandsComeInOrder ==
  [][registers'.command # registers.command
       => registers.command < registers'.command /\ registers'.command = fetched]_commandVars

(* The section is a mailbox: commands are taken at most once, in order,     *)
(* whatever is lost, unless comm_manager lost its counter                   *)
(* (pcs_device.py process_command(), "Deduplication").                      *)
Mailbox == INSTANCE CommandMailbox
             WITH newest <- number, fresh <- number > 0 /\ (fetched # number \/ forgot),
                  carried <- cmd, delivered <- registers.command
ImplementsMailbox == Mailbox!Spec

(* On a line that works, and with no restart of control_manager, no command *)
(* is lost that is not replaced by a newer one: not by a restart of         *)
(* comm_manager between fetching and sending, nor by a blank copy           *)
(* (pcs_device.py process_command()).                                       *)
CommandsArrive ==
  [](bus = "up" /\ restarts["control"] = 0)
    => \A n \in Commands : number = n ~> registers.command >= n

(* Once the line works and the section is at rest, the PCS comes to hold    *)
(* its power with the right sign, unless the counter was left odd           *)
(* (pcs_device.py write_setpoint()).                                        *)
PowerArrives ==
  <>[](bus = "up" /\ ~odd) => <>[](Signed(registers.power) = section.power)

(* What control_manager orders reaches the PCS, commands and powers.        *)
OrdersArrive == CommandsArrive /\ PowerArrives
=============================================================================
