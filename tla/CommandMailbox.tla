--------------------------- MODULE CommandMailbox ---------------------------
(***************************************************************************)
(* What the command slot of the system section promises the PCS: a mailbox *)
(* with room for one command.  A newer command replaces one that was not   *)
(* taken, a command in the hand of the carrier may be lost, and commands   *)
(* are delivered in the order of their posting.  None is taken twice,      *)
(* unless the carrier forgot that it took it.                              *)
(***************************************************************************)
EXTENDS Naturals

VARIABLES
  newest,    (* The number of commands posted, which names the last one.   *)
  fresh,     (* The last one may be taken.                                 *)
  carried,   (* The command in the hand of the carrier, or 0.              *)
  delivered  (* The last command delivered, or 0.                          *)

vars == <<newest, fresh, carried, delivered>>

Init == newest = 0 /\ fresh = FALSE /\ carried = 0 /\ delivered = 0

Post ==
  /\ newest' = newest + 1 /\ fresh' = TRUE
  /\ UNCHANGED <<carried, delivered>>

Take ==
  /\ newest > 0 /\ fresh /\ carried = 0
  /\ carried' = newest /\ fresh' = FALSE
  /\ UNCHANGED <<newest, delivered>>

Deliver ==
  /\ carried # 0 /\ carried >= delivered
  /\ delivered' = carried /\ carried' = 0
  /\ UNCHANGED <<newest, fresh>>

Lose ==
  /\ carried' = 0
  /\ UNCHANGED <<newest, fresh, delivered>>

(* The carrier forgets what it has taken, and may drop what it carries. *)
Forget ==
  /\ fresh' = TRUE
  /\ carried' \in {carried, 0}
  /\ UNCHANGED <<newest, delivered>>

Next == Post \/ Take \/ Deliver \/ Lose \/ Forget

Spec == Init /\ [][Next]_vars
=============================================================================
