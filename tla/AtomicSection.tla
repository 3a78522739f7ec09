--------------------------- MODULE AtomicSection ---------------------------
(***************************************************************************)
(* What an RTDB section promises its readers: it is written and read as    *)
(* one value. A read that was validated returned the value the section had *)
(* at that instant; a reader that may give up can return anything, marked  *)
(* as not validated.                                                       *)
(***************************************************************************)
EXTENDS Naturals

CONSTANTS
  Words,     (* The parts of a section that are stored one by one.         *)
  Readers,
  Spinning,  (* The readers that never give up.                            *)
  Versions   (* Naturals that number the writes; 0 is the blank section.   *)

VARIABLES
  value,     (* The section.                                               *)
  returned   (* What the last read of each reader returned.                *)

vars == <<value, returned>>

Contents == [Words -> Versions]
Whole(v) == [x \in Words |-> v]
Result(data, validated) == [data |-> data, validated |-> validated]

Init ==
  /\ value = Whole(0)
  /\ returned = [r \in Readers |-> Result(Whole(0), FALSE)]

(* Every write is newer than what it replaces. *)
Write ==
  /\ \E v \in Versions : /\ \A x \in Words : value[x] < v
                         /\ value' = Whole(v)
  /\ UNCHANGED returned

Read(r) ==
  /\ returned' = [returned EXCEPT ![r] = Result(value, TRUE)]
  /\ UNCHANGED value

GiveUp(r) ==
  /\ r \notin Spinning
  /\ \E data \in Contents : returned' = [returned EXCEPT ![r] = Result(data, FALSE)]
  /\ UNCHANGED value

Next == Write \/ \E r \in Readers : Read(r) \/ GiveUp(r)

Spec == Init /\ [][Next]_vars
=============================================================================
