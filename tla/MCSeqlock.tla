----------------------------- MODULE MCSeqlock -----------------------------
(* Instances of Seqlock for TLC.                                            *)
EXTENDS Seqlock

CONSTANTS w1, py, c

(* The write of control_manager stores the whole system section. *)
WholeSection == [w \in Writers |-> Words]
=============================================================================
