------------------------------ MODULE Seqlock ------------------------------
(***************************************************************************)
(* One section of the RTDB shared memory and its seqlock (seqlock.h), as   *)
(* the writers and readers of the EMS use it, one load or store at a time. *)
(*                                                                         *)
(* The sequence counter is incremented by a load and a store, in C         *)
(* (ems_seqlock_write_begin and _end) and in Python (sequence += 1) alike. *)
(* The Python readers retry at most MaxRetries times and then return what  *)
(* they have; the C readers spin. Loads and stores are sequentially        *)
(* consistent, and the 32-bit counter does not wrap within one read.       *)
(***************************************************************************)
EXTENDS Naturals

CONSTANTS
  Words,       (* The parts of a section that are stored one by one.       *)
  Writers,
  Owns,        (* The words that a write of each writer stores.            *)
  Readers,
  Spinning,    (* The readers in C.                                        *)
  MaxRetries,  (* _SEQLOCK_MAX_RETRIES.                                    *)
  MaxWrites,   (* Bound: writes, over all writers.                         *)
  MaxCrashes   (* Bound: writer processes that die.                        *)

ASSUME SeqlockAssumption ==
  /\ Owns \in [Writers -> SUBSET Words]
  /\ Spinning \subseteq Readers
  /\ MaxRetries \in Nat \ {0} /\ MaxWrites \in Nat /\ MaxCrashes \in Nat

VARIABLES
  sequence,  (* lock.sequence.                                             *)
  mem,       (* The words: the number of the write that stored each.       *)
  wpc,       (* Where each writer is.                                      *)
  wseq,      (* The sequence a writer loaded, to store its successor.      *)
  wleft,     (* The words a writer has still to store.                     *)
  wver,      (* The number of the write a writer is in.                    *)
  started,   (* Writes started so far.                                     *)
  stable,    (* History: mem when the last write ended.                    *)
  rpc,       (* Where each reader is.                                      *)
  seq1,      (* The sequence a reader loaded before it copied.             *)
  rleft,     (* The words a reader has still to copy.                      *)
  copy,      (* Its copy.                                                  *)
  tries,     (* The attempts a bounded reader has used up.                 *)
  result,    (* What its last read returned, and whether it was validated. *)
  crashes    (* Crashes so far, for the bound.                             *)

writer == <<wpc, wseq, wleft, wver, started, stable>>
reader == <<rpc, seq1, rleft, copy, tries, result>>
vars == <<sequence, mem, wpc, wseq, wleft, wver, started, stable,
          rpc, seq1, rleft, copy, tries, result, crashes>>

Whole(v) == [x \in Words |-> v]
Odd(n) == n % 2 = 1

-----------------------------------------------------------------------------
(* A segment starts zero-filled, and so does the copy of a Python reader.   *)
Init ==
  /\ sequence = 0 /\ mem = Whole(0)
  /\ wpc = [w \in Writers |-> "idle"]
  /\ wseq = [w \in Writers |-> 0]
  /\ wleft = [w \in Writers |-> {}]
  /\ wver = [w \in Writers |-> 0]
  /\ started = 0 /\ stable = Whole(0)
  /\ rpc = [r \in Readers |-> "idle"]
  /\ seq1 = [r \in Readers |-> 0]
  /\ rleft = [r \in Readers |-> {}]
  /\ copy = [r \in Readers |-> Whole(0)]
  /\ tries = [r \in Readers |-> 0]
  /\ result = [r \in Readers |-> [data |-> Whole(0), validated |-> FALSE]]
  /\ crashes = 0

-----------------------------------------------------------------------------
(* Writers.                                                                 *)

(* write_begin: load the sequence ... *)
BeginLoad(w) ==
  /\ wpc[w] = "idle" /\ started < MaxWrites
  /\ wpc' = [wpc EXCEPT ![w] = "begin"]
  /\ wseq' = [wseq EXCEPT ![w] = sequence]
  /\ started' = started + 1
  /\ wver' = [wver EXCEPT ![w] = started + 1]
  /\ UNCHANGED <<sequence, mem, wleft, stable, reader, crashes>>

(* ... and store its successor. *)
BeginStore(w) ==
  /\ wpc[w] = "begin"
  /\ wpc' = [wpc EXCEPT ![w] = "store"]
  /\ sequence' = wseq[w] + 1
  /\ wleft' = [wleft EXCEPT ![w] = Owns[w]]
  /\ UNCHANGED <<mem, wseq, wver, started, stable, reader, crashes>>

StoreWord(w) ==
  /\ wpc[w] = "store"
  /\ \E x \in wleft[w] : /\ mem' = [mem EXCEPT ![x] = wver[w]]
                         /\ wleft' = [wleft EXCEPT ![w] = @ \ {x}]
  /\ UNCHANGED <<sequence, wpc, wseq, wver, started, stable, reader, crashes>>

(* Slip: the write is ended while a word is still to be stored. *)
EndLoadEarly(w) ==
  /\ wpc[w] = "store"
  /\ wpc' = [wpc EXCEPT ![w] = "end"]
  /\ wseq' = [wseq EXCEPT ![w] = sequence]
  /\ UNCHANGED <<sequence, mem, wleft, wver, started, stable, reader, crashes>>

(* write_end: load the sequence ... *)
EndLoad(w) ==
  /\ wpc[w] = "store" /\ wleft[w] = {}
  /\ wpc' = [wpc EXCEPT ![w] = "end"]
  /\ wseq' = [wseq EXCEPT ![w] = sequence]
  /\ UNCHANGED <<sequence, mem, wleft, wver, started, stable, reader, crashes>>

(* ... and store its successor. *)
EndStore(w) ==
  /\ wpc[w] = "end"
  /\ wpc' = [wpc EXCEPT ![w] = "idle"]
  /\ sequence' = wseq[w] + 1
  /\ stable' = mem
  /\ UNCHANGED <<mem, wseq, wleft, wver, started, reader, crashes>>

(* The writer's process dies and is restarted. The counter stays as it is:  *)
(* only the owner of the segment initialises it, and only when it creates   *)
(* the segment.                                                             *)
CrashWriter(w) ==
  /\ wpc[w] # "idle" /\ crashes < MaxCrashes
  /\ crashes' = crashes + 1
  /\ wpc' = [wpc EXCEPT ![w] = "idle"]
  /\ wleft' = [wleft EXCEPT ![w] = {}]
  /\ UNCHANGED <<sequence, mem, wseq, wver, started, stable, reader>>

-----------------------------------------------------------------------------
(* Readers.                                                                 *)

StartRead(r) ==
  /\ rpc[r] = "idle"
  /\ rpc' = [rpc EXCEPT ![r] = "load"]
  /\ copy' = [copy EXCEPT ![r] = Whole(0)]
  /\ tries' = [tries EXCEPT ![r] = 0]
  /\ UNCHANGED <<sequence, mem, writer, seq1, rleft, result, crashes>>

(* read_begin: an even sequence opens an attempt. *)
LoadEven(r) ==
  /\ rpc[r] = "load" /\ ~Odd(sequence)
  /\ rpc' = [rpc EXCEPT ![r] = "copy"]
  /\ seq1' = [seq1 EXCEPT ![r] = sequence]
  /\ rleft' = [rleft EXCEPT ![r] = Words]
  /\ UNCHANGED <<sequence, mem, writer, copy, tries, result, crashes>>

(* Slip: the retries are not counted. *)
FailAttemptUncounted(r) ==
  /\ rpc' = [rpc EXCEPT ![r] = "load"]
  /\ UNCHANGED <<sequence, mem, writer, seq1, rleft, copy, tries, result, crashes>>

(* An attempt failed: a bounded reader may have used up its retries, and    *)
(* then returns whatever its copy holds; another one starts over.           *)
FailAttempt(r) ==
  /\ IF r \notin Spinning /\ tries[r] + 1 = MaxRetries
       THEN /\ rpc' = [rpc EXCEPT ![r] = "idle"]
            /\ tries' = [tries EXCEPT ![r] = 0]
            /\ result' = [result EXCEPT ![r] = [data |-> copy[r], validated |-> FALSE]]
       ELSE /\ rpc' = [rpc EXCEPT ![r] = "load"]
            /\ tries' = IF r \in Spinning THEN tries ELSE [tries EXCEPT ![r] = @ + 1]
            /\ UNCHANGED result
  /\ UNCHANGED <<sequence, mem, writer, seq1, rleft, copy, crashes>>

(* An odd sequence is a failed attempt; a C reader only looks again. *)
LoadOdd(r) ==
  /\ rpc[r] = "load" /\ Odd(sequence)
  /\ FailAttempt(r)

CopyWord(r) ==
  /\ rpc[r] = "copy"
  /\ \E x \in rleft[r] :
       /\ copy' = [copy EXCEPT ![r][x] = mem[x]]
       /\ rleft' = [rleft EXCEPT ![r] = @ \ {x}]
       /\ rpc' = IF rleft[r] = {x} THEN [rpc EXCEPT ![r] = "check"] ELSE rpc
  /\ UNCHANGED <<sequence, mem, writer, seq1, tries, result, crashes>>

(* read_retry: the copy is good if the sequence has not moved. *)
Validate(r) ==
  /\ rpc[r] = "check" /\ sequence = seq1[r]
  /\ rpc' = [rpc EXCEPT ![r] = "idle"]
  /\ tries' = [tries EXCEPT ![r] = 0]
  /\ result' = [result EXCEPT ![r] = [data |-> copy[r], validated |-> TRUE]]
  /\ UNCHANGED <<sequence, mem, writer, seq1, rleft, copy, crashes>>

Invalidate(r) ==
  /\ rpc[r] = "check" /\ sequence # seq1[r]
  /\ FailAttempt(r)

-----------------------------------------------------------------------------
Write(w) == BeginLoad(w) \/ BeginStore(w) \/ StoreWord(w) \/ EndLoad(w) \/ EndStore(w)
Attempt(r) == LoadEven(r) \/ LoadOdd(r) \/ CopyWord(r) \/ Validate(r) \/ Invalidate(r)

Next == \/ \E w \in Writers : Write(w) \/ CrashWriter(w)
        \/ \E r \in Readers : StartRead(r) \/ Attempt(r)

Spec == Init /\ [][Next]_vars

(* A started read and a started write are run on; nobody has to start one.  *)
FinishWrite(w) == BeginStore(w) \/ StoreWord(w) \/ EndLoad(w) \/ EndStore(w)
Fairness == /\ \A w \in Writers : WF_vars(FinishWrite(w))
            /\ \A r \in Readers : WF_vars(Attempt(r))
FairSpec == Spec /\ Fairness
-----------------------------------------------------------------------------
(* Properties.                                                              *)

Contents == [Words -> 0 .. MaxWrites]
Result == [data : Contents, validated : BOOLEAN]

(* Every variable stays in its type. *)
TypeOK ==
  /\ sequence \in Nat /\ mem \in Contents
  /\ wpc \in [Writers -> {"idle", "begin", "store", "end"}]
  /\ wseq \in [Writers -> Nat] /\ wleft \in [Writers -> SUBSET Words]
  /\ wver \in [Writers -> 0 .. MaxWrites] /\ started \in 0 .. MaxWrites
  /\ stable \in Contents
  /\ rpc \in [Readers -> {"idle", "load", "copy", "check"}]
  /\ seq1 \in [Readers -> Nat] /\ rleft \in [Readers -> SUBSET Words]
  /\ copy \in [Readers -> Contents]
  /\ tries \in [Readers -> 0 .. MaxRetries - 1]
  /\ result \in [Readers -> Result]
  /\ crashes \in 0 .. MaxCrashes

Writing(w) == wpc[w] \in {"store", "end"}

(* The counter is odd exactly while a writer is between begin and end: no   *)
(* reader starts to copy inside a write, and none is turned away outside.   *)
OddWhileWriting == Odd(sequence) <=> \E w \in Writers : Writing(w)

(* At the instant the counter is found unchanged the copy equals the        *)
(* section, although it was taken word by word at earlier instants.         *)
ValidatedIsCurrent ==
  \A r \in Readers : rpc[r] = "check" /\ sequence = seq1[r] => copy[r] = mem

(* The section is an atomic register, for as long as its one writer lives.  *)
Section == INSTANCE AtomicSection
             WITH value <- stable, returned <- result, Versions <- 0 .. MaxWrites
ImplementsAtomicSection == Section!Spec

(* Whatever else happens, the section is one up to the death of a writer    *)
(* inside its write.                                                        *)
AtomicUntilACrash ==
  /\ Section!Init
  /\ [][crashes' = 0 => Section!Next \/ UNCHANGED Section!vars]_vars

(* Every read that was started returns, in Python although a writer died    *)
(* and left the sequence odd, in C unless one did.  (Endless writes could   *)
(* hold up a reader in C for ever; here MaxWrites ends them.)               *)
ReadsReturn ==
  \A r \in Readers :
    rpc[r] # "idle" ~> rpc[r] = "idle" \/ (r \in Spinning /\ crashes > 0)
=============================================================================
