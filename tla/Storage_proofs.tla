--------------------------- MODULE Storage_proofs ---------------------------
(***************************************************************************)
(* Proofs about what the processes leave for each other, in the shared     *)
(* memory and in files: about Seqlock, how a section is written and read,  *)
(* about PcsLink and PcsCommand, what the system section carries to the    *)
(* PCS, and about Logger, what is kept on the SSD.                         *)
(*                                                                         *)
(* Seqlock, for any number of words, readers, retries and writes: types    *)
(* are correct whatever the writers do; that the section is an atomic      *)
(* register needs one writer that does not die inside a write.             *)
(* PcsCommand, for any powers that fit the register and any number of      *)
(* writes and of restarts.                                                 *)
(* Logger, for any calendar, retention, threshold and size of the disk,    *)
(* and any number of records, crashes, stops and failures.                 *)
(***************************************************************************)
EXTENDS Seqlock, PcsCommand, Logger, FiniteSetTheorems, TLAPS

-----------------------------------------------------------------------------
(* Seqlock.                                                                 *)

(* Types. *)
LEMMA InitType == Init => TypeOK
BY SeqlockAssumption DEF SeqlockAssumption, Init, TypeOK, Contents, Result, Whole

(* A retry that is not the last leaves the count in its range. *)
LEMMA NextTry ==
  ASSUME NEW r \in Readers, tries \in [Readers -> 0 .. MaxRetries - 1],
         tries[r] + 1 # MaxRetries
  PROVE  tries[r] + 1 \in 0 .. MaxRetries - 1
BY SeqlockAssumption

LEMMA StepType == TypeOK /\ [Next]_vars => TypeOK'
<1> SUFFICES ASSUME TypeOK, [Next]_vars PROVE TypeOK'
  OBVIOUS
<1> USE SeqlockAssumption DEF SeqlockAssumption, TypeOK, Contents
<1>1. ASSUME NEW w \in Writers, BeginLoad(w) PROVE TypeOK'
  BY <1>1 DEF BeginLoad, reader
<1>2. ASSUME NEW w \in Writers, BeginStore(w) PROVE TypeOK'
  BY <1>2 DEF BeginStore, reader
<1>3. ASSUME NEW w \in Writers, StoreWord(w) PROVE TypeOK'
  BY <1>3 DEF StoreWord, reader
<1>4. ASSUME NEW w \in Writers, EndLoad(w) PROVE TypeOK'
  BY <1>4 DEF EndLoad, reader
<1>5. ASSUME NEW w \in Writers, EndStore(w) PROVE TypeOK'
  BY <1>5 DEF EndStore, reader
<1>6. ASSUME NEW w \in Writers, CrashWriter(w) PROVE TypeOK'
  BY <1>6 DEF CrashWriter, reader
<1>7. ASSUME NEW r \in Readers, StartRead(r) PROVE TypeOK'
  BY <1>7 DEF StartRead, writer, Whole
<1>8. ASSUME NEW r \in Readers, LoadEven(r) PROVE TypeOK'
  BY <1>8 DEF LoadEven, writer
<1>9. ASSUME NEW r \in Readers, FailAttempt(r) PROVE TypeOK'
  <2>1. tries \in [Readers -> 0 .. MaxRetries - 1] /\ result \in [Readers -> Result]
    OBVIOUS
  <2>2. tries' \in [Readers -> 0 .. MaxRetries - 1]
    <3>1. CASE r \notin Spinning /\ tries[r] + 1 = MaxRetries
      <4>1. tries' = [tries EXCEPT ![r] = 0]
        BY <1>9, <3>1 DEF FailAttempt
      <4>2. 0 \in 0 .. MaxRetries - 1
        BY SeqlockAssumption
      <4> QED BY <2>1, <4>1, <4>2
    <3>2. CASE ~(r \notin Spinning /\ tries[r] + 1 = MaxRetries)
      <4>1. tries' = IF r \in Spinning THEN tries ELSE [tries EXCEPT ![r] = @ + 1]
        BY <1>9, <3>2 DEF FailAttempt
      <4>2. r \notin Spinning => tries[r] + 1 \in 0 .. MaxRetries - 1
        BY <2>1, <3>2, NextTry
      <4> QED BY <2>1, <4>1, <4>2
    <3> QED BY <3>1, <3>2
  <2>3. result' \in [Readers -> Result]
    <3>1. [data |-> copy[r], validated |-> FALSE] \in Result
      BY DEF Result
    <3> QED BY <1>9, <2>1, <3>1 DEF FailAttempt
  <2>4. rpc' \in [Readers -> {"idle", "load", "copy", "check"}]
    BY <1>9 DEF FailAttempt
  <2> QED BY <1>9, <2>2, <2>3, <2>4 DEF FailAttempt, writer
<1>10. ASSUME NEW r \in Readers, CopyWord(r) PROVE TypeOK'
  BY <1>10 DEF CopyWord, writer
<1>11. ASSUME NEW r \in Readers, Validate(r) PROVE TypeOK'
  BY <1>11 DEF Validate, writer, Result
<1>12. CASE UNCHANGED vars
  BY <1>12 DEF vars
<1> QED
  BY <1>1, <1>2, <1>3, <1>4, <1>5, <1>6, <1>7, <1>8, <1>9, <1>10, <1>11, <1>12
  DEF Next, Write, Attempt, LoadOdd, Invalidate

(* Every variable stays in its type, with any number of writers and crashes. *)
THEOREM TypeCorrect == Spec => []TypeOK
<1>1. Init => TypeOK
  BY InitType
<1>2. TypeOK /\ [Next]_vars => TypeOK'
  BY StepType
<1> QED BY <1>1, <1>2, PTL DEF Spec
-----------------------------------------------------------------------------
(* One writer that owns the section. *)
OneWriter ==
  /\ \A v, w \in Writers : v = w
  /\ Writers # {}
  /\ \A w \in Writers : Owns[w] = Words

(* The counter is odd inside a write, what the writer loaded from it is     *)
(* still there, and the section is the last write up to the words that the  *)
(* present one has stored.                                                  *)
WriterInv ==
  \A w \in Writers :
    /\ Odd(sequence) <=> Writing(w)
    /\ wpc[w] \in {"begin", "end"} => wseq[w] = sequence
    /\ wpc[w] \in {"idle", "begin"} => mem = stable
    /\ wver[w] <= started
    /\ wpc[w] # "idle" => \A x \in Words : stable[x] < wver[w]
    /\ \A x \in Words : stable[x] <= started
    /\ wpc[w] = "store" => \A x \in Words \ wleft[w] : mem[x] = wver[w]
    /\ wpc[w] = "end" => mem = Whole(wver[w])

(* What was copied under a counter that has not moved is what is there.     *)
ReaderInv ==
  \A r \in Readers :
    rpc[r] \in {"copy", "check"} =>
      /\ ~Odd(seq1[r]) /\ seq1[r] <= sequence
      /\ seq1[r] = sequence => \A x \in Words \ rleft[r] : copy[r][x] = mem[x]
      /\ rpc[r] = "check" => rleft[r] = {}

IInv == TypeOK /\ WriterInv /\ ReaderInv

LEMMA OddNext == \A n \in Nat : Odd(n + 1) <=> ~Odd(n)
BY DEF Odd

LEMMA InitInv == ASSUME Init PROVE IInv
<1>1. TypeOK
  BY InitType
<1>2. WriterInv
  BY SeqlockAssumption DEF Init, WriterInv, Writing, Odd, Whole
<1>3. ReaderInv
  BY DEF Init, ReaderInv
<1> QED BY <1>1, <1>2, <1>3 DEF IInv

(* A step of the writer: the counter grows only from what it is, and the    *)
(* words change only while it is odd.                                       *)
LEMMA WriteInv ==
  ASSUME OneWriter, IInv, NEW w \in Writers, Write(w), TypeOK'
  PROVE  WriterInv' /\ ReaderInv'
<1> USE DEF IInv
<1>0. \A v \in Writers : v = w
  BY DEF OneWriter
<1>t. /\ sequence \in Nat /\ mem \in Contents /\ stable \in Contents /\ started \in Nat
      /\ wpc \in [Writers -> {"idle", "begin", "store", "end"}]
      /\ wseq \in [Writers -> Nat] /\ wleft \in [Writers -> SUBSET Words]
      /\ wver \in [Writers -> 0 .. MaxWrites]
      /\ seq1 \in [Readers -> Nat] /\ mem' \in Contents
  BY DEF TypeOK
<1>w. /\ Odd(sequence) <=> Writing(w)
      /\ wpc[w] \in {"begin", "end"} => wseq[w] = sequence
      /\ wpc[w] \in {"idle", "begin"} => mem = stable
      /\ wver[w] <= started
      /\ wpc[w] # "idle" => \A x \in Words : stable[x] < wver[w]
      /\ \A x \in Words : stable[x] <= started
      /\ wpc[w] = "store" => \A x \in Words \ wleft[w] : mem[x] = wver[w]
      /\ wpc[w] = "end" => mem = Whole(wver[w])
  BY DEF WriterInv
<1>1. CASE BeginLoad(w)
  <2>1. WriterInv'
    BY <1>0, <1>t, <1>w, <1>1 DEF BeginLoad, WriterInv, Writing, Contents
  <2>2. ReaderInv'
    BY <1>1 DEF BeginLoad, ReaderInv, reader
  <2> QED BY <2>1, <2>2
<1>2. CASE BeginStore(w)
  <2>1. sequence' = sequence + 1
    BY <1>w, <1>2 DEF BeginStore
  <2>2. WriterInv'
    BY <1>0, <1>t, <1>w, <1>2, <2>1, OddNext DEF OneWriter, BeginStore, WriterInv, Writing
  <2>3. ReaderInv'
    BY <1>t, <1>2, <2>1 DEF BeginStore, ReaderInv, reader
  <2> QED BY <2>2, <2>3
<1>3. CASE StoreWord(w)
  <2>1. WriterInv'
    BY <1>0, <1>t, <1>w, <1>3 DEF StoreWord, WriterInv, Writing, Contents
  <2>2. Odd(sequence) /\ sequence' = sequence
    BY <1>w, <1>3 DEF StoreWord, Writing
  <2>3. ReaderInv'
    BY <1>3, <2>2 DEF StoreWord, ReaderInv, reader
  <2> QED BY <2>1, <2>3
<1>4. CASE EndLoad(w)
  <2>1. mem = Whole(wver[w])
    BY <1>t, <1>w, <1>4 DEF EndLoad, Whole, Contents
  <2>2. WriterInv'
    BY <1>0, <1>t, <1>w, <1>4, <2>1 DEF EndLoad, WriterInv, Writing, Whole
  <2>3. ReaderInv'
    BY <1>4 DEF EndLoad, ReaderInv, reader
  <2> QED BY <2>2, <2>3
<1>5. CASE EndStore(w)
  <2>1. sequence' = sequence + 1
    BY <1>w, <1>5 DEF EndStore
  <2>2. \A x \in Words : mem[x] <= started
    BY <1>t, <1>w, <1>5 DEF EndStore, Whole
  <2>3. WriterInv'
    BY <1>0, <1>t, <1>w, <1>5, <2>1, <2>2, OddNext DEF EndStore, WriterInv, Writing
  <2>4. ReaderInv'
    BY <1>t, <1>5, <2>1 DEF EndStore, ReaderInv, reader
  <2> QED BY <2>3, <2>4
<1> QED BY <1>1, <1>2, <1>3, <1>4, <1>5 DEF Write

(* A step of a reader changes nothing the writer looks at. *)
LEMMA ReadInv ==
  ASSUME IInv, NEW r \in Readers, StartRead(r) \/ Attempt(r), TypeOK'
  PROVE  WriterInv' /\ ReaderInv'
<1> USE DEF IInv
<1>t. /\ sequence \in Nat /\ mem \in Contents
      /\ rpc \in [Readers -> {"idle", "load", "copy", "check"}]
      /\ seq1 \in [Readers -> Nat] /\ rleft \in [Readers -> SUBSET Words]
      /\ copy \in [Readers -> Contents]
  BY DEF TypeOK
<1>1. WriterInv'
  BY DEF StartRead, Attempt, LoadEven, LoadOdd, FailAttempt, CopyWord, Validate,
         Invalidate, writer, WriterInv, Writing
<1>2. CASE StartRead(r)
  BY <1>t, <1>1, <1>2 DEF StartRead, ReaderInv
<1>3. CASE LoadEven(r)
  BY <1>t, <1>1, <1>3 DEF LoadEven, ReaderInv
<1>4. CASE FailAttempt(r)
  BY <1>t, <1>1, <1>4 DEF FailAttempt, ReaderInv
<1>5. CASE CopyWord(r)
  <2>1. PICK x \in rleft[r] :
          /\ copy' = [copy EXCEPT ![r][x] = mem[x]]
          /\ rleft' = [rleft EXCEPT ![r] = @ \ {x}]
          /\ rpc' = IF rleft[r] = {x} THEN [rpc EXCEPT ![r] = "check"] ELSE rpc
    BY <1>5 DEF CopyWord
  <2>2. /\ rpc[r] = "copy" /\ x \in Words
        /\ UNCHANGED <<sequence, mem, seq1>>
    BY <1>t, <1>5 DEF CopyWord
  <2> QED BY <1>t, <1>1, <2>1, <2>2 DEF ReaderInv, Contents
<1>6. CASE Validate(r)
  BY <1>t, <1>1, <1>6 DEF Validate, ReaderInv
<1> QED BY <1>2, <1>3, <1>4, <1>5, <1>6 DEF Attempt, LoadOdd, Invalidate

LEMMA StepInv == ASSUME OneWriter, IInv, [Next]_vars, crashes' = 0 PROVE IInv'
<1>1. TypeOK'
  BY StepType DEF IInv
<1>2. ASSUME NEW w \in Writers, Write(w) PROVE IInv'
  BY <1>1, <1>2, WriteInv DEF IInv
<1>3. ASSUME NEW w \in Writers, CrashWriter(w) PROVE FALSE
  BY <1>3 DEF CrashWriter, IInv, TypeOK
<1>4. ASSUME NEW r \in Readers, StartRead(r) \/ Attempt(r) PROVE IInv'
  BY <1>1, <1>4, ReadInv DEF IInv
<1>5. CASE UNCHANGED vars
  BY <1>5 DEF vars, IInv, TypeOK, WriterInv, ReaderInv, Writing
<1> QED BY <1>2, <1>3, <1>4, <1>5 DEF Next

(* A crash is remembered: while there has been none the invariant holds.    *)
LiveInv == TypeOK /\ (crashes = 0 => IInv)

LEMMA NoCrashBefore == ASSUME TypeOK, [Next]_vars, crashes' = 0 PROVE crashes = 0
BY DEF TypeOK, Next, vars, Write, BeginLoad, BeginStore, StoreWord, EndLoad, EndStore,
       CrashWriter, StartRead, Attempt, LoadEven, LoadOdd, FailAttempt, CopyWord,
       Validate, Invalidate

LEMMA Invariant == ASSUME OneWriter PROVE Spec => []LiveInv
<1>1. Init => LiveInv
  BY InitInv DEF LiveInv, IInv
<1>2. LiveInv /\ [Next]_vars => LiveInv'
  BY StepType, StepInv, NoCrashBefore DEF LiveInv
<1> QED BY <1>1, <1>2, PTL DEF Spec

(* No reader starts inside a write, and none is turned away outside one. *)
THEOREM CounterTracksWriter ==
  ASSUME OneWriter PROVE Spec => [](crashes = 0 => OddWhileWriting)
<1>1. LiveInv => (crashes = 0 => OddWhileWriting)
  BY DEF LiveInv, IInv, WriterInv, OddWhileWriting, OneWriter
<1> QED BY <1>1, Invariant, PTL

(* A copy whose counter has not moved equals the section. *)
LEMMA CopyIsCurrent == ASSUME IInv PROVE ValidatedIsCurrent
<1> SUFFICES ASSUME NEW r \in Readers, rpc[r] = "check", sequence = seq1[r]
             PROVE  copy[r] = mem
  BY DEF ValidatedIsCurrent
<1>1. copy[r] \in Contents /\ mem \in Contents
  BY DEF IInv, TypeOK
<1>2. \A x \in Words : copy[r][x] = mem[x]
  BY DEF IInv, ReaderInv
<1> QED BY <1>1, <1>2 DEF Contents

(* A validated read returns the section as it is at that instant. *)
THEOREM ReadsAreCurrent ==
  ASSUME OneWriter PROVE Spec => [](crashes = 0 => ValidatedIsCurrent)
<1>1. LiveInv => (crashes = 0 => ValidatedIsCurrent)
  BY CopyIsCurrent DEF LiveInv
<1> QED BY <1>1, Invariant, PTL
-----------------------------------------------------------------------------
(* Refinement: the end of a write is the abstract write, a validation the   *)
(* abstract read, and the last failed attempt the abstract surrender.       *)

LEMMA InitRefines == ASSUME Init PROVE Section!Init
BY DEF Init, Section!Init, Section!Whole, Section!Result, Whole

LEMMA WriteRefines ==
  ASSUME OneWriter, IInv, NEW w \in Writers, Write(w)
  PROVE  [Section!Next]_(Section!vars)
<1>1. UNCHANGED result
  BY DEF Write, BeginLoad, BeginStore, StoreWord, EndLoad, EndStore, reader
<1>2. CASE EndStore(w)
  <2>1. /\ stable' = mem /\ mem = Whole(wver[w])
        /\ \A x \in Words : stable[x] < wver[w]
        /\ wver[w] \in 0 .. MaxWrites
    BY <1>2 DEF EndStore, IInv, WriterInv, TypeOK
  <2>2. Section!Write
    BY <1>1, <2>1 DEF Section!Write, Section!Whole, Whole
  <2> QED BY <2>2 DEF Section!Next
<1>3. CASE ~EndStore(w)
  <2>1. UNCHANGED stable
    BY <1>3 DEF Write, BeginLoad, BeginStore, StoreWord, EndLoad
  <2> QED BY <1>1, <2>1 DEF Section!vars
<1> QED BY <1>2, <1>3

LEMMA ReadRefines ==
  ASSUME OneWriter, IInv, NEW r \in Readers, StartRead(r) \/ Attempt(r)
  PROVE  [Section!Next]_(Section!vars)
<1>1. UNCHANGED stable
  BY DEF StartRead, Attempt, LoadEven, LoadOdd, FailAttempt, CopyWord, Validate,
         Invalidate, writer
<1>2. CASE Validate(r)
  <2>1. copy[r] = mem
    BY <1>2, CopyIsCurrent DEF Validate, ValidatedIsCurrent
  <2>2. ~Odd(sequence)
    BY <1>2 DEF Validate, IInv, ReaderInv
  <2>3. PICK w \in Writers : wpc[w] \in {"idle", "begin"}
    BY <2>2 DEF OneWriter, IInv, WriterInv, Writing, TypeOK
  <2>4. mem = stable
    BY <2>3 DEF IInv, WriterInv
  <2>5. Section!Read(r)
    BY <1>1, <1>2, <2>1, <2>4 DEF Validate, Section!Read, Section!Result
  <2> QED BY <2>5 DEF Section!Next
<1>3. CASE FailAttempt(r) /\ r \notin Spinning /\ tries[r] + 1 = MaxRetries
  <2>1. copy[r] \in Contents
    BY DEF IInv, TypeOK
  <2>2. Section!GiveUp(r)
    BY <1>1, <1>3, <2>1 DEF FailAttempt, Section!GiveUp, Section!Contents,
       Section!Result, Contents
  <2> QED BY <2>2 DEF Section!Next
<1>4. CASE /\ ~Validate(r)
           /\ ~(FailAttempt(r) /\ r \notin Spinning /\ tries[r] + 1 = MaxRetries)
  <2>1. UNCHANGED result
    BY <1>4 DEF StartRead, Attempt, LoadEven, LoadOdd, FailAttempt, CopyWord, Invalidate
  <2> QED BY <1>1, <2>1 DEF Section!vars
<1> QED BY <1>2, <1>3, <1>4

LEMMA StepRefines ==
  ASSUME OneWriter, IInv, [Next]_vars, crashes' = 0
  PROVE  Section!Next \/ UNCHANGED Section!vars
<1>1. ASSUME NEW w \in Writers, CrashWriter(w) PROVE FALSE
  BY <1>1 DEF CrashWriter, IInv, TypeOK
<1>2. CASE UNCHANGED vars
  BY <1>2 DEF vars, Section!vars
<1> QED BY <1>1, <1>2, WriteRefines, ReadRefines DEF Next

(* With one writer a section is an atomic register to its readers, until    *)
(* that writer dies inside a write.                                         *)
THEOREM SeqlockIsAtomic == ASSUME OneWriter PROVE Spec => AtomicUntilACrash
<1>1. Init => Section!Init
  BY InitRefines
<1>2. LiveInv /\ [Next]_vars
        => [crashes' = 0 => Section!Next \/ UNCHANGED Section!vars]_vars
  BY StepRefines, NoCrashBefore DEF LiveInv
<1> QED BY <1>1, <1>2, Invariant, PTL DEF Spec, AtomicUntilACrash

(* With writers that do not die it implements the register without a        *)
(* condition.                                                               *)
THEOREM SeqlockRefines ==
  ASSUME OneWriter, MaxCrashes = 0 PROVE Spec => ImplementsAtomicSection
<1>1. Init => Section!Init
  BY InitRefines
<1>2. LiveInv /\ LiveInv' /\ [Next]_vars => [Section!Next]_(Section!vars)
  <2>1. LiveInv /\ LiveInv' => crashes = 0 /\ crashes' = 0
    BY DEF LiveInv, TypeOK
  <2> QED BY <2>1, StepRefines DEF LiveInv
<1> QED BY <1>1, <1>2, Invariant, PTL DEF Spec, Section!Spec, ImplementsAtomicSection

-----------------------------------------------------------------------------
(* PcsLink and PcsCommand.                                                  *)

(* The width of the register, for the steps that need not know it. *)
LEMMA WordIsPositive == Word \in Nat /\ Word > 0
BY DEF Word

(* A power that fits comes out of the register as it went in, with its      *)
(* sign, and the register holds 16 bits (pcs_device.py write_setpoint()).   *)
THEOREM PowerSurvivesEncoding ==
  ASSUME NEW power \in Int, -32768 <= power, power <= 32767
  PROVE  Encode(power) \in 0 .. Word - 1 /\ Signed(Encode(power)) = power
<1>1. Encode(power) = IF power < 0 THEN power + Word ELSE power
  BY DEF Encode, Word
<1>2. Signed(Encode(power)) = power
  BY <1>1 DEF Signed, Word
<1>3. Encode(power) \in Int /\ 0 <= Encode(power) /\ Encode(power) <= Word - 1
  BY <1>1 DEF Word
<1> QED BY <1>2, <1>3, WordIsPositive

LEMMA EncodingFits ==
  ASSUME NEW power \in Powers PROVE Encode(power) \in 0 .. Word - 1
BY PowersFitTheRegister, PowerSurvivesEncoding

-----------------------------------------------------------------------------
(* The inductive invariant.                                                 *)

(* Commands are numbered as they are stored, and every one has its write.   *)
Numbered ==
  /\ section.command = number /\ number <= writes
  /\ control \in {"begun", "powered"} => number < writes
  /\ control = "commanded" => number > 0
  /\ issued_seq <= number

(* A command goes from the section to comm_manager and on to the PCS. *)
Ordered ==
  /\ registers.command <= fetched /\ fetched <= number
  /\ IF comm = "sending" THEN cmd = fetched /\ cmd > 0 ELSE cmd = 0

(* The last command that was fetched is known by its counter.  While a new  *)
(* counter is being stored behind an odd lock.sequence, its command has not *)
(* been fetched.                                                            *)
Remembered ==
  /\ fetched = number /\ ~forgot => last_seq = section.seq
  /\ control = "commanded" /\ odd => fetched < number

CommandInv == CommandTypeOK /\ Numbered /\ Ordered /\ Remembered

LEMMA CommandInitInv == CommandInit => CommandInv
<1> SUFFICES ASSUME CommandInit PROVE CommandInv
  OBVIOUS
<1>1. CommandTypeOK
  <2>1. section = [power |-> 0, command |-> 0, seq |-> 0] /\ registers = [power |-> 0, command |-> 0]
    BY CommandsAreNumbered DEF CommandInit, LinkInit, Blank
  <2>2. 0 \in 0 .. MaxOrders /\ 0 \in 0 .. Word - 1 /\ 0 \in 0 .. MaxRestarts
    BY BoundsAreNat, WordIsPositive
  <2>3. section \in [power : Powers, command : 0 .. MaxOrders, seq : 0 .. MaxOrders]
    BY <2>1, <2>2, LinkAssumption
  <2>4. registers \in [power : 0 .. Word - 1, command : 0 .. MaxOrders]
    BY <2>1, <2>2
  <2>5. restarts \in [{"control", "comm"} -> 0 .. MaxRestarts]
    BY <2>2 DEF CommandInit
  <2> QED BY <2>2, <2>3, <2>4, <2>5, CommandsAreNumbered DEF CommandInit, LinkInit, CommandTypeOK
<1> QED BY <1>1, CommandsAreNumbered
        DEF CommandInit, LinkInit, Blank, CommandInv, CommandTypeOK, Numbered, Ordered, Remembered

LEMMA ControlManagerInv == CommandInv /\ Control => CommandInv'
<1> SUFFICES ASSUME CommandInv, Control PROVE CommandInv'
  OBVIOUS
<1> USE BoundsAreNat, CommandsAreNumbered
    DEF CommandInv, CommandTypeOK, Numbered, Ordered, Remembered, history, bounds
<1>1. CASE Begin
  BY <1>1 DEF Begin, BeginWrite
<1>2. CASE WritePower
  BY <1>2 DEF WritePower, StorePower
<1>3. CASE WriteCommand
  <2>1. number + 1 \in 0 .. MaxOrders /\ issued_seq + 1 \in 0 .. MaxOrders
    BY <1>3 DEF WriteCommand, StoreCommand
  <2>2. CommandTypeOK'
    BY <1>3, <2>1 DEF WriteCommand, StoreCommand
  <2>3. (Numbered /\ Ordered /\ Remembered)'
    BY <1>3 DEF WriteCommand, StoreCommand
  <2> QED BY <2>2, <2>3
<1>4. CASE WriteSeq
  <2>1. CommandTypeOK'
    BY <1>4 DEF WriteSeq, StoreSeq
  <2>2. (Numbered /\ Ordered)'
    BY <1>4 DEF WriteSeq, StoreSeq
  <2>3. ~Inverted => odd
    BY <1>4 DEF WriteSeq, StoreSeq, Inverted
  <2>4. Inverted => forgot'
    <3> HIDE DEF CommandInv
    <3> QED BY <1>4 DEF WriteSeq
  <2>5. number' = number /\ fetched' = fetched /\ control' = "counted" /\ (odd => fetched < number)
    BY <1>4 DEF WriteSeq, StoreSeq
  <2>6. Remembered'
    BY <2>3, <2>4, <2>5
  <2> QED BY <2>1, <2>2, <2>6
<1>5. CASE End
  BY <1>5 DEF End, EndWrite
<1> QED BY <1>1, <1>2, <1>3, <1>4, <1>5 DEF Control

LEMMA CommManagerInv == CommandInv /\ Comm => CommandInv'
<1> SUFFICES ASSUME CommandInv, Comm PROVE CommandInv'
  OBVIOUS
<1> USE BoundsAreNat, CommandsAreNumbered, LinkAssumption
    DEF CommandInv, CommandTypeOK, Numbered, Ordered, Remembered, history, bounds, issuer, Copy, Blank
<1>1. CASE FetchPower /\ UNCHANGED <<history, bounds>>
  <2>1. Copy.power \in Powers
    <3>1. section.power \in Powers /\ Blank.power \in Powers
      OBVIOUS
    <3> QED BY <3>1
  <2>2. raw' = Encode(Copy.power)
    BY <1>1 DEF FetchPower
  <2>3. raw' \in 0 .. Word - 1
    BY <2>1, <2>2, EncodingFits
  <2> QED BY <1>1, <2>3 DEF FetchPower
<1>2. CASE SendPower /\ UNCHANGED <<history, bounds>>
  BY <1>2, WordIsPositive DEF SendPower
<1>3. CASE SkipCommand /\ UNCHANGED <<history, bounds>>
  BY <1>3 DEF SkipCommand
<1>4. CASE SendCommand /\ UNCHANGED <<history, bounds>>
  BY <1>4 DEF SendCommand
<1>5. CASE Ignore
  BY <1>5 DEF Ignore, IgnoreCommand
<1>6. CASE Take
  <2>1. ~odd /\ Copy = section
    BY <1>6 DEF Take, FetchCommand
  <2>2. CommandTypeOK'
    BY <1>6, <2>1 DEF Take, FetchCommand
  <2>3. (Numbered /\ Ordered /\ Remembered)'
    BY <1>6, <2>1 DEF Take, FetchCommand
  <2> QED BY <2>2, <2>3
<1> QED BY <1>1, <1>2, <1>3, <1>4, <1>5, <1>6 DEF Comm, Carry

LEMMA RestartInv ==
  ASSUME NEW actor \in {"control", "comm"}, CommandInv, Restart(actor)
  PROVE  CommandInv'
<1> USE BoundsAreNat, CommandsAreNumbered
    DEF CommandInv, CommandTypeOK, Numbered, Ordered, Remembered, history, issuer, Restart
<1>1. CASE actor = "control"
  BY <1>1 DEF RestartControl
<1>2. CASE actor = "comm"
  BY <1>2, WordIsPositive DEF RestartComm
<1> QED BY <1>1, <1>2

LEMMA CommandStepInv == CommandInv /\ [CommandNext]_commandVars => CommandInv'
<1> SUFFICES ASSUME CommandInv, [CommandNext]_commandVars PROVE CommandInv'
  OBVIOUS
<1>1. CASE Bus /\ UNCHANGED <<history, bounds>>
  BY <1>1 DEF Bus, CommandInv, CommandTypeOK, Numbered, Ordered, Remembered, history, bounds, issuer
<1>2. CASE UNCHANGED commandVars
  BY <1>2 DEF commandVars, link, CommandInv, CommandTypeOK, Numbered, Ordered, Remembered
<1> QED BY <1>1, <1>2, ControlManagerInv, CommManagerInv, RestartInv DEF CommandNext

LEMMA CommandInvariant == CommandSpec => []CommandInv
BY CommandInitInv, CommandStepInv, PTL DEF CommandSpec

(* Every variable stays in its type; the raw power always fits 16 bits      *)
(* (pcs_device.py, rtdb.h ems_system_t).                                    *)
THEOREM CommandTypeCorrect == CommandSpec => []CommandTypeOK
<1>1. CommandInv => CommandTypeOK
  BY DEF CommandInv
<1> QED BY <1>1, CommandInvariant, PTL

-----------------------------------------------------------------------------
(* Only SendCommand writes the command register.                            *)
LEMMA OnlySendCommands ==
  ASSUME CommandInv, [CommandNext]_commandVars, registers'.command # registers.command
  PROVE  SendCommand /\ bus = "up" /\ UNCHANGED <<history, bounds>>
<1> USE DEF CommandInv, CommandTypeOK
<1>1. ASSUME Control PROVE FALSE
  BY <1>1 DEF Control, Begin, BeginWrite, WritePower, StorePower, WriteCommand,
              StoreCommand, WriteSeq, StoreSeq, End, EndWrite
<1>2. ASSUME NEW actor \in {"control", "comm"}, Restart(actor) PROVE FALSE
  BY <1>2 DEF Restart, RestartControl, RestartComm
<1>3. ASSUME Bus \/ UNCHANGED commandVars PROVE FALSE
  BY <1>3 DEF Bus, commandVars, link
<1>4. ASSUME Ignore \/ Take PROVE FALSE
  BY <1>4 DEF Ignore, IgnoreCommand, Take, FetchCommand
<1>5. ASSUME FetchPower \/ SendPower \/ SkipCommand PROVE FALSE
  BY <1>5 DEF FetchPower, SendPower, SkipCommand
<1>6. SendCommand /\ UNCHANGED <<history, bounds>>
  BY <1>1, <1>2, <1>3, <1>4, <1>5 DEF CommandNext, Comm, Carry
<1> QED BY <1>6 DEF SendCommand

(* The PCS takes the commands in the order of their storing, through lost   *)
(* writes, blank copies, restarts and counters that start again             *)
(* (pcs_device.py process_command()).                                       *)
THEOREM CommandsAreOrdered == CommandSpec => CommandsComeInOrder
<1>1. CommandInv /\ [CommandNext]_commandVars =>
        [registers'.command # registers.command
           => registers.command < registers'.command /\ registers'.command = fetched]_commandVars
  <2> SUFFICES ASSUME CommandInv, [CommandNext]_commandVars, registers'.command # registers.command
               PROVE  registers.command < registers'.command /\ registers'.command = fetched
    OBVIOUS
  <2> QED BY OnlySendCommands DEF SendCommand, CommandInv, CommandTypeOK, Ordered
<1> QED BY <1>1, CommandInvariant, PTL DEF CommandSpec, CommandsComeInOrder

-----------------------------------------------------------------------------
(* The section implements the mailbox.                                      *)

LEMMA ControlRefines ==
  ASSUME CommandInv, Control PROVE [Mailbox!Next]_(Mailbox!vars)
<1> USE DEF CommandInv, CommandTypeOK, Ordered, Numbered, history, bounds, Mailbox!vars
<1>1. CASE WriteCommand
  <2>1. Mailbox!Post
    BY <1>1 DEF WriteCommand, StoreCommand, Mailbox!Post
  <2> QED BY <2>1 DEF Mailbox!Next
<1>2. CASE WriteSeq /\ Inverted
  <2>1. Mailbox!Forget
    BY <1>2 DEF WriteSeq, StoreSeq, Mailbox!Forget
  <2> QED BY <2>1 DEF Mailbox!Next
<1>3. CASE WriteSeq /\ ~Inverted
  BY <1>3 DEF WriteSeq, StoreSeq
<1>4. CASE Begin \/ WritePower \/ End
  BY <1>4 DEF Begin, BeginWrite, WritePower, StorePower, End, EndWrite
<1> QED BY <1>1, <1>2, <1>3, <1>4 DEF Control

LEMMA CommRefines ==
  ASSUME CommandInv, Comm PROVE [Mailbox!Next]_(Mailbox!vars)
<1> USE DEF CommandInv, CommandTypeOK, Ordered, Numbered, history, bounds, issuer, Mailbox!vars
<1>1. CASE Take
  <2>1. cmd' = number /\ number > 0 /\ Copy = section /\ Copy.seq # last_seq
    BY <1>1, CommandsAreNumbered DEF Take, FetchCommand, Copy, Blank
  <2>2. fetched # number \/ forgot
    BY <2>1 DEF Remembered
  <2>3. Mailbox!Take
    BY <1>1, <2>1, <2>2 DEF Take, FetchCommand, Mailbox!Take
  <2> QED BY <2>3 DEF Mailbox!Next
<1>2. CASE Ignore
  <2>1. number > 0 => Mailbox!Forget
    BY <1>2 DEF Ignore, IgnoreCommand, Mailbox!Forget
  <2>2. number = 0 => UNCHANGED Mailbox!vars
    BY <1>2 DEF Ignore, IgnoreCommand
  <2> QED BY <2>1, <2>2 DEF Mailbox!Next
<1>3. CASE SendCommand /\ UNCHANGED <<history, bounds>>
  <2>1. bus = "up" => Mailbox!Deliver
    BY <1>3, CommandsAreNumbered DEF SendCommand, Mailbox!Deliver
  <2>2. bus # "up" => Mailbox!Lose
    BY <1>3, CommandsAreNumbered DEF SendCommand, Mailbox!Lose
  <2> QED BY <2>1, <2>2 DEF Mailbox!Next
<1>4. CASE (FetchPower \/ SendPower \/ SkipCommand) /\ UNCHANGED <<history, bounds>>
  BY <1>4 DEF FetchPower, SendPower, SkipCommand
<1> QED BY <1>1, <1>2, <1>3, <1>4 DEF Comm, Carry

LEMMA RestartRefines ==
  ASSUME NEW actor \in {"control", "comm"}, CommandInv, Restart(actor)
  PROVE  [Mailbox!Next]_(Mailbox!vars)
<1> USE DEF CommandInv, CommandTypeOK, Ordered, history, issuer, Restart, Mailbox!vars
<1>1. CASE actor = "control"
  BY <1>1 DEF RestartControl
<1>2. CASE actor = "comm"
  <2>1. number > 0 => Mailbox!Forget
    BY <1>2, CommandsAreNumbered DEF RestartComm, Mailbox!Forget
  <2>2. number = 0 => UNCHANGED Mailbox!vars
    BY <1>2, CommandsAreNumbered DEF RestartComm
  <2> QED BY <2>1, <2>2 DEF Mailbox!Next
<1> QED BY <1>1, <1>2

(* The section and comm_manager's counter are a mailbox of one command,     *)
(* emptied at most once per command unless the counter was lost             *)
(* (pcs_device.py process_command(), "Deduplication").                      *)
THEOREM SectionIsMailbox == CommandSpec => ImplementsMailbox
<1>1. CommandInit => Mailbox!Init
  BY CommandsAreNumbered DEF CommandInit, LinkInit, Mailbox!Init
<1>2. CommandInv /\ [CommandNext]_commandVars => [Mailbox!Next]_(Mailbox!vars)
  <2> SUFFICES ASSUME CommandInv, [CommandNext]_commandVars PROVE [Mailbox!Next]_(Mailbox!vars)
    OBVIOUS
  <2>1. CASE (Bus /\ UNCHANGED <<history, bounds>>) \/ UNCHANGED commandVars
    BY <2>1 DEF Bus, commandVars, link, history, Mailbox!vars
  <2> QED BY <2>1, ControlRefines, CommRefines, RestartRefines DEF CommandNext
<1> QED BY <1>1, <1>2, CommandInvariant, PTL DEF CommandSpec, Mailbox!Spec, ImplementsMailbox

-----------------------------------------------------------------------------
(* Logger.                                                                  *)

(* The records that are in no file yet: rows of the open Parquet file, and  *)
(* what is buffered of the events.                                          *)
Pending == Range(current.rows) \cup Range(handle.tail)

(* The files there may be. *)
Files == ({"parquet"} \X Hours) \cup ({"jsonl"} \X Days)

IsDirectory(dir, last) ==
  /\ DOMAIN dir \subseteq Files
  /\ \A file \in DOMAIN dir : dir[file] \in Seq(0 .. last)

(* From one directory to the next no file goes, each has what it had and    *)
(* some records more, or these only, and an event file begins as it was.    *)
Grows(dir, dir2, more) ==
  /\ DOMAIN dir \subseteq DOMAIN dir2
  /\ \A file \in DOMAIN dir2 :
       Range(dir2[file]) \subseteq (IF file \in DOMAIN dir THEN Range(dir[file]) ELSE {}) \cup more
  /\ \A file \in OfKind("jsonl", dir) : IsPrefix(dir[file], dir2[file])

-----------------------------------------------------------------------------
(* The operators.                                                           *)

LEMMA Constants ==
  /\ HoursPerDay \in Nat /\ HoursPerDay > 0 /\ MonthDays \in Nat /\ MonthDays > 0
  /\ StopDay \in Nat /\ SyncEvery \in Nat /\ Threshold \in Nat /\ LongRange \in Nat
  /\ MaxHours \in Nat /\ MaxRecords \in Nat /\ MaxOther \in Nat /\ MaxMishaps \in Nat
  /\ FirstHour \in Hours
BY LoggerAssumption DEF LoggerAssumption

LEMMA RangeIs ==
  ASSUME NEW s, NEW x
  PROVE  x \in Range(s) <=> \E i \in DOMAIN s : x = s[i]
BY DEF Range

LEMMA Wider ==
  ASSUME NEW S, NEW T, S \subseteq T, NEW s \in Seq(S)
  PROVE  s \in Seq(T) /\ Range(s) \subseteq S
<1>1. \A i \in 1 .. Len(s) : s[i] \in S
  OBVIOUS
<1>2. DOMAIN s = 1 .. Len(s)
  OBVIOUS
<1>3. Range(s) \subseteq S
  BY <1>1, <1>2, RangeIs
<1>4. s \in [1 .. Len(s) -> T]
  BY <1>1, <1>2
<1>5. Len(s) \in Nat
  OBVIOUS
<1> QED BY <1>3, <1>4, <1>5

(* Beginnings. *)
LEMMA PrefixIs ==
  ASSUME NEW S, NEW s \in Seq(S), NEW t \in Seq(S)
  PROVE  IsPrefix(s, t) <=> Len(s) <= Len(t) /\ \A i \in 1 .. Len(s) : s[i] = t[i]
<1> DEFINE n == Len(s)
<1>1. n \in Nat
  OBVIOUS
<1>2. SubSeq(s, 1, n) = [i \in 1 .. n |-> s[i]]
  OBVIOUS
<1>3. ASSUME n <= Len(t) PROVE SubSeq(t, 1, n) = [i \in 1 .. n |-> t[i]]
  BY <1>1, <1>3
<1>4. ASSUME n <= Len(t)
      PROVE  SubSeq(s, 1, n) = SubSeq(t, 1, n) <=> \A i \in 1 .. n : s[i] = t[i]
  <2> DEFINE a == [i \in 1 .. n |-> s[i]]
             b == [i \in 1 .. n |-> t[i]]
  <2>1. a = b <=> \A i \in 1 .. n : s[i] = t[i]
    <3>1. a = b => \A i \in 1 .. n : a[i] = b[i]
      OBVIOUS
    <3> QED BY <3>1
  <2> HIDE DEF a, b
  <2>2. SubSeq(s, 1, n) = a /\ SubSeq(t, 1, n) = b
    BY <1>2, <1>3, <1>4 DEF a, b
  <2> QED BY <2>1, <2>2
<1> QED BY <1>4 DEF IsPrefix

LEMMA PrefixItself ==
  ASSUME NEW S, NEW s \in Seq(S)
  PROVE  IsPrefix(s, s)
<1>1. Len(s) <= Len(s)
  OBVIOUS
<1> QED BY <1>1, PrefixIs

LEMMA PrefixOfPrefix ==
  ASSUME NEW S, NEW s \in Seq(S), NEW t \in Seq(S), NEW u \in Seq(S),
         IsPrefix(s, t), IsPrefix(t, u)
  PROVE  IsPrefix(s, u)
<1>1. Len(s) <= Len(t) /\ \A i \in 1 .. Len(s) : s[i] = t[i]
  BY PrefixIs
<1>2. Len(t) <= Len(u) /\ \A i \in 1 .. Len(t) : t[i] = u[i]
  BY PrefixIs
<1>3. Len(s) \in Nat /\ Len(t) \in Nat /\ Len(u) \in Nat
  OBVIOUS
<1>4. Len(s) <= Len(u) /\ \A i \in 1 .. Len(s) : s[i] = u[i]
  BY <1>1, <1>2, <1>3
<1> QED BY <1>4, PrefixIs

LEMMA Joined ==
  ASSUME NEW S, NEW s \in Seq(S), NEW t \in Seq(S)
  PROVE  /\ s \o t \in Seq(S)
         /\ Range(s \o t) = Range(s) \cup Range(t)
         /\ IsPrefix(s, s \o t)
<1> DEFINE u == s \o t
           m == Len(s)
           n == Len(t)
<1>1. /\ u \in Seq(S) /\ m \in Nat /\ n \in Nat /\ Len(u) = m + n
      /\ DOMAIN s = 1 .. m /\ DOMAIN t = 1 .. n /\ DOMAIN u = 1 .. (m + n)
  OBVIOUS
<1>2. \A i \in 1 .. m : u[i] = s[i]
  OBVIOUS
<1>3. \A j \in 1 .. n : u[m + j] = t[j]
  OBVIOUS
<1> HIDE DEF u, m, n
<1>4. \A i \in 1 .. (m + n) : i \in 1 .. m \/ \E j \in 1 .. n : i = m + j
  <2> TAKE i \in 1 .. (m + n)
  <2>1. CASE i <= m
    BY <1>1, <2>1
  <2>2. CASE i > m
    <3>1. i - m \in 1 .. n /\ i = m + (i - m)
      BY <1>1, <2>2
    <3> QED BY <3>1
  <2> QED BY <1>1, <2>1, <2>2
<1>5. Range(u) = Range(s) \cup Range(t)
  <2>1. ASSUME NEW x \in Range(u) PROVE x \in Range(s) \cup Range(t)
    <3>1. PICK i \in 1 .. (m + n) : x = u[i]
      BY <1>1, RangeIs
    <3>2. CASE i \in 1 .. m
      BY <1>1, <1>2, <3>1, <3>2, RangeIs
    <3>3. CASE \E j \in 1 .. n : i = m + j
      BY <1>1, <1>3, <3>1, <3>3, RangeIs
    <3> QED BY <1>4, <3>2, <3>3
  <2>2. ASSUME NEW x \in Range(s) PROVE x \in Range(u)
    <3>1. PICK i \in 1 .. m : x = s[i]
      BY <1>1, RangeIs
    <3>2. i \in 1 .. (m + n)
      BY <1>1
    <3> QED BY <1>1, <1>2, <3>1, <3>2, RangeIs
  <2>3. ASSUME NEW x \in Range(t) PROVE x \in Range(u)
    <3>1. PICK j \in 1 .. n : x = t[j]
      BY <1>1, RangeIs
    <3>2. m + j \in 1 .. (m + n)
      BY <1>1
    <3> QED BY <1>1, <1>3, <3>1, <3>2, RangeIs
  <2> QED BY <2>1, <2>2, <2>3
<1>6. IsPrefix(s, u)
  <2>1. m <= Len(u)
    BY <1>1
  <2> QED BY <1>1, <1>2, <2>1, PrefixIs DEF m
<1> QED BY <1>1, <1>5, <1>6 DEF u

LEMMA Appended ==
  ASSUME NEW S, NEW s \in Seq(S), NEW x \in S
  PROVE  Append(s, x) \in Seq(S) /\ Range(Append(s, x)) = Range(s) \cup {x}
<1> DEFINE one == <<x>>
           longer == Append(s, x)
<1>1. longer \in Seq(S) /\ longer = s \o one /\ one \in Seq(S)
  OBVIOUS
<1>2. DOMAIN one = {1} /\ one[1] = x
  OBVIOUS
<1> HIDE DEF one, longer
<1>3. Range(one) = {x}
  BY <1>2, RangeIs
<1>4. Range(s \o one) = Range(s) \cup Range(one)
  BY <1>1, Joined
<1>5. longer \in Seq(S) /\ Range(longer) = Range(s) \cup {x}
  BY <1>1, <1>3, <1>4
<1> QED BY <1>5 DEF longer

LEMMA Started ==
  ASSUME NEW S
  PROVE  <<>> \in Seq(S) /\ Range(<<>>) = {}
<1>1. DOMAIN <<>> = {} /\ <<>> \in Seq(S)
  OBVIOUS
<1> QED BY <1>1, RangeIs
LEMMA WithIs ==
  ASSUME NEW dir, NEW file, NEW lines
  PROVE  /\ DOMAIN With(dir, file, lines) = DOMAIN dir \cup {file}
         /\ With(dir, file, lines)[file] = lines
         /\ \A f \in DOMAIN dir \ {file} : With(dir, file, lines)[f] = dir[f]
BY DEF With

LEMMA Names ==
  /\ \A hour \in Hours : Parquet(hour) \in Files
  /\ \A day \in Days : Jsonl(day) \in Files
  /\ \A hour, day : Parquet(hour)[1] = "parquet" /\ Jsonl(day)[1] = "jsonl"
BY DEF Parquet, Jsonl, Files

LEMMA Calendar ==
  /\ \A hour \in Hours : hour \div HoursPerDay \in Days
  /\ \A file \in Files : DayOf(file) \in Days
  /\ Days \subseteq Nat /\ Hours \subseteq Nat
<1>1. ASSUME NEW a \in Nat, NEW b \in Nat, NEW c \in Nat, c > 0, a <= b
      PROVE  a \div c \in Nat /\ a \div c <= b \div c
  BY <1>1
<1>2. Hours \subseteq Nat /\ \A hour \in Hours : hour <= MaxHours
  BY Constants DEF Hours
<1>3. MaxHours \div HoursPerDay \in Nat
  BY <1>1, Constants
<1>4. Days = 0 .. (MaxHours \div HoursPerDay)
  BY DEF Days
<1>5. ASSUME NEW hour \in Hours PROVE hour \div HoursPerDay \in Days
  <2>1. hour \div HoursPerDay \in Nat /\ hour \div HoursPerDay <= MaxHours \div HoursPerDay
    BY <1>1, <1>2, Constants
  <2> QED BY <1>3, <1>4, <2>1
<1>6. ASSUME NEW file \in Files PROVE DayOf(file) \in Days
  <2>1. CASE file \in {"parquet"} \X Hours
    BY <1>5, <2>1 DEF DayOf
  <2>2. CASE file \in {"jsonl"} \X Days
    BY <2>2 DEF DayOf
  <2> QED BY <2>1, <2>2 DEF Files
<1> QED BY <1>2, <1>3, <1>4, <1>5, <1>6

(* Directories. *)
LEMMA DirectoryWider ==
  ASSUME NEW dir, NEW last \in Nat, NEW last2 \in Nat, last <= last2, IsDirectory(dir, last)
  PROVE  IsDirectory(dir, last2)
<1>1. 0 .. last \subseteq 0 .. last2
  OBVIOUS
<1>2. ASSUME NEW file \in DOMAIN dir PROVE dir[file] \in Seq(0 .. last2)
  BY <1>1, Wider DEF IsDirectory
<1> QED BY <1>2 DEF IsDirectory

LEMMA GrowsNot ==
  ASSUME NEW dir, NEW last \in Nat, NEW more, IsDirectory(dir, last)
  PROVE  Grows(dir, dir, more)
<1>1. ASSUME NEW file \in DOMAIN dir PROVE IsPrefix(dir[file], dir[file])
  BY PrefixItself DEF IsDirectory
<1> QED BY <1>1 DEF Grows, OfKind

LEMMA GrowsMore ==
  ASSUME NEW dir, NEW dir2, NEW some, NEW more, some \subseteq more, Grows(dir, dir2, some)
  PROVE  Grows(dir, dir2, more)
BY DEF Grows

LEMMA GrowsOn ==
  ASSUME NEW dir, NEW dir2, NEW dir3, NEW last \in Nat, NEW some, NEW more,
         IsDirectory(dir, last), IsDirectory(dir2, last), IsDirectory(dir3, last),
         Grows(dir, dir2, some), Grows(dir2, dir3, more)
  PROVE  Grows(dir, dir3, some \cup more)
<1>1. DOMAIN dir \subseteq DOMAIN dir2 /\ DOMAIN dir2 \subseteq DOMAIN dir3
  BY DEF Grows
<1>2. ASSUME NEW file \in DOMAIN dir3
      PROVE  Range(dir3[file])
               \subseteq (IF file \in DOMAIN dir THEN Range(dir[file]) ELSE {}) \cup (some \cup more)
  <2>1. Range(dir3[file]) \subseteq (IF file \in DOMAIN dir2 THEN Range(dir2[file]) ELSE {}) \cup more
    BY DEF Grows
  <2>2. file \in DOMAIN dir2 =>
          Range(dir2[file]) \subseteq (IF file \in DOMAIN dir THEN Range(dir[file]) ELSE {}) \cup some
    BY DEF Grows
  <2> QED BY <1>1, <2>1, <2>2
<1>3. ASSUME NEW file \in OfKind("jsonl", dir) PROVE IsPrefix(dir[file], dir3[file])
  <2>1. file \in OfKind("jsonl", dir2)
    BY <1>1 DEF OfKind
  <2>2. IsPrefix(dir[file], dir2[file]) /\ IsPrefix(dir2[file], dir3[file])
    BY <2>1 DEF Grows
  <2>3. dir[file] \in Seq(0 .. last) /\ dir2[file] \in Seq(0 .. last) /\ dir3[file] \in Seq(0 .. last)
    BY <1>1 DEF OfKind, IsDirectory
  <2> QED BY <2>2, <2>3, PrefixOfPrefix
<1> QED BY <1>1, <1>2, <1>3 DEF Grows

(* One file with new lines: a Parquet file, or an event file with more.     *)
LEMMA GrowsWith ==
  ASSUME NEW dir, NEW last \in Nat, NEW file \in Files, NEW lines \in Seq(0 .. last), NEW more,
         IsDirectory(dir, last),
         Range(lines) \subseteq (IF file \in DOMAIN dir THEN Range(dir[file]) ELSE {}) \cup more,
         file \in OfKind("jsonl", dir) => IsPrefix(dir[file], lines)
  PROVE  IsDirectory(With(dir, file, lines), last) /\ Grows(dir, With(dir, file, lines), more)
<1> DEFINE dir2 == With(dir, file, lines)
<1>1. /\ DOMAIN dir2 = DOMAIN dir \cup {file} /\ dir2[file] = lines
      /\ \A f \in DOMAIN dir \ {file} : dir2[f] = dir[f]
  BY DEF With
<1> HIDE DEF dir2
<1>2. IsDirectory(dir2, last)
  BY <1>1 DEF IsDirectory
<1>3. \A f \in DOMAIN dir2 :
        Range(dir2[f]) \subseteq (IF f \in DOMAIN dir THEN Range(dir[f]) ELSE {}) \cup more
  BY <1>1
<1>4. ASSUME NEW f \in OfKind("jsonl", dir) PROVE IsPrefix(dir[f], dir2[f])
  <2>1. CASE f = file
    BY <1>1, <2>1
  <2>2. CASE f # file
    <3>1. dir2[f] = dir[f] /\ dir[f] \in Seq(0 .. last)
      BY <1>1, <2>2 DEF OfKind, IsDirectory
    <3> QED BY <3>1, PrefixItself
  <2> QED BY <2>1, <2>2
<1>5. Grows(dir, dir2, more)
  BY <1>1, <1>3, <1>4 DEF Grows
<1> QED BY <1>2, <1>5 DEF dir2

LEMMA FinishedGrows ==
  ASSUME NEW dir, NEW last \in Nat, NEW w \in {Closed} \cup [hour : Hours, rows : Seq(1 .. last)],
         IsDirectory(dir, last)
  PROVE  /\ IsDirectory(Finished(dir, w), last)
         /\ Grows(dir, Finished(dir, w), Range(w.rows))
<1>1. CASE w = Closed
  BY <1>1, GrowsNot DEF Finished
<1>2. CASE w # Closed
  <2>1. w.hour \in Hours /\ w.rows \in Seq(1 .. last)
    BY <1>2
  <2>2. w.rows \in Seq(0 .. last)
    BY <2>1, Wider
  <2>3. Parquet(w.hour) \in Files /\ Parquet(w.hour) \notin OfKind("jsonl", dir)
    BY <2>1, Names DEF OfKind
  <2> QED BY <1>2, <2>2, <2>3, GrowsWith DEF Finished
<1> QED BY <1>1, <1>2

LEMMA OpenedGrows ==
  ASSUME NEW dir, NEW last \in Nat, NEW day \in Days, IsDirectory(dir, last)
  PROVE  /\ IsDirectory(Opened(dir, day), last) /\ Grows(dir, Opened(dir, day), {})
         /\ Jsonl(day) \in DOMAIN Opened(dir, day)
<1>1. CASE Jsonl(day) \in DOMAIN dir
  BY <1>1, GrowsNot DEF Opened
<1>2. CASE Jsonl(day) \notin DOMAIN dir
  <2> DEFINE file == Jsonl(day)
             lines == <<>>
             dir2 == With(dir, file, lines)
  <2>1. Opened(dir, day) = dir2
    BY <1>2 DEF Opened
  <2>2. lines \in Seq(0 .. last) /\ Range(lines) = {}
    BY Started
  <2>3. file \in Files /\ file \notin OfKind("jsonl", dir)
    BY <1>2, Names DEF OfKind
  <2> HIDE DEF file, lines
  <2>4. DOMAIN dir2 = DOMAIN dir \cup {file}
    BY Zenon, WithIs
  <2>5. IsDirectory(dir2, last) /\ Grows(dir, dir2, {})
    BY <2>2, <2>3, GrowsWith
  <2>6. file \in DOMAIN dir2
    BY <2>4
  <2> QED BY <2>1, <2>5, <2>6 DEF file
<1> QED BY <1>1, <1>2

LEMMA FlushedGrows ==
  ASSUME NEW dir, NEW last \in Nat, NEW h, h.tail \in Seq(0 .. last), IsDirectory(dir, last),
         h.linked => Jsonl(h.day) \in DOMAIN dir
  PROVE  /\ IsDirectory(Flushed(dir, h), last) /\ Grows(dir, Flushed(dir, h), Range(h.tail))
         /\ DOMAIN Flushed(dir, h) = DOMAIN dir
<1>1. CASE ~h.linked
  BY <1>1, GrowsNot DEF Flushed
<1>2. CASE h.linked
  <2> DEFINE file == Jsonl(h.day)
             old == dir[file]
             lines == old \o h.tail
  <2>1. file \in DOMAIN dir /\ file \in Files /\ old \in Seq(0 .. last)
    BY <1>2 DEF IsDirectory
  <2>2. lines \in Seq(0 .. last) /\ Range(lines) = Range(old) \cup Range(h.tail) /\ IsPrefix(old, lines)
    BY <2>1, Joined
  <2>3. Flushed(dir, h) = [dir EXCEPT ![file] = lines]
    BY <1>2 DEF Flushed
  <2> HIDE DEF lines
  <2>4. [dir EXCEPT ![file] = lines] = With(dir, file, lines)
    BY <2>1 DEF With
  <2>5. Flushed(dir, h) = With(dir, file, lines)
    BY <2>3, <2>4
  <2> HIDE DEF file
  <2>6. DOMAIN With(dir, file, lines) = DOMAIN dir
    <3>1. DOMAIN With(dir, file, lines) = DOMAIN dir \cup {file}
      BY Zenon, WithIs
    <3> QED BY <2>1, <3>1
  <2>7. Range(lines) \subseteq (IF file \in DOMAIN dir THEN Range(dir[file]) ELSE {}) \cup Range(h.tail)
    BY <2>1, <2>2
  <2> QED BY <2>1, <2>2, <2>5, <2>6, <2>7, GrowsWith
<1> QED BY <1>1, <1>2

-----------------------------------------------------------------------------
(* Types, and what is where.                                                *)

Handles(last) ==
  [day : Days \cup {-1}, linked : BOOLEAN, tail : Seq(1 .. last), writes : 0 .. last]

IsSweep ==
  sweep \in [list : 0 .. 4, files : SUBSET DOMAIN disk, failed : SUBSET Files, began : Days,
             calm : BOOLEAN]

(* What is in no file yet is in one place only, and there once; there is no *)
(* open file, and so none without its .tmp file, when the process starts.   *)
IsApart ==
  /\ ~up => current = Closed
  /\ Range(current.rows) \cap Range(handle.tail) = {}
  /\ IsInjective(handle.tail)
  /\ \A file \in DOMAIN disk : Range(disk[file]) \cap Pending = {}

(* What a step has made. *)
Fresh == (made + 1) .. made'

(* Records go from where they are pending to the files, and from nowhere    *)
(* else; only the cleanup takes a file away.                                *)
Moves ==
  /\ made <= made' /\ Pending' \subseteq Pending \cup Fresh
  /\ DeleteFile \/ Grows(disk, disk', Pending \cup Fresh \cup {Torn})

LEMMA Typed ==
  ASSUME LoggerTypeOK
  PROVE  /\ made \in Nat /\ now \in Hours /\ Today \in Days /\ IsDirectory(disk, made)
         /\ current \in {Closed} \cup [hour : tmp, rows : Seq(1 .. made)]
         /\ current \in {Closed} \cup [hour : Hours, rows : Seq(1 .. made)]
         /\ handle \in Handles(made) /\ Len(handle.tail) <= handle.writes
         /\ (handle.linked => Jsonl(handle.day) \in DOMAIN disk)
         /\ tmp \subseteq Hours /\ IsSweep
         /\ current.rows \in Seq(1 .. made) /\ handle.tail \in Seq(1 .. made)
         /\ Range(current.rows) \subseteq 1 .. made /\ Range(handle.tail) \subseteq 1 .. made
         /\ \A file \in DOMAIN disk : Range(disk[file]) \subseteq 0 .. made
<1>1. made \in Nat /\ now \in Hours
  BY DEF LoggerTypeOK
<1>2. Today \in Days
  BY <1>1, Calendar DEF Today
<1>3. IsDirectory(disk, made)
  BY DEF LoggerTypeOK, IsDirectory, Files
<1>4. current \in {Closed} \cup [hour : tmp, rows : Seq(1 .. made)] /\ tmp \subseteq Hours
  BY DEF LoggerTypeOK
<1>5. current \in {Closed} \cup [hour : Hours, rows : Seq(1 .. made)]
  BY <1>4
<1>6. handle \in Handles(made) /\ handle.tail \in Seq(1 .. made)
  BY DEF LoggerTypeOK, Handles
<1>10. /\ Len(handle.tail) <= handle.writes /\ (handle.linked => Jsonl(handle.day) \in DOMAIN disk)
       /\ IsSweep
  BY DEF LoggerTypeOK, IsSweep, Files
<1>7. current.rows \in Seq(1 .. made)
  <2>1. CASE current = Closed
    <3>1. current.rows = <<>>
      BY <2>1 DEF Closed
    <3> QED BY <3>1, Started
  <2>2. CASE current # Closed
    BY <1>5, <2>2
  <2> QED BY <2>1, <2>2
<1>8. Range(current.rows) \subseteq 1 .. made /\ Range(handle.tail) \subseteq 1 .. made
  BY <1>6, <1>7, Wider
<1>9. \A file \in DOMAIN disk : Range(disk[file]) \subseteq 0 .. made
  BY <1>3, Wider DEF IsDirectory
<1> QED BY <1>1, <1>2, <1>3, <1>4, <1>5, <1>6, <1>7, <1>8, <1>9, <1>10

LEMMA NoSweepIsSweep == NoSweep \in [list : 0 .. 4, files : SUBSET DOMAIN disk', failed : SUBSET Files,
                                     began : Days, calm : BOOLEAN]
<1>1. 0 \in Days
  <2>1. 0 \in Hours /\ 0 \div HoursPerDay = 0
    BY Constants DEF Hours
  <2> QED BY <2>1, Calendar
<1> QED BY <1>1 DEF NoSweep

(* Files and what is pending stay apart: what is pending afterwards was     *)
(* pending or is new, and went into no file.                                *)
LEMMA StaysApart ==
  ASSUME NEW dir, NEW dir2, NEW some, NEW more, NEW moved, NEW last \in Nat, IsDirectory(dir, last),
         Grows(dir, dir2, moved), more \cap moved = {}, more \subseteq some \cup {last + 1},
         \A file \in DOMAIN dir : Range(dir[file]) \cap some = {}
  PROVE  \A file \in DOMAIN dir2 : Range(dir2[file]) \cap more = {}
<1> SUFFICES ASSUME NEW file \in DOMAIN dir2, NEW x \in Range(dir2[file]), x \in more PROVE FALSE
  OBVIOUS
<1>1. x \notin moved
  OBVIOUS
<1>2. file \in DOMAIN dir /\ x \in Range(dir[file])
  BY <1>1 DEF Grows
<1>3. Range(dir[file]) \subseteq 0 .. last
  BY <1>2, Wider DEF IsDirectory
<1>4. x # last + 1 /\ x \notin some
  BY <1>2, <1>3
<1> QED BY <1>4

-----------------------------------------------------------------------------
(* The steps that store something.                                          *)

LEMMA RowMoves ==
  ASSUME LoggerTypeOK, IsApart, Row
  PROVE  LoggerTypeOK' /\ IsApart' /\ Moves
<1> DEFINE opens == Turned \/ current = Closed
           moved == IF Turned THEN Range(current.rows) ELSE {}
           start == IF opens THEN NewFile ELSE current
           tail == handle.tail
<1>1. /\ up /\ made < MaxRecords /\ made' = made + 1
      /\ disk' = IF Turned THEN Finished(disk, current) ELSE disk
      /\ current' = [start EXCEPT !.rows = Append(@, made')]
      /\ tmp' = IF opens THEN (tmp \ {current.hour}) \cup {now} ELSE tmp
      /\ UNCHANGED <<now, other, up, recording, syncing, handle, unsynced, query, mishaps>>
      /\ sweep' = NoSweep
  BY DEF Row, LoopRuns, Grown, process, events
<1>2. /\ made \in Nat /\ now \in Hours /\ IsDirectory(disk, made)
      /\ current \in {Closed} \cup [hour : tmp, rows : Seq(1 .. made)]
      /\ current \in {Closed} \cup [hour : Hours, rows : Seq(1 .. made)]
      /\ tail \in Seq(1 .. made)
      /\ Range(current.rows) \subseteq 1 .. made /\ Range(tail) \subseteq 1 .. made
  BY Typed
<1>3. made' \in 0 .. MaxRecords /\ made' \in Nat /\ made' \in 1 .. made' /\ made' \notin 0 .. made
  BY <1>1, <1>2, Constants
<1>4. 1 .. made \subseteq 1 .. made'
  BY <1>1, <1>2
<1>5. IsDirectory(disk', made) /\ Grows(disk, disk', moved)
  <2>1. CASE Turned
    BY <1>1, <1>2, <2>1, FinishedGrows
  <2>2. CASE ~Turned
    BY <1>1, <1>2, <2>2, GrowsNot
  <2> QED BY <2>1, <2>2
<1>6. start \in [hour : tmp', rows : Seq(1 .. made)] /\ Range(start.rows) \cap moved = {}
      /\ Range(start.rows) \subseteq Range(current.rows)
  <2>1. CASE opens
    <3>1. start = NewFile /\ now \in tmp'
      BY <1>1, <2>1
    <3>2. <<>> \in Seq(1 .. made) /\ Range(<<>>) = {}
      BY Started
    <3> DEFINE none == <<>>
    <3>3. start = [hour |-> now, rows |-> none]
      BY <3>1 DEF NewFile
    <3>4. none \in Seq(1 .. made) /\ Range(none) = {}
      BY <3>2
    <3> HIDE DEF none, start
    <3>5. start.rows = none /\ start \in [hour : tmp', rows : Seq(1 .. made)]
      BY <3>1, <3>3, <3>4
    <3> QED BY <3>4, <3>5
  <2>2. CASE ~opens
    <3>1. start = current /\ current # Closed /\ tmp' = tmp /\ moved = {}
      BY <1>1, <2>2
    <3> QED BY <1>2, <3>1
  <2> QED BY <2>1, <2>2
<1> HIDE DEF opens, start, moved
<1>7. Append(start.rows, made') \in Seq(1 .. made')
      /\ Range(Append(start.rows, made')) = Range(start.rows) \cup {made'}
  <2>1. start.rows \in Seq(1 .. made')
    <3>1. start.rows \in Seq(1 .. made)
      BY <1>6
    <3> QED BY <1>4, <3>1, Wider
  <2> QED BY <1>3, <2>1, Appended
<1> DEFINE longer == Append(start.rows, made')
<1> HIDE DEF longer
<1>8. current'.rows = longer /\ current' \in [hour : tmp', rows : Seq(1 .. made')]
  <2>1. current' = [start EXCEPT !.rows = longer] /\ longer \in Seq(1 .. made')
    BY <1>1, <1>7 DEF longer
  <2> QED BY <1>6, <2>1
<1>9. Range(current'.rows) = Range(start.rows) \cup {made'}
  BY <1>7, <1>8 DEF longer
<1>10. LoggerTypeOK'
  <2>1. tmp' \subseteq Hours /\ IsDirectory(disk', made')
    <3>1. tmp \subseteq Hours
      BY DEF LoggerTypeOK
    <3>2. made <= made'
      BY <1>1, <1>2
    <3> QED BY <1>1, <1>2, <1>3, <1>5, <3>1, <3>2, DirectoryWider
  <2>2. handle' \in Handles(made') /\ (handle'.linked => Jsonl(handle'.day) \in DOMAIN disk')
    <3>1. handle' = handle /\ handle.tail \in Seq(1 .. made')
      BY <1>1, <1>2, <1>4, Wider
    <3>2. handle \in Handles(made) /\ (handle.linked => Jsonl(handle.day) \in DOMAIN disk)
      BY DEF LoggerTypeOK, Handles
    <3>3. DOMAIN disk \subseteq DOMAIN disk'
      BY <1>5 DEF Grows
    <3>4. 0 .. made \subseteq 0 .. made'
      BY <1>1, <1>2
    <3> QED BY <3>1, <3>2, <3>3, <3>4 DEF Handles
  <2>3. /\ now' \in Hours /\ other' \in 0 .. MaxOther /\ mishaps' \in 0 .. MaxMishaps
        /\ up' \in BOOLEAN /\ recording' \in BOOLEAN /\ syncing' \in BOOLEAN /\ unsynced' \in BOOLEAN
        /\ Len(handle'.tail) <= handle'.writes
    BY <1>1 DEF LoggerTypeOK
  <2>4. IsSweep'
    BY <1>1, NoSweepIsSweep DEF IsSweep
  <2> QED BY <1>3, <1>8, <2>1, <2>2, <2>3, <2>4 DEF LoggerTypeOK, IsSweep, IsDirectory, Files, Handles
<1>11. Range(current.rows) \cap Range(tail) = {} /\ IsInjective(tail)
       /\ \A file \in DOMAIN disk : Range(disk[file]) \cap Pending = {}
  BY DEF IsApart
<1>12. handle' = handle /\ Pending' = Range(current'.rows) \cup Range(tail)
       /\ Pending = Range(current.rows) \cup Range(tail)
  BY <1>1 DEF Pending
<1>13. made' \notin Range(current.rows) /\ made' \notin Range(tail) /\ moved \subseteq Range(current.rows)
  BY <1>2, <1>3 DEF moved
<1>14. Pending' \subseteq Pending \cup {made'} /\ Pending' \cap moved = {}
  BY <1>6, <1>9, <1>11, <1>12, <1>13
<1>15. IsApart'
  <2>1. \A file \in DOMAIN disk' : Range(disk'[file]) \cap Pending' = {}
    <3> DEFINE some == Pending
               more == Pending'
               dir2 == disk'
    <3>1. more \cap moved = {} /\ more \subseteq some \cup {made + 1} /\ Grows(disk, dir2, moved)
      BY <1>1, <1>5, <1>14
    <3>2. made \in Nat /\ IsDirectory(disk, made)
      BY <1>2
    <3>3. \A file \in DOMAIN disk : Range(disk[file]) \cap some = {}
      BY <1>11
    <3> HIDE DEF some, more, dir2
    <3>4. \A file \in DOMAIN dir2 : Range(dir2[file]) \cap more = {}
      BY <3>1, <3>2, <3>3, StaysApart
    <3> QED BY <3>4 DEF more, dir2
  <2>2. Range(current'.rows) \cap Range(handle'.tail) = {}
    BY <1>6, <1>9, <1>11, <1>12, <1>13
  <2>3. up' /\ IsInjective(handle'.tail)
    BY <1>1, <1>11
  <2> QED BY <2>1, <2>2, <2>3 DEF IsApart
<1>16. Moves
  <2>1. Fresh = {made'}
    BY <1>1, <1>2 DEF Fresh
  <2>2. moved \subseteq Pending \cup Fresh \cup {Torn} /\ made <= made'
    BY <1>1, <1>2, <1>12, <1>13
  <2> QED BY <1>5, <1>14, <2>1, <2>2, GrowsMore DEF Moves
<1> QED BY <1>10, <1>15, <1>16

(* When the records stay as they are but for some that went into files.     *)
LEMMA Resting ==
  ASSUME LoggerTypeOK, IsApart, made' = made, NEW moved,
         moved \subseteq Pending \cup {Torn}, Grows(disk, disk', moved),
         Pending' \subseteq Pending \ moved, UNCHANGED handle,
         Range(current'.rows) \subseteq Range(current.rows),
         ~up' => current' = Closed
  PROVE  IsApart' /\ Moves
<1> DEFINE some == Pending
           more == Pending'
           dir2 == disk'
<1>1. more \cap moved = {} /\ more \subseteq some \cup {made + 1} /\ Grows(disk, dir2, moved)
  OBVIOUS
<1>2. made \in Nat /\ IsDirectory(disk, made)
  BY Typed
<1>3. \A file \in DOMAIN disk : Range(disk[file]) \cap some = {}
  BY DEF IsApart
<1>4. IsApart'
  <2> HIDE DEF some, more, dir2
  <2>1. \A file \in DOMAIN dir2 : Range(dir2[file]) \cap more = {}
    BY <1>1, <1>2, <1>3, StaysApart
  <2>2. Range(current'.rows) \cap Range(handle'.tail) = {} /\ IsInjective(handle'.tail)
    BY DEF IsApart
  <2> QED BY <2>1, <2>2 DEF more, dir2, IsApart
<1>5. Moves
  <2>1. made <= made' /\ Pending' \subseteq Pending \cup Fresh
    BY <1>2
  <2>2. Grows(disk, disk', Pending \cup Fresh \cup {Torn})
    BY GrowsMore
  <2> QED BY <2>1, <2>2 DEF Moves
<1> QED BY <1>4, <1>5

LEMMA Untouched ==
  ASSUME LoggerTypeOK, IsApart, UNCHANGED <<made, disk, current, handle>>, ~up' => current' = Closed
  PROVE  IsApart' /\ Moves
<1>1. Pending' = Pending
  BY DEF Pending
<1>2. Grows(disk, disk', {})
  BY Typed, GrowsNot
<1>4. made' = made
  OBVIOUS
<1> QED BY <1>1, <1>2, <1>4, Resting

LEMMA RowFailsMoves ==
  ASSUME LoggerTypeOK, IsApart, RowFails
  PROVE  LoggerTypeOK' /\ IsApart' /\ Moves
<1>1. /\ up /\ recording' = FALSE /\ mishaps < MaxMishaps /\ mishaps' = mishaps + 1
      /\ UNCHANGED <<now, made, other, up, syncing, handle, unsynced, query>>
      /\ sweep' = NoSweep
  BY DEF RowFails, LoopRuns, Mishap, events
<1>2. mishaps' \in 0 .. MaxMishaps
  BY <1>1, Constants DEF LoggerTypeOK
<1>3. Range(Closed.rows) = {}
  <2>1. Closed.rows = <<>>
    BY DEF Closed
  <2> QED BY <2>1, Started
<1>4. IsSweep'
  BY <1>1, NoSweepIsSweep DEF IsSweep
<1>5. CASE UNCHANGED disk /\ tmp' = tmp /\ (current' = current \/ current' = Closed)
  <2>1. LoggerTypeOK'
    BY <1>1, <1>2, <1>4, <1>5 DEF LoggerTypeOK, IsSweep, Files
  <2>2. Range(current'.rows) \subseteq Range(current.rows)
    BY <1>3, <1>5
  <2>3. Pending' \subseteq Pending \ {}
    BY <1>1, <2>2 DEF Pending
  <2>4. Grows(disk, disk', {})
    BY <1>5, Typed, GrowsNot
  <2> QED BY <1>1, <2>1, <2>2, <2>3, <2>4, Resting
<1>6. CASE disk' = Finished(disk, current) /\ current' = Closed /\ tmp' = tmp \ {current.hour}
  <2>1. /\ made \in Nat /\ current \in {Closed} \cup [hour : Hours, rows : Seq(1 .. made)]
        /\ IsDirectory(disk, made)
    BY Typed
  <2>2. IsDirectory(disk', made) /\ Grows(disk, disk', Range(current.rows))
    BY <1>6, <2>1, FinishedGrows
  <2>3. LoggerTypeOK'
    <3>1. handle'.linked => Jsonl(handle'.day) \in DOMAIN disk'
      BY <1>1, <2>2 DEF LoggerTypeOK, Grows
    <3>2. current' \in {Closed} \cup [hour : tmp', rows : Seq(1 .. made')] /\ tmp' \subseteq Hours
      BY <1>6 DEF LoggerTypeOK
    <3>3. DOMAIN disk' \subseteq ({"parquet"} \X Hours) \cup ({"jsonl"} \X Days)
          /\ \A file \in DOMAIN disk' : disk'[file] \in Seq(0 .. made')
      BY <1>1, <2>2 DEF IsDirectory, Files
    <3> QED BY <1>1, <1>2, <1>4, <3>1, <3>2, <3>3 DEF LoggerTypeOK, IsSweep, Files
  <2>4. Range(current'.rows) = {}
    BY <1>3, <1>6
  <2>5. Pending' \subseteq Pending \ Range(current.rows) /\ Range(current.rows) \subseteq Pending
    BY <1>1, <2>4 DEF IsApart, Pending
  <2>6. IsApart' /\ Moves
    BY <1>1, <1>6, <2>2, <2>4, <2>5, Resting
  <2> QED BY <2>3, <2>6
<1> QED BY <1>5, <1>6 DEF RowFails

(* A sequence of which the first part is taken away.                        *)
LEMMA Cut ==
  ASSUME NEW S, NEW s \in Seq(S), NEW n \in 0 .. Len(s)
  PROVE  /\ SubSeq(s, 1, n) \in Seq(S) /\ Range(SubSeq(s, 1, n)) \subseteq Range(s)
         /\ SubSeq(s, n + 1, Len(s)) \in Seq(S)
         /\ Len(SubSeq(s, n + 1, Len(s))) <= Len(s)
         /\ Range(SubSeq(s, n + 1, Len(s))) \subseteq Range(s)
         /\ IsInjective(s) =>
              /\ IsInjective(SubSeq(s, n + 1, Len(s)))
              /\ Range(SubSeq(s, 1, n)) \cap Range(SubSeq(s, n + 1, Len(s))) = {}
<1> DEFINE t == SubSeq(s, 1, n)
           m == Len(s)
           u == SubSeq(s, n + 1, Len(s))
<1>1. m \in Nat /\ n \in Nat /\ n <= m /\ DOMAIN s = 1 .. m
  OBVIOUS
<1>2. t \in Seq(S) /\ DOMAIN t = 1 .. n
  BY <1>1
<1>3. \A i \in 1 .. n : t[i] = s[i]
  BY <1>1
<1>4. u \in Seq(S) /\ DOMAIN u = 1 .. (m - n) /\ Len(u) = m - n
  <2>1. SubSeq(s, n + 1, Len(s)) \in Seq(S)
    OBVIOUS
  <2>2. Len(SubSeq(s, n + 1, Len(s))) = Len(s) - n
    OBVIOUS
  <2>3. u \in Seq(S) /\ Len(u) = m - n
    BY <2>1, <2>2
  <2> HIDE DEF u
  <2> QED BY <1>1, <2>3
<1>5. \A i \in 1 .. (m - n) : u[i] = s[n + i]
  BY <1>1
<1> HIDE DEF t, u, m
<1>6. ASSUME NEW x \in Range(t) PROVE \E i \in 1 .. n : x = s[i]
  BY <1>2, <1>3, RangeIs
<1>7. ASSUME NEW x \in Range(u) PROVE \E i \in (n + 1) .. m : x = s[i]
  <2>1. PICK i \in 1 .. (m - n) : x = u[i]
    BY <1>4, RangeIs
  <2>2. x = s[n + i] /\ n + i \in (n + 1) .. m
    BY <1>1, <1>5, <2>1
  <2> QED BY <2>2
<1>8. Range(t) \subseteq Range(s) /\ Range(u) \subseteq Range(s)
  <2>1. ASSUME NEW i \in 1 .. m PROVE s[i] \in Range(s)
    BY <1>1, RangeIs
  <2> QED BY <1>1, <1>6, <1>7, <2>1
<1>9. ASSUME IsInjective(s) PROVE IsInjective(u) /\ Range(t) \cap Range(u) = {}
  <2>1. \A i, j \in 1 .. m : s[i] = s[j] => i = j
    BY <1>1, <1>9 DEF IsInjective
  <2>2. IsInjective(u)
    <3>1. ASSUME NEW i \in 1 .. (m - n), NEW j \in 1 .. (m - n), u[i] = u[j] PROVE i = j
      <4>1. s[n + i] = s[n + j] /\ n + i \in 1 .. m /\ n + j \in 1 .. m
        BY <1>1, <1>5, <3>1
      <4>2. n + i = n + j
        BY <2>1, <4>1
      <4> QED BY <1>1, <4>2
    <3> QED BY <1>4, <3>1 DEF IsInjective
  <2>3. ASSUME NEW x \in Range(t), x \in Range(u) PROVE FALSE
    <3>1. PICK i \in 1 .. n : x = s[i]
      BY <1>6
    <3>2. PICK j \in (n + 1) .. m : x = s[j]
      BY <1>7, <2>3
    <3>3. i \in 1 .. m /\ j \in 1 .. m /\ i # j
      BY <1>1
    <3> QED BY <2>1, <3>1, <3>2, <3>3
  <2> QED BY <2>2, <2>3
<1>10. Len(u) <= m
  BY <1>1, <1>4
<1> QED BY <1>2, <1>4, <1>8, <1>9, <1>10 DEF t, u, m

(* The steps of the event writer.                                           *)
LEMMA HandleMoves ==
  ASSUME LoggerTypeOK, IsApart, NEW moved, made' \in 0 .. MaxRecords,
         made' = made \/ made' = made + 1,
         up, UNCHANGED <<now, other, up, current, tmp>>, sweep' = NoSweep,
         recording' \in BOOLEAN, syncing' \in BOOLEAN, unsynced' \in BOOLEAN,
         mishaps' \in 0 .. MaxMishaps,
         IsDirectory(disk', made'), Grows(disk, disk', moved), handle' \in Handles(made'),
         handle'.linked => Jsonl(handle'.day) \in DOMAIN disk',
         Len(handle'.tail) <= handle'.writes, IsInjective(handle'.tail),
         Range(handle'.tail) \subseteq (Range(handle.tail) \cup Fresh) \ moved,
         moved \subseteq Range(handle.tail) \cup Fresh
  PROVE  LoggerTypeOK' /\ IsApart' /\ Moves
<1>1. /\ made \in Nat /\ made' \in Nat /\ made <= made' /\ IsDirectory(disk, made)
      /\ Range(current.rows) \subseteq 1 .. made
  BY Typed
<1>2. Fresh \subseteq {made + 1} /\ Fresh \cap Range(current.rows) = {} /\ 1 .. made \subseteq 1 .. made'
  BY <1>1 DEF Fresh
<1>3. LoggerTypeOK'
  <2>1. DOMAIN disk' \subseteq ({"parquet"} \X Hours) \cup ({"jsonl"} \X Days)
        /\ \A file \in DOMAIN disk' : disk'[file] \in Seq(0 .. made')
    BY DEF IsDirectory, Files
  <2>2. current' \in {Closed} \cup [hour : tmp', rows : Seq(1 .. made')]
    <3>1. CASE current = Closed
      BY <3>1
    <3>2. CASE current # Closed
      <4>1. current \in [hour : tmp, rows : Seq(1 .. made)]
        BY <3>2 DEF LoggerTypeOK
      <4>2. current.rows \in Seq(1 .. made)
        BY <4>1
      <4> DEFINE last == made'
      <4>3. 1 .. made \subseteq 1 .. last
        BY <1>2
      <4> HIDE DEF last
      <4>4. current.rows \in Seq(1 .. last)
        BY <4>2, <4>3, Wider
      <4>5. current \in [hour : tmp, rows : Seq(1 .. last)]
        BY <4>1, <4>4
      <4> QED BY <4>5 DEF last
    <3> QED BY <3>1, <3>2
  <2>3. /\ now' \in Hours /\ other' \in 0 .. MaxOther /\ up' \in BOOLEAN /\ tmp' \subseteq Hours
    BY DEF LoggerTypeOK
  <2>4. IsSweep'
    BY NoSweepIsSweep DEF IsSweep
  <2> QED BY <2>1, <2>2, <2>3, <2>4 DEF LoggerTypeOK, IsSweep, Files, Handles
<1>4. /\ Range(current.rows) \cap Range(handle.tail) = {} /\ current' = current
      /\ Pending = Range(current.rows) \cup Range(handle.tail)
      /\ Pending' = Range(current.rows) \cup Range(handle'.tail)
  BY DEF IsApart, Pending
<1>5. /\ Pending' \subseteq Pending \cup Fresh /\ Pending' \cap moved = {}
      /\ Range(current.rows) \cap Range(handle'.tail) = {}
  BY <1>2, <1>4
<1>6. IsApart'
  <2> DEFINE some == Pending
             more == Pending'
             dir2 == disk'
  <2>1. more \cap moved = {} /\ more \subseteq some \cup {made + 1} /\ Grows(disk, dir2, moved)
    BY <1>2, <1>5
  <2>2. \A file \in DOMAIN disk : Range(disk[file]) \cap some = {}
    BY DEF IsApart
  <2> HIDE DEF some, more, dir2
  <2>3. \A file \in DOMAIN dir2 : Range(dir2[file]) \cap more = {}
    BY <1>1, <2>1, <2>2, StaysApart
  <2> QED BY <1>4, <1>5, <2>3 DEF more, dir2, IsApart
<1>7. Moves
  <2>1. moved \subseteq Pending \cup Fresh \cup {Torn}
    BY <1>4
  <2> QED BY <1>1, <1>5, <2>1, GrowsMore DEF Moves
<1> QED BY <1>3, <1>6, <1>7

(* A sync of which some lines get through.                                  *)
LEMMA RaisesMoves ==
  ASSUME NEW last \in Nat, NEW h \in Handles(last), Len(h.tail) <= h.writes, IsInjective(h.tail),
         IsDirectory(disk, last), h.linked => Jsonl(h.day) \in DOMAIN disk, SyncRaises(h)
  PROVE  \E moved : /\ Grows(disk, disk', moved) /\ IsDirectory(disk', last)
                    /\ handle' \in Handles(last) /\ Len(handle'.tail) <= handle'.writes
                    /\ IsInjective(handle'.tail)
                    /\ (handle'.linked => Jsonl(handle'.day) \in DOMAIN disk')
                    /\ Range(handle'.tail) \subseteq Range(h.tail) \ moved
                    /\ moved \subseteq Range(h.tail)
<1>1. PICK n \in 0 .. Len(h.tail) :
        disk' = Flushed(disk, [h EXCEPT !.tail = SubSeq(@, 1, n)]) /\ handle' = Remaining(h, n)
  BY DEF SyncRaises
<1> DEFINE first == SubSeq(h.tail, 1, n)
           rest  == SubSeq(h.tail, n + 1, Len(h.tail))
           g == [h EXCEPT !.tail = first]
<1>2. h.tail \in Seq(1 .. last) /\ h.writes \in 0 .. last
  BY DEF Handles
<1>3. /\ first \in Seq(1 .. last) /\ Range(first) \subseteq Range(h.tail) /\ rest \in Seq(1 .. last)
      /\ Len(rest) <= Len(h.tail) /\ Range(rest) \subseteq Range(h.tail) /\ IsInjective(rest)
      /\ Range(first) \cap Range(rest) = {}
  BY <1>2, Cut
<1>4. handle' = [h EXCEPT !.tail = rest] /\ disk' = Flushed(disk, g)
  BY <1>1 DEF Remaining
<1> HIDE DEF first, rest
<1>5. g.tail = first /\ g.linked = h.linked /\ g.day = h.day
  BY DEF Handles
<1> HIDE DEF g
<1>6. first \in Seq(0 .. last)
  BY <1>3, Wider
<1>7. IsDirectory(disk', last) /\ Grows(disk, disk', Range(first)) /\ DOMAIN disk' = DOMAIN disk
  BY <1>4, <1>5, <1>6, FlushedGrows
<1>8. /\ handle' \in Handles(last) /\ handle'.tail = rest /\ handle'.writes = h.writes
      /\ handle'.linked = h.linked /\ handle'.day = h.day
  BY <1>3, <1>4 DEF Handles
<1>9. Len(rest) <= h.writes
  <2>1. Len(h.tail) \in Nat /\ Len(rest) \in Nat
    BY <1>2, <1>3
  <2> QED BY <1>2, <1>3, <2>1
<1>10. Range(handle'.tail) \subseteq Range(h.tail) \ Range(first)
  BY <1>3, <1>8
<1> QED BY <1>3, <1>7, <1>8, <1>9, <1>10

LEMMA SyncMoves ==
  ASSUME LoggerTypeOK, IsApart, PeriodicSync
  PROVE  LoggerTypeOK' /\ IsApart' /\ Moves
<1>1. /\ up /\ unsynced' = FALSE /\ sweep' = NoSweep
      /\ disk' = Flushed(disk, handle)
      /\ UNCHANGED <<now, made, other, up, recording, syncing, current, tmp, mishaps>>
  BY DEF PeriodicSync, LoopRuns, process, rows
<1> DEFINE none == <<>>
<1>2. handle' = [handle EXCEPT !.tail = none, !.writes = 0] /\ none \in Seq(1 .. made)
      /\ Range(none) = {} /\ Len(none) = 0 /\ IsInjective(none)
  BY Started DEF PeriodicSync, IsInjective
<1> HIDE DEF none
<1>3. /\ made \in Nat /\ IsDirectory(disk, made) /\ handle \in Handles(made)
      /\ handle.tail \in Seq(1 .. made) /\ (handle.linked => Jsonl(handle.day) \in DOMAIN disk)
  BY Typed
<1>4. handle' \in Handles(made) /\ handle'.tail = none /\ handle'.writes = 0
      /\ handle'.linked = handle.linked /\ handle'.day = handle.day
  <2>1. 0 \in 0 .. made
    BY <1>3
  <2> QED BY <1>2, <1>3, <2>1 DEF Handles
<1>5. IsDirectory(disk', made) /\ Grows(disk, disk', Range(handle.tail)) /\ DOMAIN disk' = DOMAIN disk
  <2>1. handle.tail \in Seq(0 .. made)
    BY <1>3, Wider
  <2> QED BY <1>1, <1>3, <2>1, FlushedGrows
<1>6. /\ recording' \in BOOLEAN /\ syncing' \in BOOLEAN /\ unsynced' \in BOOLEAN
      /\ mishaps' \in 0 .. MaxMishaps /\ made' \in 0 .. MaxRecords
  BY <1>1 DEF LoggerTypeOK
<1>7. /\ Len(handle'.tail) <= handle'.writes /\ IsInjective(handle'.tail)
      /\ (handle'.linked => Jsonl(handle'.day) \in DOMAIN disk')
      /\ Range(handle'.tail) \subseteq (Range(handle.tail) \cup Fresh) \ Range(handle.tail)
  BY <1>2, <1>3, <1>4, <1>5
<1>8. IsDirectory(disk', made') /\ handle' \in Handles(made') /\ made' = made
  BY <1>1, <1>4, <1>5
<1> QED BY <1>1, <1>5, <1>6, <1>7, <1>8, HandleMoves

LEMMA SyncFailsMoves ==
  ASSUME LoggerTypeOK, IsApart, SyncFails
  PROVE  LoggerTypeOK' /\ IsApart' /\ Moves
<1>1. /\ up /\ syncing' = FALSE /\ mishaps < MaxMishaps /\ mishaps' = mishaps + 1 /\ sweep' = NoSweep
      /\ SyncRaises(handle)
      /\ UNCHANGED <<now, made, other, up, recording, current, tmp, unsynced>>
  BY DEF SyncFails, LoopRuns, Mishap, rows
<1>2. /\ made \in Nat /\ IsDirectory(disk, made) /\ handle \in Handles(made)
      /\ Len(handle.tail) <= handle.writes /\ (handle.linked => Jsonl(handle.day) \in DOMAIN disk)
  BY Typed
<1>3. IsInjective(handle.tail)
  BY DEF IsApart
<1>4. PICK moved :
        /\ Grows(disk, disk', moved) /\ IsDirectory(disk', made)
        /\ handle' \in Handles(made) /\ Len(handle'.tail) <= handle'.writes
        /\ IsInjective(handle'.tail)
        /\ (handle'.linked => Jsonl(handle'.day) \in DOMAIN disk')
        /\ Range(handle'.tail) \subseteq Range(handle.tail) \ moved
        /\ moved \subseteq Range(handle.tail)
  BY <1>1, <1>2, <1>3, RaisesMoves
<1>5. /\ recording' \in BOOLEAN /\ syncing' \in BOOLEAN /\ unsynced' \in BOOLEAN
      /\ mishaps' \in 0 .. MaxMishaps /\ made' \in 0 .. MaxRecords
  <2>1. mishaps \in 0 .. MaxMishaps
    BY DEF LoggerTypeOK
  <2>2. mishaps' \in 0 .. MaxMishaps
    BY <1>1, <2>1, Constants
  <2> QED BY <1>1, <2>2 DEF LoggerTypeOK
<1>6. /\ IsDirectory(disk', made') /\ handle' \in Handles(made') /\ made' = made
      /\ Range(handle'.tail) \subseteq (Range(handle.tail) \cup Fresh) \ moved
      /\ moved \subseteq Range(handle.tail) \cup Fresh
  BY <1>1, <1>4
<1> QED BY <1>1, <1>4, <1>5, <1>6, HandleMoves

(* One line more. *)
LEMMA Longer ==
  ASSUME NEW last \in Nat, NEW s \in Seq(1 .. last), NEW count \in 0 .. last, Len(s) <= count,
         IsInjective(s), NEW t, t = Append(s, last + 1)
  PROVE  /\ t \in Seq(1 .. (last + 1)) /\ Len(t) <= count + 1 /\ IsInjective(t)
         /\ Range(t) = Range(s) \cup {last + 1}
<1> DEFINE n == Len(s)
<1>1. s \in Seq(1 .. (last + 1)) /\ Range(s) \subseteq 1 .. last
  <2>1. 1 .. last \subseteq 1 .. (last + 1)
    OBVIOUS
  <2> QED BY <2>1, Wider
<1>2. t \in Seq(1 .. (last + 1)) /\ Range(t) = Range(s) \cup {last + 1}
  <2>1. last + 1 \in 1 .. (last + 1)
    OBVIOUS
  <2> QED BY <1>1, <2>1, Appended
<1>3. n \in Nat /\ Len(t) = n + 1 /\ DOMAIN t = 1 .. (n + 1) /\ DOMAIN s = 1 .. n
  OBVIOUS
<1>4. t[n + 1] = last + 1 /\ \A i \in 1 .. n : t[i] = s[i]
  OBVIOUS
<1> HIDE DEF n
<1>5. Len(t) <= count + 1
  BY <1>3 DEF n
<1>6. IsInjective(t)
  <2>1. ASSUME NEW i \in 1 .. n PROVE t[i] = s[i] /\ s[i] # last + 1
    <3>1. s[i] \in Range(s)
      BY <1>3, RangeIs
    <3>2. last + 1 \notin 1 .. last
      OBVIOUS
    <3> QED BY <1>1, <1>4, <3>1, <3>2
  <2>2. \A i, j \in 1 .. n : s[i] = s[j] => i = j
    BY <1>3 DEF IsInjective
  <2>3. ASSUME NEW i \in 1 .. (n + 1), NEW j \in 1 .. (n + 1), t[i] = t[j] PROVE i = j
    <3>1. i \in 1 .. n \/ i = n + 1
      BY <1>3
    <3>2. j \in 1 .. n \/ j = n + 1
      BY <1>3
    <3> QED BY <1>4, <2>1, <2>2, <2>3, <3>1, <3>2
  <2> QED BY <1>3, <2>3 DEF IsInjective
<1> QED BY <1>2, <1>5, <1>6

LEMMA EventMoves ==
  ASSUME LoggerTypeOK, IsApart, Event
  PROVE  LoggerTypeOK' /\ IsApart' /\ Moves
<1> DEFINE turned == handle.day # Today
           none == <<>>
           new == [Nothing EXCEPT !.day = Today, !.linked = TRUE]
           dir == IF turned THEN Opened(Flushed(disk, handle), Today) ELSE disk
           moved == IF turned THEN Range(handle.tail) ELSE {}
           h == IF turned THEN new ELSE handle
           longer == [h EXCEPT !.tail = Append(@, made'), !.writes = @ + 1]
           flushed == [longer EXCEPT !.tail = none, !.writes = 0]
<1>1. /\ up /\ made < MaxRecords /\ made' = made + 1 /\ unsynced' = TRUE /\ sweep' = NoSweep
      /\ UNCHANGED <<now, other, up, recording, syncing, current, tmp, mishaps>>
  BY DEF Event, LoopRuns, process, rows
<1>2. \/ SyncDue(longer.writes) /\ disk' = Flushed(dir, longer) /\ handle' = flushed
      \/ ~SyncDue(longer.writes) /\ disk' = dir /\ handle' = longer
  BY Zenon DEF Event
<1>3. /\ made \in Nat /\ Today \in Days /\ IsDirectory(disk, made) /\ handle \in Handles(made)
      /\ handle.tail \in Seq(1 .. made) /\ Len(handle.tail) <= handle.writes
      /\ (handle.linked => Jsonl(handle.day) \in DOMAIN disk)
      /\ Range(handle.tail) \subseteq 1 .. made
  BY Typed
<1>4. /\ made' \in 0 .. MaxRecords /\ made' \in Nat /\ made' \notin 0 .. made /\ made <= made'
      /\ Fresh = {made'}
  BY <1>1, <1>3, Constants DEF Fresh
<1>5. /\ none \in Seq(1 .. made) /\ none \in Seq(1 .. made') /\ Range(none) = {} /\ Len(none) = 0
      /\ IsInjective(none)
  BY Started DEF IsInjective
<1> HIDE DEF none
<1>6. /\ new \in Handles(made) /\ new.day = Today /\ new.linked /\ new.tail = none /\ new.writes = 0
  <2> DEFINE nothing == Nothing
  <2>1. nothing = [day |-> -1, linked |-> FALSE, tail |-> none, writes |-> 0]
    BY DEF Nothing, none
  <2>2. 0 \in 0 .. made /\ -1 \in Days \cup {-1}
    BY <1>3
  <2>3. new = [nothing EXCEPT !.day = Today, !.linked = TRUE]
    OBVIOUS
  <2> HIDE DEF nothing, new
  <2>4. nothing \in Handles(made)
    BY <1>5, <2>1, <2>2 DEF Handles
  <2> QED BY <1>3, <2>1, <2>3, <2>4 DEF Handles
<1> HIDE DEF new
<1>7. /\ IsDirectory(dir, made) /\ Grows(disk, dir, moved)
      /\ h \in Handles(made) /\ Len(h.tail) <= h.writes /\ IsInjective(h.tail)
      /\ (h.linked => Jsonl(h.day) \in DOMAIN dir)
      /\ Range(h.tail) \cup moved = Range(handle.tail) /\ Range(h.tail) \cap moved = {}
  <2>1. IsInjective(handle.tail)
    BY DEF IsApart
  <2>2. CASE turned
    <3> DEFINE between == Flushed(disk, handle)
    <3>1. handle.tail \in Seq(0 .. made)
      BY <1>3, Wider
    <3>2. IsDirectory(between, made) /\ Grows(disk, between, Range(handle.tail))
      BY <1>3, <3>1, FlushedGrows
    <3> HIDE DEF between
    <3>3. dir = Opened(between, Today) /\ moved = Range(handle.tail) /\ h = new
      BY <2>2 DEF between
    <3>4. IsDirectory(dir, made) /\ Grows(between, dir, {}) /\ Jsonl(Today) \in DOMAIN dir
      BY <1>3, <3>2, <3>3, OpenedGrows
    <3> HIDE DEF dir, moved, h
    <3>5. Grows(disk, dir, Range(handle.tail) \cup {})
      BY <1>3, <3>2, <3>4, GrowsOn
    <3>6. Grows(disk, dir, moved)
      <4>1. Range(handle.tail) \cup {} = moved
        BY <3>3
      <4> QED BY <3>5, <4>1
    <3>7. h \in Handles(made) /\ h.tail = none /\ h.day = Today /\ h.writes = 0
      BY <1>6, <3>3
    <3> QED BY <1>5, <3>3, <3>4, <3>6, <3>7
  <2>3. CASE ~turned
    <3>1. dir = disk /\ moved = {} /\ h = handle
      BY <2>3
    <3>2. Grows(disk, disk, {})
      BY <1>3, GrowsNot
    <3> QED BY <1>3, <2>1, <3>1, <3>2
  <2> QED BY <2>2, <2>3
<1> HIDE DEF turned, dir, moved, h
<1>8. /\ longer \in Handles(made') /\ Len(longer.tail) <= longer.writes /\ IsInjective(longer.tail)
      /\ longer.day = h.day /\ longer.linked = h.linked
      /\ Range(longer.tail) = Range(h.tail) \cup {made'}
  <2> DEFINE tail == Append(h.tail, made + 1)
             count == h.writes + 1
  <2>1. /\ h.day \in Days \cup {-1} /\ h.linked \in BOOLEAN /\ h.tail \in Seq(1 .. made)
        /\ h.writes \in 0 .. made
    BY <1>7 DEF Handles
  <2>2. longer = [h EXCEPT !.tail = tail, !.writes = count] /\ tail = Append(h.tail, made + 1)
    BY <1>1
  <2> HIDE DEF longer, tail
  <2>3. /\ tail \in Seq(1 .. (made + 1)) /\ Len(tail) <= count /\ IsInjective(tail)
        /\ Range(tail) = Range(h.tail) \cup {made + 1}
    BY <1>3, <1>7, <2>1, <2>2, Longer
  <2>4. count \in 0 .. (made + 1)
    BY <1>3, <2>1
  <2> HIDE DEF count
  <2>5. /\ longer \in Handles(made + 1) /\ longer.tail = tail /\ longer.writes = count
        /\ longer.day = h.day /\ longer.linked = h.linked
    BY <1>7, <2>1, <2>2, <2>3, <2>4 DEF Handles
  <2> QED BY <1>1, <2>3, <2>5
<1> HIDE DEF longer
<1>9. /\ flushed \in Handles(made') /\ flushed.tail = none /\ flushed.day = h.day
      /\ flushed.linked = h.linked /\ flushed.writes = 0
  <2>1. 0 \in 0 .. made'
    BY <1>4
  <2> QED BY <1>5, <1>8, <2>1 DEF Handles
<1> HIDE DEF flushed
<1> DEFINE all == IF SyncDue(longer.writes) THEN moved \cup Range(longer.tail) ELSE moved
<1>10. IsDirectory(dir, made') /\ IsDirectory(disk, made')
  BY <1>3, <1>4, <1>7, DirectoryWider
<1>11. /\ IsDirectory(disk', made') /\ Grows(disk, disk', all) /\ handle' \in Handles(made')
       /\ (handle'.linked => Jsonl(handle'.day) \in DOMAIN disk')
       /\ Len(handle'.tail) <= handle'.writes /\ IsInjective(handle'.tail)
       /\ Range(handle'.tail) \subseteq (Range(handle.tail) \cup {made'}) \ all
  <2>1. made' \notin moved /\ moved \subseteq Range(handle.tail)
    BY <1>3, <1>4, <1>7
  <2>2. CASE SyncDue(longer.writes)
    <3>1. disk' = Flushed(dir, longer) /\ handle' = flushed /\ all = moved \cup Range(longer.tail)
      BY <1>2, <2>2
    <3>2. longer.tail \in Seq(0 .. made') /\ (longer.linked => Jsonl(longer.day) \in DOMAIN dir)
      <4>1. longer.tail \in Seq(1 .. made')
        BY <1>8 DEF Handles
      <4>2. longer.tail \in Seq(0 .. made')
        BY <1>4, <4>1, Wider
      <4> QED BY <1>7, <1>8, <4>2
    <3>3. /\ IsDirectory(disk', made') /\ Grows(dir, disk', Range(longer.tail))
          /\ DOMAIN disk' = DOMAIN dir
      BY <1>4, <1>10, <3>1, <3>2, FlushedGrows
    <3> DEFINE dir2 == disk'
               last == made'
               some == Range(longer.tail)
    <3>4. /\ IsDirectory(disk, last) /\ IsDirectory(dir, last) /\ IsDirectory(dir2, last)
          /\ Grows(disk, dir, moved) /\ Grows(dir, dir2, some) /\ last \in Nat
      BY <1>4, <1>7, <1>10, <3>3
    <3> HIDE DEF dir2, last, some
    <3>5. Grows(disk, dir2, moved \cup some)
      BY <3>4, GrowsOn
    <3>6. moved \cup some = all
      BY <3>1 DEF some
    <3>7. Grows(disk, disk', all)
      BY <3>5, <3>6 DEF dir2
    <3>8. handle' = flushed /\ handle'.tail = none
      BY <1>9, <3>1
    <3>9. Range(handle'.tail) \subseteq (Range(handle.tail) \cup {made'}) \ all
      BY <1>5, <3>8
    <3>10. Len(handle'.tail) <= handle'.writes /\ IsInjective(handle'.tail)
      BY <1>5, <1>9, <3>8
    <3> QED BY <1>7, <1>9, <3>1, <3>3, <3>7, <3>9, <3>10
  <2>3. CASE ~SyncDue(longer.writes)
    <3>1. disk' = dir /\ handle' = longer /\ all = moved
      BY <1>2, <2>3
    <3>2. Range(handle'.tail) \subseteq (Range(handle.tail) \cup {made'}) \ all
      BY <1>7, <1>8, <2>1, <3>1
    <3> QED BY <1>7, <1>8, <1>10, <3>1, <3>2
  <2> QED BY <2>2, <2>3
<1>12. all \subseteq Range(handle.tail) \cup {made'}
  BY <1>7, <1>8
<1> HIDE DEF all
<1>13. /\ recording' \in BOOLEAN /\ syncing' \in BOOLEAN /\ unsynced' \in BOOLEAN
       /\ mishaps' \in 0 .. MaxMishaps
  BY <1>1 DEF LoggerTypeOK
<1> QED BY <1>1, <1>4, <1>11, <1>12, <1>13, HandleMoves

LEMMA EventFailsMoves ==
  ASSUME LoggerTypeOK, IsApart, EventFails
  PROVE  LoggerTypeOK' /\ IsApart' /\ Moves
<1> DEFINE longer == [handle EXCEPT !.tail = Append(@, made'), !.writes = @ + 1]
<1>1. /\ up /\ made < MaxRecords /\ made' = made + 1 /\ sweep' = NoSweep
      /\ mishaps < MaxMishaps /\ mishaps' = mishaps + 1
      /\ UNCHANGED <<now, other, up, recording, syncing, current, tmp, unsynced>>
  BY DEF EventFails, LoopRuns, Mishap, process, rows
<1>2. \/ SyncRaises(handle)
      \/ SyncRaises(longer)
      \/ disk' = Flushed(disk, handle) /\ handle' = Nothing
  BY Zenon DEF EventFails
<1>3. /\ made \in Nat /\ IsDirectory(disk, made) /\ handle \in Handles(made)
      /\ handle.tail \in Seq(1 .. made) /\ Len(handle.tail) <= handle.writes
      /\ (handle.linked => Jsonl(handle.day) \in DOMAIN disk)
  BY Typed
<1>4. IsInjective(handle.tail)
  BY DEF IsApart
<1>5. /\ made' \in 0 .. MaxRecords /\ made' \in Nat /\ made <= made' /\ Fresh = {made'}
  BY <1>1, <1>3, Constants DEF Fresh
<1>6. IsDirectory(disk, made')
  BY <1>3, <1>5, DirectoryWider
<1>7. mishaps' \in 0 .. MaxMishaps
  <2>1. mishaps \in 0 .. MaxMishaps
    BY DEF LoggerTypeOK
  <2> QED BY <1>1, <2>1, Constants
<1>8. recording' \in BOOLEAN /\ syncing' \in BOOLEAN /\ unsynced' \in BOOLEAN
  BY <1>1 DEF LoggerTypeOK
<1>9. handle \in Handles(made')
  <2>1. 1 .. made \subseteq 1 .. made' /\ 0 .. made \subseteq 0 .. made'
    BY <1>1, <1>3
  <2>2. handle.tail \in Seq(1 .. made')
    BY <1>3, <2>1, Wider
  <2> QED BY <1>3, <2>1, <2>2 DEF Handles
<1>10. /\ longer \in Handles(made') /\ Len(longer.tail) <= longer.writes /\ IsInjective(longer.tail)
       /\ longer.day = handle.day /\ longer.linked = handle.linked
       /\ Range(longer.tail) = Range(handle.tail) \cup {made'}
  <2> DEFINE tail == Append(handle.tail, made + 1)
             count == handle.writes + 1
  <2>1. /\ handle.day \in Days \cup {-1} /\ handle.linked \in BOOLEAN /\ handle.tail \in Seq(1 .. made)
        /\ handle.writes \in 0 .. made
    BY <1>3 DEF Handles
  <2>2. longer = [handle EXCEPT !.tail = tail, !.writes = count] /\ tail = Append(handle.tail, made + 1)
    BY <1>1
  <2> HIDE DEF longer, tail
  <2>3. /\ tail \in Seq(1 .. (made + 1)) /\ Len(tail) <= count /\ IsInjective(tail)
        /\ Range(tail) = Range(handle.tail) \cup {made + 1}
    BY <1>3, <1>4, <2>1, <2>2, Longer
  <2>4. count \in 0 .. (made + 1)
    BY <1>3, <2>1
  <2> HIDE DEF count
  <2>5. /\ longer \in Handles(made + 1) /\ longer.tail = tail /\ longer.writes = count
        /\ longer.day = handle.day /\ longer.linked = handle.linked
    BY <1>3, <2>1, <2>2, <2>3, <2>4 DEF Handles
  <2> QED BY <1>1, <2>3, <2>5
<1> HIDE DEF longer
<1>11. ASSUME NEW h \in Handles(made'), Len(h.tail) <= h.writes, IsInjective(h.tail), SyncRaises(h),
              h.linked => Jsonl(h.day) \in DOMAIN disk,
              Range(h.tail) \subseteq Range(handle.tail) \cup {made'}
       PROVE  LoggerTypeOK' /\ IsApart' /\ Moves
  <2> DEFINE last == made'
  <2>1. last \in Nat /\ h \in Handles(last) /\ IsDirectory(disk, last)
    BY <1>5, <1>6, <1>11
  <2> HIDE DEF last
  <2>2. PICK moved :
          /\ Grows(disk, disk', moved) /\ IsDirectory(disk', last)
          /\ handle' \in Handles(last) /\ Len(handle'.tail) <= handle'.writes
          /\ IsInjective(handle'.tail)
          /\ (handle'.linked => Jsonl(handle'.day) \in DOMAIN disk')
          /\ Range(handle'.tail) \subseteq Range(h.tail) \ moved
          /\ moved \subseteq Range(h.tail)
    BY <1>11, <2>1, RaisesMoves
  <2>3. /\ IsDirectory(disk', made') /\ handle' \in Handles(made')
        /\ Range(handle'.tail) \subseteq (Range(handle.tail) \cup Fresh) \ moved
        /\ moved \subseteq Range(handle.tail) \cup Fresh
    BY <1>5, <1>11, <2>2 DEF last
  <2> QED BY <1>1, <1>5, <1>7, <1>8, <2>2, <2>3, HandleMoves
<1>12. CASE SyncRaises(handle)
  BY <1>3, <1>4, <1>9, <1>11, <1>12
<1>13. CASE SyncRaises(longer)
  BY <1>3, <1>10, <1>11, <1>13
<1>14. CASE disk' = Flushed(disk, handle) /\ handle' = Nothing
  <2> DEFINE none == <<>>
  <2>1. /\ Nothing = [day |-> -1, linked |-> FALSE, tail |-> none, writes |-> 0]
        /\ none \in Seq(1 .. made') /\ Range(none) = {} /\ Len(none) = 0 /\ IsInjective(none)
    BY Started DEF Nothing, IsInjective
  <2> HIDE DEF none
  <2>2. handle.tail \in Seq(0 .. made')
    BY <1>9, <1>5, Wider DEF Handles
  <2> DEFINE last == made'
  <2>3. last \in Nat /\ handle.tail \in Seq(0 .. last) /\ IsDirectory(disk, last)
    BY <1>5, <1>6, <2>2
  <2> HIDE DEF last
  <2>4. IsDirectory(disk', last) /\ Grows(disk, disk', Range(handle.tail))
    BY <1>3, <1>14, <2>3, FlushedGrows
  <2>5. 0 \in 0 .. made' /\ -1 \in Days \cup {-1}
    BY <1>5
  <2>6. handle' \in Handles(made') /\ ~handle'.linked /\ handle'.tail = none /\ handle'.writes = 0
    BY <1>14, <2>1, <2>5 DEF Handles
  <2>7. /\ Len(handle'.tail) <= handle'.writes /\ IsInjective(handle'.tail)
        /\ Range(handle'.tail) \subseteq (Range(handle.tail) \cup Fresh) \ Range(handle.tail)
    BY <2>1, <2>6
  <2>8. IsDirectory(disk', made')
    BY <2>4 DEF last
  <2> QED BY <1>1, <1>5, <1>7, <1>8, <2>4, <2>6, <2>7, <2>8, HandleMoves
<1> QED BY <1>2, <1>12, <1>13, <1>14

LEMMA DeleteFileMoves ==
  ASSUME LoggerTypeOK, IsApart, DeleteFile
  PROVE  LoggerTypeOK' /\ IsApart' /\ Moves
<1>1. PICK file \in sweep.files :
        /\ disk' = Without(disk, {file})
        /\ handle' = [handle EXCEPT !.linked = @ /\ file # Jsonl(handle.day)]
        /\ sweep' = [sweep EXCEPT !.files = IF Usage(disk') < Threshold THEN {} ELSE @ \ {file}]
        /\ UNCHANGED <<now, made, other, up, recording, syncing, current, tmp, unsynced, query, mishaps>>
  BY DEF DeleteFile, process, rows
<1>2. DOMAIN disk' = DOMAIN disk \ {file} /\ \A f \in DOMAIN disk' : disk'[f] = disk[f]
  BY <1>1 DEF Without
<1> DEFINE still == handle.linked /\ file # Jsonl(handle.day)
           left  == IF Usage(disk') < Threshold THEN {} ELSE sweep.files \ {file}
<1>3. handle' = [handle EXCEPT !.linked = still] /\ still \in BOOLEAN
  BY <1>1
<1>4. /\ handle \in Handles(made) /\ made \in Nat /\ IsSweep
      /\ (handle.linked => Jsonl(handle.day) \in DOMAIN disk)
  BY Typed
<1>5. still => Jsonl(handle.day) \in DOMAIN disk'
  BY <1>2, <1>4
<1>6. sweep' = [sweep EXCEPT !.files = left] /\ left \subseteq sweep.files \ {file}
  BY <1>1
<1> HIDE DEF still, left
<1>7. handle' \in Handles(made) /\ handle'.tail = handle.tail /\ handle'.day = handle.day
      /\ handle'.linked = still /\ handle'.writes = handle.writes
  BY <1>3, <1>4 DEF Handles
<1>8. IsSweep'
  <2>1. left \subseteq DOMAIN disk'
    BY <1>2, <1>4, <1>6 DEF IsSweep
  <2>2. sweep' \in [list : 0 .. 4, files : SUBSET DOMAIN disk', failed : SUBSET Files,
                     began : Days, calm : BOOLEAN]
    BY <1>4, <1>6, <2>1 DEF IsSweep
  <2> QED BY <2>2 DEF IsSweep
<1>9. LoggerTypeOK'
  <2>1. handle'.linked => Jsonl(handle'.day) \in DOMAIN disk'
    BY <1>5, <1>7
  <2>2. DOMAIN disk' \subseteq ({"parquet"} \X Hours) \cup ({"jsonl"} \X Days)
        /\ \A f \in DOMAIN disk' : disk'[f] \in Seq(0 .. made')
    BY <1>1, <1>2 DEF LoggerTypeOK
  <2>3. Len(handle'.tail) <= handle'.writes
    BY <1>7 DEF LoggerTypeOK
  <2> QED BY <1>1, <1>7, <1>8, <2>1, <2>2, <2>3 DEF LoggerTypeOK, IsSweep, Files, Handles
<1>10. Pending' = Pending
  BY <1>1, <1>7 DEF Pending
<1>11. IsApart'
  <2>1. Range(current'.rows) \cap Range(handle'.tail) = {} /\ IsInjective(handle'.tail)
    BY <1>1, <1>7 DEF IsApart
  <2>2. \A f \in DOMAIN disk' : Range(disk'[f]) \cap Pending' = {}
    BY <1>2, <1>10 DEF IsApart
  <2> QED BY <1>1, <2>1, <2>2 DEF IsApart
<1>12. Moves
  BY <1>1, <1>4, <1>10 DEF Moves
<1> QED BY <1>9, <1>11, <1>12

(* The steps of a sweep that delete nothing. *)
LEMMA SweepMoves ==
  ASSUME LoggerTypeOK, SweepStarts \/ DeleteFails \/ NextList
  PROVE  /\ LoggerTypeOK'
         /\ UNCHANGED <<now, made, other, up, recording, syncing, current, tmp, disk, handle, unsynced,
                        query>>
<1>1. /\ UNCHANGED <<now, made, other, up, recording, syncing, current, tmp, disk, handle, unsynced,
                      query>>
  BY DEF SweepStarts, DeleteFails, NextList, process, rows, events
<1>2. mishaps' \in 0 .. MaxMishaps
  <2>1. mishaps \in 0 .. MaxMishaps
    BY DEF LoggerTypeOK
  <2>2. mishaps' = mishaps \/ (mishaps < MaxMishaps /\ mishaps' = mishaps + 1)
    BY Zenon DEF SweepStarts, DeleteFails, NextList, Mishap
  <2> QED BY <2>1, <2>2, Constants
<1>3. IsSweep /\ Today \in Days /\ DOMAIN disk \subseteq Files
  BY Typed DEF IsDirectory
<1>4. \A list : Doomed(list) \subseteq DOMAIN disk
  BY DEF Doomed, OfKind
<1> DEFINE Sweeps == [list : 0 .. 4, files : SUBSET DOMAIN disk, failed : SUBSET Files, began : Days,
                      calm : BOOLEAN]
<1>5. sweep' \in Sweeps
  <2>1. CASE SweepStarts
    <3> DEFINE files == Doomed(1)
               day == Today
               none == {}
    <3>1. sweep' = [list |-> 1, files |-> files, failed |-> none, began |-> day, calm |-> TRUE]
      BY <2>1 DEF SweepStarts
    <3>2. files \in SUBSET DOMAIN disk /\ day \in Days /\ none \in SUBSET Files
      BY <1>3, <1>4
    <3> HIDE DEF files, day, none
    <3> QED BY <3>1, <3>2
  <2>2. CASE DeleteFails
    <3>1. PICK file \in sweep.files :
            sweep' = [sweep EXCEPT !.files = @ \ {file}, !.failed = @ \cup {file}]
      BY <2>2 DEF DeleteFails
    <3> DEFINE files == sweep.files \ {file}
               failed == sweep.failed \cup {file}
    <3>2. /\ sweep \in Sweeps /\ files \in SUBSET DOMAIN disk /\ failed \in SUBSET Files
          /\ sweep' = [sweep EXCEPT !.files = files, !.failed = failed]
      BY <1>3, <3>1 DEF IsSweep
    <3> HIDE DEF files, failed
    <3> QED BY <3>2
  <2>3. CASE NextList
    <3> DEFINE list == sweep.list + 1
               files == Doomed(list)
    <3>1. CASE sweep' = NoSweep
      <4>1. NoSweep \in [list : 0 .. 4, files : SUBSET DOMAIN disk', failed : SUBSET Files,
                         began : Days, calm : BOOLEAN]
        BY NoSweepIsSweep
      <4> QED BY <1>1, <3>1, <4>1
    <3>2. CASE sweep' # NoSweep
      <4>1. sweep' = [sweep EXCEPT !.list = list, !.files = files] /\ sweep.list # 4
        BY <2>3, <3>2 DEF NextList, LastList
      <4>2. sweep \in Sweeps /\ list \in 0 .. 4 /\ files \in SUBSET DOMAIN disk
        BY <1>3, <1>4, <4>1 DEF IsSweep
      <4> HIDE DEF list, files
      <4> QED BY <4>1, <4>2
    <3> QED BY <3>1, <3>2
  <2> QED BY <2>1, <2>2, <2>3
<1>6. IsSweep'
  BY <1>1, <1>5 DEF IsSweep
<1> QED BY <1>1, <1>2, <1>6 DEF LoggerTypeOK, IsSweep, Files

(* The process ends. *)
LEMMA EndedMoves ==
  ASSUME LoggerTypeOK, IsApart, NEW dir, Ended(dir), IsDirectory(dir, made),
         Grows(disk, dir, Pending \cup {Torn}), tmp' \subseteq Hours, mishaps' \in 0 .. MaxMishaps
  PROVE  LoggerTypeOK' /\ IsApart' /\ Moves
<1>1. /\ disk' = dir /\ up' = FALSE /\ current' = Closed /\ handle' = Nothing /\ unsynced' = FALSE
      /\ UNCHANGED <<now, made, other, recording, syncing>> /\ sweep' = NoSweep
  BY DEF Ended
<1> DEFINE none == <<>>
<1>2. /\ Nothing = [day |-> -1, linked |-> FALSE, tail |-> none, writes |-> 0]
      /\ Closed.rows = none /\ none \in Seq(1 .. made) /\ Range(none) = {} /\ Len(none) = 0
      /\ IsInjective(none)
  BY Started DEF Nothing, Closed, IsInjective
<1> HIDE DEF none
<1>3. Nothing \in Handles(made) /\ ~Nothing.linked /\ Nothing.tail = none /\ Nothing.writes = 0
  <2>1. 0 \in 0 .. made /\ -1 \in Days \cup {-1}
    BY Typed
  <2> QED BY <1>2, <2>1 DEF Handles
<1>4. LoggerTypeOK'
  <2>1. DOMAIN disk' \subseteq ({"parquet"} \X Hours) \cup ({"jsonl"} \X Days)
        /\ \A file \in DOMAIN disk' : disk'[file] \in Seq(0 .. made')
    BY <1>1 DEF IsDirectory, Files
  <2>2. current' \in {Closed} \cup [hour : tmp', rows : Seq(1 .. made')]
    BY <1>1
  <2>3. handle' \in Handles(made') /\ ~handle'.linked /\ Len(handle'.tail) <= handle'.writes
    BY <1>1, <1>2, <1>3
  <2>4. /\ now' \in Hours /\ made' \in 0 .. MaxRecords /\ other' \in 0 .. MaxOther
        /\ up' \in BOOLEAN /\ recording' \in BOOLEAN /\ syncing' \in BOOLEAN /\ unsynced' \in BOOLEAN
    BY <1>1 DEF LoggerTypeOK
  <2>5. IsSweep'
    BY <1>1, NoSweepIsSweep DEF IsSweep
  <2> QED BY <2>1, <2>2, <2>3, <2>4, <2>5 DEF LoggerTypeOK, IsSweep, Files, Handles
<1>5. Range(current'.rows) = {} /\ Range(handle'.tail) = {} /\ IsInjective(handle'.tail)
  <2>1. current'.rows = none /\ handle'.tail = none
    BY <1>1, <1>2, <1>3
  <2> QED BY <1>2, <2>1
<1>6. Pending' = {}
  BY <1>5 DEF Pending
<1>7. IsApart'
  <2>1. \A file \in DOMAIN disk' : Range(disk'[file]) \cap Pending' = {}
    BY <1>6
  <2> QED BY <1>1, <1>5, <2>1 DEF IsApart
<1>8. Moves
  <2>1. made \in Nat /\ Pending \cup {Torn} \subseteq Pending \cup Fresh \cup {Torn}
    BY Typed
  <2>2. Grows(disk, disk', Pending \cup Fresh \cup {Torn})
    BY <1>1, <2>1, GrowsMore
  <2> QED BY <1>1, <1>6, <2>1, <2>2 DEF Moves
<1> QED BY <1>4, <1>7, <1>8

(* What was written through of the buffered events, the last line torn. *)
LEMMA LostGrows ==
  ASSUME LoggerTypeOK, Lost(disk)
  PROVE  \E dir : /\ Ended(dir) /\ IsDirectory(dir, made)
                  /\ Grows(disk, dir, Pending \cup {Torn})
<1>1. PICK n \in 0 .. Len(handle.tail), torn \in {<<>>, <<Torn>>} :
        Ended(Flushed(disk, [handle EXCEPT !.tail = SubSeq(@, 1, n) \o torn]))
  BY DEF Lost
<1> DEFINE kept == SubSeq(handle.tail, 1, n)
           tail == kept \o torn
           h == [handle EXCEPT !.tail = tail]
           dir == Flushed(disk, h)
<1>2. /\ made \in Nat /\ IsDirectory(disk, made) /\ handle \in Handles(made)
      /\ handle.tail \in Seq(1 .. made)
      /\ (handle.linked => Jsonl(handle.day) \in DOMAIN disk)
  BY Typed DEF LoggerTypeOK
<1>3. kept \in Seq(1 .. made) /\ Range(kept) \subseteq Range(handle.tail)
  BY <1>2, Cut
<1>4. torn \in Seq(0 .. made) /\ Range(torn) \subseteq {Torn}
  <2>1. CASE torn = <<>>
    BY <2>1, Started
  <2>2. CASE torn = <<Torn>>
    <3>1. Torn \in 0 .. made
      BY <1>2 DEF Torn
    <3>2. torn \in Seq(0 .. made) /\ DOMAIN torn = {1} /\ torn[1] = Torn
      BY <2>2, <3>1
    <3> QED BY <3>2, RangeIs
  <2> QED BY <2>1, <2>2
<1>5. tail \in Seq(0 .. made) /\ Range(tail) \subseteq Range(handle.tail) \cup {Torn}
  <2>1. kept \in Seq(0 .. made)
    BY <1>2, <1>3, Wider
  <2> HIDE DEF kept
  <2>2. tail \in Seq(0 .. made) /\ Range(tail) = Range(kept) \cup Range(torn)
    BY <1>4, <2>1, Joined
  <2> QED BY <1>3, <1>4, <2>2
<1>6. Ended(dir)
  BY <1>1
<1> HIDE DEF kept, tail
<1>7. h.tail = tail /\ h.linked = handle.linked /\ h.day = handle.day
  BY <1>2 DEF Handles
<1> HIDE DEF h
<1>8. IsDirectory(dir, made) /\ Grows(disk, dir, Range(h.tail))
  BY <1>2, <1>5, <1>7, FlushedGrows
<1>9. Range(h.tail) \subseteq Pending \cup {Torn}
  BY <1>5, <1>7 DEF Pending
<1>10. Grows(disk, dir, Pending \cup {Torn})
  BY <1>8, <1>9, GrowsMore
<1> QED BY <1>6, <1>8, <1>10

LEMMA CrashMoves ==
  ASSUME LoggerTypeOK, IsApart, Crash
  PROVE  LoggerTypeOK' /\ IsApart' /\ Moves
<1>1. mishaps' \in 0 .. MaxMishaps /\ tmp' \subseteq Hours
  BY Constants DEF Crash, Mishap, LoggerTypeOK
<1>2. Lost(disk)
  BY DEF Crash
<1> QED BY <1>1, <1>2, LostGrows, EndedMoves

LEMMA StopMoves ==
  ASSUME LoggerTypeOK, IsApart, Stop
  PROVE  LoggerTypeOK' /\ IsApart' /\ Moves
<1>1. mishaps' \in 0 .. MaxMishaps /\ tmp \subseteq Hours
  BY Constants DEF Stop, Mishap, LoggerTypeOK
<1>2. CASE Lost(disk) /\ UNCHANGED tmp
  BY <1>1, <1>2, LostGrows, EndedMoves
<1>3. CASE Ended(Flushed(Finished(disk, current), handle)) /\ tmp' = tmp \ {current.hour}
  <2> DEFINE between == Finished(disk, current)
             dir == Flushed(between, handle)
  <2>1. /\ made \in Nat /\ current \in {Closed} \cup [hour : Hours, rows : Seq(1 .. made)]
        /\ IsDirectory(disk, made) /\ handle.tail \in Seq(1 .. made)
        /\ (handle.linked => Jsonl(handle.day) \in DOMAIN disk)
    BY Typed DEF LoggerTypeOK
  <2>2. IsDirectory(between, made) /\ Grows(disk, between, Range(current.rows))
    BY <2>1, FinishedGrows
  <2>3. Ended(dir)
    BY <1>3
  <2> HIDE DEF between
  <2>4. handle.tail \in Seq(0 .. made)
    BY <2>1, Wider
  <2>5. handle.linked => Jsonl(handle.day) \in DOMAIN between
    BY <2>1, <2>2 DEF Grows
  <2>6. IsDirectory(dir, made) /\ Grows(between, dir, Range(handle.tail))
    BY <2>1, <2>2, <2>4, <2>5, FlushedGrows
  <2> HIDE DEF dir
  <2>7. Grows(disk, dir, Range(current.rows) \cup Range(handle.tail))
    BY <2>1, <2>2, <2>6, GrowsOn
  <2>8. Grows(disk, dir, Pending \cup {Torn})
    BY <2>7, GrowsMore DEF Pending
  <2> QED BY <1>1, <1>3, <2>3, <2>6, <2>8, EndedMoves
<1> QED BY <1>2, <1>3 DEF Stop

LEMMA StartMoves ==
  ASSUME LoggerTypeOK, IsApart, Start
  PROVE  LoggerTypeOK' /\ IsApart' /\ Moves
<1>1. /\ ~up /\ up' = TRUE /\ recording' = TRUE /\ syncing' = TRUE /\ tmp' = {}
      /\ UNCHANGED <<now, made, other, current, disk, handle, unsynced, sweep, query, mishaps>>
  BY DEF Start, events
<1>2. current = Closed
  BY <1>1 DEF IsApart
<1>3. LoggerTypeOK'
  BY <1>1, <1>2 DEF LoggerTypeOK
<1> QED BY <1>1, <1>3, Untouched

(* Every step. *)
LEMMA EveryStep ==
  ASSUME LoggerTypeOK, IsApart, [LoggerNext]_loggerVars
  PROVE  LoggerTypeOK' /\ IsApart' /\ Moves
<1>1. CASE UNCHANGED <<made, other, process, rows, disk, events, sweep, mishaps>> /\ now' \in Hours
  <2>1. LoggerTypeOK' /\ up' = up /\ UNCHANGED <<made, disk, current, handle>>
    BY <1>1 DEF LoggerTypeOK, process, rows, events
  <2> QED BY <2>1, Untouched DEF IsApart
<1>2. CASE Row
  BY <1>2, RowMoves
<1>3. CASE RowFails
  BY <1>3, RowFailsMoves
<1>4. CASE Event
  BY <1>4, EventMoves
<1>5. CASE PeriodicSync
  BY <1>5, SyncMoves
<1>6. CASE SyncFails
  BY <1>6, SyncFailsMoves
<1>15. CASE EventFails
  BY <1>15, EventFailsMoves
<1>7. CASE DeleteFile
  BY <1>7, DeleteFileMoves
<1>16. CASE SweepStarts \/ DeleteFails \/ NextList
  BY <1>16, SweepMoves, Untouched DEF IsApart
<1>8. CASE Ask \/ Refuse \/ List \/ Read \/ ReadEvents \/ GiveUp \/ Reply
  <2>1. UNCHANGED <<now, made, other, process, rows, disk, events, sweep, mishaps>>
    BY <1>8 DEF Ask, Refuse, List, Read, ReadEvents, GiveUp, Reply
  <2>2. now' \in Hours
    BY <2>1 DEF LoggerTypeOK
  <2> QED BY <1>1, <2>1, <2>2
<1>9. CASE Crash
  BY <1>9, CrashMoves
<1>10. CASE Stop
  BY <1>10, StopMoves
<1>11. CASE Start
  BY <1>11, StartMoves
<1>12. CASE Clock
  <2>1. now' \in Hours
    BY <1>12, Constants DEF Clock, LoggerTypeOK, Hours
  <2> QED BY <1>1, <1>12, <2>1 DEF Clock
<1>13. CASE Others
  <2>1. /\ other' \in 0 .. MaxOther
        /\ UNCHANGED <<now, made, up, recording, syncing, current, tmp, disk, handle, unsynced, query, mishaps>>
    BY <1>13, Constants DEF Others, process, rows, events, LoggerTypeOK
  <2> DEFINE quiet == sweep = NoSweep
  <2>3. sweep' = [sweep EXCEPT !.calm = quiet] /\ quiet \in BOOLEAN
    BY <1>13 DEF Others
  <2> HIDE DEF quiet
  <2>4. IsSweep'
    BY <2>1, <2>3, Typed DEF IsSweep
  <2>2. LoggerTypeOK'
    BY <2>1, <2>4 DEF LoggerTypeOK, IsSweep, Files
  <2> QED BY <2>1, <2>2, Untouched DEF IsApart
<1>14. CASE UNCHANGED loggerVars
  <2>1. UNCHANGED <<now, made, other, process, rows, disk, events, sweep, mishaps>> /\ now' \in Hours
    BY <1>14 DEF loggerVars, LoggerTypeOK
  <2> QED BY <1>1, <2>1
<1> QED
  BY <1>2, <1>3, <1>4, <1>5, <1>6, <1>7, <1>8, <1>9, <1>10, <1>11, <1>12, <1>13, <1>14, <1>15, <1>16
  DEF LoggerNext, Cleanup

-----------------------------------------------------------------------------
(* The sweep.                                                               *)

(* A list that is not finished is of its kind, and the disk is still too    *)
(* full. If no other program has taken space, the telemetry that is left is *)
(* to be deleted or could not be; in the first two lists it may also have   *)
(* been too young when the sweep began.                                     *)
IsSwept ==
  /\ ~up \/ sweep.list = 0 => sweep = NoSweep
  /\ \A file \in sweep.files :
       /\ Usage(disk) >= Threshold
       /\ file[1] = KindDeleted(sweep.list)
       /\ sweep.list = 2 => IsExpired(file, Today)
  /\ sweep.calm =>
       \/ sweep.list = 0
       \/ sweep.files = {} /\ Usage(disk) < Threshold
       \/ \A left \in OfKind("parquet", disk) \ (sweep.files \cup sweep.failed) :
            sweep.list \in {1, 2} /\ ~IsExpired(left, sweep.began)

LEMMA FilesFinite ==
  ASSUME NEW dir, DOMAIN dir \subseteq Files, NEW hours, hours \subseteq Hours
  PROVE  Cardinality(DOMAIN dir) \in Nat /\ Cardinality(hours) \in Nat
<1>1. IsFiniteSet(Hours) /\ IsFiniteSet(Days)
  BY FS_Interval, Constants, Calendar DEF Hours, Days
<1>2. IsFiniteSet({"parquet"} \X Hours) /\ IsFiniteSet({"jsonl"} \X Days)
  BY <1>1, FS_Singleton, FS_Product
<1>3. IsFiniteSet(Files)
  BY <1>2, FS_Union DEF Files
<1>4. IsFiniteSet(DOMAIN dir) /\ IsFiniteSet(hours)
  BY <1>1, <1>3, FS_Subset
<1> QED BY <1>4, FS_CardinalityType

LEMMA UsageIs ==
  ASSUME LoggerTypeOK, NEW dir, DOMAIN dir \subseteq Files
  PROVE  Usage(dir) \in Nat
<1>1. Cardinality(DOMAIN dir) \in Nat /\ Cardinality(tmp) \in Nat
  BY FilesFinite, Typed
<1>2. other \in Nat
  BY DEF LoggerTypeOK
<1> QED BY <1>1, <1>2 DEF Usage

(* A file that has expired stays so. *)
LEMMA ExpiredStays ==
  ASSUME NEW file \in Files, NEW hour \in Nat, NEW hour2 \in Nat, hour <= hour2,
         IsExpired(file, hour \div HoursPerDay)
  PROVE  IsExpired(file, hour2 \div HoursPerDay)
<1>1. ASSUME NEW a \in Nat, NEW b \in Nat, NEW c \in Nat, c > 0, a <= b
      PROVE  a \div c \in Nat /\ b \div c \in Nat /\ a \div c <= b \div c
  BY <1>1
<1> DEFINE day  == hour \div HoursPerDay
           day2 == hour2 \div HoursPerDay
<1>2. day \in Nat /\ day2 \in Nat /\ day <= day2
  BY <1>1, Constants
<1> HIDE DEF day, day2
<1>3. DayOf(file) \in Nat
  BY Calendar
<1>4. ParquetRetention \in Nat /\ EventRetention \in Nat
  BY LoggerAssumption DEF LoggerAssumption
<1>5. IsExpired(file, day) => IsExpired(file, day2)
  BY <1>2, <1>3, <1>4 DEF IsExpired
<1> QED BY <1>5 DEF day, day2

LEMMA NoSweepSwept ==
  ASSUME sweep' = NoSweep
  PROVE  IsSwept'
<1>1. sweep'.files = {} /\ sweep'.list = 0
  BY DEF NoSweep
<1> QED BY <1>1 DEF IsSwept

(* While other things happen. *)
LEMMA SweepWaits ==
  ASSUME LoggerTypeOK, IsSwept, UNCHANGED <<up, disk, tmp, handle, other, sweep>>,
         now' = now \/ now' = now + 1
  PROVE  IsSwept'
<1>1. Usage(disk)' = Usage(disk)
  BY DEF Usage
<1>2. ASSUME NEW file \in sweep.files, IsExpired(file, Today) PROVE IsExpired(file, Today)'
  <2>1. now \in Nat /\ now' \in Nat /\ now <= now'
    <3>1. now \in Nat
      BY Typed, Calendar
    <3> QED BY <3>1
  <2>2. file \in Files
    BY Typed DEF IsSweep, IsDirectory
  <2>3. IsExpired(file, now' \div HoursPerDay)
    <3> DEFINE hour == now
               hour2 == now'
    <3>1. hour \in Nat /\ hour2 \in Nat /\ hour <= hour2 /\ IsExpired(file, hour \div HoursPerDay)
      BY <1>2, <2>1 DEF Today
    <3> HIDE DEF hour, hour2
    <3>2. IsExpired(file, hour2 \div HoursPerDay)
      BY <2>2, <3>1, ExpiredStays
    <3> QED BY <3>2 DEF hour2
  <2> QED BY <2>3 DEF IsExpired, Today
<1>3. \A file \in sweep'.files :
        /\ Usage(disk)' >= Threshold
        /\ file[1] = KindDeleted(sweep'.list)
        /\ sweep'.list = 2 => IsExpired(file, Today)'
  BY <1>1, <1>2 DEF IsSwept
<1>4. sweep'.calm =>
        \/ sweep'.list = 0
        \/ sweep'.files = {} /\ Usage(disk)' < Threshold
        \/ \A left \in OfKind("parquet", disk') \ (sweep'.files \cup sweep'.failed) :
             sweep'.list \in {1, 2} /\ ~IsExpired(left, sweep'.began)
  BY <1>1 DEF IsSwept
<1>5. ~up' => sweep' = NoSweep
  BY DEF IsSwept
<1> QED BY <1>3, <1>4, <1>5 DEF IsSwept

LEMMA SweepGoesOn ==
  ASSUME IsSwept, sweep # NoSweep \/ sweep.files # {}
  PROVE  up /\ sweep.list # 0
<1>1. sweep # NoSweep
  BY DEF NoSweep
<1> QED BY <1>1 DEF IsSwept

LEMMA OthersSwept ==
  ASSUME LoggerTypeOK, IsSwept, Others
  PROVE  IsSwept'
<1>1. /\ other' = other + 1 /\ sweep' = [sweep EXCEPT !.calm = sweep = NoSweep]
      /\ UNCHANGED <<now, up, tmp, disk, handle>>
  BY DEF Others, process, rows, events
<1>2. IsSweep
  BY Typed
<1>3. CASE sweep = NoSweep
  <2>1. sweep' = NoSweep
    BY <1>1, <1>3 DEF NoSweep
  <2> QED BY <2>1, NoSweepSwept
<1>4. CASE sweep # NoSweep
  <2>1. sweep' = [sweep EXCEPT !.calm = FALSE]
    BY <1>1, <1>4
  <2>2. sweep'.list = sweep.list /\ sweep'.files = sweep.files /\ ~sweep'.calm
    BY <1>2, <2>1 DEF IsSweep
  <2>3. Usage(disk)' = Usage(disk) + 1 /\ Usage(disk) \in Nat
    <3>1. DOMAIN disk \subseteq Files /\ other \in Nat
      BY Typed DEF IsDirectory, LoggerTypeOK
    <3>3. Cardinality(DOMAIN disk) \in Nat /\ Cardinality(tmp) \in Nat
      BY <3>1, FilesFinite, Typed
    <3> QED BY <1>1, <3>1, <3>3, UsageIs DEF Usage
  <2>4. Threshold \in Nat
    BY Constants
  <2>5. \A file \in sweep'.files :
          /\ Usage(disk)' >= Threshold
          /\ file[1] = KindDeleted(sweep'.list)
          /\ sweep'.list = 2 => IsExpired(file, Today)'
    BY <1>1, <2>2, <2>3, <2>4 DEF IsSwept, IsExpired, Today
  <2>6. ~(~up' \/ sweep'.list = 0)
    BY <1>1, <1>4, <2>2, SweepGoesOn
  <2> QED BY <2>2, <2>5, <2>6 DEF IsSwept
<1> QED BY <1>3, <1>4

LEMMA DeleteFileSwept ==
  ASSUME LoggerTypeOK, IsSwept, DeleteFile
  PROVE  IsSwept'
<1>1. PICK file \in sweep.files :
        /\ disk' = Without(disk, {file})
        /\ handle' = [handle EXCEPT !.linked = @ /\ file # Jsonl(handle.day)]
        /\ sweep' = [sweep EXCEPT !.files = IF Usage(disk') < Threshold THEN {} ELSE @ \ {file}]
        /\ UNCHANGED <<now, other, up, tmp>>
  BY DEF DeleteFile, process, rows
<1>2. IsSweep /\ handle \in Handles(made) /\ Threshold \in Nat
  BY Typed, Constants
<1>3. DOMAIN disk' = DOMAIN disk \ {file}
  BY <1>1 DEF Without
<1>4. handle'.day = handle.day
  BY <1>1, <1>2 DEF Handles
<1>5. Usage(disk)' = Usage(disk')
  BY <1>1, <1>4 DEF Usage
<1>6. Usage(disk') \in Nat
  <2> DEFINE dir == disk'
  <2>1. DOMAIN dir \subseteq Files
    BY <1>3, Typed DEF IsDirectory
  <2> HIDE DEF dir
  <2>2. Usage(dir) \in Nat
    BY <2>1, UsageIs
  <2> QED BY <2>2 DEF dir
<1>7. /\ sweep'.list = sweep.list /\ sweep'.failed = sweep.failed /\ sweep'.began = sweep.began
      /\ sweep'.calm = sweep.calm
      /\ sweep'.files = IF Usage(disk') < Threshold THEN {} ELSE sweep.files \ {file}
  BY <1>1, <1>2 DEF IsSweep
<1>8. \A f \in sweep'.files :
        /\ Usage(disk)' >= Threshold
        /\ f[1] = KindDeleted(sweep'.list)
        /\ sweep'.list = 2 => IsExpired(f, Today)'
  BY <1>1, <1>2, <1>5, <1>6, <1>7 DEF IsSwept, IsExpired, Today
<1>9. ASSUME sweep'.calm, sweep'.list # 0, ~(sweep'.files = {} /\ Usage(disk)' < Threshold),
             NEW left \in OfKind("parquet", disk') \ (sweep'.files \cup sweep'.failed)
      PROVE  sweep'.list \in {1, 2} /\ ~IsExpired(left, sweep'.began)
  <2>1. sweep'.files = sweep.files \ {file}
    BY <1>5, <1>7, <1>9
  <2>2. left \in OfKind("parquet", disk) \ (sweep.files \cup sweep.failed)
    BY <1>3, <1>7, <2>1 DEF OfKind
  <2>3. sweep.list \in {1, 2} /\ ~IsExpired(left, sweep.began)
    BY <1>1, <1>7, <1>9, <2>2 DEF IsSwept
  <2> QED BY <1>7, <2>3
<1>10. ~(~up' \/ sweep'.list = 0)
  BY <1>1, <1>7, SweepGoesOn
<1> QED BY <1>8, <1>9, <1>10 DEF IsSwept

LEMMA DeleteFailsSwept ==
  ASSUME LoggerTypeOK, IsSwept, DeleteFails
  PROVE  IsSwept'
<1>1. PICK file \in sweep.files :
        /\ sweep' = [sweep EXCEPT !.files = @ \ {file}, !.failed = @ \cup {file}]
        /\ UNCHANGED <<now, other, up, tmp, disk, handle>>
  BY DEF DeleteFails, process, rows, events
<1>2. IsSweep
  BY Typed
<1>3. /\ sweep'.list = sweep.list /\ sweep'.failed = sweep.failed \cup {file}
      /\ sweep'.began = sweep.began /\ sweep'.calm = sweep.calm
      /\ sweep'.files = sweep.files \ {file}
  BY <1>1, <1>2 DEF IsSweep
<1>4. Usage(disk)' = Usage(disk) /\ Today' = Today
  BY <1>1 DEF Usage, Today
<1>5. \A f \in sweep'.files :
        /\ Usage(disk)' >= Threshold
        /\ f[1] = KindDeleted(sweep'.list)
        /\ sweep'.list = 2 => IsExpired(f, Today)'
  BY <1>3, <1>4 DEF IsSwept, IsExpired
<1>6. ASSUME sweep'.calm, sweep'.list # 0,
             NEW left \in OfKind("parquet", disk') \ (sweep'.files \cup sweep'.failed)
      PROVE  sweep'.list \in {1, 2} /\ ~IsExpired(left, sweep'.began)
  <2>1. left \in OfKind("parquet", disk) \ (sweep.files \cup sweep.failed)
    BY <1>1, <1>3
  <2>2. sweep.list \in {1, 2} /\ ~IsExpired(left, sweep.began)
    BY <1>1, <1>3, <1>6, <2>1 DEF IsSwept
  <2> QED BY <1>3, <2>2
<1>7. ~(~up' \/ sweep'.list = 0)
  BY <1>1, <1>3, SweepGoesOn
<1> QED BY <1>5, <1>6, <1>7 DEF IsSwept

LEMMA SweepStartsSwept ==
  ASSUME LoggerTypeOK, SweepStarts
  PROVE  IsSwept'
<1> DEFINE files == Doomed(1)
           day == Today
           none == {}
<1>1. /\ up /\ Usage(disk) >= Threshold
      /\ sweep' = [list |-> 1, files |-> files, failed |-> none, began |-> day, calm |-> TRUE]
      /\ UNCHANGED <<now, other, up, tmp, disk, handle>>
  BY DEF SweepStarts, LoopRuns, process, rows, events
<1>2. \A file \in files : file[1] = KindDeleted(1)
  BY DEF Doomed, OfKind
<1>3. ASSUME NEW left \in OfKind("parquet", disk) \ files PROVE ~IsExpired(left, day)
  BY DEF Doomed, KindDeleted
<1> HIDE DEF files, day
<1>4. /\ sweep'.list = 1 /\ sweep'.files = files /\ sweep'.failed = {} /\ sweep'.began = day
  BY <1>1
<1>5. Usage(disk)' = Usage(disk)
  BY <1>1 DEF Usage
<1>6. \A f \in sweep'.files :
        /\ Usage(disk)' >= Threshold
        /\ f[1] = KindDeleted(sweep'.list)
        /\ sweep'.list = 2 => IsExpired(f, Today)'
  BY <1>1, <1>2, <1>4, <1>5
<1>7. \A left \in OfKind("parquet", disk') \ (sweep'.files \cup sweep'.failed) :
        sweep'.list \in {1, 2} /\ ~IsExpired(left, sweep'.began)
  BY <1>1, <1>3, <1>4
<1> QED BY <1>1, <1>6, <1>7 DEF IsSwept

LEMMA NextListSwept ==
  ASSUME LoggerTypeOK, IsSwept, NextList
  PROVE  IsSwept'
<1>1. /\ sweep # NoSweep /\ sweep.files = {}
      /\ UNCHANGED <<now, other, up, tmp, disk, handle>>
  BY DEF NextList, process, rows, events
<1>2. CASE sweep' = NoSweep
  BY <1>2, NoSweepSwept
<1>3. CASE sweep' # NoSweep
  <2> DEFINE list == sweep.list + 1
             files == Doomed(list)
  <2>1. /\ sweep' = [sweep EXCEPT !.list = list, !.files = files] /\ sweep.list # 4
        /\ ~(Usage(disk) < Threshold)
    BY <1>3 DEF NextList, LastList, EnoughFreed
  <2>2. IsSweep /\ Usage(disk) \in Nat /\ Threshold \in Nat
    BY Typed, UsageIs, Constants DEF IsDirectory
  <2>3. sweep.list \in 1 .. 3 /\ list \in 2 .. 4
    BY <1>1, <2>1, <2>2, SweepGoesOn DEF IsSweep
  <2>4. \A file \in files : file[1] = KindDeleted(list) /\ (list = 2 => IsExpired(file, Today))
    BY <2>3 DEF Doomed, OfKind
  <2>5. list = 3 => \A left \in OfKind("parquet", disk) : left \in files
    BY DEF Doomed, KindDeleted
  <2>6. list \in {2, 3, 4} /\ (list = 4 => sweep.list = 3)
    BY <2>3
  <2>7. sweep.list # 0
    BY <2>3
  <2> HIDE DEF list, files
  <2>9. /\ sweep'.list = list /\ sweep'.files = files /\ sweep'.failed = sweep.failed
        /\ sweep'.began = sweep.began /\ sweep'.calm = sweep.calm
    BY <2>1, <2>2 DEF IsSweep
  <2>10. Usage(disk)' = Usage(disk) /\ Today' = Today
    BY <1>1 DEF Usage, Today
  <2>11. \A f \in sweep'.files :
           /\ Usage(disk)' >= Threshold
           /\ f[1] = KindDeleted(sweep'.list)
           /\ sweep'.list = 2 => IsExpired(f, Today)'
    BY <2>1, <2>2, <2>4, <2>9, <2>10 DEF IsExpired
  <2>12. ASSUME sweep'.calm,
                NEW left \in OfKind("parquet", disk') \ (sweep'.files \cup sweep'.failed)
         PROVE  sweep'.list \in {1, 2} /\ ~IsExpired(left, sweep'.began)
    <3>1. left \in OfKind("parquet", disk) \ (sweep.files \cup sweep.failed)
      BY <1>1, <2>9
    <3>2. sweep.list \in {1, 2} /\ ~IsExpired(left, sweep.began)
      BY <2>1, <2>7, <2>9, <2>12, <3>1 DEF IsSwept
    <3>3. sweep'.list = 2
      BY <1>1, <2>5, <2>6, <2>9, <2>12, <3>2
    <3> QED BY <2>9, <3>2, <3>3
  <2>13. ~(~up' \/ sweep'.list = 0)
    BY <1>1, <2>6, <2>9, SweepGoesOn
  <2> QED BY <2>11, <2>12, <2>13 DEF IsSwept
<1> QED BY <1>2, <1>3

LEMMA SweepServed ==
  ASSUME LoggerTypeOK, IsSwept, [LoggerNext]_loggerVars
  PROVE  IsSwept'
<1>1. CASE UNCHANGED <<process, rows, disk, events, other, sweep>> /\ (now' = now \/ now' = now + 1)
  BY <1>1, SweepWaits DEF process, rows, events
<1>2. CASE sweep' = NoSweep
  BY <1>2, NoSweepSwept
<1>3. CASE Row \/ RowFails \/ Event \/ EventFails \/ PeriodicSync \/ SyncFails
  BY <1>2, <1>3 DEF Row, RowFails, Event, EventFails, PeriodicSync, SyncFails, LoopRuns
<1>4. CASE Ask \/ Refuse \/ List \/ Read \/ ReadEvents \/ GiveUp \/ Reply \/ Clock
  BY <1>1, <1>4 DEF Ask, Refuse, List, Read, ReadEvents, GiveUp, Reply, Clock
<1>5. CASE Crash \/ Stop
  <2>1. sweep' = NoSweep
    BY <1>5 DEF Crash, Stop, Lost, Ended
  <2> QED BY <1>2, <2>1
<1>6. CASE Start
  BY <1>2, <1>6 DEF Start, IsSwept
<1>7. CASE Cleanup \/ DeleteFails
  BY <1>7, SweepStartsSwept, DeleteFileSwept, NextListSwept, DeleteFailsSwept DEF Cleanup
<1>8. CASE Others
  BY <1>8, OthersSwept
<1>9. CASE UNCHANGED loggerVars
  BY <1>1, <1>9 DEF loggerVars
<1> QED BY <1>3, <1>4, <1>5, <1>6, <1>7, <1>8, <1>9 DEF LoggerNext
-----------------------------------------------------------------------------
(* Queries.                                                                 *)

(* What an answer owes was in files, and is not pending.                    *)
Promised(owed) ==
  \A file \in DOMAIN owed :
    Range(owed[file]) \subseteq 0 .. made /\ Range(owed[file]) \cap Pending = {}

(* A query owes the files of its days whose names have its prefix. *)
Asked(q) ==
  /\ q.kind \in {"range", "latest", "cell_snapshot", "event_log"}
  /\ q.first \in Nat /\ q.last \in Nat
  /\ q.kind = "cell_snapshot" => q.last = q.first
  /\ \A file \in DOMAIN q.owed :
       /\ NamedAs(file) = q.prefix /\ DayOf(file) \in q.first .. q.last
       /\ q.kind # "latest" /\ DayOfMonth(q.first) + q.last - q.first <= StopDay

(* A file that is not among those to be read is not there, or it is another *)
(* one under the name of a file that was deleted.                           *)
Listed(q) ==
  \A file \in (DOMAIN q.owed \cap DOMAIN disk) \ q.files :
    Range(q.owed[file]) \cap Range(disk[file]) \subseteq {Torn}

IsServed ==
  /\ query.pc = "asked" => Asked(query) /\ Promised(query.owed)
  /\ query.pc = "listed" => Listed(query) /\ Promised(query.owed)

LEMMA WholeDays ==
  ASSUME NEW m \in Nat, m > 0, NEW q \in Nat, NEW s \in Nat, s < m
  PROVE  (m * q + s) % m = s
OBVIOUS

LEMMA LaterInMonth ==
  ASSUME NEW m \in Nat, m > 0, NEW a \in Nat, NEW k \in Nat
  PROVE  (a + k) % m <= (a % m) + k /\ a % m \in Nat /\ (a + k) % m \in Nat
<1> DEFINE q == a \div m
           s == a % m
<1>1. q \in Nat /\ s \in Nat /\ s < m /\ a = m * q + s
  OBVIOUS
<1>2. (a + k) % m < m /\ (a + k) % m \in Nat
  OBVIOUS
<1>3. CASE s + k < m
  <2>1. s + k \in Nat /\ a + k = m * q + (s + k)
    BY <1>1
  <2> HIDE DEF q, s
  <2>2. (m * q + (s + k)) % m = s + k
    BY <1>1, <1>3, <2>1, WholeDays
  <2>3. (a + k) % m = s + k
    BY <2>1, <2>2
  <2> QED BY <1>1, <1>2, <2>3 DEF s
<1>4. CASE s + k >= m
  BY <1>1, <1>2, <1>4
<1> QED BY <1>1, <1>3, <1>4

(* Within a month no day is left out of a walk that ends by the 28th. *)
LEMMA DaysAreNamed ==
  ASSUME NEW first \in Nat, NEW last \in Nat, DayOfMonth(first) + last - first <= StopDay,
         NEW day \in first .. last, day \in Days
  PROVE  day \in DaysNamed(first, last)
<1>1. ASSUME NEW earlier \in first .. (day - 1) PROVE DayOfMonth(earlier) < StopDay
  <2> DEFINE k == earlier - first
             a == first % MonthDays
             b == earlier % MonthDays
  <2>1. k \in Nat /\ earlier = first + k /\ k < last - first
    OBVIOUS
  <2>2. b <= a + k /\ a \in Nat /\ b \in Nat
    <3>1. (first + k) % MonthDays <= (first % MonthDays) + k /\ first % MonthDays \in Nat
          /\ (first + k) % MonthDays \in Nat
      BY <2>1, Constants, LaterInMonth
    <3> QED BY <2>1, <3>1
  <2>3. a + 1 + last - first <= StopDay /\ DayOfMonth(earlier) = b + 1
    BY DEF DayOfMonth
  <2> HIDE DEF a, b
  <2> QED BY <2>1, <2>2, <2>3, Constants
<1> QED BY <1>1 DEF DaysNamed

LEMMA FilesAreNamed ==
  ASSUME LoggerTypeOK, NEW q, Asked(q), NEW file \in DOMAIN q.owed \cap DOMAIN disk
  PROVE  IF q.kind = "event_log" THEN file \in EventFiles(q) ELSE file \in FilesNamed(q)
<1>1. /\ q.first \in Nat /\ q.last \in Nat /\ file \in Matching(q.prefix)
      /\ DayOf(file) \in q.first .. q.last
      /\ q.kind # "latest" /\ DayOfMonth(q.first) + q.last - q.first <= StopDay
  BY DEF Asked, Matching
<1>2. DayOf(file) \in Days
  BY Typed, Calendar DEF IsDirectory
<1>3. CASE q.kind = "range"
  <2>1. DayOf(file) \in DaysNamed(q.first, q.last)
    BY <1>1, <1>2, DaysAreNamed
  <2> QED BY <1>1, <1>3, <2>1 DEF FilesNamed, RangeFiles
<1>4. CASE q.kind = "cell_snapshot"
  <2>1. q.last = q.first
    BY <1>4 DEF Asked
  <2>2. DayOf(file) = q.first
    BY <1>1, <1>2, <2>1
  <2> QED BY <1>1, <1>4, <2>2 DEF FilesNamed, SnapshotFiles
<1>5. CASE q.kind = "event_log"
  BY <1>1, <1>5 DEF EventFiles
<1> QED BY <1>1, <1>3, <1>4, <1>5 DEF Asked

(* While a query waits. *)
LEMMA PromiseStays ==
  ASSUME LoggerTypeOK, LoggerTypeOK', Moves, NEW owed, Promised(owed)
  PROVE  Promised(owed)'
<1>1. made \in Nat /\ made <= made' /\ Pending' \subseteq Pending \cup Fresh
  BY Typed DEF Moves
<1>2. made' \in Nat
  BY DEF LoggerTypeOK
<1>3. 0 .. made \subseteq 0 .. made' /\ (0 .. made) \cap Fresh = {}
  BY <1>1, <1>2 DEF Fresh
<1> QED BY <1>1, <1>3 DEF Promised

LEMMA ListStays ==
  ASSUME LoggerTypeOK, Moves, NEW q, Promised(q.owed), Listed(q)
  PROVE  Listed(q)'
<1> SUFFICES ASSUME NEW file \in (DOMAIN q.owed \cap DOMAIN disk') \ q.files
             PROVE  Range(q.owed[file]) \cap Range(disk'[file]) \subseteq {Torn}
  BY DEF Listed
<1> DEFINE before == Range(q.owed[file])
           more == Pending \cup Fresh \cup {Torn}
<1>1. made \in Nat /\ before \subseteq 0 .. made /\ before \cap Pending = {}
  BY Typed DEF Promised
<1>2. before \cap more \subseteq {Torn}
  BY <1>1 DEF Fresh
<1>3. file \in DOMAIN disk => before \cap Range(disk[file]) \subseteq {Torn}
  BY DEF Listed
<1>4. Range(disk'[file]) \subseteq (IF file \in DOMAIN disk THEN Range(disk[file]) ELSE {}) \cup more
  <2>1. CASE DeleteFile
    <3>1. PICK gone \in sweep.files : disk' = Without(disk, {gone})
      BY <2>1 DEF DeleteFile
    <3>2. file \in DOMAIN disk /\ disk'[file] = disk[file]
      BY <3>1 DEF Without
    <3> QED BY <3>2
  <2>2. CASE Grows(disk, disk', more)
    BY <2>2 DEF Grows
  <2> QED BY <2>1, <2>2 DEF Moves
<1> HIDE DEF before, more
<1> QED BY <1>2, <1>3, <1>4 DEF before

LEMMA QueryWaits ==
  ASSUME LoggerTypeOK, LoggerTypeOK', Moves, IsServed, UNCHANGED query
  PROVE  IsServed'
<1>1. ASSUME NEW q, query = q PROVE IsServed'
  <2>1. query' = q
    BY <1>1
  <2>2. ASSUME q.pc = "asked" PROVE (Asked(query) /\ Promised(query.owed))'
    <3>1. Asked(q) /\ Promised(q.owed)
      BY <1>1, <2>2 DEF IsServed
    <3>2. Promised(q.owed)'
      BY <3>1, PromiseStays
    <3> QED BY <2>1, <3>1, <3>2 DEF Asked, Promised
  <2>3. ASSUME q.pc = "listed" PROVE (Listed(query) /\ Promised(query.owed))'
    <3>1. Listed(q) /\ Promised(q.owed)
      BY <1>1, <2>3 DEF IsServed
    <3>2. Listed(q)' /\ Promised(q.owed)'
      BY <3>1, PromiseStays, ListStays
    <3> QED BY <2>1, <3>2 DEF Listed, Promised
  <2> QED BY <2>1, <2>2, <2>3 DEF IsServed
<1> QED BY <1>1

(* The steps that have nothing to do with queries. *)
LEMMA QueryRests ==
  ASSUME Row \/ RowFails \/ Event \/ EventFails \/ PeriodicSync \/ SyncFails \/ Cleanup
           \/ DeleteFails \/ Start \/ Clock \/ Others
  PROVE  UNCHANGED query
BY DEF Row, RowFails, Event, EventFails, PeriodicSync, SyncFails, Cleanup, SweepStarts, DeleteFile,
       NextList, DeleteFails, Start, Clock, Others

LEMMA AskServed ==
  ASSUME LoggerTypeOK, IsApart, Ask
  PROVE  IsServed'
<1>1. PICK kind \in {"range", "latest", "cell_snapshot", "event_log"}, first \in 0 .. Today :
        /\ \E prefix \in FilePrefixes(kind) :
             /\ kind \in {"latest", "cell_snapshot"} => first = Today
             /\ query' = [pc |-> "asked", kind |-> kind, prefix |-> prefix,
                          first |-> first, last |-> Today,
                          owed |-> Owed(kind, prefix, first, Today)]
        /\ UNCHANGED <<made, disk, current, handle>>
  BY DEF Ask, rows, events
<1>2. PICK prefix \in FilePrefixes(kind) :
        /\ kind \in {"latest", "cell_snapshot"} => first = Today
        /\ query' = [pc |-> "asked", kind |-> kind, prefix |-> prefix,
                     first |-> first, last |-> Today,
                     owed |-> Owed(kind, prefix, first, Today)]
        /\ UNCHANGED <<made, disk, current, handle>>
  BY <1>1
<1> DEFINE owed == Owed(kind, prefix, first, Today)
           last == Today
<1>3. first \in Nat /\ last \in Nat /\ (kind = "cell_snapshot" => last = first)
  <2>1. Today \in Nat
    BY Typed, Calendar
  <2> QED BY <1>2, <2>1
<1>4. ASSUME NEW file \in DOMAIN owed
      PROVE  /\ NamedAs(file) = prefix /\ DayOf(file) \in first .. last
             /\ kind # "latest" /\ DayOfMonth(first) + last - first <= StopDay
             /\ Range(owed[file]) \subseteq 0 .. made
             /\ Range(owed[file]) \cap Pending = {}
  <2>1. /\ file \in DOMAIN disk /\ owed[file] = disk[file]
        /\ NamedAs(file) = prefix /\ DayOf(file) \in first .. last
        /\ kind # "latest" /\ DayOfMonth(first) + last - first <= StopDay
    BY DEF Owed, Without, Matching
  <2> HIDE DEF owed, last
  <2> QED BY <2>1, Typed DEF IsApart
<1>5. Pending' = Pending /\ made' = made
  BY <1>2 DEF Pending
<1>6. /\ query'.pc = "asked" /\ query'.kind = kind /\ query'.prefix = prefix
      /\ query'.first = first /\ query'.last = last /\ query'.owed = owed
  <2> HIDE DEF owed, last
  <2>1. query' = [pc |-> "asked", kind |-> kind, prefix |-> prefix, first |-> first,
                  last |-> last, owed |-> owed]
    BY <1>2 DEF owed, last
  <2> QED BY <2>1
<1> HIDE DEF owed, last
<1>7. Asked(query)'
  BY <1>2, <1>3, <1>4, <1>6 DEF Asked
<1>8. Promised(query.owed)'
  BY <1>4, <1>5, <1>6 DEF Promised
<1> QED BY <1>6, <1>7, <1>8 DEF IsServed

LEMMA ListServed ==
  ASSUME LoggerTypeOK, IsServed, List
  PROVE  IsServed'
<1>1. /\ query.pc = "asked" /\ query.kind # "event_log" /\ Asked(query) /\ Promised(query.owed)
      /\ UNCHANGED <<made, disk, current, handle>>
  BY DEF List, IsServed, rows, events
<1>2. Pending' = Pending
  BY <1>1 DEF Pending
<1>3. CASE query' = Answer({})
  BY <1>3 DEF IsServed, Answer
<1>4. CASE query' = [pc |-> "listed", files |-> FilesNamed(query), owed |-> query.owed]
  <2>1. ASSUME NEW q, query = q PROVE IsServed'
    <3> DEFINE files == FilesNamed(q)
               owed  == q.owed
    <3>1. \A file \in DOMAIN owed \cap DOMAIN disk : file \in files
      BY <1>1, <2>1, FilesAreNamed
    <3>2. query' = [pc |-> "listed", files |-> files, owed |-> owed] /\ Promised(owed)
      BY <1>1, <1>4, <2>1
    <3> HIDE DEF files, owed
    <3>3. query'.pc = "listed" /\ query'.files = files /\ query'.owed = owed
      BY <3>2
    <3>4. Listed(query)'
      BY <1>1, <3>1, <3>3 DEF Listed
    <3>5. Promised(query.owed)'
      BY <1>1, <1>2, <3>2, <3>3 DEF Promised
    <3> QED BY <3>3, <3>4, <3>5 DEF IsServed
  <2> QED BY <2>1
<1> QED BY <1>3, <1>4 DEF List

-----------------------------------------------------------------------------
(* The invariant, and what follows from it.                                 *)

LoggerInv == LoggerTypeOK /\ IsApart /\ IsSwept /\ IsServed

LEMMA LoggerInitInv == LoggerInit => LoggerInv
<1> SUFFICES ASSUME LoggerInit PROVE LoggerInv
  OBVIOUS
<1>1. /\ now = FirstHour /\ made = 0 /\ other = 0 /\ mishaps = 0 /\ up = TRUE /\ recording = TRUE
      /\ syncing = TRUE /\ current = Closed /\ tmp = {} /\ handle = Nothing /\ unsynced = FALSE
      /\ sweep = NoSweep /\ query.pc = "idle" /\ DOMAIN disk = {}
  BY DEF LoggerInit, Idle
<1> DEFINE none == <<>>
<1>2. /\ Nothing = [day |-> -1, linked |-> FALSE, tail |-> none, writes |-> 0]
      /\ Closed.rows = none /\ none \in Seq(1 .. made) /\ Range(none) = {} /\ Len(none) = 0
      /\ DOMAIN none = {}
  BY Started DEF Nothing, Closed
<1> HIDE DEF none
<1>3. /\ handle \in Handles(made) /\ ~handle.linked /\ handle.tail = none
      /\ Len(handle.tail) <= handle.writes
  <2>1. 0 \in 0 .. made /\ -1 \in Days \cup {-1}
    BY <1>1
  <2> QED BY <1>1, <1>2, <2>1 DEF Handles
<1>4. LoggerTypeOK
  <2>1. /\ DOMAIN disk \subseteq ({"parquet"} \X Hours) \cup ({"jsonl"} \X Days)
        /\ \A file \in DOMAIN disk : disk[file] \in Seq(0 .. made)
    BY <1>1
  <2>2. /\ now \in Hours /\ made \in 0 .. MaxRecords /\ other \in 0 .. MaxOther
        /\ mishaps \in 0 .. MaxMishaps
    BY <1>1, Constants DEF Hours
  <2>3. tmp \subseteq Hours /\ current \in {Closed} \cup [hour : tmp, rows : Seq(1 .. made)]
    BY <1>1
  <2>4. up \in BOOLEAN /\ recording \in BOOLEAN /\ syncing \in BOOLEAN /\ unsynced \in BOOLEAN
    BY <1>1
  <2>5. 0 \in Days
    BY Constants, Calendar, <2>2 DEF Days
  <2>6. sweep \in [list : 0 .. 4, files : SUBSET DOMAIN disk,
                   failed : SUBSET (({"parquet"} \X Hours) \cup ({"jsonl"} \X Days)),
                   began : Days, calm : BOOLEAN]
    BY <1>1, <2>5 DEF NoSweep
  <2> QED BY <1>3, <2>1, <2>2, <2>3, <2>4, <2>6 DEF LoggerTypeOK, Handles
<1>5. IsApart
  BY <1>1, <1>2, <1>3 DEF IsApart, IsInjective
<1>6. IsServed
  BY <1>1 DEF IsServed
<1>7. IsSwept
  BY <1>1 DEF IsSwept, NoSweep
<1> QED BY <1>4, <1>5, <1>6, <1>7 DEF LoggerInv

LEMMA LoggerStepInv == LoggerInv /\ [LoggerNext]_loggerVars => LoggerInv' /\ Moves
<1> SUFFICES ASSUME LoggerTypeOK, IsApart, IsSwept, IsServed, [LoggerNext]_loggerVars
             PROVE  LoggerInv' /\ Moves
  BY DEF LoggerInv
<1>1. LoggerTypeOK' /\ IsApart' /\ Moves
  BY EveryStep
<1>2. IsSwept'
  BY SweepServed
<1>3. IsServed'
  <2>1. CASE UNCHANGED query
    BY <1>1, <2>1, QueryWaits
  <2>2. CASE query'.pc \in {"idle", "ok"}
    BY <2>2 DEF IsServed
  <2>3. CASE Ask
    BY <2>3, AskServed
  <2>4. CASE List
    BY <2>4, ListServed
  <2>5. CASE Row \/ RowFails \/ Event \/ EventFails \/ PeriodicSync \/ SyncFails \/ Cleanup
             \/ DeleteFails \/ Start \/ Clock \/ Others
    BY <2>1, <2>5, QueryRests
  <2>6. CASE Refuse \/ Read \/ ReadEvents \/ GiveUp \/ Reply
    BY <2>2, <2>6 DEF Refuse, Read, ReadEvents, GiveUp, Reply, Idle, Answer
  <2>7. CASE Crash \/ Stop
    <3>1. query' = Idle
      BY <2>7 DEF Crash, Stop, Lost, Ended
    <3> QED BY <2>2, <3>1 DEF Idle
  <2>8. CASE UNCHANGED loggerVars
    BY <2>1, <2>8 DEF loggerVars
  <2> QED BY <2>3, <2>4, <2>5, <2>6, <2>7, <2>8 DEF LoggerNext
<1> QED BY <1>1, <1>2, <1>3 DEF LoggerInv

LEMMA LoggerInvHolds == LoggerSpec => []LoggerInv
<1> QED BY LoggerInitInv, LoggerStepInv, PTL DEF LoggerSpec

(* Types: an open file has its .tmp file, a linked handle its file, and no  *)
(* more lines are buffered than were written since the last sync, also when *)
(* the syncs in between have failed on a full disk.                         *)
THEOREM LoggerTypeCorrect == LoggerSpec => []LoggerTypeOK
<1>1. LoggerInv => LoggerTypeOK
  BY DEF LoggerInv
<1> QED BY <1>1, LoggerInvHolds, PTL

(* Events that reached a file stay in it, as the beginning of what it holds *)
(* afterwards, whatever is opened, flushed, crashes or starts again; a file *)
(* goes only in a sweep, and while the disk is over the threshold.          *)
THEOREM EventsKept == LoggerSpec => EventsAreKept
<1> DEFINE Kept ==
      \A file \in OfKind("jsonl", disk) :
        IF file \in DOMAIN disk' THEN IsPrefix(disk[file], disk'[file])
        ELSE Usage(disk) >= Threshold
<1>1. LoggerInv /\ [LoggerNext]_loggerVars => [Kept]_loggerVars
  <2> SUFFICES ASSUME LoggerInv, [LoggerNext]_loggerVars, NEW file \in OfKind("jsonl", disk)
               PROVE  IF file \in DOMAIN disk' THEN IsPrefix(disk[file], disk'[file])
                      ELSE Usage(disk) >= Threshold
    OBVIOUS
  <2>1. file \in DOMAIN disk
    BY DEF OfKind
  <2>2. CASE DeleteFile
    <3>1. PICK gone \in sweep.files : disk' = Without(disk, {gone})
      BY <2>2 DEF DeleteFile
    <3>2. file \in DOMAIN disk' => disk'[file] = disk[file]
      BY <3>1 DEF Without
    <3>3. IsPrefix(disk[file], disk[file])
      BY <2>1, Typed, PrefixItself DEF LoggerInv, IsDirectory
    <3>4. Usage(disk) >= Threshold
      BY <3>1 DEF LoggerInv, IsSwept
    <3> QED BY <3>2, <3>3, <3>4
  <2>3. CASE ~DeleteFile
    <3>1. Grows(disk, disk', Pending \cup Fresh \cup {Torn})
      BY <2>3, LoggerStepInv DEF Moves
    <3>2. file \in DOMAIN disk' /\ IsPrefix(disk[file], disk'[file])
      BY <2>1, <3>1 DEF Grows
    <3> QED BY <3>2
  <2> QED BY <2>2, <2>3
<1> QED BY <1>1, LoggerInvHolds, PTL DEF LoggerSpec, EventsAreKept

(* In a sweep during which no other program takes space, an event file goes *)
(* only after the telemetry that had expired when the sweep began, and one  *)
(* that has not expired only after all of it (LOG-06), but for the files    *)
(* that could not be deleted: the usage is read between any two lists.      *)
THEOREM TelemetryGoesFirst == LoggerSpec => EventsOutliveTelemetry
<1> DEFINE Outlives ==
      sweep.calm =>
        \A file \in OfKind("jsonl", disk) \ DOMAIN disk',
           left \in OfKind("parquet", disk') \ sweep.failed :
          IsExpired(file, Today) /\ ~IsExpired(left, sweep.began)
<1>1. LoggerInv /\ [LoggerNext]_loggerVars => [Outlives]_loggerVars
  <2> SUFFICES ASSUME LoggerInv, [LoggerNext]_loggerVars, sweep.calm,
                      NEW file \in OfKind("jsonl", disk) \ DOMAIN disk',
                      NEW left \in OfKind("parquet", disk') \ sweep.failed
               PROVE  IsExpired(file, Today) /\ ~IsExpired(left, sweep.began)
    OBVIOUS
  <2>1. file \in DOMAIN disk /\ file[1] = "jsonl" /\ left \in DOMAIN disk' /\ left[1] = "parquet"
    BY DEF OfKind
  <2>2. CASE ~DeleteFile
    <3>1. Grows(disk, disk', Pending \cup Fresh \cup {Torn})
      BY <2>2, LoggerStepInv DEF Moves
    <3> QED BY <2>1, <3>1 DEF Grows
  <2>3. CASE DeleteFile
    <3>1. PICK gone \in sweep.files : disk' = Without(disk, {gone})
      BY <2>3 DEF DeleteFile
    <3>2. DOMAIN disk' = DOMAIN disk \ {gone}
      BY <3>1 DEF Without
    <3>3. file \in sweep.files
      BY <2>1, <3>1, <3>2
    <3>4. KindDeleted(sweep.list) = "jsonl" /\ (sweep.list = 2 => IsExpired(file, Today))
      BY <2>1, <3>3 DEF LoggerInv, IsSwept
    <3>5. left \in OfKind("parquet", disk) \ (sweep.files \cup sweep.failed)
      BY <2>1, <3>2, <3>4 DEF LoggerInv, IsSwept, OfKind
    <3>6. sweep.list # 0
      BY <3>3, SweepGoesOn DEF LoggerInv
    <3>7. sweep.list \in {1, 2} /\ ~IsExpired(left, sweep.began)
      BY <3>3, <3>5, <3>6 DEF LoggerInv, IsSwept
    <3>8. sweep.list = 2
      BY <3>4, <3>7 DEF KindDeleted
    <3> QED BY <3>4, <3>7, <3>8
  <2> QED BY <2>2, <2>3
<1> QED BY <1>1, LoggerInvHolds, PTL DEF LoggerSpec, EventsOutliveTelemetry

(* An answer has every record of its days that was in a file with the       *)
(* prefix of the request when the query was asked and still is when it is   *)
(* read, whatever has been finished, appended or deleted in between.        *)
THEOREM AnswersAreWhole == LoggerSpec => QueriesAreWhole
<1> DEFINE Complete ==
      query'.pc = "ok" /\ query.pc # "ok" =>
        \A file \in DOMAIN query.owed \cap DOMAIN disk :
          Readable(query.owed[file]) \cap Readable(disk[file]) \subseteq query'.got
<1>1. LoggerInv /\ [LoggerNext]_loggerVars => [Complete]_loggerVars
  <2> SUFFICES ASSUME LoggerInv, [LoggerNext]_loggerVars, query'.pc = "ok", query.pc # "ok",
                      NEW file \in DOMAIN query.owed \cap DOMAIN disk
               PROVE  Readable(query.owed[file]) \cap Readable(disk[file]) \subseteq query'.got
    OBVIOUS
  <2>1. List \/ Read \/ ReadEvents
    <3>1. query' # query
      OBVIOUS
    <3>2. ~(Row \/ RowFails \/ Event \/ EventFails \/ PeriodicSync \/ SyncFails \/ Cleanup
             \/ DeleteFails \/ Start \/ Clock \/ Others)
      BY <3>1, QueryRests
    <3>3. ~(Ask \/ Refuse \/ GiveUp \/ Reply)
      BY DEF Ask, Refuse, GiveUp, Reply, Idle
    <3>4. ~(Crash \/ Stop)
      <4>1. Crash \/ Stop => query' = Idle
        BY DEF Crash, Stop, Lost, Ended
      <4> QED BY <4>1 DEF Idle
    <3>5. ~UNCHANGED loggerVars
      BY <3>1 DEF loggerVars
    <3> QED BY <3>2, <3>3, <3>4, <3>5 DEF LoggerNext
  <2>2. ASSUME NEW files, query' = Answer(files), file \in files
        PROVE  Readable(disk[file]) \subseteq query'.got
    BY <2>2 DEF Answer
  <2>3. CASE List
    <3>1. /\ query.pc = "asked" /\ query.kind # "event_log"
          /\ query' = IF FilesNamed(query) = {} THEN Answer({})
                      ELSE [pc |-> "listed", files |-> FilesNamed(query), owed |-> query.owed]
      BY <2>3 DEF List
    <3>2. FilesNamed(query) = {}
      BY <3>1
    <3>3. file \in FilesNamed(query)
      BY <3>1, FilesAreNamed DEF LoggerInv, IsServed
    <3> QED BY <3>2, <3>3
  <2>4. CASE ReadEvents
    <3>1. /\ query.pc = "asked" /\ query.kind = "event_log"
          /\ query' = IF CannotBeNamed(query) THEN Idle ELSE Answer(EventFiles(query))
      BY <2>4 DEF ReadEvents
    <3>2. query' = Answer(EventFiles(query))
      BY <3>1 DEF Idle
    <3>3. file \in EventFiles(query)
      BY <3>1, FilesAreNamed DEF LoggerInv, IsServed
    <3> QED BY <2>2, <3>2, <3>3
  <2>5. CASE Read
    <3>1. query.pc = "listed" /\ query' = Answer(query.files)
      BY <2>5 DEF Read, Idle
    <3>2. CASE file \in query.files
      BY <2>2, <3>1, <3>2
    <3>3. CASE file \notin query.files
      <4>1. Range(query.owed[file]) \cap Range(disk[file]) \subseteq {Torn}
        BY <3>1, <3>3 DEF LoggerInv, IsServed, Listed
      <4>2. \A lines : Readable(lines) \subseteq Range(lines) \ {Torn}
        BY RangeIs DEF Readable
      <4> QED BY <4>1, <4>2
    <3> QED BY <3>2, <3>3
  <2> QED BY <2>1, <2>3, <2>4, <2>5
<1> QED BY <1>1, LoggerInvHolds, PTL DEF LoggerSpec, QueriesAreWhole
=============================================================================
