------------------------- MODULE CloudBuffer_proofs -------------------------
(***************************************************************************)
(* Proofs about CloudBuffer, for any records, any hours, ages and sizes,   *)
(* and any number of writes between two flushes.                           *)
(***************************************************************************)
EXTENDS CloudBuffer, FiniteSetTheorems, WellFoundedInduction, TLAPS

(* The records in the files of a directory. *)
Stored(dir) == UNION {Range(dir[hour]) : hour \in DOMAIN dir}

Ascending(s) == \A i, j \in DOMAIN s : i < j => s[i] < s[j]

Handles == [hour : 0 .. MaxHours, linked : BOOLEAN, tail : Seq(Records), writes : Nat]

(* A directory that was written up to an hour and a record. *)
IsDirectory(dir, hour, last) ==
  /\ DOMAIN dir \subseteq 1 .. hour
  /\ \A file \in DOMAIN dir : dir[file] \in Seq(Records)
  /\ \A record \in Stored(dir) : record <= last

(* Files hold their records in the order of their making. *)
IsSorted(dir) ==
  /\ \A file \in DOMAIN dir : Ascending(dir[file])
  /\ \A earlier, later \in DOMAIN dir : earlier < later =>
       \A x \in Range(dir[earlier]), y \in Range(dir[later]) : x < y

(* What is still to be flushed is newer than every file. *)
IsHandle(dir, h, hour, last) ==
  /\ h \in Handles /\ h.hour <= hour
  /\ h.linked => h.hour \in DOMAIN dir
  /\ h.hour # 0 => \A file \in DOMAIN dir : file <= h.hour
  /\ Ascending(h.tail) /\ Len(h.tail) <= h.writes
  /\ \A y \in Range(h.tail) : y <= last /\ \A x \in Stored(dir) : x < y

Neat(dir, h, hour, last) ==
  /\ hour \in Hours /\ last \in 0 .. Len(Kinds)
  /\ IsDirectory(dir, hour, last) /\ IsSorted(dir) /\ IsHandle(dir, h, hour, last)

(* From one directory to the next: a record is found where it was, or moved *)
(* from the tail into a file, or is new.                                    *)
Moves(dir, h, dir2, h2, new) ==
  /\ Stored(dir2) \subseteq Stored(dir) \cup Range(h.tail) \cup new
  /\ Range(h2.tail) \subseteq Range(h.tail) \cup new

-----------------------------------------------------------------------------
(* The operators.                                                           *)

LEMMA Constants ==
  /\ MaxHours \in Nat /\ MaxHours > 0 /\ MaxAge \in Nat /\ MaxSize \in Nat
  /\ SyncEvery \in Nat /\ SyncEvery > 0
  /\ Len(Kinds) \in Nat /\ Records = 1 .. Len(Kinds)
<1>1. Kinds \in Seq({"telemetry", "event"})
  BY CloudAssumption
<1>2. Len(Kinds) \in Nat /\ DOMAIN Kinds = 1 .. Len(Kinds)
  BY <1>1
<1> QED BY <1>2, CloudAssumption DEF Records

LEMMA StoredIs ==
  ASSUME NEW dir, NEW x
  PROVE  x \in Stored(dir) <=> \E file \in DOMAIN dir : x \in Range(dir[file])
BY DEF Stored

LEMMA RangeIs ==
  ASSUME NEW s, NEW x
  PROVE  x \in Range(s) <=> \E i \in DOMAIN s : x = s[i]
BY DEF Range

LEMMA MinIsLeast ==
  ASSUME NEW S \in SUBSET Nat, S # {}
  PROVE  Min(S) \in S /\ \A k \in S : Min(S) <= k
<1> DEFINE R == {ss \in Nat \X Nat : ss[1] < ss[2]}
<1>1. IsWellFoundedOn(R, Nat)
  BY NatLessThanWellFounded DEF OpToRel
<1> HIDE DEF R
<1>2. PICK m \in S : \A k \in S : ~(<<k, m>> \in R)
  BY <1>1, WFMin
<1>3. ASSUME NEW k \in S PROVE m <= k
  <2>1. ~(k < m)
    BY <1>2 DEF R
  <2> QED BY <2>1
<1> QED BY <1>3 DEF Min

(* The lines of a directory can be counted. *)
LEMMA LinesAreFinite ==
  ASSUME NEW dir, NEW hour \in Nat, NEW last, IsDirectory(dir, hour, last)
  PROVE  /\ IsFiniteSet(Lines(dir)) /\ Size(dir) \in Nat
         /\ \A line : line \in Lines(dir) <=>
              \E file \in DOMAIN dir : \E i \in DOMAIN dir[file] : line = <<file, i>>
<1> DEFINE Of(file) == {file} \X DOMAIN dir[file]
<1>1. IsFiniteSet(DOMAIN dir)
  <2>1. IsFiniteSet(1 .. hour) /\ DOMAIN dir \in SUBSET (1 .. hour)
    BY FS_Interval DEF IsDirectory
  <2> QED BY <2>1, FS_Subset
<1>2. IsFiniteSet({Of(file) : file \in DOMAIN dir})
  <2> DEFINE f == [file \in DOMAIN dir |-> Of(file)]
  <2>1. f \in Surjection(DOMAIN dir, {Of(file) : file \in DOMAIN dir})
    BY DEF Surjection
  <2> HIDE DEF f
  <2> QED BY <1>1, <2>1, FS_Surjection
<1>3. ASSUME NEW file \in DOMAIN dir PROVE IsFiniteSet(Of(file))
  <2>1. dir[file] \in Seq(Records)
    BY DEF IsDirectory
  <2>2. Len(dir[file]) \in Nat /\ DOMAIN dir[file] = 1 .. Len(dir[file])
    BY <2>1
  <2>3. IsFiniteSet(DOMAIN dir[file])
    BY <2>2, FS_Interval
  <2> QED BY <2>3, FS_Singleton, FS_Product
<1>4. \A T \in {Of(file) : file \in DOMAIN dir} : IsFiniteSet(T)
  BY <1>3
<1>5. IsFiniteSet(Lines(dir))
  BY <1>2, <1>4, FS_UNION DEF Lines
<1>6. Size(dir) \in Nat
  BY <1>5, FS_CardinalityType DEF Size
<1>7. \A line : line \in Lines(dir) <=>
              \E file \in DOMAIN dir : \E i \in DOMAIN dir[file] : line = <<file, i>>
  BY DEF Lines
<1> QED BY <1>5, <1>6, <1>7

LEMMA WithoutIsNeat ==
  ASSUME NEW dir, NEW h, NEW hour, NEW last, Neat(dir, h, hour, last), NEW gone
  PROVE  LET dir2 == Without(dir, gone)
             h2   == [h EXCEPT !.linked = @ /\ h.hour \in DOMAIN dir2]
         IN  /\ Neat(dir2, h2, hour, last) /\ Moves(dir, h, dir2, h2, {})
             /\ DOMAIN dir2 = DOMAIN dir \ gone
             /\ \A file \in DOMAIN dir2 : dir2[file] = dir[file]
             /\ Size(dir2) \in Nat /\ Size(dir2) <= Size(dir)
             /\ h2.hour = h.hour /\ h2.tail = h.tail /\ h2.writes = h.writes
<1> DEFINE dir2 == Without(dir, gone)
           h2   == [h EXCEPT !.linked = @ /\ h.hour \in DOMAIN dir2]
<1>1. DOMAIN dir2 = DOMAIN dir \ gone /\ \A file \in DOMAIN dir2 : dir2[file] = dir[file]
  BY DEF Without
<1>2. h \in Handles
  BY DEF Neat, IsHandle
<1>3. /\ h2 \in Handles /\ h2.hour = h.hour /\ h2.tail = h.tail /\ h2.writes = h.writes
      /\ h2.linked => h2.hour \in DOMAIN dir2
  BY <1>2 DEF Handles
<1> HIDE DEF dir2, h2
<1>4. Stored(dir2) \subseteq Stored(dir)
  BY <1>1, StoredIs
<1>5. IsDirectory(dir2, hour, last)
  BY <1>1, <1>4 DEF Neat, IsDirectory
<1>6. IsSorted(dir2)
  BY <1>1 DEF Neat, IsSorted
<1>7. IsHandle(dir2, h2, hour, last)
  BY <1>1, <1>3, <1>4 DEF Neat, IsHandle
<1>8. hour \in Nat /\ IsDirectory(dir, hour, last)
  BY Constants DEF Neat, Hours
<1>9. Lines(dir2) \in SUBSET Lines(dir)
  BY <1>1, <1>5, <1>8, LinesAreFinite
<1>10. Size(dir2) \in Nat /\ Size(dir2) <= Size(dir)
  BY <1>5, <1>8, <1>9, LinesAreFinite, FS_Subset DEF Size
<1> QED BY <1>1, <1>3, <1>4, <1>5, <1>6, <1>7, <1>10 DEF Neat, Moves, dir2, h2

(* Fit() removes as many of the oldest files as it takes. *)
LEMMA FitFits ==
  ASSUME NEW dir, NEW h, NEW hour, NEW last, Neat(dir, h, hour, last)
  PROVE  Size(Fit(dir)) <= MaxSize
<1> DEFINE gone == {file \in DOMAIN dir : Size(Without(dir, Older(dir, file))) > MaxSize}
           left == DOMAIN dir \ gone
<1>1. Fit(dir) = Without(dir, gone)
  BY DEF Fit
<1>2. hour \in Nat /\ IsDirectory(dir, hour, last) /\ DOMAIN dir \subseteq Nat
  BY Constants DEF Neat, Hours, IsDirectory
<1>3. CASE left = {}
  <2>1. DOMAIN Fit(dir) = {}
    BY <1>1, <1>3 DEF Without
  <2>2. Lines(Fit(dir)) = {}
    BY <2>1 DEF Lines
  <2> QED BY <2>2, FS_EmptySet, Constants DEF Size
<1>4. CASE left # {}
  <2>1. PICK least \in left : \A file \in left : least <= file
    BY <1>2, <1>4, MinIsLeast
  <2>2. ASSUME NEW file \in DOMAIN dir, file < least PROVE file \in gone
    <3>1. ~(least <= file)
      BY <1>2, <2>1, <2>2
    <3> QED BY <2>1, <3>1
  <2>3. Older(dir, least) \subseteq gone
    BY <2>2 DEF Older
  <2>4. Size(Without(dir, Older(dir, least))) <= MaxSize /\ least \in DOMAIN dir
    <3>1. Size(Without(dir, Older(dir, least))) \in Nat
      BY WithoutIsNeat
    <3> QED BY <2>1, <3>1, Constants
  <2> DEFINE some == Without(dir, Older(dir, least))
  <2>5. Without(some, gone) = Without(dir, gone)
    <3>1. DOMAIN some = DOMAIN dir \ Older(dir, least)
      BY DEF Without
    <3>2. DOMAIN some \ gone = DOMAIN dir \ gone
      BY <2>3, <3>1
    <3>3. \A file \in DOMAIN dir \ gone : some[file] = dir[file]
      BY <3>1, <3>2 DEF Without
    <3> HIDE DEF some, gone
    <3> QED BY <3>2, <3>3 DEF Without
  <2>6. \E h2 : Neat(some, h2, hour, last)
    BY WithoutIsNeat
  <2> HIDE DEF some, gone
  <2>7. Size(Without(some, gone)) \in Nat /\ Size(Without(some, gone)) <= Size(some)
    BY <2>6, WithoutIsNeat
  <2>8. Size(some) \in Nat /\ Size(some) <= MaxSize
    BY <2>4, WithoutIsNeat DEF some
  <2> QED BY <1>1, <2>5, <2>7, <2>8, Constants
<1> QED BY <1>3, <1>4

(* A sequence and another behind it. *)
LEMMA Joined ==
  ASSUME NEW s \in Seq(Records), NEW t \in Seq(Records)
  PROVE  /\ s \o t \in Seq(Records)
         /\ Len(s \o t) = Len(s) + Len(t) /\ Len(s) \in Nat /\ Len(t) \in Nat
         /\ DOMAIN s = 1 .. Len(s) /\ DOMAIN t = 1 .. Len(t)
         /\ DOMAIN (s \o t) = 1 .. Len(s) + Len(t)
         /\ \A i \in 1 .. Len(s) : (s \o t)[i] = s[i]
         /\ \A i \in 1 .. Len(t) : (s \o t)[Len(s) + i] = t[i]
OBVIOUS

LEMMA JoinedHold ==
  ASSUME NEW s \in Seq(Records), NEW t \in Seq(Records)
  PROVE  /\ Range(s \o t) = Range(s) \cup Range(t)
         /\ /\ Ascending(s) /\ Ascending(t)
            /\ \A x \in Range(s), y \in Range(t) : x < y
            => Ascending(s \o t)
<1> DEFINE u == s \o t
<1>1. /\ Len(s) \in Nat /\ Len(t) \in Nat /\ DOMAIN s = 1 .. Len(s) /\ DOMAIN t = 1 .. Len(t)
      /\ DOMAIN u = 1 .. Len(s) + Len(t)
      /\ \A i \in 1 .. Len(s) : u[i] = s[i]
      /\ \A i \in 1 .. Len(t) : u[Len(s) + i] = t[i]
  BY Joined
<1> HIDE DEF u
<1>2. \A k \in DOMAIN u : \/ k \in DOMAIN s /\ u[k] = s[k]
                          \/ k - Len(s) \in DOMAIN t /\ u[k] = t[k - Len(s)] /\ ~(k \in DOMAIN s)
  <2> TAKE k \in DOMAIN u
  <2>1. CASE k <= Len(s)
    BY <1>1, <2>1
  <2>2. CASE ~(k <= Len(s))
    <3>1. k - Len(s) \in 1 .. Len(t) /\ k = Len(s) + (k - Len(s))
      BY <1>1, <2>2
    <3>2. u[Len(s) + (k - Len(s))] = t[k - Len(s)]
      BY <1>1, <3>1
    <3> QED BY <1>1, <2>2, <3>1, <3>2
  <2> QED BY <2>1, <2>2
<1>3. \A i \in DOMAIN t : Len(s) + i \in DOMAIN u /\ u[Len(s) + i] = t[i]
  BY <1>1
<1>4. \A i \in DOMAIN s : i \in DOMAIN u /\ u[i] = s[i]
  BY <1>1
<1>5. Range(u) = Range(s) \cup Range(t)
  BY <1>2, <1>3, <1>4, RangeIs
<1>6. ASSUME Ascending(s), Ascending(t), \A x \in Range(s), y \in Range(t) : x < y
      PROVE  Ascending(u)
  <2> SUFFICES ASSUME NEW i \in DOMAIN u, NEW j \in DOMAIN u, i < j PROVE u[i] < u[j]
    BY DEF Ascending
  <2>1. CASE j \in DOMAIN s
    <3>1. i \in DOMAIN s
      BY <1>1, <2>1
    <3> QED BY <1>4, <1>6, <2>1, <3>1 DEF Ascending
  <2>2. CASE ~(j \in DOMAIN s) /\ i \in DOMAIN s
    BY <1>2, <1>4, <1>6, <2>2, RangeIs
  <2>3. CASE ~(j \in DOMAIN s) /\ ~(i \in DOMAIN s)
    <3>1. i - Len(s) \in DOMAIN t /\ j - Len(s) \in DOMAIN t /\ i - Len(s) < j - Len(s)
      BY <1>1, <1>2, <2>3
    <3>2. u[i] = t[i - Len(s)] /\ u[j] = t[j - Len(s)]
      BY <1>2, <2>3
    <3> QED BY <1>6, <3>1, <3>2 DEF Ascending
  <2> QED BY <2>1, <2>2, <2>3
<1> QED BY <1>5, <1>6 DEF u

(* A flush moves the tail of the open file to the disk. *)
LEMMA FlushIsNeat ==
  ASSUME NEW dir, NEW h, NEW hour, NEW last, Neat(dir, h, hour, last),
         NEW h2 \in Handles, h2.tail = <<>>,
         \/ h2.hour = 0 /\ ~h2.linked
         \/ h2.hour = h.hour /\ h2.linked = h.linked
  PROVE  LET dir2 == Flushed(dir, h)
         IN  /\ Neat(dir2, h2, hour, last) /\ Moves(dir, h, dir2, h2, {})
             /\ DOMAIN dir2 = DOMAIN dir
             /\ Size(dir2) \in Nat /\ Size(dir2) <= Size(dir) + Len(h.tail)
<1> DEFINE dir2 == Flushed(dir, h)
<1>1. /\ h \in Handles /\ h.hour \in Nat /\ h.tail \in Seq(Records) /\ h.hour <= hour
      /\ hour \in Nat /\ last \in Nat /\ Len(h.tail) \in Nat
  <2>1. /\ h \in Handles /\ h.hour \in Nat /\ h.tail \in Seq(Records) /\ h.hour <= hour
        /\ hour \in Nat /\ last \in Nat
    BY Constants DEF Neat, IsHandle, Handles, Hours
  <2> QED BY <2>1
<1>2. /\ DOMAIN dir \subseteq 1 .. hour /\ IsDirectory(dir, hour, last)
      /\ \A file \in DOMAIN dir : dir[file] \in Seq(Records)
      /\ \A record \in Stored(dir) : record <= last
  BY DEF Neat, IsDirectory
<1>3. /\ Ascending(h.tail)
      /\ \A y \in Range(h.tail) : y <= last /\ \A x \in Stored(dir) : x < y
  BY DEF Neat, IsHandle
<1>4. Range(h2.tail) = {} /\ Ascending(h2.tail) /\ Len(h2.tail) <= h2.writes
  <2>1. DOMAIN h2.tail = {} /\ Len(h2.tail) = 0 /\ h2.writes \in Nat
    BY DEF Handles
  <2> QED BY <2>1, RangeIs DEF Ascending
<1>5. CASE ~(h.linked /\ h.hour \in DOMAIN dir)
  <2>1. dir2 = dir
    BY <1>5 DEF Flushed
  <2>2. IsHandle(dir, h2, hour, last)
    <3>1. h2.hour <= hour /\ (h2.linked => h2.hour \in DOMAIN dir)
          /\ (h2.hour # 0 => \A file \in DOMAIN dir : file <= h2.hour)
      BY <1>1 DEF Neat, IsHandle
    <3> QED BY <1>4, <3>1 DEF IsHandle
  <2>3. Size(dir) \in Nat /\ Size(dir) <= Size(dir) + Len(h.tail)
    <3>1. Size(dir) \in Nat
      BY <1>1, <1>2, LinesAreFinite
    <3> QED BY <1>1, <3>1
  <2>4. Moves(dir, h, dir, h2, {})
    BY <1>4 DEF Moves
  <2> QED BY <2>1, <2>2, <2>3, <2>4 DEF Neat
<1>6. CASE h.linked /\ h.hour \in DOMAIN dir
  <2> DEFINE old == dir[h.hour]
  <2>1. /\ DOMAIN dir2 = DOMAIN dir /\ dir2[h.hour] = old \o h.tail
        /\ \A file \in DOMAIN dir \ {h.hour} : dir2[file] = dir[file]
    BY <1>6 DEF Flushed
  <2> HIDE DEF dir2
  <2>2. old \in Seq(Records) /\ Range(old) \subseteq Stored(dir) /\ Ascending(old)
    BY <1>2, <1>6, StoredIs DEF Neat, IsSorted
  <2> HIDE DEF old
  <2>3. \A x \in Range(old), y \in Range(h.tail) : x < y
    BY <1>3, <2>2
  <2>4. /\ old \o h.tail \in Seq(Records) /\ Ascending(old \o h.tail)
        /\ Range(old \o h.tail) = Range(old) \cup Range(h.tail)
    BY <1>1, <1>3, <2>2, <2>3, Joined, JoinedHold
  <2>5. Stored(dir2) \subseteq Stored(dir) \cup Range(h.tail)
    <3> SUFFICES ASSUME NEW file \in DOMAIN dir, NEW x \in Range(dir2[file])
                 PROVE  x \in Stored(dir) \cup Range(h.tail)
      BY <2>1, StoredIs
    <3>1. CASE file = h.hour
      BY <2>1, <2>2, <2>4, <3>1
    <3>2. CASE file # h.hour
      BY <2>1, <3>2, StoredIs
    <3> QED BY <3>1, <3>2
  <2>6. IsDirectory(dir2, hour, last)
    <3>1. \A file \in DOMAIN dir2 : dir2[file] \in Seq(Records)
      BY <1>2, <2>1, <2>4
    <3>2. \A record \in Stored(dir2) : record <= last
      BY <1>2, <1>3, <2>5
    <3> QED BY <1>2, <2>1, <3>1, <3>2 DEF IsDirectory
  <2>7. IsSorted(dir2)
    <3>1. \A file \in DOMAIN dir2 : Ascending(dir2[file])
      BY <2>1, <2>4 DEF Neat, IsSorted
    <3>2. ASSUME NEW earlier \in DOMAIN dir, NEW later \in DOMAIN dir, earlier < later,
                 NEW x \in Range(dir2[earlier]), NEW y \in Range(dir2[later])
          PROVE  x < y
      <4>1. earlier # h.hour
        <5>1. later <= h.hour /\ earlier \in Nat /\ later \in Nat
          BY <1>1, <1>2, <1>6 DEF Neat, IsHandle
        <5> QED BY <1>1, <3>2, <5>1
      <4>2. x \in Range(dir[earlier]) /\ x \in Stored(dir)
        BY <2>1, <3>2, <4>1, StoredIs
      <4>3. CASE later # h.hour
        BY <2>1, <3>2, <4>2, <4>3 DEF Neat, IsSorted
      <4>4. CASE later = h.hour /\ y \in Range(old)
        BY <3>2, <4>2, <4>4 DEF Neat, IsSorted, old
      <4>5. CASE later = h.hour /\ y \in Range(h.tail)
        BY <1>3, <4>2, <4>5
      <4> QED BY <2>1, <2>4, <3>2, <4>3, <4>4, <4>5
    <3> QED BY <2>1, <3>1, <3>2 DEF IsSorted
  <2>8. IsHandle(dir2, h2, hour, last)
    <3>1. h2.hour <= hour /\ (h2.linked => h2.hour \in DOMAIN dir2)
          /\ (h2.hour # 0 => \A file \in DOMAIN dir2 : file <= h2.hour)
      BY <1>1, <2>1 DEF Neat, IsHandle
    <3> QED BY <1>4, <3>1 DEF IsHandle
  <2> DEFINE new == {<<h.hour, Len(old) + i>> : i \in 1 .. Len(h.tail)}
  <2>9. IsFiniteSet(new) /\ Cardinality(new) \in Nat /\ Cardinality(new) <= Len(h.tail)
    <3> DEFINE f == [i \in 1 .. Len(h.tail) |-> <<h.hour, Len(old) + i>>]
    <3>1. f \in Surjection(1 .. Len(h.tail), new)
      BY DEF Surjection
    <3> HIDE DEF f, new
    <3> DEFINE n == Len(h.tail)
    <3>2. n \in Nat /\ IsFiniteSet(1 .. n) /\ Cardinality(1 .. n) = n
      <4>1. n \in Nat
        BY <1>1
      <4> HIDE DEF n
      <4> QED BY <4>1, FS_Interval
    <3>3. IsFiniteSet(new) /\ Cardinality(new) <= Len(h.tail)
      BY <3>1, <3>2, FS_Surjection
    <3> QED BY <3>3, FS_CardinalityType
  <2>10. Lines(dir2) \subseteq Lines(dir) \cup new
    <3> SUFFICES ASSUME NEW file \in DOMAIN dir, NEW i \in DOMAIN dir2[file]
                 PROVE  <<file, i>> \in Lines(dir) \cup new
      BY <1>1, <2>1, <2>6, LinesAreFinite
    <3>1. CASE file # h.hour
      BY <1>1, <1>2, <2>1, <3>1, LinesAreFinite
    <3>2. CASE file = h.hour /\ i \in DOMAIN old
      BY <1>1, <1>2, <3>2, LinesAreFinite DEF old
    <3>3. CASE file = h.hour /\ ~(i \in DOMAIN old)
      <4>1. /\ DOMAIN dir2[file] = 1 .. Len(old) + Len(h.tail) /\ DOMAIN old = 1 .. Len(old)
            /\ Len(old) \in Nat /\ Len(h.tail) \in Nat
        BY <1>1, <2>1, <2>2, <3>3, Joined
      <4>2. i - Len(old) \in 1 .. Len(h.tail) /\ i = Len(old) + (i - Len(old))
        BY <3>3, <4>1
      <4>3. <<h.hour, Len(old) + (i - Len(old))>> \in new
        BY <4>2
      <4> QED BY <3>3, <4>2, <4>3
    <3> QED BY <3>1, <3>2, <3>3
  <2> HIDE DEF new
  <2>11. Size(dir2) \in Nat /\ Size(dir2) <= Size(dir) + Len(h.tail)
    <3>1. IsFiniteSet(Lines(dir)) /\ Size(dir) \in Nat /\ Len(h.tail) \in Nat
      BY <1>1, <1>2, LinesAreFinite
    <3>2. IsFiniteSet(Lines(dir) \cup new) /\ Cardinality(Lines(dir) \cup new) \in Nat
          /\ Cardinality(Lines(dir) \cap new) \in Nat
      <4>1. IsFiniteSet(Lines(dir) \cup new) /\ IsFiniteSet(Lines(dir) \cap new)
        BY <2>9, <3>1, FS_Union, FS_Intersection
      <4> QED BY <4>1, FS_CardinalityType
    <3>3. Cardinality(Lines(dir) \cup new) <= Size(dir) + Len(h.tail)
      <4>1. Cardinality(Lines(dir) \cup new)
              = Size(dir) + Cardinality(new) - Cardinality(Lines(dir) \cap new)
        BY <2>9, <3>1, FS_Union DEF Size
      <4> QED BY <2>9, <3>1, <3>2, <4>1
    <3>4. Cardinality(Lines(dir2)) <= Cardinality(Lines(dir) \cup new)
          /\ Cardinality(Lines(dir2)) \in Nat
      <4>1. Lines(dir2) \in SUBSET (Lines(dir) \cup new)
        BY <2>10
      <4> QED BY <3>2, <4>1, FS_Subset, FS_CardinalityType
    <3> QED BY <3>1, <3>2, <3>3, <3>4 DEF Size
  <2>12. Moves(dir, h, dir2, h2, {})
    BY <1>4, <2>5 DEF Moves
  <2> QED BY <2>1, <2>6, <2>7, <2>8, <2>11, <2>12 DEF Neat, dir2
<1> QED BY <1>5, <1>6

(* A file is opened behind a closed one: an empty one if there is none. *)
LEMMA OpenIsNeat ==
  ASSUME NEW dir, NEW hour, NEW last, Neat(dir, Closed, hour, last)
  PROVE  LET dir2 == [file \in DOMAIN dir \cup {hour} |-> IF file \in DOMAIN dir THEN dir[file] ELSE <<>>]
             h2   == [hour |-> hour, linked |-> TRUE, tail |-> <<>>, writes |-> 0]
         IN  /\ Neat(dir2, h2, hour, last) /\ Stored(dir2) \subseteq Stored(dir)
             /\ DOMAIN dir2 = DOMAIN dir \cup {hour} /\ Size(dir2) = Size(dir)
<1> DEFINE dir2 == [file \in DOMAIN dir \cup {hour} |-> IF file \in DOMAIN dir THEN dir[file] ELSE <<>>]
           h2   == [hour |-> hour, linked |-> TRUE, tail |-> <<>>, writes |-> 0]
<1>1. hour \in Nat /\ hour > 0 /\ hour <= MaxHours /\ last \in Nat
      /\ IsDirectory(dir, hour, last) /\ DOMAIN dir \subseteq 1 .. hour
  BY Constants DEF Neat, Hours, IsDirectory
<1>2. /\ DOMAIN dir2 = DOMAIN dir \cup {hour}
      /\ \A file \in DOMAIN dir : dir2[file] = dir[file]
      /\ ~(hour \in DOMAIN dir) => dir2[hour] = <<>>
  OBVIOUS
<1> HIDE DEF dir2
<1>3. Range(<<>>) = {} /\ Ascending(<<>>) /\ <<>> \in Seq(Records) /\ DOMAIN <<>> = {}
  <2>1. DOMAIN <<>> = {} /\ <<>> \in Seq(Records)
    OBVIOUS
  <2> QED BY <2>1, RangeIs DEF Ascending
<1>4. Stored(dir2) \subseteq Stored(dir)
  BY <1>2, <1>3, StoredIs
<1>5. IsDirectory(dir2, hour, last)
  <2>1. DOMAIN dir2 \subseteq 1 .. hour
    BY <1>1, <1>2
  <2>2. \A file \in DOMAIN dir2 : dir2[file] \in Seq(Records)
    BY <1>1, <1>2, <1>3 DEF IsDirectory
  <2>3. \A record \in Stored(dir2) : record <= last
    BY <1>1, <1>4 DEF IsDirectory
  <2> QED BY <2>1, <2>2, <2>3 DEF IsDirectory
<1>6. IsSorted(dir2)
  <2>1. \A file \in DOMAIN dir2 : Ascending(dir2[file])
    BY <1>2, <1>3 DEF Neat, IsSorted
  <2>2. ASSUME NEW earlier \in DOMAIN dir2, NEW later \in DOMAIN dir2, earlier < later,
               NEW x \in Range(dir2[earlier]), NEW y \in Range(dir2[later])
        PROVE  x < y
    <3>1. earlier \in DOMAIN dir /\ later \in DOMAIN dir
      BY <1>2, <1>3, <2>2
    <3> QED BY <1>2, <2>2, <3>1 DEF Neat, IsSorted
  <2> QED BY <2>1, <2>2 DEF IsSorted
<1>7. IsHandle(dir2, h2, hour, last)
  <2>1. h2 \in Handles
    <3>1. hour \in 0 .. MaxHours /\ <<>> \in Seq(Records)
      BY <1>1, Constants
    <3> QED BY <3>1 DEF Handles
  <2>2. Len(h2.tail) <= h2.writes
    OBVIOUS
  <2>3. \A file \in DOMAIN dir2 : file <= h2.hour
    BY <1>1, <1>5 DEF IsDirectory
  <2> QED BY <1>1, <1>2, <1>3, <2>1, <2>2, <2>3 DEF IsHandle
<1>8. Lines(dir2) = Lines(dir)
  <2>1. \A line : line \in Lines(dir2) <=>
          \E file \in DOMAIN dir2 : \E i \in DOMAIN dir2[file] : line = <<file, i>>
    BY <1>1, <1>5, LinesAreFinite
  <2>2. \A line : line \in Lines(dir) <=>
          \E file \in DOMAIN dir : \E i \in DOMAIN dir[file] : line = <<file, i>>
    BY <1>1, LinesAreFinite
  <2>3. \A file \in DOMAIN dir2 \ DOMAIN dir : DOMAIN dir2[file] = {}
    BY <1>2, <1>3
  <2>4. \A line : line \in Lines(dir2) <=> line \in Lines(dir)
    BY <1>2, <2>1, <2>2, <2>3
  <2> QED BY <2>4
<1> QED BY <1>2, <1>4, <1>5, <1>6, <1>7, <1>8 DEF Neat, Size, dir2

LEMMA Appended ==
  ASSUME NEW s \in Seq(Records), NEW x \in Records, Ascending(s), \A y \in Range(s) : y < x
  PROVE  /\ Append(s, x) \in Seq(Records) /\ Ascending(Append(s, x))
         /\ Range(Append(s, x)) = Range(s) \cup {x} /\ Len(Append(s, x)) = Len(s) + 1
<1> DEFINE t == <<x>>
<1>1. t \in Seq(Records) /\ Len(t) = 1 /\ DOMAIN t = {1} /\ t[1] = x
  OBVIOUS
<1>2. Append(s, x) = s \o t
  OBVIOUS
<1> HIDE DEF t
<1>3. Ascending(t) /\ Range(t) = {x}
  BY <1>1, RangeIs DEF Ascending
<1>4. s \o t \in Seq(Records) /\ Len(s \o t) = Len(s) + Len(t)
  BY <1>1, Joined
<1>5. Range(s \o t) = Range(s) \cup Range(t) /\ Ascending(s \o t)
  BY <1>1, <1>3, JoinedHold
<1> QED BY <1>1, <1>2, <1>3, <1>4, <1>5

(* A new record is appended to what is still to be flushed. *)
LEMMA AppendIsNeat ==
  ASSUME NEW dir, NEW h, NEW hour, NEW last, Neat(dir, h, hour, last), last < Len(Kinds),
         NEW h2 \in Handles, h2.hour = h.hour, h2.linked = h.linked, h2.writes = h.writes + 1,
         Ascending(h2.tail), Range(h2.tail) = Range(h.tail) \cup {last + 1},
         Len(h2.tail) = Len(h.tail) + 1
  PROVE  Neat(dir, h2, hour, last + 1)
<1>1. /\ h \in Handles /\ last \in Nat /\ h.writes \in Nat /\ h.tail \in Seq(Records)
      /\ Len(h.tail) <= h.writes /\ Ascending(h.tail)
      /\ \A y \in Range(h.tail) : y <= last /\ \A x \in Stored(dir) : x < y
      /\ \A x \in Stored(dir) : x <= last
  BY Constants DEF Neat, IsHandle, IsDirectory, Handles
<1>2. (\A x \in Stored(dir) : x \in Nat) /\ (\A y \in Range(h.tail) : y \in Nat)
  <2>1. \A x \in Stored(dir) : x \in Records
    BY StoredIs, RangeIs DEF Neat, IsDirectory
  <2>2. \A y \in Range(h.tail) : y \in Records
    BY <1>1, RangeIs
  <2> QED BY <2>1, <2>2, Constants
<1>3. \A y \in Range(h2.tail) : y <= last + 1 /\ \A x \in Stored(dir) : x < y
  <2>1. \A x \in Stored(dir) : x < last + 1
    BY <1>1, <1>2
  <2>2. \A y \in Range(h.tail) : y <= last + 1
    BY <1>1, <1>2
  <2> QED BY <1>1, <2>1, <2>2
<1>4. Len(h2.tail) <= h2.writes
  <2>1. Len(h.tail) \in Nat
    BY <1>1
  <2> QED BY <1>1, <2>1
<1>5. IsHandle(dir, h2, hour, last + 1)
  BY <1>3, <1>4 DEF Neat, IsHandle
<1>6. IsDirectory(dir, hour, last + 1)
  BY <1>1, <1>2 DEF Neat, IsDirectory
<1> QED BY <1>1, <1>5, <1>6, Constants DEF Neat

-----------------------------------------------------------------------------
(* A write to the buffer.                                                   *)

(* What the tail does not hold yet is on the disk or gone. *)
LEMMA RetentionIsNeat ==
  ASSUME NEW last, Neat(files, handle, now, last)
  PROVE  LET kept == Retained
             h    == [handle EXCEPT !.linked = @ /\ handle.hour \in DOMAIN kept]
         IN  /\ Neat(kept, h, now, last) /\ Moves(files, handle, kept, h, {})
             /\ DOMAIN kept \subseteq DOMAIN files
             /\ Size(kept) \in Nat /\ Size(kept) <= MaxSize
             /\ h.hour = handle.hour /\ h.tail = handle.tail /\ h.writes = handle.writes
<1> DEFINE young == Young(files)
           old   == {hour \in DOMAIN files : now - hour >= MaxAge}
           much  == {hour \in DOMAIN young : Size(Without(young, Older(young, hour))) > MaxSize}
           kept  == Retained
           h1    == [handle EXCEPT !.linked = @ /\ handle.hour \in DOMAIN young]
           h     == [handle EXCEPT !.linked = @ /\ handle.hour \in DOMAIN kept]
           h2    == [h1 EXCEPT !.linked = @ /\ h1.hour \in DOMAIN kept]
<1>1. young = Without(files, old)
  BY DEF Young
<1>2. kept = Without(young, much)
  BY DEF Retained, Fit
<1>3. handle \in Handles
  BY DEF Neat, IsHandle
<1> HIDE DEF old, much, young, kept
<1>4. Neat(young, h1, now, last) /\ Moves(files, handle, young, h1, {})
      /\ DOMAIN young \subseteq DOMAIN files
  <2>1. LET dir2 == Without(files, old)
            h3   == [handle EXCEPT !.linked = @ /\ handle.hour \in DOMAIN dir2]
        IN  /\ Neat(dir2, h3, now, last) /\ Moves(files, handle, dir2, h3, {})
            /\ DOMAIN dir2 = DOMAIN files \ old
    BY WithoutIsNeat
  <2> QED BY <1>1, <2>1
<1> HIDE DEF h1
<1>5. /\ Neat(kept, h2, now, last) /\ Moves(young, h1, kept, h2, {})
      /\ DOMAIN kept \subseteq DOMAIN young /\ Size(kept) \in Nat
  <2>1. LET dir2 == Without(young, much)
            h3   == [h1 EXCEPT !.linked = @ /\ h1.hour \in DOMAIN dir2]
        IN  /\ Neat(dir2, h3, now, last) /\ Moves(young, h1, dir2, h3, {})
            /\ DOMAIN dir2 = DOMAIN young \ much /\ Size(dir2) \in Nat
    BY <1>4, WithoutIsNeat
  <2> QED BY <1>2, <2>1
<1> USE DEF h1
<1>6. Size(kept) <= MaxSize
  BY <1>4, FitFits DEF Retained, kept, young
<1>7. h2 = h /\ h.hour = handle.hour /\ h.tail = handle.tail /\ h.writes = handle.writes
      /\ h1.tail = handle.tail
  BY <1>3, <1>5 DEF Handles
<1> HIDE DEF h, h1, h2
<1>8. Moves(files, handle, kept, h, {})
  BY <1>4, <1>5, <1>7 DEF Moves
<1> QED BY <1>4, <1>5, <1>6, <1>7, <1>8 DEF kept, h

(* The old file is flushed and closed, this hour's is open. *)
LEMMA RotationIsNeat ==
  ASSUME NEW dir, NEW h, NEW last, Neat(dir, h, now, last), Size(dir) \in Nat
  PROVE  LET opened == Rotated(dir, h)
         IN  /\ Neat(opened[1], opened[2], now, last)
             /\ Moves(dir, h, opened[1], opened[2], {})
             /\ DOMAIN opened[1] \subseteq DOMAIN dir \cup {now}
             /\ Size(opened[1]) \in Nat
             /\ Size(opened[1]) + Len(opened[2].tail) <= Size(dir) + Len(h.tail)
             /\ opened[2].writes \in {h.writes, 0}
<1>1. CASE h.hour = now
  <2>1. Rotated(dir, h) = <<dir, h>>
    BY <1>1 DEF Rotated
  <2>2. h.tail \in Seq(Records)
    BY DEF Neat, IsHandle, Handles
  <2>3. Len(h.tail) \in Nat
    BY <2>2
  <2> QED BY <2>1, <2>3 DEF Moves
<1>2. CASE h.hour # now
  <2> DEFINE closed == Flushed(dir, h)
             dir2   == [hour \in DOMAIN closed \cup {now} |->
                          IF hour \in DOMAIN closed THEN closed[hour] ELSE <<>>]
             h2     == [hour |-> now, linked |-> TRUE, tail |-> <<>>, writes |-> 0]
  <2>1. Rotated(dir, h) = <<dir2, h2>>
    BY <1>2 DEF Rotated
  <2>2. Closed \in Handles /\ Closed.tail = <<>> /\ Closed.hour = 0 /\ ~Closed.linked
    <3>1. 0 \in 0 .. MaxHours /\ <<>> \in Seq(Records)
      BY Constants
    <3> QED BY <3>1 DEF Closed, Handles
  <2>3. /\ Neat(closed, Closed, now, last) /\ Moves(dir, h, closed, Closed, {})
        /\ DOMAIN closed = DOMAIN dir
        /\ Size(closed) \in Nat /\ Size(closed) <= Size(dir) + Len(h.tail)
    BY <2>2, FlushIsNeat
  <2>4. /\ Neat(dir2, h2, now, last) /\ Stored(dir2) \subseteq Stored(closed)
        /\ DOMAIN dir2 = DOMAIN closed \cup {now} /\ Size(dir2) = Size(closed)
    BY <2>3, OpenIsNeat
  <2>5. h2.tail = <<>> /\ h2.writes = 0 /\ Len(h2.tail) = 0 /\ Range(h2.tail) = {}
    <3>1. DOMAIN <<>> = {} /\ Len(<<>>) = 0
      OBVIOUS
    <3> QED BY <3>1, RangeIs
  <2> HIDE DEF dir2, h2, closed
  <2>6. Moves(dir, h, dir2, h2, {})
    BY <2>3, <2>4, <2>5 DEF Moves
  <2> QED BY <2>1, <2>3, <2>4, <2>5, <2>6
<1> QED BY <1>1, <1>2

LEMMA BufferIsNeat ==
  ASSUME NEW last, Neat(files, handle, now, last), last < Len(Kinds),
         handle.writes < SyncEvery, Buffer(last + 1)
  PROVE  /\ Neat(files', handle', now, last + 1)
         /\ Moves(files, handle, files', handle', {last + 1})
         /\ DOMAIN files' \subseteq DOMAIN files \cup {now}
         /\ Size(files') \in Nat /\ handle'.writes < SyncEvery
         /\ Size(files') + Len(handle'.tail) <= MaxSize + SyncEvery
<1> DEFINE kept == Retained
           h0   == [handle EXCEPT !.linked = @ /\ handle.hour \in DOMAIN kept]
           dir  == Rotated(kept, h0)[1]
           h1   == Rotated(kept, h0)[2]
           h    == [h1 EXCEPT !.tail = Append(@, last + 1), !.writes = @ + 1]
           h2   == [h EXCEPT !.tail = <<>>, !.writes = 0]
<1>1. /\ Neat(kept, h0, now, last) /\ Moves(files, handle, kept, h0, {})
      /\ DOMAIN kept \subseteq DOMAIN files
      /\ Size(kept) \in Nat /\ Size(kept) <= MaxSize
      /\ h0.hour = handle.hour /\ h0.tail = handle.tail /\ h0.writes = handle.writes
  BY RetentionIsNeat
<1>2. IF SyncDue(h.writes)
      THEN files' = Flushed(dir, h) /\ handle' = h2
      ELSE files' = dir /\ handle' = h
  BY DEF Buffer
<1> HIDE DEF kept, h0
<1>3. /\ Neat(dir, h1, now, last) /\ Moves(kept, h0, dir, h1, {})
      /\ DOMAIN dir \subseteq DOMAIN kept \cup {now} /\ Size(dir) \in Nat
      /\ Size(dir) + Len(h1.tail) <= Size(kept) + Len(h0.tail)
      /\ h1.writes \in {h0.writes, 0}
  BY <1>1, RotationIsNeat
<1> HIDE DEF dir, h1, h, h2
<1>4. handle \in Handles /\ h1 \in Handles /\ Len(handle.tail) <= handle.writes
  BY <1>1, <1>3 DEF Neat, IsHandle
<1>5. /\ Neat(dir, h, now, last + 1) /\ Range(h.tail) = Range(h1.tail) \cup {last + 1}
      /\ h.writes = h1.writes + 1 /\ Len(h.tail) = Len(h1.tail) + 1 /\ h \in Handles
  <2> DEFINE longer == Append(h1.tail, last + 1)
             c == [h1 EXCEPT !.tail = longer]
  <2>1. /\ last + 1 \in Records /\ h1.tail \in Seq(Records) /\ Ascending(h1.tail)
        /\ \A y \in Range(h1.tail) : y < last + 1
    <3>1. last + 1 \in Records /\ h1.tail \in Seq(Records) /\ Ascending(h1.tail)
      BY <1>3, <1>4, Constants DEF Neat, IsHandle, Handles
    <3>2. \A y \in Range(h1.tail) : y \in Nat /\ y <= last
      BY <1>3, <3>1, RangeIs, Constants DEF Neat, IsHandle
    <3> QED BY <3>1, <3>2, Constants DEF Neat
  <2>2. h = [h1 EXCEPT !.tail = longer, !.writes = h1.writes + 1]
    BY DEF h
  <2>3. /\ longer \in Seq(Records) /\ Ascending(longer)
        /\ Range(longer) = Range(h1.tail) \cup {last + 1} /\ Len(longer) = Len(h1.tail) + 1
    BY <2>1, Appended
  <2> HIDE DEF longer
  <2>4. /\ c \in Handles /\ c.tail = longer /\ c.hour = h1.hour /\ c.linked = h1.linked
        /\ h1.writes + 1 \in Nat
    BY <1>4, <2>3 DEF Handles
  <2>5. h = [c EXCEPT !.writes = h1.writes + 1]
    BY <2>2
  <2> HIDE DEF c
  <2>6. /\ h \in Handles /\ h.tail = longer /\ h.hour = h1.hour /\ h.linked = h1.linked
        /\ h.writes = h1.writes + 1
    BY <2>4, <2>5 DEF Handles
  <2>7. Ascending(h.tail) /\ Range(h.tail) = Range(h1.tail) \cup {last + 1}
        /\ Len(h.tail) = Len(h1.tail) + 1
    BY <2>3, <2>6
  <2>8. Neat(dir, h, now, last + 1)
    BY <1>3, <2>6, <2>7, AppendIsNeat
  <2> QED BY <2>6, <2>7, <2>8
<1>6. /\ Len(handle.tail) \in Nat /\ handle.writes \in Nat
      /\ Len(h1.tail) \in Nat /\ h1.writes \in Nat
  <2>1. handle.tail \in Seq(Records) /\ h1.tail \in Seq(Records)
    BY <1>4 DEF Handles
  <2> QED BY <1>4, <2>1 DEF Handles
<1>7. /\ Size(dir) + Len(h.tail) <= MaxSize + SyncEvery /\ Len(h.tail) \in Nat
      /\ h.writes <= SyncEvery /\ h.writes \in Nat
  <2>1. Len(h0.tail) <= SyncEvery - 1 /\ Len(h0.tail) \in Nat /\ h0.writes <= SyncEvery - 1
    BY <1>1, <1>4, <1>6, Constants
  <2>2. Size(dir) + Len(h1.tail) <= MaxSize + (SyncEvery - 1)
    BY <1>1, <1>3, <1>6, <2>1, Constants
  <2>3. Size(dir) + Len(h.tail) <= MaxSize + SyncEvery /\ Len(h.tail) \in Nat
    BY <1>3, <1>5, <1>6, <2>2, Constants
  <2>4. h1.writes <= SyncEvery - 1
    BY <1>3, <2>1, Constants
  <2>5. h.writes <= SyncEvery /\ h.writes \in Nat
    BY <1>5, <1>6, <2>4, Constants
  <2> QED BY <2>3, <2>5
<1>8. /\ Stored(dir) \subseteq Stored(files) \cup Range(handle.tail)
      /\ Range(h1.tail) \subseteq Range(handle.tail)
  BY <1>1, <1>3 DEF Moves
<1>9. CASE SyncDue(h.writes)
  <2>1. h2 \in Handles /\ h2.tail = <<>> /\ h2.writes = 0 /\ h2.hour = h.hour /\ h2.linked = h.linked
    <3>1. <<>> \in Seq(Records)
      OBVIOUS
    <3> DEFINE c == [h EXCEPT !.tail = <<>>]
    <3>2. c \in Handles /\ c.tail = <<>> /\ c.hour = h.hour /\ c.linked = h.linked
      BY <1>5, <3>1 DEF Handles
    <3>3. h2 = [c EXCEPT !.writes = 0]
      BY DEF h2
    <3> HIDE DEF c
    <3> QED BY <3>2, <3>3 DEF Handles
  <2>2. /\ Neat(Flushed(dir, h), h2, now, last + 1) /\ Moves(dir, h, Flushed(dir, h), h2, {})
        /\ DOMAIN Flushed(dir, h) = DOMAIN dir
        /\ Size(Flushed(dir, h)) \in Nat /\ Size(Flushed(dir, h)) <= Size(dir) + Len(h.tail)
    BY <1>5, <2>1, FlushIsNeat
  <2>3. files' = Flushed(dir, h) /\ handle' = h2
    BY <1>2, <1>9
  <2>4. Len(h2.tail) = 0
    BY <2>1
  <2>5. Moves(files, handle, files', handle', {last + 1})
    BY <1>5, <1>8, <2>2, <2>3 DEF Moves
  <2>6. Size(files') + Len(handle'.tail) <= MaxSize + SyncEvery
    BY <1>3, <1>7, <2>2, <2>3, <2>4, Constants
  <2> QED BY <1>1, <1>3, <2>1, <2>2, <2>3, <2>5, <2>6, Constants
<1>10. CASE ~SyncDue(h.writes)
  <2>1. files' = dir /\ handle' = h
    BY <1>2, <1>10
  <2>2. h.writes < SyncEvery
    BY <1>7, <1>10, Constants DEF SyncDue
  <2>3. Moves(files, handle, files', handle', {last + 1})
    BY <1>5, <1>8, <2>1 DEF Moves
  <2> QED BY <1>1, <1>3, <1>5, <1>7, <2>1, <2>2, <2>3
<1> QED BY <1>9, <1>10

-----------------------------------------------------------------------------
(* The inductive invariant.                                                 *)

(* The files that the replay has still to come to, the one that it sends    *)
(* included.                                                                *)
Pending ==
  replay.hours \cup IF replay.pc \in {"records", "asleep"} THEN {replay.hour} ELSE {}

(* What is on the disk, with what is still to be flushed, never exceeds the *)
(* bound: a retention leaves room for as much as one sync can bring.        *)
HasRoom == Size(files) + Len(handle.tail) <= MaxSize + SyncEvery

(* Of the file being sent, nothing is skipped. *)
SendsAll ==
  /\ ~buffered => replay = Waiting
  /\ replay.pc \in {"waiting", "files"} => replay.rest = <<>>
  /\ replay.pc = "waiting" => replay.hours = {}
  /\ replay.pc \in {"records", "asleep"} =>
       /\ replay.batch \subseteq sent \cup Range(replay.rest)
       /\ \A hour \in replay.hours : replay.hour < hour

(* The files come in the order of their hours, and any file that is not     *)
(* listed is of a later hour.                                               *)
ListsInOrder ==
  /\ Pending \subseteq 1 .. now
  /\ \A hour \in DOMAIN files \ Pending, next \in Pending : next < hour

(* What was not sent yet is newer than whatever a replay has sent, and what *)
(* is not being replayed is newer than what is.                             *)
UnsentIsNewer ==
  /\ newest <= made
  /\ Ascending(replay.rest)
  /\ \A y \in Range(replay.rest) :
       /\ y <= made
       /\ \A x \in Stored(files) \ sent : x \in Range(replay.rest) \/ y < x
       /\ \A x \in Range(handle.tail) : y < x
  /\ \A record \in (Stored(files) \cup Range(handle.tail) \cup Range(replay.rest)) \ sent :
       newest < record

IInv ==
  /\ TypeOK /\ Neat(files, handle, now, made) /\ HasRoom
  /\ SendsAll /\ ListsInOrder /\ UnsentIsNewer

LEMMA EmptyHolds ==
  /\ DOMAIN <<>> = {} /\ Len(<<>>) = 0 /\ Range(<<>>) = {} /\ Ascending(<<>>)
  /\ Stored(<<>>) = {} /\ Size(<<>>) = 0
<1>1. DOMAIN <<>> = {} /\ Len(<<>>) = 0
  OBVIOUS
<1>2. Range(<<>>) = {} /\ Stored(<<>>) = {} /\ Lines(<<>>) = {}
  BY <1>1 DEF Range, Stored, Lines
<1> QED BY <1>1, <1>2, FS_EmptySet DEF Ascending, Size

LEMMA InitInv == Init => IInv
<1> SUFFICES ASSUME Init PROVE IInv
  OBVIOUS
<1>1. /\ buffered \in BOOLEAN /\ made = 0 /\ snapshot = FALSE /\ now = 1
      /\ files = <<>> /\ handle = Closed /\ replay = Waiting
      /\ link = FALSE /\ connected = FALSE /\ outbox = {} /\ sent = {} /\ newest = 0
  BY DEF Init
<1>2. /\ handle \in [hour : 0 .. MaxHours, linked : BOOLEAN, tail : Seq(Records),
                     writes : 0 .. (SyncEvery - 1)]
      /\ handle.hour = 0 /\ handle.linked = FALSE /\ handle.tail = <<>> /\ handle.writes = 0
  BY <1>1, Constants DEF Closed
<1>3. /\ replay \in [pc : {"waiting", "files", "records", "asleep"}, hours : SUBSET Hours,
                     hour : 0 .. MaxHours, rest : Seq(Records), batch : SUBSET Records]
      /\ replay.pc = "waiting" /\ replay.hours = {} /\ replay.rest = <<>>
  BY <1>1, Constants DEF Waiting
<1>4. 1 \in Hours /\ 0 \in 0 .. Len(Kinds)
  BY Constants DEF Hours
<1>5. TypeOK
  BY <1>1, <1>2, <1>3, <1>4, EmptyHolds DEF TypeOK
<1>6. Neat(files, handle, now, made)
  <2>1. handle \in Handles
    BY <1>2 DEF Handles
  <2>2. IsDirectory(files, now, made) /\ IsSorted(files)
    BY <1>1, EmptyHolds DEF IsDirectory, IsSorted
  <2>3. IsHandle(files, handle, now, made)
    BY <1>1, <1>2, <2>1, EmptyHolds DEF IsHandle
  <2> QED BY <1>1, <1>4, <2>2, <2>3 DEF Neat
<1>7. HasRoom
  BY <1>1, <1>2, EmptyHolds, Constants DEF HasRoom
<1>8. SendsAll /\ ListsInOrder
  BY <1>1, <1>3, EmptyHolds DEF SendsAll, ListsInOrder, Pending
<1>9. UnsentIsNewer
  BY <1>1, <1>2, <1>3, EmptyHolds DEF UnsentIsNewer
<1> QED BY <1>5, <1>6, <1>7, <1>8, <1>9 DEF IInv

(* What is tidy stays so as time passes and records are made. *)
LEMMA NeatLater ==
  ASSUME NEW dir, NEW h, NEW hour, NEW last, Neat(dir, h, hour, last),
         NEW hour2 \in Hours, NEW last2 \in 0 .. Len(Kinds), hour <= hour2, last <= last2
  PROVE  Neat(dir, h, hour2, last2)
<1>1. /\ hour \in Nat /\ last \in Nat /\ hour2 \in Nat /\ last2 \in Nat
      /\ h \in Handles /\ h.hour \in Nat
  BY Constants DEF Neat, Hours, IsHandle, Handles
<1>2. (\A x \in Stored(dir) : x \in Nat) /\ (\A y \in Range(h.tail) : y \in Nat)
  <2>1. \A x \in Stored(dir) : x \in Records
    BY StoredIs, RangeIs DEF Neat, IsDirectory
  <2>2. \A y \in Range(h.tail) : y \in Records
    BY <1>1, RangeIs DEF Handles
  <2> QED BY <2>1, <2>2, Constants
<1>3. IsDirectory(dir, hour2, last2)
  <2>1. \A record \in Stored(dir) : record <= last2
    BY <1>1, <1>2 DEF Neat, IsDirectory
  <2> QED BY <1>1, <2>1 DEF Neat, IsDirectory
<1>4. IsHandle(dir, h, hour2, last2)
  <2>1. \A y \in Range(h.tail) : y <= last2 /\ \A x \in Stored(dir) : x < y
    BY <1>1, <1>2 DEF Neat, IsHandle
  <2>2. h.hour <= hour2
    BY <1>1 DEF Neat, IsHandle
  <2> QED BY <2>1, <2>2 DEF Neat, IsHandle
<1> QED BY <1>3, <1>4 DEF Neat

(* What the invariant says of the numbers and sets in the state. *)
LEMMA Numbers ==
  ASSUME IInv
  PROVE  /\ made \in Nat /\ newest \in Nat /\ now \in Nat /\ now \in Hours
         /\ handle \in Handles /\ handle.writes < SyncEvery /\ handle.tail \in Seq(Records)
         /\ replay.rest \in Seq(Records) /\ replay.hours \subseteq Nat /\ replay.hour \in Nat
         /\ Size(files) \in Nat /\ Len(handle.tail) \in Nat
         /\ \A x \in Stored(files) : x \in Nat /\ x <= made
         /\ \A x \in Range(handle.tail) : x \in Nat /\ x <= made
         /\ \A x \in Range(replay.rest) : x \in Nat /\ x <= made /\ x \in Records
<1>1. /\ made \in Nat /\ newest \in Nat /\ now \in Hours /\ now \in Nat
      /\ handle.writes < SyncEvery /\ replay.rest \in Seq(Records)
      /\ replay.hours \subseteq Nat /\ replay.hour \in Nat
  BY Constants DEF IInv, TypeOK, Hours
<1>2. handle \in Handles /\ handle.tail \in Seq(Records) /\ IsDirectory(files, now, made)
  BY DEF IInv, Neat, IsHandle, Handles
<1>3. Len(handle.tail) \in Nat
  BY <1>2
<1>4. Size(files) \in Nat
  BY <1>1, <1>2, LinesAreFinite
<1>5. \A x \in Stored(files) : x \in Records /\ x <= made
  BY <1>2, StoredIs, RangeIs DEF IsDirectory
<1>6. \A x \in Range(handle.tail) : x \in Records /\ x <= made
  BY <1>2, RangeIs DEF IInv, Neat, IsHandle
<1>7. \A x \in Range(replay.rest) : x \in Records /\ x <= made
  BY <1>1, RangeIs DEF IInv, UnsentIsNewer
<1> QED BY <1>1, <1>2, <1>3, <1>4, <1>5, <1>6, <1>7, Constants

(* A step that leaves the replay alone: records may move to the disk, get   *)
(* lost, or be made.                                                        *)
LEMMA ReplayHolds ==
  ASSUME IInv, NEW new, new \subseteq {made + 1}, Moves(files, handle, files', handle', new),
         DOMAIN files' \subseteq DOMAIN files \cup {now}, now' \in Hours, now <= now',
         made' \in {made, made + 1}, new # {} => made' = made + 1,
         sent \subseteq sent', UNCHANGED <<buffered, replay, newest>>
  PROVE  (SendsAll /\ ListsInOrder /\ UnsentIsNewer)'
<1> USE Numbers
<1>1. /\ made' \in Nat /\ made <= made' /\ now' \in Nat /\ Pending' = Pending
      /\ replay' = replay /\ newest' = newest /\ buffered' = buffered
      /\ SendsAll /\ ListsInOrder /\ UnsentIsNewer
  BY Constants DEF Hours, Pending, IInv
<1>2. SendsAll'
  BY <1>1 DEF SendsAll
<1>3. ListsInOrder'
  <2>1. Pending' \subseteq 1 .. now'
    BY <1>1 DEF ListsInOrder
  <2>2. ASSUME NEW hour \in DOMAIN files' \ Pending, NEW next \in Pending PROVE next < hour
    <3>1. CASE hour \in DOMAIN files
      BY <1>1, <2>2, <3>1 DEF ListsInOrder
    <3>2. CASE hour = now
      <4>1. next \in 1 .. now /\ next # now
        BY <1>1, <2>2, <3>2 DEF ListsInOrder
      <4> QED BY <3>2, <4>1
    <3> QED BY <2>2, <3>1, <3>2
  <2> QED BY <1>1, <2>1, <2>2 DEF ListsInOrder
<1>4. /\ \A x \in Stored(files') : x \in Stored(files) \/ x \in Range(handle.tail) \/ x = made + 1
      /\ \A x \in Range(handle'.tail) : x \in Range(handle.tail) \/ x = made + 1
  BY DEF Moves
<1>5. \A y \in Range(replay.rest) :
        /\ y <= made'
        /\ \A x \in Stored(files') \ sent' : x \in Range(replay.rest) \/ y < x
        /\ \A x \in Range(handle'.tail) : y < x
  <2> TAKE y \in Range(replay.rest)
  <2>1. /\ y <= made /\ y \in Nat /\ \A x \in Range(handle.tail) : y < x
        /\ \A x \in Stored(files) \ sent : x \in Range(replay.rest) \/ y < x
    BY <1>1 DEF UnsentIsNewer
  <2>2. y <= made' /\ y < made + 1
    BY <1>1, <2>1
  <2> QED BY <1>4, <2>1, <2>2
<1>6. \A record \in (Stored(files') \cup Range(handle'.tail) \cup Range(replay.rest)) \ sent' :
        newest < record
  <2>1. newest < made + 1
    BY <1>1 DEF UnsentIsNewer
  <2> QED BY <1>1, <1>4, <2>1 DEF UnsentIsNewer
<1>7. newest <= made'
  BY <1>1 DEF UnsentIsNewer
<1>8. UnsentIsNewer'
  BY <1>1, <1>5, <1>6, <1>7 DEF UnsentIsNewer
<1> QED BY <1>2, <1>3, <1>8

(* A record is published or buffered. *)
LEMMA RouteInv ==
  ASSUME IInv, NEW kind, Route(kind), UNCHANGED <<buffered, now, replay, newest>>,
         snapshot' \in BOOLEAN
  PROVE  IInv'
<1> USE Numbers
<1>1. /\ made' = made + 1 /\ made < Len(Kinds) /\ made' \in 0 .. Len(Kinds) /\ made' \in Records
  BY Constants DEF Route
<1>2. CASE connected
  <2>1. Publish(made') /\ UNCHANGED <<files, handle>>
    BY <1>2 DEF Route, disk
  <2>2. /\ sent \subseteq sent' /\ sent' \subseteq Records /\ outbox' \subseteq Records
        /\ link' = link /\ connected' = connected
    BY <1>1, <2>1 DEF Publish, IInv, TypeOK
  <2>3. TypeOK'
    BY <1>1, <2>1, <2>2 DEF IInv, TypeOK
  <2>4. Neat(files, handle, now, made')
    BY <1>1, NeatLater DEF IInv
  <2>5. HasRoom'
    BY <2>1 DEF IInv, HasRoom
  <2>6. (SendsAll /\ ListsInOrder /\ UnsentIsNewer)'
    <3>1. Moves(files, handle, files', handle', {}) /\ DOMAIN files' \subseteq DOMAIN files \cup {now}
      BY <2>1 DEF Moves
    <3> QED BY <1>1, <2>1, <2>2, <3>1, ReplayHolds
  <2> QED BY <2>1, <2>3, <2>4, <2>5, <2>6 DEF IInv
<1>3. CASE ~connected
  <2>1. Buffer(made + 1) /\ UNCHANGED <<link, connected, outbox, sent>>
    BY <1>1, <1>3 DEF Route, client
  <2>2. /\ Neat(files', handle', now, made + 1)
        /\ Moves(files, handle, files', handle', {made + 1})
        /\ DOMAIN files' \subseteq DOMAIN files \cup {now}
        /\ Size(files') \in Nat /\ handle'.writes < SyncEvery
        /\ Size(files') + Len(handle'.tail) <= MaxSize + SyncEvery
    BY <1>1, <2>1, BufferIsNeat DEF IInv
  <2>3. TypeOK'
    <3>1. handle' \in [hour : 0 .. MaxHours, linked : BOOLEAN, tail : Seq(Records),
                       writes : 0 .. (SyncEvery - 1)]
          /\ (handle'.linked => handle'.hour \in DOMAIN files')
      BY <2>2, Constants DEF Neat, IsHandle, Handles
    <3>2. DOMAIN files' \subseteq Hours /\ \A hour \in DOMAIN files' : files'[hour] \in Seq(Records)
      BY <2>2 DEF Neat, IsDirectory, IInv, TypeOK
    <3>3. /\ buffered' \in BOOLEAN /\ now' \in Hours /\ newest' \in 0 .. Len(Kinds)
          /\ replay' \in [pc : {"waiting", "files", "records", "asleep"}, hours : SUBSET Hours,
                          hour : 0 .. MaxHours, rest : Seq(Records), batch : SUBSET Records]
          /\ link' \in BOOLEAN /\ connected' \in BOOLEAN /\ outbox' \subseteq Records
          /\ sent' \subseteq Records
      BY <2>1 DEF IInv, TypeOK
    <3> QED BY <1>1, <3>1, <3>2, <3>3 DEF TypeOK
  <2>4. HasRoom'
    BY <2>2 DEF HasRoom
  <2>5. (SendsAll /\ ListsInOrder /\ UnsentIsNewer)'
    BY <1>1, <2>1, <2>2, ReplayHolds
  <2> QED BY <1>1, <2>2, <2>3, <2>4, <2>5 DEF IInv
<1> QED BY <1>2, <1>3

(* A step that neither makes nor moves a record. *)
LEMMA QuietInv ==
  ASSUME IInv, UNCHANGED <<buffered, made, files, handle, replay, sent, newest>>,
         snapshot' \in BOOLEAN, now' \in Hours, now <= now',
         link' \in BOOLEAN, connected' \in BOOLEAN, outbox' \in SUBSET Records
  PROVE  IInv'
<1>1. TypeOK'
  BY DEF IInv, TypeOK
<1>2. made \in 0 .. Len(Kinds)
  BY DEF IInv, TypeOK
<1>3. Neat(files, handle, now', made)
  BY <1>2, Numbers, NeatLater DEF IInv
<1>4. HasRoom'
  BY DEF IInv, HasRoom
<1>5. (SendsAll /\ ListsInOrder /\ UnsentIsNewer)'
  <2>1. Moves(files, handle, files', handle', {})
    BY DEF Moves
  <2> QED BY <2>1, ReplayHolds
<1> QED BY <1>1, <1>3, <1>4, <1>5 DEF IInv

LEMMA SpillInv == IInv /\ Spill => IInv'
<1> SUFFICES ASSUME IInv, Spill PROVE IInv'
  OBVIOUS
<1> USE Numbers
<1>1. /\ files' = Flushed(files, handle) /\ handle' = [handle EXCEPT !.tail = <<>>]
      /\ UNCHANGED <<source, now, replay, client, sent, newest>>
  BY DEF Spill
<1>2. /\ handle' \in Handles /\ handle'.tail = <<>> /\ handle'.hour = handle.hour
      /\ handle'.linked = handle.linked /\ handle'.writes = handle.writes
  <2>1. <<>> \in Seq(Records) /\ handle \in Handles /\ handle' = [handle EXCEPT !.tail = <<>>]
    BY <1>1
  <2> QED BY <2>1 DEF Handles
<1>3. /\ Neat(files', handle', now, made) /\ Moves(files, handle, files', handle', {})
      /\ DOMAIN files' = DOMAIN files
      /\ Size(files') \in Nat /\ Size(files') <= Size(files) + Len(handle.tail)
  BY <1>1, <1>2, FlushIsNeat DEF IInv
<1>4. TypeOK'
  <2>1. \A hour \in DOMAIN files' : files'[hour] \in Seq(Records)
    BY <1>3 DEF Neat, IsDirectory
  <2>2. handle' \in [hour : 0 .. MaxHours, linked : BOOLEAN, tail : Seq(Records),
                     writes : 0 .. (SyncEvery - 1)]
    BY <1>2, Constants DEF Handles
  <2> QED BY <1>1, <1>2, <1>3, <2>1, <2>2 DEF IInv, TypeOK, source, client
<1>5. HasRoom'
  <2>1. Len(handle'.tail) = 0
    BY <1>2, EmptyHolds
  <2> QED BY <1>3, <2>1, Constants DEF IInv, HasRoom
<1>6. (SendsAll /\ ListsInOrder /\ UnsentIsNewer)'
  BY <1>1, <1>3, ReplayHolds DEF source
<1> QED BY <1>1, <1>3, <1>4, <1>5, <1>6 DEF IInv, source

-----------------------------------------------------------------------------
(* The steps of the replay.                                                 *)

LEMMA ClosedIsHandle ==
  /\ Closed \in Handles /\ Closed.hour = 0 /\ ~Closed.linked /\ Closed.tail = <<>>
  /\ Closed.writes = 0 /\ Len(Closed.tail) = 0 /\ Range(Closed.tail) = {}
<1>1. 0 \in 0 .. MaxHours /\ <<>> \in Seq(Records)
  BY Constants
<1>2. Closed \in Handles /\ Closed.hour = 0 /\ ~Closed.linked /\ Closed.tail = <<>> /\ Closed.writes = 0
  BY <1>1 DEF Closed, Handles
<1> QED BY <1>2, EmptyHolds

LEMMA WaitingIsReplay ==
  /\ Waiting \in [pc : {"waiting", "files", "records", "asleep"}, hours : SUBSET Hours,
                  hour : 0 .. MaxHours, rest : Seq(Records), batch : SUBSET Records]
  /\ Waiting.pc = "waiting" /\ Waiting.hours = {} /\ Waiting.rest = <<>>
BY Constants DEF Waiting

(* Nothing is being replayed after the step. *)
LEMMA NothingIsSent ==
  ASSUME IInv, replay'.rest = <<>>, UNCHANGED <<made, sent, newest>>,
         Moves(files, handle, files', handle', {})
  PROVE  UnsentIsNewer'
<1>1. Ascending(replay'.rest) /\ Range(replay'.rest) = {}
  BY EmptyHolds
<1>2. newest <= made
  BY DEF IInv, UnsentIsNewer
<1>3. \A record \in (Stored(files') \cup Range(handle'.tail)) \ sent : newest < record
  BY DEF IInv, UnsentIsNewer, Moves
<1> QED BY <1>1, <1>2, <1>3 DEF UnsentIsNewer

(* A handle in the types of the state. *)
LEMMA HandleTyped ==
  ASSUME NEW h \in Handles, h.writes < SyncEvery
  PROVE  h \in [hour : 0 .. MaxHours, linked : BOOLEAN, tail : Seq(Records),
                writes : 0 .. (SyncEvery - 1)]
BY Constants DEF Handles

LEMMA BeginInv == IInv /\ Begin => IInv'
<1> SUFFICES ASSUME IInv, Begin PROVE IInv'
  OBVIOUS
<1> USE Numbers
<1>1. /\ buffered /\ files' = Flushed(files, handle) /\ handle' = Closed
      /\ replay' = [Waiting EXCEPT !.pc = "files", !.hours = DOMAIN files]
      /\ UNCHANGED <<source, now, client, sent, newest>>
  BY DEF Begin
<1>2. /\ Neat(files', handle', now, made) /\ Moves(files, handle, files', handle', {})
      /\ DOMAIN files' = DOMAIN files
      /\ Size(files') \in Nat /\ Size(files') <= Size(files) + Len(handle.tail)
  BY <1>1, ClosedIsHandle, FlushIsNeat DEF IInv
<1>3. /\ replay' \in [pc : {"waiting", "files", "records", "asleep"}, hours : SUBSET Hours,
                      hour : 0 .. MaxHours, rest : Seq(Records), batch : SUBSET Records]
      /\ replay'.pc = "files" /\ replay'.hours = DOMAIN files /\ replay'.rest = <<>>
  <2>1. replay' = [pc |-> "files", hours |-> DOMAIN files, hour |-> 0, rest |-> <<>>, batch |-> {}]
    BY <1>1 DEF Waiting
  <2>2. DOMAIN files \in SUBSET Hours
    BY DEF IInv, TypeOK
  <2> QED BY <2>1, <2>2, Constants
<1>4. TypeOK'
  <2>1. \A hour \in DOMAIN files' : files'[hour] \in Seq(Records)
    BY <1>2 DEF Neat, IsDirectory
  <2>2. handle' \in [hour : 0 .. MaxHours, linked : BOOLEAN, tail : Seq(Records),
                     writes : 0 .. (SyncEvery - 1)] /\ ~handle'.linked
    BY <1>1, ClosedIsHandle, HandleTyped, Constants
  <2> QED BY <1>1, <1>2, <1>3, <2>1, <2>2 DEF IInv, TypeOK, source, client
<1>5. HasRoom'
  BY <1>1, <1>2, ClosedIsHandle, Constants DEF IInv, HasRoom
<1>6. SendsAll'
  BY <1>1, <1>3 DEF SendsAll, source
<1>7. ListsInOrder'
  <2>1. Pending' = DOMAIN files /\ DOMAIN files \subseteq 1 .. now
    BY <1>3 DEF Pending, IInv, Neat, IsDirectory
  <2> QED BY <1>1, <1>2, <2>1 DEF ListsInOrder
<1>8. UnsentIsNewer'
  BY <1>1, <1>2, <1>3, NothingIsSent DEF source
<1> QED BY <1>1, <1>2, <1>4, <1>5, <1>6, <1>7, <1>8 DEF IInv, source

LEMMA RestartInv == IInv /\ Restart => IInv'
<1> SUFFICES ASSUME IInv, Restart PROVE IInv'
  OBVIOUS
<1> USE Numbers
<1>1. /\ snapshot' = FALSE /\ handle' = Closed /\ replay' = Waiting
      /\ link' = FALSE /\ connected' = FALSE /\ outbox' = {}
      /\ UNCHANGED <<buffered, made, now, files, sent, newest>>
  BY DEF Restart
<1>2. Neat(files, Closed, now, made)
  <2>1. Ascending(Closed.tail)
    BY ClosedIsHandle, EmptyHolds
  <2>2. IsHandle(files, Closed, now, made)
    BY <2>1, ClosedIsHandle DEF IsHandle
  <2> QED BY <2>2 DEF IInv, Neat
<1>3. TypeOK'
  <2>1. Closed \in [hour : 0 .. MaxHours, linked : BOOLEAN, tail : Seq(Records),
                    writes : 0 .. (SyncEvery - 1)] /\ ~Closed.linked
    BY ClosedIsHandle, HandleTyped, Constants
  <2> QED BY <1>1, <2>1, WaitingIsReplay DEF IInv, TypeOK
<1>4. HasRoom'
  BY <1>1, ClosedIsHandle, Constants DEF IInv, HasRoom
<1>5. SendsAll' /\ ListsInOrder'
  BY <1>1, WaitingIsReplay DEF SendsAll, ListsInOrder, Pending
<1>6. UnsentIsNewer'
  <2>1. Moves(files, handle, files', handle', {})
    BY <1>1, ClosedIsHandle DEF Moves
  <2> QED BY <1>1, <2>1, WaitingIsReplay, NothingIsSent
<1> QED BY <1>1, <1>2, <1>3, <1>4, <1>5, <1>6 DEF IInv

LEMMA DeleteInv == IInv /\ DeleteFile => IInv'
<1> SUFFICES ASSUME IInv, DeleteFile PROVE IInv'
  OBVIOUS
<1> USE Numbers
<1>1. /\ replay.pc = "records" /\ replay.rest = <<>> /\ files' = Without(files, {replay.hour})
      /\ handle' = [handle EXCEPT !.linked = @ /\ handle.hour # replay.hour]
      /\ replay' = [replay EXCEPT !.pc = "files"]
      /\ UNCHANGED <<source, now, client, sent, newest>>
  BY DEF DeleteFile
<1> DEFINE gone == {replay.hour}
           dir2 == Without(files, gone)
           h2   == [handle EXCEPT !.linked = @ /\ handle.hour \in DOMAIN dir2]
<1>2. /\ Neat(dir2, h2, now, made) /\ Moves(files, handle, dir2, h2, {})
      /\ DOMAIN dir2 = DOMAIN files \ {replay.hour}
      /\ Size(dir2) \in Nat /\ Size(dir2) <= Size(files)
      /\ h2.hour = handle.hour /\ h2.tail = handle.tail /\ h2.writes = handle.writes
  <2> HIDE DEF gone, dir2, h2
  <2>1. Neat(files, handle, now, made)
    BY DEF IInv
  <2>2. LET d2 == Without(files, gone)
            g2 == [handle EXCEPT !.linked = @ /\ handle.hour \in DOMAIN d2]
        IN  /\ Neat(d2, g2, now, made) /\ Moves(files, handle, d2, g2, {})
            /\ DOMAIN d2 = DOMAIN files \ gone
            /\ \A file \in DOMAIN d2 : d2[file] = files[file]
            /\ Size(d2) \in Nat /\ Size(d2) <= Size(files)
            /\ g2.hour = handle.hour /\ g2.tail = handle.tail /\ g2.writes = handle.writes
    BY <2>1, WithoutIsNeat
  <2> QED BY <2>2 DEF gone, dir2, h2
<1>3. handle' = h2
  <2>1. handle.linked \in BOOLEAN
    BY DEF Handles
  <2>2. (handle.linked /\ handle.hour # replay.hour) = (handle.linked /\ handle.hour \in DOMAIN dir2)
    BY <1>2, <2>1 DEF IInv, TypeOK
  <2> QED BY <1>1, <2>2
<1> HIDE DEF dir2, h2
<1>4. files' = dir2
  BY <1>1 DEF dir2
<1>5. /\ replay' \in [pc : {"waiting", "files", "records", "asleep"}, hours : SUBSET Hours,
                      hour : 0 .. MaxHours, rest : Seq(Records), batch : SUBSET Records]
      /\ replay'.pc = "files" /\ replay'.hours = replay.hours /\ replay'.rest = <<>>
  BY <1>1 DEF IInv, TypeOK
<1>6. TypeOK'
  <2>1. DOMAIN dir2 \subseteq Hours /\ \A hour \in DOMAIN dir2 : dir2[hour] \in Seq(Records)
    BY <1>2 DEF Neat, IsDirectory, IInv, TypeOK
  <2>2. h2 \in [hour : 0 .. MaxHours, linked : BOOLEAN, tail : Seq(Records),
                writes : 0 .. (SyncEvery - 1)]
    BY <1>2, HandleTyped DEF Neat, IsHandle
  <2>3. h2.linked => h2.hour \in DOMAIN dir2
    BY <1>2 DEF Neat, IsHandle
  <2> QED BY <1>1, <1>3, <1>4, <1>5, <2>1, <2>2, <2>3 DEF IInv, TypeOK, source, client
<1>7. HasRoom'
  BY <1>2, <1>3, <1>4, Constants DEF IInv, HasRoom
<1>8. SendsAll'
  <2>1. buffered
    BY <1>1, WaitingIsReplay DEF IInv, SendsAll
  <2> QED BY <1>1, <1>5, <2>1 DEF SendsAll, source
<1>9. ListsInOrder'
  <2>1. Pending = replay.hours \cup {replay.hour} /\ Pending' = replay.hours
    BY <1>1, <1>5 DEF Pending
  <2> QED BY <1>1, <1>2, <1>4, <2>1 DEF IInv, ListsInOrder
<1>10. UnsentIsNewer'
  BY <1>1, <1>2, <1>3, <1>4, <1>5, NothingIsSent DEF source
<1> QED BY <1>1, <1>2, <1>3, <1>4, <1>6, <1>7, <1>8, <1>9, <1>10 DEF IInv, source

LEMMA WakeInv == IInv /\ Wake => IInv'
<1> SUFFICES ASSUME IInv, Wake PROVE IInv'
  OBVIOUS
<1>1. /\ replay.pc = "asleep" /\ replay' = [replay EXCEPT !.pc = "records"]
      /\ UNCHANGED <<source, now, disk, client, sent, newest>>
  BY DEF Wake
<1>2. /\ replay' \in [pc : {"waiting", "files", "records", "asleep"}, hours : SUBSET Hours,
                      hour : 0 .. MaxHours, rest : Seq(Records), batch : SUBSET Records]
      /\ replay'.pc = "records" /\ replay'.hours = replay.hours /\ replay'.hour = replay.hour
      /\ replay'.rest = replay.rest /\ replay'.batch = replay.batch
  BY <1>1 DEF IInv, TypeOK
<1>3. TypeOK'
  BY <1>1, <1>2 DEF IInv, TypeOK, source, disk, client
<1>4. HasRoom' /\ Neat(files', handle', now', made')
  BY <1>1 DEF IInv, HasRoom, disk, source
<1>5. SendsAll'
  <2>1. buffered
    BY <1>1, WaitingIsReplay DEF IInv, SendsAll
  <2> QED BY <1>1, <1>2, <2>1 DEF IInv, SendsAll, source
<1>6. ListsInOrder'
  BY <1>1, <1>2 DEF IInv, ListsInOrder, Pending, disk
<1>7. UnsentIsNewer'
  BY <1>1, <1>2 DEF IInv, UnsentIsNewer, disk, source
<1> QED BY <1>3, <1>4, <1>5, <1>6, <1>7 DEF IInv

LEMMA MaxOfTwo ==
  ASSUME NEW a \in Nat, NEW b \in Nat
  PROVE  Max({a, b}) \in {a, b} /\ a <= Max({a, b}) /\ b <= Max({a, b})
<1>1. \E x \in {a, b} : \A y \in {a, b} : x >= y
  <2>1. CASE a >= b
    BY <2>1
  <2>2. CASE b >= a
    BY <2>2
  <2> QED BY <2>1, <2>2
<1>2. Max({a, b}) \in {a, b} /\ \A y \in {a, b} : Max({a, b}) >= y
  BY <1>1 DEF Max
<1> QED BY <1>2

(* What is sent first, and what is left. *)
LEMMA HeadAndTail ==
  ASSUME NEW s \in Seq(Records), s # <<>>
  PROVE  /\ Head(s) \in Range(s) /\ Head(s) \in Records /\ Tail(s) \in Seq(Records)
         /\ Range(s) = {Head(s)} \cup Range(Tail(s))
         /\ Ascending(s) =>
              Ascending(Tail(s)) /\ \A y \in Range(Tail(s)) : Head(s) < y
<1> DEFINE t == Tail(s)
<1>1. /\ Len(s) \in Nat /\ Len(s) > 0 /\ DOMAIN s = 1 .. Len(s) /\ Head(s) = s[1]
      /\ t \in Seq(Records) /\ Len(t) = Len(s) - 1 /\ DOMAIN t = 1 .. Len(s) - 1
      /\ \A i \in 1 .. Len(s) - 1 : t[i] = s[i + 1]
  OBVIOUS
<1>2. s[1] \in Records
  BY <1>1
<1> HIDE DEF t
<1>3. \A i \in DOMAIN t : i \in Nat /\ i + 1 \in DOMAIN s /\ t[i] = s[i + 1] /\ 1 < i + 1
  BY <1>1
<1>4. \A i \in DOMAIN s : i = 1 \/ (i - 1 \in DOMAIN t /\ t[i - 1] = s[i])
  <2> TAKE i \in DOMAIN s
  <2>1. CASE i # 1
    <3>1. i - 1 \in 1 .. Len(s) - 1 /\ (i - 1) + 1 = i
      BY <1>1, <2>1
    <3>2. t[i - 1] = s[(i - 1) + 1]
      BY <1>1, <3>1
    <3> QED BY <1>1, <3>1, <3>2
  <2> QED BY <2>1
<1>5. 1 \in DOMAIN s
  BY <1>1
<1>6. Range(s) = {s[1]} \cup Range(t)
  BY <1>3, <1>4, <1>5, RangeIs
<1>7. ASSUME Ascending(s)
      PROVE  Ascending(t) /\ \A y \in Range(t) : s[1] < y
  <2>1. ASSUME NEW i \in DOMAIN t, NEW j \in DOMAIN t, i < j PROVE t[i] < t[j]
    <3>1. i + 1 \in DOMAIN s /\ j + 1 \in DOMAIN s /\ i + 1 < j + 1
      BY <1>3, <2>1
    <3> QED BY <1>3, <1>7, <3>1 DEF Ascending
  <2>2. \A i \in DOMAIN t : s[1] < t[i]
    BY <1>3, <1>5, <1>7 DEF Ascending
  <2> QED BY <2>1, <2>2, RangeIs DEF Ascending
<1> QED BY <1>1, <1>2, <1>5, <1>6, <1>7, RangeIs DEF t

LEMMA ResendInv == IInv /\ Resend => IInv'
<1> SUFFICES ASSUME IInv, Resend PROVE IInv'
  OBVIOUS
<1> USE Numbers
<1>1. /\ replay.pc = "records" /\ replay.rest # <<>>
      /\ UNCHANGED <<source, now, disk>>
  BY DEF Resend
<1>2. HasRoom' /\ Neat(files', handle', now', made')
  BY <1>1 DEF IInv, HasRoom, disk, source
<1>3. Moves(files, handle, files', handle', {})
  BY <1>1 DEF Moves, disk
<1>4. CASE ~connected
  <2>1. replay' = Waiting /\ UNCHANGED <<client, sent, newest>>
    BY <1>4 DEF Resend
  <2>2. TypeOK'
    BY <1>1, <2>1, WaitingIsReplay DEF IInv, TypeOK, source, disk, client
  <2>3. SendsAll' /\ ListsInOrder'
    BY <1>1, <2>1, WaitingIsReplay DEF SendsAll, ListsInOrder, Pending
  <2>4. UnsentIsNewer'
    BY <1>1, <1>3, <2>1, WaitingIsReplay, NothingIsSent DEF source
  <2> QED BY <1>2, <2>2, <2>3, <2>4 DEF IInv
<1>5. CASE connected
  <2> DEFINE first == Head(replay.rest)
             left  == Tail(replay.rest)
  <2>1. /\ Publish(first) /\ newest' = Max({newest, first})
        /\ replay' = [replay EXCEPT !.pc = "asleep", !.rest = left]
    BY <1>5 DEF Resend
  <2>2. /\ first \in Range(replay.rest) /\ first \in Records /\ left \in Seq(Records)
        /\ Range(replay.rest) = {first} \cup Range(left)
        /\ Ascending(left) /\ \A y \in Range(left) : first < y
    BY <1>1, HeadAndTail DEF IInv, UnsentIsNewer
  <2> HIDE DEF first, left
  <2>3. first \in Nat /\ first <= made
    BY <2>2
  <2>4. newest' \in {newest, first} /\ newest <= newest' /\ first <= newest'
    BY <2>1, <2>3, MaxOfTwo
  <2>5. sent' = sent \cup {first} /\ UNCHANGED <<link, connected>> /\ outbox' \in SUBSET Records
    BY <2>1, <2>2 DEF Publish, IInv, TypeOK
  <2>6. /\ replay' \in [pc : {"waiting", "files", "records", "asleep"}, hours : SUBSET Hours,
                        hour : 0 .. MaxHours, rest : Seq(Records), batch : SUBSET Records]
        /\ replay'.pc = "asleep" /\ replay'.hours = replay.hours /\ replay'.hour = replay.hour
        /\ replay'.rest = left /\ replay'.batch = replay.batch
    <3>1. replay \in [pc : {"waiting", "files", "records", "asleep"}, hours : SUBSET Hours,
                      hour : 0 .. MaxHours, rest : Seq(Records), batch : SUBSET Records]
      BY DEF IInv, TypeOK
    <3> QED BY <2>1, <2>2, <3>1
  <2>7. TypeOK'
    <3>1. newest' \in 0 .. Len(Kinds) /\ sent' \subseteq Records
      BY <2>2, <2>4, <2>5, Constants DEF IInv, TypeOK
    <3> QED BY <1>1, <2>5, <2>6, <3>1 DEF IInv, TypeOK, source, disk
  <2>8. SendsAll'
    <3>1. buffered
      BY <1>1, WaitingIsReplay DEF IInv, SendsAll
    <3> QED BY <1>1, <2>2, <2>5, <2>6, <3>1 DEF IInv, SendsAll, source
  <2>9. ListsInOrder'
    BY <1>1, <2>6 DEF IInv, ListsInOrder, Pending, disk
  <2>10. UnsentIsNewer'
    <3>1. /\ newest <= made
          /\ \A y \in Range(replay.rest) :
               /\ y <= made
               /\ \A x \in Stored(files) \ sent : x \in Range(replay.rest) \/ y < x
               /\ \A x \in Range(handle.tail) : y < x
          /\ \A record \in (Stored(files) \cup Range(handle.tail) \cup Range(replay.rest)) \ sent :
               newest < record
      BY DEF IInv, UnsentIsNewer
    <3>2. \A y \in Range(left) :
            /\ y <= made
            /\ \A x \in Stored(files) \ sent' : x \in Range(left) \/ y < x
            /\ \A x \in Range(handle.tail) : y < x
      BY <2>2, <2>5, <3>1
    <3>3. \A record \in (Stored(files) \cup Range(handle.tail) \cup Range(left)) \ sent' :
            newest < record /\ first < record
      BY <2>2, <2>5, <3>1
    <3>4. \A record \in (Stored(files) \cup Range(handle.tail) \cup Range(left)) \ sent' :
            newest' < record
      BY <2>4, <3>3
    <3>5. newest' <= made
      BY <2>3, <2>4, <3>1
    <3> QED BY <1>1, <2>2, <2>6, <3>2, <3>4, <3>5 DEF UnsentIsNewer, disk, source
  <2> QED BY <1>2, <2>7, <2>8, <2>9, <2>10 DEF IInv
<1> QED BY <1>4, <1>5

LEMMA NextFileInv == IInv /\ NextFile => IInv'
<1> SUFFICES ASSUME IInv, NextFile PROVE IInv'
  OBVIOUS
<1> USE Numbers
<1> DEFINE first == Oldest(replay.hours)
           left  == [replay EXCEPT !.hours = @ \ {first}]
           read  == [left EXCEPT !.pc = "records", !.hour = first,
                                 !.rest = files[first], !.batch = Range(files[first])]
           Fields == [pc : {"waiting", "files", "records", "asleep"}, hours : SUBSET Hours,
                      hour : 0 .. MaxHours, rest : Seq(Records), batch : SUBSET Records]
<1>1. /\ replay.pc = "files" /\ UNCHANGED <<source, now, disk, client, sent, newest>>
      /\ \/ replay.hours # {} /\ Passes(first) /\ replay' = left
         \/ replay' = Waiting
         \/ replay.hours # {} /\ ~Passes(first) /\ replay' = read
  BY DEF NextFile
<1>2. HasRoom' /\ Neat(files', handle', now', made')
  BY <1>1 DEF IInv, HasRoom, disk, source
<1>3. Moves(files, handle, files', handle', {})
  BY <1>1 DEF Moves, disk
<1>4. buffered /\ replay.rest = <<>> /\ Pending = replay.hours /\ replay \in Fields
  BY <1>1, WaitingIsReplay DEF IInv, SendsAll, Pending, TypeOK
<1>5. replay.hours # {} => first \in replay.hours /\ \A hour \in replay.hours : first <= hour
  <2>1. replay.hours \in SUBSET Nat
    OBVIOUS
  <2> QED BY <2>1, MinIsLeast DEF Oldest
<1>6. left \in Fields /\ left.pc = "files" /\ left.hours = replay.hours \ {first} /\ left.rest = <<>>
  BY <1>1, <1>4
<1> HIDE DEF first
<1>7. SUFFICES TypeOK' /\ SendsAll' /\ ListsInOrder' /\ UnsentIsNewer'
  BY <1>2 DEF IInv
<1>8. CASE replay.hours # {} /\ Passes(first) /\ replay' = left
  <2> HIDE DEF left
  <2>1. TypeOK'
    BY <1>1, <1>6, <1>8 DEF IInv, TypeOK, source, disk, client
  <2>2. SendsAll'
    BY <1>1, <1>4, <1>6, <1>8 DEF SendsAll, source
  <2>3. ListsInOrder'
    <3>1. Pending' = replay.hours \ {first}
      BY <1>6, <1>8 DEF Pending
    <3>2. first \in DOMAIN files => first = now
      BY <1>8 DEF Passes
    <3>3. \A next \in replay.hours \ {first} : first = now => next < first
      BY <1>4 DEF IInv, ListsInOrder
    <3> QED BY <1>1, <1>4, <3>1, <3>2, <3>3 DEF IInv, ListsInOrder, disk
  <2>4. UnsentIsNewer'
    BY <1>1, <1>3, <1>6, <1>8, NothingIsSent DEF source
  <2> QED BY <2>1, <2>2, <2>3, <2>4
<1>9. CASE replay' = Waiting
  <2>1. TypeOK'
    BY <1>1, <1>9, WaitingIsReplay DEF IInv, TypeOK, source, disk, client
  <2>2. SendsAll' /\ ListsInOrder'
    BY <1>1, <1>9, WaitingIsReplay DEF SendsAll, ListsInOrder, Pending
  <2>3. UnsentIsNewer'
    BY <1>1, <1>3, <1>9, WaitingIsReplay, NothingIsSent DEF source
  <2> QED BY <2>1, <2>2, <2>3
<1>10. CASE replay.hours # {} /\ ~Passes(first) /\ replay' = read
  <2> DEFINE lines == files[first]
  <2>1. first \in DOMAIN files /\ first \in replay.hours /\ first \in 0 .. MaxHours
    BY <1>5, <1>10, Constants DEF Passes, IInv, TypeOK, Hours
  <2>2. lines \in Seq(Records) /\ Ascending(lines) /\ Range(lines) \subseteq Stored(files)
    BY <2>1, StoredIs DEF IInv, Neat, IsDirectory, IsSorted
  <2>3. Range(lines) \in SUBSET Records
    BY <2>2, RangeIs
  <2> HIDE DEF lines, left
  <2>4. /\ replay' \in Fields /\ replay'.pc = "records" /\ replay'.hour = first
        /\ replay'.hours = replay.hours \ {first} /\ replay'.rest = lines
        /\ replay'.batch = Range(lines)
    <3>1. replay' = [left EXCEPT !.pc = "records", !.hour = first,
                                 !.rest = lines, !.batch = Range(lines)]
      BY <1>10 DEF lines
    <3> QED BY <1>6, <2>1, <2>2, <2>3, <3>1
  <2> HIDE DEF read
  <2>5. TypeOK'
    BY <1>1, <2>4 DEF IInv, TypeOK, source, disk, client
  <2>6. SendsAll'
    <3>1. \A hour \in replay.hours \ {first} : first < hour
      BY <1>5, <2>1
    <3> QED BY <1>1, <1>4, <2>4, <3>1 DEF SendsAll, source
  <2>7. ListsInOrder'
    <3>1. Pending' = replay.hours
      BY <2>1, <2>4 DEF Pending
    <3> QED BY <1>1, <1>4, <3>1 DEF IInv, ListsInOrder, disk
  <2>8. UnsentIsNewer'
    <3>1. ASSUME NEW y \in Range(lines), NEW x \in Stored(files)
          PROVE  x \in Range(lines) \/ y < x
      <4>1. PICK file \in DOMAIN files : x \in Range(files[file])
        BY StoredIs
      <4>2. file \in Nat /\ first \in Nat /\ ~(file < first)
        <5>1. file \in Nat /\ first \in Nat
          BY <2>1 DEF IInv, Neat, IsDirectory
        <5>2. file \in replay.hours \/ first < file
          BY <1>4, <2>1 DEF IInv, ListsInOrder
        <5> QED BY <1>5, <2>1, <5>1, <5>2
      <4>3. CASE file = first
        BY <4>1, <4>3 DEF lines
      <4>4. CASE first < file
        BY <2>1, <4>1, <4>4 DEF lines, IInv, Neat, IsSorted
      <4> QED BY <4>2, <4>3, <4>4
    <3>2. \A y \in Range(lines) : y <= made /\ \A x \in Range(handle.tail) : y < x
      BY <2>2 DEF IInv, Neat, IsHandle
    <3>3. \A record \in (Stored(files) \cup Range(handle.tail) \cup Range(lines)) \ sent :
            newest < record
      BY <2>2 DEF IInv, UnsentIsNewer
    <3>4. newest <= made
      BY DEF IInv, UnsentIsNewer
    <3> QED BY <1>1, <2>2, <2>4, <3>1, <3>2, <3>3, <3>4 DEF UnsentIsNewer, disk, source
  <2> QED BY <2>5, <2>6, <2>7, <2>8
<1> QED BY <1>1, <1>8, <1>9, <1>10

-----------------------------------------------------------------------------
(* The specification.                                                       *)

LEMMA StepInv == IInv /\ [Next]_vars => IInv'
<1> SUFFICES ASSUME IInv, [Next]_vars PROVE IInv'
  OBVIOUS
<1> USE Numbers
<1>1. /\ snapshot \in BOOLEAN /\ link \in BOOLEAN /\ connected \in BOOLEAN
      /\ outbox \in SUBSET Records
  BY DEF IInv, TypeOK
<1>2. CASE Collect
  <2>1. /\ UNCHANGED <<buffered, made, now, disk, replay, client, sent, newest>>
        /\ snapshot' = TRUE
    BY <1>2 DEF Collect
  <2> QED BY <1>1, <2>1, QuietInv DEF disk, client
<1>3. CASE PublishTelemetry \/ PublishUnbuffered
  <2>1. /\ Route("telemetry") /\ snapshot' = FALSE /\ UNCHANGED <<buffered, now, replay, newest>>
    BY <1>3 DEF PublishTelemetry, PublishUnbuffered, PublishSnapshot
  <2> QED BY <2>1, RouteInv
<1>4. CASE ForwardEvent \/ ForwardUnbuffered
  <2>1. Route("event") /\ UNCHANGED <<buffered, snapshot, now, replay, newest>>
    BY <1>4 DEF ForwardEvent, ForwardUnbuffered
  <2> QED BY <1>1, <2>1, RouteInv
<1>5. CASE Connect
  <2>1. /\ link' = TRUE /\ connected' = TRUE /\ outbox' = {}
        /\ UNCHANGED <<source, now, disk, replay, sent, newest>>
    BY <1>5 DEF Connect
  <2> QED BY <1>1, <2>1, QuietInv DEF disk, source
<1>6. CASE Drop
  <2>1. link' = FALSE /\ UNCHANGED <<source, now, disk, replay, connected, outbox, sent, newest>>
    BY <1>6 DEF Drop
  <2>2. connected' \in BOOLEAN /\ link' \in BOOLEAN /\ outbox' \in SUBSET Records
    BY ONLY <1>1, <2>1
  <2>3. UNCHANGED <<buffered, made, snapshot, now, files, handle, replay, sent, newest>>
    BY ONLY <2>1 DEF disk, source
  <2> QED BY <1>1, <2>2, <2>3, QuietInv
<1>7. CASE Notice
  <2>1. connected' = FALSE /\ UNCHANGED <<source, now, disk, replay, link, outbox, sent, newest>>
    BY <1>7 DEF Notice
  <2>2. connected' \in BOOLEAN /\ link' \in BOOLEAN /\ outbox' \in SUBSET Records
    BY ONLY <1>1, <2>1
  <2>3. UNCHANGED <<buffered, made, snapshot, now, files, handle, replay, sent, newest>>
    BY ONLY <2>1 DEF disk, source
  <2> QED BY <1>1, <2>2, <2>3, QuietInv
<1>8. CASE Replay
  BY <1>8, BeginInv, NextFileInv, ResendInv, WakeInv, DeleteInv DEF Replay
<1>9. CASE Spill
  BY <1>9, SpillInv
<1>10. CASE Hour
  <2>1. /\ now < MaxHours /\ now' = now + 1
        /\ UNCHANGED <<source, disk, replay, client, sent, newest>>
    BY <1>10 DEF Hour
  <2>2. now' \in Hours /\ now <= now'
    BY <2>1, Constants DEF Hours
  <2> QED BY <1>1, <2>1, <2>2, QuietInv DEF disk, source, client
<1>11. CASE Restart
  BY <1>11, RestartInv
<1>12. CASE UNCHANGED vars
  <2>1. UNCHANGED <<source, now, disk, replay, client, sent, newest>>
    BY <1>12 DEF vars
  <2> QED BY <1>1, <2>1, QuietInv DEF disk, source, client
<1> QED BY <1>2, <1>3, <1>4, <1>5, <1>6, <1>7, <1>8, <1>9, <1>10, <1>11, <1>12 DEF Next

LEMMA InvHolds == Spec => []IInv
BY InitInv, StepInv, PTL DEF Spec

(* In every state all variables of loop.py, publisher.py, buffered_loop.py  *)
(* and buffer.py have their types, and the file open for writing, unless it *)
(* was deleted, is in the directory.                                        *)
THEOREM TypeCorrect == Spec => []TypeOK
<1>1. IInv => TypeOK
  BY DEF IInv
<1> QED BY <1>1, InvHolds, PTL

(* buffer.py _enforce_retention(): the buffer on the disk never holds more  *)
(* than its limit and what one flush brings, though it is called before a   *)
(* write and the limit is not looked at again until the next.               *)
THEOREM BufferStaysBounded == Spec => []BufferIsBounded
<1>1. ASSUME IInv PROVE BufferIsBounded
  BY <1>1, Numbers, Constants DEF IInv, HasRoom, BufferIsBounded
<1> QED BY <1>1, InvHolds, PTL

(* buffered_loop.py _buffer_replay_task(): a file is deleted only after     *)
(* every record read from it was handed to the client.                      *)
THEOREM DeletesSent == Spec => DeletesWhatItSent
<1>1. ASSUME IInv, [Next]_vars PROVE [DeleteFile => replay.batch \subseteq sent]_vars
  <2>1. ASSUME DeleteFile PROVE replay.batch \subseteq sent
    <3>1. replay.pc = "records" /\ Range(replay.rest) = {}
      BY <2>1, EmptyHolds DEF DeleteFile
    <3> QED BY <1>1, <3>1 DEF IInv, SendsAll
  <2> QED BY <2>1
<1> QED BY <1>1, InvHolds, PTL DEF Spec, DeletesWhatItSent

(* buffer.py drain(), buffered_loop.py _buffer_replay_task(): what a replay *)
(* sends for the first time is newer than all that a replay sent before,    *)
(* over lost connections, restarts and files that retention took.           *)
THEOREM InOrder == Spec => ReplaysInOrder
<1>1. ASSUME IInv, [Next]_vars
      PROVE  [\A record \in sent' \ sent : replay.pc = "records" => record > newest]_vars
  <2> USE Numbers
  <2>1. ASSUME NEW record \in sent' \ sent, replay.pc = "records" PROVE record > newest
    <3>1. buffered
      BY <1>1, <2>1, WaitingIsReplay DEF IInv, SendsAll
    <3>2. Resend /\ connected
      BY <1>1, <2>1, <3>1 DEF Next, vars, Collect, PublishTelemetry, PublishUnbuffered,
         ForwardEvent, ForwardUnbuffered, PublishSnapshot, Yielded, Connect, Drop, Notice,
         Replay, Begin, NextFile, Resend, Wake, DeleteFile, Spill, Hour, Restart
    <3>3. sent' = sent \cup {Head(replay.rest)} /\ replay.rest # <<>>
      BY <3>2 DEF Resend, Publish
    <3>4. record \in Range(replay.rest) /\ record \in Nat
      BY <1>1, <2>1, <3>3, HeadAndTail
    <3> QED BY <1>1, <2>1, <3>4 DEF IInv, UnsentIsNewer
  <2> QED BY <2>1
<1> QED BY <1>1, InvHolds, PTL DEF Spec, ReplaysInOrder
=============================================================================
