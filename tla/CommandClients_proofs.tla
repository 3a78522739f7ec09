----------------------- MODULE CommandClients_proofs -----------------------
(***************************************************************************)
(* Proofs about CommandClients, for any managers, any limit and window and *)
(* any number of messages, requests and crashes.                           *)
(***************************************************************************)
EXTENDS CommandClients, SequenceTheorems, FiniteSetTheorems, TLAPS

LEMMA BoundsAreNat ==
  /\ MaxCommands \in Nat /\ MaxCommands > 0 /\ Window \in Nat
  /\ MaxSessions \in Nat /\ MaxSessions > 0
  /\ MaxTime \in Nat /\ MaxMessages \in Nat /\ MaxRequests \in Nat /\ MaxCrashes \in Nat
BY CommandAssumption

(* What the tail of a sequence and a longer sequence hold. *)
LEMMA TailsShift ==
  ASSUME NEW S, NEW s \in Seq(S), s # <<>>
  PROVE  /\ Head(s) = s[1] /\ 1 \in DOMAIN s /\ s[1] \in S /\ Tail(s) \in Seq(S)
         /\ \A i \in DOMAIN Tail(s) : i + 1 \in DOMAIN s /\ i + 1 # 1 /\ Tail(s)[i] = s[i + 1]
         /\ Len(s) = 1 => Tail(s) = <<>>
<1>1. Head(s) \in S /\ Tail(s) \in Seq(S) /\ Len(Tail(s)) = Len(s) - 1
      /\ \A i \in 1 .. Len(Tail(s)) : Tail(s)[i] = s[i + 1]
  BY HeadTailProperties
<1>2. /\ Len(s) \in Nat /\ Len(s) > 0 /\ DOMAIN s = 1 .. Len(s) /\ Head(s) = s[1]
      /\ DOMAIN Tail(s) = 1 .. Len(Tail(s)) /\ s \in [1 .. Len(s) -> S]
  BY <1>1, EmptySeq, LenProperties
<1>3. \A i \in DOMAIN Tail(s) : i + 1 \in DOMAIN s /\ i + 1 # 1 /\ Tail(s)[i] = s[i + 1]
  BY <1>1, <1>2
<1>4. ASSUME Len(s) = 1 PROVE Tail(s) = <<>>
  <2>1. Tail(s) \in Seq(S) /\ ~(Len(Tail(s)) \in Nat \ {0})
    BY <1>1, <1>4
  <2> QED BY <2>1, EmptySeq
<1> QED BY <1>1, <1>2, <1>3, <1>4

LEMMA AppendsAt ==
  ASSUME NEW S, NEW s \in Seq(S), NEW e \in S
  PROVE  /\ Append(s, e) \in Seq(S)
         /\ \A i \in DOMAIN Append(s, e) :
              (i \in DOMAIN s /\ Append(s, e)[i] = s[i]) \/ (i = Len(s) + 1 /\ Append(s, e)[i] = e)
<1> DEFINE l == Append(s, e)
<1>1. /\ l \in Seq(S) /\ Len(l) = Len(s) + 1
      /\ \A i \in 1 .. Len(s) : l[i] = s[i]
      /\ l[Len(s) + 1] = e
  BY AppendProperties
<1> HIDE DEF l
<1>2. Len(s) \in Nat /\ DOMAIN s = 1 .. Len(s) /\ DOMAIN l = 1 .. Len(s) + 1
  BY <1>1, LenProperties
<1>3. \A i \in DOMAIN l : (i \in DOMAIN s /\ l[i] = s[i]) \/ (i = Len(s) + 1 /\ l[i] = e)
  BY <1>1, <1>2
<1> QED BY <1>1, <1>3 DEF l

-----------------------------------------------------------------------------
(* The limiter of the dispatcher.                                           *)

Sorted(s) == \A i, j \in DOMAIN s : i <= j => s[i] <= s[j]

(* What a sorted sequence holds below a bound is its beginning. *)
LEMMA OldIsPrefix ==
  ASSUME NEW s \in Seq(Int), Sorted(s), NEW c \in Int
  PROVE  LET m == Cardinality({i \in DOMAIN s : s[i] < c})
         IN  /\ m \in 0 .. Len(s)
             /\ \A i \in DOMAIN s : s[i] < c <=> i <= m
<1> DEFINE old == {i \in DOMAIN s : s[i] < c}
           m   == Cardinality(old)
<1>1. /\ DOMAIN s = 1 .. Len(s) /\ Len(s) \in Nat
      /\ \A i \in 1 .. Len(s) : s[i] \in Int
  OBVIOUS
<1>2. \A i \in Int : IsFiniteSet(1 .. i) /\ (i >= 0 => Cardinality(1 .. i) = i)
  <2> TAKE i \in Int
  <2> QED BY FS_Interval
<1>3. IsFiniteSet(old) /\ m \in Nat /\ m <= Len(s)
  <2>1. old \in SUBSET (1 .. Len(s)) /\ IsFiniteSet(1 .. Len(s)) /\ Cardinality(1 .. Len(s)) = Len(s)
    BY <1>1, <1>2
  <2> HIDE DEF old
  <2>2. IsFiniteSet(old) /\ Cardinality(old) <= Len(s)
    BY <2>1, FS_Subset
  <2> QED BY <2>2, FS_CardinalityType
<1>4. ASSUME NEW i \in 1 .. Len(s), s[i] < c PROVE i <= m
  <2>1. \A j \in 1 .. i : j \in 1 .. Len(s) /\ s[j] <= s[i]
    BY <1>1 DEF Sorted
  <2>2. 1 .. i \in SUBSET old
    BY <1>1, <1>4, <2>1
  <2>3. Cardinality(1 .. i) = i
    BY <1>1, <1>2
  <2> HIDE DEF old
  <2> QED BY <2>2, <2>3, <1>3, FS_Subset
<1>5. ASSUME NEW i \in 1 .. Len(s), ~(s[i] < c) PROVE m < i
  <2>1. old \in SUBSET (1 .. (i - 1))
    BY <1>1, <1>5 DEF Sorted
  <2>2. m <= i - 1
    BY <2>1, <1>2, FS_Subset
  <2> QED BY <2>2, <1>3
<1> HIDE DEF m, old
<1>6. \A i \in 1 .. Len(s) : s[i] < c <=> i <= m
  BY <1>3, <1>4, <1>5
<1> QED BY <1>1, <1>3, <1>6 DEF m, old

(* What the limiter keeps of its times is the end of them, from the first   *)
(* one that is in the window.                                               *)
LEMMA RecentIsSuffix ==
  ASSUME stamps \in Seq(0 .. MaxTime), Sorted(stamps), now \in 0 .. MaxTime
  PROVE  \E m \in 0 .. Len(stamps) :
           /\ Recent \in Seq(0 .. MaxTime) /\ Len(Recent) = Len(stamps) - m
           /\ \A i \in 1 .. Len(Recent) : Recent[i] = stamps[m + i]
           /\ \A i \in 1 .. Len(stamps) : stamps[i] < now - Window <=> i <= m
<1> DEFINE m == Cardinality({i \in DOMAIN stamps : stamps[i] < now - Window})
<1>1. stamps \in Seq(Int) /\ now - Window \in Int
  BY BoundsAreNat
<1>2. m \in 0 .. Len(stamps) /\ \A i \in DOMAIN stamps : stamps[i] < now - Window <=> i <= m
  BY <1>1, OldIsPrefix
<1>3. Recent = SubSeq(stamps, m + 1, Len(stamps))
  BY DEF Recent
<1> HIDE DEF m
<1>4. /\ DOMAIN stamps = 1 .. Len(stamps) /\ Len(stamps) \in Nat
      /\ m \in Nat /\ m <= Len(stamps)
      /\ \A i \in 1 .. Len(stamps) : stamps[i] \in 0 .. MaxTime
  <2>1. DOMAIN stamps = 1 .. Len(stamps) /\ Len(stamps) \in Nat
    OBVIOUS
  <2>2. m \in Nat /\ m <= Len(stamps)
    BY <1>2, <2>1
  <2>3. stamps \in [1 .. Len(stamps) -> 0 .. MaxTime]
    BY LenProperties
  <2> QED BY <2>1, <2>2, <2>3
<1>5. \A i \in m + 1 .. Len(stamps) : stamps[i] \in 0 .. MaxTime
  <2> TAKE i \in m + 1 .. Len(stamps)
  <2>1. i \in 1 .. Len(stamps)
    BY <1>4
  <2> QED BY <2>1, <1>4
<1>6. /\ Recent \in Seq(0 .. MaxTime)
      /\ Len(Recent) = IF m + 1 <= Len(stamps) THEN Len(stamps) - (m + 1) + 1 ELSE 0
      /\ \A i \in 1 .. Len(stamps) - (m + 1) + 1 : Recent[i] = stamps[m + 1 + i - 1]
  <2>1. m + 1 \in Int /\ Len(stamps) \in Int
    BY <1>2, <1>4
  <2>2. \A i \in m + 1 .. Len(stamps) : stamps[i] \in 0 .. MaxTime
    BY <1>5
  <2> QED BY ONLY <1>3, <2>1, <2>2, SubSeqProperties
<1>7. Len(Recent) = Len(stamps) - m
  <2> DEFINE l == Len(Recent)
             n == Len(stamps)
  <2>1. n \in Nat /\ m \in Nat /\ m <= n /\ l = IF m + 1 <= n THEN n - (m + 1) + 1 ELSE 0
    BY <1>4, <1>6
  <2> HIDE DEF l, n
  <2>2. l = n - m
    BY <2>1
  <2> QED BY <2>2 DEF l, n
<1>8. \A i \in 1 .. Len(Recent) : Recent[i] = stamps[m + i]
  <2> TAKE i \in 1 .. Len(Recent)
  <2>1. i \in 1 .. Len(stamps) - (m + 1) + 1 /\ m + 1 + i - 1 = m + i
    BY <1>2, <1>4, <1>7
  <2> HIDE DEF m
  <2>2. Recent[i] = stamps[m + 1 + i - 1]
    BY <2>1, <1>6
  <2> QED BY <2>1, <2>2
<1> QED BY <1>2, <1>4, <1>6, <1>7, <1>8

(* The times the limiter keeps are in order, and whatever was forwarded in  *)
(* the window is still among them: counted from their ends, a forwarded     *)
(* command stands no later than the time that was kept for it.              *)
LimiterTypes ==
  /\ now \in 0 .. MaxTime
  /\ stamps \in Seq(0 .. MaxTime) /\ Len(stamps) <= MaxCommands
  /\ forwarded \in Seq(0 .. MaxTime)

Counted ==
  /\ Sorted(stamps) /\ \A i \in DOMAIN stamps : stamps[i] <= now
  /\ \A i \in DOMAIN forwarded : forwarded[i] <= now
  /\ \A k \in 0 .. Len(forwarded) - 1 :
       forwarded[Len(forwarded) - k] >= now - Window =>
         /\ k < Len(stamps)
         /\ stamps[Len(stamps) - k] >= forwarded[Len(forwarded) - k]

LimiterInv == LimiterTypes /\ Counted /\ RateIsLimited

(* What a step may do to the limiter. *)
Waited  == now' \in 0 .. MaxTime /\ now <= now' /\ UNCHANGED rest
Limited == stamps' = Recent /\ UNCHANGED <<now, forwarded>>
Passed  == Len(Recent) < MaxCommands /\ stamps' = Append(Recent, now) /\ UNCHANGED now

LEMMA LimiterStep ==
  ASSUME LimiterTypes, [Next]_vars
  PROVE  \/ Waited \/ Limited
         \/ Passed /\ (forwarded' = forwarded \/ forwarded' = Append(forwarded, now))
<1> USE BoundsAreNat DEF LimiterTypes
<1>1. CASE Tick
  BY <1>1 DEF Tick, Waited
<1>2. CASE Limit
  BY <1>2 DEF Limit, Take, Limited
<1>3. CASE Refuse
  BY <1>3 DEF Refuse, Allowed, Take, Passed
<1>4. CASE Forward
  BY <1>4 DEF Forward, Allowed, Take, Passed
<1>5. CASE UNCHANGED <<now, rest>>
  BY <1>5 DEF rest, Waited
<1>6. CASE Arrive \/ Reject \/ Receive \/ Timeout
  BY <1>5, <1>6 DEF Arrive, Reject, Take, Receive, Timeout
<1>7. CASE Sessions \/ Request \/ \E r \in DOMAIN requests : GiveUp(r)
  BY <1>5, <1>7 DEF Sessions, Login, Logout, CleanUp, Request, GiveUp
<1>8. CASE \E t \in Targets : Serve(t) \/ Crash(t) \/ Start(t)
  BY <1>5, <1>8 DEF Serve, Crash, Start
<1>9. CASE UNCHANGED vars
  BY <1>5, <1>9 DEF vars
<1> QED BY <1>1, <1>2, <1>3, <1>4, <1>6, <1>7, <1>8, <1>9 DEF Next, Dispatch

(* What is left of the window is in order, no longer than it was, and has   *)
(* the times of what was forwarded in the window.                           *)
LEMMA RecentCounts ==
  ASSUME LimiterTypes, Counted
  PROVE  /\ Recent \in Seq(0 .. MaxTime) /\ Len(Recent) <= MaxCommands
         /\ Sorted(Recent) /\ \A i \in DOMAIN Recent : Recent[i] <= now
         /\ \A k \in 0 .. Len(forwarded) - 1 :
              forwarded[Len(forwarded) - k] >= now - Window =>
                /\ k < Len(Recent)
                /\ Recent[Len(Recent) - k] >= forwarded[Len(forwarded) - k]
<1> USE BoundsAreNat
<1>1. PICK m \in 0 .. Len(stamps) :
         /\ Recent \in Seq(0 .. MaxTime) /\ Len(Recent) = Len(stamps) - m
         /\ \A i \in 1 .. Len(Recent) : Recent[i] = stamps[m + i]
         /\ \A i \in 1 .. Len(stamps) : stamps[i] < now - Window <=> i <= m
  BY RecentIsSuffix DEF LimiterTypes, Counted
<1>2. /\ Len(stamps) \in Nat /\ DOMAIN stamps = 1 .. Len(stamps) /\ m \in Nat
      /\ stamps \in [1 .. Len(stamps) -> 0 .. MaxTime]
      /\ Len(forwarded) \in Nat /\ DOMAIN forwarded = 1 .. Len(forwarded)
      /\ forwarded \in [1 .. Len(forwarded) -> 0 .. MaxTime]
      /\ now \in Nat
  BY LenProperties DEF LimiterTypes
<1>3. DOMAIN Recent = 1 .. Len(Recent) /\ Len(Recent) \in Nat
  BY <1>1, LenProperties
<1>4. Len(Recent) <= MaxCommands
  BY <1>1, <1>2, <1>3 DEF LimiterTypes
<1>5. \A i \in 1 .. Len(Recent) : m + i \in 1 .. Len(stamps)
  BY <1>1, <1>2
<1>6. Sorted(Recent) /\ \A i \in DOMAIN Recent : Recent[i] <= now
  <2>1. ASSUME NEW i \in 1 .. Len(Recent), NEW j \in 1 .. Len(Recent), i <= j
        PROVE  Recent[i] <= Recent[j]
    <3>1. m + i <= m + j
      BY <1>2, <2>1
    <3> QED BY <1>1, <1>2, <1>5, <3>1 DEF Counted, Sorted
  <2>2. ASSUME NEW i \in 1 .. Len(Recent) PROVE Recent[i] <= now
    BY <1>1, <1>2, <1>5 DEF Counted
  <2> QED BY <1>3, <2>1, <2>2 DEF Sorted
<1>7. ASSUME NEW k \in 0 .. Len(forwarded) - 1, forwarded[Len(forwarded) - k] >= now - Window
      PROVE  k < Len(Recent) /\ Recent[Len(Recent) - k] >= forwarded[Len(forwarded) - k]
  <2>1. Len(forwarded) - k \in 1 .. Len(forwarded) /\ forwarded[Len(forwarded) - k] \in Nat
    BY <1>2
  <2>2. k < Len(stamps) /\ stamps[Len(stamps) - k] >= forwarded[Len(forwarded) - k]
    BY <1>7 DEF Counted
  <2>3. Len(stamps) - k \in 1 .. Len(stamps) /\ stamps[Len(stamps) - k] \in Nat
    BY <1>2, <2>2
  <2>4. ~(Len(stamps) - k <= m)
    <3>1. ~(stamps[Len(stamps) - k] < now - Window)
      BY <1>2, <1>7, <2>1, <2>2, <2>3
    <3> QED BY <1>1, <2>3, <3>1
  <2>5. Len(Recent) - k \in 1 .. Len(Recent) /\ m + (Len(Recent) - k) = Len(stamps) - k
    BY <1>1, <1>2, <1>3, <2>4
  <2>6. Recent[Len(Recent) - k] = stamps[Len(stamps) - k]
    BY <1>1, <2>5
  <2> QED BY <1>3, <2>2, <2>5, <2>6
<1> QED BY <1>1, <1>4, <1>6, <1>7

LEMMA LimiterNext == LimiterInv /\ [Next]_vars => LimiterInv'
<1> SUFFICES ASSUME LimiterInv, [Next]_vars PROVE LimiterInv'
  OBVIOUS
<1> USE BoundsAreNat
<1> DEFINE f == Len(forwarded)
           l == Len(Recent)
<1>1. /\ now \in Nat /\ now \in 0 .. MaxTime
      /\ f \in Nat /\ DOMAIN forwarded = 1 .. f
      /\ forwarded \in [1 .. f -> 0 .. MaxTime] /\ forwarded \in Seq(0 .. MaxTime)
  BY LenProperties DEF LimiterInv, LimiterTypes
<1>2. /\ Recent \in Seq(0 .. MaxTime) /\ l <= MaxCommands
      /\ Sorted(Recent) /\ \A i \in DOMAIN Recent : Recent[i] <= now
      /\ \A k \in 0 .. f - 1 :
           forwarded[f - k] >= now - Window => k < l /\ Recent[l - k] >= forwarded[f - k]
  BY RecentCounts DEF LimiterInv
<1>3. l \in Nat /\ DOMAIN Recent = 1 .. l /\ Recent \in [1 .. l -> 0 .. MaxTime]
  BY <1>2, LenProperties
<1> HIDE DEF f, l
<1>4. CASE Waited
  <2>1. now' \in Nat /\ now <= now' /\ stamps' = stamps /\ forwarded' = forwarded
    BY <1>4 DEF Waited, rest
  <2>2. LimiterTypes' /\ RateIsLimited'
    BY <1>4, <2>1 DEF LimiterInv, LimiterTypes, Waited, RateIsLimited
  <2>3. Len(stamps) \in Nat /\ stamps \in [1 .. Len(stamps) -> 0 .. MaxTime] /\ DOMAIN stamps = 1 .. Len(stamps)
    BY LenProperties DEF LimiterInv, LimiterTypes
  <2>4. \A i \in DOMAIN stamps : stamps[i] <= now'
    BY <1>1, <2>1, <2>3 DEF LimiterInv, Counted
  <2>5. \A i \in DOMAIN forwarded : forwarded[i] <= now'
    BY <1>1, <2>1 DEF LimiterInv, Counted
  <2>6. ASSUME NEW k \in 0 .. f - 1, forwarded[f - k] >= now' - Window
        PROVE  k < Len(stamps) /\ stamps[Len(stamps) - k] >= forwarded[f - k]
    <3>1. f - k \in 1 .. f /\ forwarded[f - k] \in Nat
      BY <1>1
    <3>2. forwarded[f - k] >= now - Window
      BY <1>1, <2>1, <2>6, <3>1
    <3> QED BY <3>2 DEF LimiterInv, Counted, f
  <2>7. Counted'
    BY <2>1, <2>4, <2>5, <2>6 DEF LimiterInv, Counted, Sorted, f
  <2> QED BY <2>2, <2>7 DEF LimiterInv
<1>5. CASE Limited
  <2>1. stamps' = Recent /\ now' = now /\ forwarded' = forwarded
    BY <1>5 DEF Limited
  <2>2. LimiterTypes' /\ RateIsLimited'
    BY <1>1, <1>2, <2>1 DEF LimiterInv, LimiterTypes, RateIsLimited, l
  <2>3. Counted'
    BY <1>2, <2>1 DEF LimiterInv, Counted, Sorted, f, l
  <2> QED BY <2>2, <2>3 DEF LimiterInv
<1>6. CASE Passed
  <2>1. stamps' = Append(Recent, now) /\ now' = now /\ l < MaxCommands
    BY <1>6 DEF Passed, l
  <2>2. /\ stamps' \in Seq(0 .. MaxTime) /\ Len(stamps') = l + 1 /\ DOMAIN stamps' = 1 .. l + 1
        /\ \A i \in 1 .. l : stamps'[i] = Recent[i]
        /\ stamps'[l + 1] = now
    BY <1>1, <1>2, <2>1, AppendProperties DEF l
  <2>3. (Sorted(stamps) /\ \A i \in DOMAIN stamps : stamps[i] <= now)'
    <3>1. ASSUME NEW i \in 1 .. l + 1 PROVE stamps'[i] <= now
      <4>1. CASE i = l + 1
        BY <1>1, <2>2, <4>1
      <4>2. CASE i # l + 1
        <5>1. i \in 1 .. l
          BY <1>3, <4>2
        <5> QED BY <1>2, <1>3, <2>2, <5>1
      <4> QED BY <4>1, <4>2
    <3>2. ASSUME NEW i \in 1 .. l + 1, NEW j \in 1 .. l + 1, i <= j PROVE stamps'[i] <= stamps'[j]
      <4>1. CASE j = l + 1
        BY <2>2, <3>1, <4>1
      <4>2. CASE j # l + 1
        <5>1. i \in 1 .. l /\ j \in 1 .. l
          BY <1>3, <3>2, <4>2
        <5> QED BY <1>2, <1>3, <2>2, <3>2, <5>1 DEF Sorted
      <4> QED BY <4>1, <4>2
    <3> QED BY <2>1, <2>2, <3>1, <3>2 DEF Sorted
  <2>4. CASE forwarded' = forwarded
    <3>1. LimiterTypes' /\ RateIsLimited'
      BY <1>1, <1>3, <2>1, <2>2, <2>4 DEF LimiterInv, LimiterTypes, RateIsLimited
    <3>2. ASSUME NEW k \in 0 .. f - 1, forwarded[f - k] >= now - Window
          PROVE  k < l + 1 /\ stamps'[l + 1 - k] >= forwarded[f - k]
      <4>1. k < l /\ Recent[l - k] >= forwarded[f - k] /\ f - k \in 1 .. f /\ forwarded[f - k] \in Nat
        BY <1>1, <1>2, <3>2
      <4>2. CASE k = 0
        BY <1>1, <1>3, <2>2, <4>2 DEF LimiterInv, Counted
      <4>3. CASE k # 0
        <5>1. l - k \in 1 .. l /\ l + 1 - k \in 1 .. l /\ l - k <= l + 1 - k
          BY <1>3, <4>1, <4>3
        <5>2. Recent[l - k] <= Recent[l + 1 - k] /\ Recent[l - k] \in Nat /\ Recent[l + 1 - k] \in Nat
          BY <1>2, <1>3, <5>1 DEF Sorted
        <5> QED BY <1>3, <2>2, <4>1, <5>1, <5>2
      <4> QED BY <4>2, <4>3
    <3>3. Counted'
      <4>1. Len(forwarded) = f /\ Len(stamps') = l + 1
        BY <2>2 DEF f
      <4>2. \A i \in DOMAIN forwarded : forwarded[i] <= now
        BY DEF LimiterInv, Counted
      <4>3. \A k \in 0 .. Len(forwarded) - 1 :
              forwarded[Len(forwarded) - k] >= now - Window =>
                k < Len(stamps') /\ stamps'[Len(stamps') - k] >= forwarded[Len(forwarded) - k]
        <5> TAKE k \in 0 .. Len(forwarded) - 1
        <5>1. k \in 0 .. f - 1
          BY <4>1
        <5> HAVE forwarded[Len(forwarded) - k] >= now - Window
        <5>2. forwarded[f - k] >= now - Window
          BY <4>1
        <5>3. k < l + 1 /\ stamps'[l + 1 - k] >= forwarded[f - k]
          BY <3>2, <5>1, <5>2
        <5>4. Len(stamps') - k = l + 1 - k /\ Len(forwarded) - k = f - k
          BY <1>1, <1>3, <4>1
        <5>5. k < Len(stamps')
          BY <4>1, <5>3
        <5> QED BY <5>3, <5>4, <5>5
      <4> QED BY <2>1, <2>3, <2>4, <4>2, <4>3 DEF Counted, Sorted
    <3> QED BY <3>1, <3>3 DEF LimiterInv
  <2>5. CASE forwarded' = Append(forwarded, now)
    <3>1. /\ forwarded' \in Seq(0 .. MaxTime) /\ Len(forwarded') = f + 1 /\ DOMAIN forwarded' = 1 .. f + 1
          /\ \A i \in 1 .. f : forwarded'[i] = forwarded[i]
          /\ forwarded'[f + 1] = now
      BY <1>1, <2>5, AppendProperties DEF f
    <3>2. LimiterTypes'
      BY <1>1, <1>3, <2>1, <2>2, <3>1 DEF LimiterTypes
    <3>3. \A i \in 1 .. f + 1 : forwarded'[i] <= now
      BY <1>1, <3>1 DEF LimiterInv, Counted
    <3>4. ASSUME NEW k \in 0 .. f, forwarded'[f + 1 - k] >= now - Window
          PROVE  k < l + 1 /\ stamps'[l + 1 - k] >= forwarded'[f + 1 - k]
      <4>1. CASE k = 0
        BY <1>1, <1>3, <2>2, <3>1, <4>1
      <4>2. CASE k # 0
        <5>1. k - 1 \in 0 .. f - 1 /\ f + 1 - k = f - (k - 1) /\ f + 1 - k \in 1 .. f
          BY <1>1, <4>2
        <5>2. k - 1 < l /\ Recent[l - (k - 1)] >= forwarded[f - (k - 1)]
          BY <1>2, <3>1, <3>4, <5>1
        <5>3. l - (k - 1) = l + 1 - k /\ l + 1 - k \in 1 .. l
          BY <1>1, <1>3, <5>2, <4>2
        <5> QED BY <1>1, <1>3, <2>2, <3>1, <5>1, <5>2, <5>3
      <4> QED BY <4>1, <4>2
    <3>5. Counted'
      <4>1. Len(forwarded') = f + 1 /\ Len(stamps') = l + 1 /\ f + 1 - 1 = f
        BY <1>1, <2>2, <3>1
      <4>2. \A i \in DOMAIN forwarded' : forwarded'[i] <= now
        BY <3>1, <3>3
      <4>3. \A k \in 0 .. Len(forwarded') - 1 :
              forwarded'[Len(forwarded') - k] >= now - Window =>
                k < Len(stamps') /\ stamps'[Len(stamps') - k] >= forwarded'[Len(forwarded') - k]
        <5> TAKE k \in 0 .. Len(forwarded') - 1
        <5>1. k \in 0 .. f
          BY <1>1, <4>1
        <5> HAVE forwarded'[Len(forwarded') - k] >= now - Window
        <5>2. Len(stamps') - k = l + 1 - k /\ Len(forwarded') - k = f + 1 - k
          BY <1>1, <1>3, <4>1
        <5>3. k < l + 1 /\ stamps'[l + 1 - k] >= forwarded'[f + 1 - k]
          BY <3>4, <5>1, <5>2
        <5>4. k < Len(stamps')
          BY <4>1, <5>3
        <5> QED BY <5>2, <5>3, <5>4
      <4> QED BY <2>1, <2>3, <4>2, <4>3 DEF Counted, Sorted
    <3>6. ASSUME NEW i \in 1 .. f + 1, NEW j \in 1 .. f + 1, forwarded'[j] - forwarded'[i] <= Window
          PROVE  j - i < MaxCommands
      <4>1. CASE j # f + 1 /\ i # f + 1
        BY <1>1, <3>1, <3>6, <4>1 DEF LimiterInv, RateIsLimited
      <4>2. CASE i = f + 1
        BY <1>1, <4>2
      <4>3. CASE j = f + 1 /\ i # f + 1
        <5>1. i \in 1 .. f /\ f - i \in 0 .. f - 1 /\ f - (f - i) = i /\ forwarded[i] \in Nat
          BY <1>1, <4>3
        <5>2. forwarded[i] >= now - Window
          BY <1>1, <3>1, <3>6, <4>3, <5>1
        <5>3. f - i < l
          BY <1>2, <5>1, <5>2
        <5> QED BY <1>1, <1>3, <2>1, <4>3, <5>1, <5>3
      <4> QED BY <4>1, <4>2, <4>3
    <3>7. RateIsLimited'
      BY <3>1, <3>6 DEF RateIsLimited
    <3> QED BY <3>2, <3>5, <3>7 DEF LimiterInv
  <2> QED BY <1>4, <1>5, <1>6, <2>4, <2>5, LimiterStep DEF LimiterInv
<1> QED BY <1>4, <1>5, <1>6, LimiterStep DEF LimiterInv

-----------------------------------------------------------------------------
(* The sessions of the HMI server.                                          *)

SessionsInv ==
  /\ DOMAIN tokens \subseteq Tokens /\ IsFiniteSet(DOMAIN tokens)
  /\ Cardinality(DOMAIN tokens) <= MaxSessions

(* To make room for a login no session is added. *)
LEMMA RoomFits ==
  ASSUME SessionsInv
  PROVE  /\ DOMAIN Room \subseteq Tokens /\ IsFiniteSet(DOMAIN Room)
         /\ Cardinality(DOMAIN Room) <= MaxSessions /\ Cardinality(DOMAIN Room) \in Nat
<1>1. DOMAIN Room \in SUBSET DOMAIN tokens
  BY DEF Room
<1>2. IsFiniteSet(DOMAIN Room) /\ Cardinality(DOMAIN Room) <= Cardinality(DOMAIN tokens)
  BY <1>1, FS_Subset DEF SessionsInv
<1>3. Cardinality(DOMAIN Room) \in Nat /\ Cardinality(DOMAIN tokens) \in Nat
  BY <1>2, FS_CardinalityType DEF SessionsInv
<1> QED BY <1>1, <1>2, <1>3, BoundsAreNat DEF SessionsInv

LEMMA SessionsNext == SessionsInv /\ [Next]_vars => SessionsInv'
<1> SUFFICES ASSUME SessionsInv, [Next]_vars PROVE SessionsInv'
  OBVIOUS
<1>1. CASE Login
  <2>1. CASE tokens' = Room
    BY <2>1, RoomFits DEF SessionsInv
  <2>2. CASE ~(Cardinality(DOMAIN Room) >= MaxSessions)
    <3>1. PICK token \in Tokens \ DOMAIN Room : DOMAIN tokens' = DOMAIN Room \cup {token}
      BY <1>1, <2>2 DEF Login
    <3>2. /\ IsFiniteSet(DOMAIN Room \cup {token})
          /\ Cardinality(DOMAIN Room \cup {token}) = Cardinality(DOMAIN Room) + 1
      BY <3>1, RoomFits, FS_AddElement
    <3> QED BY <2>2, <3>1, <3>2, RoomFits, BoundsAreNat DEF SessionsInv
  <2> QED BY <1>1, <2>1, <2>2 DEF Login
<1>2. CASE Logout \/ CleanUp
  <2>1. PICK gone : DOMAIN tokens' = DOMAIN tokens \ gone
    BY <1>2 DEF Logout, CleanUp, Without
  <2>2. DOMAIN tokens' \in SUBSET DOMAIN tokens
    BY <2>1
  <2>3. IsFiniteSet(DOMAIN tokens') /\ Cardinality(DOMAIN tokens') <= Cardinality(DOMAIN tokens)
    BY <2>2, FS_Subset DEF SessionsInv
  <2>4. Cardinality(DOMAIN tokens') \in Nat /\ Cardinality(DOMAIN tokens) \in Nat
    BY <2>3, FS_CardinalityType DEF SessionsInv
  <2> QED BY <2>2, <2>3, <2>4, BoundsAreNat DEF SessionsInv
<1>3. CASE UNCHANGED tokens
  BY <1>3 DEF SessionsInv
<1>4. CASE Tick \/ Arrive \/ Dispatch
  BY <1>3, <1>4 DEF Tick, Arrive, Dispatch, Reject, Limit, Refuse, Forward, Allowed, Take, Receive, Timeout, hmi
<1>5. CASE Request \/ \E r \in DOMAIN requests : GiveUp(r)
  BY <1>3, <1>5 DEF Request, GiveUp
<1>6. CASE \E t \in Targets : Serve(t) \/ Crash(t) \/ Start(t)
  BY <1>3, <1>6 DEF Serve, Crash, Start, hmi
<1>7. CASE UNCHANGED vars
  BY <1>3, <1>7 DEF vars, hmi
<1> QED BY <1>1, <1>2, <1>4, <1>5, <1>6, <1>7 DEF Next, Sessions

LEMMA SessionsFindRoom == SessionsInv => LoginsFindRoom
<1> SUFFICES ASSUME SessionsInv PROVE LoginsFindRoom
  OBVIOUS
<1> DEFINE live == {token \in Tokens : Live(token)}
<1>1. live = {token \in DOMAIN tokens : Live(token)}
  BY DEF SessionsInv, Live
<1>2. CASE Cardinality(DOMAIN tokens) >= MaxSessions
  <2>1. DOMAIN Room = live
    BY <1>1, <1>2 DEF Room
  <2> QED BY <2>1 DEF LoginsFindRoom
<1>3. CASE ~(Cardinality(DOMAIN tokens) >= MaxSessions)
  <2>1. Room = tokens
    BY <1>3 DEF Room
  <2> QED BY <1>1, <1>3, <2>1 DEF LoginsFindRoom
<1> QED BY <1>2, <1>3

-----------------------------------------------------------------------------
(* The messages of the cloud and their responses.                           *)

Messages == [id : 1 .. MaxMessages, form : Forms, target : Targets]

MessageTypes ==
  /\ made \in 0 .. MaxMessages /\ queue \in Seq(Messages)
  /\ cloud \in Messages \cup {Nothing}

(* Messages are taken in the order of their numbers, and what has its       *)
(* response comes before what waits for one and what is queued.             *)
Ordered ==
  /\ cloud.id <= made
  /\ \A i \in DOMAIN queue : queue[i].id <= made /\ cloud.id < queue[i].id
  /\ \A i, j \in DOMAIN queue : i < j => queue[i].id < queue[j].id
  /\ \A r \in responses :
       /\ r.id \in 1 .. made /\ r.id # cloud.id
       /\ \A i \in DOMAIN queue : r.id < queue[i].id

OrderInv == MessageTypes /\ Ordered /\ AnswersMatch

LEMMA NothingIsNoMessage ==
  ASSUME NEW m \in Messages
  PROVE  /\ m # Nothing /\ m.id \in 1 .. MaxMessages /\ m.id \in Int /\ m.id > 0
         /\ m.target \in Targets /\ m.form \in Forms
  BY BoundsAreNat DEF Messages, Nothing

(* What the head and the rest of the queue are. *)
LEMMA QueueTail ==
  ASSUME OrderInv, queue # <<>>
  PROVE  /\ Head(queue) \in Messages /\ Head(queue) = queue[1] /\ 1 \in DOMAIN queue
         /\ Tail(queue) \in Seq(Messages)
         /\ \A i \in DOMAIN Tail(queue) : i + 1 \in DOMAIN queue /\ Tail(queue)[i] = queue[i + 1]
         /\ \A i \in DOMAIN Tail(queue) : Head(queue).id < Tail(queue)[i].id
         /\ \A i \in DOMAIN queue : queue[i] \in Messages
<1>1. /\ Head(queue) = queue[1] /\ 1 \in DOMAIN queue /\ queue[1] \in Messages
      /\ Tail(queue) \in Seq(Messages)
      /\ \A i \in DOMAIN Tail(queue) : i + 1 \in DOMAIN queue /\ Tail(queue)[i] = queue[i + 1]
  BY TailsShift DEF OrderInv, MessageTypes
<1>2. \A i \in DOMAIN queue : queue[i] \in Messages
  BY LenProperties DEF OrderInv, MessageTypes
<1>3. \A i \in DOMAIN Tail(queue) : i \in Nat /\ i > 0
  BY <1>1, LenProperties
<1>4. \A i \in DOMAIN Tail(queue) : Head(queue).id < Tail(queue)[i].id
  <2> TAKE i \in DOMAIN Tail(queue)
  <2>1. 1 \in DOMAIN queue /\ i + 1 \in DOMAIN queue /\ 1 < i + 1
    BY <1>1, <1>3
  <2> QED BY <1>1, <2>1 DEF OrderInv, Ordered
<1> QED BY <1>1, <1>2, <1>4

(* What a step may do to the messages. *)
Came ==
  /\ made < MaxMessages /\ made' = made + 1 /\ UNCHANGED <<cloud, responses>>
  /\ \E m \in Messages : m.id = made + 1 /\ queue' = Append(queue, m)
TurnedAway ==
  /\ queue # <<>> /\ queue' = Tail(queue) /\ UNCHANGED <<made, cloud>>
  /\ responses' = responses \/ Error(Head(queue))
Sent ==
  /\ cloud = Nothing /\ queue # <<>> /\ queue' = Tail(queue) /\ cloud' = Head(queue)
  /\ UNCHANGED <<made, responses>>
Settled ==
  /\ cloud # Nothing /\ cloud' = Nothing /\ UNCHANGED <<queue, made>>
  /\ \E done \in BOOLEAN : Respond(cloud, done, cloud.id) /\ (done => cloud.id \in executed)

LEMMA OrderNext ==
  ASSUME OrderInv, executed \subseteq executed',
         Came \/ TurnedAway \/ Sent \/ Settled \/ UNCHANGED <<mqtt, cloud, responses>>
  PROVE  OrderInv'
<1> USE BoundsAreNat
<1>1. \A i \in DOMAIN queue : queue[i] \in Messages /\ queue[i].id \in Int
  BY NothingIsNoMessage, LenProperties DEF OrderInv, MessageTypes
<1>2. cloud.id \in Int /\ cloud.id >= 0 /\ made \in Nat /\ (cloud # Nothing => cloud.id >= 1)
  BY NothingIsNoMessage DEF OrderInv, MessageTypes, Nothing
<1>3. CASE Came
  <2>1. PICK m \in Messages : m.id = made + 1 /\ queue' = Append(queue, m)
    BY <1>3 DEF Came
  <2>2. /\ queue' \in Seq(Messages) /\ Len(queue') = Len(queue) + 1
        /\ \A i \in 1 .. Len(queue) : queue'[i] = queue[i]
        /\ queue'[Len(queue) + 1] = m
    BY <2>1, AppendProperties DEF OrderInv, MessageTypes
  <2>3. Len(queue) \in Nat /\ DOMAIN queue = 1 .. Len(queue) /\ DOMAIN queue' = 1 .. Len(queue) + 1
    BY <2>2, LenProperties DEF OrderInv, MessageTypes
  <2>4. MessageTypes'
    BY <1>2, <1>3, <2>2 DEF Came, OrderInv, MessageTypes
  <2>5. \A i \in DOMAIN queue' : \/ i \in DOMAIN queue /\ queue'[i] = queue[i]
                                 \/ i = Len(queue) + 1 /\ queue'[i] = m
    <3> TAKE i \in DOMAIN queue'
    <3>1. CASE i \in 1 .. Len(queue)
      BY <2>2, <2>3, <3>1
    <3>2. CASE i = Len(queue) + 1
      BY <2>2, <3>2
    <3> QED BY <2>3, <3>1, <3>2
  <2>6. \A i \in DOMAIN queue' : queue'[i].id <= made' /\ cloud'.id < queue'[i].id
    BY <1>1, <1>2, <1>3, <2>1, <2>5 DEF Came, OrderInv, Ordered
  <2>7. ASSUME NEW i \in DOMAIN queue', NEW j \in DOMAIN queue', i < j
        PROVE  queue'[i].id < queue'[j].id
    <3>1. i \in DOMAIN queue /\ queue'[i] = queue[i]
      BY <2>3, <2>5, <2>7
    <3>2. CASE j \in DOMAIN queue /\ queue'[j] = queue[j]
      BY <2>7, <3>1, <3>2 DEF OrderInv, Ordered
    <3>3. CASE queue'[j] = m
      <4>1. queue[i].id <= made /\ queue[i].id \in Int
        BY <1>1, <3>1 DEF OrderInv, Ordered
      <4> QED BY <1>2, <2>1, <3>1, <3>3, <4>1
    <3> QED BY <2>5, <3>2, <3>3
  <2>8. ASSUME NEW r \in responses
        PROVE  r.id \in 1 .. made' /\ r.id # cloud'.id /\ \A i \in DOMAIN queue' : r.id < queue'[i].id
    <3>1. r.id \in 1 .. made /\ r.id # cloud.id /\ \A i \in DOMAIN queue : r.id < queue[i].id
      BY DEF OrderInv, Ordered
    <3>2. r.id \in 1 .. made' /\ r.id < m.id
      BY <1>2, <1>3, <2>1, <3>1 DEF Came
    <3>3. cloud' = cloud
      BY <1>3 DEF Came
    <3> QED BY <2>5, <3>1, <3>2, <3>3
  <2>9. Ordered'
    BY <1>2, <1>3, <2>6, <2>7, <2>8 DEF Came, OrderInv, Ordered
  <2>10. AnswersMatch'
    BY <1>3 DEF Came, OrderInv, AnswersMatch
  <2> QED BY <2>4, <2>9, <2>10 DEF OrderInv
<1>4. CASE TurnedAway \/ Sent
  <2> DEFINE head == Head(queue)
  <2>1. queue # <<>> /\ queue' = Tail(queue) /\ made' = made
    BY <1>4 DEF TurnedAway, Sent
  <2>2. /\ head \in Messages /\ head = queue[1] /\ 1 \in DOMAIN queue
        /\ queue' \in Seq(Messages)
        /\ \A i \in DOMAIN queue' : i + 1 \in DOMAIN queue /\ queue'[i] = queue[i + 1]
        /\ \A i \in DOMAIN queue' : head.id < queue'[i].id
    BY <2>1, QueueTail
  <2> HIDE DEF head
  <2>3. head.id \in Int /\ head.id \in 1 .. made /\ cloud.id < head.id
    BY <1>1, <1>2, <2>2, NothingIsNoMessage DEF OrderInv, Ordered
  <2>4. \A i, j \in DOMAIN queue' : i < j => queue'[i].id < queue'[j].id
    <3> TAKE i, j \in DOMAIN queue'
    <3> HAVE i < j
    <3>1. i \in Nat /\ j \in Nat
      BY <2>2, LenProperties
    <3> QED BY <2>2, <3>1 DEF OrderInv, Ordered
  <2>5. \A i \in DOMAIN queue' : queue'[i].id <= made' /\ cloud.id < queue'[i].id /\ queue'[i].id \in Int
    BY <1>1, <2>1, <2>2 DEF OrderInv, Ordered
  <2>6. \A r \in responses : r.id < head.id /\ \A i \in DOMAIN queue' : r.id < queue'[i].id
    BY <2>2 DEF OrderInv, Ordered
  <2>7. CASE TurnedAway
    <3>1. cloud' = cloud
      BY <2>7 DEF TurnedAway
    <3>2. CASE responses' = responses
      BY <1>2, <2>1, <2>2, <2>4, <2>5, <2>6, <3>1, <3>2 DEF OrderInv, MessageTypes, Ordered, AnswersMatch
    <3>3. CASE Error(head)
      <4>1. responses' = responses \cup {[id |-> head.id, done |-> FALSE, of |-> head.id]}
        BY <3>3 DEF Error, Respond
      <4>2. MessageTypes'
        BY <2>1, <2>2, <3>1 DEF OrderInv, MessageTypes
      <4>3. ASSUME NEW r \in responses'
            PROVE  r.id \in 1 .. made' /\ r.id # cloud'.id /\ \A i \in DOMAIN queue' : r.id < queue'[i].id
        BY <1>2, <2>1, <2>2, <2>3, <2>6, <3>1, <4>1 DEF OrderInv, Ordered
      <4>4. Ordered'
        BY <2>1, <2>4, <2>5, <3>1, <4>3 DEF OrderInv, Ordered
      <4>5. \A r \in responses : r.id # head.id
        BY <2>3, <2>6 DEF OrderInv, Ordered
      <4>6. AnswersMatch'
        <5> DEFINE new == [id |-> head.id, done |-> FALSE, of |-> head.id]
        <5>1. \A r \in responses : r.done => r.of = r.id /\ r.id \in executed'
          BY DEF OrderInv, AnswersMatch
        <5>2. ~new.done /\ new.id = head.id
          OBVIOUS
        <5> HIDE DEF new
        <5>3. responses' = responses \cup {new}
          BY <4>1 DEF new
        <5>4. \A r, q \in responses : q.id = r.id => q = r
          BY DEF OrderInv, AnswersMatch
        <5> QED BY <4>5, <5>1, <5>2, <5>3, <5>4 DEF AnswersMatch
      <4> QED BY <4>2, <4>4, <4>6 DEF OrderInv
    <3> QED BY <2>7, <3>2, <3>3 DEF TurnedAway, head
  <2>8. CASE Sent
    <3>1. cloud = Nothing /\ cloud' = head /\ responses' = responses
      BY <2>8 DEF Sent, head
    <3>2. MessageTypes'
      BY <2>1, <2>2, <3>1 DEF OrderInv, MessageTypes
    <3>3. \A r \in responses : r.id # head.id
      BY <2>3, <2>6 DEF OrderInv, Ordered
    <3>4. Ordered'
      BY <2>1, <2>2, <2>3, <2>4, <2>5, <2>6, <3>1, <3>3 DEF OrderInv, Ordered
    <3>5. AnswersMatch'
      BY <3>1 DEF OrderInv, AnswersMatch
    <3> QED BY <3>2, <3>4, <3>5 DEF OrderInv
  <2> QED BY <1>4, <2>7, <2>8
<1>5. CASE Settled
  <2>1. cloud # Nothing /\ cloud' = Nothing /\ queue' = queue /\ made' = made
    BY <1>5 DEF Settled
  <2>2. PICK done \in BOOLEAN :
          /\ responses' = responses \cup {[id |-> cloud.id, done |-> done, of |-> cloud.id]}
          /\ done => cloud.id \in executed
    BY <1>5 DEF Settled, Respond
  <2>3. MessageTypes'
    BY <2>1 DEF OrderInv, MessageTypes
  <2>4. cloud.id \in 1 .. made /\ cloud'.id = 0
    BY <1>2, <2>1 DEF OrderInv, Ordered, Nothing
  <2>5. Ordered'
    <3>1. \A i \in DOMAIN queue' : queue'[i].id <= made' /\ cloud'.id < queue'[i].id
      BY <1>1, <1>2, <2>1, <2>4 DEF OrderInv, Ordered
    <3>2. ASSUME NEW r \in responses'
          PROVE  r.id \in 1 .. made' /\ r.id # cloud'.id /\ \A i \in DOMAIN queue' : r.id < queue'[i].id
      BY <1>2, <2>1, <2>2, <2>4 DEF OrderInv, Ordered
    <3> QED BY <1>2, <2>1, <2>4, <3>1, <3>2 DEF OrderInv, Ordered
  <2>6. AnswersMatch'
    <3>1. \A r \in responses : r.id # cloud.id
      BY DEF OrderInv, Ordered
    <3> QED BY <2>2, <3>1 DEF OrderInv, AnswersMatch
  <2> QED BY <2>3, <2>5, <2>6 DEF OrderInv
<1>6. CASE UNCHANGED <<mqtt, cloud, responses>>
  BY <1>6 DEF mqtt, OrderInv, MessageTypes, Ordered, AnswersMatch
<1> QED BY <1>3, <1>4, <1>5, <1>6

-----------------------------------------------------------------------------
(* The sockets of the dispatcher and what the managers were sent.           *)

Ids      == 1 .. MaxMessages + MaxRequests
Outcomes == {"waiting", "done", "timeout"}
Socket   == [waits : BOOLEAN, answers : Seq(1 .. MaxMessages)]

SocketTypes ==
  /\ socket \in [Targets -> Socket]
  /\ inbox \in [Targets -> Seq(Ids)]
  /\ requests \in Seq(Outcomes) /\ Len(requests) <= MaxRequests

(* Of what a socket sent, at most one command is unanswered or its answer   *)
(* unread, and then the socket waits; the answer is that of a command that  *)
(* was executed.  The others in the manager's inbox are the HMI server's.   *)
Fits(s, box, done, n) ==
  /\ ~s.waits => s.answers = <<>> /\ \A i \in DOMAIN box : box[i] > MaxMessages
  /\ s.answers # <<>> =>
       /\ Len(s.answers) = 1 /\ s.answers[1] \in done
       /\ \A i \in DOMAIN box : box[i] > MaxMessages
  /\ \A i, j \in DOMAIN box : box[i] <= MaxMessages /\ box[j] <= MaxMessages => i = j
  /\ \A i \in DOMAIN box : box[i] <= MaxMessages + n

(* The command the dispatcher waits for is the one its socket sent. *)
Awaited(s, box, id) ==
  /\ s.waits
  /\ \A i \in DOMAIN box : box[i] <= MaxMessages => box[i] = id
  /\ s.answers # <<>> => s.answers[1] = id

Sockets ==
  \A t \in Targets :
    /\ Fits(socket[t], inbox[t], executed, Len(requests))
    /\ cloud # Nothing /\ cloud.target = t => Awaited(socket[t], inbox[t], cloud.id)

SocketInv == SocketTypes /\ Sockets

(* What a step may do to the sockets and the inboxes. *)
Idle ==
  /\ UNCHANGED <<cloud, socket, inbox, executed>>
  /\ requests' \in Seq(Outcomes) /\ Len(requests') = Len(requests)
Asked(t, message) ==
  /\ cloud = Nothing /\ ~socket[t].waits /\ cloud' = message
  /\ socket' = [socket EXCEPT ![t].waits = TRUE]
  /\ inbox' = [inbox EXCEPT ![t] = Append(@, message.id)]
  /\ UNCHANGED <<executed, requests>>
Read ==
  /\ cloud # Nothing /\ cloud' = Nothing
  /\ socket[cloud.target].answers # <<>>
  /\ socket' = [socket EXCEPT ![cloud.target] = [waits |-> FALSE, answers |-> Tail(@.answers)]]
  /\ UNCHANGED <<inbox, executed, requests>>
GivenUp ==
  /\ cloud' = Nothing /\ UNCHANGED <<socket, inbox, executed, requests>>
Requested ==
  /\ Len(requests) < MaxRequests /\ requests' = Append(requests, "waiting")
  /\ \E t \in Targets : Send(t)
  /\ UNCHANGED <<cloud, socket, executed>>

LEMMA IdleKeepsSockets == SocketInv /\ (Idle \/ GivenUp) => SocketInv'
<1> SUFFICES ASSUME SocketInv, Idle \/ GivenUp PROVE SocketInv'
  OBVIOUS
<1>1. CASE Idle
  BY <1>1 DEF Idle, SocketInv, SocketTypes, Sockets
<1>2. CASE GivenUp
  BY <1>2 DEF GivenUp, SocketInv, SocketTypes, Sockets
<1> QED BY <1>1, <1>2

LEMMA AskedKeepsSockets ==
  ASSUME SocketInv, NEW t \in Targets, NEW message \in Messages, message.target = t, Asked(t, message)
  PROVE  SocketInv'
<1> USE BoundsAreNat
<1> DEFINE box == inbox[t]
           new == Append(box, message.id)
           n   == Len(requests)
<1>1. /\ message.id \in Ids /\ message.id \in 1 .. MaxMessages /\ n \in Nat
      /\ box \in Seq(Ids)
  BY NothingIsNoMessage, LenProperties DEF SocketInv, SocketTypes, Ids
<1>2. /\ new \in Seq(Ids)
      /\ \A i \in DOMAIN new :
           (i \in DOMAIN box /\ new[i] = box[i]) \/ (i = Len(box) + 1 /\ new[i] = message.id)
  BY <1>1, AppendsAt
<1>3. socket[t].answers = <<>> /\ \A i \in DOMAIN box : box[i] > MaxMessages
  BY DEF Asked, SocketInv, Sockets, Fits
<1>4. /\ socket' = [socket EXCEPT ![t].waits = TRUE] /\ inbox' = [inbox EXCEPT ![t] = new]
      /\ cloud' = message /\ executed' = executed /\ requests' = requests
  BY DEF Asked
<1> HIDE DEF new
<1>5. SocketTypes'
  BY <1>2, <1>4 DEF SocketInv, SocketTypes, Socket
<1>6. /\ socket'[t].waits /\ socket'[t].answers = <<>> /\ inbox'[t] = new
      /\ \A u \in Targets \ {t} : socket'[u] = socket[u] /\ inbox'[u] = inbox[u]
  BY <1>3, <1>4 DEF SocketInv, SocketTypes, Socket
<1>7. Fits(socket'[t], new, executed, n)
  <2>1. \A i \in DOMAIN box : box[i] \in Int /\ box[i] <= MaxMessages + n
    BY <1>1, LenProperties DEF SocketInv, Sockets, Fits, Ids
  <2>2. \A i \in DOMAIN new : new[i] <= MaxMessages + n
    BY <1>1, <1>2, <2>1
  <2>3. \A i \in DOMAIN new : new[i] <= MaxMessages => i = Len(box) + 1
    BY <1>1, <1>2, <1>3, <2>1
  <2> QED BY <1>6, <2>2, <2>3 DEF Fits
<1>8. Awaited(socket'[t], new, message.id)
  <2>1. \A i \in DOMAIN box : box[i] \in Int
    BY <1>1, LenProperties DEF Ids
  <2>2. \A i \in DOMAIN new : new[i] <= MaxMessages => new[i] = message.id
    BY <1>1, <1>2, <1>3, <2>1
  <2> QED BY <1>6, <2>2 DEF Awaited
<1>9. Sockets'
  <2> SUFFICES ASSUME NEW u \in Targets
               PROVE  /\ Fits(socket'[u], inbox'[u], executed', Len(requests'))
                      /\ cloud' # Nothing /\ cloud'.target = u => Awaited(socket'[u], inbox'[u], cloud'.id)
    BY DEF Sockets
  <2>1. CASE u = t
    BY <1>4, <1>6, <1>7, <1>8, <2>1
  <2>2. CASE u # t
    BY <1>4, <1>6, <2>2 DEF SocketInv, Sockets
  <2> QED BY <2>1, <2>2
<1> QED BY <1>5, <1>9 DEF SocketInv

(* An answer that is read is the answer to the command that is waited for. *)
LEMMA ReadKeepsSockets ==
  ASSUME SocketInv, Read, cloud \in Messages \cup {Nothing}
  PROVE  SocketInv' /\ Head(socket[cloud.target].answers) = cloud.id /\ cloud.id \in executed
<1> DEFINE t == cloud.target
           a == socket[t].answers
<1>1. t \in Targets /\ cloud # Nothing /\ a # <<>> /\ a \in Seq(1 .. MaxMessages)
  BY NothingIsNoMessage DEF Read, SocketInv, SocketTypes, Socket
<1>2. /\ Len(a) = 1 /\ a[1] \in executed /\ a[1] = cloud.id
      /\ \A i \in DOMAIN inbox[t] : inbox[t][i] > MaxMessages
  BY <1>1 DEF SocketInv, Sockets, Fits, Awaited
<1>3. Head(a) = a[1] /\ Tail(a) = <<>>
  BY <1>1, <1>2, TailsShift
<1>4. <<>> \in Seq(1 .. MaxMessages)
  BY EmptySeq
<1>5. /\ socket' = [socket EXCEPT ![t] = [waits |-> FALSE, answers |-> <<>>]]
      /\ inbox' = inbox /\ executed' = executed /\ requests' = requests /\ cloud' = Nothing
  BY <1>1, <1>3 DEF Read, SocketInv, SocketTypes
<1> HIDE DEF a, t
<1>6. SocketTypes'
  BY <1>1, <1>4, <1>5 DEF SocketInv, SocketTypes, Socket
<1>7. /\ ~socket'[t].waits /\ socket'[t].answers = <<>>
      /\ \A u \in Targets \ {t} : socket'[u] = socket[u]
  BY <1>1, <1>5 DEF SocketInv, SocketTypes
<1>8. Fits(socket'[t], inbox[t], executed, Len(requests))
  BY <1>1, <1>2, <1>7 DEF SocketInv, Sockets, Fits
<1>9. Sockets'
  BY <1>1, <1>5, <1>7, <1>8 DEF SocketInv, Sockets
<1> QED BY <1>2, <1>3, <1>6, <1>9 DEF SocketInv, a, t

LEMMA RequestedKeepsSockets == SocketInv /\ Requested => SocketInv'
<1> SUFFICES ASSUME SocketInv, Requested PROVE SocketInv'
  OBVIOUS
<1> USE BoundsAreNat
<1> DEFINE n  == Len(requests)
           id == MaxMessages + (n + 1)
<1>1. n \in Nat /\ n < MaxRequests /\ id \in Ids
  BY LenProperties DEF Requested, SocketInv, SocketTypes, Ids
<1>2. requests' \in Seq(Outcomes) /\ Len(requests') = n + 1
  BY AppendProperties DEF Requested, SocketInv, SocketTypes, Outcomes
<1>3. PICK t \in Targets : inbox' = [inbox EXCEPT ![t] = Append(@, id)]
  BY DEF Requested, Send, Id
<1> DEFINE box == inbox[t]
           new == Append(box, id)
<1>4. /\ new \in Seq(Ids)
      /\ \A i \in DOMAIN new : (i \in DOMAIN box /\ new[i] = box[i]) \/ (i = Len(box) + 1 /\ new[i] = id)
  BY <1>1, AppendsAt DEF SocketInv, SocketTypes
<1>5. inbox' = [inbox EXCEPT ![t] = new]
  BY <1>3
<1>6. \A u \in Targets : \A i \in DOMAIN inbox[u] : inbox[u][i] \in Int
  BY LenProperties DEF SocketInv, SocketTypes, Ids
<1> HIDE DEF new
<1>7. SocketTypes'
  BY <1>1, <1>2, <1>4, <1>5 DEF Requested, SocketInv, SocketTypes
<1>8. /\ inbox'[t] = new /\ \A u \in Targets \ {t} : inbox'[u] = inbox[u]
      /\ socket' = socket /\ executed' = executed /\ cloud' = cloud
  BY <1>5 DEF Requested, SocketInv, SocketTypes
<1>9. \A i \in DOMAIN new : new[i] <= MaxMessages => i \in DOMAIN box /\ new[i] = box[i]
  BY <1>1, <1>4 DEF Ids
<1>10. ASSUME NEW u \in Targets
       PROVE  /\ Fits(socket[u], inbox'[u], executed, n + 1)
              /\ cloud # Nothing /\ cloud.target = u => Awaited(socket[u], inbox'[u], cloud.id)
  <2>1. /\ Fits(socket[u], inbox[u], executed, n)
        /\ cloud # Nothing /\ cloud.target = u => Awaited(socket[u], inbox[u], cloud.id)
    BY DEF SocketInv, Sockets
  <2>2. \A i \in DOMAIN inbox[u] : inbox[u][i] <= MaxMessages + (n + 1)
    BY <1>1, <1>6, <2>1 DEF Fits
  <2>3. CASE u = t
    <3>1. \A i \in DOMAIN new : new[i] <= MaxMessages + (n + 1)
      BY <1>1, <1>4, <2>2, <2>3
    <3>2. (\A i \in DOMAIN box : box[i] > MaxMessages) => \A i \in DOMAIN new : new[i] > MaxMessages
      BY <1>1, <1>4
    <3>3. \A i, j \in DOMAIN new : new[i] <= MaxMessages /\ new[j] <= MaxMessages => i = j
      BY <1>9, <2>1, <2>3 DEF Fits
    <3>4. Fits(socket[t], new, executed, n + 1)
      BY <2>1, <2>3, <3>1, <3>2, <3>3 DEF Fits
    <3>5. cloud # Nothing /\ cloud.target = t => Awaited(socket[t], new, cloud.id)
      BY <1>9, <2>1, <2>3 DEF Awaited
    <3> QED BY <1>8, <2>3, <3>4, <3>5
  <2>4. CASE u # t
    <3>1. inbox'[u] = inbox[u]
      BY <1>8, <2>4
    <3>2. Fits(socket[u], inbox[u], executed, n + 1)
      BY <2>1, <2>2 DEF Fits
    <3> QED BY <2>1, <3>1, <3>2
  <2> QED BY <2>3, <2>4
<1>11. Sockets'
  BY <1>2, <1>8, <1>10 DEF Sockets
<1> QED BY <1>7, <1>11 DEF SocketInv

LEMMA CrashKeepsSockets == ASSUME SocketInv, NEW t \in Targets, Crash(t) PROVE SocketInv'
<1>1. /\ inbox' = [inbox EXCEPT ![t] = <<>>] /\ socket' = socket /\ cloud' = cloud
      /\ executed' = executed /\ requests' = requests
  BY DEF Crash, hmi
<1>2. <<>> \in Seq(Ids) /\ DOMAIN <<>> = {}
  BY EmptySeq
<1>3. SocketTypes'
  BY <1>1, <1>2 DEF SocketInv, SocketTypes
<1>4. /\ DOMAIN inbox'[t] = {} /\ \A u \in Targets \ {t} : inbox'[u] = inbox[u]
  BY <1>1, <1>2 DEF SocketInv, SocketTypes
<1>5. ASSUME NEW u \in Targets
      PROVE  /\ Fits(socket[u], inbox'[u], executed, Len(requests))
             /\ cloud # Nothing /\ cloud.target = u => Awaited(socket[u], inbox'[u], cloud.id)
  <2>1. /\ Fits(socket[u], inbox[u], executed, Len(requests))
        /\ cloud # Nothing /\ cloud.target = u => Awaited(socket[u], inbox[u], cloud.id)
    BY DEF SocketInv, Sockets
  <2>2. CASE DOMAIN inbox'[u] = {}
    BY <2>1, <2>2 DEF Fits, Awaited
  <2>3. CASE inbox'[u] = inbox[u]
    BY <2>1, <2>3
  <2> QED BY <1>4, <2>2, <2>3
<1>6. Sockets'
  BY <1>1, <1>5 DEF Sockets
<1> QED BY <1>3, <1>6 DEF SocketInv

LEMMA ServeKeepsSockets == ASSUME SocketInv, NEW t \in Targets, Serve(t) PROVE SocketInv'
<1> USE BoundsAreNat
<1> DEFINE box == inbox[t]
           id  == Head(box)
           new == Tail(box)
<1>1. box \in Seq(Ids) /\ box # <<>>
  BY DEF Serve, SocketInv, SocketTypes
<1>2. /\ id = box[1] /\ 1 \in DOMAIN box /\ id \in Ids /\ id \in Int /\ new \in Seq(Ids)
      /\ \A i \in DOMAIN new : i + 1 \in DOMAIN box /\ i + 1 # 1 /\ new[i] = box[i + 1]
  <2>1. /\ id = box[1] /\ 1 \in DOMAIN box /\ box[1] \in Ids /\ new \in Seq(Ids)
        /\ \A i \in DOMAIN new : i + 1 \in DOMAIN box /\ i + 1 # 1 /\ new[i] = box[i + 1]
    BY <1>1, TailsShift
  <2> QED BY <2>1 DEF Ids
<1>3. /\ inbox' = [inbox EXCEPT ![t] = new] /\ executed' = executed \cup {id} /\ cloud' = cloud
      /\ IF id <= MaxMessages
         THEN socket' = [socket EXCEPT ![t].answers = Append(@, id)] /\ requests' = requests
         ELSE /\ requests' = [requests EXCEPT ![id - MaxMessages] = IF @ = "waiting" THEN "done" ELSE @]
              /\ socket' = socket
  BY DEF Serve
<1>4. \A u \in Targets : \A i \in DOMAIN inbox[u] : inbox[u][i] \in Int
  BY LenProperties DEF SocketInv, SocketTypes, Ids
<1>5. \A i \in DOMAIN new : i \in Int
  BY <1>2, LenProperties
<1> HIDE DEF new, id
<1>6. /\ inbox' \in [Targets -> Seq(Ids)] /\ inbox'[t] = new
      /\ \A u \in Targets \ {t} : inbox'[u] = inbox[u]
  BY <1>2, <1>3 DEF SocketInv, SocketTypes
<1>7. Fits(socket[t], box, executed, Len(requests))
  BY DEF SocketInv, Sockets
<1>8. \A i \in DOMAIN new : new[i] <= MaxMessages + Len(requests)
  BY <1>2, <1>7 DEF Fits
<1>9. \A i, j \in DOMAIN new : new[i] <= MaxMessages /\ new[j] <= MaxMessages => i = j
  <2> TAKE i, j \in DOMAIN new
  <2> HAVE new[i] <= MaxMessages /\ new[j] <= MaxMessages
  <2>1. i + 1 = j + 1
    BY <1>2, <1>7 DEF Fits
  <2> QED BY <1>5, <2>1
<1>10. CASE id <= MaxMessages
  <2>1. \A i \in DOMAIN new : ~(new[i] <= MaxMessages) /\ new[i] > MaxMessages
    BY <1>2, <1>4, <1>7, <1>10 DEF Fits
  <2>2. socket[t].waits /\ socket[t].answers = <<>>
    BY <1>2, <1>7, <1>10 DEF Fits
  <2>3. id \in 1 .. MaxMessages /\ Append(<<>>, id) = <<id>> /\ <<id>> \in Seq(1 .. MaxMessages)
    BY <1>2, <1>10 DEF Ids
  <2>4. socket' = [socket EXCEPT ![t].answers = <<id>>] /\ requests' = requests
    BY <1>3, <1>10, <2>2, <2>3 DEF SocketInv, SocketTypes, Socket
  <2>5. SocketTypes'
    BY <1>6, <2>3, <2>4 DEF SocketInv, SocketTypes, Socket
  <2>6. /\ socket'[t].waits /\ socket'[t].answers = <<id>>
        /\ \A u \in Targets \ {t} : socket'[u] = socket[u]
    BY <2>2, <2>4 DEF SocketInv, SocketTypes, Socket
  <2>7. Len(<<id>>) = 1 /\ <<id>>[1] = id
    OBVIOUS
  <2>8. Fits(socket'[t], new, executed', Len(requests'))
    BY <1>3, <1>8, <1>9, <2>1, <2>4, <2>6, <2>7 DEF Fits
  <2>9. cloud # Nothing /\ cloud.target = t => Awaited(socket'[t], new, cloud.id)
    BY <1>2, <1>10, <2>1, <2>6, <2>7 DEF SocketInv, Sockets, Awaited
  <2>10. ASSUME NEW u \in Targets, u # t
         PROVE  /\ Fits(socket'[u], inbox'[u], executed', Len(requests'))
                /\ cloud # Nothing /\ cloud.target = u => Awaited(socket'[u], inbox'[u], cloud.id)
    BY <1>3, <1>6, <2>4, <2>6, <2>10 DEF SocketInv, Sockets, Fits
  <2>11. Sockets'
    BY <1>3, <1>6, <2>8, <2>9, <2>10 DEF Sockets
  <2> QED BY <2>5, <2>11 DEF SocketInv
<1>11. CASE ~(id <= MaxMessages)
  <2>1. socket' = socket
    BY <1>3, <1>11
  <2>2. requests' \in Seq(Outcomes) /\ Len(requests') = Len(requests)
    <3>1. id - MaxMessages \in 1 .. Len(requests) /\ DOMAIN requests = 1 .. Len(requests)
      BY <1>2, <1>7, <1>11, LenProperties DEF Fits, SocketInv, SocketTypes
    <3>2. PICK e \in Outcomes : requests' = [requests EXCEPT ![id - MaxMessages] = e]
      <4>1. requests[id - MaxMessages] \in Outcomes
        BY <3>1, LenProperties DEF SocketInv, SocketTypes
      <4> QED BY <1>3, <1>11, <4>1 DEF Outcomes
    <3> QED BY <3>1, <3>2, ExceptSeq DEF SocketInv, SocketTypes
  <2>3. SocketTypes'
    BY <1>6, <2>1, <2>2 DEF SocketInv, SocketTypes
  <2>4. (\A i \in DOMAIN box : box[i] > MaxMessages) => \A i \in DOMAIN new : new[i] > MaxMessages
    BY <1>2
  <2>5. Fits(socket[t], new, executed', Len(requests'))
    BY <1>3, <1>7, <1>8, <1>9, <2>2, <2>4 DEF Fits
  <2>6. cloud # Nothing /\ cloud.target = t => Awaited(socket[t], new, cloud.id)
    BY <1>2 DEF SocketInv, Sockets, Awaited
  <2>7. ASSUME NEW u \in Targets, u # t
        PROVE  /\ Fits(socket[u], inbox'[u], executed', Len(requests'))
               /\ cloud # Nothing /\ cloud.target = u => Awaited(socket[u], inbox'[u], cloud.id)
    BY <1>3, <1>6, <2>2, <2>7 DEF SocketInv, Sockets, Fits
  <2>8. Sockets'
    BY <1>3, <1>6, <2>1, <2>5, <2>6, <2>7 DEF Sockets
  <2> QED BY <2>3, <2>8 DEF SocketInv
<1> QED BY <1>10, <1>11

LEMMA AnswersNext == OrderInv /\ SocketInv /\ [Next]_vars => (OrderInv /\ SocketInv)'
<1> SUFFICES ASSUME OrderInv, SocketInv, [Next]_vars PROVE (OrderInv /\ SocketInv)'
  OBVIOUS
<1> DEFINE Quiet == UNCHANGED <<mqtt, cloud, responses>>
<1>1. requests \in Seq(Outcomes)
  BY DEF SocketInv, SocketTypes
<1>2. ASSUME Idle, Came \/ TurnedAway \/ Quiet PROVE (OrderInv /\ SocketInv)'
  <2>1. executed' = executed
    BY <1>2 DEF Idle
  <2> QED BY <1>2, <2>1, OrderNext, IdleKeepsSockets
<1>3. CASE Tick \/ Sessions \/ UNCHANGED vars
  <2>1. Idle /\ Quiet
    BY <1>1, <1>3 DEF Tick, Sessions, Login, Logout, CleanUp, vars, hmi, servers, mqtt, Idle
  <2> QED BY <1>2, <2>1
<1>4. CASE Arrive
  <2>1. PICK form \in Forms, target \in Targets :
          queue' = Append(queue, [id |-> made + 1, form |-> form, target |-> target])
    BY <1>4 DEF Arrive
  <2>2. [id |-> made + 1, form |-> form, target |-> target] \in Messages
    BY <1>4, BoundsAreNat DEF Arrive, Messages, OrderInv, MessageTypes
  <2>3. Idle /\ Came
    BY <1>1, <1>4, <2>1, <2>2 DEF Arrive, hmi, servers, Idle, Came
  <2> QED BY <1>2, <2>3
<1>5. CASE Reject \/ Limit \/ Refuse
  <2>1. Idle
    BY <1>1, <1>5 DEF Reject, Limit, Refuse, Allowed, Take, hmi, Idle
  <2>2. TurnedAway
    BY <1>5 DEF Reject, Limit, Refuse, Allowed, Take, TurnedAway
  <2> QED BY <1>2, <2>1, <2>2
<1>6. CASE Forward
  <2> DEFINE message == Head(queue)
             t       == message.target
  <2>1. message \in Messages /\ t \in Targets /\ cloud = Nothing /\ queue # <<>>
    BY <1>6, QueueTail, NothingIsNoMessage DEF Forward, Allowed, Take
  <2>2. CASE socket[t].waits
    <3>1. Idle /\ TurnedAway
      BY <1>1, <1>6, <2>2 DEF Forward, Allowed, Take, hmi, Idle, TurnedAway
    <3> QED BY <1>2, <3>1
  <2>3. CASE ~socket[t].waits
    <3>1. Asked(t, message) /\ Sent /\ executed' = executed
      BY <1>6, <2>1, <2>3 DEF Forward, Allowed, Take, hmi, Asked, Sent
    <3>2. SocketInv'
      BY <2>1, <3>1, AskedKeepsSockets
    <3>3. OrderInv'
      BY <3>1, OrderNext
    <3> QED BY <3>2, <3>3
  <2> QED BY <2>2, <2>3
<1>7. CASE Receive
  <2>1. Read /\ cloud \in Messages \cup {Nothing} /\ executed' = executed
    BY <1>7 DEF Receive, Read, servers, hmi, OrderInv, MessageTypes
  <2>2. SocketInv' /\ Head(socket[cloud.target].answers) = cloud.id /\ cloud.id \in executed
    BY <2>1, ReadKeepsSockets
  <2>3. Respond(cloud, TRUE, cloud.id)
    BY <1>7, <2>2 DEF Receive
  <2>4. Settled
    BY <1>7, <2>2, <2>3 DEF Receive, mqtt, Settled
  <2> QED BY <2>1, <2>2, <2>4, OrderNext
<1>8. CASE Timeout
  <2>1. GivenUp /\ executed' = executed
    BY <1>8 DEF Timeout, GivenUp, servers, hmi
  <2>2. Respond(cloud, FALSE, cloud.id)
    BY <1>8 DEF Timeout, Error
  <2>3. Settled
    BY <1>8, <2>2 DEF Timeout, mqtt, Settled
  <2> QED BY <2>1, <2>3, OrderNext, IdleKeepsSockets
<1>9. CASE Request
  <2>1. Requested /\ Quiet /\ executed' = executed
    BY <1>9 DEF Request, Requested, mqtt
  <2> QED BY <2>1, OrderNext, RequestedKeepsSockets
<1>10. ASSUME NEW r \in DOMAIN requests, GiveUp(r) PROVE (OrderInv /\ SocketInv)'
  <2>1. requests' = [requests EXCEPT ![r] = "timeout"] /\ r \in 1 .. Len(requests) /\ "timeout" \in Outcomes
    BY <1>1, <1>10, LenProperties DEF GiveUp, Outcomes
  <2>2. requests' \in Seq(Outcomes) /\ Len(requests') = Len(requests)
    BY <1>1, <2>1, ExceptSeq
  <2>3. Idle /\ Quiet
    BY <1>10, <2>2 DEF GiveUp, servers, Idle
  <2> QED BY <1>2, <2>3
<1>11. ASSUME NEW t \in Targets, Serve(t) PROVE (OrderInv /\ SocketInv)'
  <2>1. Quiet /\ executed \subseteq executed'
    BY <1>11 DEF Serve
  <2> QED BY <1>11, <2>1, OrderNext, ServeKeepsSockets
<1>12. ASSUME NEW t \in Targets, Crash(t) PROVE (OrderInv /\ SocketInv)'
  <2>1. Quiet /\ executed' = executed
    BY <1>12 DEF Crash
  <2> QED BY <1>12, <2>1, OrderNext, CrashKeepsSockets
<1>13. ASSUME NEW t \in Targets, Start(t) PROVE (OrderInv /\ SocketInv)'
  <2>1. Idle /\ Quiet
    BY <1>1, <1>13 DEF Start, hmi, Idle
  <2> QED BY <1>2, <2>1
<1> QED BY <1>3, <1>4, <1>5, <1>6, <1>7, <1>8, <1>9, <1>10, <1>11, <1>12, <1>13 DEF Next, Dispatch

-----------------------------------------------------------------------------
(* The theorems.                                                            *)

CrashesCounted == crashes \in 0 .. MaxCrashes

IInv == LimiterInv /\ SessionsInv /\ OrderInv /\ SocketInv /\ CrashesCounted

LEMMA InitInv == Init => IInv
<1> SUFFICES ASSUME Init PROVE IInv
  OBVIOUS
<1> USE BoundsAreNat DEF Init
<1>1. \A S : <<>> \in Seq(S) /\ Len(<<>>) = 0 /\ DOMAIN <<>> = {}
  BY EmptySeq
<1>2. LimiterInv
  <2>1. stamps = <<>> /\ forwarded = <<>> /\ now = 0
    OBVIOUS
  <2>2. LimiterTypes
    BY <1>1, <2>1 DEF LimiterTypes
  <2>3. Counted /\ RateIsLimited
    BY <1>1, <2>1 DEF Counted, Sorted, RateIsLimited
  <2> QED BY <2>2, <2>3 DEF LimiterInv
<1>3. SessionsInv
  <2>1. DOMAIN tokens = {}
    BY <1>1
  <2> QED BY <2>1, FS_EmptySet DEF SessionsInv
<1>4. OrderInv
  <2>1. queue = <<>> /\ responses = {} /\ cloud = Nothing /\ made = 0 /\ Nothing.id = 0
    BY DEF Nothing
  <2>2. MessageTypes
    BY <1>1, <2>1 DEF MessageTypes
  <2>3. Ordered /\ AnswersMatch
    BY <1>1, <2>1 DEF Ordered, AnswersMatch
  <2> QED BY <2>2, <2>3 DEF OrderInv
<1>5. SocketInv
  <2>1. [waits |-> FALSE, answers |-> <<>>] \in Socket
    BY <1>1 DEF Socket
  <2>2. SocketTypes
    BY <1>1, <2>1 DEF SocketTypes
  <2>3. \A t \in Targets : /\ ~socket[t].waits /\ socket[t].answers = <<>> /\ DOMAIN inbox[t] = {}
    BY <1>1
  <2>4. Sockets
    BY <2>3 DEF Sockets, Fits
  <2> QED BY <2>2, <2>4 DEF SocketInv
<1> QED BY <1>2, <1>3, <1>4, <1>5 DEF IInv, CrashesCounted

LEMMA CrashesNext == CrashesCounted /\ [Next]_vars => CrashesCounted'
<1> SUFFICES ASSUME CrashesCounted, [Next]_vars PROVE CrashesCounted'
  OBVIOUS
<1>1. CASE \E t \in Targets : Crash(t)
  BY <1>1, BoundsAreNat DEF Crash, CrashesCounted
<1>2. CASE crashes' = crashes
  BY <1>2 DEF CrashesCounted
<1>3. CASE Tick \/ Arrive \/ Dispatch
  BY <1>2, <1>3 DEF Tick, Arrive, Dispatch, Reject, Limit, Refuse, Forward, Allowed, Take, Receive, Timeout, servers
<1>4. CASE Sessions \/ Request \/ \E r \in DOMAIN requests : GiveUp(r)
  BY <1>2, <1>4 DEF Sessions, Login, Logout, CleanUp, Request, GiveUp, servers
<1>5. CASE \E t \in Targets : Serve(t) \/ Start(t)
  BY <1>2, <1>5 DEF Serve, Start
<1>6. CASE UNCHANGED vars
  BY <1>2, <1>6 DEF vars, servers
<1> QED BY <1>1, <1>3, <1>4, <1>5, <1>6 DEF Next

(* The invariant that the theorems below follow from. *)
THEOREM InvHolds == Spec => []IInv
<1>1. IInv /\ [Next]_vars => IInv'
  BY LimiterNext, SessionsNext, AnswersNext, CrashesNext DEF IInv
<1> QED BY <1>1, InitInv, PTL DEF Spec

(* Every variable stays in its domain: the limiter never keeps more times   *)
(* than its limit, there are never more sessions than the limit, and the    *)
(* dispatcher waits only on a socket that sent (dispatcher.py, auth.py).    *)
THEOREM TypeCorrect == Spec => []TypeOK
<1>1. IInv => TypeOK
  <2> SUFFICES ASSUME IInv PROVE TypeOK
    OBVIOUS
  <2>1. cloud # Nothing => socket[cloud.target].waits
    BY NothingIsNoMessage DEF IInv, OrderInv, MessageTypes, SocketInv, Sockets, Awaited
  <2> QED BY <2>1 DEF IInv, LimiterInv, LimiterTypes, SessionsInv, OrderInv, MessageTypes, Messages,
                      SocketInv, SocketTypes, Outcomes, CrashesCounted, TypeOK
<1> QED BY <1>1, InvHolds, PTL

(* A response that says what a manager answered is the answer to that very  *)
(* command, which was executed, and a command has one response, however     *)
(* many commands time out, managers die and answers come too late           *)
(* (dispatcher.py dispatch(), _send_recv()).                                *)
THEOREM ResponsesMatch == Spec => []AnswersMatch
<1>1. IInv => AnswersMatch
  BY DEF IInv, OrderInv
<1> QED BY <1>1, InvHolds, PTL

(* No span of the window's length holds more forwarded commands than the    *)
(* limit, wherever it begins, although the limiter forgets its times        *)
(* (dispatcher.py RateLimiter.allow()).                                     *)
THEOREM RateStaysLimited == Spec => []RateIsLimited
<1>1. IInv => RateIsLimited
  BY DEF IInv, LimiterInv
<1> QED BY <1>1, InvHolds, PTL

(* A login is turned away only when as many others are still logged in, and *)
(* puts none of them out (auth.py create_token()).                          *)
THEOREM RoomIsFound == Spec => []LoginsFindRoom
<1>1. IInv => LoginsFindRoom
  BY SessionsFindRoom DEF IInv
<1> QED BY <1>1, InvHolds, PTL

=============================================================================
