------------------------ MODULE ScheduleChain_proofs ------------------------
(***************************************************************************)
(* Proofs about ScheduleChain, for any schedules that pass the schema, any *)
(* length of the day and of a point of the curve, and any number of writes *)
(* and mishaps.                                                            *)
(***************************************************************************)
EXTENDS ScheduleChain, WellFoundedInduction, TLAPS

Plans == [index : Nat, action : {"charge", "discharge", "idle", "curve"}, power : Int]

(* The types, and what no restart may leave behind. *)
ManagerOK ==
  /\ manager \in [up : BOOLEAN, watching : BOOLEAN, due : BOOLEAN, config : Configs \cup {Torn}]
  /\ manager.up = (manager.config # Torn)
  /\ manager.watching => manager.up
  /\ manager.due => manager.watching

Schedulers ==
  [up : BOOLEAN, subscribed : BOOLEAN, config : Configs, last : Plans \cup {None},
   last_day_night : {"none", "DAY", "NIGHT"}, owns : BOOLEAN, calls : Seq(Calls), asked : BOOLEAN]

SchedulerOK ==
  /\ scheduler \in Schedulers
  /\ ~scheduler.up => ~scheduler.subscribed /\ scheduler.calls = <<>> /\ ~scheduler.asked
  /\ scheduler.asked => scheduler.calls # <<>>

OthersOK ==
  /\ now \in Minutes /\ file \in Configs \cup {Torn} /\ writing \in Configs \cup {Torn}
  /\ notice \in BOOLEAN
  /\ control \in [mode : {"DAY", "NIGHT", "MANUAL"}, power : Int, ready : BOOLEAN, inbox : Seq(Calls)]
  /\ history \in [heard : BOOLEAN, ticked : BOOLEAN]
  /\ writes \in 0 .. MaxWrites /\ mishaps \in 0 .. MaxMishaps

(* A command that is awaited is the last to wait at control_manager, unless *)
(* it was lost.                                                             *)
AwaitsTheLast ==
  scheduler.asked /\ control.inbox # <<>> =>
    control.inbox[Len(control.inbox)] = Head(scheduler.calls)

(* The scheduler owns the priority exactly while it remembers a plan; that  *)
(* is never a plan of another file, and there are none in manual mode.      *)
RemembersItsPlan(s) ==
  /\ s.owns <=> s.last # None
  /\ s.owns => s.config.mode # "manual"
  /\ s.owns /\ s.config.mode = "curve" =>
       s.last.index \in 1 .. Day \div Interval /\ s.last.power = s.config.curve[s.last.index]

(* What is left to send is the end of what the plan takes. *)
SendsItsPlan(s) ==
  IF s.owns
  THEN s.calls \in {<<>>, <<Setpoint(s.last.power)>>,
                    <<Priority("MANUAL"), Setpoint(s.last.power)>>}
  ELSE s.calls \in {<<>>, <<Priority(s.last_day_night)>>}

(* As long as control_manager obeyed everything, what is not left to send   *)
(* has been done.                                                           *)
DidWhatItSent(s, c) ==
  /\ s.owns /\ Len(s.calls) < 2 => c.mode = "MANUAL"
  /\ s.owns /\ s.calls = <<>> => c.power = s.last.power
  /\ ~s.owns /\ s.calls = <<>> /\ s.last_day_night # "none" => c.mode = s.last_day_night

(* After a tick the plan that is remembered is this minute's. *)
PlansForNow(s) ==
  /\ s.last_day_night = DayOrNight(now, s.config)
  /\ s.config.mode # "manual" => s.owns /\ s.last.power = Plan(now, s.config).power

ChainInv ==
  /\ RemembersItsPlan(scheduler)
  /\ SendsItsPlan(scheduler)
  /\ scheduler.up /\ history.heard => DidWhatItSent(scheduler, control)
  /\ scheduler.up /\ history.ticked => PlansForNow(scheduler)

IInv == ManagerOK /\ SchedulerOK /\ OthersOK /\ AwaitsTheLast /\ ChainInv
-----------------------------------------------------------------------------
(***************************************************************************)
(* The evaluator.                                                          *)
(***************************************************************************)

(* A day is a positive number of points of the curve. *)
LEMMA DayIsNat == /\ Day \in Nat /\ Day > 0 /\ Interval \in Nat /\ Interval > 0
                  /\ Day % Interval = 0 /\ Minutes = 0 .. Day - 1
BY DayAssumption DEF Minutes

(* The arithmetic of the clock: minutes before and after midnight. *)
LEMMA ModDay ==
  /\ \A a \in Int : 0 <= a /\ a < Day => a % Day = a
  /\ \A a \in Int : Day <= a /\ a < Day + Day => a % Day = a - Day
  /\ \A a \in Int : a < 0 /\ -Day <= a => a % Day = a + Day
<1>1. Day \in Nat /\ Day > 0
  BY DayIsNat
<1>2. ASSUME NEW a \in Int, 0 <= a, a < Day PROVE a % Day = a
  BY <1>1, <1>2
<1>3. ASSUME NEW a \in Int, Day <= a, a < Day + Day PROVE a % Day = a - Day
  BY <1>1, <1>3
<1>4. ASSUME NEW a \in Int, a < 0, -Day <= a PROVE a % Day = a + Day
  BY <1>1, <1>4
<1> QED BY <1>2, <1>3, <1>4

(* A set of numbers that is not empty has a least one; Min finds it. *)
LEMMA MinIsLeast ==
  ASSUME NEW S \in SUBSET Nat, S # {}
  PROVE  Min(S) \in S /\ \A k \in S : Min(S) <= k
<1> DEFINE R == {ss \in Nat \X Nat : ss[1] < ss[2]}
<1>1. IsWellFoundedOn(R, Nat)
  BY NatLessThanWellFounded DEF OpToRel
<1> HIDE DEF R
<1>2. PICK m \in S : \A k \in S : ~(<<k, m>> \in R)
  BY <1>1, WFMin
<1>3. ASSUME NEW k \in S PROVE m <= k
  <2>1. ~(k < m)
    BY <1>2 DEF R
  <2> QED BY <2>1
<1> QED BY <1>3 DEF Min

(* Windows come in a sequence, and each fits the schema. *)
LEMMA ConfigsFit ==
  ASSUME NEW config \in Configs
  PROVE  /\ config.mode \in {"manual", "time_of_day", "curve"}
         /\ DOMAIN config.windows \in SUBSET Nat
         /\ \A i \in DOMAIN config.windows : i > 0 /\ config.windows[i] \in Windows
         /\ config.curve \in [1 .. Day \div Interval -> Int]
<1>1. config.windows \in Seq(Windows)
  BY ScheduleAssumption
<1>2. DOMAIN config.windows = 1 .. Len(config.windows) /\ Len(config.windows) \in Nat
  BY <1>1
<1> QED BY <1>1, <1>2, ScheduleAssumption

(* What the windows say is a plan, found at the first of those that match. *)
LEMMA TimeOfDayFinds ==
  ASSUME NEW windows, DOMAIN windows \in SUBSET Nat,
         \A i \in DOMAIN windows : i > 0 /\ windows[i] \in Windows
  PROVE  LET result   == TimeOfDay(now, windows)
             matching == {i \in DOMAIN windows : InWindow(now, windows[i])}
         IN  /\ result \in Plans
             /\ result.index > 0 => result.index \in matching
             /\ \A i \in matching : result.index \in 1 .. i
<1> DEFINE matching == {i \in DOMAIN windows : InWindow(now, windows[i])}
           first    == Min(matching)
           result   == TimeOfDay(now, windows)
<1>1. matching \in SUBSET Nat
  OBVIOUS
<1> HIDE DEF matching
<1>2. CASE matching = {}
  <2>1. result = Idle
    BY <1>2 DEF TimeOfDay, matching
  <2> HIDE DEF result
  <2>2. result \in Plans /\ result.index = 0
    BY <2>1 DEF Idle, Plans
  <2> QED BY <1>2, <2>2 DEF matching, result
<1>3. CASE matching # {}
  <2>1. first \in matching /\ \A k \in matching : first <= k
    BY <1>1, <1>3, MinIsLeast
  <2>2. result = [index |-> first, action |-> windows[first].action, power |-> Signed(windows[first])]
    BY <1>3 DEF TimeOfDay, matching
  <2> HIDE DEF first, result
  <2>3. first \in DOMAIN windows
    BY <2>1 DEF matching
  <2>4. windows[first] \in Windows /\ first \in Nat /\ first > 0
    BY <2>3
  <2>5. Signed(windows[first]) \in Int
    BY <2>4 DEF Signed, Abs, Windows
  <2>6. result \in Plans /\ result.index = first
    BY <2>2, <2>4, <2>5 DEF Plans, Windows
  <2>7. \A i \in matching : first \in 1 .. i
    <3> TAKE i \in matching
    <3>1. first <= i /\ i \in Nat
      BY <2>1, <1>1
    <3> QED BY <3>1, <2>4
  <2> QED BY <2>1, <2>6, <2>7 DEF matching, result
<1> QED BY <1>2, <1>3

(* Every minute has its point of the curve. *)
LEMMA PointExists ==
  ASSUME now \in Minutes
  PROVE  now \div Interval \in Nat /\ (now \div Interval) + 1 \in 1 .. Day \div Interval
<1>1. now \in 0 .. Day - 1
  BY DayIsNat
<1> QED BY <1>1, DayIsNat

(* The schedule plans something in every minute; a plan of the curve is the *)
(* point of its index (evaluator.py).                                       *)
LEMMA PlanIsPlan ==
  ASSUME now \in Minutes, NEW config \in Configs, config.mode # "manual"
  PROVE  /\ Plan(now, config) \in Plans
         /\ config.mode = "curve" =>
              /\ Plan(now, config).index \in 1 .. Day \div Interval
              /\ Plan(now, config).power = config.curve[Plan(now, config).index]
<1>1. CASE config.mode = "time_of_day"
  <2>1. TimeOfDay(now, config.windows) \in Plans
    BY ConfigsFit, TimeOfDayFinds
  <2> QED BY <1>1, <2>1 DEF Plan
<1>2. CASE config.mode = "curve"
  <2> DEFINE i == (now \div Interval) + 1
  <2>1. i \in 1 .. Day \div Interval /\ i \in Nat
    BY PointExists
  <2>2. Plan(now, config) = [index |-> i, action |-> "curve", power |-> config.curve[i]]
    BY <1>2 DEF Plan, Curve
  <2> HIDE DEF i
  <2>3. config.curve[i] \in Int
    BY <2>1, ConfigsFit
  <2> QED BY <2>1, <2>2, <2>3 DEF Plans
<1> QED BY <1>1, <1>2, ConfigsFit

LEMMA DayOrNightIs == \A config : DayOrNight(now, config) \in {"DAY", "NIGHT"}
BY DEF DayOrNight

(* A plan is not "nothing was planned". *)
LEMMA NoneIsNoPlan == \A plan \in Plans : plan # None /\ plan.index # None.index
BY DEF Plans, None

(* How long a window is on. *)
LEMMA LengthIs ==
  ASSUME NEW window \in Windows, Timely(window)
  PROVE  /\ window.start < window.end => Length(window) = window.end - window.start
         /\ window.end <= window.start => Length(window) = window.end - window.start + Day
<1> DEFINE a == window.start
           b == window.end
<1>1. a \in 0 .. Day - 1 /\ b \in 0 .. Day - 1
  BY DayIsNat DEF Timely
<1>2. Length(window) = IF (b - a) % Day = 0 THEN Day ELSE (b - a) % Day
  BY DEF Length
<1> HIDE DEF a, b
<1>3. /\ a <= b => (b - a) % Day = b - a
      /\ b < a => (b - a) % Day = b - a + Day
  <2>1. b - a \in Int /\ b - a < Day /\ -Day <= b - a
    BY <1>1, DayIsNat
  <2>2. CASE a <= b
    <3>1. 0 <= b - a
      BY <1>1, <2>2, DayIsNat
    <3> QED BY <2>1, <2>2, <3>1, <1>1, ModDay, DayIsNat
  <2>3. CASE b < a
    <3>1. b - a < 0
      BY <1>1, <2>3, DayIsNat
    <3>2. (b - a) % Day = (b - a) + Day
      BY <2>1, <3>1, ModDay
    <3> QED BY <2>3, <3>2, <1>1, DayIsNat
  <2> QED BY <2>2, <2>3, <1>1, DayIsNat
<1>4. /\ a < b => Length(window) = b - a
      /\ b <= a => Length(window) = b - a + Day
  <2>1. CASE a < b
    BY <1>1, <1>2, <1>3, <2>1, DayIsNat
  <2>2. CASE a = b
    BY <1>1, <1>2, <1>3, <2>2, DayIsNat
  <2>3. CASE b < a
    BY <1>1, <1>2, <1>3, <2>3, DayIsNat
  <2> QED BY <2>1, <2>2, <2>3, <1>1, DayIsNat
<1> QED BY <1>4 DEF a, b

(* The comparisons of _in_window() find the minutes from the start on, over *)
(* midnight (evaluator.py _in_window()).                                    *)
LEMMA OnIsInWindow ==
  ASSUME now \in Minutes, NEW window \in Windows, Timely(window)
  PROVE  now \in On(window) <=> InWindow(now, window)
<1> DEFINE a == window.start
           b == window.end
           n == Length(window)
<1>1. a \in 0 .. Day - 1 /\ b \in 0 .. Day - 1 /\ now \in 0 .. Day - 1
  BY DayIsNat DEF Timely
<1>2. (a < b => n = b - a) /\ (b <= a => n = b - a + Day)
  BY LengthIs
<1>3. n \in 1 .. Day
  BY <1>1, <1>2, DayIsNat
<1>4. now \in On(window) <=> \E k \in 0 .. n - 1 : (a + k) % Day = now
  BY DEF On
<1>5. InWindow(now, window) <=> IF a < b THEN a <= now /\ now < b ELSE now >= a \/ now < b
  BY DEF InWindow
<1> HIDE DEF a, b, n
<1>6. ASSUME NEW t \in Int, a <= t, t < a + n
      PROVE  (t < Day => t % Day = t) /\ (~(t < Day) => t % Day = t - Day)
  <2>1. 0 <= t /\ t < Day + Day
    BY <1>1, <1>3, <1>6, DayIsNat
  <2>2. CASE t < Day
    BY <2>1, <2>2, ModDay
  <2>3. CASE ~(t < Day)
    <3>1. Day <= t
      BY <2>3, DayIsNat
    <3>2. t % Day = t - Day
      BY <2>1, <3>1, ModDay
    <3> QED BY <2>3, <3>2
  <2> QED BY <2>2, <2>3
<1>7. ASSUME now \in On(window) PROVE InWindow(now, window)
  <2>1. PICK k \in 0 .. n - 1 : (a + k) % Day = now
    BY <1>4, <1>7
  <2>2. a + k \in Int /\ a <= a + k /\ a + k < a + n
    BY <1>1, <1>3, DayIsNat
  <2>3. PICK t \in Int : t = a + k
    BY <2>2
  <2>4. t % Day = now
    BY <2>1, <2>3, Zenon
  <2>5. (t < Day => now = t) /\ (~(t < Day) => now = t - Day)
    BY <2>2, <2>3, <2>4, <1>6
  <2>6. a <= t /\ t < a + n
    BY <2>2, <2>3
  <2> QED BY <1>1, <1>2, <1>3, <1>5, <2>5, <2>6, DayIsNat
<1>8. ASSUME InWindow(now, window) PROVE now \in On(window)
  <2> DEFINE t == IF a <= now THEN now ELSE now + Day
  <2>1. t \in Int /\ a <= t /\ t < a + n
    BY <1>1, <1>2, <1>3, <1>5, <1>8, DayIsNat
  <2>2. (t < Day => now = t) /\ (~(t < Day) => now = t - Day)
    BY <1>1, DayIsNat
  <2> HIDE DEF t
  <2>3. t % Day = now
    BY <2>1, <2>2, <1>6
  <2>4. t - a \in 0 .. n - 1 /\ a + (t - a) = t
    BY <2>1, <1>1, <1>3, DayIsNat
  <2>5. (a + (t - a)) % Day = now
    BY <2>3, <2>4, Zenon
  <2> QED BY <2>4, <2>5, <1>4
<1> QED BY <1>7, <1>8

(* So the first window that the code finds is the first that is on. *)
LEMMA FirstIsOn ==
  now \in Minutes /\ scheduler.config \in Configs => FirstWindowThatIsOn
<1> SUFFICES ASSUME now \in Minutes, scheduler.config \in Configs
             PROVE  FirstWindowThatIsOn
  OBVIOUS
<1> DEFINE windows == scheduler.config.windows
           result  == TimeOfDay(now, windows)
           matching == {i \in DOMAIN windows : InWindow(now, windows[i])}
<1>1. /\ DOMAIN windows \in SUBSET Nat
      /\ \A i \in DOMAIN windows : i > 0 /\ windows[i] \in Windows
  BY ConfigsFit
<1> HIDE DEF windows
<1>2. /\ result.index > 0 => result.index \in matching
      /\ \A i \in matching : result.index \in 1 .. i
  BY <1>1, TimeOfDayFinds
<1> HIDE DEF result
<1>3. ASSUME NEW i \in DOMAIN windows, Timely(windows[i])
      PROVE  now \in On(windows[i]) <=> i \in matching
  BY <1>1, <1>3, OnIsInWindow
<1>4. result.index > 0 /\ Timely(windows[result.index]) => now \in On(windows[result.index])
  BY <1>2, <1>3
<1>5. \A i \in DOMAIN windows : Timely(windows[i]) /\ now \in On(windows[i]) => result.index \in 1 .. i
  BY <1>2, <1>3
<1> QED BY <1>4, <1>5 DEF FirstWindowThatIsOn, windows, result
-----------------------------------------------------------------------------
(***************************************************************************)
(* Sequences of commands.                                                  *)
(***************************************************************************)

LEMMA ShortSequences ==
  /\ <<>> \in Seq(Calls) /\ Len(<<>>) = 0
  /\ \A x : <<x>> # <<>> /\ Len(<<x>>) = 1 /\ Head(<<x>>) = x /\ Tail(<<x>>) = <<>>
            /\ <<>> \o <<x>> = <<x>> /\ Append(<<>>, x) = <<x>>
            /\ (x \in Calls => <<x>> \in Seq(Calls))
  /\ \A x, y : <<x, y>> # <<>> /\ Len(<<x, y>>) = 2 /\ Head(<<x, y>>) = x /\ Tail(<<x, y>>) = <<y>>
               /\ <<x>> \o <<y>> = <<x, y>>
               /\ (x \in Calls /\ y \in Calls => <<x, y>> \in Seq(Calls))
<1>1. <<>> \in Seq(Calls) /\ Len(<<>>) = 0
  OBVIOUS
<1>2. ASSUME NEW x
      PROVE  <<x>> # <<>> /\ Len(<<x>>) = 1 /\ Head(<<x>>) = x /\ Tail(<<x>>) = <<>>
             /\ <<>> \o <<x>> = <<x>> /\ Append(<<>>, x) = <<x>>
             /\ (x \in Calls => <<x>> \in Seq(Calls))
  OBVIOUS
<1>3. ASSUME NEW x, NEW y
      PROVE  <<x, y>> # <<>> /\ Len(<<x, y>>) = 2 /\ Head(<<x, y>>) = x /\ Tail(<<x, y>>) = <<y>>
             /\ (x \in Calls /\ y \in Calls => <<x, y>> \in Seq(Calls))
  OBVIOUS
<1>4. ASSUME NEW x, NEW y PROVE <<x>> \o <<y>> = <<x, y>>
  <2> DEFINE both == <<x>> \o <<y>>
  <2>1. <<x>> \in Seq({x, y}) /\ <<y>> \in Seq({x, y})
    OBVIOUS
  <2>2. both \in Seq({x, y}) /\ Len(both) = 2
    BY <2>1
  <2>3. both[1] = x /\ both[2] = y
    BY <2>1
  <2> HIDE DEF both
  <2>4. both = <<x, y>>
    BY <2>2, <2>3
  <2> QED BY <2>4 DEF both
<1> QED BY <1>1, <1>2, <1>3, <1>4

LEMMA BothAreTwo == \A x, y : ~(Len(<<x, y>>) < 2)
OBVIOUS

LEMMA CallsFit ==
  /\ \A mode \in {"DAY", "NIGHT", "MANUAL"} : Priority(mode) \in Calls
  /\ \A power \in Int : Setpoint(power) \in Calls
BY DEF Calls, Priority, Setpoint

(* A queue that loses its first keeps its last, if that is another. *)
LEMMA TailKeepsTheLast ==
  ASSUME NEW q \in Seq(Calls), q # <<>>
  PROVE  /\ Tail(q) \in Seq(Calls) /\ Head(q) \in Calls
         /\ Tail(q) # <<>> => Len(q) # 1 /\ Tail(q)[Len(Tail(q))] = q[Len(q)]
<1>1. Len(q) \in Nat /\ Len(q) > 0
  OBVIOUS
<1>2. Tail(q) \in Seq(Calls) /\ Head(q) \in Calls /\ Len(Tail(q)) = Len(q) - 1
  BY <1>1
<1>3. ASSUME Tail(q) # <<>> PROVE Len(q) # 1 /\ Tail(q)[Len(Tail(q))] = q[Len(q)]
  <2>1. Len(Tail(q)) \in Nat /\ Len(Tail(q)) > 0
    BY <1>2, <1>3
  <2>2. Len(q) - 1 > 0
    BY <2>1, <1>2
  <2>3. Tail(q)[Len(q) - 1] = q[Len(q)]
    BY <1>1, <2>2
  <2> QED BY <1>1, <1>2, <2>2, <2>3
<1> QED BY <1>2, <1>3

(* A queue ends in what was appended to it. *)
LEMMA AppendIsTheLast ==
  ASSUME NEW q \in Seq(Calls), NEW x \in Calls
  PROVE  Append(q, x) \in Seq(Calls) /\ Append(q, x)[Len(Append(q, x))] = x
OBVIOUS
-----------------------------------------------------------------------------
(***************************************************************************)
(* A tick of the scheduler: a reload, the plan, and day or night.          *)
(***************************************************************************)

(* What a tick leaves alone. *)
SameProcess(s, t) == t.up = s.up /\ t.subscribed = s.subscribed /\ t.asked = s.asked

LEMMA ReloadForgets ==
  ASSUME NEW s \in Schedulers, RemembersItsPlan(s), file \in Configs \cup {Torn}
  PROVE  LET r == Reloaded(s)
         IN  /\ r \in Schedulers /\ SameProcess(s, r) /\ RemembersItsPlan(r) /\ r.calls = s.calls
             /\ IF notice /\ Passes THEN ~r.owns /\ r.last_day_night = "none" ELSE r = s
<1> DEFINE r == Reloaded(s)
<1>1. CASE notice /\ Passes
  <2>1. file \in Configs
    BY <1>1 DEF Passes
  <2>2. r = [s EXCEPT !.config = file, !.last = None, !.last_day_night = "none", !.owns = FALSE]
    BY <1>1 DEF Reloaded
  <2> HIDE DEF r
  <2>3. /\ r \in Schedulers /\ r.last = None /\ r.owns = FALSE /\ r.last_day_night = "none"
        /\ r.up = s.up /\ r.subscribed = s.subscribed /\ r.asked = s.asked /\ r.calls = s.calls
    BY <2>1, <2>2 DEF Schedulers
  <2> QED BY <1>1, <2>3 DEF r, RemembersItsPlan, SameProcess
<1>2. CASE ~(notice /\ Passes)
  <2>1. r = s
    BY <1>2 DEF Reloaded
  <2> QED BY <1>2, <2>1 DEF SameProcess
<1> QED BY <1>1, <1>2

LEMMA PlanIsSent ==
  ASSUME NEW s \in Schedulers, RemembersItsPlan(s), s.calls = <<>>, now \in Minutes
  PROVE  LET p == Planned(s)
         IN  /\ p \in Schedulers /\ SameProcess(s, p) /\ RemembersItsPlan(p)
             /\ p.config = s.config /\ p.last_day_night = s.last_day_night
             /\ ~p.owns => p = s
             /\ p.owns => p = s \/ (p.calls = <<Setpoint(p.last.power)>> /\ s.owns)
                          \/ p.calls = <<Priority("MANUAL"), Setpoint(p.last.power)>>
             /\ p.config.mode # "manual" => p.owns /\ p.last.power = Plan(now, p.config).power
<1> DEFINE p    == Planned(s)
           plan == Plan(now, s.config)
<1>1. s.config \in Configs /\ s.last \in Plans \cup {None} /\ s.owns \in BOOLEAN
  BY DEF Schedulers
<1>2. CASE s.config.mode = "manual"
  <2>1. p = s
    BY <1>2 DEF Planned
  <2> QED BY <1>2, <2>1 DEF RemembersItsPlan, SameProcess
<1>3. CASE s.config.mode # "manual" /\ ~Differs(s, plan)
  <2>1. p = s
    BY <1>3 DEF Planned
  <2> HIDE DEF p
  <2>2. plan \in Plans
    BY <1>1, <1>3, PlanIsPlan
  <2> HIDE DEF plan
  <2>3. s.last # None /\ s.last.power = plan.power
    <3>1. CASE s.config.mode = "curve"
      <4>1. plan.index = s.last.index
        BY <1>3, <3>1 DEF Differs
      <4>2. s.last # None
        BY <4>1, <2>2, NoneIsNoPlan
      <4>3. s.owns
        BY <4>2 DEF RemembersItsPlan
      <4>4. s.last.power = s.config.curve[s.last.index]
        BY <4>3, <3>1 DEF RemembersItsPlan
      <4>5. plan.power = s.config.curve[plan.index]
        BY <1>1, <1>3, <3>1, PlanIsPlan DEF plan
      <4> QED BY <4>1, <4>2, <4>4, <4>5
    <3>2. CASE s.config.mode # "curve"
      <4>1. plan = s.last
        BY <1>3, <3>2 DEF Differs
      <4> QED BY <4>1, <2>2, NoneIsNoPlan
    <3> QED BY <3>1, <3>2
  <2>4. s.owns
    BY <2>3 DEF RemembersItsPlan
  <2> QED BY <2>1, <2>3, <2>4 DEF SameProcess, p, plan
<1>4. CASE s.config.mode # "manual" /\ Differs(s, plan)
  <2>1. /\ plan \in Plans
        /\ s.config.mode = "curve" =>
             plan.index \in 1 .. Day \div Interval /\ plan.power = s.config.curve[plan.index]
    BY <1>1, <1>4, PlanIsPlan
  <2> DEFINE calls == (s.calls \o (IF s.owns THEN <<>> ELSE <<Priority("MANUAL")>>)) \o <<Setpoint(plan.power)>>
  <2>2. p = [s EXCEPT !.last = plan, !.owns = TRUE, !.calls = calls]
    BY <1>4 DEF Planned, Schedulers
  <2> HIDE DEF p, plan
  <2>3. plan.power \in Int
    BY <2>1 DEF Plans
  <2>4. Setpoint(plan.power) \in Calls /\ Priority("MANUAL") \in Calls
    BY <2>3, CallsFit
  <2>5. /\ s.owns => calls = <<Setpoint(plan.power)>>
        /\ ~s.owns => calls = <<Priority("MANUAL"), Setpoint(plan.power)>>
    <3>1. <<>> \o <<>> = <<>>
      OBVIOUS
    <3>2. CASE s.owns
      <4>1. calls = (<<>> \o <<>>) \o <<Setpoint(plan.power)>>
        BY <3>2
      <4> QED BY <3>1, <3>2, <4>1, ShortSequences
    <3>3. CASE ~s.owns
      <4>1. calls = (<<>> \o <<Priority("MANUAL")>>) \o <<Setpoint(plan.power)>>
        BY <3>3
      <4>2. <<>> \o <<Priority("MANUAL")>> = <<Priority("MANUAL")>>
        BY ShortSequences
      <4>3. <<Priority("MANUAL")>> \o <<Setpoint(plan.power)>> = <<Priority("MANUAL"), Setpoint(plan.power)>>
        BY ShortSequences
      <4> HIDE DEF calls
      <4> QED BY <3>3, <4>1, <4>2, <4>3
    <3> QED BY <3>2, <3>3
  <2>6. calls \in Seq(Calls)
    BY <1>1, <2>4, <2>5, ShortSequences
  <2> HIDE DEF calls
  <2>7. /\ p \in Schedulers /\ p.last = plan /\ p.owns = TRUE /\ p.calls = calls
        /\ p.config = s.config /\ p.last_day_night = s.last_day_night
        /\ p.up = s.up /\ p.subscribed = s.subscribed /\ p.asked = s.asked
    BY <2>1, <2>2, <2>6 DEF Schedulers
  <2>8. p.last # None
    BY <2>1, <2>7, NoneIsNoPlan
  <2>9. RemembersItsPlan(p)
    BY <1>4, <2>1, <2>7, <2>8 DEF RemembersItsPlan
  <2>10. \/ p.calls = <<Setpoint(p.last.power)>> /\ s.owns
         \/ p.calls = <<Priority("MANUAL"), Setpoint(p.last.power)>>
    BY <1>1, <2>5, <2>7
  <2> QED BY <2>7, <2>9, <2>10 DEF SameProcess, p, plan
<1> QED BY <1>2, <1>3, <1>4

LEMMA DayOrNightIsSent ==
  ASSUME NEW p \in Schedulers
  PROVE  LET d  == DayNight(p)
             dn == DayOrNight(now, p.config)
         IN  /\ d \in Schedulers /\ SameProcess(p, d)
             /\ d.config = p.config /\ d.last = p.last /\ d.owns = p.owns /\ d.last_day_night = dn
             /\ p.owns \/ p.last_day_night = dn => d.calls = p.calls
             /\ ~p.owns /\ p.last_day_night # dn => d.calls = Append(p.calls, Priority(dn))
<1> DEFINE d  == DayNight(p)
           dn == DayOrNight(now, p.config)
           calls == IF dn # p.last_day_night /\ ~p.owns THEN Append(p.calls, Priority(dn)) ELSE p.calls
<1>1. d = [p EXCEPT !.last_day_night = dn, !.calls = calls]
  BY DEF DayNight
<1>2. dn \in {"DAY", "NIGHT"}
  BY DayOrNightIs
<1> HIDE DEF d, dn
<1>3. p.calls \in Seq(Calls)
  BY DEF Schedulers
<1>4. calls \in Seq(Calls)
  <2>1. Priority(dn) \in Calls
    BY <1>2, CallsFit
  <2> QED BY <1>3, <2>1
<1>5. /\ p.owns \/ p.last_day_night = dn => calls = p.calls
      /\ ~p.owns /\ p.last_day_night # dn => calls = Append(p.calls, Priority(dn))
  OBVIOUS
<1> HIDE DEF calls
<1>6. /\ d \in Schedulers /\ d.calls = calls /\ d.last_day_night = dn
      /\ d.config = p.config /\ d.last = p.last /\ d.owns = p.owns
      /\ d.up = p.up /\ d.subscribed = p.subscribed /\ d.asked = p.asked
  BY <1>1, <1>2, <1>4 DEF Schedulers
<1> QED BY <1>5, <1>6 DEF SameProcess, d, dn

(* A tick sends what the plan takes, and knows that the rest was done.      *)
LEMMA TickKeeps ==
  IInv /\ Tick => SchedulerOK' /\ AwaitsTheLast' /\ ChainInv'
<1> SUFFICES ASSUME IInv, Tick
             PROVE  SchedulerOK' /\ AwaitsTheLast' /\ ChainInv'
  OBVIOUS
<1> DEFINE s  == scheduler
           r  == Reloaded(s)
           p  == Planned(r)
           d  == DayNight(p)
           dn == DayOrNight(now, p.config)
<1>1. /\ s \in Schedulers /\ s.up /\ s.calls = <<>> /\ ~s.asked
      /\ RemembersItsPlan(s) /\ (history.heard => DidWhatItSent(s, control))
      /\ now \in Minutes /\ file \in Configs \cup {Torn} /\ notice \in BOOLEAN
  BY DEF Tick, IInv, SchedulerOK, OthersOK, ChainInv, Schedulers, AwaitsTheLast
<1>2. /\ scheduler' = d /\ now' = now /\ control' = control
      /\ history'.ticked = TRUE /\ history'.heard = (history.heard \/ (notice /\ Passes))
  BY DEF Tick
<1> HIDE DEF s
<1>3. /\ r \in Schedulers /\ SameProcess(s, r) /\ RemembersItsPlan(r) /\ r.calls = <<>>
      /\ IF notice /\ Passes THEN ~r.owns /\ r.last_day_night = "none" ELSE r = s
  BY <1>1, ReloadForgets
<1> HIDE DEF r
<1>4. /\ p \in Schedulers /\ SameProcess(r, p) /\ RemembersItsPlan(p)
      /\ p.config = r.config /\ p.last_day_night = r.last_day_night
      /\ ~p.owns => p = r
      /\ p.owns => p = r \/ (p.calls = <<Setpoint(p.last.power)>> /\ r.owns)
                   \/ p.calls = <<Priority("MANUAL"), Setpoint(p.last.power)>>
      /\ p.config.mode # "manual" => p.owns /\ p.last.power = Plan(now, p.config).power
  BY <1>1, <1>3, PlanIsSent
<1> HIDE DEF p
<1>5. /\ d \in Schedulers /\ SameProcess(p, d)
      /\ d.config = p.config /\ d.last = p.last /\ d.owns = p.owns /\ d.last_day_night = dn
      /\ p.owns \/ p.last_day_night = dn => d.calls = p.calls
      /\ ~p.owns /\ p.last_day_night # dn => d.calls = Append(p.calls, Priority(dn))
  BY <1>4, DayOrNightIsSent
<1>6. dn # "none"
  BY DayOrNightIs
<1> HIDE DEF d, dn
<1>7. d.up = TRUE /\ d.asked = FALSE
  BY <1>1, <1>3, <1>4, <1>5 DEF SameProcess, Schedulers
<1>8. ~d.owns => \/ d.calls = <<>> /\ p.last_day_night = dn
                 \/ d.calls = <<Priority(dn)>>
  BY <1>3, <1>4, <1>5, ShortSequences
<1>9. d.owns => \/ p = r /\ d.calls = <<>>
                \/ d.calls = <<Setpoint(d.last.power)>> /\ r.owns
                \/ d.calls = <<Priority("MANUAL"), Setpoint(d.last.power)>>
  BY <1>3, <1>4, <1>5
<1>10. RemembersItsPlan(d)
  BY <1>4, <1>5 DEF RemembersItsPlan
<1>11. SendsItsPlan(d)
  BY <1>5, <1>8, <1>9 DEF SendsItsPlan
<1>12. ASSUME history'.heard PROVE DidWhatItSent(d, control)
  <2>1. CASE notice /\ Passes
    <3>1. ~r.owns /\ r.last_day_night = "none"
      BY <1>3, <2>1
    <3>2. d.owns => d.calls = <<Priority("MANUAL"), Setpoint(d.last.power)>>
      BY <1>5, <1>9, <3>1
    <3>3. ~d.owns => d.calls = <<Priority(dn)>>
      BY <1>4, <1>5, <1>6, <1>8, <3>1
    <3>4. d.owns => ~(Len(d.calls) < 2) /\ d.calls # <<>>
      BY <3>2, BothAreTwo, ShortSequences
    <3>5. ~d.owns => d.calls # <<>>
      BY <3>3, ShortSequences
    <3> QED BY <3>4, <3>5, Zenon DEF DidWhatItSent
  <2>2. CASE ~(notice /\ Passes)
    <3>1. r = s /\ DidWhatItSent(s, control)
      BY <1>1, <1>2, <1>3, <1>12, <2>2
    <3>2. Len(r.calls) < 2
      BY <1>3, ShortSequences
    <3>3. /\ r.owns => control.mode = "MANUAL" /\ control.power = r.last.power
          /\ ~r.owns /\ r.last_day_night # "none" => control.mode = r.last_day_night
      BY <1>3, <3>1, <3>2 DEF DidWhatItSent
    <3>4. d.owns /\ Len(d.calls) < 2 => r.owns
      <4>1. ~(Len(<<Priority("MANUAL"), Setpoint(d.last.power)>>) < 2)
        BY BothAreTwo
      <4> QED BY <1>5, <1>9, <4>1, Zenon
    <3>5. d.owns /\ d.calls = <<>> => p = r
      BY <1>9, ShortSequences
    <3>6. ~d.owns /\ d.calls = <<>> => p.last_day_night = dn /\ ~r.owns
      <4>1. <<Priority(dn)>> # <<>>
        BY ShortSequences
      <4> QED BY <1>4, <1>5, <1>8, <4>1
    <3>7. d.owns /\ Len(d.calls) < 2 => control.mode = "MANUAL"
      BY <3>3, <3>4
    <3>8. d.owns /\ d.calls = <<>> => control.power = d.last.power
      BY <1>5, <3>3, <3>5
    <3>9. ~d.owns /\ d.calls = <<>> => control.mode = d.last_day_night
      BY <1>4, <1>5, <1>6, <3>3, <3>6
    <3> QED BY <3>7, <3>8, <3>9 DEF DidWhatItSent
  <2> QED BY <2>1, <2>2
<1>13. /\ d.last_day_night = DayOrNight(now, d.config)
       /\ d.config.mode # "manual" => d.owns /\ d.last.power = Plan(now, d.config).power
  BY <1>4, <1>5 DEF dn
<1>14. SchedulerOK'
  BY <1>2, <1>5, <1>7 DEF SchedulerOK
<1>15. AwaitsTheLast'
  BY <1>2, <1>7 DEF AwaitsTheLast
<1>16. ChainInv'
  BY <1>2, <1>10, <1>11, <1>12, <1>13 DEF ChainInv, PlansForNow
<1> QED BY <1>14, <1>15, <1>16
-----------------------------------------------------------------------------
(***************************************************************************)
(* The other steps.                                                        *)
(***************************************************************************)

(* An answer, or the end of the wait for it, takes the command off the list. *)
LEMMA AnsweredFits ==
  ASSUME IInv, scheduler.asked
  PROVE  LET t == Answered
         IN  /\ t \in Schedulers /\ scheduler.up /\ t.up /\ ~t.asked
             /\ t.owns = scheduler.owns /\ t.last = scheduler.last /\ t.config = scheduler.config
             /\ t.last_day_night = scheduler.last_day_night
             /\ t.calls = Tail(scheduler.calls)
             /\ RemembersItsPlan(t) /\ SendsItsPlan(t)
<1> DEFINE s == scheduler
           t == Answered
<1>1. /\ s \in Schedulers /\ s.calls # <<>> /\ s.up
      /\ RemembersItsPlan(s) /\ SendsItsPlan(s)
  BY DEF IInv, SchedulerOK, ChainInv, Schedulers
<1>2. s.calls \in Seq(Calls) /\ Tail(s.calls) \in Seq(Calls)
  BY <1>1, TailKeepsTheLast DEF Schedulers
<1>3. t = [s EXCEPT !.calls = Tail(s.calls), !.asked = FALSE]
  BY <1>1 DEF Answered, Schedulers
<1> HIDE DEF s, t
<1>4. /\ t \in Schedulers /\ t.up = s.up /\ t.asked = FALSE
      /\ t.owns = s.owns /\ t.last = s.last /\ t.config = s.config
      /\ t.last_day_night = s.last_day_night /\ t.calls = Tail(s.calls)
  BY <1>1, <1>2, <1>3 DEF Schedulers
<1>5. RemembersItsPlan(t)
  BY <1>1, <1>4 DEF RemembersItsPlan
<1>6. SendsItsPlan(t)
  <2>1. CASE s.owns
    <3>1. s.calls \in {<<Setpoint(s.last.power)>>, <<Priority("MANUAL"), Setpoint(s.last.power)>>}
      BY <1>1, <2>1 DEF SendsItsPlan
    <3>2. t.calls \in {<<>>, <<Setpoint(s.last.power)>>}
      BY <1>4, <3>1, ShortSequences
    <3> QED BY <1>4, <2>1, <3>2 DEF SendsItsPlan
  <2>2. CASE ~s.owns
    <3>1. s.calls = <<Priority(s.last_day_night)>>
      BY <1>1, <2>2 DEF SendsItsPlan
    <3>2. t.calls = <<>>
      BY <1>4, <3>1, ShortSequences
    <3> QED BY <1>4, <2>2, <3>2 DEF SendsItsPlan
  <2> QED BY <2>1, <2>2
<1> QED BY <1>1, <1>4, <1>5, <1>6 DEF s, t

(* Steps that leave the scheduler alone. *)
LEMMA SchedulerStays ==
  ASSUME IInv, UNCHANGED scheduler, history'.ticked => history.ticked /\ now' = now,
         history'.heard =>
           history.heard /\ control'.mode = control.mode /\ control'.power = control.power
  PROVE  SchedulerOK' /\ ChainInv'
<1>1. SchedulerOK'
  BY DEF IInv, SchedulerOK
<1>2. RemembersItsPlan(scheduler) /\ SendsItsPlan(scheduler)
  BY DEF IInv, ChainInv
<1>3. ASSUME scheduler.up, history'.heard PROVE DidWhatItSent(scheduler, control')
  BY <1>3 DEF IInv, ChainInv, DidWhatItSent
<1>4. ASSUME scheduler.up, history'.ticked PROVE PlansForNow(scheduler) /\ now' = now
  BY <1>4 DEF IInv, ChainInv
<1>5. ChainInv'
  BY <1>2, <1>3, <1>4 DEF ChainInv, PlansForNow
<1> QED BY <1>1, <1>5

LEMMA IdleKeeps ==
  IInv /\ (Clock \/ Files \/ Manager \/ UNCHANGED vars) => SchedulerOK' /\ AwaitsTheLast' /\ ChainInv'
<1> SUFFICES ASSUME IInv, Clock \/ Files \/ Manager \/ UNCHANGED vars
             PROVE  SchedulerOK' /\ AwaitsTheLast' /\ ChainInv'
  OBVIOUS
<1>1. UNCHANGED <<scheduler, control>>
  BY DEF Clock, Files, BeginPut, EndPut, BreakPut, Edit, Manager, Reload, KillManager,
         StartManager, Watch, vars
<1>2. history \in [heard : BOOLEAN, ticked : BOOLEAN]
  BY DEF IInv, OthersOK
<1>3. history'.heard = history.heard /\ (history'.ticked => history.ticked /\ now' = now)
  <2>1. CASE Clock
    BY <1>2, <2>1 DEF Clock
  <2>2. CASE Files \/ Manager \/ UNCHANGED vars
    BY <2>2 DEF Files, BeginPut, EndPut, BreakPut, Edit, Manager, Reload, KillManager,
                StartManager, Watch, vars
  <2> QED BY <2>1, <2>2
<1>4. AwaitsTheLast'
  BY <1>1 DEF IInv, AwaitsTheLast
<1> QED BY <1>1, <1>3, <1>4, SchedulerStays

LEMMA ControlIs ==
  IInv => /\ control \in [mode : {"DAY", "NIGHT", "MANUAL"}, power : Int, ready : BOOLEAN, inbox : Seq(Calls)]
          /\ history \in [heard : BOOLEAN, ticked : BOOLEAN]
BY DEF IInv, OthersOK

LEMMA OthersInterfere ==
  IInv /\ (Lose \/ Interfere \/ Recover) => SchedulerOK' /\ AwaitsTheLast' /\ ChainInv'
<1> SUFFICES ASSUME IInv, Lose \/ Interfere \/ Recover
             PROVE  SchedulerOK' /\ AwaitsTheLast' /\ ChainInv'
  OBVIOUS
<1>1. UNCHANGED <<scheduler, now>> /\ history'.ticked = history.ticked
  BY ControlIs DEF Lose, Interfere, Recover
<1>2. /\ history'.heard =>
           history.heard /\ control'.mode = control.mode /\ control'.power = control.power
      /\ control'.inbox = control.inbox \/ control'.inbox = <<>>
  <2>1. CASE Lose
    BY <2>1, ControlIs DEF Lose
  <2>2. CASE Interfere
    <3>1. \/ control' = [control EXCEPT !.mode = "MANUAL", !.power = 0]
          \/ control' = [control EXCEPT !.power = 0, !.ready = FALSE]
          \/ control' = Fresh
      BY <2>2 DEF Interfere
    <3>2. control'.inbox = control.inbox \/ control'.inbox = <<>>
      <4>1. ASSUME control' = [control EXCEPT !.mode = "MANUAL", !.power = 0]
            PROVE  control'.inbox = control.inbox
        BY <4>1, ControlIs
      <4>2. ASSUME control' = [control EXCEPT !.power = 0, !.ready = FALSE]
            PROVE  control'.inbox = control.inbox
        BY <4>2, ControlIs
      <4>3. ASSUME control' = Fresh PROVE control'.inbox = <<>>
        BY <4>3 DEF Fresh
      <4> QED BY <3>1, <4>1, <4>2, <4>3
    <3>3. history'.heard = FALSE
      BY <2>2, ControlIs DEF Interfere
    <3> QED BY <3>2, <3>3
  <2>3. CASE Recover
    BY <2>3, ControlIs DEF Recover
  <2> QED BY <2>1, <2>2, <2>3
<1>3. AwaitsTheLast'
  BY <1>1, <1>2 DEF IInv, AwaitsTheLast
<1> QED BY <1>1, <1>2, <1>3, SchedulerStays

(* A command goes out: the queue ends in it. *)
LEMMA AskKeeps ==
  IInv /\ Ask => SchedulerOK' /\ AwaitsTheLast' /\ ChainInv'
<1> SUFFICES ASSUME IInv, Ask
             PROVE  SchedulerOK' /\ AwaitsTheLast' /\ ChainInv'
  OBVIOUS
<1> DEFINE s == scheduler
           t == [scheduler EXCEPT !.asked = TRUE]
<1>1. /\ s \in Schedulers /\ s.calls # <<>> /\ s.up /\ s.calls \in Seq(Calls)
      /\ RemembersItsPlan(s) /\ SendsItsPlan(s)
      /\ history.heard => DidWhatItSent(s, control)
      /\ history.ticked => PlansForNow(s)
  BY DEF Ask, IInv, SchedulerOK, ChainInv, Schedulers
<1>2. /\ scheduler' = t /\ now' = now /\ history' = history
      /\ control' = [control EXCEPT !.inbox = Append(control.inbox, Head(s.calls))]
  BY ControlIs DEF Ask
<1>3. /\ t \in Schedulers /\ t.up = s.up /\ t.subscribed = s.subscribed /\ t.config = s.config
      /\ t.last = s.last /\ t.last_day_night = s.last_day_night /\ t.owns = s.owns
      /\ t.calls = s.calls
  BY <1>1 DEF Schedulers
<1> HIDE DEF s, t
<1>4. Head(s.calls) \in Calls
  BY <1>1, TailKeepsTheLast
<1>5. /\ control'.mode = control.mode /\ control'.power = control.power
      /\ control'.inbox = Append(control.inbox, Head(s.calls))
  BY <1>2, ControlIs
<1>6. control'.inbox[Len(control'.inbox)] = Head(t.calls)
  <2> DEFINE x     == Head(s.calls)
             queue == Append(control.inbox, x)
  <2>1. control.inbox \in Seq(Calls)
    BY ControlIs
  <2>2. x \in Calls
    BY <1>4
  <2> HIDE DEF x
  <2>3. queue[Len(queue)] = x
    BY <2>1, <2>2, AppendIsTheLast
  <2> HIDE DEF queue
  <2>4. control'.inbox = queue
    BY <1>5 DEF queue, x
  <2> QED BY <1>3, <2>3, <2>4 DEF x
<1>7. SchedulerOK'
  BY <1>1, <1>2, <1>3 DEF SchedulerOK
<1>8. AwaitsTheLast'
  BY <1>2, <1>6 DEF AwaitsTheLast
<1>9. RemembersItsPlan(t) /\ SendsItsPlan(t)
  BY <1>1, <1>3 DEF RemembersItsPlan, SendsItsPlan
<1>10. /\ history.heard => DidWhatItSent(t, control')
       /\ history.ticked => PlansForNow(t)
  BY <1>1, <1>3, <1>5 DEF DidWhatItSent, PlansForNow
<1>11. ChainInv'
  BY <1>2, <1>9, <1>10 DEF ChainInv, PlansForNow
<1> QED BY <1>7, <1>8, <1>11

(* The wait ends without an answer: from now on nothing is known. *)
LEMMA TimeoutKeeps ==
  IInv /\ Timeout => SchedulerOK' /\ AwaitsTheLast' /\ ChainInv'
<1> SUFFICES ASSUME IInv, Timeout
             PROVE  SchedulerOK' /\ AwaitsTheLast' /\ ChainInv'
  OBVIOUS
<1> DEFINE t == Answered
<1>1. /\ t \in Schedulers /\ scheduler.up /\ t.up /\ ~t.asked
      /\ t.owns = scheduler.owns /\ t.last = scheduler.last /\ t.config = scheduler.config
      /\ t.last_day_night = scheduler.last_day_night
      /\ RemembersItsPlan(t) /\ SendsItsPlan(t)
  BY AnsweredFits DEF Timeout
<1>2. /\ scheduler' = t /\ now' = now
      /\ history'.heard = FALSE /\ history'.ticked = history.ticked
  BY ControlIs DEF Timeout
<1> HIDE DEF t
<1>3. history.ticked => PlansForNow(t)
  BY <1>1 DEF IInv, ChainInv, PlansForNow
<1>4. SchedulerOK' /\ AwaitsTheLast'
  BY <1>1, <1>2 DEF SchedulerOK, AwaitsTheLast
<1>5. ChainInv'
  BY <1>1, <1>2, <1>3 DEF ChainInv, PlansForNow
<1> QED BY <1>4, <1>5

(* A command is answered: to the scheduler, if it is what it awaits.        *)
LEMMA AnswerKeeps ==
  IInv /\ Answer => SchedulerOK' /\ AwaitsTheLast' /\ ChainInv'
<1> SUFFICES ASSUME IInv, Answer
             PROVE  SchedulerOK' /\ AwaitsTheLast' /\ ChainInv'
  OBVIOUS
<1> DEFINE call  == Head(control.inbox)
           after == IF Accepts(call) THEN Obeyed(call) ELSE control
<1>1. /\ control.inbox # <<>> /\ now' = now
      /\ control' = [after EXCEPT !.inbox = Tail(control.inbox)]
      /\ IF scheduler.asked /\ Len(control.inbox) = 1
         THEN scheduler' = Answered /\ history' = [history EXCEPT !.heard = history.heard /\ Accepts(call)]
         ELSE UNCHANGED scheduler /\ history' = [history EXCEPT !.heard = FALSE]
  <2>1. after.inbox = control.inbox
    BY ControlIs DEF Obeyed
  <2> QED BY <2>1, ControlIs DEF Answer
<1>2. control'.inbox = Tail(control.inbox) /\ control'.mode = after.mode /\ control'.power = after.power
  BY <1>1, ControlIs DEF Obeyed
<1>3. control.inbox \in Seq(Calls)
  BY ControlIs
<1> HIDE DEF call, after
<1>4. CASE scheduler.asked /\ Len(control.inbox) = 1
  <2> DEFINE s == scheduler
             t == Answered
  <2>1. /\ t \in Schedulers /\ s.up /\ t.up /\ ~t.asked
        /\ t.owns = s.owns /\ t.last = s.last /\ t.config = s.config
        /\ t.last_day_night = s.last_day_night /\ t.calls = Tail(s.calls)
        /\ RemembersItsPlan(t) /\ SendsItsPlan(t)
    BY <1>4, AnsweredFits
  <2>2. call = Head(s.calls) /\ s.calls # <<>> /\ SendsItsPlan(s)
    <3>1. control.inbox[1] = Head(control.inbox)
      BY <1>1, <1>3
    <3> QED BY <1>1, <1>4, <3>1 DEF IInv, SchedulerOK, AwaitsTheLast, ChainInv, call
  <2>3. /\ scheduler' = t /\ history'.ticked = history.ticked
        /\ history'.heard => history.heard /\ Accepts(call)
    BY <1>1, <1>4, ControlIs
  <2>4. /\ history.ticked => PlansForNow(s)
        /\ history.heard => DidWhatItSent(s, control)
    BY <2>1 DEF IInv, ChainInv
  <2> HIDE DEF s, t
  <2>5. history.ticked => PlansForNow(t)
    BY <2>1, <2>4 DEF PlansForNow
  <2>6. ASSUME history'.heard PROVE DidWhatItSent(t, control')
    <3>1. after = Obeyed(call) /\ DidWhatItSent(s, control)
      BY <2>3, <2>4, <2>6 DEF after
    <3>2. /\ call.action = "source_priority" => control'.mode = call.mode
          /\ call.action = "manual_setpoint" =>
               control'.mode = control.mode /\ control'.power = call.power
      BY <1>2, <3>1, ControlIs DEF Obeyed
    <3>3. CASE s.owns /\ s.calls = <<Setpoint(s.last.power)>>
      <4>1. call = Setpoint(s.last.power) /\ t.calls = <<>> /\ Len(s.calls) = 1
        BY <2>1, <2>2, <3>3, ShortSequences
      <4>2. control.mode = "MANUAL"
        BY <3>1, <3>3, <4>1 DEF DidWhatItSent
      <4>3. control'.mode = "MANUAL" /\ control'.power = t.last.power
        BY <2>1, <3>2, <4>1, <4>2 DEF Setpoint
      <4> QED BY <2>1, <3>3, <4>1, <4>3 DEF DidWhatItSent
    <3>4. CASE s.owns /\ s.calls = <<Priority("MANUAL"), Setpoint(s.last.power)>>
      <4>1. call = Priority("MANUAL") /\ t.calls = <<Setpoint(s.last.power)>> /\ t.calls # <<>>
        BY <2>1, <2>2, <3>4, ShortSequences
      <4>2. control'.mode = "MANUAL"
        BY <3>2, <4>1 DEF Priority
      <4> QED BY <2>1, <3>4, <4>1, <4>2 DEF DidWhatItSent
    <3>5. CASE ~s.owns /\ s.calls = <<Priority(s.last_day_night)>>
      <4>1. call = Priority(s.last_day_night)
        BY <2>2, <3>5, ShortSequences
      <4>2. control'.mode = t.last_day_night
        BY <2>1, <3>2, <4>1 DEF Priority
      <4> QED BY <2>1, <3>5, <4>2 DEF DidWhatItSent
    <3> QED BY <2>2, <3>3, <3>4, <3>5 DEF SendsItsPlan
  <2>7. SchedulerOK' /\ AwaitsTheLast'
    BY <2>1, <2>3 DEF SchedulerOK, AwaitsTheLast
  <2>8. ChainInv'
    BY <1>1, <2>1, <2>3, <2>5, <2>6 DEF ChainInv, PlansForNow
  <2> QED BY <2>7, <2>8
<1>5. CASE ~(scheduler.asked /\ Len(control.inbox) = 1)
  <2>1. UNCHANGED scheduler /\ history'.heard = FALSE /\ history'.ticked = history.ticked
    BY <1>1, <1>5, ControlIs
  <2>2. SchedulerOK' /\ ChainInv'
    BY <1>1, <2>1, SchedulerStays
  <2>3. Tail(control.inbox) # <<>> =>
          Tail(control.inbox)[Len(Tail(control.inbox))] = control.inbox[Len(control.inbox)]
    BY <1>1, <1>3, TailKeepsTheLast
  <2>4. AwaitsTheLast'
    BY <1>1, <1>2, <2>1, <2>3 DEF IInv, AwaitsTheLast
  <2> QED BY <2>2, <2>4
<1> QED BY <1>4, <1>5

(* A scheduler that dies leaves no list; one that starts has an empty one,  *)
(* and owes nothing.                                                        *)
LEMMA RestartKeeps ==
  IInv /\ (KillScheduler \/ StartScheduler \/ Subscribe)
    => SchedulerOK' /\ AwaitsTheLast' /\ ChainInv'
<1> SUFFICES ASSUME IInv, KillScheduler \/ StartScheduler \/ Subscribe
             PROVE  SchedulerOK' /\ AwaitsTheLast' /\ ChainInv'
  OBVIOUS
<1> DEFINE s == scheduler
<1>1. s \in Schedulers /\ RemembersItsPlan(s) /\ SendsItsPlan(s) /\ SchedulerOK
  BY DEF IInv, SchedulerOK, ChainInv
<1>2. CASE KillScheduler
  <2> DEFINE t == [s EXCEPT !.up = FALSE, !.subscribed = FALSE, !.calls = <<>>, !.asked = FALSE]
  <2>1. scheduler' = t
    BY <1>2 DEF KillScheduler
  <2>2. /\ t \in Schedulers /\ t.up = FALSE /\ t.subscribed = FALSE /\ t.calls = <<>>
        /\ t.asked = FALSE /\ t.owns = s.owns /\ t.last = s.last /\ t.config = s.config
    BY <1>1, ShortSequences DEF Schedulers
  <2> HIDE DEF s, t
  <2>3. RemembersItsPlan(t) /\ SendsItsPlan(t)
    BY <1>1, <2>2 DEF RemembersItsPlan, SendsItsPlan
  <2> QED BY <2>1, <2>2, <2>3 DEF SchedulerOK, AwaitsTheLast, ChainInv
<1>3. CASE StartScheduler
  <2> DEFINE t == Loaded(file)
  <2>1. scheduler' = t /\ history' = [heard |-> TRUE, ticked |-> FALSE] /\ file \in Configs
    BY <1>3 DEF StartScheduler, Passes, IInv, OthersOK
  <2>2. /\ t \in Schedulers /\ t.up = TRUE /\ t.calls = <<>> /\ t.asked = FALSE
        /\ t.owns = FALSE /\ t.last = None /\ t.last_day_night = "none" /\ t.subscribed = FALSE
    BY <2>1, ShortSequences DEF Loaded, Schedulers
  <2> HIDE DEF t
  <2>3. RemembersItsPlan(t) /\ SendsItsPlan(t) /\ DidWhatItSent(t, control')
    BY <2>2 DEF RemembersItsPlan, SendsItsPlan, DidWhatItSent
  <2> QED BY <2>1, <2>2, <2>3 DEF SchedulerOK, AwaitsTheLast, ChainInv
<1>4. CASE Subscribe
  <2> DEFINE t == [s EXCEPT !.subscribed = TRUE]
  <2>1. scheduler' = t /\ UNCHANGED <<now, control, history>> /\ s.up
    BY <1>4 DEF Subscribe
  <2>2. /\ t \in Schedulers /\ t.up = s.up /\ t.calls = s.calls /\ t.asked = s.asked
        /\ t.owns = s.owns /\ t.last = s.last /\ t.config = s.config
        /\ t.last_day_night = s.last_day_night
    BY <1>1 DEF Schedulers
  <2>3. /\ history.heard => DidWhatItSent(s, control)
        /\ history.ticked => PlansForNow(s)
    BY <2>1 DEF IInv, ChainInv
  <2> HIDE DEF t
  <2>4. /\ RemembersItsPlan(t) /\ SendsItsPlan(t)
        /\ history.heard => DidWhatItSent(t, control)
        /\ history.ticked => PlansForNow(t)
    BY <1>1, <2>2, <2>3 DEF RemembersItsPlan, SendsItsPlan, DidWhatItSent, PlansForNow
  <2>5. SchedulerOK'
    BY <1>1, <2>1, <2>2 DEF SchedulerOK
  <2>6. AwaitsTheLast'
    BY <2>1, <2>2 DEF IInv, AwaitsTheLast
  <2>7. ChainInv'
    BY <2>1, <2>4 DEF ChainInv, PlansForNow
  <2> QED BY <2>5, <2>6, <2>7
<1> QED BY <1>2, <1>3, <1>4

LEMMA ChainNext ==
  IInv /\ [Next]_vars => SchedulerOK' /\ AwaitsTheLast' /\ ChainInv'
BY IdleKeeps, OthersInterfere, TickKeeps, AskKeeps, TimeoutKeeps, RestartKeeps, AnswerKeeps, Zenon
   DEF Next, Scheduler, Control

(* A manager that watches runs, and one that runs has a configuration.      *)
LEMMA ManagerNext ==
  IInv /\ [Next]_vars => ManagerOK'
<1> SUFFICES ASSUME IInv, [Next]_vars PROVE ManagerOK'
  OBVIOUS
<1>1. /\ manager \in [up : BOOLEAN, watching : BOOLEAN, due : BOOLEAN, config : Configs \cup {Torn}]
      /\ manager.up = (manager.config # Torn)
      /\ (manager.watching => manager.up) /\ (manager.due => manager.watching)
      /\ file \in Configs \cup {Torn}
  BY DEF IInv, ManagerOK, OthersOK
<1>2. CASE UNCHANGED manager
  BY <1>1, <1>2 DEF ManagerOK
<1>3. CASE Closed
  BY <1>1, <1>3 DEF Closed, ManagerOK
<1>4. CASE Reload
  <2> DEFINE config == IF file = Torn THEN manager.config ELSE file
  <2>1. manager' = [manager EXCEPT !.due = FALSE, !.config = config] /\ manager.up
    BY <1>1, <1>4 DEF Reload
  <2>2. config \in Configs \cup {Torn} /\ config # Torn
    BY <1>1, <2>1
  <2> HIDE DEF config
  <2> QED BY <1>1, <2>1, <2>2 DEF ManagerOK
<1>5. CASE KillManager
  <2>1. manager' = [up |-> FALSE, watching |-> FALSE, due |-> FALSE, config |-> Torn]
    BY <1>5 DEF KillManager, Down
  <2> QED BY <2>1 DEF ManagerOK
<1>6. CASE StartManager
  <2>1. manager' = [up |-> TRUE, watching |-> FALSE, due |-> FALSE, config |-> file] /\ file # Torn
    BY <1>6 DEF StartManager, Down, Passes
  <2> QED BY <1>1, <2>1 DEF ManagerOK
<1>7. CASE Watch
  <2>1. manager' = [manager EXCEPT !.watching = TRUE] /\ manager.up
    BY <1>7 DEF Watch
  <2> QED BY <1>1, <2>1 DEF ManagerOK
<1>8. UNCHANGED manager \/ Closed \/ Reload \/ KillManager \/ StartManager \/ Watch
  BY DEF Next, vars, Clock, Files, BeginPut, EndPut, BreakPut, Edit, Manager, Scheduler, Tick, Ask,
         Timeout, KillScheduler, StartScheduler, Subscribe, Control, Answer, Lose, Interfere, Recover
<1> QED BY <1>2, <1>3, <1>4, <1>5, <1>6, <1>7, <1>8

(* What control_manager may be told leaves it in its types. *)
LEMMA ControlNext ==
  IInv /\ [Next]_vars =>
    /\ control' \in [mode : {"DAY", "NIGHT", "MANUAL"}, power : Int, ready : BOOLEAN, inbox : Seq(Calls)]
    /\ history' \in [heard : BOOLEAN, ticked : BOOLEAN]
<1> DEFINE Controls  == [mode : {"DAY", "NIGHT", "MANUAL"}, power : Int, ready : BOOLEAN, inbox : Seq(Calls)]
           Histories == [heard : BOOLEAN, ticked : BOOLEAN]
<1> SUFFICES ASSUME IInv, [Next]_vars PROVE control' \in Controls /\ history' \in Histories
  OBVIOUS
<1>1. control \in Controls /\ history \in Histories /\ control.inbox \in Seq(Calls)
  BY ControlIs
<1>2. scheduler \in Schedulers
  BY DEF IInv, SchedulerOK
<1>3. CASE Clock \/ Files \/ Manager \/ UNCHANGED vars
  <2>1. control' = control
    BY <1>3 DEF Clock, Files, BeginPut, EndPut, BreakPut, Edit, Manager, Reload, KillManager,
                StartManager, Watch, vars
  <2>2. history' = history \/ history' = [history EXCEPT !.ticked = FALSE]
    BY <1>3 DEF Clock, Files, BeginPut, EndPut, BreakPut, Edit, Manager, Reload, KillManager,
                StartManager, Watch, vars
  <2> QED BY <1>1, <2>1, <2>2
<1>4. CASE Tick
  <2>1. notice \in BOOLEAN
    BY DEF IInv, OthersOK
  <2> QED BY <1>1, <1>4, <2>1 DEF Tick, Passes
<1>5. CASE Ask
  <2>1. Head(scheduler.calls) \in Calls
    BY <1>2, <1>5, TailKeepsTheLast DEF Ask, Schedulers
  <2>2. Append(control.inbox, Head(scheduler.calls)) \in Seq(Calls)
    BY <1>1, <2>1, AppendIsTheLast
  <2> DEFINE inbox == Append(control.inbox, Head(scheduler.calls))
  <2>3. control' = [control EXCEPT !.inbox = inbox] /\ history' = history
    BY <1>1, <1>5 DEF Ask
  <2> HIDE DEF inbox
  <2> QED BY <1>1, <2>2, <2>3 DEF inbox
<1>6. CASE Timeout \/ KillScheduler \/ StartScheduler \/ Subscribe
  <2>1. control' = control
    BY <1>6 DEF Timeout, KillScheduler, StartScheduler, Subscribe
  <2>2. \/ history' = history
        \/ history' = [history EXCEPT !.heard = FALSE]
        \/ history' = [heard |-> TRUE, ticked |-> FALSE]
    BY <1>6 DEF Timeout, KillScheduler, StartScheduler, Subscribe
  <2>3. [history EXCEPT !.heard = FALSE] \in Histories
    BY <1>1
  <2>4. [heard |-> TRUE, ticked |-> FALSE] \in Histories
    OBVIOUS
  <2>5. history' \in Histories
    BY <1>1, <2>2, <2>3, <2>4
  <2> QED BY <1>1, <2>1, <2>5
<1>7. CASE Answer
  <2> DEFINE call  == Head(control.inbox)
             after == IF Accepts(call) THEN Obeyed(call) ELSE control
             rest  == Tail(control.inbox)
  <2>1. call \in Calls /\ rest \in Seq(Calls)
    BY <1>1, <1>7, TailKeepsTheLast DEF Answer
  <2>2. /\ control' = [after EXCEPT !.inbox = Tail(after.inbox)]
        /\ \/ history' = [history EXCEPT !.heard = history.heard /\ Accepts(call)]
           \/ history' = [history EXCEPT !.heard = FALSE]
    BY <1>1, <1>7 DEF Answer
  <2> HIDE DEF call
  <2>3. after \in Controls /\ after.inbox = control.inbox
    BY <1>1, <2>1 DEF Obeyed, Calls
  <2> HIDE DEF after
  <2>4. control' = [after EXCEPT !.inbox = rest]
    BY <2>2, <2>3
  <2>5. Accepts(call) \in BOOLEAN
    BY DEF Accepts
  <2> HIDE DEF rest
  <2>6. history' \in Histories
    BY <1>1, <2>2, <2>5
  <2> QED BY <2>1, <2>3, <2>4, <2>6
<1>8. CASE Lose \/ Recover
  BY <1>1, <1>8, ShortSequences DEF Lose, Recover
<1>9. CASE Interfere
  <2>1. history' \in Histories
    BY <1>1, <1>9 DEF Interfere
  <2>2. \/ control' = [control EXCEPT !.mode = "MANUAL", !.power = 0]
        \/ control' = [control EXCEPT !.power = 0, !.ready = FALSE]
        \/ control' = Fresh
    BY <1>9 DEF Interfere
  <2>3. ASSUME control' = [control EXCEPT !.mode = "MANUAL", !.power = 0]
        PROVE  control' \in Controls
    <3> DEFINE c == [control EXCEPT !.mode = "MANUAL"]
    <3>1. c \in Controls
      BY <1>1
    <3>2. control' = [c EXCEPT !.power = 0]
      BY <1>1, <2>3
    <3> HIDE DEF c
    <3> QED BY <3>1, <3>2
  <2>4. ASSUME control' = [control EXCEPT !.power = 0, !.ready = FALSE]
        PROVE  control' \in Controls
    <3> DEFINE c == [control EXCEPT !.power = 0]
    <3>1. c \in Controls
      BY <1>1
    <3>2. control' = [c EXCEPT !.ready = FALSE]
      BY <1>1, <2>4
    <3> HIDE DEF c
    <3> QED BY <3>1, <3>2
  <2>5. Fresh \in Controls
    BY ShortSequences DEF Fresh
  <2> QED BY <2>1, <2>2, <2>3, <2>4, <2>5
<1> QED BY <1>3, <1>4, <1>5, <1>6, <1>7, <1>8, <1>9 DEF Next, Scheduler, Control

LEMMA OthersNext ==
  IInv /\ [Next]_vars => OthersOK'
<1> SUFFICES ASSUME IInv, [Next]_vars PROVE OthersOK'
  OBVIOUS
<1>1. /\ now \in Minutes /\ file \in Configs \cup {Torn} /\ writing \in Configs \cup {Torn}
      /\ notice \in BOOLEAN /\ writes \in 0 .. MaxWrites /\ mishaps \in 0 .. MaxMishaps
  BY DEF IInv, OthersOK
<1>2. now' \in Minutes
  <2>1. CASE Clock
    <3>1. now + 1 \in Int /\ 0 <= now + 1 /\ now + 1 <= Day /\ now \in 0 .. Day - 1
      BY <1>1, DayIsNat
    <3>2. (now + 1) % Day \in 0 .. Day - 1
      BY <3>1, DayIsNat
    <3> QED BY <2>1, <3>2, DayIsNat DEF Clock
  <2>2. CASE UNCHANGED now
    BY <1>1, <2>2
  <2>3. Clock \/ UNCHANGED now
    BY DEF Next, vars, Files, BeginPut, EndPut, BreakPut, Edit, Manager, Reload, KillManager,
           StartManager, Watch, Scheduler, Tick, Ask, Timeout, KillScheduler, StartScheduler,
           Subscribe, Control, Answer, Lose, Interfere, Recover
  <2> QED BY <2>1, <2>2, <2>3
<1>3. file' \in Configs \cup {Torn} /\ writing' \in Configs \cup {Torn}
  BY <1>1 DEF Next, vars, Clock, Files, BeginPut, EndPut, BreakPut, Edit, Manager, Reload,
     KillManager, StartManager, Watch, Scheduler, Tick, Ask, Timeout, KillScheduler,
     StartScheduler, Subscribe, Control, Answer, Lose, Interfere, Recover
<1>4. notice' \in BOOLEAN
  <2>1. CASE Reload
    BY <2>1 DEF Reload
  <2>2. CASE notice' = notice \/ notice' = FALSE
    BY <1>1, <2>2
  <2>3. Reload \/ notice' = notice \/ notice' = FALSE
    BY DEF Next, vars, Clock, Files, BeginPut, EndPut, BreakPut, Edit, Manager,
       KillManager, StartManager, Watch, Scheduler, Tick, Ask, Timeout, KillScheduler,
       StartScheduler, Subscribe, Control, Answer, Lose, Interfere, Recover
  <2> QED BY <2>1, <2>2, <2>3
<1>5. MaxWrites \in Nat /\ MaxMishaps \in Nat
  BY ScheduleAssumption
<1>6. writes' = writes \/ (writes < MaxWrites /\ writes' = writes + 1)
  BY DEF Next, vars, Clock, Files, BeginPut, EndPut, BreakPut, Edit, Manager, Reload,
     KillManager, StartManager, Watch, Scheduler, Tick, Ask, Timeout, KillScheduler,
     StartScheduler, Subscribe, Control, Answer, Lose, Interfere, Recover
<1>7. mishaps' = mishaps \/ Mishap
  BY DEF Next, vars, Clock, Files, BeginPut, EndPut, BreakPut, Edit, Manager, Reload,
     KillManager, StartManager, Watch, Scheduler, Tick, Ask, Timeout, KillScheduler,
     StartScheduler, Subscribe, Control, Answer, Lose, Interfere, Recover
<1>8. writes' \in 0 .. MaxWrites /\ mishaps' \in 0 .. MaxMishaps
  BY <1>1, <1>5, <1>6, <1>7 DEF Mishap
<1> QED BY <1>2, <1>3, <1>4, <1>8, ControlNext DEF OthersOK

LEMMA InitInv == Init => IInv
<1> SUFFICES ASSUME Init PROVE IInv
  OBVIOUS
<1>1. /\ now \in Minutes /\ file \in Configs /\ writing = Torn /\ notice = FALSE
      /\ manager = [up |-> TRUE, watching |-> TRUE, due |-> FALSE, config |-> file]
      /\ scheduler = [up |-> TRUE, subscribed |-> TRUE, config |-> file, last |-> None,
                      last_day_night |-> "none", owns |-> FALSE, calls |-> <<>>, asked |-> FALSE]
      /\ control = Fresh /\ history = [heard |-> TRUE, ticked |-> FALSE]
      /\ writes = 0 /\ mishaps = 0
  BY DEF Init, Down, Loaded
<1>2. Torn \notin Configs /\ MaxWrites \in Nat /\ MaxMishaps \in Nat
  BY ScheduleAssumption
<1>3. ManagerOK
  BY <1>1, <1>2 DEF ManagerOK
<1>4. SchedulerOK /\ scheduler.asked = FALSE
  BY <1>1, ShortSequences DEF SchedulerOK, Schedulers
<1>5. OthersOK
  <2>1. /\ control = [mode |-> "DAY", power |-> 0, ready |-> TRUE, inbox |-> <<>>]
        /\ <<>> \in Seq(Calls)
    BY <1>1, ShortSequences DEF Fresh
  <2>2. control \in [mode : {"DAY", "NIGHT", "MANUAL"}, power : Int, ready : BOOLEAN, inbox : Seq(Calls)]
    BY <2>1
  <2>3. history \in [heard : BOOLEAN, ticked : BOOLEAN]
    BY <1>1
  <2>4. writes \in 0 .. MaxWrites /\ mishaps \in 0 .. MaxMishaps
    BY <1>1, <1>2
  <2> QED BY <1>1, <2>2, <2>3, <2>4 DEF OthersOK
<1>6. AwaitsTheLast
  BY <1>4 DEF AwaitsTheLast
<1>7. ChainInv
  BY <1>1 DEF ChainInv, RemembersItsPlan, SendsItsPlan, DidWhatItSent
<1> QED BY <1>3, <1>4, <1>5, <1>6, <1>7 DEF IInv

(* The invariant holds, and no step breaks it. *)
THEOREM InvHolds == Spec => []IInv
<1>1. IInv /\ [Next]_vars => IInv'
  BY ChainNext, ManagerNext, OthersNext, Zenon DEF IInv
<1> QED BY <1>1, InitInv, PTL DEF Spec
-----------------------------------------------------------------------------
(***************************************************************************)
(* The properties.                                                         *)
(***************************************************************************)

(* Every variable stays in its domain, and only a running scheduler that    *)
(* has a command to send waits for an answer.                               *)
THEOREM TypeCorrect == Spec => []TypeOK
<1>1. IInv => TypeOK
  BY DEF IInv, TypeOK, ManagerOK, SchedulerOK, OthersOK, Schedulers
<1> QED BY <1>1, InvHolds, PTL

(* The window the evaluator finds is the first that is on, counting from    *)
(* its start over midnight, in every minute of a day of any length and for  *)
(* any windows (evaluator.py evaluate_time_of_day()).                       *)
THEOREM FirstWindowIsFound == Spec => []FirstWindowThatIsOn
<1>1. IInv => FirstWindowThatIsOn
  BY FirstIsOn DEF IInv, OthersOK, SchedulerOK, Schedulers
<1> QED BY <1>1, InvHolds, PTL

(* While every command arrives and is accepted, control_manager has what    *)
(* the schedule asks for this minute, over any reloads and changes of mode, *)
(* although the scheduler sends only changes (loop.py _evaluate_tick()).    *)
THEOREM ScheduleHolds == Spec => []ScheduleIsObeyed
<1>1. IInv => ScheduleIsObeyed
  <2> SUFFICES ASSUME IInv, Quiet
               PROVE  IF scheduler.config.mode = "manual"
                      THEN control.mode = DayOrNight(now, scheduler.config)
                      ELSE control.mode = "MANUAL" /\ control.power = Plan(now, scheduler.config).power
    BY DEF ScheduleIsObeyed
  <2>1. /\ DidWhatItSent(scheduler, control) /\ PlansForNow(scheduler)
        /\ RemembersItsPlan(scheduler) /\ scheduler.calls = <<>>
    BY DEF IInv, ChainInv, Quiet
  <2>2. Len(scheduler.calls) < 2
    BY <2>1, ShortSequences
  <2>3. CASE scheduler.config.mode = "manual"
    <3>1. ~scheduler.owns
      BY <2>1, <2>3 DEF RemembersItsPlan
    <3>2. scheduler.last_day_night = DayOrNight(now, scheduler.config)
      BY <2>1 DEF PlansForNow
    <3>3. scheduler.last_day_night # "none"
      BY <3>2, DayOrNightIs
    <3> QED BY <2>1, <2>3, <3>1, <3>2, <3>3 DEF DidWhatItSent
  <2>4. CASE scheduler.config.mode # "manual"
    BY <2>1, <2>2, <2>4 DEF DidWhatItSent, PlansForNow
  <2> QED BY <2>3, <2>4
<1> QED BY <1>1, InvHolds, PTL
=============================================================================
