-------------------------- MODULE AlarmTimesProofs --------------------------
(***************************************************************************)
(* The arithmetic of AlarmTimes, for every length of day and of week: an    *)
(* alarm is due at the first of its minutes after the present one.          *)
(***************************************************************************)
EXTENDS AlarmTimes, WellFoundedInduction, TLAPS

(* A non-empty set of naturals has a smallest element, and Least returns it.*)
LEMMA LeastIsMember ==
  ASSUME NEW S \in SUBSET Nat, S # {}
  PROVE  Least(S) \in S /\ \A y \in S : Least(S) <= y
<1> DEFINE Less == {p \in Nat \X Nat : p[1] < p[2]}
<1>1. IsWellFoundedOn(Less, Nat)
  BY NatLessThanWellFounded DEF OpToRel
<1>2. PICK x \in S : \A y \in S : <<y, x>> \notin Less
  BY <1>1, WFMin
<1>3. ASSUME NEW y \in S
      PROVE  x <= y
  <2>1. x \in Nat /\ y \in Nat
    OBVIOUS
  <2>2. ~ (y < x)
    BY <1>2, <2>1
  <2>3. QED
    BY <2>1, <2>2
<1>4. QED
  BY <1>3 DEF Least

(* The next weekday is a day number, whatever bits the mode holds.          *)
LEMMA WeekDayType ==
  ASSUME NEW d \in Nat
  PROVE  WeekDay(d) \in 1..WeekLen
BY TimeAssumption DEF WeekDay

LEMMA NextWeekDayType ==
  ASSUME NEW d \in Nat, NEW mode \in SUBSET AllBits, mode # ONCE, mode # EVERY_DAY
  PROVE  NextWeekDay(d, mode) \in Nat /\ d <= NextWeekDay(d, mode)
<1> DEFINE wd == WeekDay(d)
           bits == mode \ {0}
           rest == {b \in bits : b >= wd}
           pick == IF rest # {} THEN Least(rest) ELSE Least(bits)
<1>1. bits \in SUBSET (1..WeekLen) /\ bits # {}
  BY DEF AllBits, ONCE, EVERY_DAY
<1>2. wd \in 1..WeekLen
  BY WeekDayType
<1>3. pick \in 1..WeekLen
  <2>1. CASE rest # {}
    BY <2>1, <1>1, LeastIsMember
  <2>2. CASE rest = {}
    BY <2>2, <1>1, LeastIsMember
  <2>3. QED
    BY <2>1, <2>2
<1>4. NextWeekDay(d, mode) =
        IF pick >= wd THEN d + (pick - wd) ELSE d + (WeekLen - (wd - pick))
  BY DEF NextWeekDay
<1> HIDE DEF pick, wd
<1>5. QED
  BY <1>2, <1>3, <1>4, TimeAssumption

(* The computed time is a time, and it is after the current minute.         *)
LEMMA NextTimeAhead ==
  ASSUME NEW e, e.mode \in SUBSET AllBits, e.tod \in Minutes, NEW t \in Times
  PROVE  NextTime(e, t) \in Times /\ Before(t, NextTime(e, t))
<1> DEFINE d == FirstDay(e.tod, t)
           n == IF e.mode \in {ONCE, EVERY_DAY} THEN d ELSE NextWeekDay(d, e.mode)
<1>1. t.day \in Nat /\ t.min \in Nat /\ e.tod \in Minutes /\ e.mode \in SUBSET AllBits
  BY DEF Times, Minutes
<1>2. e.tod \in Nat
  BY <1>1 DEF Minutes
<1>3. d \in Nat /\ t.day <= d /\ (t.day < d \/ t.min < e.tod)
  BY <1>1, <1>2 DEF FirstDay
<1>4. n \in Nat /\ d <= n
  <2>1. CASE e.mode \in {ONCE, EVERY_DAY}
    BY <2>1, <1>3
  <2>2. CASE e.mode \notin {ONCE, EVERY_DAY}
    BY <2>2, <1>1, <1>3, NextWeekDayType
  <2>3. QED
    BY <2>1, <2>2
<1>5. NextTime(e, t) = [day |-> n, min |-> e.tod]
  BY DEF NextTime
<1> HIDE DEF d, n
<1>6. QED
  BY <1>1, <1>2, <1>3, <1>4, <1>5 DEF Times, Before

LEMMA NextMinType ==
  ASSUME NEW t \in Times
  PROVE  NextMin(t) \in Times /\ Before(t, NextMin(t))
<1>1. t.day \in Nat /\ t.min \in Nat /\ t.min < DayLen
  BY TimeAssumption DEF Times, Minutes
<1>2. QED
  BY <1>1, TimeAssumption DEF NextMin, Times, Minutes, Before

(* No time is between a minute and the next one.                            *)
LEMMA NextMinIsNext ==
  ASSUME NEW s \in Times, NEW t \in Times, Before(s, t), t # NextMin(s)
  PROVE  Before(NextMin(s), t)
<1>1. /\ s.day \in Nat /\ s.min \in Nat /\ s.min < DayLen
      /\ t.day \in Nat /\ t.min \in Nat /\ t.min < DayLen
      /\ s = [day |-> s.day, min |-> s.min] /\ t = [day |-> t.day, min |-> t.min]
  BY TimeAssumption DEF Times, Minutes
<1>2. CASE s.min + 1 < DayLen
  BY <1>1, <1>2, TimeAssumption DEF NextMin, Before
<1>3. CASE ~ (s.min + 1 < DayLen)
  BY <1>1, <1>3, TimeAssumption DEF NextMin, Before
<1>4. QED
  BY <1>2, <1>3

-----------------------------------------------------------------------------
(* That the times the engine computes are the right ones: the first minute  *)
(* after the present one with the alarm's time of day, on a day its mode    *)
(* allows, for every length of day and week.                                *)

(* The minutes at which an alarm is to ring.                                *)
IsDue(e, u) == u.min = e.tod /\ OnDay(e.mode, u.day)

-----------------------------------------------------------------------------
(* Weekdays go round.                                                       *)
LEMMA Remainder ==
  ASSUME NEW q \in Nat, NEW r \in Nat, NEW n \in Nat, n > 0, r < n
  PROVE  (n * q + r) % n = r
  BY Z3

LEMMA Quotient ==
  ASSUME NEW d \in Nat, NEW n \in Nat, n > 0
  PROVE  \E q \in Nat : d = n * q + (d % n) /\ d % n \in Nat /\ d % n < n
<1>1. d = n * (d \div n) + (d % n)
  BY Z3
<1>2. d \div n \in Nat /\ d % n \in Nat /\ d % n < n
  BY Z3
<1> QED BY <1>1, <1>2

LEMMA WeekDayShift ==
  ASSUME NEW d \in Nat, NEW k \in Nat, k < WeekLen
  PROVE  WeekDay(d + k) = IF WeekDay(d) + k <= WeekLen THEN WeekDay(d) + k
                                                      ELSE WeekDay(d) + k - WeekLen
<1>1. WeekLen \in Nat /\ WeekLen > 0
  BY TimeAssumption
<1>2. PICK q \in Nat : d = WeekLen * q + (d % WeekLen)
           /\ d % WeekLen \in Nat /\ d % WeekLen < WeekLen
  BY <1>1, Quotient
<1> DEFINE r == d % WeekLen
<1>3. WeekLen * q \in Nat /\ WeekLen * (q + 1) = WeekLen * q + WeekLen
  BY <1>1
<1>4. CASE r + k < WeekLen
  <2>1. d + k = WeekLen * q + (r + k)
    BY <1>1, <1>2, <1>3
  <2>2. (d + k) % WeekLen = r + k
    BY <1>1, <1>2, <1>4, <2>1, Remainder
  <2> QED BY <1>1, <1>2, <1>4, <2>2 DEF WeekDay
<1>5. CASE r + k >= WeekLen
  <2>1. r + k - WeekLen \in Nat /\ r + k - WeekLen < WeekLen
    BY <1>1, <1>2, <1>5
  <2>2. d + k = WeekLen * (q + 1) + (r + k - WeekLen)
    BY <1>1, <1>2, <1>3
  <2>3. (WeekLen * (q + 1) + (r + k - WeekLen)) % WeekLen = r + k - WeekLen
    <3> DEFINE v == r + k - WeekLen
    <3>1. v \in Nat /\ v < WeekLen /\ q + 1 \in Nat
      BY <1>1, <1>2, <2>1
    <3> HIDE DEF v
    <3>2. (WeekLen * (q + 1) + v) % WeekLen = v
      BY <1>1, <3>1, Remainder
    <3> QED BY <3>2 DEF v
  <2>4. (d + k) % WeekLen = r + k - WeekLen
    BY <2>2, <2>3
  <2> QED BY <1>1, <1>2, <1>5, <2>4 DEF WeekDay
<1> QED BY <1>1, <1>2, <1>4, <1>5

-----------------------------------------------------------------------------
(* The day picked is one of the mode's, and none from d on is before it.    *)
LEMMA FirstWeekDay ==
  ASSUME NEW d \in Nat, NEW mode \in SUBSET AllBits, mode # ONCE, mode # EVERY_DAY
  PROVE  LET n == NextWeekDay(d, mode)
         IN  /\ n \in Nat /\ d <= n /\ WeekDay(n) \in mode
             /\ \A u \in Nat : d <= u /\ u < n => WeekDay(u) \notin mode
<1> DEFINE n == NextWeekDay(d, mode)
           wd == WeekDay(d)
           bits == mode \ {0}
           rest == {b \in bits : b >= wd}
           pick == IF rest # {} THEN Least(rest) ELSE Least(bits)
<1>1. bits \in SUBSET (1..WeekLen) /\ bits # {} /\ WeekLen \in Nat
  BY TimeAssumption DEF AllBits, ONCE, EVERY_DAY
<1>2. wd \in 1..WeekLen
  BY WeekDayType
<1>3. /\ pick \in bits /\ pick \in 1..WeekLen
      /\ \A b \in bits : (b >= wd => pick >= wd /\ pick <= b)
                         /\ (pick < wd => b < wd /\ pick <= b)
  <2>1. CASE rest # {}
    <3>1. pick \in rest /\ \A b \in rest : pick <= b
      BY <1>1, <2>1, LeastIsMember
    <3> HIDE DEF pick
    <3> QED BY <1>1, <1>2, <3>1
  <2>2. CASE rest = {}
    <3>1. pick \in bits /\ \A b \in bits : pick <= b
      BY <1>1, <2>2, LeastIsMember
    <3> HIDE DEF pick
    <3> QED BY <1>1, <1>2, <2>2, <3>1
  <2> QED BY <2>1, <2>2
<1>4. n = IF pick >= wd THEN d + (pick - wd) ELSE d + (WeekLen - (wd - pick))
  BY DEF NextWeekDay
<1>5. \A u \in Nat : WeekDay(u) \in mode => WeekDay(u) \in bits
  BY WeekDayType, <1>1
<1>6. \A k \in Nat : k < WeekLen =>
        WeekDay(d + k) = IF wd + k <= WeekLen THEN wd + k ELSE wd + k - WeekLen
  BY WeekDayShift
<1> HIDE DEF pick, wd, n
<1>7. PICK k \in Nat : n = d + k /\ k < WeekLen
        /\ k = IF pick >= wd THEN pick - wd ELSE WeekLen - (wd - pick)
  BY <1>1, <1>2, <1>3, <1>4
<1>8. WeekDay(n) = pick
  <2>1. WeekDay(n) = IF wd + k <= WeekLen THEN wd + k ELSE wd + k - WeekLen
    BY <1>6, <1>7
  <2>2. k \in Nat /\ k = IF pick >= wd THEN pick - wd ELSE WeekLen - (wd - pick)
    BY <1>7
  <2> QED BY <1>1, <1>2, <1>3, <2>1, <2>2
<1>9. ASSUME NEW u \in Nat, d <= u, u < n, WeekDay(u) \in bits PROVE FALSE
  <2>1. PICK j \in Nat : u = d + j /\ j < k
    <3>1. u - d \in Nat /\ u = d + (u - d) /\ u - d < k
      BY <1>7, <1>9
    <3> QED BY <3>1
  <2>2. WeekDay(u) = IF wd + j <= WeekLen THEN wd + j ELSE wd + j - WeekLen
    BY <1>1, <1>6, <1>7, <2>1
  <2> QED BY <1>1, <1>2, <1>3, <1>7, <1>9, <2>1, <2>2
<1> QED BY <1>3, <1>5, <1>7, <1>8, <1>9 DEF n

-----------------------------------------------------------------------------
(* The computed time is the alarm's first minute after the present one      *)
(* (alarm_calc_real_time and __alarm_calc_time_by_week_mode).               *)
THEOREM FirstDue ==
  ASSUME NEW e, e.mode \in SUBSET AllBits, e.tod \in Minutes, NEW t \in Times
  PROVE  /\ IsDue(e, NextTime(e, t)) /\ Before(t, NextTime(e, t))
         /\ \A u \in Times : IsDue(e, u) /\ Before(t, u) => ~ Before(u, NextTime(e, t))
<1> DEFINE d == FirstDay(e.tod, t)
           n == IF e.mode \in {ONCE, EVERY_DAY} THEN d ELSE NextWeekDay(d, e.mode)
<1>1. t.day \in Nat /\ t.min \in Nat /\ e.tod \in Nat /\ e.mode \in SUBSET AllBits
  BY DEF Times, Minutes
<1>2. d \in Nat
  BY <1>1 DEF FirstDay
<1>3. /\ n \in Nat /\ d <= n /\ OnDay(e.mode, n)
      /\ \A u \in Nat : d <= u /\ u < n => ~ OnDay(e.mode, u)
  <2>1. CASE e.mode \in {ONCE, EVERY_DAY}
    BY <1>2, <2>1 DEF OnDay
  <2>2. CASE e.mode \notin {ONCE, EVERY_DAY}
    BY <1>1, <1>2, <2>2, FirstWeekDay DEF OnDay
  <2> QED BY <2>1, <2>2
<1>4. NextTime(e, t) = [day |-> n, min |-> e.tod]
  BY DEF NextTime
<1>5. \A u \in Times : u.min = e.tod /\ Before(t, u) => d <= u.day
  BY <1>1 DEF FirstDay, Before, Times
<1> HIDE DEF d, n
<1>6. \A u \in Times : u.day \in Nat /\ u.min \in Nat
  BY DEF Times, Minutes
<1>7. ASSUME NEW u \in Times, IsDue(e, u), Before(t, u), Before(u, NextTime(e, t))
      PROVE  FALSE
  <2>1. u.min = e.tod /\ u.day < n
    BY <1>1, <1>4, <1>6, <1>7 DEF IsDue, Before
  <2>2. d <= u.day
    BY <1>5, <1>7, <2>1
  <2> QED BY <1>3, <1>6, <1>7, <2>1, <2>2 DEF IsDue
<1> QED BY <1>3, <1>4, <1>7, NextTimeAhead DEF IsDue

=============================================================================
