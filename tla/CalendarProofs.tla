--------------------------- MODULE CalendarProofs ---------------------------
(***************************************************************************)
(* The calendar functions count days as AlarmTimes does, for every range    *)
(* of years and every set of minutes and modes; those that ask for the      *)
(* weekday do so in the years 2020 to 2099; from 2000 to 2019 Zeller's      *)
(* formula, computed without sign, is right or four days ahead.  The        *)
(* phone's clock is right in all the years a u32 of seconds reaches.        *)
(***************************************************************************)
EXTENDS PhoneClock, AlarmTimesProofs, TLAPS

IsDate(d) ==
  /\ d = Date(d.year, d.month, d.day)
  /\ d.year \in Nat /\ d.month \in 1..12 /\ d.day \in 1..MonthLen(d.year, d.month)

-----------------------------------------------------------------------------
(* The numbers of days.                                                     *)

LEMMA MonthLens ==
  ASSUME NEW y \in Nat, NEW m \in 1..12
  PROVE  MonthLen(y, m) \in 28..31
BY DEF MonthLen

(* A month is followed by the next one, and December by January.            *)
LEMMA NextMonthBegins ==
  ASSUME NEW y \in Nat, NEW m \in 1..12, m < 12
  PROVE  DaysBefore(y, m) + MonthLen(y, m) = DaysBefore(y, m + 1)
<1>1. CASE Leap(y)
  BY <1>1 DEF DaysBefore, MonthLen
<1>2. CASE ~ Leap(y)
  BY <1>2 DEF DaysBefore, MonthLen
<1> QED BY <1>1, <1>2

LEMMA DayOfQuotient ==
  ASSUME NEW y \in Nat, NEW k \in Nat, k > 0
  PROVE  y \div k - (y - 1) \div k = IF y % k = 0 THEN 1 ELSE 0
<1>1. y = k * (y \div k) + (y % k) /\ y % k \in 0..(k - 1) /\ y \div k \in Int
  BY Z3
<1>2. /\ y - 1 = k * ((y - 1) \div k) + ((y - 1) % k)
      /\ (y - 1) % k \in 0..(k - 1) /\ (y - 1) \div k \in Int
  BY Z3
<1> QED BY <1>1, <1>2, Z3

LEMMA NextYearBegins ==
  ASSUME NEW y \in Nat
  PROVE  LeapsBefore(y + 1) - LeapsBefore(y) = IF Leap(y) THEN 1 ELSE 0
<1>1. /\ y \div 4 - (y - 1) \div 4 = IF y % 4 = 0 THEN 1 ELSE 0
      /\ y \div 100 - (y - 1) \div 100 = IF y % 100 = 0 THEN 1 ELSE 0
      /\ y \div 400 - (y - 1) \div 400 = IF y % 400 = 0 THEN 1 ELSE 0
  BY Z3
<1>2. y % 400 = 0 => y % 100 = 0
  BY Z3
<1>3. y % 100 = 0 => y % 4 = 0
  BY Z3
<1>4. y + 1 - 1 = y
  OBVIOUS
<1> QED BY <1>1, <1>2, <1>3, <1>4, Z3 DEF LeapsBefore, Leap

(* rtc_calculate_next_few_day: the date so many days later, over the end of *)
(* a month and of a year; also for the step of the clock to the next day.   *)
LEMMA FewDaysLater ==
  ASSUME NEW d, IsDate(d), NEW n \in 0..28
  PROVE  LET later == rtc_calculate_next_few_day(d, n)
         IN  /\ IsDate(later) /\ DayNumber(later) = DayNumber(d) + n
             /\ later.year \in {d.year, d.year + 1}
             /\ later.year # d.year => later.month = 1
<1> DEFINE y == d.year  m == d.month  day0 == d.day  len == MonthLen(y, m)
           later == rtc_calculate_next_few_day(d, n)
           Good == /\ IsDate(later) /\ DayNumber(later) = DayNumber(d) + n
                   /\ later.year \in {y, y + 1} /\ (later.year # y => later.month = 1)
<1>1. y \in Nat /\ m \in 1..12 /\ len \in 28..31
  BY MonthLens DEF IsDate
<1>2. day0 \in Nat /\ day0 >= 1 /\ day0 <= len /\ d = Date(y, m, day0)
  BY <1>1 DEF IsDate
<1>3. LeapsBefore(y) \in Int /\ LeapsBefore(y + 1) \in Int /\ LeapsBefore(1900) \in Int
  BY <1>1 DEF LeapsBefore
<1>4. \A k \in 1..12 : DaysBefore(y, k) \in Nat
  BY DEF DaysBefore
<1>5. \A a, b, c : /\ Date(a, b, c).year = a /\ Date(a, b, c).month = b
                   /\ Date(a, b, c).day = c
  BY DEF Date
<1>6. ASSUME NEW a \in Nat, NEW b \in 1..12, NEW c \in 1..MonthLen(a, b)
      PROVE  IsDate(Date(a, b, c))
  BY <1>5 DEF IsDate
<1>7. \A a, b, c : DayNumber(Date(a, b, c)) =
        365 * (a - 1900) + LeapsBefore(a) - LeapsBefore(1900) + DaysBefore(a, b) + c - 1
  BY <1>5 DEF DayNumber
<1>8. /\ n = 0 => later = d
      /\ n # 0 /\ day0 + n <= len => later = Date(y, m, day0 + n)
      /\ n # 0 /\ day0 + n > len /\ m < 12 => later = Date(y, m + 1, (day0 + n) - len)
      /\ n # 0 /\ day0 + n > len /\ m = 12 => later = Date(y + 1, 1, (day0 + n) - len)
  <2>1. [d EXCEPT !.day = day0 + n] = Date(y, m, day0 + n)
    <3>1. \A a, b, c, e : [Date(a, b, c) EXCEPT !.day = e] = Date(a, b, e)
      BY DEF Date
    <3> HIDE DEF y, m, day0
    <3> QED BY <1>2, <3>1
  <2>2. later = IF n = 0 \/ n >= 29 THEN d
                ELSE IF day0 + n <= len THEN [d EXCEPT !.day = day0 + n]
                ELSE IF m < 12 THEN Date(y, m + 1, (day0 + n) - len)
                               ELSE Date(y + 1, 1, (day0 + n) - len)
    BY DEF rtc_calculate_next_few_day
  <2> HIDE DEF later, y, m, day0, len
  <2>3. ~ (n >= 29) /\ (day0 + n > len <=> ~ (day0 + n <= len))
    BY <1>1, <1>2
  <2>4. m = 12 <=> ~ (m < 12)
    BY <1>1
  <2> QED BY <2>1, <2>2, <2>3, <2>4
<1>9. DayNumber(d) = 365 * (y - 1900) + LeapsBefore(y) - LeapsBefore(1900)
                      + DaysBefore(y, m) + day0 - 1
  BY DEF DayNumber
<1> HIDE DEF later, y, m, day0
<1>10. ASSUME n = 0 PROVE Good
  <2>1. later = d
    BY <1>8, <1>10
  <2>2. DayNumber(d) \in Int
    BY <1>1, <1>2, <1>3, <1>4, <1>9
  <2> QED BY <1>10, <2>1, <2>2 DEF y
<1>11. ASSUME n # 0 /\ day0 + n <= len PROVE Good
  <2>1. later = Date(y, m, day0 + n)
    BY <1>8, <1>11
  <2>2. IsDate(later)
    BY <1>1, <1>2, <1>6, <1>11, <2>1
  <2>3. DayNumber(later) = DayNumber(d) + n
    BY <1>1, <1>2, <1>3, <1>4, <1>7, <1>9, <2>1
  <2> QED BY <1>5, <2>1, <2>2, <2>3
<1>12. ASSUME n # 0 /\ day0 + n > len /\ m < 12 PROVE Good
  <2>1. later = Date(y, m + 1, (day0 + n) - len)
    BY <1>1, <1>2, <1>8, <1>12
  <2>2. (day0 + n) - len \in 1..28 /\ m + 1 \in 1..12
    BY <1>1, <1>2, <1>12
  <2>3. MonthLen(y, m + 1) \in 28..31
    BY <1>1, <2>2, MonthLens
  <2>4. IsDate(later)
    <3> DEFINE b == m + 1  c == (day0 + n) - len
    <3>1. b \in 1..12 /\ c \in 1..MonthLen(y, b)
      BY <2>2, <2>3
    <3> HIDE DEF b, c
    <3>2. IsDate(Date(y, b, c))
      BY <1>1, <1>6, <3>1
    <3> QED BY <2>1, <3>2 DEF b, c
  <2>5. DaysBefore(y, m + 1) = DaysBefore(y, m) + len
    BY <1>1, <1>12, NextMonthBegins
  <2> HIDE DEF len
  <2>6. DayNumber(later) = DayNumber(d) + n
    BY <1>1, <1>2, <1>3, <1>4, <1>7, <1>9, <2>1, <2>2, <2>5
  <2> QED BY <1>5, <2>1, <2>4, <2>6
<1>13. ASSUME n # 0 /\ day0 + n > len /\ m = 12 PROVE Good
  <2>1. len = 31 /\ DaysBefore(y, 12) = 334 + (IF Leap(y) THEN 1 ELSE 0)
    BY <1>13 DEF MonthLen, DaysBefore
  <2>2. later = Date(y + 1, 1, (day0 + n) - 31)
    BY <1>1, <1>2, <1>8, <1>13, <2>1
  <2>3. (day0 + n) - 31 \in 1..28 /\ MonthLen(y + 1, 1) = 31 /\ DaysBefore(y + 1, 1) = 0
    BY <1>1, <1>2, <1>13, <2>1 DEF MonthLen, DaysBefore
  <2>4. IsDate(later)
    <3> DEFINE c == (day0 + n) - 31
    <3>1. y + 1 \in Nat /\ 1 \in 1..12 /\ c \in 1..MonthLen(y + 1, 1)
      BY <1>1, <2>3
    <3> HIDE DEF c
    <3>2. IsDate(Date(y + 1, 1, c))
      BY <1>6, <3>1
    <3> QED BY <2>2, <3>2 DEF c
  <2>5. LeapsBefore(y + 1) = LeapsBefore(y) + (IF Leap(y) THEN 1 ELSE 0)
    BY <1>1, <1>3, NextYearBegins
  <2>6. DayNumber(later) = DayNumber(d) + n
    BY <1>1, <1>2, <1>3, <1>7, <1>9, <1>13, <2>1, <2>2, <2>3, <2>5
  <2> QED BY <1>5, <2>2, <2>4, <2>6
<1>14. Good
  BY <1>1, <1>2, <1>10, <1>11, <1>12, <1>13
<1> QED BY <1>14 DEF later, y

LEMMA DayNumberType ==
  ASSUME NEW d, IsDate(d), d.year >= 1900
  PROVE  DayNumber(d) \in Nat
<1> DEFINE y == d.year
<1>1. y \in Nat /\ y >= 1900 /\ d.month \in 1..12 /\ d.day \in Nat /\ d.day >= 1
  BY MonthLens DEF IsDate
<1>2. DaysBefore(y, d.month) \in Nat
  BY <1>1 DEF DaysBefore
<1>3. LeapsBefore(y) \in Int /\ LeapsBefore(y) >= LeapsBefore(1900)
      /\ LeapsBefore(1900) \in Int
  BY <1>1, Z3 DEF LeapsBefore
<1> QED BY <1>1, <1>2, <1>3 DEF DayNumber

-----------------------------------------------------------------------------
(* The weekday.                                                             *)

(* In Zeller's formula the months from March on make up whole weeks and the *)
(* days before them.                                                        *)
ZMonth(m) == IF m < 3 THEN m + 12 ELSE m
ZDays(m) == <<365, 396, 59, 90, 120, 151, 181, 212, 243, 273, 304, 334>>[m]

LEMMA ZellerMonth ==
  ASSUME NEW m \in 1..12
  PROVE  \E k \in 7..51 : ZDays(m) = (26 * (ZMonth(m) + 1)) \div 10 + 7 * k
<1>1. /\ (26 * 14) \div 10 = 36 /\ (26 * 15) \div 10 = 39 /\ (26 * 4) \div 10 = 10
      /\ (26 * 5) \div 10 = 13 /\ (26 * 6) \div 10 = 15 /\ (26 * 7) \div 10 = 18
      /\ (26 * 8) \div 10 = 20 /\ (26 * 9) \div 10 = 23 /\ (26 * 10) \div 10 = 26
      /\ (26 * 11) \div 10 = 28 /\ (26 * 12) \div 10 = 31 /\ (26 * 13) \div 10 = 33
  BY Z3
<1>2. /\ 365 = 36 + 7 * 47 /\ 396 = 39 + 7 * 51 /\ 59 = 10 + 7 * 7 /\ 90 = 13 + 7 * 11
      /\ 120 = 15 + 7 * 15 /\ 151 = 18 + 7 * 19 /\ 181 = 20 + 7 * 23 /\ 212 = 23 + 7 * 27
      /\ 243 = 26 + 7 * 31 /\ 273 = 28 + 7 * 35 /\ 304 = 31 + 7 * 39 /\ 334 = 33 + 7 * 43
  BY Z3
<1> QED BY <1>1, <1>2 DEF ZDays, ZMonth

(* The same days, counted by DayNumber from the March before; u counts the  *)
(* years from 1999.                                                         *)
LEMMA DayNumberFromMarch ==
  ASSUME NEW d, IsDate(d), NEW u \in 0..100, d.year = 1999 + u + (IF d.month < 3 THEN 1 ELSE 0)
  PROVE  DayNumber(d) = 365 * u + (u + 3) \div 4 + ZDays(d.month) + d.day + 36158
<1> DEFINE y == d.year  m == d.month
<1>1. m \in 1..12 /\ d.day \in Nat /\ u \in Nat /\ (u + 3) \div 4 \in Nat
  <2>1. d.day \in Nat /\ m \in 1..12
    BY MonthLens DEF IsDate
  <2>2. (u + 3) \div 4 \in Nat
    BY Z3
  <2> QED BY <2>1, <2>2
<1>2. /\ (1999 + u) \div 4 = 499 + (u + 3) \div 4
      /\ (1999 + u) \div 100 - (1999 + u) \div 400 = 15
      /\ (1999 + u) \div 100 \in Int /\ (1999 + u) \div 400 \in Int
  BY <1>1, Z3
<1>3. LeapsBefore(1999 + u + 1) = 484 + (u + 3) \div 4
  <2>1. 1999 + u + 1 - 1 = 1999 + u
    BY <1>1
  <2> QED BY <1>1, <1>2, <2>1 DEF LeapsBefore
<1>4. LeapsBefore(1999 + u + 1) = LeapsBefore(1999 + u) + (IF Leap(1999 + u) THEN 1 ELSE 0)
  <2>1. LeapsBefore(1999 + u) \in Int /\ LeapsBefore(1999 + u + 1) \in Int /\ 1999 + u \in Nat
    BY DEF LeapsBefore
  <2> QED BY <2>1, NextYearBegins
<1>5. LeapsBefore(1900) = 460
  BY Z3 DEF LeapsBefore
<1>6. LeapsBefore(1999 + u) \in Int
  BY DEF LeapsBefore
<1>7. CASE m < 3
  <2>1. DaysBefore(y, m) = ZDays(m) - 365 /\ y = 1999 + u + 1
    BY <1>1, <1>7 DEF DaysBefore, ZDays
  <2>2. DayNumber(d) = 365 * (y - 1900) + LeapsBefore(y) - 460 + DaysBefore(y, m) + d.day - 1
    BY <1>5 DEF DayNumber
  <2>3. ZDays(m) \in Nat
    BY <1>1 DEF ZDays
  <2> HIDE DEF y, m
  <2> QED BY <1>1, <1>3, <2>1, <2>2, <2>3 DEF m
<1>8. CASE ~ (m < 3)
  <2>1. DaysBefore(y, m) = ZDays(m) + (IF Leap(y) THEN 1 ELSE 0) /\ y = 1999 + u
    BY <1>1, <1>8 DEF DaysBefore, ZDays
  <2>2. DayNumber(d) = 365 * (y - 1900) + LeapsBefore(y) - 460 + DaysBefore(y, m) + d.day - 1
    BY <1>5 DEF DayNumber
  <2>3. ZDays(m) \in Nat
    BY <1>1 DEF ZDays
  <2> HIDE DEF y, m
  <2> QED BY <1>1, <1>3, <1>4, <1>6, <2>1, <2>2, <2>3 DEF m
<1> QED BY <1>7, <1>8

(* The years of the clock; the formula counts January to the year before.   *)
ClockYears(d) == d.year \in 2000..2099 \/ (d.year = 2100 /\ d.month < 3)
(* Those in which what the formula subtracts for the century is at most     *)
(* what it adds.                                                            *)
ZellerYears(d) == d.year \in 2020..2099 \/ (d.year = 2100 /\ d.month < 3)

(* The weekday with Sunday as 0.                                            *)
WeekVal(d) == IF WeekDay(DayNumber(d)) = 7 THEN 0 ELSE WeekDay(DayNumber(d))

(* The sum of the formula is the weekday modulo 7; from 2020 on it is not   *)
(* below zero.                                                              *)
LEMMA ZellerSum ==
  ASSUME NEW d, IsDate(d), ClockYears(d)
  PROVE  \E val \in Int : /\ rtc_calculate_week_val(d) = U32Mod7(val)
                          /\ WeekVal(d) = val % 7
                          /\ d.year >= 2020 => val >= 0
<1> DEFINE y == IF d.month < 3 THEN d.year - 1 ELSE d.year
           u == y - 1999
           q == (u + 3) \div 4
           z == (26 * (ZMonth(d.month) + 1)) \div 10
           c == IF u = 0 THEN 88 + z + d.day ELSE u + q + z + d.day - 38
           n == DayNumber(d)
<1>1. d.month \in 1..12 /\ d.day \in Nat /\ d.day >= 1 /\ d.year \in Nat
  BY MonthLens DEF IsDate
<1>2. u \in 0..100 /\ y = 1999 + u /\ (u = 20 /\ d.year >= 2020 => d.month < 3)
      /\ d.year = 1999 + u + (IF d.month < 3 THEN 1 ELSE 0)
      /\ (d.year >= 2020 => u >= 20)
  BY <1>1 DEF ClockYears
<1>3. PICK k \in 7..51 : ZDays(d.month) = z + 7 * k
  BY <1>1, ZellerMonth
<1>4. z \in 10..39 /\ (d.month < 3 => z >= 36)
  <2>1. CASE d.month < 3
    BY <1>1, <2>1, Z3 DEF ZMonth
  <2>2. CASE ~ (d.month < 3)
    BY <1>1, <2>2, Z3 DEF ZMonth
  <2> QED BY <2>1, <2>2
<1>5. n = 365 * u + q + ZDays(d.month) + d.day + 36158
  BY <1>2, DayNumberFromMarch
<1>6. rtc_calculate_week_val(d) =
        U32Mod7((y % 100) + (y % 100) \div 4 + (y \div 100) \div 4 + z + d.day
                  - (y \div 100) * 2 - 1)
  BY DEF rtc_calculate_week_val, ZMonth
<1> HIDE DEF y, z, u, n
<1>7. q \in Nat /\ (u >= 20 => q >= 5) /\ (u > 20 => q >= 6) /\ (u = 0 => q = 0)
      /\ (u > 0 => (u - 1) \div 4 = q - 1)
  BY <1>2, Z3
<1>8. rtc_calculate_week_val(d) = U32Mod7(c) /\ c \in Int
  <2>1. CASE u = 0
    <3>1. y % 100 = 99 /\ y \div 100 = 19 /\ 99 \div 4 = 24 /\ 19 \div 4 = 4
      BY <1>2, <2>1, Z3
    <3>2. 99 + 24 + 4 + z + d.day - 19 * 2 - 1 = 88 + z + d.day
      BY <1>1, <1>4
    <3> QED BY <1>1, <1>4, <1>6, <2>1, <3>1, <3>2
  <2>2. CASE u # 0
    <3>1. y % 100 = u - 1 /\ y \div 100 = 20 /\ 20 \div 4 = 5
      BY <1>2, <2>2, Z3
    <3>2. (u - 1) + (q - 1) + 5 + z + d.day - 20 * 2 - 1 = u + q + z + d.day - 38
      BY <1>1, <1>2, <1>4, <1>7
    <3> QED BY <1>1, <1>2, <1>4, <1>6, <1>7, <2>2, <3>1, <3>2
  <2> QED BY <2>1, <2>2
<1> HIDE DEF q
<1>9. d.year >= 2020 => c >= 0
  BY <1>1, <1>2, <1>4, <1>7
<1> DEFINE whole == IF u = 0 THEN 5153 + k ELSE 52 * u + 5171 + k
<1>10. n \in Int /\ n + 1 = c + 7 * whole /\ whole \in Int
  BY <1>1, <1>2, <1>3, <1>4, <1>5, <1>7
<1> HIDE DEF c, whole
<1>11. c % 7 = IF (n % 7) + 1 = 7 THEN 0 ELSE (n % 7) + 1
  BY <1>8, <1>10, Z3
<1>12. WeekVal(d) = c % 7
  BY <1>11, LengthAssumption DEF WeekDay, WeekVal, n
<1> QED BY <1>8, <1>9, <1>12

(* rtc_calculate_week_val, with Sunday as 0.                                *)
LEMMA ZellerIsWeekDay ==
  ASSUME NEW d, IsDate(d), ZellerYears(d)
  PROVE  rtc_calculate_week_val(d) = WeekVal(d)
<1>1. ClockYears(d) /\ d.year >= 2020
  BY DEF ZellerYears, ClockYears
<1>2. PICK val \in Int : /\ rtc_calculate_week_val(d) = U32Mod7(val)
                         /\ WeekVal(d) = val % 7 /\ val >= 0
  BY <1>1, ZellerSum
<1> QED BY <1>2 DEF U32Mod7

(* Where the sum wraps around, 2^32 comes in, which is 4 modulo 7.          *)
LEMMA ZellerOrFour ==
  ASSUME NEW d, IsDate(d), ClockYears(d)
  PROVE  rtc_calculate_week_val(d) \in {WeekVal(d), (WeekVal(d) + 4) % 7}
<1>1. PICK val \in Int : /\ rtc_calculate_week_val(d) = U32Mod7(val)
                         /\ WeekVal(d) = val % 7
  BY ZellerSum
<1>2. (val + 4) % 7 = ((val % 7) + 4) % 7
  BY Z3
<1> QED BY <1>1, <1>2 DEF U32Mod7

-----------------------------------------------------------------------------
(* The clock of the module counts the days as DayNumber does.               *)
LEMMA InitType == Init => TypeOK
<1> SUFFICES ASSUME Init PROVE TypeOK
  OBVIOUS
<1>1. date.year = FirstYear /\ date.month = 1 /\ date.day = 1
  BY DEF Init, Date
<1>2. MonthLen(FirstYear, 1) = 31
  BY DEF MonthLen
<1>3. date \in [year : FirstYear..LastYear, month : 1..12, day : 1..31]
  BY YearAssumption DEF Init, Date
<1>4. min \in Minutes
  BY InputAssumption DEF Init
<1> QED BY <1>1, <1>2, <1>3, <1>4 DEF Init, TypeOK

LEMMA TypeIsDate == TypeOK => IsDate(date) /\ date.year \in FirstYear..LastYear
<1>1. \A d : d \in [year : FirstYear..LastYear, month : 1..12, day : 1..31] =>
              d = Date(d.year, d.month, d.day) /\ d.day \in Nat /\ d.day >= 1
  BY DEF Date
<1>2. \A y, m : MonthLen(y, m) \in Nat
  BY DEF MonthLen
<1> QED BY <1>1, <1>2, YearAssumption DEF TypeOK, IsDate

LEMMA StepType == TypeOK /\ [Next]_vars => TypeOK'
<1> SUFFICES ASSUME TypeOK, [Next]_vars PROVE TypeOK'
  OBVIOUS
<1>1. CASE Later
  BY <1>1, InputAssumption DEF Later, TypeOK
<1>2. CASE Midnight
  <2>1. IsDate(date)
    BY TypeIsDate
  <2>2. date.day \in Nat /\ date.month \in Nat /\ MonthLen(date.year, date.month) \in 28..31
        /\ date.day <= MonthLen(date.year, date.month)
    BY <2>1, MonthLens DEF IsDate
  <2>3. date' = rtc_calculate_next_few_day(date, 1)
    <3>1. CASE date.day < MonthLen(date.year, date.month)
      BY <1>2, <2>2, <3>1 DEF Midnight, rtc_calculate_next_few_day
    <3>2. CASE ~ (date.day < MonthLen(date.year, date.month))
      <4>1. (date.day + 1) - MonthLen(date.year, date.month) = 1
        BY <2>2, <3>2
      <4> QED BY <1>2, <2>2, <3>2, <4>1 DEF Midnight, rtc_calculate_next_few_day
    <3> QED BY <3>1, <3>2
  <2>4. IsDate(date') /\ DayNumber(date') = day + 1
    BY <2>1, <2>3, FewDaysLater DEF TypeOK
  <2>5. date'.year \in FirstYear..LastYear
    <3>1. date'.year = date.year \/ (date'.year = date.year + 1 /\ date.month = 12 /\ date.day = 31)
      <4>1. CASE date.day < MonthLen(date.year, date.month) \/ date.month < 12
        BY <1>2, <2>1, <4>1 DEF Midnight, Date, IsDate
      <4>2. CASE ~ (date.day < MonthLen(date.year, date.month)) /\ ~ (date.month < 12)
        <5>1. date.month = 12
          BY <2>1, <4>2 DEF IsDate
        <5>2. MonthLen(date.year, 12) = 31
          BY DEF MonthLen
        <5> QED BY <1>2, <2>2, <4>2, <5>1, <5>2 DEF Midnight, Date
      <4> QED BY <4>1, <4>2
    <3>2. date.year = LastYear => ~ (date.month = 12 /\ date.day = 31)
      BY <1>2, <2>1 DEF Midnight, IsDate
    <3> QED BY <3>1, <3>2, YearAssumption DEF TypeOK
  <2>6. day' = day + 1 /\ min' \in Minutes
    BY <1>2, InputAssumption DEF Midnight
  <2>7. date' = Date(date'.year, date'.month, date'.day) /\ date'.month \in 1..12
        /\ date'.day \in 1..31 /\ date'.day <= MonthLen(date'.year, date'.month)
    BY <2>4, MonthLens DEF IsDate
  <2>8. date' \in [year : FirstYear..LastYear, month : 1..12, day : 1..31]
    BY <2>5, <2>7 DEF Date
  <2> QED BY <2>4, <2>6, <2>7, <2>8 DEF TypeOK
<1>3. CASE UNCHANGED vars
  BY <1>3 DEF vars, TypeOK
<1> QED BY <1>1, <1>2, <1>3 DEF Next

(* The date the clock shows is a date, and its day is counted on from the   *)
(* first one: what every comparison below starts from.                      *)
THEOREM CalendarTypes == Spec => []TypeOK
BY InitType, StepType, PTL DEF Spec

(* The years the clock can be set to (MIN_YEAR, MAX_YEAR: rtc.c:46-47).     *)
InYears == 2000 <= FirstYear /\ LastYear <= 2099

LEMMA Today ==
  ASSUME TypeOK, InYears
  PROVE  /\ IsDate(date) /\ date.year \in 2000..2099 /\ day = DayNumber(date)
         /\ day \in Nat /\ min \in Minutes
<1>1. IsDate(date) /\ date.year \in 2000..2099
  BY TypeIsDate, YearAssumption DEF InYears
<1> QED BY <1>1, DayNumberType DEF TypeOK

(* The weekday of a date (alarm_api.c:430-447) is that of its day on every  *)
(* day from 2020 on, and before that day's or the fourth after it, on every *)
(* day the clock can be set to.                                             *)
THEOREM WeekdayRight == ASSUME InYears PROVE Spec => []WeekdayOfDate
<1>1. ASSUME TypeOK PROVE WeekdayOfDate
  <2>1. /\ IsDate(date) /\ ClockYears(date) /\ WeekVal(date) = IF WeekDay(day) = 7 THEN 0
                                                               ELSE WeekDay(day)
        /\ date.year >= WrapEnds => ZellerYears(date)
    BY <1>1, Today DEF ClockYears, ZellerYears, WrapEnds, WeekVal
  <2> QED BY <2>1, ZellerIsWeekDay, ZellerOrFour DEF WeekdayOfDate
<1> QED BY <1>1, CalendarTypes, PTL

-----------------------------------------------------------------------------
(* The alarms.                                                              *)

(* The scans over the weekday bits find the day NextWeekDay says.           *)
LEMMA WeekModeDay ==
  ASSUME NEW d, IsDate(d), ZellerYears(d),
         NEW mode \in SUBSET AllBits, mode # ONCE, mode # EVERY_DAY
  PROVE  DayNumber(__alarm_calc_time_by_week_mode(d, mode)) = NextWeekDay(DayNumber(d), mode)
<1> DEFINE n == DayNumber(d)
           wd == WeekDay(n)
           val == rtc_calculate_week_val(d)
           bits == mode \ {0}
           rest == {b \in bits : b >= wd}
           pick == IF rest # {} THEN Least(rest) ELSE Least(bits)
           ahead == IF pick >= wd THEN pick - wd ELSE 7 - (wd - pick)
<1>1. n \in Nat
  BY DayNumberType DEF ZellerYears
<1>2. wd \in 1..7
  BY <1>1, WeekDayType, LengthAssumption
<1>3. (IF val = 0 THEN 7 ELSE val) = wd
  BY <1>2, ZellerIsWeekDay DEF WeekVal
<1>4. bits \in SUBSET (1..7) /\ bits # {}
  BY LengthAssumption DEF AllBits, ONCE, EVERY_DAY
<1>5. rest = {i \in 1..7 : i \in mode /\ i >= wd}
  BY <1>4
<1>6. __alarm_calc_time_by_week_mode(d, mode) = rtc_calculate_next_few_day(d, ahead)
  <2> HIDE DEF wd, val, n
  <2>1. __alarm_calc_time_by_week_mode(d, mode) =
          LET left == {i \in 1..7 : i \in mode /\ i >= wd}
              take == IF left # {} THEN Least(left) ELSE Least(mode \ {0})
          IN  rtc_calculate_next_few_day(d, IF take >= wd THEN take - wd ELSE 7 - (wd - take))
    BY <1>3 DEF __alarm_calc_time_by_week_mode, val
  <2> QED BY <1>5, <2>1
<1>7. pick \in 1..7
  <2>1. CASE rest # {}
    BY <1>4, <2>1, LeastIsMember
  <2>2. CASE rest = {}
    BY <1>4, <2>2, LeastIsMember
  <2> QED BY <2>1, <2>2
<1>8. NextWeekDay(n, mode) = IF pick >= wd THEN n + (pick - wd) ELSE n + (7 - (wd - pick))
  BY LengthAssumption DEF NextWeekDay
<1> HIDE DEF pick, wd
<1>9. ahead \in 0..28 /\ NextWeekDay(n, mode) = n + ahead
  BY <1>1, <1>2, <1>7, <1>8
<1> HIDE DEF ahead
<1> QED BY <1>6, <1>9, FewDaysLater

(* alarm_calc_real_time is NextTime, date for day.                          *)
LEMMA RealTimeDay ==
  ASSUME NEW d, IsDate(d), d.year \in 2000..2099, NEW at \in Nat, NEW tod \in Nat,
         NEW mode \in SUBSET AllBits, d.year >= 2020 \/ mode \in {ONCE, EVERY_DAY}
  PROVE  DayNumber(alarm_calc_real_time(d, at, tod, mode)) =
           NextTime([mode |-> mode, tod |-> tod], [day |-> DayNumber(d), min |-> at]).day
<1> DEFINE first == IF tod > at THEN d ELSE rtc_calculate_next_few_day(d, 1)
           n == FirstDay(tod, [day |-> DayNumber(d), min |-> at])
<1>1. IsDate(first) /\ (d.year >= 2020 => ZellerYears(first)) /\ DayNumber(first) = n
  <2>1. CASE tod > at
    BY <2>1 DEF FirstDay, ZellerYears
  <2>2. CASE ~ (tod > at)
    <3>1. LET later == rtc_calculate_next_few_day(d, 1)
          IN  /\ IsDate(later) /\ DayNumber(later) = DayNumber(d) + 1
              /\ later.year \in {d.year, d.year + 1}
              /\ later.year # d.year => later.month = 1
      BY FewDaysLater
    <3> QED BY <2>2, <3>1 DEF FirstDay, ZellerYears
  <2> QED BY <2>1, <2>2
<1>2. alarm_calc_real_time(d, at, tod, mode) =
        IF mode \in {ONCE, EVERY_DAY} THEN first ELSE __alarm_calc_time_by_week_mode(first, mode)
  BY DEF alarm_calc_real_time
<1>3. NextTime([mode |-> mode, tod |-> tod], [day |-> DayNumber(d), min |-> at]).day =
        IF mode \in {ONCE, EVERY_DAY} THEN n ELSE NextWeekDay(n, mode)
  BY DEF NextTime
<1> HIDE DEF first, n
<1> QED BY <1>1, <1>2, <1>3, WeekModeDay

(* Whatever the date, time of day and mode, the date computed for an alarm  *)
(* (alarm_api.c:548-646) is the first on which it may ring, over the ends   *)
(* of months and years and over leap days; before 2020 for an alarm that    *)
(* asks for no weekday.                                                     *)
THEOREM AlarmDueOnDate == ASSUME InYears PROVE Spec => []AlarmDue
<1>1. ASSUME TypeOK PROVE AlarmDue
  <2> SUFFICES ASSUME NEW tod \in MinuteInputs, NEW mode \in ModeInputs,
                      date.year >= WrapEnds \/ mode \in {ONCE, EVERY_DAY}
               PROVE  LET due == DayNumber(alarm_calc_real_time(date, min, tod, mode))
                          now == [day |-> day, min |-> min]
                      IN  /\ due = NextTime([mode |-> mode, tod |-> tod], now).day
                          /\ OnDay(mode, due) /\ Before(now, [day |-> due, min |-> tod])
                          /\ \A d \in day..(due - 1) :
                               OnDay(mode, d) => ~ Before(now, [day |-> d, min |-> tod])
    BY DEF AlarmDue
  <2> DEFINE e == [mode |-> mode, tod |-> tod]
             t == [day |-> day, min |-> min]
             due == NextTime(e, t).day
  <2>1. /\ IsDate(date) /\ date.year \in 2000..2099 /\ day = DayNumber(date)
        /\ day \in Nat /\ min \in Minutes
        /\ date.year >= 2020 \/ mode \in {ONCE, EVERY_DAY}
    BY <1>1, Today DEF WrapEnds
  <2>2. tod \in Minutes /\ mode \in SUBSET AllBits /\ \A m \in Minutes : m \in Nat
    BY InputAssumption DEF Minutes
  <2>3. DayNumber(alarm_calc_real_time(date, min, tod, mode)) = due
    BY <2>1, <2>2, RealTimeDay
  <2>4. e.mode = mode /\ e.tod = tod /\ t.day = day /\ t.min = min /\ t \in Times
    BY <2>1 DEF Times
  <2>5. NextTime(e, t) = [day |-> due, min |-> tod]
    BY DEF NextTime
  <2> HIDE DEF e, t, due
  <2>6. /\ IsDue(e, NextTime(e, t)) /\ Before(t, NextTime(e, t)) /\ NextTime(e, t) \in Times
        /\ \A u \in Times : IsDue(e, u) /\ Before(t, u) => ~ Before(u, NextTime(e, t))
    BY <2>2, <2>4, FirstDue, NextTimeAhead
  <2>7. due \in Nat
    BY <2>5, <2>6 DEF Times
  <2>8. ASSUME NEW d \in day..(due - 1), OnDay(mode, d), Before(t, [day |-> d, min |-> tod])
        PROVE  FALSE
    <3> DEFINE u == [day |-> d, min |-> tod]
    <3>1. u \in Times /\ IsDue(e, u) /\ d < due
      BY <2>1, <2>2, <2>4, <2>7, <2>8 DEF Times, IsDue
    <3> QED BY <2>5, <2>6, <2>8, <3>1 DEF Before
  <2> QED BY <2>2, <2>3, <2>4, <2>5, <2>6, <2>8 DEF t, e, due, IsDue
<1> QED BY <1>1, CalendarTypes, PTL

(* A snooze (alarm_user.c:194-221) is due ten minutes from now.             *)
THEOREM SnoozeInTenMinutes == ASSUME 1900 <= FirstYear PROVE Spec => []SnoozeDue
<1>1. ASSUME TypeOK PROVE SnoozeDue
  <2>1. day \in Nat /\ min \in 0..1439
    <3>1. IsDate(date) /\ date.year >= 1900
      BY <1>1, TypeIsDate, YearAssumption
    <3> QED BY <1>1, <3>1, DayNumberType, LengthAssumption DEF TypeOK, Minutes
  <2>2. PICK h \in 0..23, m \in 0..59 : min = 60 * h + m
    <3>1. min = 60 * (min \div 60) + (min % 60) /\ min \div 60 \in 0..23 /\ min % 60 \in 0..59
      BY <2>1, Z3
    <3> QED BY <3>1
  <2>3. min \div 60 = h /\ min % 60 = m
    BY <2>2, Z3
  <2>4. SnoozeTime(min) = IF m + 10 < 60 THEN min + 10
                          ELSE IF h < 23 THEN min + 10 ELSE min + 10 - 1440
    BY <2>2, <2>3, Z3 DEF SnoozeTime, ALARM_SLEEP_ADD_TIME
  <2>5. NextTime([mode |-> ONCE, tod |-> SnoozeTime(min)], [day |-> day, min |-> min]) =
          [day |-> IF SnoozeTime(min) > min THEN day ELSE day + 1, min |-> SnoozeTime(min)]
    BY DEF NextTime, FirstDay
  <2> QED BY <2>1, <2>2, <2>4, <2>5, LengthAssumption DEF SnoozeDue, ALARM_SLEEP_ADD_TIME
<1> QED BY <1>1, CalendarTypes, PTL

-----------------------------------------------------------------------------
(* The earliest alarm.  First, that dates are in the order of their days.   *)

LEMMA LeapsMonotone ==
  ASSUME NEW x \in Nat, NEW y \in Nat, x <= y
  PROVE  LeapsBefore(x) <= LeapsBefore(y)
<1> DEFINE a == x - 1  b == y - 1
           qa == a \div 100  qb == b \div 100
<1>1. a \in Int /\ b \in Int /\ a <= b
  OBVIOUS
<1> HIDE DEF a, b
<1>2. qa \in Int /\ qb \in Int /\ qa <= qb /\ a \div 400 <= b \div 400
      /\ a \div 400 \in Int /\ b \div 400 \in Int
  BY <1>1, Z3
<1>3. /\ a \div 4 \in Int /\ b \div 4 \in Int /\ a \div 4 <= b \div 4
      /\ 25 * qa <= a \div 4 /\ a \div 4 <= 25 * qa + 24
      /\ 25 * qb <= b \div 4 /\ b \div 4 <= 25 * qb + 24
  BY <1>1, Z3
<1>4. LeapsBefore(x) = (a \div 4) - qa + (a \div 400)
      /\ LeapsBefore(y) = (b \div 4) - qb + (b \div 400)
  BY DEF LeapsBefore, a, b
<1> HIDE DEF qa, qb
<1>5. a \div 4 - qa <= b \div 4 - qb
  <2>1. CASE qa = qb
    BY <1>2, <1>3, <2>1
  <2>2. CASE qa < qb
    BY <1>2, <1>3, <2>2
  <2> QED BY <1>2, <2>1, <2>2
<1> QED BY <1>2, <1>3, <1>4, <1>5

Earlier(d, e) ==
  \/ d.year < e.year
  \/ d.year = e.year /\ d.month < e.month
  \/ d.year = e.year /\ d.month = e.month /\ d.day < e.day

(* A date is so many days after the first of its year.                      *)
DayOfYear(f) == DaysBefore(f.year, f.month) + f.day - 1

LEMMA DayInYear ==
  ASSUME NEW f, IsDate(f)
  PROVE  /\ f.year \in Nat /\ f.month \in 1..12 /\ f.day \in Nat
         /\ f.day >= 1 /\ f.day <= MonthLen(f.year, f.month)
         /\ MonthLen(f.year, f.month) \in 28..31 /\ DaysBefore(f.year, f.month) \in Nat
         /\ DayNumber(f) = 365 * (f.year - 1900) + LeapsBefore(f.year) - LeapsBefore(1900)
                             + DayOfYear(f)
         /\ DayOfYear(f) \in Nat /\ DayOfYear(f) <= 364 + (IF Leap(f.year) THEN 1 ELSE 0)
<1> DEFINE y == f.year  m == f.month
<1>1. y \in Nat /\ m \in 1..12 /\ f.day \in Nat /\ f.day >= 1
      /\ f.day <= MonthLen(y, m) /\ MonthLen(y, m) \in 28..31
  BY MonthLens DEF IsDate
<1>2. DaysBefore(y, m) \in Nat
  BY <1>1 DEF DaysBefore
<1>3. DaysBefore(y, m) + MonthLen(y, m) <= 365 + (IF Leap(y) THEN 1 ELSE 0)
  BY <1>1 DEF DaysBefore, MonthLen
<1>4. LeapsBefore(y) \in Int /\ LeapsBefore(1900) \in Int
  BY <1>1 DEF LeapsBefore
<1>5. DayNumber(f) = 365 * (y - 1900) + LeapsBefore(y) - LeapsBefore(1900)
                      + DaysBefore(y, m) + f.day - 1
  BY DEF DayNumber
<1> HIDE DEF y, m
<1>6. DayNumber(f) = 365 * (y - 1900) + LeapsBefore(y) - LeapsBefore(1900)
                      + (DaysBefore(y, m) + f.day - 1)
  BY <1>1, <1>2, <1>4, <1>5
<1> QED BY <1>1, <1>2, <1>3, <1>6 DEF y, m, DayOfYear

LEMMA DatesInOrder ==
  ASSUME NEW d, IsDate(d), NEW e, IsDate(e), Earlier(d, e)
  PROVE  DayNumber(d) < DayNumber(e)
<1>1. ASSUME NEW f, IsDate(f)
      PROVE  /\ f.year \in Nat /\ f.month \in 1..12 /\ f.day \in Nat
             /\ f.day >= 1 /\ f.day <= MonthLen(f.year, f.month)
             /\ MonthLen(f.year, f.month) \in 28..31 /\ DaysBefore(f.year, f.month) \in Nat
             /\ DayNumber(f) = 365 * (f.year - 1900) + LeapsBefore(f.year) - LeapsBefore(1900)
                                 + DayOfYear(f)
             /\ DayOfYear(f) \in Nat /\ DayOfYear(f) <= 364 + (IF Leap(f.year) THEN 1 ELSE 0)
  BY <1>1, DayInYear
<1>2. \A y \in Nat : LeapsBefore(y) \in Int
  BY DEF LeapsBefore
<1>3. CASE d.year < e.year
  <2>1. LeapsBefore(d.year + 1) = LeapsBefore(d.year) + (IF Leap(d.year) THEN 1 ELSE 0)
    BY <1>1, <1>2, NextYearBegins
  <2>2. LeapsBefore(d.year + 1) <= LeapsBefore(e.year)
    BY <1>1, <1>3, LeapsMonotone
  <2> QED BY <1>1, <1>2, <1>3, <2>1, <2>2
<1>4. CASE d.year = e.year /\ d.month < e.month
  <2>1. DaysBefore(d.year, d.month) + MonthLen(d.year, d.month) <= DaysBefore(e.year, e.month)
    BY <1>1, <1>4 DEF DaysBefore, MonthLen
  <2>2. DayOfYear(d) < DayOfYear(e)
    BY <1>1, <2>1 DEF DayOfYear
  <2> QED BY <1>1, <1>2, <1>4, <2>2
<1>5. CASE d.year = e.year /\ d.month = e.month /\ d.day < e.day
  <2>1. DayOfYear(d) < DayOfYear(e)
    BY <1>1, <1>5 DEF DayOfYear
  <2> QED BY <1>1, <1>2, <1>5, <2>1
<1> QED BY <1>3, <1>4, <1>5 DEF Earlier

LEMMA DayNumberInt ==
  ASSUME NEW d, IsDate(d)
  PROVE  DayNumber(d) \in Int
<1>1. d.year \in Nat /\ d.month \in 1..12 /\ d.day \in Nat
  BY MonthLens DEF IsDate
<1>2. /\ DaysBefore(d.year, d.month) \in Nat /\ LeapsBefore(d.year) \in Int
      /\ LeapsBefore(1900) \in Int
  BY <1>1 DEF DaysBefore, LeapsBefore
<1> QED BY <1>1, <1>2 DEF DayNumber

(* A time of the table, and the same by day number.                         *)
DateOf(t) == Date(t.year, t.month, t.day)
IsTime(t) == IsDate(DateOf(t)) /\ t.min \in Nat
Moment(t) == [day |-> DayNumber(DateOf(t)), min |-> t.min]

(* alarm_cmp_time compares as Before does.                                  *)
LEMMA CmpIsBefore ==
  ASSUME NEW s, IsTime(s), NEW t, IsTime(t)
  PROVE  /\ alarm_cmp_time(s, t) = 1 <=> Before(Moment(t), Moment(s))
         /\ alarm_cmp_time(s, t) = 0 <=> ~ Before(Moment(t), Moment(s)) /\ ~ Before(Moment(s), Moment(t))
<1> DEFINE diff == {k \in 1..4 : s[Members[k]] # t[Members[k]]}
           first == Least(diff)
<1>1. /\ Members[1] = "year" /\ Members[2] = "month" /\ Members[3] = "day" /\ Members[4] = "min"
  BY DEF Members
<1>2. /\ s.year \in Nat /\ s.month \in Nat /\ s.day \in Nat /\ s.min \in Nat
      /\ t.year \in Nat /\ t.month \in Nat /\ t.day \in Nat /\ t.min \in Nat
  <2>1. \A u : IsTime(u) => u.year \in Nat /\ u.month \in Nat /\ u.day \in Nat /\ u.min \in Nat
    BY MonthLens DEF IsTime, IsDate, DateOf, Date
  <2> QED BY <2>1
<1>3. DayNumber(DateOf(s)) \in Int /\ DayNumber(DateOf(t)) \in Int
  BY DayNumberInt DEF IsTime
<1>4. \A u, v : IsTime(u) /\ IsTime(v) /\ Earlier(u, v) => DayNumber(DateOf(u)) < DayNumber(DateOf(v))
  <2>1. \A u, v : Earlier(u, v) => Earlier(DateOf(u), DateOf(v))
    BY DEF Earlier, DateOf, Date
  <2> QED BY <2>1, DatesInOrder DEF IsTime
<1>5. /\ Earlier(s, t) => Before(Moment(s), Moment(t)) /\ ~ Before(Moment(t), Moment(s))
      /\ Earlier(t, s) => Before(Moment(t), Moment(s)) /\ ~ Before(Moment(s), Moment(t))
  BY <1>3, <1>4 DEF Before, Moment
<1>6. alarm_cmp_time(s, t) = IF diff = {} THEN 0
                             ELSE IF s[Members[first]] > t[Members[first]] THEN 1 ELSE -1
  BY DEF alarm_cmp_time
<1>7. CASE diff = {}
  <2>1. s.year = t.year /\ s.month = t.month /\ s.day = t.day /\ s.min = t.min
    BY <1>1, <1>7
  <2>2. Moment(s) = Moment(t)
    BY <2>1 DEF Moment, DateOf
  <2>3. ~ Before(Moment(s), Moment(s))
    BY <1>2, <1>3 DEF Before, Moment
  <2> QED BY <1>6, <1>7, <2>2, <2>3
<1>8. CASE diff # {}
  <2>1. first \in diff /\ \A k \in diff : first <= k
    BY <1>8, LeastIsMember
  <2>2. first \in 1..4 /\ s[Members[first]] # t[Members[first]]
        /\ \A k \in 1..4 : k < first => s[Members[k]] = t[Members[k]]
    BY <2>1
  <2>3. first = 1 \/ first = 2 \/ first = 3 \/ first = 4
    BY <2>2
  <2> HIDE DEF first, diff
  <2>4. ASSUME first \in {1, 2, 3}
        PROVE  IF s[Members[first]] > t[Members[first]] THEN Earlier(t, s) ELSE Earlier(s, t)
    <3>1. CASE first = 1
      BY <1>1, <1>2, <2>2, <3>1 DEF Earlier
    <3>2. CASE first = 2
      BY <1>1, <1>2, <2>2, <3>2 DEF Earlier
    <3>3. CASE first = 3
      BY <1>1, <1>2, <2>2, <3>3 DEF Earlier
    <3> QED BY <2>4, <3>1, <3>2, <3>3
  <2>5. CASE first = 4
    <3>1. s.year = t.year /\ s.month = t.month /\ s.day = t.day
      BY <1>1, <2>2, <2>5
    <3>2. DateOf(s) = DateOf(t) /\ s.min # t.min
      BY <1>1, <2>2, <2>5, <3>1 DEF DateOf
    <3>3. Before(Moment(t), Moment(s)) <=> s.min > t.min
      BY <1>2, <1>3, <3>2 DEF Before, Moment
    <3>4. Before(Moment(s), Moment(t)) <=> t.min > s.min
      BY <1>2, <1>3, <3>2 DEF Before, Moment
    <3> QED BY <1>1, <1>2, <1>6, <1>8, <2>5, <3>2, <3>3, <3>4
  <2> QED BY <1>5, <1>6, <1>8, <2>3, <2>4, <2>5
<1> QED BY <1>7, <1>8

(* The scan goes through the slots one by one.                              *)
LEMMA ScanSteps ==
  ASSUME NEW slots \in Nat, NEW on, NEW times
  PROVE  \E scan :
           /\ EarliestScan(slots, on, times) = scan[slots].active
           /\ scan[0] = [index |-> 0, active |-> {}]
           /\ \A n \in 1..slots : scan[n] = LookedAt(scan[n - 1], n - 1, on, times)
<1> DEFINE none == [index |-> 0, active |-> {}]
           Scans(f, k) == f = [n \in 0..k |-> IF n = 0 THEN none
                                              ELSE LookedAt(f[n - 1], n - 1, on, times)]
           bad == {k \in Nat : ~ \E f : Scans(f, k)}
<1>1. bad = {}
  <2> SUFFICES ASSUME bad # {} PROVE FALSE
    OBVIOUS
  <2> DEFINE k == Least(bad)
  <2>1. k \in bad /\ \A n \in bad : k <= n
    BY LeastIsMember
  <2>2. k \in Nat /\ ~ \E f : Scans(f, k)
    BY <2>1
  <2> HIDE DEF k
  <2>3. CASE k = 0
    <3> DEFINE f == [n \in 0..0 |-> none]
    <3>1. Scans(f, 0)
      BY DEF LookedAt
    <3> QED BY <2>2, <2>3, <3>1
  <2>4. CASE k # 0
    <3>1. k - 1 \in Nat /\ k - 1 < k
      BY <2>2, <2>4
    <3>2. PICK g : Scans(g, k - 1)
      <4>1. k - 1 \notin bad
        <5> HIDE DEF bad
        <5> QED BY <2>1, <2>2, <3>1
      <4> QED BY <3>1, <4>1
    <3> DEFINE f == [n \in 0..k |-> IF n = k THEN LookedAt(g[k - 1], k - 1, on, times) ELSE g[n]]
    <3>3. ASSUME NEW n \in 0..k
          PROVE  f[n] = IF n = 0 THEN none ELSE LookedAt(f[n - 1], n - 1, on, times)
      <4>1. CASE n = k
        <5>1. f[n] = LookedAt(g[k - 1], k - 1, on, times) /\ f[k - 1] = g[k - 1]
          BY <2>2, <3>1, <4>1
        <5> QED BY <2>4, <4>1, <5>1
      <4>2. CASE n # k
        <5>1. n \in 0..(k - 1) /\ f[n] = g[n]
          BY <2>2, <3>1, <4>2
        <5>2. n # 0 => n - 1 \in 0..k /\ n - 1 # k
          BY <2>2, <5>1
        <5>3. n # 0 => f[n - 1] = g[n - 1]
          BY <5>2
        <5>4. g[n] = IF n = 0 THEN none ELSE LookedAt(g[n - 1], n - 1, on, times)
          BY <3>2, <5>1
        <5> QED BY <5>1, <5>3, <5>4
      <4> QED BY <4>1, <4>2
    <3>4. Scans(f, k)
      <4> DEFINE h == [n \in 0..k |-> IF n = 0 THEN none ELSE LookedAt(f[n - 1], n - 1, on, times)]
      <4>1. \A n \in 0..k : f[n] = h[n]
        BY <3>3
      <4> QED BY <4>1
    <3> QED BY <2>2, <3>4
  <2> QED BY <2>3, <2>4
<1>2. PICK f : Scans(f, slots)
  BY <1>1
<1>3. EarliestScan(slots, on, times) = (CHOOSE g : Scans(g, slots))[slots].active
  BY DEF EarliestScan
<1> DEFINE scan == CHOOSE g : Scans(g, slots)
<1>4. Scans(scan, slots)
  BY <1>2
<1> HIDE DEF scan
<1>5. scan[0] = none /\ \A n \in 1..slots : scan[n] = LookedAt(scan[n - 1], n - 1, on, times)
  <2>1. \A n \in 0..slots : scan[n] = IF n = 0 THEN none
                                       ELSE LookedAt(scan[n - 1], n - 1, on, times)
    BY <1>4
  <2> QED BY <2>1
<1> QED BY <1>3, <1>5 DEF scan

(* Moments are in order.                                                    *)
LEMMA MomentsInOrder ==
  ASSUME NEW on, NEW w \in [on -> [day : Int, min : Int]], NEW i \in on, NEW j \in on
  PROVE  /\ ~ Before(w[i], w[i]) /\ (Before(w[i], w[j]) => ~ Before(w[j], w[i]))
         /\ \A k \in on : ~ Before(w[j], w[i]) /\ ~ Before(w[k], w[j]) => ~ Before(w[k], w[i])
<1>1. \A k \in on : w[k].day \in Int /\ w[k].min \in Int
  OBVIOUS
<1> HIDE DEF Before
<1> QED BY <1>1 DEF Before

(* What one pass finds are the earliest alarms, for any number of slots.    *)
LEMMA ScanFindsEarliest ==
  ASSUME NEW slots \in Nat, NEW on \in SUBSET (0..(slots - 1)), NEW times,
         \A i \in on : IsTime(times[i])
  PROVE  EarliestScan(slots, on, times) = Earliest(on, [i \in on |-> Moment(times[i])])
<1> DEFINE w == [i \in on |-> Moment(times[i])]
           met(k) == {i \in on : i < k}
<1>1. PICK scan : /\ EarliestScan(slots, on, times) = scan[slots].active
                  /\ scan[0] = [index |-> 0, active |-> {}]
                  /\ \A n \in 1..slots : scan[n] = LookedAt(scan[n - 1], n - 1, on, times)
  BY ScanSteps
<1> DEFINE Found(k) == /\ scan[k] \in [index : Nat, active : SUBSET Nat]
                       /\ scan[k].active = Earliest(met(k), w)
                       /\ met(k) # {} => scan[k].index \in scan[k].active
           lost == {k \in 0..slots : ~ Found(k)}
<1>2. \A i \in on : i \in Nat
  OBVIOUS
<1>3. /\ \A i \in on : ~ Before(w[i], w[i])
      /\ \A i, j \in on : Before(w[i], w[j]) => ~ Before(w[j], w[i])
      /\ \A i, j, k \in on : ~ Before(w[j], w[i]) /\ ~ Before(w[k], w[j]) => ~ Before(w[k], w[i])
  <2>1. \A i \in on : Moment(times[i]) \in [day : Int, min : Int]
    BY DayNumberInt DEF IsTime, Moment
  <2>2. w \in [on -> [day : Int, min : Int]]
    BY <2>1
  <2> HIDE DEF w
  <2> QED BY <2>2, MomentsInOrder
<1>4. \A i, j \in on : /\ alarm_cmp_time(times[i], times[j]) = 1 <=> Before(w[j], w[i])
                       /\ alarm_cmp_time(times[i], times[j]) = 0 <=>
                            ~ Before(w[j], w[i]) /\ ~ Before(w[i], w[j])
  BY CmpIsBefore
<1> HIDE DEF w
<1>5. ASSUME NEW k \in 0..slots, k < slots, Found(k) PROVE Found(k + 1)
  <2> DEFINE s == scan[k]  t == scan[k + 1]
             ret == alarm_cmp_time(times[s.index], times[k])
  <2>1. k \in Nat /\ k + 1 \in 1..slots /\ (k + 1) - 1 = k
    BY <1>5
  <2>2. t = LookedAt(s, k, on, times)
    BY <1>1, <2>1
  <2>3. s \in [index : Nat, active : SUBSET Nat]
    BY <1>5
  <2>4. s.active = Earliest(met(k), w) /\ (met(k) # {} => s.index \in s.active)
    BY <1>5
  <2>5. t = IF k \notin on THEN s
            ELSE IF s.active = {} \/ ret = 1 THEN [index |-> k, active |-> {k}]
            ELSE IF ret = 0 THEN [s EXCEPT !.active = s.active \union {k}] ELSE s
    BY <2>2 DEF LookedAt
  <2>6. met(k + 1) = met(k) \union (IF k \in on THEN {k} ELSE {})
    <3>1. \A i \in on : i < k + 1 <=> i < k \/ i = k
      BY <1>2, <2>1
    <3> QED BY <3>1
  <2>7. met(k) \subseteq on /\ k \notin met(k)
    BY <2>1
  <2> DEFINE a == s.active  x == s.index
  <2>8. a = {i \in met(k) : \A j \in met(k) : ~ Before(w[j], w[i])} /\ (met(k) # {} => x \in a)
    BY <2>4 DEF Earliest
  <2>9. x \in Nat /\ a \in SUBSET Nat
    BY <2>3
  <2>10. k \in on /\ x \in on =>
           /\ ret = 1 <=> Before(w[k], w[x])
           /\ ret = 0 <=> ~ Before(w[k], w[x]) /\ ~ Before(w[x], w[k])
    BY <1>4
  <2> DEFINE M == met(k)  N == met(k + 1)
  <2>m. a # {} => M # {} /\ x \in M /\ x \in on /\ \A j \in M : ~ Before(w[j], w[x])
    <3> HIDE DEF met, a, x
    <3> QED BY <2>7, <2>8
  <2>n. k \in on /\ a # {} =>
          /\ ret = 1 <=> Before(w[k], w[x])
          /\ ret = 0 <=> ~ Before(w[k], w[x]) /\ ~ Before(w[x], w[k])
    BY <2>10, <2>m
  <2>11. CASE k \notin on
    BY <2>3, <2>4, <2>5, <2>6, <2>11
  <2>12. CASE k \in on /\ a = {}
    <3>1. t = [index |-> k, active |-> {k}] /\ N = {k}
      BY <2>5, <2>6, <2>8, <2>12
    <3>2. Earliest(N, w) = {k}
      BY <1>3, <2>12, <3>1 DEF Earliest
    <3> QED BY <2>1, <3>1, <3>2
  <2>13. CASE k \in on /\ a # {} /\ ret = 1
    <3>1. t = [index |-> k, active |-> {k}] /\ N = M \union {k}
      BY <2>5, <2>6, <2>13
    <3>2. M # {} /\ x \in M /\ x \in on /\ Before(w[k], w[x]) /\ \A j \in M : ~ Before(w[j], w[x])
      BY <2>13, <2>m, <2>n
    <3>3. \A j \in M : Before(w[k], w[j]) /\ ~ Before(w[j], w[k])
      <4> HIDE DEF met
      <4> QED BY <1>3, <2>7, <2>13, <3>2
    <3>4. Earliest(N, w) = {k}
      <4> HIDE DEF met
      <4> QED BY <1>3, <2>13, <3>1, <3>3 DEF Earliest
    <3> QED BY <2>1, <3>1, <3>4
  <2>14. CASE k \in on /\ a # {} /\ ret = 0
    <3>1. t = [s EXCEPT !.active = a \union {k}] /\ N = M \union {k}
      BY <2>5, <2>6, <2>14
    <3>2. M # {} /\ x \in M /\ x \in on /\ ~ Before(w[k], w[x]) /\ ~ Before(w[x], w[k])
          /\ \A j \in M : ~ Before(w[j], w[x])
      BY <2>14, <2>m, <2>n
    <3>3. \A j \in M : ~ Before(w[j], w[k]) /\ (Before(w[k], w[j]) <=> Before(w[x], w[j]))
      <4> HIDE DEF met
      <4> QED BY <1>3, <2>7, <2>14, <3>2
    <3>4. Earliest(N, w) = a \union {k}
      <4> HIDE DEF met
      <4>1. \A i \in M : i \in a => ~ Before(w[k], w[i])
        BY <2>8, <3>2, <3>3
      <4> QED BY <1>3, <2>8, <2>14, <3>1, <3>3, <4>1 DEF Earliest
    <3>5. t.active = a \union {k} /\ t.index = x /\ t \in [index : Nat, active : SUBSET Nat]
      BY <2>1, <2>3, <3>1
    <3> QED BY <2>8, <3>2, <3>4, <3>5
  <2>15. CASE k \in on /\ a # {} /\ ret # 1 /\ ret # 0
    <3>1. t = s /\ N = M \union {k}
      BY <2>5, <2>6, <2>15
    <3>2. M # {} /\ x \in M /\ x \in on /\ ~ Before(w[k], w[x]) /\ Before(w[x], w[k])
          /\ \A j \in M : ~ Before(w[j], w[x])
      BY <2>15, <2>m, <2>n
    <3>3. Earliest(N, w) = a
      <4> HIDE DEF met
      <4>1. \A i \in M : i \in a => ~ Before(w[k], w[i])
        BY <1>3, <2>7, <2>8, <2>15, <3>2
      <4> QED BY <2>8, <3>1, <3>2, <4>1 DEF Earliest
    <3> QED BY <2>3, <2>8, <3>1, <3>2, <3>3
  <2> QED BY <2>11, <2>12, <2>13, <2>14, <2>15
<1>6. Found(0)
  <2>1. met(0) = {}
    <3>1. \A i \in on : ~ (i < 0)
      BY <1>2
    <3> QED BY <3>1
  <2> QED BY <1>1, <2>1 DEF Earliest
<1>7. lost = {}
  <2> SUFFICES ASSUME lost # {} PROVE FALSE
    OBVIOUS
  <2> DEFINE k == Least(lost)
  <2>1. k \in lost /\ \A n \in lost : k <= n
    <3>1. lost \in SUBSET Nat
      OBVIOUS
    <3> HIDE DEF lost
    <3> QED BY <3>1, LeastIsMember
  <2>2. k \in 0..slots /\ ~ Found(k)
    BY <2>1
  <2> HIDE DEF k, Found
  <2>3. k # 0 /\ k - 1 \in 0..slots /\ k - 1 < slots /\ k - 1 < k /\ (k - 1) + 1 = k
    BY <1>6, <2>2
  <2>4. k - 1 \notin lost
    <3> HIDE DEF lost
    <3> QED BY <2>1, <2>2, <2>3
  <2>5. Found(k - 1)
    BY <2>3, <2>4
  <2> QED BY <1>5, <2>2, <2>3, <2>5
<1>8. Found(slots) /\ met(slots) = on
  <2>1. Found(slots)
    <3>1. slots \in 0..slots
      OBVIOUS
    <3> HIDE DEF Found
    <3> QED BY <1>7, <3>1
  <2>2. \A i \in on : i < slots
    OBVIOUS
  <2> HIDE DEF Found
  <2> QED BY <2>1, <2>2
<1> QED BY <1>1, <1>8 DEF w

(* The alarms that one pass over the table (alarm_api.c:648-686) arms for   *)
(* are those no other one is before, whatever the number of slots, the      *)
(* alarms that are on and their times in the next 28 days, however they tie *)
(* and also when they are in different months and years.                    *)
THEOREM EarliestByDate == Spec => []EarliestFound
<1>1. ASSUME TypeOK PROVE EarliestFound
  <2> SUFFICES ASSUME NEW ahead \in [SlotSet -> TimeAhead], NEW on \in SUBSET SlotSet
               PROVE  LET at(i) == rtc_calculate_next_few_day(date, ahead[i][1])
                          times == [i \in SlotSet |->
                                      [year |-> at(i).year, month |-> at(i).month,
                                       day |-> at(i).day, min |-> ahead[i][2]]]
                          w == [i \in SlotSet |-> [day |-> day + ahead[i][1], min |-> ahead[i][2]]]
                      IN  EarliestScan(NumSlots, on, times) = Earliest(on, w)
    BY DEF EarliestFound
  <2> DEFINE at(i) == rtc_calculate_next_few_day(date, ahead[i][1])
             times == [i \in SlotSet |->
                         [year |-> at(i).year, month |-> at(i).month,
                          day |-> at(i).day, min |-> ahead[i][2]]]
             w == [i \in SlotSet |-> [day |-> day + ahead[i][1], min |-> ahead[i][2]]]
             v == [i \in on |-> Moment(times[i])]
  <2>1. IsDate(date) /\ day = DayNumber(date)
    BY <1>1, TypeIsDate DEF TypeOK
  <2>2. \A a \in TimeAhead : a[1] \in 0..28 /\ a[2] \in Nat
    <3>1. \A m \in Minutes : m \in Nat
      BY LengthAssumption DEF Minutes
    <3> QED BY <3>1, SlotAssumption
  <2>3. ASSUME NEW i \in SlotSet
        PROVE  IsTime(times[i]) /\ Moment(times[i]) = w[i]
    <3>1. ahead[i][1] \in 0..28 /\ ahead[i][2] \in Nat
      BY <2>2
    <3>2. IsDate(at(i)) /\ DayNumber(at(i)) = day + ahead[i][1]
      BY <2>1, <3>1, FewDaysLater
    <3> HIDE DEF at
    <3>3. /\ times[i].year = at(i).year /\ times[i].month = at(i).month
          /\ times[i].day = at(i).day /\ times[i].min = ahead[i][2]
      OBVIOUS
    <3>4. DateOf(times[i]) = at(i)
      BY <3>2, <3>3 DEF DateOf, IsDate
    <3>5. w[i] = [day |-> day + ahead[i][1], min |-> ahead[i][2]]
      OBVIOUS
    <3> HIDE DEF times, w
    <3> QED BY <3>1, <3>2, <3>3, <3>4, <3>5 DEF IsTime, Moment
  <2> HIDE DEF times, w
  <2>4. EarliestScan(NumSlots, on, times) = Earliest(on, v)
    <3>1. on \in SUBSET (0..(NumSlots - 1)) /\ \A i \in on : IsTime(times[i])
      BY <2>3 DEF SlotSet
    <3> QED BY <3>1, SlotAssumption, ScanFindsEarliest
  <2>5. \A i \in on : v[i] = w[i]
    BY <2>3
  <2> HIDE DEF v
  <2>6. Earliest(on, v) = Earliest(on, w)
    BY <2>5 DEF Earliest
  <2> QED BY <2>4, <2>6 DEF times, w
<1> QED BY <1>1, CalendarTypes, PTL
-----------------------------------------------------------------------------
(* The phone's clock.  A loop is a row of passes.                           *)

LEMMA PassByPass ==
  ASSUME NEW k \in Nat, NEW body, NEW first
  PROVE  \E pass : /\ Passes(body, first, k) = pass[k] /\ pass[0] = first
                   /\ \A n \in 1..k : pass[n] = body[pass[n - 1]]
<1> DEFINE Goes(f, i) == f = [n \in 0..i |-> IF n = 0 THEN first ELSE body[f[n - 1]]]
           bad == {i \in Nat : ~ \E f : Goes(f, i)}
<1>1. bad = {}
  <2> SUFFICES ASSUME bad # {} PROVE FALSE
    OBVIOUS
  <2> DEFINE i == Least(bad)
  <2>1. i \in bad /\ \A n \in bad : i <= n
    BY LeastIsMember
  <2>2. i \in Nat /\ ~ \E f : Goes(f, i)
    BY <2>1
  <2> HIDE DEF i
  <2>3. CASE i = 0
    <3>1. Goes([n \in 0..0 |-> first], 0)
      OBVIOUS
    <3> QED BY <2>2, <2>3, <3>1
  <2>4. CASE i # 0
    <3>1. i - 1 \in Nat /\ i - 1 < i
      BY <2>2, <2>4
    <3>2. PICK g : Goes(g, i - 1)
      <4>1. i - 1 \notin bad
        <5> HIDE DEF bad
        <5> QED BY <2>1, <2>2, <3>1
      <4> QED BY <3>1, <4>1
    <3> DEFINE f == [n \in 0..i |-> IF n = i THEN body[g[i - 1]] ELSE g[n]]
    <3>3. ASSUME NEW n \in 0..i
          PROVE  f[n] = IF n = 0 THEN first ELSE body[f[n - 1]]
      <4>1. CASE n = i
        <5>1. f[n] = body[g[i - 1]] /\ f[i - 1] = g[i - 1]
          BY <2>2, <3>1, <4>1
        <5> QED BY <2>4, <4>1, <5>1
      <4>2. CASE n # i
        <5>1. n \in 0..(i - 1) /\ f[n] = g[n]
          BY <2>2, <3>1, <4>2
        <5>2. n # 0 => n - 1 \in 0..i /\ n - 1 # i
          BY <2>2, <5>1
        <5>3. n # 0 => f[n - 1] = g[n - 1]
          BY <5>2
        <5>4. g[n] = IF n = 0 THEN first ELSE body[g[n - 1]]
          BY <3>2, <5>1
        <5> QED BY <5>1, <5>3, <5>4
      <4> QED BY <4>1, <4>2
    <3>4. Goes(f, i)
      <4> DEFINE h == [n \in 0..i |-> IF n = 0 THEN first ELSE body[f[n - 1]]]
      <4>1. \A n \in 0..i : f[n] = h[n]
        BY <3>3
      <4> QED BY <4>1
    <3> QED BY <2>2, <3>4
  <2> QED BY <2>3, <2>4
<1>2. PICK f : Goes(f, k)
  BY <1>1
<1> DEFINE pass == CHOOSE g : Goes(g, k)
<1>3. Goes(pass, k)
  BY <1>2
<1>4. Passes(body, first, k) = pass[k]
  BY DEF Passes
<1> HIDE DEF pass
<1>5. \A n \in 0..k : pass[n] = IF n = 0 THEN first ELSE body[pass[n - 1]]
  BY <1>3
<1>6. pass[0] = first /\ \A n \in 1..k : pass[n] = body[pass[n - 1]]
  BY <1>5
<1> QED BY <1>4, <1>6

(* What holds before the first pass, and after a pass if before it, holds   *)
(* after the last one; at[n] is what the state is after n passes.           *)
LEMMA PassesReach ==
  ASSUME NEW k \in Nat, NEW body, NEW at,
         \A n \in 0..(k - 1) : body[at[n]] = at[n + 1]
  PROVE  Passes(body, at[0], k) = at[k]
<1>1. PICK pass : /\ Passes(body, at[0], k) = pass[k] /\ pass[0] = at[0]
                  /\ \A n \in 1..k : pass[n] = body[pass[n - 1]]
  BY PassByPass
<1> DEFINE off == {n \in 0..k : pass[n] # at[n]}
<1>2. off = {}
  <2> SUFFICES ASSUME off # {} PROVE FALSE
    OBVIOUS
  <2> DEFINE i == Least(off)
  <2>1. i \in off /\ \A n \in off : i <= n
    BY LeastIsMember
  <2>2. i \in 0..k /\ pass[i] # at[i]
    BY <2>1
  <2> HIDE DEF i
  <2>3. i # 0 /\ i \in 1..k /\ i - 1 \in 0..(k - 1) /\ (i - 1) + 1 = i /\ i - 1 < i
    BY <1>1, <2>2
  <2>4. pass[i - 1] = at[i - 1]
    <3>1. i - 1 \notin off
      <4> HIDE DEF off
      <4> QED BY <2>1, <2>2, <2>3
    <3> QED BY <2>3, <3>1
  <2> QED BY <1>1, <2>2, <2>3, <2>4
<1> QED BY <1>1, <1>2

(* The days from 1970 to the first day of a year.                           *)
YearStart(y) == 365 * (y - 1970) + (LeapsBefore(y) - LeapsBefore(1970))
YearLen(y) == IF Leap(y) THEN 366 ELSE 365
YearAndRest(y, l) == [year |-> y, days |-> l]

LEMMA YearStarts ==
  ASSUME NEW y \in Nat
  PROVE  /\ YearStart(y) \in Int /\ YearStart(y + 1) = YearStart(y) + YearLen(y)
         /\ YearLen(y) \in {365, 366} /\ YearStart(1970) = 0
         /\ \A x \in Nat : x < y => YearStart(x) + 365 <= YearStart(y)
<1>1. \A x \in Nat : LeapsBefore(x) \in Int
  BY DEF LeapsBefore
<1>2. LeapsBefore(y + 1) - LeapsBefore(y) = IF Leap(y) THEN 1 ELSE 0
  BY NextYearBegins
<1>3. YearStart(y + 1) = YearStart(y) + YearLen(y)
  BY <1>1, <1>2 DEF YearStart, YearLen
<1>4. ASSUME NEW x \in Nat, x < y PROVE YearStart(x) + 365 <= YearStart(y)
  <2>1. LeapsBefore(x) <= LeapsBefore(y)
    BY <1>4, LeapsMonotone
  <2> QED BY <1>1, <1>4, <2>1 DEF YearStart
<1> QED BY <1>1, <1>3, <1>4 DEF YearStart, YearLen

LEMMA DayFrom1970 ==
  ASSUME NEW d, IsDate(d)
  PROVE  /\ DayNumber(d) - DayNumber(Date(1970, 1, 1)) = YearStart(d.year) + DayOfYear(d)
         /\ DayOfYear(d) \in 0..(YearLen(d.year) - 1)
<1> DEFINE epoch == Date(1970, 1, 1)
<1>1. epoch.year = 1970 /\ IsDate(epoch) /\ DayOfYear(epoch) = 0
  BY DEF Date, IsDate, MonthLen, DayOfYear, DaysBefore
<1> HIDE DEF epoch
<1>2. /\ DayNumber(epoch) = 365 * (1970 - 1900) + LeapsBefore(1970) - LeapsBefore(1900) + 0
      /\ DayNumber(d) = 365 * (d.year - 1900) + LeapsBefore(d.year) - LeapsBefore(1900)
                          + DayOfYear(d)
      /\ d.year \in Nat /\ DayOfYear(d) \in Nat
      /\ DayOfYear(d) <= 364 + (IF Leap(d.year) THEN 1 ELSE 0)
  BY <1>1, DayInYear
<1>3. \A x \in Nat : LeapsBefore(x) \in Int
  BY DEF LeapsBefore
<1>4. DayNumber(d) - DayNumber(epoch) = YearStart(d.year) + DayOfYear(d)
  BY <1>2, <1>3 DEF YearStart
<1> QED BY <1>2, <1>4 DEF epoch, YearLen

(* The first loop goes through the years, and stops a year early on the     *)
(* first day of a year that follows one of 365 days.                        *)
LEMMA YearFound ==
  ASSUME NEW y \in Nat, 1970 <= y, y <= 2106, NEW r \in Nat, r < YearLen(y),
         NEW U, U = YearStart(y) + r
  PROVE  YearOf(U) = YearAndRest(y, r)
<1> DEFINE early == r = 0 /\ y # 1970 /\ ~ Leap(y - 1)
           stop == IF early THEN y - 1 ELSE y
           upto(n) == IF 1970 + n <= stop THEN 1970 + n ELSE stop
           at == [n \in 0..136 |-> [year |-> upto(n), days |-> U - YearStart(upto(n))]]
<1>1. y \in Nat /\ stop \in 1970..2106 /\ stop \in Nat /\ r \in Nat /\ r < YearLen(y) /\ stop <= y
  BY DEF YearLen
<1>2. \A x \in Nat : YearStart(x) \in Int
  BY YearStarts
<1>3. U - YearStart(stop) \in 0..365 /\ YearStart(stop) \in Int
      /\ (early => U - YearStart(stop) = 365)
  <2>1. CASE early
    <3>1. y - 1 \in Nat /\ (y - 1) + 1 = y
      BY <1>1
    <3>2. YearStart(y) = YearStart(y - 1) + 365 /\ YearStart(y - 1) \in Int
      BY <2>1, <3>1, YearStarts DEF YearLen
    <3> QED BY <2>1, <3>2
  <2>2. CASE ~ early
    <3>1. YearStart(y) \in Int /\ YearLen(y) \in {365, 366}
      BY <1>1, YearStarts
    <3> QED BY <1>1, <2>2, <3>1
  <2> QED BY <2>1, <2>2
<1>4. ASSUME NEW i \in Nat, 1970 <= i, i < stop
      PROVE  U - YearStart(i) \in Nat /\ U - YearStart(i) > 365
  <2>1. i \in Nat /\ y - 1 \in Nat /\ (y - 1) + 1 = y /\ YearStart(i) \in Int /\ YearStart(y) \in Int
    BY <1>1, <1>2, <1>4
  <2>2. CASE i < y - 1
    <3>1. YearStart(i) + 365 <= YearStart(y - 1) /\ YearStart(y - 1) + 365 <= YearStart(y)
          /\ YearStart(y - 1) \in Int
      BY <1>1, <2>1, <2>2, YearStarts
    <3> QED BY <1>1, <2>1, <3>1
  <2>3. CASE i = y - 1
    <3>1. ~ early /\ y # 1970
      BY <1>1, <1>4, <2>3
    <3>2. YearStart(y) = YearStart(i) + YearLen(i)
      BY <2>1, <2>3, YearStarts
    <3>3. YearLen(i) + r > 365 /\ YearLen(i) \in Nat
      BY <1>1, <2>3, <3>1 DEF YearLen
    <3> QED BY <1>1, <2>1, <3>2, <3>3
  <2> QED BY <1>1, <1>4, <2>1, <2>2, <2>3
<1>5. stop \in Nat /\ 1970 <= stop /\ stop <= 2106
  BY <1>1
<1> HIDE DEF stop
<1>6. upto(0) = 1970 /\ upto(136) = stop
  BY <1>5
<1>7. ASSUME NEW n \in 0..136
      PROVE  upto(n) \in Nat /\ 1970 <= upto(n) /\ upto(n) <= stop
  BY <1>5
<1>8. ASSUME NEW n \in 0..135, upto(n) = stop PROVE upto(n + 1) = stop
  <2>1. CASE 1970 + (n + 1) <= stop
    <3>1. upto(n) = 1970 + n /\ 1970 + n < stop
      BY <1>5, <2>1
    <3> HIDE DEF upto
    <3> QED BY <1>5, <1>8, <3>1
  <2>2. CASE ~ (1970 + (n + 1) <= stop)
    BY <2>2
  <2> QED BY <2>1, <2>2
<1>9. ASSUME NEW n \in 0..135, upto(n) # stop PROVE upto(n) < stop /\ upto(n + 1) = upto(n) + 1
  <2>1. 1970 + n <= stop /\ upto(n) = 1970 + n
    <3>1. 1970 + n <= stop
      <4>1. ASSUME ~ (1970 + n <= stop) PROVE upto(n) = stop
        BY <4>1
      <4> HIDE DEF upto
      <4> QED BY <1>9, <4>1
    <3>2. upto(n) = 1970 + n
      BY <3>1
    <3> HIDE DEF upto
    <3> QED BY <3>1, <3>2
  <2>2. 1970 + n # stop
    <3> HIDE DEF upto
    <3> QED BY <1>9, <2>1
  <2>3. 1970 + (n + 1) <= stop /\ 1970 + (n + 1) = (1970 + n) + 1 /\ 1970 + n < stop
    BY <1>5, <2>1, <2>2
  <2>4. upto(n + 1) = 1970 + (n + 1)
    BY <2>3
  <2> HIDE DEF upto
  <2> QED BY <2>1, <2>3, <2>4
<1> HIDE DEF upto
<1>10. \A n \in 0..136 : at[n] = [year |-> upto(n), days |-> U - YearStart(upto(n))]
  OBVIOUS
<1>11. ASSUME NEW n \in 0..(136 - 1) PROVE YearBody[at[n]] = at[n + 1]
  <2> DEFINE i == upto(n)  l == U - YearStart(i)
             p == [year |-> i, days |-> l]
  <2>1. n \in 0..135 /\ n \in 0..136 /\ n + 1 \in 0..136
    OBVIOUS
  <2>2. at[n] = p /\ at[n + 1] = [year |-> upto(n + 1), days |-> U - YearStart(upto(n + 1))]
    BY <1>10, <2>1
  <2>3. i \in Nat /\ 1970 <= i /\ i <= stop
    BY <1>7, <2>1
  <2>4. i = stop => upto(n + 1) = i
    BY <1>8, <2>1
  <2>5. i # stop => i < stop /\ upto(n + 1) = i + 1
    BY <1>9, <2>1
  <2> HIDE DEF i, at
  <2>6. CASE i = stop
    <3>1. l \in Nat /\ ~ (l > 365)
      BY <1>3, <2>6
    <3>2. at[n + 1] = p
      BY <2>2, <2>4, <2>6
    <3> HIDE DEF l
    <3>3. p \in [year : Nat, days : Nat] /\ p.days = l /\ p.year = i
      BY <2>3, <3>1
    <3> HIDE DEF p
    <3>4. YearBody[p] = p
      BY <3>1, <3>3 DEF YearBody
    <3> QED BY <2>2, <3>2, <3>4
  <2>7. CASE i # stop
    <3>1. l \in Nat /\ l > 365
      BY <1>4, <2>3, <2>5, <2>7
    <3>2. at[n + 1] = [year |-> i + 1, days |-> U - YearStart(i + 1)]
      BY <2>2, <2>5, <2>7
    <3>3. U - YearStart(i + 1) = l - YearLen(i)
      <4>1. YearLen(i) \in {365, 366} /\ YearStart(i) \in Int /\ YearStart(i + 1) = YearStart(i) + YearLen(i)
        BY <2>3, YearStarts
      <4> QED BY <1>1, <1>2, <3>1, <4>1
    <3> HIDE DEF l
    <3>4. p \in [year : Nat, days : Nat] /\ p.days = l /\ p.year = i
      BY <2>3, <3>1
    <3> HIDE DEF p
    <3>5. YearBody[p] = [year |-> i + 1, days |-> l - YearLen(i)]
      BY <3>1, <3>4 DEF YearBody, YearLen
    <3> QED BY <2>2, <3>2, <3>3, <3>5
  <2> QED BY <2>6, <2>7
<1>12. YearLoop(U) = [year |-> stop, days |-> U - YearStart(stop)]
  <2>1. at[0] = [year |-> 1970, days |-> U]
    <3>1. YearStart(1970) = 0 /\ U \in Int
      BY <1>1, <1>2, YearStarts
    <3> QED BY <1>6, <1>10, <3>1
  <2>2. at[136] = [year |-> stop, days |-> U - YearStart(stop)]
    BY <1>6, <1>10
  <2> HIDE DEF at
  <2>3. Passes(YearBody, at[0], 136) = at[136]
    <3> DEFINE k == 136
    <3>1. k \in Nat /\ \A n \in 0..(k - 1) : YearBody[at[n]] = at[n + 1]
      BY <1>11
    <3> HIDE DEF k
    <3>2. Passes(YearBody, at[0], k) = at[k]
      BY <3>1, PassesReach
    <3> QED BY <3>2 DEF k
  <2> QED BY <2>1, <2>2, <2>3 DEF YearLoop, Years
<1> DEFINE left == U - YearStart(stop)
<1>13. YearOf(U) = IF left = 365 /\ ~ Leap(stop) THEN [year |-> stop + 1, days |-> 0]
                                               ELSE [year |-> stop, days |-> left]
  BY <1>12 DEF YearOf
<1>14. CASE early
  <2>1. YearOf(U) = [year |-> y, days |-> r]
    BY <1>1, <1>3, <1>13, <1>14 DEF stop
  <2> QED BY <2>1 DEF YearAndRest
<1>15. CASE ~ early
  <2>1. stop = y /\ left = r
    BY <1>1, <1>2, <1>15 DEF stop
  <2>2. r = 365 => Leap(y)
    BY <1>1 DEF YearLen
  <2>3. YearOf(U) = [year |-> y, days |-> r]
    BY <1>13, <2>1, <2>2
  <2> QED BY <2>3 DEF YearAndRest
<1> QED BY <1>14, <1>15

LEMMA MonthsBefore ==
  ASSUME NEW y \in Nat, NEW m \in 1..12
  PROVE  /\ DaysBefore(y, m) \in Nat /\ DaysBefore(y, 1) = 0
         /\ \A i \in 1..12 : i < m => DaysBefore(y, i) + MonthLen(y, i) <= DaysBefore(y, m)
BY DEF DaysBefore, MonthLen

(* The second loop goes through the months.                                 *)
LEMMA MonthFound ==
  ASSUME NEW d, IsDate(d)
  PROVE  DateIn(YearAndRest(d.year, DayOfYear(d))) = d
<1> DEFINE y == d.year  m == d.month  r == DayOfYear(d)
           upto(n) == IF n + 1 <= m THEN n + 1 ELSE m
           left(i) == r - DaysBefore(y, i)
           at == [n \in 0..12 |-> [month |-> upto(n), days |-> left(upto(n))]]
<1>1. /\ y \in Nat /\ m \in 1..12 /\ m \in Nat /\ d.day \in Nat /\ d.day >= 1 /\ d.day <= MonthLen(y, m)
      /\ MonthLen(y, m) \in Nat /\ r \in Nat /\ r = DaysBefore(y, m) + (d.day - 1)
      /\ DaysBefore(y, m) \in Nat
  BY DayInYear DEF DayOfYear
<1>2. d = Date(y, m, d.day)
  BY DEF IsDate
<1>3. /\ upto(0) = 1 /\ upto(12) = m
      /\ \A n \in 0..12 : upto(n) \in 1..12 /\ upto(n) <= m
      /\ \A n \in 0..11 : upto(n) # m => upto(n) < m /\ upto(n + 1) = upto(n) + 1
      /\ \A n \in 0..11 : upto(n) = m => upto(n + 1) = m
  <2> HIDE DEF m
  <2> QED BY <1>1
<1>4. left(m) = d.day - 1 /\ left(m) \in Nat /\ left(m) < MonthLen(y, m)
  BY <1>1
<1> HIDE DEF y, m, r
<1>5. ASSUME NEW i \in 1..12, i < m
      PROVE  left(i) \in Nat /\ left(i) >= MonthLen(y, i) /\ left(i + 1) = left(i) - MonthLen(y, i)
  <2>1. /\ DaysBefore(y, i) + MonthLen(y, i) <= DaysBefore(y, m) /\ DaysBefore(y, i) \in Nat
        /\ MonthLen(y, i) \in 28..31
    BY <1>1, <1>5, MonthsBefore, MonthLens
  <2>2. DaysBefore(y, i) + MonthLen(y, i) = DaysBefore(y, i + 1)
    BY <1>1, <1>5, NextMonthBegins
  <2> QED BY <1>1, <2>1, <2>2
<1> HIDE DEF upto, left
<1>6. \A n \in 0..12 : at[n] = [month |-> upto(n), days |-> left(upto(n))]
  OBVIOUS
<1>7. ASSUME NEW n \in 0..(12 - 1) PROVE MonthBody(y)[at[n]] = at[n + 1]
  <2> DEFINE i == upto(n)  l == left(i)
             p == [month |-> i, days |-> l]
  <2>1. n \in 0..11 /\ n \in 0..12 /\ n + 1 \in 0..12
    OBVIOUS
  <2>2. at[n] = p /\ i \in 1..12 /\ i <= m
        /\ at[n + 1] = [month |-> upto(n + 1), days |-> left(upto(n + 1))]
    BY <1>3, <1>6, <2>1
  <2>3. i # m => i < m /\ upto(n + 1) = i + 1
    BY <1>3, <2>1
  <2>4. i = m => upto(n + 1) = i
    BY <1>3, <2>1
  <2> HIDE DEF i, at
  <2>5. CASE i = m
    <3>1. l \in Nat /\ ~ (l >= MonthLen(y, i))
      BY <1>1, <1>4, <2>5
    <3>2. at[n + 1] = p
      BY <2>2, <2>4, <2>5
    <3> HIDE DEF l
    <3>3. p \in [month : Nat, days : Nat] /\ p.days = l /\ p.month = i
      BY <2>2, <3>1
    <3> HIDE DEF p
    <3>4. MonthBody(y)[p] = p
      BY <3>1, <3>3 DEF MonthBody
    <3> QED BY <2>2, <3>2, <3>4
  <2>6. CASE i # m
    <3>1. l \in Nat /\ l >= MonthLen(y, i) /\ left(i + 1) = l - MonthLen(y, i)
      BY <1>5, <2>2, <2>3, <2>6
    <3>2. at[n + 1] = [month |-> i + 1, days |-> l - MonthLen(y, i)]
      BY <2>2, <2>3, <2>6, <3>1
    <3> HIDE DEF l
    <3>3. p \in [month : Nat, days : Nat] /\ p.days = l /\ p.month = i
      BY <2>2, <3>1
    <3> HIDE DEF p
    <3>4. MonthBody(y)[p] = [month |-> i + 1, days |-> l - MonthLen(y, i)]
      BY <3>1, <3>3 DEF MonthBody
    <3> QED BY <2>2, <3>2, <3>4
  <2> QED BY <2>5, <2>6
<1>8. Passes(MonthBody(y), [month |-> 1, days |-> r], 12) = [month |-> m, days |-> d.day - 1]
  <2>1. at[0] = [month |-> 1, days |-> r]
    <3>1. left(1) = r
      <4>1. DaysBefore(y, 1) = 0
        BY <1>1, MonthsBefore
      <4> QED BY <1>1, <4>1 DEF left
    <3> QED BY <1>3, <1>6, <3>1
  <2>2. at[12] = [month |-> m, days |-> d.day - 1]
    BY <1>3, <1>4, <1>6
  <2> HIDE DEF at
  <2>3. Passes(MonthBody(y), at[0], 12) = at[12]
    <3> DEFINE k == 12
    <3>1. k \in Nat /\ \A n \in 0..(k - 1) : MonthBody(y)[at[n]] = at[n + 1]
      BY <1>7
    <3> HIDE DEF k
    <3>2. Passes(MonthBody(y), at[0], k) = at[k]
      BY <3>1, PassesReach
    <3> QED BY <3>2 DEF k
  <2> QED BY <2>1, <2>2, <2>3
<1>9. DateIn([year |-> y, days |-> r]) = Date(y, m, (d.day - 1) + 1)
  BY <1>8 DEF DateIn
<1>10. (d.day - 1) + 1 = d.day
  BY <1>1
<1> QED BY <1>2, <1>9, <1>10 DEF y, r, YearAndRest

(* GetDateTimeFromSecond (xiaoyun_agreement.c:34-66) turns the number of a  *)
(* day since 1970 into that day's date, on the last day of a year and of a  *)
(* leap year too, in all the years a u32 of seconds reaches.                *)
THEOREM DateByDay == ASSUME 1970 <= FirstYear, LastYear <= 2106 PROVE Spec => []DateOfDay
<1>1. ASSUME TypeOK PROVE DateOfDay
  <2>1. IsDate(date) /\ date.year \in 1970..2106 /\ day = DayNumber(date)
    BY <1>1, TypeIsDate, YearAssumption DEF TypeOK
  <2>2. UnixDay = YearStart(date.year) + DayOfYear(date) /\ DayOfYear(date) \in 0..(YearLen(date.year) - 1)
    BY <2>1, DayFrom1970 DEF UnixDay
  <2>3. YearOf(UnixDay) = YearAndRest(date.year, DayOfYear(date))
    <3>1. /\ date.year \in Nat /\ 1970 <= date.year /\ date.year <= 2106
          /\ DayOfYear(date) \in Nat /\ DayOfYear(date) < YearLen(date.year)
      BY <2>1, <2>2 DEF YearLen
    <3> QED BY <2>2, <3>1, YearFound
  <2> QED BY <2>1, <2>3, MonthFound DEF GetDate, DateOfDay
<1> QED BY <1>1, CalendarTypes, PTL
=============================================================================
