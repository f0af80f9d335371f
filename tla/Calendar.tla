------------------------------ MODULE Calendar ------------------------------
(***************************************************************************)
(* The dates the alarms are computed with: the calendar functions of       *)
(* SDK/apps/soundbox/task_manager/rtc/alarm_api.c and alarm_user.c.        *)
(*                                                                         *)
(* A clock walks through the years.  On every day the functions, which     *)
(* know only year, month and day, are compared with AlarmTimes, which      *)
(* counts days: AlarmCore is checked and proved about over day numbers,    *)
(* and this module is why that is the same thing.                          *)
(***************************************************************************)
EXTENDS AlarmTimes, Integers, Sequences

CONSTANTS
  FirstYear, LastYear, \* the years the clock walks through
  MinuteInputs,        \* the minutes of the day it stops at
  ModeInputs,          \* the modes of the alarms
  NumSlots,            \* the slots of the table of alarms
  TimeAhead            \* times of alarms: <<days ahead, minute of the day>>

ASSUME LengthAssumption == DayLen = 24 * 60 /\ WeekLen = 7
ASSUME YearAssumption == FirstYear \in Nat /\ LastYear \in Nat /\ FirstYear <= LastYear
ASSUME InputAssumption ==
  MinuteInputs \subseteq Minutes /\ ModeInputs \subseteq SUBSET AllBits
ASSUME SlotAssumption == NumSlots \in Nat /\ TimeAhead \subseteq (0..28) \X Minutes

VARIABLES
  date,  \* the RTC's date
  day,   \* its number, day 0 being Monday 1 January 1900
  min    \* minute of the day

vars == <<date, day, min>>

Leap(y) == (y % 4 = 0 /\ y % 100 # 0) \/ y % 400 = 0
NoLeapMutant(y, m) ==
  IF m = 2 THEN 28 ELSE IF m \in {4, 6, 9, 11} THEN 30 ELSE 31
MonthLen(y, m) ==
  IF m = 2 THEN IF Leap(y) THEN 29 ELSE 28 ELSE IF m \in {4, 6, 9, 11} THEN 30 ELSE 31
Date(y, m, d) == [year |-> y, month |-> m, day |-> d]

LeapsBefore(y) == ((y - 1) \div 4) - ((y - 1) \div 100) + ((y - 1) \div 400)
DaysBefore(y, m) ==
  <<0, 31, 59, 90, 120, 151, 181, 212, 243, 273, 304, 334>>[m]
    + (IF m > 2 /\ Leap(y) THEN 1 ELSE 0)
DayNumber(d) ==
  365 * (d.year - 1900) + LeapsBefore(d.year) - LeapsBefore(1900)
    + DaysBefore(d.year, d.month) + d.day - 1

-----------------------------------------------------------------------------
(* alarm_api.c.                                                             *)

rtc_calculate_next_few_day(d, days) ==
  LET n == d.day + days  len == MonthLen(d.year, d.month)
  IN  IF days = 0 \/ days >= 29 THEN d
      ELSE IF n <= len THEN [d EXCEPT !.day = n]
      ELSE IF d.month < 12 THEN Date(d.year, d.month + 1, n - len)
                           ELSE Date(d.year + 1, 1, n - len)

(* A u32 below zero has wrapped around, and 2^32 % 7 = 4.                   *)
U32Mod7(val) == IF val < 0 THEN (val + 4) % 7 ELSE val % 7

(* Zeller's formula, January and February being months of the year before.  *)
SameYearMutant(d) ==
  LET month == IF d.month < 3 THEN d.month + 12 ELSE d.month
      year == d.year % 100  century == d.year \div 100
  IN  U32Mod7(year + year \div 4 + century \div 4 + (26 * (month + 1)) \div 10
                + d.day - century * 2 - 1)
rtc_calculate_week_val(d) ==
  LET month == IF d.month < 3 THEN d.month + 12 ELSE d.month
      y == IF d.month < 3 THEN d.year - 1 ELSE d.year
      year == y % 100  century == y \div 100
  IN  U32Mod7(year + year \div 4 + century \div 4 + (26 * (month + 1)) \div 10
                + d.day - century * 2 - 1)

(* The scans over the bits of the mode; Sunday counts as 7.                 *)
SundayFirstMutant(d, mode) ==
  LET week == rtc_calculate_week_val(d)
      rest == {i \in 1..7 : i \in mode /\ i >= week}
      pick == IF rest # {} THEN Least(rest) ELSE Least(mode \ {0})
  IN  rtc_calculate_next_few_day(d, IF pick >= week THEN pick - week
                                                    ELSE 7 - (week - pick))
__alarm_calc_time_by_week_mode(d, mode) ==
  LET val == rtc_calculate_week_val(d)
      week == IF val = 0 THEN 7 ELSE val
      rest == {i \in 1..7 : i \in mode /\ i >= week}
      pick == IF rest # {} THEN Least(rest) ELSE Least(mode \ {0})
  IN  rtc_calculate_next_few_day(d, IF pick >= week THEN pick - week
                                                    ELSE 7 - (week - pick))

alarm_calc_real_time(d, at, tod, mode) ==
  LET first == IF tod > at THEN d ELSE rtc_calculate_next_few_day(d, 1)
  IN  IF mode \in {ONCE, EVERY_DAY} THEN first
                                    ELSE __alarm_calc_time_by_week_mode(first, mode)

(* alarm_cmp_time: 1 when t1 is later, -1 when it is earlier, 0 when equal.  *)
Members == <<"year", "month", "day", "min">>
DayFirstMutant(t1, t2) ==
  LET order == <<"day", "month", "year", "min">>
      diff == {k \in 1..4 : t1[order[k]] # t2[order[k]]}
  IN  IF diff = {} THEN 0
      ELSE IF t1[order[Least(diff)]] > t2[order[Least(diff)]] THEN 1 ELSE -1
alarm_cmp_time(t1, t2) ==
  LET diff == {k \in 1..4 : t1[Members[k]] # t2[Members[k]]}
  IN  IF diff = {} THEN 0
      ELSE IF t1[Members[Least(diff)]] > t2[Members[Least(diff)]] THEN 1 ELSE -1

(* __alarm_get_the_earliest: one pass over the slots, keeping the earliest  *)
(* time met so far and the slots that share it.                             *)
LookedAt(s, i, on, times) ==
  LET ret == alarm_cmp_time(times[s.index], times[i])
  IN  IF i \notin on THEN s
      ELSE IF s.active = {} \/ ret = 1 THEN [index |-> i, active |-> {i}]
      ELSE IF ret = 0 THEN [s EXCEPT !.active = @ \union {i}] ELSE s
EarliestScan(slots, on, times) ==
  LET scan[n \in 0..slots] ==
        IF n = 0 THEN [index |-> 0, active |-> {}]
                 ELSE LookedAt(scan[n - 1], n - 1, on, times)
  IN  scan[slots].active

(* user_add_alarm: the time of day of the snooze.                           *)
ALARM_SLEEP_ADD_TIME == 10
NoHourMutant(m) ==
  LET sum == (m % 60) + ALARM_SLEEP_ADD_TIME
  IN  (m \div 60) * 60 + (sum % 60)
SnoozeTime(m) ==
  LET sum == (m % 60) + ALARM_SLEEP_ADD_TIME
      hour == IF sum >= 60 THEN m \div 60 + 1 ELSE m \div 60
  IN  (hour % 24) * 60 + (sum % 60)

-----------------------------------------------------------------------------
Init ==
  /\ date = Date(FirstYear, 1, 1) /\ day = DayNumber(date)
  /\ min \in MinuteInputs

(* The clock moves on within the day, or to the next one.                   *)
Later == min' \in {m \in MinuteInputs : m > min} /\ UNCHANGED <<date, day>>
Midnight ==
  /\ date # Date(LastYear, 12, 31)
  /\ date' = IF date.day < MonthLen(date.year, date.month)
             THEN [date EXCEPT !.day = @ + 1]
             ELSE IF date.month < 12 THEN Date(date.year, date.month + 1, 1)
                                     ELSE Date(date.year + 1, 1, 1)
  /\ day' = day + 1 /\ min' \in MinuteInputs

Next == Later \/ Midnight
Spec == Init /\ [][Next]_vars

-----------------------------------------------------------------------------
TypeOK ==
  /\ date \in [year : FirstYear..LastYear, month : 1..12, day : 1..31]
  /\ date.day <= MonthLen(date.year, date.month)
  /\ day = DayNumber(date) /\ min \in Minutes

(* From 2020 on the weekday computed from a date is the day's weekday,      *)
(* month ends, leap days and centuries included.  Before, the sum of Zeller *)
(* can fall below zero, and the weekday is then the fourth one after it.    *)
WrapEnds == 2020
WeekdayOfDate ==
  LET right == IF WeekDay(day) = 7 THEN 0 ELSE WeekDay(day)
  IN  /\ date.year >= WrapEnds => rtc_calculate_week_val(date) = right
      /\ rtc_calculate_week_val(date) \in {right, (right + 4) % 7}

(* The date and time computed for an alarm are the first moment after now   *)
(* at its time of day on one of its weekdays, which is also what AlarmTimes *)
(* says over day numbers: for an alarm of any mode from 2020 on, and for    *)
(* one that asks for no weekday in every year.                              *)
AlarmDue ==
  \A tod \in MinuteInputs, mode \in ModeInputs :
    LET due == DayNumber(alarm_calc_real_time(date, min, tod, mode))
    IN  date.year >= WrapEnds \/ mode \in {ONCE, EVERY_DAY} =>
          /\ due = NextTime([mode |-> mode, tod |-> tod], [day |-> day, min |-> min]).day
          /\ OnDay(mode, due) /\ Before([day |-> day, min |-> min],
                                        [day |-> due, min |-> tod])
          /\ \A d \in day..(due - 1) :
               OnDay(mode, d) => ~ Before([day |-> day, min |-> min],
                                          [day |-> d, min |-> tod])

(* The slots one pass over the table finds are exactly those whose time no  *)
(* other one is before, whichever slots are on and however they tie (the    *)
(* dates do not depend on the time of day: looked at once a day).           *)
SlotSet == 0..(NumSlots - 1)
EarliestFound ==
  min = Least(MinuteInputs) =>
  \A ahead \in [SlotSet -> TimeAhead], on \in SUBSET SlotSet :
    LET at(i) == rtc_calculate_next_few_day(date, ahead[i][1])
        times == [i \in SlotSet |->
                    [year |-> at(i).year, month |-> at(i).month, day |-> at(i).day,
                     min |-> ahead[i][2]]]
        w == [i \in SlotSet |-> [day |-> day + ahead[i][1], min |-> ahead[i][2]]]
    IN  EarliestScan(NumSlots, on, times) = Earliest(on, w)

(* A snooze is due ten minutes from now, over the hour and over midnight.   *)
SnoozeDue ==
  LET due == NextTime([mode |-> ONCE, tod |-> SnoozeTime(min)],
                      [day |-> day, min |-> min])
  IN  due.day * DayLen + due.min = day * DayLen + min + ALARM_SLEEP_ADD_TIME
=============================================================================
