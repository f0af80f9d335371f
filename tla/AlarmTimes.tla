----------------------------- MODULE AlarmTimes -----------------------------
(***************************************************************************)
(* When an alarm is due: the arithmetic of SDK/apps/soundbox/task_manager/ *)
(* rtc/alarm_api.c over days and minutes.  Days are numbered, from a       *)
(* Monday; Calendar relates them to the dates the code computes with.      *)
(***************************************************************************)
EXTENDS Naturals

CONSTANTS
  DayLen,  \* minutes of a day
  WeekLen  \* days of a week; weekdays are 1..WeekLen, bits of the mode

ASSUME TimeAssumption == DayLen \in Nat \ {0} /\ WeekLen \in Nat \ {0}

Minutes == 0..(DayLen - 1)
Times == [day : Nat, min : Minutes]

(* E_ALARM_MODE_*: no bit is "once", bit 0 alone "every day", bit w "every  *)
(* week on day w".  alarm_add refuses a mode above M_MAX_ALARM_MODE (0xFE). *)
ONCE == {}
EVERY_DAY == {0}
AllBits == 0..WeekLen

Before(s, t) == s.day < t.day \/ (s.day = t.day /\ s.min < t.min)
NextMinMutant(t) == [day |-> t.day, min |-> t.min + 1]
NextMin(t) ==
  IF t.min + 1 < DayLen THEN [day |-> t.day, min |-> t.min + 1]
                        ELSE [day |-> t.day + 1, min |-> 0]

(* rtc_calculate_week_val with Sunday as WeekLen; day 0 is a Monday.        *)
WeekDay(d) == (d % WeekLen) + 1

Least(S) == CHOOSE x \in S : \A y \in S : x <= y

(* First day from d on that the weekday bits of mode allow: later this      *)
(* week, or else the smallest of the bits, next week.                       *)
NextWeekDay(d, mode) ==
  LET wd == WeekDay(d)
      bits == mode \ {0}
      rest == {b \in bits : b >= wd}
      pick == IF rest # {} THEN Least(rest) ELSE Least(bits)
  IN  IF pick >= wd THEN d + (pick - wd) ELSE d + (WeekLen - (wd - pick))

(* Today if the time of day is still ahead (to the minute), else tomorrow.  *)
FirstDayMutant(tod, t) == IF tod >= t.min THEN t.day ELSE t.day + 1
FirstDay(tod, t) == IF tod > t.min THEN t.day ELSE t.day + 1

(* The days an alarm is for.                                                *)
OnDay(mode, d) == mode \in {ONCE, EVERY_DAY} \/ WeekDay(d) \in mode

NextTime(e, t) ==
  LET d == FirstDay(e.tod, t)
  IN  [day |-> IF e.mode \in {ONCE, EVERY_DAY} THEN d ELSE NextWeekDay(d, e.mode),
       min |-> e.tod]

(* The slots of on that no other one is due before, w having their times.   *)
FirstEarliestMutant(on, w) ==
  {i \in on : \A j \in on \ {i} :
                 Before(w[i], w[j]) \/ (i < j /\ ~ Before(w[j], w[i]))}
Earliest(on, w) == {i \in on : \A j \in on : ~ Before(w[j], w[i])}
=============================================================================
