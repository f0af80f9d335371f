----------------------------- MODULE PhoneClock -----------------------------
(***************************************************************************)
(* The conversion of the phone's clock (SDK/cpu/br23/xiaoyun_agreement.c), *)
(* compared with the date on every day the clock of Calendar walks through. *)
(***************************************************************************)
EXTENDS Calendar

(* xiaoyun_agreement.c: GetDateTimeFromSecond, given the days since 1970    *)
(* and the minute of the day.  Its loops are passes over what is left of    *)
(* the days; a pass after the loop has ended changes nothing.               *)
Passes(body, first, k) ==
  LET pass[n \in 0..k] == IF n = 0 THEN first ELSE body[pass[n - 1]]
  IN  pass[k]

(* A u32 of seconds ends in 2106.                                           *)
Years == 136
YearBody ==
  [p \in [year : Nat, days : Nat] |->
     IF p.days > 365
     THEN [year |-> p.year + 1, days |-> p.days - (IF Leap(p.year) THEN 366 ELSE 365)]
     ELSE p]
YearLoop(lDay) == Passes(YearBody, [year |-> 1970, days |-> lDay], Years)
YearOf(lDay) ==
  LET p == YearLoop(lDay)
  IN  IF p.days = 365 /\ ~ Leap(p.year) THEN [year |-> p.year + 1, days |-> 0] ELSE p

MonthBody(i) ==
  [p \in [month : Nat, days : Nat] |->
     IF p.days >= MonthLen(i, p.month)
     THEN [month |-> p.month + 1, days |-> p.days - MonthLen(i, p.month)]
     ELSE p]
DateIn(y) ==
  LET p == Passes(MonthBody(y.year), [month |-> 1, days |-> y.days], 12)
  IN  Date(y.year, p.month, p.days + 1)

LastOfYearMutant(lDay) == DateIn(YearLoop(lDay))
GetDate(lDay) == DateIn(YearOf(lDay))
GetDateTimeFromSecond(lDay, m) ==
  [date |-> GetDate(lDay), min |-> (((m \div 60) + 8) % 24) * 60 + (m % 60)]

-----------------------------------------------------------------------------
(* The date of a day since 1970 is that day's date, on the last day of a    *)
(* year and of a leap year too.                                             *)
UnixDay == day - DayNumber(Date(1970, 1, 1))
DateOfDay == GetDate(UnixDay) = date

(* The phone sends UTC; the date and time set from it are those of Beijing, *)
(* eight hours later.                                                       *)
BeijingTime ==
  LET utc == UnixDay * DayLen + min - 8 * 60
  IN  GetDateTimeFromSecond(utc \div DayLen, utc % DayLen)
        = [date |-> date, min |-> min]
=============================================================================
