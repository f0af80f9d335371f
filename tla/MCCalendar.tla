----------------------------- MODULE MCCalendar -----------------------------
(* Calendar and PhoneClock for TLC.                                         *)
EXTENDS PhoneClock

(* Before and after eight in the morning.                                   *)
MCMorning == {300, 709}
(* Ten minutes before noon and the last minute: a snooze carries.           *)
MCMinutes == {710, 1439}
(* A tie, an order by the minute, and days in other months and years.       *)
MCAhead == {<<0, 1>>, <<1, 0>>, <<28, 0>>}
(* A weekday scan stops at the first bit it finds, on either side of today: *)
(* no mode needs more than two bits.                                        *)
MCModes == {mode \in SUBSET AllBits : \A i, j, k \in mode : i = j \/ j = k \/ i = k}
=============================================================================
