---------------------------- MODULE MCAlarmCore ----------------------------
(* Small instances of AlarmCore for TLC. *)
EXTENDS AlarmStored

MCModes == {ONCE, EVERY_DAY}
(* Two alarms of these are due on different days or on the same one.        *)
MCTwoModes == {ONCE, {2}}
MCWeekModes == {ONCE, {1}, {0, 2, 3}}
=============================================================================
