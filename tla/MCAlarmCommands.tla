-------------------------- MODULE MCAlarmCommands --------------------------
(* A small instance of AlarmCommands for TLC. *)
EXTENDS AlarmCommands

MCModes == {ONCE, EVERY_DAY}
MCPhoneModes == {ONCE}
=============================================================================
