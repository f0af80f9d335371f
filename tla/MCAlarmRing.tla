---------------------------- MODULE MCAlarmRing ----------------------------
(* AlarmRing for TLC.                                                       *)
EXTENDS AlarmRing

(* An alarm or the end of a prompt, and the low-battery events of           *)
(* alarm_stop, with room for one more.                                      *)
MCMaxEvents == 4
(* Calls and a battery that runs low; snoozes with a phone; and whatever    *)
(* can come in the 50 ms before the power-off task.                         *)
MCEnvs == {{"phone", "call", "battery", "empty"}, {"snooze", "phone"},
           {"quick", "empty"}}
MCPhone == {{"phone"}}
=============================================================================
