----------------------------- MODULE AlarmStored -----------------------------
(***************************************************************************)
(* The alarm engine as an implementation of AlarmStore: a setting is in the *)
(* VM when its record is (a slot that was in use) or when the mask names it *)
(* (a new one), and the other write changes nothing a start would find.     *)
(***************************************************************************)
EXTENDS AlarmCore

(* What alarm_vm_read_info would make of the VM: an alarm that is off, or   *)
(* that has been deleted, is closed whatever its record says.               *)
Setting(e) == IF e.sw = 0 THEN ZeroEntry ELSE e
up == pc # "off"
kept == [i \in Slots |-> IF i \in RestoredSw(vm) THEN RestoredTab(vm)[i] ELSE ZeroEntry]

(* The running handler still has to change the slot.                        *)
Unwritten == pc \in {"arm", "rec"} \/ (pc = "mask" /\ slot \notin vm.map)
StillRinging == {i \in (IF pc = "isr_mask" THEN todo \ {slot} ELSE todo) :
                   alarm_tab[i].mode = ONCE}
asked ==
  IF wr = "rec" /\ Unwritten THEN {<<slot, Setting(alarm_tab[slot])>>}
  ELSE IF pc \in {"isr", "isr_mask"} THEN {<<i, ZeroEntry>> : i \in StillRinging}
  ELSE {}

Settings == {Setting(e) : e \in Entries} \union {ZeroEntry}

Store == INSTANCE AlarmStore WITH Closed <- ZeroEntry

(* The engine does what AlarmStore promises.  A loss of power between any   *)
(* two effects of a handler (the two VM writes of a setting, or those of    *)
(* several alarms that ring) never leaves a slot half changed, changes      *)
(* another slot, or lets a setting that was given up appear at a later      *)
(* start (alarm_api.c:244-283).                                             *)
SettingsStored == Store!Spec
=============================================================================
