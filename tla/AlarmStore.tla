----------------------------- MODULE AlarmStore -----------------------------
(***************************************************************************)
(* What the alarm engine promises of its settings, whatever it does with    *)
(* tables, masks and records: a store with one alarm in each slot.          *)
(*                                                                         *)
(* A change is asked for, and happens later, at one moment and in its slot  *)
(* alone; nothing else is asked for until it has.  Only a loss of power     *)
(* leaves a change that was asked for undone, and then it never happens:    *)
(* the next start finds either what was there before or what was asked.     *)
(* When alarms ring, the ones set to ring once are closed the same way,     *)
(* each by itself.                                                          *)
(***************************************************************************)
CONSTANTS
  Slots,    \* where alarms are kept
  Settings, \* what can be set
  Closed    \* the setting of a slot with no enabled alarm

VARIABLES
  up,       \* the device runs
  kept,     \* what a start finds in each slot
  asked     \* the changes that were asked for: pairs of a slot and a setting

vars == <<up, kept, asked>>

Init == up = FALSE /\ kept = [i \in Slots |-> Closed] /\ asked = {}

Start == ~ up /\ up' = TRUE /\ UNCHANGED <<kept, asked>>

Ask(i, e) ==
  /\ up /\ asked = {}
  /\ asked' = {<<i, e>>}
  /\ UNCHANGED <<up, kept>>

Ring(rung) ==
  /\ up /\ asked = {}
  /\ asked' = {<<i, Closed>> : i \in rung}
  /\ UNCHANGED <<up, kept>>

Change(i, e) ==
  /\ <<i, e>> \in asked
  /\ kept' = [kept EXCEPT ![i] = e]
  /\ asked' = asked \ {<<i, e>>}
  /\ UNCHANGED up

PowerLost == up /\ up' = FALSE /\ asked' = {} /\ UNCHANGED kept

Next ==
  \/ Start \/ PowerLost
  \/ \E rung \in SUBSET Slots : Ring(rung)
  \/ \E i \in Slots, e \in Settings : Ask(i, e) \/ Change(i, e)

Spec == Init /\ [][Next]_vars
=============================================================================
