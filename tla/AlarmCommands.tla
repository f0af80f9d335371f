---------------------------- MODULE AlarmCommands ----------------------------
(***************************************************************************)
(* The commands of a person and of the phone, as the engine sees them:      *)
(* every caller of alarm_add and alarm_delete in the product, with the      *)
(* operations it makes and their order, but for the reset in alarm_init     *)
(* (alarm_api.c:1140), whose flag nothing sets.  There are two alarms;      *)
(* number n has slot n - 1, and slot n + 1 for its snooze.                  *)
(*                                                                         *)
(* The phone's commands and the keys run in the application task, which     *)
(* also handles the alarm event; what was set on the clock is saved by the  *)
(* ui task when the menu closes (RtcUi).  Between two operations of one task *)
(* the other can run, time passes and power can be lost.  An operation is   *)
(* AlarmCore's, whole: the two tasks inside it at once are not modelled.    *)
(***************************************************************************)
EXTENDS AlarmStored, Sequences

CONSTANTS
  PhoneModes,  \* modes the phone asks for
  MaxCommands, \* bound: commands given
  SleepTime    \* ALARM_SLEEP_ADD_TIME (alarm_user.c), minutes of a snooze

ASSUME CommandAssumption ==
  /\ NumSlots >= 4 /\ {0, 1} \subseteq SwInputs /\ SleepTime \in Nat
  /\ MaxCommands \in Nat
  /\ PhoneModes \union {ONCE, EVERY_DAY} \subseteq ModeInputs
  /\ AllBits \notin PhoneModes \union {ONCE, EVERY_DAY}

VARIABLES
  cmd,    \* what each task still does of its command, and what that is to leave
  order,  \* CFG_USER_PUSH_ALARM_ORDER: the alarm the phone replaced last
  given,  \* commands so far
  (* history *)
  may,    \* settings of each slot that the commands so far allow
  mixed   \* a command started while the other task was in one

cmdVars == <<cmd, order, given, may, mixed>>
allVars == <<vars, cmdVars>>

Alarms == {1, 2}
Tasks == {"app", "ui"}
AlarmSlot(n) == n - 1
SnoozeSlot(n) == n + 1
SlotsOf(n) == {AlarmSlot(n), SnoozeSlot(n)}

Del(i) == [op |-> "del", slot |-> i, alarm |-> ZeroEntry]
Add(i, e) == [op |-> "add", slot |-> i, alarm |-> e]

(* app_alarm_del, and the operations of the other commands.                 *)
OffByOneMutant(n) == <<Del(AlarmSlot(n)), Del(n)>>
app_alarm_del(n) == <<Del(AlarmSlot(n)), Del(SnoozeSlot(n))>>
app_alarm_add(n, e) == Append(app_alarm_del(n), Add(AlarmSlot(n), e))
SavedAlarm(n, e) == <<Del(SnoozeSlot(n)), Del(AlarmSlot(n)), Add(AlarmSlot(n), e)>>
Replaced(i, e) == <<Del(i), Add(i, e)>>

(* alarm_get_info: a slot that is not in use is all zero.                   *)
Info(i) == IF i \in map THEN alarm_tab[i] ELSE ZeroEntry
InUseMutant(n) == AlarmSlot(n) \notin map
Free(n) == Info(AlarmSlot(n)).sw = 0

Set(n, e) == [i \in SlotsOf(n) |-> IF i = AlarmSlot(n) THEN e ELSE ZeroEntry]
Closed(S) == [i \in S |-> ZeroEntry]
Only(i, e) == [j \in {i} |-> e]

Idle == [to |-> 0, ops |-> <<>>, leaves |-> Closed({})]
Busy(task) == cmd[task] # Idle

CmdInit ==
  /\ Init
  /\ cmd = [task \in Tasks |-> Idle] /\ order = 0 /\ given = 0
  /\ may = [i \in Slots |-> {ZeroEntry}] /\ mixed = FALSE

-----------------------------------------------------------------------------
(* A command is given: ops are the calls it is going to make, leaves what   *)
(* it is for, slot by slot.                                                 *)
Begin(task, n, ops, leaves) ==
  /\ pc = "ready" /\ ~ Busy(task)
  /\ given < MaxCommands /\ given' = given + 1
  /\ cmd' = [cmd EXCEPT ![task] = [to |-> n, ops |-> ops, leaves |-> leaves]]
  /\ mixed' = \E other \in Tasks \ {task} : Busy(other)
  /\ may' = [i \in Slots |->
       IF i \in DOMAIN leaves
       THEN {kept[i], ZeroEntry, leaves[i]} \union (IF mixed' THEN may[i] ELSE {})
       ELSE may[i]]
  /\ UNCHANGED vars

PhoneEntries == [sw : {1}, mode : PhoneModes, tod : Minutes]

(* The phone, by number or (AddAny) wherever there is room: alarm 1 or 2 if *)
(* it is off, or else the one it did not replace the last time.             *)
app_alarm_add_by_index(n, e) ==
  /\ Begin("app", n, app_alarm_add(n, e), Set(n, e))
  /\ order' = n

AddAny(e) ==
  LET n == CASE Free(1) -> 1 [] ~ Free(1) /\ Free(2) -> 2
             [] OTHER -> IF order = 1 THEN 2 ELSE 1
  IN  /\ Begin("app", n, app_alarm_add(n, e), Set(n, e))
      /\ order' = IF Free(1) \/ Free(2) THEN order ELSE n

app_alarm_delete(n) ==
  Begin("app", n, app_alarm_del(n), Closed(SlotsOf(n))) /\ UNCHANGED order

app_alarm_del_all ==
  /\ Begin("app", 0, app_alarm_del(1) \o app_alarm_del(2),
           Closed(SlotsOf(1) \union SlotsOf(2)))
  /\ UNCHANGED order

(* The second long press of an alarm's key: the alarm is switched on or off, *)
(* and rings every day from then on.  Its snooze stays.                     *)
flip_alarm_sw(n) ==
  LET i == AlarmSlot(n)
      e == [Info(i) EXCEPT !.sw = IF @ = 0 THEN 1 ELSE 0, !.mode = EVERY_DAY]
  IN  Begin("app", n, Replaced(i, e), Only(i, Setting(e))) /\ UNCHANGED order

(* A key of the ring that is on: its alarm rings again later, or no more.   *)
Rings(n) == cur_active \intersect SlotsOf(n) # {}
user_add_alarm(n) ==
  LET e == [sw |-> 1, mode |-> ONCE, tod |-> (now.min + SleepTime) % DayLen]
  IN  /\ Rings(n)
      /\ Begin("app", n, Replaced(SnoozeSlot(n), e), Only(SnoozeSlot(n), e))
      /\ UNCHANGED order

Unsleep(n) ==
  /\ Rings(n)
  /\ Begin("app", n, <<Del(SnoozeSlot(n))>>, Closed({SnoozeSlot(n)}))
  /\ UNCHANGED order

(* The menu of a setting closes.                                            *)
ui_set_rtc_timeout(n, m) ==
  LET e == [sw |-> 1, mode |-> EVERY_DAY, tod |-> m]
  IN  Begin("ui", n, SavedAlarm(n, e), Set(n, e)) /\ UNCHANGED order

-----------------------------------------------------------------------------
(* The next call of a command; the command is over.                         *)
Call(task) ==
  LET o == Head(cmd[task].ops)
  IN  /\ cmd[task].ops # <<>>
      /\ \/ o.op = "del" /\ alarm_delete(o.slot)
         \/ o.op = "add" /\ alarm_add(o.slot, o.alarm)
      /\ cmd' = [cmd EXCEPT ![task].ops = Tail(@)]
      /\ UNCHANGED <<order, given, may, mixed>>

Return(task) ==
  /\ pc = "ready" /\ Busy(task) /\ cmd[task].ops = <<>>
  /\ cmd' = [cmd EXCEPT ![task] = Idle]
  /\ may' = IF mixed THEN may
            ELSE [i \in Slots |-> IF i \in DOMAIN cmd[task].leaves
                                  THEN {cmd[task].leaves[i]} ELSE may[i]]
  /\ mixed' = (mixed /\ \E other \in Tasks \ {task} : Busy(other))
  /\ UNCHANGED <<vars, order, given>>

(* The application task takes the alarm event when it is in no command.     *)
Ring ==
  /\ ~ Busy("app") /\ alarm_update_info_after_isr
  /\ may' = [i \in Slots |-> IF i \in active_map /\ alarm_tab[i].mode = ONCE
                             THEN may[i] \union {ZeroEntry} ELSE may[i]]
  /\ UNCHANGED <<cmd, order, given, mixed>>

Inside ==
  /\ \/ IsrSlot \/ IsrMask \/ IsrUpdate \/ Arm \/ WriteRecord \/ WriteMask
     \/ InitFresh \/ Format \/ InitUpdate \/ InitWoken \/ alarm_check \/ Tick
  /\ UNCHANGED cmdVars

PowerLost ==
  /\ Crash
  /\ cmd' = [task \in Tasks |-> Idle] /\ mixed' = FALSE
  /\ UNCHANGED <<order, given, may>>

Give ==
  \/ \E e \in PhoneEntries : AddAny(e) \/ \E n \in Alarms : app_alarm_add_by_index(n, e)
  \/ \E n \in Alarms : app_alarm_delete(n) \/ flip_alarm_sw(n)
                         \/ user_add_alarm(n) \/ Unsleep(n)
  \/ app_alarm_del_all
  \/ \E n \in Alarms, m \in Minutes : ui_set_rtc_timeout(n, m)

CmdNext ==
  Give \/ (\E task \in Tasks : Call(task) \/ Return(task)) \/ Ring \/ Inside \/ PowerLost

CmdSpec == CmdInit /\ [][CmdNext]_allVars
-----------------------------------------------------------------------------
(* A start at any time, also after a loss of power in the middle of a       *)
(* command or between two (alarm_api.c:999 deletes before it adds): each    *)
(* slot has what it had, what the command is to leave, or is closed, and    *)
(* exactly what the command is to leave once it is over.  Nothing a command *)
(* is not about changes, and no snooze of a replaced alarm is left behind,  *)
(* also when alarms ring and the two tasks' calls come in between.          *)
CommandWhole == \A i \in Slots : kept[i] \in may[i]

(* The phone's alarm without a number (alarm_api.c:979-1002) never costs a  *)
(* stored alarm while the other one is off, whatever switched, deleted,     *)
(* rang or restarted before.                                                *)
FreeAlarmFirst ==
  [][\A n \in Alarms :
       (\E e \in PhoneEntries : AddAny(e)) /\ cmd'["app"].to = n
         /\ kept[AlarmSlot(n)] # ZeroEntry
       => \A other \in Alarms : kept[AlarmSlot(other)] # ZeroEntry]_allVars
=============================================================================
