------------------------------ MODULE AlarmCore ------------------------------
(***************************************************************************)
(* The alarm engine of the clock speaker: SDK/apps/soundbox/task_manager/  *)
(* rtc/alarm_api.c, with the RTC alarm register it drives and the VM (flash *)
(* configuration area) it persists to.                                     *)
(*                                                                         *)
(* The table of alarms lives in RAM.  One RTC register holds the time of    *)
(* the earliest enabled alarm; active_map holds the slots that share that   *)
(* time.  When the register matches, an interrupt posts an event, and only  *)
(* when the event is handled is active_map read to find what is ringing.    *)
(*                                                                         *)
(* Handlers run one at a time in the application task.  A handler is split  *)
(* at the points where the clock, the interrupt or a loss of power can come *)
(* between two of its effects: table update (under local_irq_disable),      *)
(* write of the alarm register, VM record, VM mask.                         *)
(***************************************************************************)
EXTENDS AlarmTimes

CONSTANTS
  NumSlots,     \* M_MAX_ALARM_NUMS (alarm.h:81), 5 in the product
  MaxDay,       \* bound: last day the clock reaches
  MaxEvents,    \* bound: alarm events waiting in the queue
  SwInputs,     \* values of T_ALARM.sw that callers pass to alarm_add
  ModeInputs,   \* values of T_ALARM.mode that callers pass, as sets of bits
  DayInputs,    \* dates a caller of rtc_update_time_api sets
  Crashes,      \* whether power can be lost
  WritesMayFail,\* whether syscfg_write can return an error
  TickInHandler \* whether the clock can move between a handler's effects

ASSUME SizeAssumption == NumSlots \in Nat \ {0}
ASSUME BoundAssumption == MaxDay \in Nat /\ MaxEvents \in Nat
ASSUME InputAssumption ==
  SwInputs \subseteq Nat /\ ModeInputs \subseteq SUBSET (0..WeekLen)
    /\ DayInputs \subseteq Nat
ASSUME SwitchAssumption ==
  Crashes \in BOOLEAN /\ WritesMayFail \in BOOLEAN /\ TickInHandler \in BOOLEAN

Slots == 0..(NumSlots - 1)

Entry == [sw : Nat, mode : SUBSET AllBits, tod : Minutes]
ZeroEntry == [sw |-> 0, mode |-> ONCE, tod |-> 0]
ZeroTime == [day |-> 0, min |-> 0]

VARIABLES
  now,        \* RTC calendar, to the minute
  hw,         \* RTC alarm register: its time, and whether it is enabled
  wake,       \* the register matched while the device was down
  pc,         \* where the running handler is; "ready" between two handlers
  wr,         \* VM writes the running handler still does after the register
  slot,       \* slot whose record the handler writes
  todo,       \* slots alarm_update_info_after_isr still has to go through
  alarm_tab,  \* alarm_tab[], without the date
  when,       \* date and time of each enabled alarm (alarm_tab[].time)
  map, map_sw, active_map,  \* the fields of alarm_map
  cur_active, \* alarm_cur_active
  woken,      \* started by the alarm, register not rewritten since
  check,      \* the alarm_check timer is running
  events,     \* alarm events posted and not handled
  vm,         \* what the VM holds
  (* history *)
  armed,      \* slots the register was last written for
  due,        \* slots whose time it was at the last match of the register
  calm,       \* nothing recomputed active_map since that match
  promise     \* what the finished operations say of each slot

ram == <<alarm_tab, when, map, map_sw, active_map, cur_active>>
ghosts == <<armed, due, calm>>
vars == <<now, hw, wake, pc, wr, slot, todo, alarm_tab, when, map, map_sw,
          active_map, cur_active, woken, check, events, vm, armed, due, calm,
          promise>>

(* The date of a slot that is not enabled is never read before it is        *)
(* computed again; it is kept at zero.                                      *)
UpdateAll(tab, on, t) ==
  [i \in Slots |-> IF i \in on THEN NextTime(tab[i], t) ELSE ZeroTime]

-----------------------------------------------------------------------------
(* The VM: a mask block (map, map_sw, active_map) and one record a slot.    *)

VmContents ==
  [valid : BOOLEAN, map : SUBSET Slots, map_sw : SUBSET Slots,
   active_map : SUBSET Slots, rec : [Slots -> [head : BOOLEAN, alarm : Entry]]]

(* alarm_vm_read_info: map_sw of a mapped slot follows its record.          *)
RestoredTab(v) == [i \in Slots |-> IF i \in v.map /\ v.rec[i].head
                                     THEN v.rec[i].alarm ELSE ZeroEntry]
MaskSwMutant(v) == v.map_sw
RestoredSw(v) ==
  {i \in Slots : IF i \in v.map /\ v.rec[i].head THEN v.rec[i].alarm.sw # 0
                                                 ELSE i \in v.map_sw}

NoRecord == [head |-> FALSE, alarm |-> ZeroEntry]
BlankVm == [valid |-> FALSE, map |-> {}, map_sw |-> {}, active_map |-> {},
            rec |-> [i \in Slots |-> NoRecord]]

MaskWritten(v) ==
  [v EXCEPT !.valid = TRUE, !.map = map, !.map_sw = map_sw, !.active_map = active_map]
RecordWritten(v, i, e) == [v EXCEPT !.rec[i] = [head |-> TRUE, alarm |-> e]]

(* The VM writes after the register: for a slot, the record and then the     *)
(* mask (alarm_vm_write_info_by_index); for the rest, the mask or nothing.  *)
MaskFirstMutant(w, at) ==
  CASE at = "arm" /\ w # "none" -> "mask"
    [] at = "mask" /\ w = "rec" -> "rec"
    [] OTHER -> "ready"
NextWrite(w, at) ==
  CASE at = "arm" /\ w = "rec" -> "rec"
    [] at = "arm" /\ w \in {"mask", "ring"} -> "mask"
    [] at = "rec" -> "mask"
    [] OTHER -> "ready"

(* A one-shot alarm that rang is switched off. *)
StillOnMutant(e) == e
AfterRing(e) == IF e.mode = ONCE THEN [e EXCEPT !.sw = 0] ELSE e

(* What rings when the event is handled. *)
EnabledMutant == map_sw
Ringing == active_map

Promises == [st : {"on", "off", "open"}, alarm : Entry]
On(e) == [st |-> "on", alarm |-> e]
Off == [st |-> "off", alarm |-> ZeroEntry]
Open == [st |-> "open", alarm |-> ZeroEntry]

(* What a finished operation on a slot leaves: enabled as asked for, off,   *)
(* or, for a switch value that is neither 0 nor 1, nothing definite.        *)
Outcome(e) == CASE e.sw = 0 -> Off [] e.sw = 1 -> On(e) [] OTHER -> Open

Init ==
  /\ now = ZeroTime /\ hw = [en |-> FALSE, at |-> ZeroTime] /\ wake = FALSE
  /\ pc = "off" /\ wr = "none" /\ slot = 0 /\ todo = {}
  /\ alarm_tab = [i \in Slots |-> ZeroEntry] /\ when = [i \in Slots |-> ZeroTime]
  /\ map = {} /\ map_sw = {} /\ active_map = {} /\ cur_active = {}
  /\ woken = FALSE /\ check = FALSE /\ events = 0 /\ vm = BlankVm
  /\ armed = {} /\ due = {} /\ calm = FALSE
  /\ promise = [i \in Slots |-> Off]

-----------------------------------------------------------------------------
(* The clock and its interrupt. *)

CanPost == events < MaxEvents

(* The calendar moves to the next minute.  On a match alm_wakeup_isr posts  *)
(* the event; with the device down the match starts it instead.             *)
Tick ==
  LET t == NextMin(now)
      match == hw.en /\ hw.at = t
  IN  /\ t.day <= MaxDay
      /\ TickInHandler \/ pc \in {"ready", "off"}
      /\ now' = t
      /\ IF ~ match THEN UNCHANGED <<wake, events, due, calm>>
         ELSE IF pc = "off"
         THEN wake' = TRUE /\ due' = armed /\ UNCHANGED <<events, calm>>
         ELSE /\ CanPost
              /\ events' = events + 1
              /\ due' = armed
              /\ calm' = (events = 0 /\ ~ woken)
              /\ UNCHANGED wake
      /\ UNCHANGED <<hw, pc, wr, slot, todo, ram, woken, check, vm, armed, promise>>

-----------------------------------------------------------------------------
(* The operations: what each does to the table, under local_irq_disable.    *)
(* Arm and the VM writes finish all of them.                                *)

alarm_add(i, e) ==
  /\ pc = "ready"
  /\ e.mode # AllBits
  /\ map' = map \union {i}
  /\ map_sw' = CASE e.sw = 0 -> map_sw \ {i}
                 [] e.sw = 1 -> map_sw \union {i}
                 [] OTHER -> map_sw
  /\ alarm_tab' = [alarm_tab EXCEPT ![i] = e]
  /\ when' = UpdateAll(alarm_tab', map_sw', now)
  /\ slot' = i /\ wr' = "rec" /\ pc' = "arm"
  /\ promise' = [promise EXCEPT ![i] = Open]
  /\ UNCHANGED <<now, hw, wake, todo, active_map, cur_active, woken, check,
                 events, vm, ghosts>>

alarm_delete(i) ==
  /\ pc = "ready"
  /\ map' = map \ {i}
  /\ map_sw' = map_sw \ {i}
  /\ alarm_tab' = [alarm_tab EXCEPT ![i].sw = 0]
  /\ when' = UpdateAll(alarm_tab', map_sw', now)
  /\ slot' = i /\ wr' = "rec" /\ pc' = "arm"
  /\ promise' = [promise EXCEPT ![i] = Open]
  /\ UNCHANGED <<now, hw, wake, todo, active_map, cur_active, woken, check,
                 events, vm, ghosts>>

rtc_update_time_api(t) ==
  /\ pc = "ready"
  /\ now' = t
  /\ when' = UpdateAll(alarm_tab, map_sw, t)
  /\ wr' = "mask" /\ pc' = "arm"
  /\ UNCHANGED <<hw, wake, slot, todo, alarm_tab, map, map_sw, active_map,
                 cur_active, woken, check, events, vm, ghosts, promise>>

(* The alarm event reaches alarm_update_info_after_isr: what rings is what  *)
(* active_map holds now.                                                    *)
alarm_update_info_after_isr ==
  /\ pc = "ready" /\ events > 0
  /\ events' = events - 1
  /\ cur_active' = Ringing
  /\ todo' = active_map
  /\ pc' = "isr"
  /\ promise' = [i \in Slots |->
       IF i \in active_map /\ alarm_tab[i].mode = ONCE THEN Open ELSE promise[i]]
  /\ UNCHANGED <<now, hw, wake, wr, slot, alarm_tab, when, map, map_sw,
                 active_map, woken, check, vm, ghosts>>

(* One slot of its loop: a one-shot alarm is switched off, and the record   *)
(* is written.                                                              *)
IsrSlot ==
  LET i == Least(todo)
      e == AfterRing(alarm_tab[i])
  IN  /\ pc = "isr" /\ todo # {}
      /\ alarm_tab' = [alarm_tab EXCEPT ![i] = e]
      /\ map_sw' = IF e.mode = ONCE THEN map_sw \ {i} ELSE map_sw
      /\ slot' = i
      /\ \/ vm' = RecordWritten(vm, i, e) /\ pc' = "isr_mask" /\ UNCHANGED todo
         \/ WritesMayFail /\ todo' = todo \ {i} /\ UNCHANGED <<vm, pc>>
      /\ UNCHANGED <<now, hw, wake, wr, when, map, active_map, cur_active, woken,
                     check, events, ghosts, promise>>

IsrMask ==
  /\ pc = "isr_mask"
  /\ vm' = MaskWritten(vm) \/ (WritesMayFail /\ UNCHANGED vm)
  /\ todo' = todo \ {slot}
  /\ pc' = "isr"
  /\ UNCHANGED <<now, hw, wake, wr, slot, ram, woken, check, events, ghosts, promise>>

(* After the loop every enabled alarm gets its next time.                   *)
IsrUpdate ==
  /\ pc = "isr" /\ todo = {}
  /\ when' = UpdateAll(alarm_tab, map_sw, now)
  /\ wr' = "ring" /\ pc' = "arm"
  /\ UNCHANGED <<now, hw, wake, slot, todo, alarm_tab, map, map_sw, active_map,
                 cur_active, woken, check, events, vm, ghosts, promise>>

(* __alarm_get_the_earliest and alarm_hw_write_time. *)
Arm ==
  LET E == Earliest(map_sw, when)
      index == Least(E)
  IN  /\ pc = "arm"
      /\ active_map' = E
      /\ hw' = IF map_sw = {} THEN [hw EXCEPT !.en = FALSE]
               ELSE [en |-> alarm_tab[index].sw # 0, at |-> when[index]]
      /\ armed' = E /\ calm' = FALSE
      /\ woken' = FALSE
      /\ pc' = NextWrite(wr, "arm")
      /\ UNCHANGED <<now, wake, wr, slot, todo, alarm_tab, when, map, map_sw,
                     cur_active, check, events, vm, due, promise>>

(* alarm_vm_write_info_by_index: the record first; the mask only after the  *)
(* record was written.                                                      *)
WriteRecord ==
  /\ pc = "rec"
  /\ \/ /\ vm' = RecordWritten(vm, slot, alarm_tab[slot])
        /\ pc' = NextWrite(wr, "rec")
        /\ UNCHANGED wr
     \/ WritesMayFail /\ pc' = "ready" /\ wr' = "none" /\ UNCHANGED vm
  /\ UNCHANGED <<now, hw, wake, slot, todo, ram, woken, check, events, ghosts, promise>>

(* alarm_vm_write_mask ends the handler.  What it leaves of the slots it    *)
(* worked on is now promised; after the event, the alarm rings.             *)
WriteMask ==
  /\ pc = "mask"
  /\ vm' = MaskWritten(vm) \/ (WritesMayFail /\ UNCHANGED vm)
  /\ pc' = NextWrite(wr, "mask")
  /\ wr' = "none"
  /\ promise' =
       CASE wr = "rec" -> [promise EXCEPT ![slot] = Outcome(alarm_tab[slot])]
         [] wr = "ring" -> [i \in Slots |->
              IF i \in cur_active /\ alarm_tab[i].mode = ONCE THEN Off ELSE promise[i]]
         [] OTHER -> promise
  /\ UNCHANGED <<now, hw, wake, slot, todo, ram, woken, check, events, ghosts>>

-----------------------------------------------------------------------------
(* Loss of power and start. *)

Crash ==
  /\ Crashes /\ pc # "off"
  /\ pc' = "off" /\ wr' = "none" /\ slot' = 0 /\ todo' = {}
  /\ alarm_tab' = [i \in Slots |-> ZeroEntry] /\ when' = [i \in Slots |-> ZeroTime]
  /\ map' = {} /\ map_sw' = {} /\ active_map' = {} /\ cur_active' = {}
  /\ woken' = FALSE /\ check' = FALSE /\ events' = 0 /\ calm' = FALSE
  /\ UNCHANGED <<now, hw, wake, vm, armed, due, promise>>

(* alarm_init with a VM that was never written: alarm_vm_reset writes an    *)
(* empty mask, then a blank record for every slot, up to the first error.   *)
Started(w) == IF w THEN "ready" ELSE "arm"

InitFresh ==
  /\ pc = "off" /\ ~ vm.valid
  /\ \/ vm' = MaskWritten(vm) /\ pc' = "format"
     \/ WritesMayFail /\ UNCHANGED vm /\ pc' = Started(wake)
  /\ slot' = 0
  /\ woken' = wake /\ check' = wake /\ wake' = FALSE
  /\ UNCHANGED <<now, hw, wr, todo, ram, events, ghosts, promise>>

Format ==
  /\ pc = "format"
  /\ \/ /\ vm' = RecordWritten(vm, slot, ZeroEntry)
        /\ IF slot < NumSlots - 1 THEN slot' = slot + 1 /\ UNCHANGED pc
                                 ELSE UNCHANGED slot /\ pc' = Started(woken)
     \/ WritesMayFail /\ pc' = Started(woken) /\ UNCHANGED <<vm, slot>>
  /\ UNCHANGED <<now, hw, wake, wr, todo, ram, woken, check, events, ghosts, promise>>

(* alarm_init with a written VM.  Not started by the alarm: alarm_update    *)
(* recomputes the times and rewrites the register, but not the VM.          *)
InitUpdate ==
  /\ pc = "off" /\ vm.valid /\ ~ wake
  /\ alarm_tab' = RestoredTab(vm)
  /\ map' = vm.map /\ map_sw' = RestoredSw(vm) /\ active_map' = vm.active_map
  /\ when' = UpdateAll(alarm_tab', map_sw', now)
  /\ pc' = "arm"
  /\ UNCHANGED <<now, hw, wake, wr, slot, todo, cur_active, woken, check, events,
                 vm, ghosts, promise>>

(* Started by the alarm: the register is left alone, and alarm_check will   *)
(* post the event.                                                          *)
InitWoken ==
  /\ pc = "off" /\ vm.valid /\ wake
  /\ alarm_tab' = RestoredTab(vm)
  /\ map' = vm.map /\ map_sw' = RestoredSw(vm) /\ active_map' = vm.active_map
  /\ wake' = FALSE /\ woken' = TRUE /\ check' = TRUE /\ pc' = "ready"
  /\ UNCHANGED <<now, hw, wr, slot, todo, when, cur_active, events, vm, ghosts,
                 promise>>

alarm_check ==
  /\ check /\ pc = "ready" /\ CanPost
  /\ check' = FALSE
  /\ events' = events + 1
  /\ UNCHANGED <<now, hw, wake, pc, wr, slot, todo, ram, woken, vm, ghosts, promise>>

-----------------------------------------------------------------------------
Handler ==
  \/ alarm_update_info_after_isr \/ IsrSlot \/ IsrMask \/ IsrUpdate
  \/ Arm \/ WriteRecord \/ WriteMask
  \/ InitFresh \/ Format \/ InitUpdate \/ InitWoken \/ alarm_check

Entries == [sw : SwInputs, mode : ModeInputs, tod : Minutes]

Callers ==
  \/ \E i \in Slots, e \in Entries : alarm_add(i, e)
  \/ \E i \in Slots : alarm_delete(i)
  \/ \E d \in DayInputs, m \in Minutes : rtc_update_time_api([day |-> d, min |-> m])

Next == Tick \/ Callers \/ Handler \/ Crash

Spec == Init /\ [][Next]_vars
-----------------------------------------------------------------------------
(* Every variable keeps its type (the C struct fields of alarm_api.c:72-80).*)
TypeOK ==
  /\ now \in Times
  /\ hw \in [en : BOOLEAN, at : Times]
  /\ wake \in BOOLEAN
  /\ pc \in {"off", "format", "ready", "isr", "isr_mask", "arm", "rec", "mask"}
  /\ wr \in {"none", "rec", "mask", "ring"}
  /\ slot \in Slots /\ todo \subseteq Slots
  /\ alarm_tab \in [Slots -> Entry] /\ when \in [Slots -> Times]
  /\ map \subseteq Slots /\ map_sw \subseteq Slots
  /\ active_map \subseteq Slots /\ cur_active \subseteq Slots
  /\ woken \in BOOLEAN /\ check \in BOOLEAN /\ events \in Nat
  /\ vm \in VmContents
  /\ armed \subseteq Slots /\ due \subseteq Slots /\ calm \in BOOLEAN
  /\ promise \in [Slots -> Promises]

(* Between two handlers the register is on exactly when some alarm is       *)
(* enabled, it holds a time no enabled alarm is before, and active_map is   *)
(* the enabled alarms of that time (__alarm_get_the_earliest), whatever     *)
(* sequence of calls, events and starts led there.                          *)
ArmedForEarliest ==
  pc \in {"rec", "mask", "ready"} /\ ~ woken =>
    /\ hw.en <=> map_sw # {}
    /\ active_map = {i \in map_sw : when[i] = hw.at}
    /\ \A i \in map_sw : ~ Before(when[i], hw.at)
    /\ map_sw # {} => active_map # {}

(* A loss of power at any point, in the middle of any handler, and a start  *)
(* later: an alarm whose setting was reported done is enabled with the very *)
(* hour, minute and mode that were set; one that was deleted, closed, or    *)
(* has rung its only time stays off.                                        *)
PromiseKept ==
  \A i \in Slots :
    /\ promise[i].st = "on" =>
         /\ i \in RestoredSw(vm) /\ RestoredTab(vm)[i] = promise[i].alarm
         /\ pc \notin {"off", "format"} =>
              i \in map_sw /\ alarm_tab[i] = promise[i].alarm
    /\ promise[i].st = "off" => i \notin RestoredSw(vm) /\ i \notin map_sw

(* The mask names only slots whose record can be read: a start never takes  *)
(* the path of alarm_vm_read_info (line 244) that leaves an enabled slot    *)
(* with a zero entry, also when power was lost between two VM writes.       *)
MappedHasRecord ==
  vm.map_sw \subseteq vm.map /\ \A i \in vm.map : vm.rec[i].head

(* With no other handler between the match of the register and the event,   *)
(* the alarms taken to be ringing are those whose time it is.               *)
UndisturbedAlarmRings ==
  [][pc = "ready" /\ pc' = "isr" /\ calm => cur_active' = due]_vars

(* With flash writes that fail and power lost at any point: once every slot *)
(* has a readable record, a start still arms the register for the earliest  *)
(* of the enabled alarms, and no alarm is enabled that the table has off.   *)
FlashErrorsContained ==
  (\A i \in Slots : vm.rec[i].head) =>
    ArmedForEarliest /\ \A i \in map_sw : alarm_tab[i].sw # 0

(* alarm_api.c:906: the alarm time is computed from the current time.  An   *)
(* enabled alarm is never left behind: between two handlers, with no event  *)
(* waiting, the register is set to a minute still to come.                  *)
RegisterAhead ==
  pc = "ready" /\ ~ woken /\ events = 0 /\ hw.en => Before(now, hw.at)
=============================================================================
