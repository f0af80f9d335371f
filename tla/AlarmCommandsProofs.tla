------------------------- MODULE AlarmCommandsProofs -------------------------
(***************************************************************************)
(* The alarm engine implements AlarmStore, for every number of slots and    *)
(* whatever a handler is interrupted by, when the flash writes that are     *)
(* made succeed: every step of the engine is a step of the store on kept    *)
(* and asked, or changes neither.                                           *)
(*                                                                          *)
(* And the commands of phone and keys, for any bound on the commands and    *)
(* any interleaving of the two tasks with rings and losses of power: what   *)
(* they call is what the engine was proved for, and a command is done whole *)
(* or leaves closed what it does not leave as it was.                       *)
(***************************************************************************)
EXTENDS AlarmCommands, AlarmCoreProofs, SequenceTheorems

(* The mask in RAM is the one in the VM, but for the slot being set.  What  *)
(* is set there is something a caller asked for, nothing if the slot is     *)
(* given up, and is in its record when only the mask is still to be written.*)
MaskKept ==
  /\ pc # "off" => \A i \in Slots : i # slot \/ wr # "rec" => (i \in map <=> i \in vm.map)
  /\ wr = "rec" => /\ Setting(alarm_tab[slot]) \in Settings
                   /\ slot \notin map => alarm_tab[slot].sw = 0
                   /\ pc \in {"arm", "rec", "mask"}
                   /\ pc = "mask" => vm.rec[slot].alarm = alarm_tab[slot]

StoreInv == TypeOK /\ StateInv /\ MaskKept

LEMMA InitMask == Init => MaskKept
BY DEF Init, MaskKept

LEMMA StepMask == ASSUME TypeOK, StateInv, MaskKept, Writes, [Next]_vars
                  PROVE  MaskKept'
<1> USE DEF Writes
<1>0. /\ alarm_tab \in [Slots -> Entry] /\ vm \in VmContents /\ slot \in Slots
      /\ map \subseteq Slots
  BY DEF TypeOK
<1>1. CASE UNCHANGED <<pc, wr, slot, alarm_tab, map, vm>>
  BY <1>1 DEF MaskKept
<1>2. CASE Tick \/ alarm_check \/ UNCHANGED vars
  BY <1>1, <1>2 DEF Tick, alarm_check, ram, vars
<1>3. ASSUME NEW i \in Slots, NEW e \in Entries, alarm_add(i, e)
      PROVE  MaskKept'
  <2>1. /\ pc = "ready" /\ wr = "none" /\ wr' = "rec" /\ slot' = i /\ vm' = vm
        /\ map' = map \union {i} /\ alarm_tab' = [alarm_tab EXCEPT ![i] = e]
    BY <1>3 DEF alarm_add, StateInv, Plan
  <2>2. alarm_tab'[slot'] = e
    BY <1>0, <2>1
  <2>3. Setting(alarm_tab[slot])' = Setting(e)
    BY <2>2 DEF Setting
  <2>4. pc' = "arm"
    BY <1>3 DEF alarm_add
  <2>5. QED
    BY <2>1, <2>3, <2>4 DEF MaskKept, Settings
<1>4. ASSUME NEW i \in Slots, alarm_delete(i)
      PROVE  MaskKept'
  <2>1. /\ pc = "ready" /\ wr = "none" /\ wr' = "rec" /\ slot' = i /\ vm' = vm
        /\ map' = map \ {i} /\ alarm_tab' = [alarm_tab EXCEPT ![i].sw = 0]
    BY <1>4 DEF alarm_delete, StateInv, Plan
  <2>2. alarm_tab'[slot'].sw = 0
    BY <1>0, <2>1 DEF Entry
  <2>3. Setting(alarm_tab[slot])' = ZeroEntry
    BY <2>2 DEF Setting
  <2>4. pc' = "arm"
    BY <1>4 DEF alarm_delete
  <2>5. QED
    BY <2>1, <2>2, <2>3, <2>4 DEF MaskKept, Settings
<1>5. ASSUME NEW t \in Times, rtc_update_time_api(t)
      PROVE  MaskKept'
  BY <1>5 DEF rtc_update_time_api, MaskKept, StateInv, Plan
<1>6. CASE alarm_update_info_after_isr
  BY <1>6 DEF alarm_update_info_after_isr, MaskKept
<1>7. CASE IsrSlot
  <2>1. /\ pc = "isr" /\ wr = "none" /\ wr' = "none" /\ map' = map
        /\ \E e : vm' = RecordWritten(vm, Least(todo), e)
    BY <1>7 DEF IsrSlot, StateInv, Plan
  <2>2. vm'.map = vm.map
    BY <1>0, <2>1 DEF RecordWritten, VmContents
  <2>3. QED
    BY <2>1, <2>2 DEF MaskKept
<1>8. CASE IsrMask \/ WriteMask
  <2>1. vm' = MaskWritten(vm) /\ map' = map /\ wr' = "none"
    BY <1>8 DEF IsrMask, WriteMask, ram, StateInv, Plan
  <2>2. vm'.map = map
    BY <1>0, <2>1 DEF MaskWritten, VmContents
  <2>3. QED
    BY <2>1, <2>2 DEF MaskKept
<1>9. CASE IsrUpdate
  BY <1>9 DEF IsrUpdate, MaskKept, StateInv, Plan
<1>10. CASE Arm
  <2>1. /\ pc = "arm"
        /\ wr = "rec" => pc' = "rec"
        /\ UNCHANGED <<wr, slot, alarm_tab, map, vm>>
        /\ pc' # "off"
    BY <1>10 DEF Arm, NextWrite
  <2>2. Setting(alarm_tab[slot])' = Setting(alarm_tab[slot])
    BY <2>1 DEF Setting
  <2>3. QED
    BY <2>1, <2>2 DEF MaskKept
<1>11. CASE WriteRecord
  <2>1. /\ pc = "rec" /\ pc' = "mask" /\ UNCHANGED <<wr, slot, alarm_tab, map>>
        /\ vm' = RecordWritten(vm, slot, alarm_tab[slot])
    BY <1>11 DEF WriteRecord, NextWrite, ram
  <2>2. vm'.map = vm.map /\ vm'.rec[slot].alarm = alarm_tab[slot]
    BY <1>0, <2>1 DEF RecordWritten, VmContents
  <2>3. Setting(alarm_tab[slot])' = Setting(alarm_tab[slot])
    BY <2>1 DEF Setting
  <2>4. QED
    BY <2>1, <2>2, <2>3 DEF MaskKept
<1>12. CASE Crash
  BY <1>12 DEF Crash, MaskKept
<1>13. CASE InitFresh \/ Format
  <2>1. /\ pc \in {"off", "format"} /\ wr = "none" /\ vm.map = {} /\ map = {}
        /\ UNCHANGED <<wr, map>>
    BY <1>13 DEF InitFresh, Format, ram, StateInv, Plan, Down
  <2>2. vm' = MaskWritten(vm) \/ vm' = RecordWritten(vm, slot, ZeroEntry)
    BY <1>13 DEF InitFresh, Format
  <2>3. vm'.map = {}
    BY <1>0, <2>1, <2>2 DEF MaskWritten, RecordWritten, VmContents
  <2>4. QED
    BY <2>1, <2>3 DEF MaskKept
<1>14. CASE InitUpdate \/ InitWoken
  BY <1>14 DEF InitUpdate, InitWoken, MaskKept, StateInv, Plan
<1>15. \A d \in DayInputs, m \in Minutes : [day |-> d, min |-> m] \in Times
  BY InputAssumption DEF Times
<1>16. QED
  BY <1>2, <1>3, <1>4, <1>5, <1>6, <1>7, <1>8, <1>9, <1>10, <1>11, <1>12, <1>13,
     <1>14, <1>15 DEF Next, Callers, Handler

-----------------------------------------------------------------------------
(* What a start finds, in terms of mask and records.                        *)
Found(v, i) == IF i \in v.map THEN Setting(v.rec[i].alarm) ELSE ZeroEntry

LEMMA KeptFound == StoreInv => kept = [i \in Slots |-> Found(vm, i)]
<1> SUFFICES ASSUME StoreInv, NEW i \in Slots
               PROVE  (IF i \in RestoredSw(vm) THEN RestoredTab(vm)[i] ELSE ZeroEntry)
                        = Found(vm, i)
  BY DEF kept
<1>2. i \in vm.map => vm.rec[i].head
  BY DEF StoreInv, StateInv, MappedHasRecord
<1>3. i \notin vm.map => i \notin vm.map_sw
  BY DEF StoreInv, StateInv, Nest
<1>4. RestoredTab(vm)[i] = IF i \in vm.map THEN vm.rec[i].alarm ELSE ZeroEntry
  BY <1>2 DEF RestoredTab
<1>5. i \in RestoredSw(vm) <=> i \in vm.map /\ vm.rec[i].alarm.sw # 0
  BY <1>2, <1>3 DEF RestoredSw
<1>6. QED
  BY <1>4, <1>5 DEF Found, Setting

(* A step that leaves what is found, what is asked for and whether the      *)
(* device runs as they were is no step of the store.                        *)
Same == (\A i \in Slots : Found(vm, i)' = Found(vm, i)) /\ asked' = asked /\ up' = up

LEMMA SameStutters ==
  ASSUME StoreInv, StoreInv', Same
  PROVE  UNCHANGED <<up, kept, asked>>
<1>1. kept = [i \in Slots |-> Found(vm, i)]
  BY KeptFound
<1>2. (kept = [i \in Slots |-> Found(vm, i)])'
  BY KeptFound, PTL
<1>3. QED
  BY <1>1, <1>2 DEF Same

LEMMA PairsWithout ==
  ASSUME NEW S, NEW i, NEW z
  PROVE  {<<j, z>> : j \in S \ {i}} = {<<j, z>> : j \in S} \ {<<i, z>>}
<1>1. \A j, k : <<j, z>> = <<k, z>> => j = k
  OBVIOUS
<1>2. ASSUME NEW p
      PROVE  p \in {<<j, z>> : j \in S \ {i}} <=> p \in {<<j, z>> : j \in S} \ {<<i, z>>}
  BY <1>1
<1>3. QED
  BY <1>2

LEMMA InitStore == Init => Store!Init
BY DEF Init, Store!Init, up, kept, asked, BlankVm, RestoredSw

LEMMA StepStore ==
  ASSUME StoreInv, StoreInv', Writes, [Next]_vars
  PROVE  [Store!Next]_(Store!vars)
<1> USE DEF Writes, StoreInv
<1>0. /\ alarm_tab \in [Slots -> Entry] /\ vm \in VmContents /\ slot \in Slots
      /\ todo \subseteq Slots /\ active_map \subseteq Slots /\ map \subseteq Slots
      /\ vm.map \subseteq Slots
  BY DEF TypeOK, VmContents
<1>k. /\ kept = [i \in Slots |-> Found(vm, i)]
      /\ (kept = [i \in Slots |-> Found(vm, i)])'
  BY KeptFound, PTL
<1>s. Same => [Store!Next]_(Store!vars)
  BY SameStutters DEF Store!vars
<1>1. CASE UNCHANGED <<pc, wr, slot, todo, alarm_tab, vm>>
  <2>1. Same
    BY <1>1 DEF Same, Found, Setting, asked, Unwritten, StillRinging, up
  <2>2. QED
    BY <1>s, <2>1
<1>2. CASE Tick \/ alarm_check \/ UNCHANGED vars
  BY <1>1, <1>2 DEF Tick, alarm_check, ram, vars
<1>3. ASSUME NEW i \in Slots, NEW e \in Entries, alarm_add(i, e)
      PROVE  [Store!Next]_(Store!vars)
  <2>1. /\ pc = "ready" /\ pc' = "arm" /\ wr = "none" /\ wr' = "rec" /\ slot' = i
        /\ vm' = vm /\ alarm_tab' = [alarm_tab EXCEPT ![i] = e]
    BY <1>3 DEF alarm_add, StateInv, Plan
  <2>2. alarm_tab'[i] = e
    BY <1>0, <2>1
  <2>3. asked = {} /\ up /\ up'
    BY <2>1 DEF asked, up
  <2>4. asked' = {<<i, Setting(e)>>}
    BY <2>1, <2>2 DEF asked, Unwritten, Setting
  <2>5. kept' = kept
    BY <2>1 DEF kept, RestoredSw, RestoredTab
  <2>6. Store!Ask(i, Setting(e)) /\ Setting(e) \in Settings
    BY <2>3, <2>4, <2>5 DEF Store!Ask, Settings
  <2>7. QED
    BY <2>6 DEF Store!Next
<1>4. ASSUME NEW i \in Slots, alarm_delete(i)
      PROVE  [Store!Next]_(Store!vars)
  <2>1. /\ pc = "ready" /\ pc' = "arm" /\ wr = "none" /\ wr' = "rec" /\ slot' = i
        /\ vm' = vm /\ alarm_tab' = [alarm_tab EXCEPT ![i].sw = 0]
    BY <1>4 DEF alarm_delete, StateInv, Plan
  <2>2. alarm_tab'[i].sw = 0
    BY <1>0, <2>1 DEF Entry
  <2>3. asked = {} /\ up /\ up'
    BY <2>1 DEF asked, up
  <2>4. asked' = {<<i, ZeroEntry>>}
    BY <2>1, <2>2 DEF asked, Unwritten, Setting
  <2>5. kept' = kept
    BY <2>1 DEF kept, RestoredSw, RestoredTab
  <2>6. Store!Ask(i, ZeroEntry) /\ ZeroEntry \in Settings
    BY <2>3, <2>4, <2>5 DEF Store!Ask, Settings
  <2>7. QED
    BY <2>6 DEF Store!Next
<1>5. ASSUME NEW t \in Times, rtc_update_time_api(t)
      PROVE  [Store!Next]_(Store!vars)
  <2>1. /\ pc = "ready" /\ pc' = "arm" /\ wr = "none" /\ wr' = "mask"
        /\ UNCHANGED <<slot, todo, alarm_tab, vm>>
    BY <1>5 DEF rtc_update_time_api, StateInv, Plan
  <2>2. Same
    BY <2>1 DEF Same, Found, Setting, asked, up
  <2>3. QED
    BY <1>s, <2>2
<1>6. CASE alarm_update_info_after_isr
  <2> DEFINE rung == {i \in active_map : alarm_tab[i].mode = ONCE}
  <2>1. /\ pc = "ready" /\ pc' = "isr" /\ wr = "none" /\ wr' = "none"
        /\ todo' = active_map /\ UNCHANGED <<alarm_tab, vm>>
    BY <1>6 DEF alarm_update_info_after_isr, StateInv, Plan
  <2>2. asked = {} /\ up /\ up'
    BY <2>1 DEF asked, up
  <2>3. asked' = {<<i, ZeroEntry>> : i \in rung}
    BY <2>1 DEF asked, StillRinging
  <2>4. kept' = kept
    BY <2>1 DEF kept, RestoredSw, RestoredTab
  <2>5. Store!Ring(rung) /\ rung \in SUBSET Slots
    BY <1>0, <2>2, <2>3, <2>4 DEF Store!Ring
  <2>6. QED
    BY <2>5 DEF Store!Next
<1>7. CASE IsrSlot
  <2>1. PICK i \in Slots : i = Least(todo) /\ i \in todo
    BY <1>0, <1>7, LeastSlot DEF IsrSlot
  <2>e. PICK e : e = AfterRing(alarm_tab[i])
    OBVIOUS
  <2>2. /\ pc = "isr" /\ pc' = "isr_mask" /\ wr = "none" /\ wr' = "none"
        /\ slot' = i /\ todo' = todo /\ map' = map
        /\ alarm_tab' = [alarm_tab EXCEPT ![i] = e]
        /\ vm' = RecordWritten(vm, i, e)
    BY <1>7, <2>1, <2>e DEF IsrSlot, StateInv, Plan
  <2>3. /\ alarm_tab[i] \in Entry
        /\ e.mode = alarm_tab[i].mode
        /\ e.mode = ONCE => e.sw = 0
        /\ e.mode # ONCE => e = alarm_tab[i]
    BY <1>0, <2>1, <2>e DEF AfterRing, Entry
  <2>4. /\ vm'.map = vm.map
        /\ vm'.rec[i].alarm = e
        /\ \A j \in Slots \ {i} : vm'.rec[j] = vm.rec[j]
    BY <1>0, <2>1, <2>2 DEF RecordWritten, VmContents
  <2>5. \A j \in Slots : alarm_tab'[j].mode = alarm_tab[j].mode
    BY <1>0, <2>1, <2>2, <2>3
  <2>6. asked = {<<j, ZeroEntry>> : j \in {k \in todo : alarm_tab[k].mode = ONCE}}
    BY <2>2 DEF asked, StillRinging
  <2>7. asked' = {<<j, ZeroEntry>> : j \in {k \in todo \ {i} : alarm_tab[k].mode = ONCE}}
    BY <1>0, <2>2, <2>5 DEF asked, StillRinging
  <2>8. \A j \in Slots \ {i} : Found(vm, j)' = Found(vm, j)
    BY <2>4 DEF Found, Setting
  <2>9. CASE e.mode = ONCE
    <3>1. Found(vm, i)' = ZeroEntry
      BY <2>3, <2>4, <2>9 DEF Found, Setting
    <3>2. kept' = [kept EXCEPT ![i] = ZeroEntry]
      BY <1>k, <2>1, <2>8, <3>1
    <3>3. <<i, ZeroEntry>> \in asked /\ asked' = asked \ {<<i, ZeroEntry>>}
      <4>1. alarm_tab[i].mode = ONCE
        BY <2>3, <2>9
      <4>2. <<i, ZeroEntry>> \in asked
        BY <2>1, <2>6, <4>1
      <4>3. {k \in todo \ {i} : alarm_tab[k].mode = ONCE}
              = {k \in todo : alarm_tab[k].mode = ONCE} \ {i}
        OBVIOUS
      <4>4. asked' = asked \ {<<i, ZeroEntry>>}
        BY <2>6, <2>7, <4>3, PairsWithout
      <4>5. QED
        BY <4>2, <4>4
    <3>4. up' = up
      BY <2>2 DEF up
    <3>5. Store!Change(i, ZeroEntry) /\ ZeroEntry \in Settings
      BY <3>2, <3>3, <3>4 DEF Store!Change, Settings
    <3>6. QED
      BY <2>1, <3>5 DEF Store!Next
  <2>10. CASE e.mode # ONCE
    <3>1. i \in vm.map => vm.rec[i].alarm = alarm_tab[i]
      BY <2>1, <2>2 DEF MaskKept, StateInv, Recorded, InFlight
    <3>2. Found(vm, i)' = Found(vm, i)
      BY <2>3, <2>4, <2>10, <3>1 DEF Found, Setting
    <3>3. asked' = asked
      BY <2>3, <2>6, <2>7, <2>10
    <3>4. Same
      BY <2>2, <2>8, <3>2, <3>3 DEF Same, up
    <3>5. QED
      BY <1>s, <3>4
  <2>11. QED
    BY <2>9, <2>10
<1>8. CASE IsrMask
  <2>1. /\ pc = "isr_mask" /\ pc' = "isr" /\ wr = "none" /\ wr' = "none"
        /\ todo' = todo \ {slot} /\ vm' = MaskWritten(vm)
        /\ UNCHANGED <<slot, alarm_tab, map>>
    BY <1>8 DEF IsrMask, ram, StateInv, Plan
  <2>2. vm'.map = map /\ vm'.rec = vm.rec
    BY <1>0, <2>1 DEF MaskWritten, VmContents
  <2>3. \A i \in Slots : Found(vm, i)' = Found(vm, i)
    BY <2>1, <2>2 DEF Found, Setting, MaskKept
  <2>4. asked' = asked
    BY <2>1 DEF asked, StillRinging
  <2>5. Same
    BY <2>1, <2>3, <2>4 DEF Same, up
  <2>6. QED
    BY <1>s, <2>5
<1>9. CASE IsrUpdate
  <2>1. /\ pc = "isr" /\ pc' = "arm" /\ wr = "none" /\ wr' = "ring" /\ todo = {}
        /\ UNCHANGED <<slot, alarm_tab, vm>>
    BY <1>9 DEF IsrUpdate, StateInv, Plan
  <2>2. asked = {} /\ asked' = {}
    BY <2>1 DEF asked, StillRinging
  <2>3. Same
    BY <2>1, <2>2 DEF Same, Found, Setting, up
  <2>4. QED
    BY <1>s, <2>3
<1>10. CASE Arm
  <2>1. /\ pc = "arm" /\ pc' \in {"rec", "mask", "ready"}
        /\ wr = "rec" => pc' = "rec"
        /\ UNCHANGED <<wr, slot, todo, alarm_tab, vm>>
    BY <1>10 DEF Arm, NextWrite
  <2>2. asked' = asked
    BY <2>1 DEF asked, Unwritten, Setting
  <2>3. Same
    BY <2>1, <2>2 DEF Same, Found, Setting, up
  <2>4. QED
    BY <1>s, <2>3
<1>11. CASE WriteRecord
  <2> DEFINE e == alarm_tab[slot]
  <2>1. /\ pc = "rec" /\ pc' = "mask" /\ wr = "rec" /\ vm' = RecordWritten(vm, slot, e)
        /\ UNCHANGED <<wr, slot, alarm_tab, map>>
    BY <1>11 DEF WriteRecord, NextWrite, ram, StateInv, Plan
  <2>2. /\ vm'.map = vm.map /\ vm'.rec[slot].alarm = e
        /\ \A j \in Slots \ {slot} : vm'.rec[j] = vm.rec[j]
    BY <1>0, <2>1 DEF RecordWritten, VmContents
  <2>3. \A j \in Slots \ {slot} : Found(vm, j)' = Found(vm, j)
    BY <2>2 DEF Found, Setting
  <2>4. asked = {<<slot, Setting(e)>>}
    BY <2>1 DEF asked, Unwritten
  <2>5. up' = up
    BY <2>1 DEF up
  <2>6. CASE slot \in vm.map
    <3>1. Found(vm, slot)' = Setting(e)
      BY <2>1, <2>2, <2>6 DEF Found
    <3>2. kept' = [kept EXCEPT ![slot] = Setting(e)]
      BY <1>0, <1>k, <2>1, <2>3, <3>1
    <3>3. asked' = {}
      BY <2>1, <2>2, <2>6 DEF asked, Unwritten
    <3>4. Setting(e) \in Settings
      BY <2>1 DEF MaskKept
    <3>5. Store!Change(slot, Setting(e))
      BY <2>4, <2>5, <3>2, <3>3 DEF Store!Change
    <3>6. QED
      BY <1>0, <3>4, <3>5 DEF Store!Next
  <2>7. CASE slot \notin vm.map
    <3>1. Found(vm, slot)' = Found(vm, slot)
      BY <2>1, <2>2, <2>7 DEF Found
    <3>2. asked' = {<<slot, Setting(e)>>}
      BY <2>1, <2>2, <2>7 DEF asked, Unwritten, Setting
    <3>3. Same
      BY <2>1, <2>3, <2>4, <2>5, <3>1, <3>2 DEF Same
    <3>4. QED
      BY <1>s, <3>3
  <2>8. QED
    BY <2>6, <2>7
<1>12. CASE WriteMask
  <2> DEFINE e == alarm_tab[slot]
  <2>1. /\ pc = "mask" /\ pc' = "ready" /\ wr' = "none" /\ vm' = MaskWritten(vm)
        /\ UNCHANGED <<slot, alarm_tab, map>>
    BY <1>12 DEF WriteMask, NextWrite, ram
  <2>2. vm'.map = map /\ vm'.rec = vm.rec
    BY <1>0, <2>1 DEF MaskWritten, VmContents
  <2>3. \A j \in Slots : j # slot \/ wr # "rec" => Found(vm, j)' = Found(vm, j)
    BY <2>1, <2>2 DEF Found, Setting, MaskKept
  <2>4. asked' = {}
    BY <2>1 DEF asked
  <2>5. up' = up
    BY <2>1 DEF up
  <2>6. CASE wr # "rec"
    <3>1. asked = {}
      BY <2>1, <2>6 DEF asked
    <3>2. Same
      BY <2>3, <2>4, <2>5, <2>6, <3>1 DEF Same
    <3>3. QED
      BY <1>s, <3>2
  <2>7. CASE wr = "rec"
    <3>1. vm.rec[slot].alarm = e /\ (slot \notin map => e.sw = 0)
      BY <2>1, <2>7 DEF MaskKept
    <3>2. Found(vm, slot)' = Setting(e)
      BY <2>1, <2>2, <3>1 DEF Found, Setting
    <3>3. CASE slot \in vm.map
      <4>1. Found(vm, slot) = Setting(e)
        BY <3>1, <3>3 DEF Found
      <4>2. asked = {}
        BY <2>1, <3>3 DEF asked, Unwritten
      <4>3. Same
        BY <2>1, <2>3, <2>4, <2>5, <3>2, <4>1, <4>2 DEF Same
      <4>4. QED
        BY <1>s, <4>3
    <3>4. CASE slot \notin vm.map
      <4>1. asked = {<<slot, Setting(e)>>}
        BY <2>1, <2>7, <3>4 DEF asked, Unwritten
      <4>2. kept' = [kept EXCEPT ![slot] = Setting(e)]
        BY <1>0, <1>k, <2>1, <2>3, <3>2
      <4>3. Setting(e) \in Settings
        BY <2>7 DEF MaskKept
      <4>4. Store!Change(slot, Setting(e))
        BY <2>4, <2>5, <4>1, <4>2 DEF Store!Change
      <4>5. QED
        BY <1>0, <4>3, <4>4 DEF Store!Next
    <3>5. QED
      BY <3>3, <3>4
  <2>8. QED
    BY <2>6, <2>7
<1>13. CASE Crash
  <2>1. pc # "off" /\ pc' = "off" /\ wr' = "none" /\ vm' = vm
    BY <1>13 DEF Crash
  <2>2. up /\ up' = FALSE /\ asked' = {}
    BY <2>1 DEF up, asked
  <2>3. kept' = kept
    BY <2>1 DEF kept, RestoredSw, RestoredTab
  <2>4. Store!PowerLost
    BY <2>2, <2>3 DEF Store!PowerLost
  <2>5. QED
    BY <2>4 DEF Store!Next
<1>14. CASE InitFresh \/ InitUpdate \/ InitWoken
  <2>1. /\ pc = "off" /\ pc' \in {"format", "arm", "ready"} /\ wr = "none" /\ wr' = "none"
        /\ vm' = vm \/ (vm' = MaskWritten(vm) /\ map = {} /\ vm.map = {})
    BY <1>14 DEF InitFresh, InitUpdate, InitWoken, StateInv, Plan, Down
  <2>2. ~ up /\ up' = TRUE /\ asked = {} /\ asked' = {}
    BY <2>1 DEF up, asked
  <2>3. \A j \in Slots : Found(vm, j)' = Found(vm, j)
    BY <1>0, <2>1 DEF Found, Setting, MaskWritten, VmContents
  <2>4. kept' = kept
    BY <1>k, <2>3
  <2>5. Store!Start
    BY <2>2, <2>4 DEF Store!Start
  <2>6. QED
    BY <2>5 DEF Store!Next
<1>15. CASE Format
  <2>1. /\ pc = "format" /\ pc' \in {"format", "arm", "ready"} /\ wr = "none" /\ wr' = "none"
        /\ vm' = RecordWritten(vm, slot, ZeroEntry) /\ vm.map = {}
    BY <1>15 DEF Format, Started, StateInv, Plan, Down
  <2>2. vm'.map = {}
    BY <1>0, <2>1 DEF RecordWritten, VmContents
  <2>3. Same
    BY <2>1, <2>2 DEF Same, Found, asked, up
  <2>4. QED
    BY <1>s, <2>3
<1>16. \A d \in DayInputs, m \in Minutes : [day |-> d, min |-> m] \in Times
  BY InputAssumption DEF Times
<1>17. QED
  BY <1>2, <1>3, <1>4, <1>5, <1>6, <1>7, <1>8, <1>9, <1>10, <1>11, <1>12, <1>13,
     <1>14, <1>15, <1>16 DEF Next, Callers, Handler

(* The alarm engine implements AlarmStore: a setting, a deletion or the end *)
(* of a one-shot alarm takes effect in the VM at one moment and in its own  *)
(* slot, or, when power is lost, not at all (alarm_api.c:244-283, 803-860). *)
THEOREM StoreImplemented == ASSUME Writes PROVE Spec => SettingsStored
<1>1. Init => StoreInv /\ Store!Init
  BY InitType, InitState, InitMask, InitStore DEF StoreInv
<1>2. StoreInv /\ [Next]_vars => StoreInv'
  BY StepType, StepState, StepMask DEF StoreInv
<1>3. StoreInv /\ StoreInv' /\ [Next]_vars => [Store!Next]_(Store!vars)
  BY StepStore
<1>4. QED
  BY <1>1, <1>2, <1>3, PTL DEF Spec, SettingsStored, Store!Spec

-----------------------------------------------------------------------------
(* The commands.                                                            *)

(* What a call leaves of its slot.                                          *)
Result(o) == IF o.op = "add" THEN Setting(o.alarm) ELSE ZeroEntry

Calls == [op : {"del"}, slot : Slots, alarm : {ZeroEntry}]
           \union [op : {"add"}, slot : Slots, alarm : Entries]
Leaves == UNION {[S -> Settings] : S \in SUBSET Slots}

CmdType ==
  /\ cmd \in [Tasks -> [to : 0..2, ops : Seq(Calls), leaves : Leaves]]
  /\ may \in [Slots -> SUBSET Settings] /\ mixed \in BOOLEAN

(* Slot i has v, or is about to: nothing else is asked for.                 *)
Settled(i, v) ==
  /\ \A e \in Settings : <<i, e>> \in asked => e = v
  /\ (\A e \in Settings : <<i, e>> \notin asked) => kept[i] = v

(* The last call that is still to come for the slot leaves v there.         *)
Coming(ops, i, v) ==
  \E k \in 1..Len(ops) :
    /\ ops[k].slot = i /\ Result(ops[k]) = v
    /\ \A l \in 1..Len(ops) : l > k => ops[l].slot # i

NoneFor(ops, i) == \A k \in 1..Len(ops) : ops[k].slot # i

(* Whatever is to come is allowed.                                          *)
Allowed ==
  /\ \A i \in Slots : kept[i] \in may[i]
  /\ \A i \in Slots, e \in Settings : <<i, e>> \in asked => e \in may[i]
  /\ \A task \in Tasks : \A k \in 1..Len(cmd[task].ops) :
       Result(cmd[task].ops[k]) \in may[cmd[task].ops[k].slot]

(* A command that runs alone is on its way to what it is to leave.          *)
OnItsWay ==
  ~ mixed => \A task \in Tasks : Busy(task) =>
    \A i \in DOMAIN cmd[task].leaves :
      \/ Coming(cmd[task].ops, i, cmd[task].leaves[i])
      \/ NoneFor(cmd[task].ops, i) /\ Settled(i, cmd[task].leaves[i])

(* Two commands at a time are seen as such, and what is set on the clock    *)
(* does not ring once.                                                      *)
Alone ==
  /\ ~ mixed => ~ (Busy("app") /\ Busy("ui"))
  /\ \A i \in DOMAIN cmd["ui"].leaves :
       cmd["ui"].leaves[i] = ZeroEntry \/ cmd["ui"].leaves[i].mode # ONCE

CmdInv == CmdType /\ Allowed /\ OnItsWay /\ Alone

(* The calls of a command lead to what it is to leave.                      *)
Fits(ops, leaves) ==
  /\ ops \in Seq(Calls) /\ leaves \in Leaves
  /\ \A k \in 1..Len(ops) :
       /\ ops[k].slot \in DOMAIN leaves
       /\ Result(ops[k]) \in {ZeroEntry, leaves[ops[k].slot]}
  /\ \A i \in DOMAIN leaves : Coming(ops, i, leaves[i])

-----------------------------------------------------------------------------
(* What the commands are made of.                                           *)
LEMMA TwoAlarms ==
  ASSUME NEW n \in Alarms
  PROVE  /\ AlarmSlot(n) \in Slots /\ SnoozeSlot(n) \in Slots
         /\ SlotsOf(n) \in SUBSET Slots /\ AlarmSlot(n) # SnoozeSlot(n)
         /\ n \in 0..2
BY CommandAssumption, SizeAssumption DEF Alarms, AlarmSlot, SnoozeSlot, SlotsOf, Slots

LEMMA AppendTwo ==
  ASSUME NEW S, NEW x \in S, NEW y \in S, NEW w \in S
  PROVE  /\ Append(<<x, y>>, w) \in Seq(S) /\ Len(Append(<<x, y>>, w)) = 3
         /\ Append(<<x, y>>, w)[1] = x /\ Append(<<x, y>>, w)[2] = y
         /\ Append(<<x, y>>, w)[3] = w
<1> DEFINE s == <<x, y>>
<1>1. s \in Seq(S) /\ Len(s) = 2 /\ s[1] = x /\ s[2] = y
  OBVIOUS
<1> HIDE DEF s
<1> DEFINE t == Append(s, w)
<1>2. t \in Seq(S) /\ t[Len(s) + 1] = w
  BY <1>1, AppendProperties, ZenonT(60)
<1>3. Len(t) = Len(s) + 1
  BY <1>1, AppendProperties, ZenonT(60)
<1>4. t[1] = s[1] /\ t[2] = s[2]
  BY <1>1, AppendProperties
<1> HIDE DEF t
<1>5. t \in Seq(S) /\ Len(t) = 3 /\ t[1] = x /\ t[2] = y /\ t[3] = w
  BY <1>1, <1>2, <1>3, <1>4
<1>6. QED
  BY <1>5 DEF s, t

LEMMA SetFits ==
  ASSUME NEW n \in Alarms, NEW e \in Entries, e.sw # 0
  PROVE  Fits(app_alarm_add(n, e), Set(n, e)) /\ Fits(SavedAlarm(n, e), Set(n, e))
<1> DEFINE a == AlarmSlot(n)
           z == SnoozeSlot(n)
<1>1. a \in Slots /\ z \in Slots /\ a # z /\ SlotsOf(n) = {a, z}
  BY TwoAlarms DEF SlotsOf
<1>2. Setting(e) = e /\ e \in Settings /\ ZeroEntry \in Settings
  BY DEF Setting, Settings
<1> HIDE DEF a, z
<1>3. /\ Del(a) \in Calls /\ Del(z) \in Calls /\ Add(a, e) \in Calls
      /\ Del(a).slot = a /\ Del(z).slot = z /\ Add(a, e).slot = a
      /\ Result(Del(a)) = ZeroEntry /\ Result(Del(z)) = ZeroEntry /\ Result(Add(a, e)) = e
  BY <1>1, <1>2 DEF Del, Add, Calls, Result
<1>4. Set(n, e) = [i \in {a, z} |-> IF i = a THEN e ELSE ZeroEntry]
  BY <1>1 DEF Set, a
<1>5. Set(n, e) \in Leaves /\ DOMAIN Set(n, e) = {a, z} /\ Set(n, e)[a] = e /\ Set(n, e)[z] = ZeroEntry
  <2>1. Set(n, e) \in [{a, z} -> Settings]
    BY <1>2, <1>4
  <2>2. {a, z} \in SUBSET Slots
    BY <1>1
  <2>3. QED
    BY <1>1, <1>4, <2>1, <2>2 DEF Leaves
<1>6. ASSUME NEW ops \in Seq(Calls), Len(ops) = 3,
             ops[1].slot \in {a, z}, ops[2].slot \in {a, z}, ops[1].slot # ops[2].slot,
             ops[3].slot = a, Result(ops[3]) = e,
             Result(ops[1]) = ZeroEntry, Result(ops[2]) = ZeroEntry
      PROVE  Fits(ops, Set(n, e))
  <2>1. 1..Len(ops) = {1, 2, 3}
    BY <1>6
  <2>2. \A k \in 1..Len(ops) :
          ops[k].slot \in {a, z} /\ Result(ops[k]) \in {ZeroEntry, Set(n, e)[ops[k].slot]}
    BY <1>5, <1>6, <2>1
  <2>3. Coming(ops, a, e)
    BY <1>6, <2>1 DEF Coming
  <2>4. Coming(ops, z, ZeroEntry)
    BY <1>1, <1>6, <2>1 DEF Coming
  <2>5. QED
    BY <1>5, <2>2, <2>3, <2>4 DEF Fits
<1>7. Fits(app_alarm_add(n, e), Set(n, e))
  <2> DEFINE ops == Append(<<Del(a), Del(z)>>, Add(a, e))
  <2>1. ops \in Seq(Calls) /\ Len(ops) = 3 /\ ops[1] = Del(a) /\ ops[2] = Del(z) /\ ops[3] = Add(a, e)
    BY <1>3, AppendTwo
  <2> HIDE DEF ops
  <2>2. QED
    <3>1. Fits(ops, Set(n, e))
      BY <1>1, <1>3, <1>6, <2>1
    <3>2. QED
      BY <3>1 DEF ops, app_alarm_add, app_alarm_del, a, z
<1>8. Fits(SavedAlarm(n, e), Set(n, e))
  <2> DEFINE ops == <<Del(z), Del(a), Add(a, e)>>
  <2>1. ops \in Seq(Calls) /\ Len(ops) = 3 /\ ops[1] = Del(z) /\ ops[2] = Del(a) /\ ops[3] = Add(a, e)
    BY <1>3
  <2> HIDE DEF ops
  <2>2. Fits(ops, Set(n, e))
    BY <1>1, <1>3, <1>6, <2>1
  <2>3. QED
    BY <2>2 DEF ops, SavedAlarm, a, z
<1>9. QED
  BY <1>7, <1>8

LEMMA ClosedFits ==
  ASSUME NEW n \in Alarms
  PROVE  Fits(app_alarm_del(n), Closed(SlotsOf(n)))
<1> DEFINE a == AlarmSlot(n)
           z == SnoozeSlot(n)
           ops == <<Del(a), Del(z)>>
           S == {a, z}
<1>1. a \in Slots /\ z \in Slots /\ a # z /\ SlotsOf(n) = {a, z}
  BY TwoAlarms DEF SlotsOf
<1> HIDE DEF a, z
<1>2. /\ Del(a) \in Calls /\ Del(z) \in Calls /\ Del(a).slot = a /\ Del(z).slot = z
      /\ Result(Del(a)) = ZeroEntry /\ Result(Del(z)) = ZeroEntry
  BY <1>1 DEF Del, Calls, Result
<1>3. Closed(S) \in Leaves /\ DOMAIN Closed(S) = S /\ \A i \in S : Closed(S)[i] = ZeroEntry
  BY <1>1 DEF Closed, Leaves, Settings
<1>4. ops \in Seq(Calls) /\ Len(ops) = 2 /\ ops[1] = Del(a) /\ ops[2] = Del(z) /\ 1..Len(ops) = {1, 2}
  BY <1>2
<1> HIDE DEF ops
<1>5. Coming(ops, a, ZeroEntry) /\ Coming(ops, z, ZeroEntry)
  BY <1>1, <1>2, <1>4 DEF Coming
<1>6. Fits(ops, Closed(S))
  BY <1>2, <1>3, <1>4, <1>5 DEF Fits
<1>7. QED
  BY <1>1, <1>6 DEF ops, app_alarm_del, a, z

LEMMA AllClosedFits ==
  Fits(app_alarm_del(1) \o app_alarm_del(2), Closed(SlotsOf(1) \union SlotsOf(2)))
<1> DEFINE d1 == app_alarm_del(1)
           d2 == app_alarm_del(2)
           ops == d1 \o d2
           S == SlotsOf(1) \union SlotsOf(2)
<1>1. S = {0, 1, 2, 3} /\ S \in SUBSET Slots
  BY CommandAssumption, SizeAssumption DEF SlotsOf, AlarmSlot, SnoozeSlot, Slots
<1>2. \A i \in S : Del(i) \in Calls /\ Del(i).slot = i /\ Result(Del(i)) = ZeroEntry
  BY <1>1 DEF Del, Calls, Result
<1>3. Closed(S) \in Leaves /\ DOMAIN Closed(S) = S /\ \A i \in S : Closed(S)[i] = ZeroEntry
  BY <1>1 DEF Closed, Leaves, Settings
<1>4. /\ d1 \in Seq(Calls) /\ Len(d1) = 2 /\ d1[1] = Del(0) /\ d1[2] = Del(2)
      /\ d2 \in Seq(Calls) /\ Len(d2) = 2 /\ d2[1] = Del(1) /\ d2[2] = Del(3)
  BY <1>1, <1>2 DEF app_alarm_del, AlarmSlot, SnoozeSlot
<1> HIDE DEF d1, d2, S
<1>5. /\ ops \in Seq(Calls) /\ Len(ops) = 4 /\ ops[1] = Del(0) /\ ops[2] = Del(2)
      /\ ops[3] = Del(1) /\ ops[4] = Del(3) /\ 1..Len(ops) = {1, 2, 3, 4}
  <2>1. \A i \in 1..Len(d1) + Len(d2) : ops[i] = IF i <= Len(d1) THEN d1[i] ELSE d2[i - Len(d1)]
    BY <1>4, ConcatProperties
  <2>2. ops \in Seq(Calls) /\ Len(ops) = Len(d1) + Len(d2)
    BY <1>4, ConcatProperties
  <2> HIDE DEF ops
  <2>3. ops[1] = d1[1] /\ ops[2] = d1[2] /\ ops[3] = d2[1] /\ ops[4] = d2[2]
    BY <1>4, <2>1
  <2>4. QED
    BY <1>4, <2>2, <2>3
<1> HIDE DEF ops
<1>6. \A i \in S : Coming(ops, i, ZeroEntry)
  BY <1>1, <1>2, <1>5 DEF Coming
<1>7. Fits(ops, Closed(S))
  BY <1>1, <1>2, <1>3, <1>5, <1>6 DEF Fits
<1>8. QED
  BY <1>7 DEF ops, d1, d2, S

LEMMA OneFits ==
  ASSUME NEW i \in Slots, NEW e \in Entries
  PROVE  /\ Fits(Replaced(i, e), Only(i, Setting(e)))
         /\ Fits(<<Del(i)>>, Closed({i}))
<1>1. Setting(e) \in Settings /\ ZeroEntry \in Settings
  BY DEF Settings
<1>2. /\ Del(i) \in Calls /\ Del(i).slot = i /\ Result(Del(i)) = ZeroEntry
      /\ Add(i, e) \in Calls /\ Add(i, e).slot = i /\ Result(Add(i, e)) = Setting(e)
  BY DEF Del, Add, Calls, Result
<1>3. /\ Only(i, Setting(e)) \in Leaves /\ DOMAIN Only(i, Setting(e)) = {i}
      /\ Only(i, Setting(e))[i] = Setting(e)
      /\ Closed({i}) \in Leaves /\ DOMAIN Closed({i}) = {i} /\ Closed({i})[i] = ZeroEntry
  <2>1. Only(i, Setting(e)) \in [{i} -> Settings] /\ Closed({i}) \in [{i} -> Settings]
    BY <1>1 DEF Only, Closed
  <2>2. QED
    BY <2>1 DEF Only, Closed, Leaves
<1>4. ASSUME NEW ops \in Seq(Calls), NEW leaves \in Leaves, NEW v,
             DOMAIN leaves = {i}, leaves[i] = v, Coming(ops, i, v),
             \A k \in 1..Len(ops) : ops[k].slot = i /\ Result(ops[k]) \in {ZeroEntry, v}
      PROVE  Fits(ops, leaves)
  BY <1>4 DEF Fits
<1>5. Fits(<<Del(i), Add(i, e)>>, Only(i, Setting(e)))
  <2> DEFINE ops == <<Del(i), Add(i, e)>>
  <2>1. ops \in Seq(Calls) /\ Len(ops) = 2 /\ ops[1] = Del(i) /\ ops[2] = Add(i, e) /\ 1..Len(ops) = {1, 2}
    BY <1>2
  <2> HIDE DEF ops
  <2>2. Coming(ops, i, Setting(e))
    BY <1>2, <2>1 DEF Coming
  <2>3. \A k \in 1..Len(ops) : ops[k].slot = i /\ Result(ops[k]) \in {ZeroEntry, Setting(e)}
    BY <1>2, <2>1
  <2>4. Fits(ops, Only(i, Setting(e)))
    BY <1>3, <1>4, <2>1, <2>2, <2>3
  <2>5. QED
    BY <2>4 DEF ops
<1>6. Fits(<<Del(i)>>, Closed({i}))
  <2> DEFINE ops == <<Del(i)>>
  <2>1. ops \in Seq(Calls) /\ Len(ops) = 1 /\ ops[1] = Del(i) /\ 1..Len(ops) = {1}
    BY <1>2
  <2> HIDE DEF ops
  <2>2. Coming(ops, i, ZeroEntry)
    BY <1>2, <2>1 DEF Coming
  <2>3. \A k \in 1..Len(ops) : ops[k].slot = i /\ Result(ops[k]) \in {ZeroEntry, ZeroEntry}
    BY <1>2, <2>1
  <2>4. Fits(ops, Closed({i}))
    BY <1>3, <1>4, <2>1, <2>2, <2>3
  <2>5. QED
    BY <2>4 DEF ops
<1>7. QED
  BY <1>5, <1>6 DEF Replaced

-----------------------------------------------------------------------------
(* Every command begins in the same way.                                    *)
Begins(task, n, ops, leaves) ==
  /\ Begin(task, n, ops, leaves) /\ Fits(ops, leaves)
  /\ task = "ui" => \A i \in DOMAIN leaves :
                      leaves[i] = ZeroEntry \/ leaves[i].mode # ONCE

LEMMA PhoneEntriesAreOn ==
  ASSUME NEW e \in PhoneEntries
  PROVE  e \in Entries /\ e.sw # 0
BY CommandAssumption DEF Entries, PhoneEntries

LEMMA GivenBegins ==
  ASSUME TypeOK, Give
  PROVE  \E task \in Tasks, n \in 0..2 : \E ops, leaves : Begins(task, n, ops, leaves)
<1>0. "app" \in Tasks /\ "ui" \in Tasks /\ 1 \in Alarms /\ 2 \in Alarms
  BY DEF Tasks, Alarms
<1>n. \A n \in Alarms : n \in 0..2 /\ AlarmSlot(n) \in Slots /\ SnoozeSlot(n) \in Slots
  BY TwoAlarms
<1>1. ASSUME NEW n \in Alarms, NEW e \in PhoneEntries,
             Begin("app", n, app_alarm_add(n, e), Set(n, e))
      PROVE  Begins("app", n, app_alarm_add(n, e), Set(n, e))
  BY <1>1, PhoneEntriesAreOn, SetFits DEF Begins
<1>2. CASE \E e \in PhoneEntries : AddAny(e)
  <2>1. PICK e \in PhoneEntries : AddAny(e)
    BY <1>2
  <2>2. PICK n \in Alarms : Begin("app", n, app_alarm_add(n, e), Set(n, e))
    BY <1>0, <2>1 DEF AddAny
  <2>3. QED
    BY <1>0, <1>1, <1>n, <2>2
<1>3. CASE \E e \in PhoneEntries, n \in Alarms : app_alarm_add_by_index(n, e)
  BY <1>0, <1>1, <1>3, <1>n DEF app_alarm_add_by_index
<1>4. CASE \E n \in Alarms : app_alarm_delete(n)
  <2>1. PICK n \in Alarms : Begin("app", n, app_alarm_del(n), Closed(SlotsOf(n)))
    BY <1>4 DEF app_alarm_delete
  <2>2. Begins("app", n, app_alarm_del(n), Closed(SlotsOf(n)))
    BY <2>1, ClosedFits DEF Begins
  <2>3. QED
    BY <1>0, <1>n, <2>2
<1>5. CASE \E n \in Alarms : flip_alarm_sw(n)
  <2>1. PICK n \in Alarms : flip_alarm_sw(n)
    BY <1>5
  <2> DEFINE i == AlarmSlot(n)
             e == [Info(i) EXCEPT !.sw = IF @ = 0 THEN 1 ELSE 0, !.mode = EVERY_DAY]
  <2>2. e \in Entries
    <3>1. Info(i) \in Entry
      BY <1>n, ConstantTypes DEF Info, TypeOK
    <3>2. 0 \in SwInputs /\ 1 \in SwInputs /\ EVERY_DAY \in ModeInputs
      BY CommandAssumption
    <3>3. QED
      BY <3>1, <3>2 DEF Entry, Entries
  <2>3. Begin("app", n, Replaced(i, e), Only(i, Setting(e)))
    BY <2>1 DEF flip_alarm_sw
  <2> HIDE DEF e
  <2>4. Begins("app", n, Replaced(i, e), Only(i, Setting(e)))
    BY <1>n, <2>2, <2>3, OneFits DEF Begins
  <2>5. QED
    BY <1>0, <1>n, <2>4
<1>6. CASE \E n \in Alarms : user_add_alarm(n)
  <2>1. PICK n \in Alarms : user_add_alarm(n)
    BY <1>6
  <2> DEFINE i == SnoozeSlot(n)
             e == [sw |-> 1, mode |-> ONCE, tod |-> (now.min + SleepTime) % DayLen]
  <2>2. e \in Entries
    <3>1. (now.min + SleepTime) % DayLen \in Minutes
      BY TimeAssumption, CommandAssumption DEF TypeOK, Times, Minutes
    <3>2. QED
      BY <3>1, CommandAssumption DEF Entries
  <2>3. Begin("app", n, Replaced(i, e), Only(i, e)) /\ Setting(e) = e
    BY <2>1 DEF user_add_alarm, Setting
  <2> HIDE DEF e
  <2>4. Begins("app", n, Replaced(i, e), Only(i, e))
    <3>1. Fits(Replaced(i, e), Only(i, Setting(e)))
      BY <1>n, <2>2, OneFits
    <3>2. QED
      BY <2>3, <3>1 DEF Begins
  <2>5. QED
    BY <1>0, <1>n, <2>4
<1>7. CASE \E n \in Alarms : Unsleep(n)
  <2>1. PICK n \in Alarms : Begin("app", n, <<Del(SnoozeSlot(n))>>, Closed({SnoozeSlot(n)}))
    BY <1>7 DEF Unsleep
  <2>2. Fits(<<Del(SnoozeSlot(n))>>, Closed({SnoozeSlot(n)}))
    <3>1. [sw |-> 1, mode |-> EVERY_DAY, tod |-> 0] \in Entries
      BY CommandAssumption, TimeAssumption DEF Entries, Minutes
    <3>2. QED
      BY <1>n, <3>1, OneFits
  <2>3. Begins("app", n, <<Del(SnoozeSlot(n))>>, Closed({SnoozeSlot(n)}))
    BY <2>1, <2>2 DEF Begins
  <2>4. QED
    BY <1>0, <1>n, <2>3
<1>8. CASE app_alarm_del_all
  <2>1. Begins("app", 0, app_alarm_del(1) \o app_alarm_del(2),
               Closed(SlotsOf(1) \union SlotsOf(2)))
    BY <1>8, AllClosedFits DEF app_alarm_del_all, Begins
  <2>2. QED
    BY <1>0, <2>1
<1>9. CASE \E n \in Alarms, m \in Minutes : ui_set_rtc_timeout(n, m)
  <2>1. PICK n \in Alarms, m \in Minutes : ui_set_rtc_timeout(n, m)
    BY <1>9
  <2> DEFINE e == [sw |-> 1, mode |-> EVERY_DAY, tod |-> m]
  <2>2. e \in Entries /\ e.sw # 0 /\ e.mode # ONCE
    BY CommandAssumption DEF Entries, EVERY_DAY, ONCE
  <2>3. Begin("ui", n, SavedAlarm(n, e), Set(n, e))
    BY <2>1 DEF ui_set_rtc_timeout
  <2> HIDE DEF e
  <2>4. \A i \in DOMAIN Set(n, e) : Set(n, e)[i] = ZeroEntry \/ Set(n, e)[i].mode # ONCE
    BY <2>2 DEF Set
  <2>5. Begins("ui", n, SavedAlarm(n, e), Set(n, e))
    BY <2>2, <2>3, <2>4, SetFits DEF Begins
  <2>6. QED
    BY <1>0, <1>n, <2>5
<1>10. QED
  BY <1>2, <1>3, <1>4, <1>5, <1>6, <1>7, <1>8, <1>9 DEF Give

LEMMA InitCmd == CmdInit => CmdInv
<1> SUFFICES ASSUME CmdInit
             PROVE  CmdInv
  OBVIOUS
<1>1. Idle \in [to : 0..2, ops : Seq(Calls), leaves : Leaves]
  <2>1. << >> \in Seq(Calls) /\ Closed({}) \in [{} -> Settings] /\ {} \in SUBSET Slots
    BY DEF Closed
  <2>2. Closed({}) \in Leaves
    BY <2>1 DEF Leaves
  <2>3. QED
    BY <2>1, <2>2 DEF Idle
<1>2. CmdType
  BY <1>1 DEF CmdInit, CmdType, Settings
<1>3. asked = {} /\ kept = [i \in Slots |-> ZeroEntry]
  BY InitStore DEF CmdInit, Store!Init
<1>4. \A task \in Tasks : cmd[task] = Idle /\ ~ Busy(task)
  BY DEF CmdInit, Busy
<1>5. Len(Idle.ops) = 0 /\ DOMAIN Idle.leaves = {}
  BY DEF Idle, Closed
<1>6. Allowed
  BY <1>3, <1>4, <1>5 DEF Allowed, CmdInit
<1>7. OnItsWay /\ Alone
  BY <1>4, <1>5 DEF OnItsWay, Alone, Tasks
<1>8. QED
  BY <1>2, <1>6, <1>7 DEF CmdInv

(* A command begins: it allows what it is to leave.                         *)
LEMMA BeginKeeps ==
  ASSUME StoreInv, CmdInv, NEW task \in Tasks, NEW n \in 0..2, NEW ops, NEW leaves,
         Begins(task, n, ops, leaves)
  PROVE  CmdInv'
<1> USE DEF CmdInv
<1>1. /\ pc = "ready" /\ cmd[task] = Idle /\ UNCHANGED vars
      /\ cmd' = [cmd EXCEPT ![task] = [to |-> n, ops |-> ops, leaves |-> leaves]]
      /\ mixed' = \E other \in Tasks \ {task} : Busy(other)
      /\ may' = [i \in Slots |->
           IF i \in DOMAIN leaves
           THEN {kept[i], ZeroEntry, leaves[i]} \union (IF mixed' THEN may[i] ELSE {})
           ELSE may[i]]
  BY DEF Begins, Begin, Busy
<1>2. /\ ops \in Seq(Calls) /\ leaves \in Leaves
      /\ \A k \in 1..Len(ops) : ops[k].slot \in DOMAIN leaves
                               /\ Result(ops[k]) \in {ZeroEntry, leaves[ops[k].slot]}
      /\ \A i \in DOMAIN leaves : Coming(ops, i, leaves[i])
      /\ DOMAIN leaves \subseteq Slots /\ \A i \in DOMAIN leaves : leaves[i] \in Settings
  BY DEF Begins, Fits, Leaves
<1>3. kept' = kept /\ asked' = asked /\ asked = {}
  BY <1>1 DEF vars, ram, ghosts, kept, asked, Unwritten, StillRinging, RestoredSw, RestoredTab
<1>4. /\ cmd'[task].ops = ops /\ cmd'[task].leaves = leaves
      /\ \A t \in Tasks : t # task => cmd'[t] = cmd[t]
  BY <1>1 DEF CmdType
<1>5. \A t \in Tasks : t # task /\ ~ mixed' => cmd[t] = Idle
  BY <1>1 DEF Busy
<1>6. Len(Idle.ops) = 0 /\ DOMAIN Idle.leaves = {}
  BY DEF Idle, Closed
<1>7. CmdType'
  <2>1. \A i \in Slots : kept[i] \in Settings /\ ZeroEntry \in Settings
    BY DEF Allowed, CmdType, Settings
  <2>2. mixed' \in BOOLEAN
    BY <1>1
  <2>3. may' \in [Slots -> SUBSET Settings]
    BY <1>1, <1>2, <2>1 DEF CmdType
  <2>4. QED
    BY <1>1, <1>2, <2>2, <2>3 DEF CmdType
<1>8. Allowed'
  <2>1. \A i \in Slots : kept'[i] \in may'[i]
    BY <1>1, <1>3 DEF Allowed
  <2>2. \A k \in 1..Len(ops) : Result(ops[k]) \in may'[ops[k].slot]
    BY <1>1, <1>2
  <2>3. ASSUME NEW t \in Tasks, t # task, NEW k \in 1..Len(cmd[t].ops)
        PROVE  Result(cmd[t].ops[k]) \in may'[cmd[t].ops[k].slot]
    <3>1. mixed'
      BY <1>5, <1>6, <2>3
    <3>2. \A i \in Slots : may[i] \subseteq may'[i]
      BY <1>1, <3>1
    <3>3. cmd[t].ops[k].slot \in Slots
      BY <2>3 DEF CmdType, Calls
    <3>4. QED
      BY <2>3, <3>2, <3>3 DEF Allowed
  <2>4. QED
    BY <1>3, <1>4, <2>1, <2>2, <2>3 DEF Allowed
<1>9. OnItsWay'
  BY <1>1, <1>2, <1>4, <1>5 DEF OnItsWay, Busy
<1>10. Alone'
  <2>1. ~ mixed' => ~ (cmd'["app"] # Idle /\ cmd'["ui"] # Idle)
    BY <1>4, <1>5 DEF Tasks
  <2>2. \A i \in DOMAIN cmd'["ui"].leaves :
          cmd'["ui"].leaves[i] = ZeroEntry \/ cmd'["ui"].leaves[i].mode # ONCE
    BY <1>4 DEF Begins, Alone, Tasks
  <2>3. QED
    BY <2>1, <2>2 DEF Alone, Busy
<1>11. QED
  BY <1>7, <1>8, <1>9, <1>10

LEMMA TailOf ==
  ASSUME NEW ops \in Seq(Calls), ops # << >>, NEW i, NEW v
  PROVE  /\ Head(ops) = ops[1] /\ Head(ops) \in Calls /\ 1 \in 1..Len(ops)
         /\ Tail(ops) \in Seq(Calls)
         /\ \A k \in 1..Len(Tail(ops)) : k + 1 \in 1..Len(ops) /\ Tail(ops)[k] = ops[k + 1]
         /\ Coming(ops, i, v) =>
              \/ Coming(Tail(ops), i, v)
              \/ NoneFor(Tail(ops), i) /\ Head(ops).slot = i /\ Result(Head(ops)) = v
         /\ NoneFor(ops, i) => NoneFor(Tail(ops), i) /\ Head(ops).slot # i
<1> DEFINE rest == Tail(ops)
<1>1. Head(ops) = ops[1] /\ Head(ops) \in Calls /\ Len(ops) \in Nat /\ Len(ops) >= 1
  OBVIOUS
<1>2. rest \in Seq(Calls) /\ Len(rest) = Len(ops) - 1
  BY HeadTailProperties
<1>3. \A k \in 1..Len(rest) : rest[k] = ops[k + 1]
  BY HeadTailProperties
<1> HIDE DEF rest
<1>4. \A k \in 1..Len(rest) : k + 1 \in 1..Len(ops)
  BY <1>1, <1>2
<1>5. \A k \in 1..Len(ops) : k # 1 => k - 1 \in 1..Len(rest) /\ rest[k - 1] = ops[k]
  BY <1>1, <1>2, <1>3
<1>6. ASSUME Coming(ops, i, v)
      PROVE  \/ Coming(rest, i, v)
             \/ NoneFor(rest, i) /\ ops[1].slot = i /\ Result(ops[1]) = v
  <2>1. PICK k \in 1..Len(ops) : /\ ops[k].slot = i /\ Result(ops[k]) = v
                                 /\ \A l \in 1..Len(ops) : l > k => ops[l].slot # i
    BY <1>6 DEF Coming
  <2>2. CASE k = 1
    <3>1. \A l \in 1..Len(rest) : l + 1 > 1
      BY <1>2
    <3>2. NoneFor(rest, i)
      BY <1>3, <1>4, <2>1, <2>2, <3>1 DEF NoneFor
    <3>3. QED
      BY <2>1, <2>2, <3>2
  <2>3. CASE k # 1
    <3>1. k - 1 \in 1..Len(rest) /\ rest[k - 1] = ops[k]
      BY <1>5, <2>3
    <3>2. \A l \in 1..Len(rest) : l > k - 1 => l + 1 > k
      BY <1>2
    <3>3. \A l \in 1..Len(rest) : l > k - 1 => rest[l].slot # i
      BY <1>3, <1>4, <2>1, <3>2
    <3>4. QED
      BY <2>1, <3>1, <3>3 DEF Coming
  <2>4. QED
    BY <2>2, <2>3
<1>7. ASSUME NoneFor(ops, i)
      PROVE  NoneFor(rest, i) /\ ops[1].slot # i
  BY <1>1, <1>3, <1>4, <1>7 DEF NoneFor
<1>8. QED
  BY <1>1, <1>2, <1>3, <1>4, <1>6, <1>7 DEF rest

(* A call asks for what it leaves, and nothing else.                        *)
LEMMA CallAsks ==
  ASSUME StoreInv, CmdType, NEW task \in Tasks, Call(task)
  PROVE  LET o == Head(cmd[task].ops)
         IN  /\ cmd[task].ops \in Seq(Calls) /\ cmd[task].ops # << >> /\ o \in Calls
             /\ asked = {} /\ asked' = {<<o.slot, Result(o)>>} /\ kept' = kept
             /\ (o.op = "del" /\ alarm_delete(o.slot)) \/ (o.op = "add" /\ alarm_add(o.slot, o.alarm))
<1> DEFINE o == Head(cmd[task].ops)
<1>1. cmd[task].ops \in Seq(Calls) /\ cmd[task].ops # << >>
  BY DEF Call, CmdType
<1>2. o \in Calls
  BY <1>1
<1> HIDE DEF o
<1>3. (o.op = "del" /\ alarm_delete(o.slot)) \/ (o.op = "add" /\ alarm_add(o.slot, o.alarm))
  BY DEF Call, o
<1>4. o.slot \in Slots /\ alarm_tab \in [Slots -> Entry]
  BY <1>2 DEF Calls, StoreInv, TypeOK
<1>5. /\ pc = "ready" /\ pc' = "arm" /\ wr' = "rec" /\ slot' = o.slot /\ vm' = vm
      /\ alarm_tab' = IF o.op = "del" THEN [alarm_tab EXCEPT ![o.slot].sw = 0]
                                      ELSE [alarm_tab EXCEPT ![o.slot] = o.alarm]
  BY <1>3 DEF alarm_delete, alarm_add
<1>6. Setting(alarm_tab'[o.slot]) = Result(o)
  <2>1. CASE o.op = "del"
    <3>1. alarm_tab'[o.slot].sw = 0
      BY <1>4, <1>5, <2>1 DEF Entry
    <3>2. QED
      BY <2>1, <3>1 DEF Setting, Result
  <2>2. CASE o.op = "add"
    BY <1>4, <1>5, <2>2 DEF Result
  <2>3. QED
    BY <1>3, <2>1, <2>2
<1>7. asked = {} /\ kept' = kept
  BY <1>5 DEF asked, Unwritten, kept, RestoredSw, RestoredTab
<1>8. asked' = {<<o.slot, Result(o)>>}
  BY <1>5, <1>6 DEF asked, Unwritten, Setting
<1>9. QED
  BY <1>1, <1>2, <1>3, <1>7, <1>8 DEF o

LEMMA CallKeeps ==
  ASSUME StoreInv, CmdInv, NEW task \in Tasks, Call(task)
  PROVE  CmdInv'
<1> USE DEF CmdInv
<1> DEFINE o == Head(cmd[task].ops)
<1>1. /\ cmd[task].ops \in Seq(Calls) /\ cmd[task].ops # << >> /\ o \in Calls
      /\ asked = {} /\ asked' = {<<o.slot, Result(o)>>} /\ kept' = kept
  BY CallAsks
<1>2. cmd' = [cmd EXCEPT ![task].ops = Tail(@)] /\ UNCHANGED <<may, mixed>>
  BY DEF Call
<1>3. /\ cmd'[task].ops = Tail(cmd[task].ops)
      /\ \A t \in Tasks : cmd'[t].leaves = cmd[t].leaves
      /\ \A t \in Tasks : t # task => cmd'[t] = cmd[t]
  BY <1>2 DEF CmdType
<1>4. /\ o = cmd[task].ops[1] /\ 1 \in 1..Len(cmd[task].ops) /\ Tail(cmd[task].ops) \in Seq(Calls)
      /\ \A k \in 1..Len(Tail(cmd[task].ops)) :
           /\ k + 1 \in 1..Len(cmd[task].ops)
           /\ Tail(cmd[task].ops)[k] = cmd[task].ops[k + 1]
      /\ \A i, v : Coming(cmd[task].ops, i, v) =>
           \/ Coming(Tail(cmd[task].ops), i, v)
           \/ NoneFor(Tail(cmd[task].ops), i) /\ o.slot = i /\ Result(o) = v
      /\ \A i, v : NoneFor(cmd[task].ops, i) => NoneFor(Tail(cmd[task].ops), i) /\ o.slot # i
  BY <1>1, TailOf
<1>5. o.slot \in Slots /\ Result(o) \in Settings /\ Result(o) \in may[o.slot]
  <2>1. Result(o) \in may[o.slot]
    BY <1>4 DEF Allowed
  <2>2. o.slot \in Slots /\ Result(o) \in Settings
    BY <1>1 DEF Calls, Result, Settings
  <2>3. QED
    BY <2>1, <2>2
<1>b. cmd[task] # Idle
  BY <1>1 DEF Idle
<1> HIDE DEF o
<1>6. CmdType'
  BY <1>2, <1>4 DEF CmdType
<1>7. Allowed'
  <2>1. \A i \in Slots, e \in Settings : <<i, e>> \in asked' => e \in may'[i]
    BY <1>1, <1>2, <1>5
  <2>2. \A t \in Tasks : \A k \in 1..Len(cmd'[t].ops) :
          Result(cmd'[t].ops[k]) \in may'[cmd'[t].ops[k].slot]
    BY <1>2, <1>3, <1>4 DEF Allowed
  <2>3. QED
    BY <1>1, <1>2, <2>1, <2>2 DEF Allowed
<1>8. OnItsWay'
  <2> SUFFICES ASSUME ~ mixed', NEW t \in Tasks, Busy(t)', NEW i \in DOMAIN cmd'[t].leaves
               PROVE  (\/ Coming(cmd[t].ops, i, cmd[t].leaves[i])
                       \/ NoneFor(cmd[t].ops, i) /\ Settled(i, cmd[t].leaves[i]))'
    BY DEF OnItsWay
  <2>1. t = task
    BY <1>2, <1>3, <1>b DEF Alone, Busy, Tasks
  <2>2. PICK v : v = cmd[task].leaves[i]
    OBVIOUS
  <2>3. \/ Coming(cmd[task].ops, i, v)
        \/ NoneFor(cmd[task].ops, i) /\ Settled(i, v)
    BY <1>2, <1>3, <1>b, <2>1, <2>2 DEF OnItsWay, Busy
  <2>4. cmd'[t].leaves[i] = v /\ cmd'[t].ops = Tail(cmd[task].ops)
    BY <1>3, <2>1, <2>2
  <2>5. \/ Coming(Tail(cmd[task].ops), i, v)
        \/ NoneFor(Tail(cmd[task].ops), i) /\ Settled(i, v)'
    <3>1. CASE Coming(cmd[task].ops, i, v)
      <4>1. o.slot = i /\ Result(o) = v => Settled(i, v)'
        BY <1>1, <1>5 DEF Settled
      <4>2. \/ Coming(Tail(cmd[task].ops), i, v)
            \/ NoneFor(Tail(cmd[task].ops), i) /\ o.slot = i /\ Result(o) = v
        BY <1>4, <3>1
      <4>3. QED
        BY <4>1, <4>2
    <3>2. CASE NoneFor(cmd[task].ops, i) /\ Settled(i, v)
      <4>1. kept[i] = v
        BY <1>1, <3>2 DEF Settled
      <4>2. o.slot # i => Settled(i, v)'
        BY <1>1, <4>1 DEF Settled
      <4>3. QED
        BY <1>4, <3>2, <4>2
    <3>3. QED
      BY <2>3, <3>1, <3>2
  <2>6. QED
    BY <2>4, <2>5 DEF Settled, Coming, NoneFor
<1>9. Alone'
  <2>1. \A t \in Tasks : Busy(t)' => Busy(t)
    BY <1>3, <1>b DEF Busy
  <2>2. QED
    BY <1>2, <1>3, <2>1 DEF Alone, Tasks
<1>10. QED
  BY <1>6, <1>7, <1>8, <1>9

(* A command is over, and what it is to leave is there.                     *)
LEMMA ReturnKeeps ==
  ASSUME StoreInv, CmdInv, NEW task \in Tasks, Return(task)
  PROVE  CmdInv'
<1> USE DEF CmdInv
<1>1. /\ pc = "ready" /\ cmd[task] # Idle /\ cmd[task].ops = << >> /\ UNCHANGED vars
      /\ cmd' = [cmd EXCEPT ![task] = Idle]
      /\ may' = IF mixed THEN may
                ELSE [i \in Slots |-> IF i \in DOMAIN cmd[task].leaves
                                      THEN {cmd[task].leaves[i]} ELSE may[i]]
      /\ mixed' = (mixed /\ \E other \in Tasks \ {task} : cmd[other] # Idle)
  BY DEF Return, Busy
<1>2. kept' = kept /\ asked' = asked /\ asked = {}
  BY <1>1 DEF vars, ram, ghosts, kept, asked, Unwritten, StillRinging, RestoredSw, RestoredTab
<1>3. Idle \in [to : 0..2, ops : Seq(Calls), leaves : Leaves] /\ Len(Idle.ops) = 0
      /\ DOMAIN Idle.leaves = {}
  <2>1. << >> \in Seq(Calls) /\ Closed({}) \in [{} -> Settings] /\ {} \in SUBSET Slots
    BY DEF Closed
  <2>2. Closed({}) \in Leaves
    BY <2>1 DEF Leaves
  <2>3. QED
    BY <2>1, <2>2 DEF Idle, Closed
<1>4. cmd'[task] = Idle /\ \A t \in Tasks : t # task => cmd'[t] = cmd[t]
  BY <1>1 DEF CmdType
<1>5. ~ mixed => \A t \in Tasks : cmd'[t] = Idle
  BY <1>1, <1>4 DEF Alone, Busy, Tasks
<1>6. cmd[task].leaves \in Leaves /\ \A i \in DOMAIN cmd[task].leaves : cmd[task].leaves[i] \in Settings
  BY DEF CmdType, Leaves
<1>7. ~ mixed => \A i \in DOMAIN cmd[task].leaves : kept[i] = cmd[task].leaves[i]
  <2> SUFFICES ASSUME ~ mixed, NEW i \in DOMAIN cmd[task].leaves
               PROVE  kept[i] = cmd[task].leaves[i]
    OBVIOUS
  <2>1. ~ Coming(cmd[task].ops, i, cmd[task].leaves[i])
    BY <1>1 DEF Coming
  <2>2. Settled(i, cmd[task].leaves[i])
    BY <1>1, <2>1 DEF OnItsWay, Busy
  <2>3. QED
    BY <1>2, <2>2 DEF Settled
<1>8. CmdType'
  <2>1. may' \in [Slots -> SUBSET Settings]
    BY <1>1, <1>6 DEF CmdType
  <2>2. QED
    BY <1>1, <1>3, <2>1 DEF CmdType
<1>9. Allowed'
  <2>1. \A i \in Slots : kept'[i] \in may'[i]
    BY <1>1, <1>2, <1>7 DEF Allowed
  <2>2. ASSUME NEW t \in Tasks, NEW k \in 1..Len(cmd'[t].ops)
        PROVE  Result(cmd'[t].ops[k]) \in may'[cmd'[t].ops[k].slot]
    <3>1. cmd'[t] # Idle
      BY <1>3, <2>2
    <3>2. cmd'[t] = cmd[t] /\ may' = may
      BY <1>1, <1>4, <1>5, <3>1
    <3>3. QED
      BY <2>2, <3>2 DEF Allowed
  <2>3. QED
    BY <1>2, <2>1, <2>2 DEF Allowed
<1>10. ~ mixed' => \A t \in Tasks : cmd'[t] = Idle
  BY <1>1, <1>4, <1>5
<1>11. OnItsWay'
  BY <1>10 DEF OnItsWay, Busy
<1>12. Alone'
  BY <1>3, <1>4, <1>10 DEF Alone, Busy, Tasks
<1>13. QED
  BY <1>8, <1>9, <1>11, <1>12

(* An alarm rings: what rings once is closed, and nothing that was set for  *)
(* good is.                                                                 *)
LEMMA RingKeeps ==
  ASSUME StoreInv, CmdInv, Ring
  PROVE  CmdInv'
<1> USE DEF CmdInv
<1> DEFINE rung == {i \in active_map : alarm_tab[i].mode = ONCE}
<1>1. /\ pc = "ready" /\ pc' = "isr" /\ wr = "none" /\ wr' = "none" /\ todo' = active_map
      /\ UNCHANGED <<alarm_tab, vm, cmd, mixed>> /\ cmd["app"] = Idle
      /\ may' = [i \in Slots |-> IF i \in rung THEN may[i] \union {ZeroEntry} ELSE may[i]]
  BY DEF Ring, Busy, alarm_update_info_after_isr, StoreInv, StateInv, Plan
<1>2. asked = {} /\ kept' = kept
  BY <1>1 DEF asked, Unwritten, kept, RestoredSw, RestoredTab
<1>3. asked' = {<<i, ZeroEntry>> : i \in rung}
  BY <1>1 DEF asked, StillRinging
<1>4. ASSUME NEW i \in Slots, i \in rung
      PROVE  kept[i] = ZeroEntry \/ kept[i].mode = ONCE
  <2>1. kept[i] = IF i \in vm.map THEN Setting(vm.rec[i].alarm) ELSE ZeroEntry
    BY KeptFound DEF Found
  <2>2. i \in vm.map => vm.rec[i].alarm = alarm_tab[i]
    BY <1>1 DEF StoreInv, StateInv, Recorded, InFlight, MaskKept
  <2>3. QED
    BY <1>4, <2>1, <2>2 DEF Setting
<1> HIDE DEF rung
<1>5. CmdType'
  <2>1. may' \in [Slots -> SUBSET Settings]
    BY <1>1 DEF CmdType, Settings
  <2>2. QED
    BY <1>1, <2>1 DEF CmdType
<1>6. Allowed'
  <2>1. \A i \in Slots : may[i] \subseteq may'[i] /\ (i \in rung => ZeroEntry \in may'[i])
    BY <1>1
  <2>2. \A i \in Slots, e \in Settings : <<i, e>> \in asked' => e \in may'[i]
    BY <1>3, <2>1
  <2>3. \A t \in Tasks : \A k \in 1..Len(cmd[t].ops) : cmd[t].ops[k].slot \in Slots
    BY DEF CmdType, Calls
  <2>4. \A t \in Tasks : \A k \in 1..Len(cmd[t].ops) :
          Result(cmd[t].ops[k]) \in may'[cmd[t].ops[k].slot]
    BY <2>1, <2>3 DEF Allowed
  <2>5. QED
    BY <1>1, <1>2, <2>1, <2>2, <2>4 DEF Allowed
<1>7. OnItsWay'
  <2> SUFFICES ASSUME ~ mixed, NEW t \in Tasks, cmd[t] # Idle, NEW i \in DOMAIN cmd[t].leaves,
                      NoneFor(cmd[t].ops, i), Settled(i, cmd[t].leaves[i])
               PROVE  Settled(i, cmd[t].leaves[i])'
    BY <1>1 DEF OnItsWay, Busy, Coming, NoneFor
  <2>1. PICK v : v = cmd[t].leaves[i]
    OBVIOUS
  <2>2. kept[i] = v /\ i \in Slots /\ (v = ZeroEntry \/ v.mode # ONCE)
    <3>1. t = "ui" /\ i \in Slots
      BY <1>1 DEF Tasks, CmdType, Leaves
    <3>2. QED
      BY <1>2, <2>1, <3>1 DEF Settled, Alone
  <2>3. i \in rung => v = ZeroEntry
    BY <1>4, <2>2
  <2>4. \A e \in Settings : <<i, e>> \in asked' => e = v
    BY <1>3, <2>3
  <2>5. cmd'[t].leaves[i] = v
    BY <1>1, <2>1
  <2>6. QED
    BY <1>2, <2>2, <2>4, <2>5 DEF Settled
<1>8. Alone'
  BY <1>1 DEF Alone, Busy
<1>9. QED
  BY <1>5, <1>6, <1>7, <1>8

(* The steps inside the engine: they change what was asked for, at most.    *)
LEMMA InsideChanges ==
  ASSUME StoreInv, Writes, Inside
  PROVE  asked' \subseteq asked /\ (up => up')
<1> USE DEF Writes
<1>0. /\ alarm_tab \in [Slots -> Entry] /\ vm \in VmContents /\ slot \in Slots
      /\ todo \subseteq Slots
  BY DEF StoreInv, TypeOK
<1>p. Plan
  BY DEF StoreInv, StateInv
<1>1. CASE Tick \/ alarm_check
  BY <1>1 DEF Tick, alarm_check, ram, asked, Unwritten, StillRinging, up
<1>2. CASE IsrSlot
  <2>1. PICK i \in Slots : i = Least(todo) /\ i \in todo
    BY <1>0, <1>2, LeastSlot DEF IsrSlot
  <2>2. /\ pc = "isr" /\ pc' = "isr_mask" /\ wr = "none" /\ wr' = "none"
        /\ slot' = i /\ todo' = todo
        /\ alarm_tab' = [alarm_tab EXCEPT ![i] = AfterRing(alarm_tab[i])]
    BY <1>p, <1>2, <2>1 DEF IsrSlot, Plan
  <2>3. \A j \in Slots : j # i => alarm_tab'[j] = alarm_tab[j]
    BY <1>0, <2>2
  <2>4. StillRinging' \subseteq StillRinging
    BY <1>0, <2>2, <2>3 DEF StillRinging
  <2>5. QED
    BY <2>2, <2>4 DEF asked, up
<1>3. CASE IsrMask
  <2>1. /\ pc = "isr_mask" /\ pc' = "isr" /\ wr = "none" /\ wr' = "none"
        /\ todo' = todo \ {slot} /\ UNCHANGED alarm_tab
    BY <1>p, <1>3 DEF IsrMask, ram, Plan
  <2>2. StillRinging' \subseteq StillRinging
    BY <2>1 DEF StillRinging
  <2>3. QED
    BY <2>1, <2>2 DEF asked, up
<1>4. CASE IsrUpdate
  BY <1>4 DEF IsrUpdate, asked, up
<1>5. CASE Arm
  BY <1>p, <1>5 DEF Arm, NextWrite, asked, Unwritten, up
<1>6. CASE WriteRecord \/ WriteMask
  BY <1>p, <1>6 DEF WriteRecord, WriteMask, ram, NextWrite, asked, Unwritten, Plan, up
<1>7. CASE InitFresh \/ InitUpdate \/ InitWoken \/ Format
  <2>1. pc \in {"off", "format"} /\ pc' \in {"format", "arm", "ready"} /\ wr = "none" /\ wr' = "none"
    BY <1>p, <1>7 DEF InitFresh, InitUpdate, InitWoken, Format, Started, Plan
  <2>2. QED
    BY <2>1 DEF asked, up
<1>8. QED
  BY <1>1, <1>2, <1>3, <1>4, <1>5, <1>6, <1>7 DEF Inside

(* The engine carries out what was asked for.                               *)
LEMMA InsideKeeps ==
  ASSUME StoreInv, StoreInv', Writes, CmdInv, Inside, [Next]_vars
  PROVE  CmdInv'
<1> USE DEF CmdInv
<1>1. cmd' = cmd /\ may' = may /\ mixed' = mixed
  BY DEF Inside, cmdVars
<1>2. asked' \subseteq asked /\ (up => up')
  BY InsideChanges
<1>3. \/ kept' = kept /\ asked' = asked
      \/ \E i \in Slots, e \in Settings : /\ <<i, e>> \in asked
                                       /\ kept' = [kept EXCEPT ![i] = e]
                                       /\ asked' = asked \ {<<i, e>>}
  <2>1. [Store!Next]_(Store!vars)
    BY StepStore
  <2>2. CASE \E i \in Slots, e \in Settings : Store!Change(i, e)
    BY <2>2 DEF Store!Change
  <2>3. CASE \/ Store!Start \/ Store!PowerLost \/ UNCHANGED (Store!vars)
            \/ (\E rung \in SUBSET Slots : Store!Ring(rung))
            \/ (\E i \in Slots, e \in Settings : Store!Ask(i, e))
    BY <1>2, <2>3 DEF Store!Start, Store!PowerLost, Store!Ring, Store!Ask, Store!vars
  <2>4. QED
    BY <2>1, <2>2, <2>3 DEF Store!Next
<1>4. \A i \in Slots : kept'[i] = kept[i] \/ (kept'[i] \in Settings /\ <<i, kept'[i]>> \in asked)
  BY <1>3 DEF kept
<1>5. ASSUME NEW i \in Slots, NEW v, Settled(i, v)
      PROVE  Settled(i, v)'
  <2>1. CASE kept' = kept /\ asked' = asked
    BY <1>5, <2>1 DEF Settled
  <2>2. ASSUME NEW j \in Slots, NEW e \in Settings, <<j, e>> \in asked,
               kept' = [kept EXCEPT ![j] = e], asked' = asked \ {<<j, e>>}
        PROVE  Settled(i, v)'
    <3>1. CASE i = j
      <4>1. e = v
        BY <1>5, <2>2, <3>1 DEF Settled
      <4>2. kept'[i] = v
        BY <2>2, <3>1, <4>1 DEF kept
      <4>3. QED
        BY <1>5, <2>2, <4>2 DEF Settled
    <3>2. CASE i # j
      <4>1. kept'[i] = kept[i]
        BY <2>2, <3>2 DEF kept
      <4>2. \A f \in Settings : <<i, f>> \in asked' <=> <<i, f>> \in asked
        BY <2>2, <3>2
      <4>3. QED
        BY <1>5, <4>1, <4>2 DEF Settled
    <3>3. QED
      BY <3>1, <3>2
  <2>3. QED
    BY <1>3, <2>1, <2>2
<1>6. CmdType' /\ Alone'
  BY <1>1 DEF CmdType, Alone, Busy
<1>7. Allowed'
  BY <1>1, <1>2, <1>4 DEF Allowed
<1>8. OnItsWay'
  <2> SUFFICES ASSUME ~ mixed, NEW t \in Tasks, cmd[t] # Idle, NEW i \in DOMAIN cmd[t].leaves,
                      NoneFor(cmd[t].ops, i), Settled(i, cmd[t].leaves[i])
               PROVE  Settled(i, cmd[t].leaves[i])'
    BY <1>1 DEF OnItsWay, Busy, Coming, NoneFor
  <2>1. PICK v : v = cmd[t].leaves[i]
    OBVIOUS
  <2>2. i \in Slots
    BY DEF CmdType, Leaves
  <2>3. Settled(i, v)'
    BY <1>5, <2>1, <2>2
  <2>4. QED
    BY <1>1, <2>1, <2>3 DEF Settled
<1>9. QED
  BY <1>6, <1>7, <1>8

LEMMA PowerLostKeeps ==
  ASSUME CmdInv, PowerLost
  PROVE  CmdInv'
<1> USE DEF CmdInv
<1>1. /\ cmd' = [task \in Tasks |-> Idle] /\ ~ mixed' /\ mixed' \in BOOLEAN /\ may' = may
      /\ pc' = "off" /\ wr' = "none" /\ vm' = vm
  BY DEF PowerLost, Crash
<1>2. kept' = kept /\ asked' = {}
  BY <1>1 DEF kept, RestoredSw, RestoredTab, asked
<1>3. Idle \in [to : 0..2, ops : Seq(Calls), leaves : Leaves] /\ Len(Idle.ops) = 0
      /\ DOMAIN Idle.leaves = {}
  <2>1. << >> \in Seq(Calls) /\ Closed({}) \in [{} -> Settings] /\ {} \in SUBSET Slots
    BY DEF Closed
  <2>2. Closed({}) \in Leaves
    BY <2>1 DEF Leaves
  <2>3. QED
    BY <2>1, <2>2 DEF Idle, Closed
<1>4. \A t \in Tasks : cmd'[t] = Idle
  BY <1>1
<1>5. CmdType'
  BY <1>1, <1>3 DEF CmdType
<1>6. Allowed'
  BY <1>1, <1>2, <1>3, <1>4 DEF Allowed
<1>7. OnItsWay' /\ Alone'
  BY <1>3, <1>4 DEF OnItsWay, Alone, Busy, Tasks
<1>8. QED
  BY <1>5, <1>6, <1>7

-----------------------------------------------------------------------------
(* The commands are callers as AlarmCore has them.                          *)
LEMMA EngineStep ==
  ASSUME StoreInv, CmdType, [CmdNext]_allVars
  PROVE  [Next]_vars
<1>1. CASE Give
  BY <1>1, GivenBegins DEF StoreInv, Begins, Begin
<1>2. ASSUME NEW task \in Tasks, Call(task)
      PROVE  Next
  <2> DEFINE o == Head(cmd[task].ops)
  <2>1. o \in Calls /\ ((o.op = "del" /\ alarm_delete(o.slot)) \/ (o.op = "add" /\ alarm_add(o.slot, o.alarm)))
    BY <1>2, CallAsks
  <2> HIDE DEF o
  <2>2. o.slot \in Slots /\ (o.op = "add" => o.alarm \in Entries)
    BY <2>1 DEF Calls
  <2>3. QED
    BY <2>1, <2>2 DEF Next, Callers
<1>3. CASE \E task \in Tasks : Return(task)
  BY <1>3 DEF Return
<1>4. CASE Ring \/ Inside \/ PowerLost
  BY <1>4 DEF Ring, Inside, PowerLost, Next, Handler
<1>5. CASE UNCHANGED allVars
  BY <1>5 DEF allVars
<1>6. QED
  BY <1>1, <1>2, <1>3, <1>4, <1>5 DEF CmdNext

LEMMA StepCmd ==
  ASSUME StoreInv, StoreInv', Writes, CmdInv, [CmdNext]_allVars
  PROVE  CmdInv'
<1>1. CASE Give
  BY <1>1, GivenBegins, BeginKeeps DEF StoreInv
<1>2. CASE \E task \in Tasks : Call(task) \/ Return(task)
  BY <1>2, CallKeeps, ReturnKeeps
<1>3. CASE Ring \/ PowerLost
  BY <1>3, RingKeeps, PowerLostKeeps
<1>4. CASE Inside
  BY <1>4, EngineStep, InsideKeeps DEF CmdInv
<1>5. CASE UNCHANGED allVars
  <2>1. kept' = kept /\ asked' = asked /\ cmd' = cmd /\ may' = may /\ mixed' = mixed
    BY <1>5 DEF allVars, vars, cmdVars, kept, RestoredSw, RestoredTab, asked, Unwritten, StillRinging
  <2>2. CmdType' /\ Allowed'
    BY <2>1 DEF CmdInv, CmdType, Allowed
  <2>3. OnItsWay'
    BY <2>1 DEF CmdInv, OnItsWay, Busy, Settled, Coming, NoneFor
  <2>4. Alone'
    BY <2>1 DEF CmdInv, Alone, Busy
  <2>5. QED
    BY <2>2, <2>3, <2>4 DEF CmdInv
<1>6. QED
  BY <1>1, <1>2, <1>3, <1>4, <1>5 DEF CmdNext

LEMMA CommandsKeep == ASSUME Writes PROVE CmdSpec => [](StoreInv /\ CmdInv)
<1>1. CmdInit => StoreInv /\ CmdInv
  BY InitType, InitState, InitMask, InitCmd DEF CmdInit, StoreInv
<1>2. StoreInv /\ CmdInv /\ [CmdNext]_allVars => (StoreInv /\ CmdInv)'
  <2> SUFFICES ASSUME StoreInv, CmdInv, [CmdNext]_allVars
               PROVE  (StoreInv /\ CmdInv)'
    OBVIOUS
  <2>1. [Next]_vars
    BY EngineStep DEF CmdInv
  <2>2. StoreInv'
    BY <2>1, StepType, StepState, StepMask DEF StoreInv
  <2>3. QED
    BY <2>2, StepCmd
<1>3. QED
  BY <1>1, <1>2, PTL DEF CmdSpec

(* What the callers do of the engine is what it was proved for: every       *)
(* behaviour of the commands is one of AlarmCore (alarm_api.c:938-1045,     *)
(* rtc.c:140-190 and 272-290, alarm_user.c:193-256).                        *)
THEOREM CommandsUseEngine == ASSUME Writes PROVE CmdSpec => Spec
<1>1. CmdInit => Init
  BY DEF CmdInit
<1>2. StoreInv /\ CmdInv /\ [CmdNext]_allVars => [Next]_vars
  BY EngineStep DEF CmdInv
<1>3. QED
  BY <1>1, <1>2, CommandsKeep, PTL DEF CmdSpec, Spec

(* A command of the phone, the keys or the ui task is done whole or, with   *)
(* power lost, leaves closed what it does not leave as it was; nothing else *)
(* changes (alarm_api.c:952-1045).                                          *)
THEOREM CommandsWhole == ASSUME Writes PROVE CmdSpec => []CommandWhole
<1>1. StoreInv /\ CmdInv => CommandWhole
  BY DEF CmdInv, Allowed, CommandWhole
<1>2. QED
  BY <1>1, CommandsKeep, PTL

(* Between two operations what a start would find is what the table says.   *)
LEMMA KeptIsTable ==
  ASSUME StoreInv, pc = "ready", NEW i \in Slots
  PROVE  kept[i] = IF i \in map THEN Setting(alarm_tab[i]) ELSE ZeroEntry
<1>1. kept[i] = Found(vm, i)
  BY KeptFound
<1>2. i \in map <=> i \in vm.map
  BY DEF StoreInv, MaskKept
<1>3. i \in map => vm.rec[i].alarm = alarm_tab[i]
  BY DEF StoreInv, StateInv, Recorded, InFlight
<1>4. QED
  BY <1>1, <1>2, <1>3 DEF Found

(* With flash writes that succeed, the phone's alarm without a number takes *)
(* the slot of a stored alarm only when the other alarm is stored too: what *)
(* app_alarm_add sees in the table is what the flash has.                   *)
THEOREM FreeOneFirst == ASSUME Writes PROVE CmdSpec => FreeAlarmFirst
<1>1. ASSUME StoreInv, CmdInv, NEW n \in Alarms, NEW e \in PhoneEntries, AddAny(e),
             cmd'["app"].to = n, kept[AlarmSlot(n)] # ZeroEntry, NEW other \in Alarms
      PROVE  kept[AlarmSlot(other)] # ZeroEntry
  <2>1. \A k \in Alarms : Free(k) <=> kept[AlarmSlot(k)] = ZeroEntry
    <3>1. pc = "ready"
      BY <1>1 DEF AddAny, Begin
    <3>2. ZeroEntry.sw = 0
      BY DEF ZeroEntry
    <3>3. SUFFICES ASSUME NEW k \in Alarms
                   PROVE  Free(k) <=> kept[AlarmSlot(k)] = ZeroEntry
      OBVIOUS
    <3>4. AlarmSlot(k) \in Slots
      BY TwoAlarms
    <3>5. kept[AlarmSlot(k)]
            = IF AlarmSlot(k) \in map THEN Setting(alarm_tab[AlarmSlot(k)]) ELSE ZeroEntry
      BY <1>1, <3>1, <3>4, KeptIsTable
    <3>6. QED
      BY <3>2, <3>5 DEF Free, Info, Setting
  <2>2. cmd \in [Tasks -> [to : 0..2, ops : Seq(Calls), leaves : Leaves]] /\ "app" \in Tasks
    BY <1>1 DEF CmdInv, CmdType, Tasks
  <2>3. n = CASE Free(1) -> 1 [] ~ Free(1) /\ Free(2) -> 2
              [] OTHER -> IF order = 1 THEN 2 ELSE 1
    BY <1>1, <2>2 DEF AddAny, Begin
  <2>4. Alarms = {1, 2}
    BY DEF Alarms
  <2>5. ~ Free(n)
    BY <1>1, <2>1
  <2>6. ~ Free(1) /\ ~ Free(2)
    BY <2>3, <2>5
  <2>7. QED
    BY <1>1, <2>1, <2>4, <2>6
<1>2. ASSUME StoreInv, CmdInv
      PROVE  [\A n \in Alarms :
                (\E e \in PhoneEntries : AddAny(e)) /\ cmd'["app"].to = n
                  /\ kept[AlarmSlot(n)] # ZeroEntry
                => \A other \in Alarms : kept[AlarmSlot(other)] # ZeroEntry]_allVars
  BY <1>1, <1>2
<1>3. CmdSpec => [](StoreInv /\ CmdInv)
  BY CommandsKeep
<1>4. QED
  BY <1>2, <1>3, PTL DEF FreeAlarmFirst
=============================================================================
