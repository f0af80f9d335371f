--------------------------- MODULE AlarmCoreProofs ---------------------------
(***************************************************************************)
(* Theorems about AlarmCore, for every number of slots, length of day and  *)
(* of week, every set of inputs the assumptions of AlarmCore allow, and     *)
(* every interleaving of handlers, clock, interrupt and losses of power.    *)
(* First what holds also when flash writes fail: the register is ahead of   *)
(* the clock, an undisturbed event names the alarms that were due, and a    *)
(* table whose records can be read is armed as it says.  Then what holds    *)
(* when a write that is made succeeds: everything stored is kept.           *)
(***************************************************************************)
EXTENDS AlarmCore, AlarmTimesProofs, TLAPS

-----------------------------------------------------------------------------
(* Lemmas about the operators.                                              *)

LEMMA UpdateAllType ==
  ASSUME NEW tab \in [Slots -> Entry], NEW on \in SUBSET Slots, NEW t \in Times
  PROVE  /\ UpdateAll(tab, on, t) \in [Slots -> Times]
         /\ \A i \in on : Before(t, UpdateAll(tab, on, t)[i])
<1>1. ZeroTime \in Times
  BY SizeAssumption, TimeAssumption DEF ZeroTime, Times, Minutes
<1>2. \A i \in Slots : tab[i].mode \in SUBSET AllBits /\ tab[i].tod \in Minutes
  BY DEF Entry
<1>3. \A i \in Slots : /\ NextTime(tab[i], t) \in Times
                       /\ Before(t, NextTime(tab[i], t))
  BY <1>2, NextTimeAhead
<1>4. QED
  BY <1>1, <1>3 DEF UpdateAll

(* Among enabled alarms some are the earliest, and these share their time.  *)
LEMMA EarliestExist ==
  ASSUME NEW on \in SUBSET Slots, on # {}, NEW w \in [Slots -> Times]
  PROVE  Earliest(on, w) # {}
<1> DEFINE days == {w[i].day : i \in on}
           d == Least(days)
           first == {i \in on : w[i].day = d}
           mins == {w[i].min : i \in first}
           m == Least(mins)
<1>1. \A i \in on : w[i].day \in Nat /\ w[i].min \in Nat
  BY DEF Times, Minutes
<1>2. d \in days /\ \A x \in days : d <= x
  <2>1. days \in SUBSET Nat /\ days # {}
    BY <1>1
  <2>2. QED
    BY <2>1, LeastIsMember
<1>3. m \in mins /\ \A x \in mins : m <= x
  <2>1. mins \in SUBSET Nat /\ mins # {}
    BY <1>1, <1>2
  <2>2. QED
    BY <2>1, LeastIsMember
<1>4. PICK i \in first : w[i].min = m
  BY <1>3
<1>5. ASSUME NEW j \in on
      PROVE  ~ Before(w[j], w[i])
  <2>1. d <= w[j].day /\ w[i].day = d
    BY <1>2
  <2>2. w[j].day = d => m <= w[j].min
    BY <1>3
  <2> HIDE DEF d, m
  <2>3. d \in Nat /\ m \in Nat
    BY <1>1, <2>1, <1>4
  <2>4. QED
    BY <1>1, <1>4, <2>1, <2>2, <2>3 DEF Before
<1>6. QED
  BY <1>5 DEF Earliest

LEMMA EarliestShareTime ==
  ASSUME NEW on \in SUBSET Slots, NEW w \in [Slots -> Times],
         NEW i \in Earliest(on, w)
  PROVE  /\ Earliest(on, w) = {j \in on : w[j] = w[i]}
         /\ \A j \in on : ~ Before(w[j], w[i])
<1>1. \A j \in on : w[j] \in [day : Nat, min : Nat]
  BY DEF Times, Minutes
<1>2. i \in on /\ \A j \in on : ~ Before(w[j], w[i])
  BY DEF Earliest
<1>3. ASSUME NEW j \in Earliest(on, w)
      PROVE  w[j] = w[i]
  <2>1. j \in on /\ ~ Before(w[i], w[j]) /\ ~ Before(w[j], w[i])
    BY <1>2 DEF Earliest
  <2>2. w[i].day = w[j].day /\ w[i].min = w[j].min
    BY <2>1, <1>1, <1>2 DEF Before
  <2>3. QED
    BY <2>1, <2>2, <1>1, <1>2
<1>4. ASSUME NEW j \in on, w[j] = w[i]
      PROVE  j \in Earliest(on, w)
  BY <1>2, <1>4 DEF Earliest
<1>5. QED
  BY <1>2, <1>3, <1>4 DEF Earliest

LEMMA LeastSlot ==
  ASSUME NEW S \in SUBSET Slots, S # {}
  PROVE  Least(S) \in S
<1>1. S \in SUBSET Nat
  BY DEF Slots
<1>2. QED
  BY <1>1, LeastIsMember

(* Type facts of the small operators.                                       *)
LEMMA ConstantTypes ==
  /\ ZeroEntry \in Entry /\ ZeroTime \in Times
  /\ BlankVm \in VmContents
  /\ 0 \in Slots
  /\ {Off, Open} \subseteq Promises
  /\ \A e \in Entry : On(e) \in Promises
<1>1. ZeroEntry \in Entry /\ ZeroTime \in Times /\ 0 \in Slots
  BY SizeAssumption, TimeAssumption DEF ZeroEntry, ZeroTime, Entry, Times, Minutes, Slots, ONCE
<1>2. QED
  BY <1>1 DEF BlankVm, NoRecord, VmContents, Off, Open, On, Promises

LEMMA RecordWrittenType ==
  ASSUME NEW v \in VmContents, NEW i \in Slots, NEW e \in Entry
  PROVE  RecordWritten(v, i, e) \in VmContents
BY DEF VmContents, RecordWritten

LEMMA MaskWrittenType ==
  ASSUME NEW v \in VmContents, TypeOK
  PROVE  MaskWritten(v) \in VmContents
BY DEF VmContents, MaskWritten, TypeOK

LEMMA RestoredType ==
  ASSUME NEW v \in VmContents
  PROVE  RestoredTab(v) \in [Slots -> Entry] /\ RestoredSw(v) \in SUBSET Slots
BY ConstantTypes DEF VmContents, RestoredTab, RestoredSw

LEMMA AfterRingType ==
  ASSUME NEW e \in Entry
  PROVE  AfterRing(e) \in Entry
BY DEF AfterRing, Entry

-----------------------------------------------------------------------------
(* Type correctness: every handler step leaves every field in its type.     *)
LEMMA InitType == Init => TypeOK
<1> SUFFICES ASSUME Init
             PROVE  TypeOK
  OBVIOUS
<1>1. now \in Times /\ hw \in [en : BOOLEAN, at : Times] /\ slot \in Slots
  BY ConstantTypes DEF Init
<1>2. alarm_tab \in [Slots -> Entry] /\ when \in [Slots -> Times]
  BY ConstantTypes DEF Init
<1>3. vm \in VmContents /\ promise \in [Slots -> Promises]
  BY ConstantTypes DEF Init
<1>4. QED
  BY <1>1, <1>2, <1>3 DEF Init, TypeOK

LEMMA StepType == TypeOK /\ [Next]_vars => TypeOK'
<1> SUFFICES ASSUME TypeOK, [Next]_vars
             PROVE  TypeOK'
  OBVIOUS
<1> USE DEF TypeOK
<1>1. CASE Tick
  <2>1. now' \in Times
    <3>1. now' = NextMin(now)
      BY <1>1 DEF Tick
    <3>2. QED
      BY <3>1, NextMinType
  <2>2. /\ events' = events \/ events' = events + 1
        /\ wake' = TRUE \/ wake' = wake
    BY <1>1 DEF Tick
  <2>3. due' \in {due, armed} /\ calm' \in BOOLEAN
    BY <1>1 DEF Tick
  <2>4. events' \in Nat /\ due' \in SUBSET Slots
    BY <2>2, <2>3
  <2>5. QED
    BY <1>1, <2>1, <2>2, <2>3, <2>4 DEF Tick, ram
<1>2. ASSUME NEW i \in Slots, NEW e \in Entries, alarm_add(i, e)
      PROVE  TypeOK'
  <2>1. e \in Entry
    BY InputAssumption DEF Entries, Entry, AllBits
  <2>2. alarm_tab' \in [Slots -> Entry] /\ map_sw' \in SUBSET Slots
    BY <1>2, <2>1 DEF alarm_add
  <2>3. when' \in [Slots -> Times]
    BY <1>2, <2>2, UpdateAllType DEF alarm_add
  <2>4. QED
    BY <1>2, <2>2, <2>3, ConstantTypes DEF alarm_add, ghosts
<1>3. ASSUME NEW i \in Slots, alarm_delete(i)
      PROVE  TypeOK'
  <2>1. [alarm_tab[i] EXCEPT !.sw = 0] \in Entry
    BY DEF Entry
  <2>2. alarm_tab' \in [Slots -> Entry] /\ map_sw' \in SUBSET Slots
    BY <1>3, <2>1 DEF alarm_delete
  <2>3. when' \in [Slots -> Times]
    BY <1>3, <2>2, UpdateAllType DEF alarm_delete
  <2>4. QED
    BY <1>3, <2>2, <2>3, ConstantTypes DEF alarm_delete, ghosts
<1>4. ASSUME NEW d \in DayInputs, NEW m \in Minutes,
             rtc_update_time_api([day |-> d, min |-> m])
      PROVE  TypeOK'
  <2>1. [day |-> d, min |-> m] \in Times
    BY InputAssumption DEF Times
  <2>2. when' \in [Slots -> Times]
    BY <1>4, <2>1, UpdateAllType DEF rtc_update_time_api
  <2>3. QED
    BY <1>4, <2>1, <2>2 DEF rtc_update_time_api, ghosts
<1>5. CASE alarm_update_info_after_isr
  <2>1. \A i \in Slots : promise'[i] \in {promise[i], Open}
    BY <1>5 DEF alarm_update_info_after_isr
  <2>2. promise' \in [Slots -> Promises]
    BY <1>5, <2>1, ConstantTypes DEF alarm_update_info_after_isr
  <2>3. QED
    BY <1>5, <2>2 DEF alarm_update_info_after_isr, Ringing, ghosts
<1>6. CASE IsrSlot
  <2> DEFINE i == Least(todo)
             e == AfterRing(alarm_tab[i])
  <2>1. i \in Slots
    BY <1>6, LeastSlot DEF IsrSlot
  <2> HIDE DEF i
  <2>2. e \in Entry
    BY <2>1, AfterRingType
  <2>3. alarm_tab' = [alarm_tab EXCEPT ![i] = e] /\ slot' = i
    BY <1>6 DEF IsrSlot, i
  <2>4. vm' = RecordWritten(vm, i, e) \/ vm' = vm
    BY <1>6 DEF IsrSlot, i
  <2> HIDE DEF e
  <2>5. vm' \in VmContents
    BY <2>1, <2>2, <2>4, RecordWrittenType
  <2>6. alarm_tab' \in [Slots -> Entry] /\ map_sw' \in SUBSET Slots
    BY <1>6, <2>1, <2>2, <2>3 DEF IsrSlot
  <2>7. todo' \in SUBSET Slots /\ pc' \in {"isr", "isr_mask"}
    BY <1>6 DEF IsrSlot
  <2>8. QED
    BY <1>6, <2>1, <2>3, <2>5, <2>6, <2>7 DEF IsrSlot, ghosts
<1>7. CASE IsrMask
  BY <1>7, MaskWrittenType DEF IsrMask, ram, ghosts
<1>8. CASE IsrUpdate
  BY <1>8, UpdateAllType DEF IsrUpdate, ghosts
<1>9. CASE Arm
  <2>1. Earliest(map_sw, when) \in SUBSET Slots
    BY DEF Earliest
  <2>2. map_sw # {} => Least(Earliest(map_sw, when)) \in Slots
    BY <2>1, EarliestExist, LeastSlot
  <2>3. hw' \in [en : BOOLEAN, at : Times]
    <3>1. CASE map_sw = {}
      BY <1>9, <3>1 DEF Arm
    <3>2. CASE map_sw # {}
      BY <1>9, <3>2, <2>2 DEF Arm
    <3>3. QED
      BY <3>1, <3>2
  <2>4. pc' \in {"rec", "mask", "ready"}
    BY <1>9 DEF Arm, NextWrite
  <2>5. QED
    BY <1>9, <2>1, <2>3, <2>4 DEF Arm
<1>10. CASE WriteRecord
  <2>1. vm' \in VmContents
    BY <1>10, RecordWrittenType DEF WriteRecord
  <2>2. pc' \in {"mask", "ready"} /\ wr' \in {"none", "rec", "mask", "ring"}
    BY <1>10 DEF WriteRecord, NextWrite
  <2>3. QED
    BY <1>10, <2>1, <2>2 DEF WriteRecord, ram, ghosts
<1>11. CASE WriteMask
  <2>1. Outcome(alarm_tab[slot]) \in Promises
    BY ConstantTypes DEF Outcome
  <2>2. promise' \in [Slots -> Promises]
    <3>1. CASE wr = "rec"
      BY <1>11, <2>1, <3>1 DEF WriteMask
    <3>2. CASE wr = "ring"
      BY <1>11, <3>2, ConstantTypes DEF WriteMask
    <3>3. CASE wr \notin {"rec", "ring"}
      BY <1>11, <3>3 DEF WriteMask
    <3>4. QED
      BY <3>1, <3>2, <3>3
  <2>3. vm' \in VmContents
    BY <1>11, MaskWrittenType DEF WriteMask
  <2>4. pc' = "ready" /\ wr' = "none"
    BY <1>11 DEF WriteMask, NextWrite
  <2>5. QED
    BY <1>11, <2>2, <2>3, <2>4 DEF WriteMask, ram, ghosts
<1>12. CASE Crash
  BY <1>12, ConstantTypes DEF Crash
<1>13. CASE InitFresh
  <2>1. vm' \in VmContents
    BY <1>13, MaskWrittenType DEF InitFresh
  <2>2. pc' \in {"format", "ready", "arm"} /\ slot' \in Slots
    BY <1>13, ConstantTypes DEF InitFresh, Started
  <2>3. QED
    BY <1>13, <2>1, <2>2 DEF InitFresh, ram, ghosts
<1>14. CASE Format
  <2>1. slot' \in Slots
    BY <1>14, SizeAssumption, TimeAssumption DEF Format, Slots
  <2>2. vm' \in VmContents
    BY <1>14, ConstantTypes, RecordWrittenType DEF Format
  <2>3. pc' \in {"format", "ready", "arm"}
    BY <1>14 DEF Format, Started
  <2>4. QED
    BY <1>14, <2>1, <2>2, <2>3 DEF Format, ram, ghosts
<1>15. CASE InitUpdate
  <2>1. alarm_tab' \in [Slots -> Entry] /\ map_sw' \in SUBSET Slots
    BY <1>15, RestoredType DEF InitUpdate
  <2>2. when' \in [Slots -> Times]
    BY <1>15, <2>1, UpdateAllType DEF InitUpdate
  <2>3. vm.map \in SUBSET Slots /\ vm.active_map \in SUBSET Slots
    BY DEF VmContents
  <2>4. QED
    BY <1>15, <2>1, <2>2, <2>3 DEF InitUpdate, ghosts
<1>16. CASE InitWoken
  <2>1. alarm_tab' \in [Slots -> Entry] /\ map_sw' \in SUBSET Slots
    BY <1>16, RestoredType DEF InitWoken
  <2>2. vm.map \in SUBSET Slots /\ vm.active_map \in SUBSET Slots
    BY DEF VmContents
  <2>3. QED
    BY <1>16, <2>1, <2>2 DEF InitWoken, ghosts
<1>17. CASE alarm_check
  <2>1. events' = events + 1 /\ events \in Nat
    BY <1>17 DEF alarm_check
  <2>2. events' \in Nat
    BY <2>1
  <2>3. QED
    BY <1>17, <2>2 DEF alarm_check, ram, ghosts
<1>18. CASE UNCHANGED vars
  BY <1>18 DEF vars
<1>19. QED
  BY <1>1, <1>2, <1>3, <1>4, <1>5, <1>6, <1>7, <1>8, <1>9, <1>10, <1>11, <1>12,
     <1>13, <1>14, <1>15, <1>16, <1>17, <1>18 DEF Next, Callers, Handler

THEOREM TypeCorrect == Spec => []TypeOK
BY InitType, StepType, PTL DEF Spec

-----------------------------------------------------------------------------
(* The table is empty until alarm_init has read it.                         *)
DownEmpty == pc \in {"off", "format"} => map = {} /\ map_sw = {}

LEMMA StepDown == ASSUME DownEmpty, [Next]_vars PROVE DownEmpty'
<1>1. CASE pc' \notin {"off", "format"}
  BY <1>1 DEF DownEmpty
<1>2. CASE Tick \/ Format \/ UNCHANGED vars
  BY <1>2 DEF Tick, Format, Started, DownEmpty, vars, ram
<1>3. CASE Callers \/ IsrSlot \/ IsrMask \/ IsrUpdate \/ alarm_update_info_after_isr \/ alarm_check
  BY <1>1, <1>3 DEF Callers, alarm_add, alarm_delete, rtc_update_time_api, IsrSlot, IsrMask,
     IsrUpdate, alarm_update_info_after_isr, alarm_check
<1>4. CASE Arm \/ WriteRecord \/ WriteMask \/ InitUpdate \/ InitWoken
  BY <1>1, <1>4 DEF Arm, WriteRecord, WriteMask, InitUpdate, InitWoken, NextWrite
<1>5. CASE InitFresh \/ Crash
  BY <1>5 DEF InitFresh, Crash, DownEmpty, ram
<1> QED BY <1>2, <1>3, <1>4, <1>5 DEF Next, Handler

-----------------------------------------------------------------------------
(* The register is ahead of the clock.  Up to the register the handler has  *)
(* times that are still to come; after it, so has the register, unless its  *)
(* minute has come and posted an event.                                     *)
Computed == pc = "arm" => \A i \in map_sw : Before(now, when[i])
Written == pc \in {"rec", "mask"} /\ events = 0 /\ hw.en => Before(now, hw.at)
AheadInv == DownEmpty /\ Computed /\ Written /\ RegisterAhead

(* The minute of an enabled alarm begins between the reading of the clock   *)
(* for the table and the write of the register (alarm_api.c:907-910).       *)
Overtakes == Tick /\ pc = "arm" /\ \E i \in map_sw : when[i] = now'

LEMMA ArmedAhead ==
  ASSUME TypeOK, Computed, Arm, hw'.en
  PROVE  Before(now, hw'.at)
<1> DEFINE E == Earliest(map_sw, when)
           index == Least(E)
<1>1. /\ map_sw \subseteq Slots /\ when \in [Slots -> Times]
      /\ hw \in [en : BOOLEAN, at : Times]
  BY DEF TypeOK
<1>2. /\ pc = "arm"
      /\ hw' = IF map_sw = {} THEN [hw EXCEPT !.en = FALSE]
               ELSE [en |-> alarm_tab[index].sw # 0, at |-> when[index]]
  BY DEF Arm
<1>3. map_sw # {}
  BY <1>1, <1>2
<1>4. E # {} /\ E \subseteq map_sw
  BY <1>1, <1>3, EarliestExist DEF Earliest
<1>5. index \in E
  BY <1>1, <1>4, LeastSlot
<1> HIDE DEF E, index
<1>6. hw'.at = when[index]
  BY <1>2, <1>3
<1> QED BY <1>2, <1>4, <1>5, <1>6 DEF Computed

LEMMA StepAhead ==
  ASSUME TypeOK, AheadInv, ~ Overtakes, [Next]_vars
  PROVE  AheadInv'
<1> USE DEF AheadInv
<1>1. DownEmpty'
  BY StepDown
<1>2. ASSUME UNCHANGED <<pc, now, hw, map_sw, when, woken, events>> PROVE AheadInv'
  BY <1>1, <1>2 DEF Computed, Written, RegisterAhead
<1>3. ASSUME pc' \in {"off", "format", "isr", "isr_mask"} PROVE AheadInv'
  BY <1>1, <1>3 DEF Computed, Written, RegisterAhead
<1>4. ASSUME pc' = "arm", \A i \in map_sw' : Before(now', when'[i]) PROVE AheadInv'
  BY <1>1, <1>4 DEF Computed, Written, RegisterAhead
<1>5. ASSUME pc' = "ready", woken' \/ events' # 0 PROVE AheadInv'
  BY <1>1, <1>5 DEF Computed, Written, RegisterAhead
<1>6. ASSUME hw'.en => Before(now', hw'.at), pc' \in {"rec", "mask", "ready"} PROVE AheadInv'
  BY <1>1, <1>6 DEF Computed, Written, RegisterAhead
<1>7. /\ now \in Times /\ hw \in [en : BOOLEAN, at : Times] /\ vm \in VmContents
      /\ alarm_tab \in [Slots -> Entry] /\ map_sw \in SUBSET Slots /\ events \in Nat
  BY DEF TypeOK
<1>8. CASE Tick
  <2>1. /\ now' = NextMin(now) /\ UNCHANGED <<pc, woken, hw, map_sw, when>>
        /\ events' = IF hw.en /\ hw.at = NextMin(now) /\ pc # "off" THEN events + 1 ELSE events
    BY <1>8 DEF Tick, ram
  <2>2. CASE pc \in {"off", "format", "isr", "isr_mask"}
    BY <1>3, <2>1, <2>2
  <2>3. CASE pc = "arm"
    <3>1. ASSUME NEW i \in map_sw PROVE Before(NextMin(now), when[i])
      <4>1. Before(now, when[i]) /\ when[i] # NextMin(now)
        BY <1>8, <2>1, <2>3 DEF Computed, Overtakes
      <4>2. when[i] \in Times
        BY DEF TypeOK
      <4> QED BY <1>7, <4>1, <4>2, NextMinIsNext
    <3> QED BY <1>4, <2>1, <2>3, <3>1
  <2>4. CASE pc \in {"rec", "mask", "ready"} /\ ((woken /\ pc = "ready") \/ events' # 0)
    BY <1>1, <2>1, <2>4 DEF Computed, Written, RegisterAhead
  <2>5. CASE pc \in {"rec", "mask", "ready"} /\ ~ (woken /\ pc = "ready") /\ events' = 0
    <3>1. events = 0 /\ ~ (hw.en /\ hw.at = NextMin(now))
      BY <1>7, <2>1, <2>5
    <3>2. hw.en => Before(now, hw.at) /\ hw.at \in Times
      BY <1>7, <2>5, <3>1 DEF RegisterAhead, Written
    <3>3. hw.en => Before(NextMin(now), hw.at)
      BY <1>7, <3>1, <3>2, NextMinIsNext
    <3> QED BY <1>6, <2>1, <2>5, <3>3
  <2>6. pc \in {"off", "format", "ready", "isr", "isr_mask", "arm", "rec", "mask"}
    BY DEF TypeOK
  <2> QED BY <2>2, <2>3, <2>4, <2>5, <2>6
<1>9. ASSUME NEW i \in Slots, NEW e \in Entries, alarm_add(i, e) PROVE AheadInv'
  <2>1. TypeOK'
    BY StepType DEF Next, Callers
  <2>2. /\ alarm_tab' \in [Slots -> Entry] /\ map_sw' \in SUBSET Slots
        /\ when' = UpdateAll(alarm_tab', map_sw', now) /\ now' = now /\ pc' = "arm"
    BY <1>9, <2>1 DEF alarm_add, TypeOK
  <2> QED BY <1>4, <1>7, <2>2, UpdateAllType
<1>10. ASSUME NEW i \in Slots, alarm_delete(i) PROVE AheadInv'
  <2>1. TypeOK'
    BY StepType DEF Next, Callers
  <2>2. /\ alarm_tab' \in [Slots -> Entry] /\ map_sw' \in SUBSET Slots
        /\ when' = UpdateAll(alarm_tab', map_sw', now) /\ now' = now /\ pc' = "arm"
    BY <1>10, <2>1 DEF alarm_delete, TypeOK
  <2> QED BY <1>4, <1>7, <2>2, UpdateAllType
<1>11. ASSUME NEW t \in Times, rtc_update_time_api(t) PROVE AheadInv'
  <2>1. /\ when' = UpdateAll(alarm_tab, map_sw, t) /\ now' = t /\ pc' = "arm"
        /\ map_sw' = map_sw
    BY <1>11 DEF rtc_update_time_api
  <2> QED BY <1>4, <1>7, <2>1, UpdateAllType
<1>12. CASE alarm_update_info_after_isr \/ IsrSlot \/ IsrMask \/ Crash
  BY <1>3, <1>12 DEF alarm_update_info_after_isr, IsrSlot, IsrMask, Crash
<1>13. CASE IsrUpdate
  <2>1. /\ when' = UpdateAll(alarm_tab, map_sw, now) /\ now' = now /\ pc' = "arm"
        /\ map_sw' = map_sw
    BY <1>13 DEF IsrUpdate
  <2> QED BY <1>4, <1>7, <2>1, UpdateAllType
<1>14. CASE Arm
  <2>1. now' = now /\ pc' \in {"rec", "mask", "ready"}
    BY <1>14 DEF Arm, NextWrite
  <2> QED BY <1>6, <1>14, <2>1, ArmedAhead
<1>15. CASE WriteRecord \/ WriteMask
  <2>1. /\ pc \in {"rec", "mask"} /\ pc' \in {"rec", "mask", "ready"}
        /\ UNCHANGED <<now, hw, events>>
    BY <1>15 DEF WriteRecord, WriteMask, NextWrite
  <2>2. CASE events = 0
    BY <1>6, <2>1, <2>2 DEF Written
  <2>3. CASE events # 0
    BY <1>1, <2>1, <2>3 DEF Computed, Written, RegisterAhead
  <2> QED BY <2>2, <2>3
<1>16. CASE InitFresh \/ Format
  <2>1. pc \in {"off", "format"} /\ map_sw' = map_sw
        /\ (pc' = "format" \/ pc' = "arm" \/ (pc' = "ready" /\ woken'))
    BY <1>16 DEF InitFresh, Format, Started, ram
  <2> QED BY <1>3, <1>4, <1>5, <2>1 DEF DownEmpty
<1>17. CASE InitUpdate
  <2>1. RestoredTab(vm) \in [Slots -> Entry] /\ RestoredSw(vm) \in SUBSET Slots
    BY <1>7, RestoredType
  <2>2. /\ map_sw' = RestoredSw(vm) /\ now' = now /\ pc' = "arm"
        /\ when' = UpdateAll(RestoredTab(vm), RestoredSw(vm), now)
    BY <1>17 DEF InitUpdate
  <2> QED BY <1>4, <1>7, <2>1, <2>2, UpdateAllType
<1>18. CASE InitWoken
  BY <1>5, <1>18 DEF InitWoken
<1>19. CASE alarm_check
  <2>1. pc' = "ready" /\ events' = events + 1
    BY <1>19 DEF alarm_check
  <2> QED BY <1>5, <1>7, <2>1
<1>20. CASE UNCHANGED vars
  BY <1>2, <1>20 DEF vars, ram
<1>21. \A d \in DayInputs, m \in Minutes : [day |-> d, min |-> m] \in Times
  BY InputAssumption DEF Times
<1> QED
  BY <1>8, <1>9, <1>10, <1>11, <1>12, <1>13, <1>14, <1>15, <1>16, <1>17, <1>18, <1>19,
     <1>20, <1>21 DEF Next, Callers, Handler

(* There is one place in a handler where the clock can leave an enabled     *)
(* alarm behind (alarm_api.c:891-925): its minute begins after its time is  *)
(* computed and before the register is written.  But for that, the register *)
(* is set to a minute still to come, whenever minutes pass in a handler,    *)
(* whatever is set and rings, and also when flash writes fail and power is  *)
(* lost.                                                                    *)
THEOREM RegisterIsAhead == Spec /\ [][~ Overtakes]_vars => []RegisterAhead
<1>1. Init => TypeOK /\ AheadInv
  BY InitType DEF Init, AheadInv, DownEmpty, Computed, Written, RegisterAhead
<1>2. TypeOK /\ AheadInv /\ [Next]_vars /\ [~ Overtakes]_vars => (TypeOK /\ AheadInv)'
  <2>1. ASSUME TypeOK, AheadInv, UNCHANGED vars PROVE (TypeOK /\ AheadInv)'
    <3>1. now' = now /\ (pc = "arm" => \A i \in map_sw : Before(now, when[i]))
      BY <2>1 DEF vars, AheadInv, Computed
    <3>2. ~ Overtakes
      BY <2>1, <3>1 DEF Overtakes, TypeOK, Times, Minutes, Before
    <3> QED BY <2>1, <3>2, StepType, StepAhead
  <2> QED BY <2>1, StepType, StepAhead
<1>3. AheadInv => RegisterAhead
  BY DEF AheadInv
<1> QED BY <1>1, <1>2, <1>3, PTL DEF Spec

-----------------------------------------------------------------------------
(* What an event names.  While the register is as a handler left it, it is  *)
(* set for active_map; the start by an alarm leaves it as it was, but then  *)
(* nothing is called calm.                                                  *)
Up == pc \notin {"off", "format", "arm"}
Named ==
  /\ Up /\ ~ woken => armed = active_map
  /\ Up /\ calm => due = active_map
  /\ pc = "off" \/ woken => ~ calm

LEMMA StepNamed == ASSUME Named, [Next]_vars PROVE Named'
<1> USE DEF Named, Up
<1>1. CASE Tick
  BY <1>1 DEF Tick, ram
<1>2. CASE Callers
  <2>1. pc = "ready" /\ pc' = "arm" /\ UNCHANGED <<calm, woken>>
    BY <1>2 DEF Callers, alarm_add, alarm_delete, rtc_update_time_api, ghosts
  <2> QED BY <2>1
<1>3. CASE alarm_update_info_after_isr \/ IsrSlot \/ IsrMask \/ IsrUpdate
  <2>1. UNCHANGED <<armed, due, calm, woken, active_map>> /\ Up
    BY <1>3 DEF alarm_update_info_after_isr, IsrSlot, IsrMask, IsrUpdate, ghosts, ram
  <2>2. pc' # "off"
    BY <1>3 DEF alarm_update_info_after_isr, IsrSlot, IsrMask, IsrUpdate
  <2> QED BY <2>1, <2>2
<1>4. CASE Arm
  BY <1>4 DEF Arm, NextWrite
<1>5. CASE WriteRecord \/ WriteMask \/ alarm_check
  <2>1. UNCHANGED <<armed, due, calm, woken, active_map>> /\ Up
    BY <1>5 DEF WriteRecord, WriteMask, alarm_check, ghosts, ram
  <2>2. pc' # "off"
    BY <1>5 DEF WriteRecord, WriteMask, alarm_check, NextWrite
  <2> QED BY <2>1, <2>2
<1>9. CASE UNCHANGED vars
  BY <1>9 DEF vars, ram
<1>6. CASE InitFresh \/ InitUpdate \/ InitWoken
  <2>1. ~ calm /\ calm' = calm
    BY <1>6 DEF InitFresh, InitUpdate, InitWoken, ghosts
  <2>2. Up' => woken'
    BY <1>6 DEF InitFresh, InitUpdate, InitWoken, Started
  <2> QED BY <2>1, <2>2
<1>8. CASE Format
  <2>1. UNCHANGED <<armed, due, calm, woken>> /\ pc' # "off"
    BY <1>8 DEF Format, Started, ghosts
  <2>2. Up' => woken
    BY <1>8 DEF Format, Started
  <2> QED BY <2>1, <2>2
<1>7. CASE Crash
  BY <1>7 DEF Crash
<1> QED BY <1>1, <1>2, <1>3, <1>4, <1>5, <1>6, <1>7, <1>8, <1>9
  DEF Next, Handler

(* The alarms taken to ring are those whose time it was when the register   *)
(* matched, if nothing was set between the interrupt and its event          *)
(* (alarm_api.c:817-860), and also when the clock moves inside a handler.   *)
THEOREM UndisturbedNamesDue == Spec => UndisturbedAlarmRings
<1>1. Init => Named
  BY DEF Init, Named, Up
<1>2. ASSUME Named, [Next]_vars
      PROVE  [pc = "ready" /\ pc' = "isr" /\ calm => cur_active' = due]_vars
  <2>1. CASE alarm_update_info_after_isr
    BY <1>2, <2>1 DEF alarm_update_info_after_isr, Ringing, Named, Up
  <2>2. CASE ~ alarm_update_info_after_isr
    <3>1. pc = "ready" => pc' # "isr" \/ UNCHANGED vars
      BY <1>2, <2>2 DEF Next, Callers, Handler, Tick, alarm_add, alarm_delete,
         rtc_update_time_api, IsrSlot, IsrMask, IsrUpdate, Arm, WriteRecord, WriteMask,
         InitFresh, Format, InitUpdate, InitWoken, alarm_check, Crash
    <3> QED BY <3>1
  <2> QED BY <2>1, <2>2
<1>3. Named /\ [Next]_vars => Named'
  BY StepNamed
<1> QED BY <1>1, <1>2, <1>3, PTL DEF Spec, UndisturbedAlarmRings

-----------------------------------------------------------------------------
(* Flash writes that fail.  An enabled slot is off in the table only when   *)
(* its record cannot be read (alarm_vm_read_info, line 244), and a handler  *)
(* that is to write the record of an enabled slot has it on in the table.   *)
Plan ==
  /\ pc \in {"off", "format", "ready", "isr", "isr_mask"} => wr = "none"
  /\ pc = "rec" => wr = "rec"
  /\ pc = "mask" => wr # "none"

(* Enabled slots exist, in RAM and in the VM.                               *)
Nest == map_sw \subseteq map /\ vm.map_sw \subseteq vm.map
Unread(i) == alarm_tab[i] = ZeroEntry /\ ~ vm.rec[i].head
OnOrUnread == \A i \in map_sw : alarm_tab[i].sw # 0 \/ Unread(i)
SlotOn == pc \in {"arm", "rec"} /\ wr = "rec" /\ slot \in map_sw => alarm_tab[slot].sw # 0
Readable == \A i \in Slots : vm.rec[i].head \/ (i = slot /\ pc = "rec")
ErrorInv ==
  /\ DownEmpty /\ Plan /\ Nest /\ OnOrUnread /\ SlotOn
  /\ Readable => ArmedForEarliest

LEMMA StepPlan == ASSUME TypeOK, Plan, [Next]_vars PROVE Plan'
<1> USE DEF Plan
<1>1. wr \in {"none", "rec", "mask", "ring"}
  BY DEF TypeOK
<1>2. CASE Callers \/ IsrUpdate
  BY <1>2 DEF Callers, alarm_add, alarm_delete, rtc_update_time_api, IsrUpdate
<1>3. CASE Tick \/ alarm_check \/ alarm_update_info_after_isr \/ IsrSlot \/ IsrMask
  BY <1>3 DEF Tick, alarm_check, alarm_update_info_after_isr, IsrSlot, IsrMask
<1>4. CASE Arm \/ WriteRecord \/ WriteMask
  BY <1>1, <1>4 DEF Arm, WriteRecord, WriteMask, NextWrite
<1>5. CASE InitFresh \/ Format \/ InitUpdate \/ InitWoken
  BY <1>5 DEF InitFresh, Format, InitUpdate, InitWoken, Started
<1>6. CASE Crash \/ UNCHANGED vars
  BY <1>6 DEF Crash, vars
<1> QED BY <1>2, <1>3, <1>4, <1>5, <1>6 DEF Next, Handler

LEMMA StepNest == ASSUME TypeOK, Nest, [Next]_vars PROVE Nest'
<1> USE DEF Nest
<1>1. vm \in VmContents
  BY DEF TypeOK
<1>2. CASE Callers
  BY <1>2 DEF Callers, alarm_add, alarm_delete, rtc_update_time_api
<1>3. ASSUME NEW i, NEW e PROVE LET v == RecordWritten(vm, i, e)
                                IN  v.map_sw = vm.map_sw /\ v.map = vm.map
  BY <1>1 DEF RecordWritten, VmContents
<1>4. MaskWritten(vm).map_sw = map_sw /\ MaskWritten(vm).map = map
  BY <1>1 DEF MaskWritten, VmContents
<1>5. CASE IsrSlot
  <2>1. map' = map /\ map_sw' \subseteq map_sw
    BY <1>5 DEF IsrSlot
  <2>2. vm' = vm \/ \E i, e : vm' = RecordWritten(vm, i, e)
    BY <1>5 DEF IsrSlot
  <2> QED BY <1>3, <2>1, <2>2
<1>6. CASE WriteRecord \/ Format
  <2>1. UNCHANGED <<map, map_sw>>
    BY <1>6 DEF WriteRecord, Format, ram
  <2>2. vm' = vm \/ \E i, e : vm' = RecordWritten(vm, i, e)
    BY <1>6 DEF WriteRecord, Format
  <2> QED BY <1>3, <2>1, <2>2
<1>7. CASE IsrMask \/ WriteMask \/ InitFresh
  <2>1. UNCHANGED <<map, map_sw>> /\ (vm' = vm \/ vm' = MaskWritten(vm))
    BY <1>7 DEF IsrMask, WriteMask, InitFresh, ram
  <2> QED BY <1>4, <2>1
<1>8. CASE InitUpdate \/ InitWoken
  <2>1. vm' = vm /\ map' = vm.map /\ map_sw' = RestoredSw(vm)
    BY <1>8 DEF InitUpdate, InitWoken
  <2>2. RestoredSw(vm) \subseteq vm.map
    BY DEF RestoredSw
  <2> QED BY <2>1, <2>2
<1>9. CASE Tick \/ Arm \/ alarm_update_info_after_isr \/ IsrUpdate
  BY <1>9 DEF Tick, Arm, alarm_update_info_after_isr, IsrUpdate, ram
<1>10. CASE alarm_check \/ Crash \/ UNCHANGED vars
  BY <1>10 DEF alarm_check, Crash, ram, vars
<1> QED BY <1>2, <1>5, <1>6, <1>7, <1>8, <1>9, <1>10 DEF Next, Handler

LEMMA StepOn ==
  ASSUME TypeOK, DownEmpty, Plan, Nest, OnOrUnread, SlotOn, [Next]_vars
  PROVE  OnOrUnread' /\ SlotOn'
<1> USE DEF OnOrUnread, SlotOn
<1>1. /\ alarm_tab \in [Slots -> Entry] /\ vm \in VmContents /\ map_sw \subseteq Slots
      /\ slot \in Slots /\ todo \subseteq Slots
  BY DEF TypeOK
<1>2. TypeOK'
  BY StepType
<1>3. ASSUME UNCHANGED <<alarm_tab, map_sw, slot>>,
             \A i \in map_sw : vm'.rec[i].head => vm.rec[i].head,
             pc' \notin {"arm", "rec"} \/ wr' # "rec" \/ (pc \in {"arm", "rec"} /\ wr = wr')
      PROVE  OnOrUnread' /\ SlotOn'
  BY <1>1, <1>3 DEF Unread
<1>4. MaskWritten(vm).rec = vm.rec
  BY <1>1 DEF MaskWritten, VmContents
<1>5. ASSUME NEW i \in Slots, NEW e \in Entries, alarm_add(i, e)
      PROVE  OnOrUnread' /\ SlotOn'
  <2>1. /\ pc' = "arm" /\ slot' = i /\ vm' = vm
        /\ alarm_tab' = [alarm_tab EXCEPT ![i] = e]
        /\ e.sw = 0 => map_sw' = map_sw \ {i}
        /\ map_sw' \subseteq map_sw \union {i}
    BY <1>5 DEF alarm_add
  <2>2. i \in map_sw' => alarm_tab'[i].sw # 0
    BY <1>1, <2>1
  <2>3. \A j \in map_sw' \ {i} : alarm_tab'[j] = alarm_tab[j] /\ j \in map_sw
    BY <1>1, <2>1
  <2> QED BY <2>1, <2>2, <2>3 DEF Unread
<1>6. ASSUME NEW i \in Slots, alarm_delete(i)
      PROVE  OnOrUnread' /\ SlotOn'
  <2>1. /\ slot' = i /\ vm' = vm /\ map_sw' = map_sw \ {i}
        /\ alarm_tab' = [alarm_tab EXCEPT ![i].sw = 0]
    BY <1>6 DEF alarm_delete
  <2>2. \A j \in map_sw' : alarm_tab'[j] = alarm_tab[j] /\ j \in map_sw
    BY <1>1, <2>1
  <2> QED BY <2>1, <2>2 DEF Unread
<1>7. ASSUME NEW t \in Times, rtc_update_time_api(t)
      PROVE  OnOrUnread' /\ SlotOn'
  BY <1>3, <1>7 DEF rtc_update_time_api
<1>8. CASE IsrSlot
  <2> DEFINE i == Least(todo)
             e == AfterRing(alarm_tab[i])
  <2>1. /\ pc' \notin {"arm", "rec"}
        /\ alarm_tab' = [alarm_tab EXCEPT ![i] = e]
        /\ map_sw' = IF e.mode = ONCE THEN map_sw \ {i} ELSE map_sw
        /\ vm' = vm \/ vm' = RecordWritten(vm, i, e)
    BY <1>8 DEF IsrSlot
  <2>2. i \in Slots
    BY <1>1, <1>8, LeastSlot DEF IsrSlot
  <2> HIDE DEF i
  <2>3. \A j \in Slots \ {i} : alarm_tab'[j] = alarm_tab[j] /\ vm'.rec[j] = vm.rec[j]
    BY <1>1, <2>1, <2>2 DEF RecordWritten, VmContents
  <2>4. i \in map_sw' => i \in map_sw /\ alarm_tab[i].mode # ONCE /\ alarm_tab'[i] = alarm_tab[i]
    BY <1>1, <2>1, <2>2 DEF AfterRing, Entry
  <2>5. i \in map_sw' => alarm_tab'[i].sw # 0
    BY <2>4 DEF Unread, ZeroEntry
  <2>6. map_sw' \subseteq map_sw
    BY <2>1
  <2> QED BY <1>1, <2>1, <2>3, <2>5, <2>6 DEF Unread
<1>9. CASE WriteRecord
  <2>1. pc = "rec" /\ wr = "rec" /\ UNCHANGED <<alarm_tab, map_sw, slot>>
    BY <1>9 DEF WriteRecord, Plan, ram
  <2>2. pc' # "rec" /\ (pc' = "arm" => wr' = wr)
    BY <1>9 DEF WriteRecord, NextWrite
  <2>3. \A j \in Slots \ {slot} : vm'.rec[j] = vm.rec[j]
    BY <1>1, <1>9 DEF WriteRecord, RecordWritten, VmContents
  <2> QED BY <1>1, <2>1, <2>2, <2>3 DEF Unread
<1>10. CASE Format \/ InitFresh
  <2>1. map_sw' = map_sw /\ map_sw = {}
    BY <1>10 DEF Format, InitFresh, ram, DownEmpty
  <2> QED BY <2>1
<1>11. CASE InitUpdate \/ InitWoken
  <2>1. /\ vm' = vm /\ alarm_tab' = RestoredTab(vm) /\ map_sw' = RestoredSw(vm)
        /\ wr' = wr /\ pc = "off"
    BY <1>11 DEF InitUpdate, InitWoken
  <2>2. \A i \in RestoredSw(vm) :
          \/ RestoredTab(vm)[i].sw # 0
          \/ RestoredTab(vm)[i] = ZeroEntry /\ ~ vm.rec[i].head
    BY DEF RestoredSw, RestoredTab, Nest
  <2> QED BY <2>1, <2>2 DEF Plan, Unread
<1>12. CASE IsrMask \/ WriteMask
  <2>1. pc' \notin {"arm", "rec"} /\ UNCHANGED <<alarm_tab, map_sw, slot>>
    BY <1>12 DEF IsrMask, WriteMask, NextWrite, ram
  <2>2. vm'.rec = vm.rec
    BY <1>4, <1>12 DEF IsrMask, WriteMask
  <2> QED BY <1>3, <2>1, <2>2
<1>13. CASE Arm
  <2>1. pc = "arm" /\ UNCHANGED <<alarm_tab, map_sw, slot, vm, wr>>
    BY <1>13 DEF Arm
  <2> QED BY <1>3, <2>1
<1>14. CASE Tick \/ alarm_check \/ UNCHANGED vars
  BY <1>3, <1>14 DEF Tick, alarm_check, ram, vars
<1>15. CASE alarm_update_info_after_isr
  BY <1>3, <1>15 DEF alarm_update_info_after_isr
<1>16. CASE IsrUpdate
  BY <1>3, <1>16 DEF IsrUpdate
<1>17. CASE Crash
  BY <1>17 DEF Crash
<1>18. \A d \in DayInputs, m \in Minutes : [day |-> d, min |-> m] \in Times
  BY InputAssumption DEF Times
<1> QED
  BY <1>5, <1>6, <1>7, <1>8, <1>9, <1>10, <1>11, <1>12, <1>13, <1>14, <1>15, <1>16,
     <1>17, <1>18 DEF Next, Callers, Handler

LEMMA ArmReadable ==
  ASSUME TypeOK, OnOrUnread, SlotOn, Arm, Readable'
  PROVE  ArmedForEarliest'
<1> DEFINE E == Earliest(map_sw, when)
           index == Least(E)
<1>1. /\ map_sw \subseteq Slots /\ when \in [Slots -> Times]
      /\ hw \in [en : BOOLEAN, at : Times]
      /\ wr \in {"none", "rec", "mask", "ring"}
  BY DEF TypeOK
<1>2. /\ active_map' = E /\ map_sw' = map_sw /\ when' = when
      /\ hw' = IF map_sw = {} THEN [hw EXCEPT !.en = FALSE]
               ELSE [en |-> alarm_tab[index].sw # 0, at |-> when[index]]
      /\ pc = "arm" /\ pc' = NextWrite(wr, "arm") /\ slot' = slot /\ vm' = vm
  BY DEF Arm
<1>3. CASE map_sw = {}
  BY <1>1, <1>2, <1>3 DEF ArmedForEarliest, Earliest
<1>4. CASE map_sw # {}
  <2>1. E # {} /\ E \subseteq map_sw
    BY <1>1, <1>4, EarliestExist DEF Earliest
  <2>2. index \in E
    BY <1>1, <2>1, LeastSlot
  <2>3. /\ E = {j \in map_sw : when[j] = when[index]}
        /\ \A j \in map_sw : ~ Before(when[j], when[index])
    BY <1>1, <2>2, EarliestShareTime
  <2> HIDE DEF E, index
  <2>4. index \in map_sw /\ index \in Slots
    BY <1>1, <2>1, <2>2
  <2>5. alarm_tab[index].sw # 0
    <3>1. CASE vm.rec[index].head
      BY <2>4, <3>1 DEF OnOrUnread, Unread
    <3>2. CASE ~ vm.rec[index].head
      <4>1. index = slot /\ pc' = "rec"
        BY <1>2, <2>4, <3>2 DEF Readable
      <4>2. wr = "rec"
        BY <1>1, <1>2, <4>1 DEF NextWrite
      <4> QED BY <1>2, <2>4, <4>1, <4>2 DEF SlotOn
    <3> QED BY <3>1, <3>2
  <2>6. hw'.en = TRUE /\ hw'.at = when[index]
    BY <1>2, <1>4, <2>5 DEF E, index
  <2> QED BY <1>2, <1>4, <2>1, <2>3, <2>6 DEF ArmedForEarliest
<1> QED BY <1>3, <1>4

LEMMA StepErrors == ASSUME TypeOK, ErrorInv, [Next]_vars PROVE ErrorInv'
<1>1. DownEmpty' /\ Plan' /\ Nest' /\ OnOrUnread' /\ SlotOn'
  BY StepDown, StepPlan, StepNest, StepOn DEF ErrorInv
<1> SUFFICES ASSUME Readable' PROVE ArmedForEarliest'
  BY <1>1 DEF ErrorInv
<1>2. vm \in VmContents /\ slot \in Slots
  BY DEF TypeOK
<1>3. CASE Arm
  BY <1>3, ArmReadable DEF ErrorInv
<1>4. ASSUME UNCHANGED <<woken, hw, map_sw, active_map, when>>,
             pc \in {"rec", "mask", "ready"}, Readable
      PROVE  ArmedForEarliest'
  BY <1>4 DEF ErrorInv, ArmedForEarliest
<1>5. CASE pc' \notin {"rec", "mask", "ready"} \/ woken'
  BY <1>5 DEF ArmedForEarliest
<1>6. CASE WriteRecord
  <2>1. pc = "rec" /\ UNCHANGED <<woken, hw, map_sw, active_map, when, slot>>
    BY <1>6 DEF WriteRecord, ram
  <2>2. \A j \in Slots \ {slot} : vm'.rec[j] = vm.rec[j]
    BY <1>2, <1>6 DEF WriteRecord, RecordWritten, VmContents
  <2>3. Readable
    BY <2>1, <2>2 DEF Readable
  <2> QED BY <1>4, <2>1, <2>3
<1>7. CASE WriteMask
  <2>1. /\ pc = "mask" /\ pc' = "ready"
        /\ UNCHANGED <<woken, hw, map_sw, active_map, when, slot>>
    BY <1>7 DEF WriteMask, NextWrite, ram
  <2>2. vm'.rec = vm.rec
    BY <1>2, <1>7 DEF WriteMask, MaskWritten, VmContents
  <2>3. Readable
    BY <2>1, <2>2 DEF Readable
  <2> QED BY <1>4, <2>1, <2>3
<1>8. CASE Tick \/ alarm_check \/ UNCHANGED vars
  <2>1. UNCHANGED <<pc, woken, hw, map_sw, active_map, when, slot, vm>>
    BY <1>8 DEF Tick, alarm_check, vars, ram
  <2>2. Readable
    BY <2>1 DEF Readable
  <2> QED BY <1>4, <1>5, <2>1, <2>2
<1>9. CASE Callers \/ alarm_update_info_after_isr \/ IsrSlot \/ IsrMask \/ IsrUpdate \/ Crash
  <2>1. pc' \notin {"rec", "mask", "ready"}
    BY <1>9 DEF Callers, alarm_add, alarm_delete, rtc_update_time_api,
       alarm_update_info_after_isr, IsrSlot, IsrMask, IsrUpdate, Crash
  <2> QED BY <1>5, <2>1
<1>10. CASE InitFresh \/ Format \/ InitUpdate \/ InitWoken
  <2>1. pc' \notin {"rec", "mask", "ready"} \/ woken'
    BY <1>10 DEF InitFresh, Format, Started, InitUpdate, InitWoken
  <2> QED BY <1>5, <2>1
<1> QED BY <1>3, <1>6, <1>7, <1>8, <1>9, <1>10 DEF Next, Handler

(* Flash errors stay contained (alarm_api.c:236-262, 891-925): whatever     *)
(* writes fail and whenever power is lost, once every slot has a readable   *)
(* record the register is armed for the earliest enabled alarm, and no      *)
(* alarm is enabled that the table has off.                                 *)
THEOREM ErrorsContained == Spec => []FlashErrorsContained
<1>1. Init => TypeOK /\ ErrorInv
  <2>1. Init => ErrorInv
    BY DEF Init, ErrorInv, DownEmpty, Plan, Nest, OnOrUnread, SlotOn, ArmedForEarliest, BlankVm
  <2> QED BY <2>1, InitType
<1>2. TypeOK /\ ErrorInv /\ [Next]_vars => (TypeOK /\ ErrorInv)'
  BY StepType, StepErrors
<1>3. TypeOK /\ ErrorInv => FlashErrorsContained
  BY DEF TypeOK, ErrorInv, FlashErrorsContained, Readable, OnOrUnread, Unread
<1> QED BY <1>1, <1>2, <1>3, PTL DEF Spec
-----------------------------------------------------------------------------
(* What the register promises.  From the table's update to the next event   *)
(* the times are those the table asks for, also while the clock moves.      *)
Timed ==
  \A i \in map_sw :
    /\ IsDue(alarm_tab[i], when[i])
    /\ \A u \in Times : IsDue(alarm_tab[i], u) /\ Before(now, u) => ~ Before(u, when[i])
Current == pc \in {"arm", "rec", "mask"} \/ (pc = "ready" /\ ~ woken)
TimedInv == DownEmpty /\ (Current => Timed)

LEMMA UpdateAllTimed ==
  ASSUME NEW tab \in [Slots -> Entry], NEW on \in SUBSET Slots, NEW t \in Times
  PROVE  \A i \in on :
           /\ IsDue(tab[i], UpdateAll(tab, on, t)[i])
           /\ \A u \in Times : IsDue(tab[i], u) /\ Before(t, u) =>
                                 ~ Before(u, UpdateAll(tab, on, t)[i])
<1> SUFFICES ASSUME NEW i \in on
             PROVE  /\ IsDue(tab[i], UpdateAll(tab, on, t)[i])
                    /\ \A u \in Times : IsDue(tab[i], u) /\ Before(t, u) =>
                                          ~ Before(u, UpdateAll(tab, on, t)[i])
  OBVIOUS
<1>1. UpdateAll(tab, on, t)[i] = NextTime(tab[i], t) /\ tab[i] \in Entry
  BY DEF UpdateAll
<1>2. tab[i].mode \in SUBSET AllBits /\ tab[i].tod \in Minutes
  BY <1>1 DEF Entry
<1> QED BY <1>1, <1>2, FirstDue

LEMMA LaterStays ==
  ASSUME NEW t \in Times, NEW u \in Times, Before(NextMin(t), u)
  PROVE  Before(t, u)
BY TimeAssumption DEF Times, Minutes, Before, NextMin

LEMMA StepTimed == ASSUME TypeOK, TimedInv, [Next]_vars PROVE TimedInv'
<1> USE DEF TimedInv
<1>1. DownEmpty'
  BY StepDown
<1>2. now \in Times /\ vm \in VmContents /\ alarm_tab \in [Slots -> Entry] /\ map_sw \in SUBSET Slots
  BY DEF TypeOK
<1>3. ASSUME Current, UNCHANGED <<now, alarm_tab, map_sw, when>> PROVE TimedInv'
  BY <1>1, <1>3 DEF Timed
<1>4. ASSUME NEW tab \in [Slots -> Entry], NEW on \in SUBSET Slots, NEW t \in Times,
             alarm_tab' = tab, map_sw' = on, now' = t, when' = UpdateAll(tab, on, t)
      PROVE  TimedInv'
  BY <1>1, <1>4, UpdateAllTimed DEF Timed
<1>5. CASE ~ Current'
  BY <1>1, <1>5
<1>6. CASE Tick
  <2>1. /\ UNCHANGED <<pc, woken, alarm_tab, map_sw, when>> /\ now' = NextMin(now)
    BY <1>6 DEF Tick, ram
  <2>2. Current' <=> Current
    BY <2>1 DEF Current
  <2>3. CASE Current
    <3>1. \A u \in Times : Before(now', u) => Before(now, u)
      BY <1>2, <2>1, LaterStays
    <3> QED BY <1>1, <2>1, <2>3, <3>1 DEF Timed
  <2> QED BY <1>1, <2>2, <2>3
<1>7. ASSUME NEW i \in Slots, alarm_delete(i) \/ \E e \in Entries : alarm_add(i, e)
      PROVE  TimedInv'
  <2>1. TypeOK'
    BY <1>7, StepType DEF Next, Callers
  <2>2. alarm_tab' \in [Slots -> Entry] /\ map_sw' \in SUBSET Slots
    BY <2>1 DEF TypeOK
  <2>3. now' = now /\ when' = UpdateAll(alarm_tab', map_sw', now)
    BY <1>7 DEF alarm_add, alarm_delete
  <2> QED BY <1>2, <1>4, <2>2, <2>3
<1>8. ASSUME NEW t \in Times, rtc_update_time_api(t) PROVE TimedInv'
  BY <1>2, <1>4, <1>8 DEF rtc_update_time_api
<1>9. CASE IsrUpdate
  BY <1>2, <1>4, <1>9 DEF IsrUpdate
<1>10. CASE InitUpdate
  <2>1. RestoredTab(vm) \in [Slots -> Entry] /\ RestoredSw(vm) \in SUBSET Slots
    BY <1>2, RestoredType
  <2> QED BY <1>2, <1>4, <1>10, <2>1 DEF InitUpdate
<1>11. CASE Arm
  <2>1. pc = "arm" /\ UNCHANGED <<now, alarm_tab, map_sw, when>>
    BY <1>11 DEF Arm
  <2> QED BY <1>3, <2>1 DEF Current
<1>12. CASE WriteRecord \/ WriteMask
  <2>1. pc \in {"rec", "mask"} /\ UNCHANGED <<now, alarm_tab, map_sw, when>>
    BY <1>12 DEF WriteRecord, WriteMask, ram
  <2> QED BY <1>3, <2>1 DEF Current
<1>13. CASE InitFresh \/ Format
  <2>1. map_sw' = {}
    BY <1>13 DEF InitFresh, Format, ram, DownEmpty
  <2> QED BY <1>1, <2>1 DEF Timed
<1>14. CASE alarm_update_info_after_isr \/ IsrSlot \/ IsrMask \/ InitWoken \/ Crash
  <2>1. pc' \notin {"arm", "rec", "mask"} /\ (pc' = "ready" => woken')
    BY <1>14 DEF alarm_update_info_after_isr, IsrSlot, IsrMask, InitWoken, Crash
  <2> QED BY <1>5, <2>1 DEF Current
<1>15. CASE alarm_check \/ UNCHANGED vars
  <2>1. UNCHANGED <<pc, woken, now, alarm_tab, map_sw, when>>
    BY <1>15 DEF alarm_check, vars, ram
  <2>2. Current' <=> Current
    BY <2>1 DEF Current
  <2> QED BY <1>1, <1>3, <2>1, <2>2
<1>16. \A d \in DayInputs, m \in Minutes : [day |-> d, min |-> m] \in Times
  BY InputAssumption DEF Times
<1> QED
  BY <1>6, <1>7, <1>8, <1>9, <1>10, <1>11, <1>12, <1>13, <1>14, <1>15, <1>16
  DEF Next, Callers, Handler

(* Between two handlers of a device whose records can be read, the register *)
(* is at a minute at which the alarms it names are due, and it comes no     *)
(* later than any minute ahead at which an enabled alarm is to ring.        *)
RegisterOnTime ==
  (\A i \in Slots : vm.rec[i].head) /\ pc = "ready" /\ ~ woken =>
    /\ \A i \in active_map : IsDue(alarm_tab[i], hw.at)
    /\ \A i \in map_sw : \A u \in Times :
         IsDue(alarm_tab[i], u) /\ Before(now, u) => hw.en /\ ~ Before(u, hw.at)

LEMMA OnTime ==
  ASSUME TypeOK, TimedInv, FlashErrorsContained
  PROVE  RegisterOnTime
<1> SUFFICES ASSUME \A i \in Slots : vm.rec[i].head, pc = "ready", ~ woken
             PROVE  /\ \A i \in active_map : IsDue(alarm_tab[i], hw.at)
                    /\ \A i \in map_sw : \A u \in Times :
                         IsDue(alarm_tab[i], u) /\ Before(now, u) =>
                           hw.en /\ ~ Before(u, hw.at)
  BY DEF RegisterOnTime
<1>1. /\ map_sw # {} => hw.en
      /\ active_map = {i \in map_sw : when[i] = hw.at}
      /\ \A i \in map_sw : ~ Before(when[i], hw.at)
  BY DEF FlashErrorsContained, ArmedForEarliest
<1>2. Timed
  BY DEF TimedInv, Current
<1>3. hw.at \in Times /\ \A i \in map_sw : when[i] \in Times
  BY DEF TypeOK
<1>4. \A i \in active_map : IsDue(alarm_tab[i], hw.at)
  BY <1>1, <1>2 DEF Timed
<1>5. ASSUME NEW i \in map_sw, NEW u \in Times, IsDue(alarm_tab[i], u), Before(now, u)
      PROVE  hw.en /\ ~ Before(u, hw.at)
  <2>1. ~ Before(u, when[i]) /\ ~ Before(when[i], hw.at) /\ when[i] \in Times
    BY <1>1, <1>2, <1>3, <1>5 DEF Timed
  <2> HIDE DEF Timed
  <2>2. ~ Before(u, hw.at)
    BY <1>3, <2>1 DEF Before, Times, Minutes
  <2> QED BY <1>1, <2>2
<1> QED BY <1>4, <1>5

(* No alarm is overtaken: whatever is set, rings, fails to be written or is *)
(* cut off by a loss of power, the register is no later than any minute     *)
(* ahead at which an enabled alarm is to ring (alarm_api.c:648-686,         *)
(* 891-925); with RegisterIsAhead it waits for the first of them.           *)
THEOREM NoneOvertaken == Spec => []RegisterOnTime
<1>1. Init => TypeOK /\ TimedInv
  BY InitType DEF Init, TimedInv, DownEmpty, Current
<1>2. TypeOK /\ TimedInv /\ [Next]_vars => (TypeOK /\ TimedInv)'
  BY StepType, StepTimed
<1>3. TypeOK /\ TimedInv /\ FlashErrorsContained => RegisterOnTime
  BY OnTime
<1> QED BY <1>1, <1>2, <1>3, ErrorsContained, PTL DEF Spec

-----------------------------------------------------------------------------
(* The safety properties when a flash write that is made succeeds.  None of *)
(* them is inductive: what the VM holds is only right because of what the   *)
(* handler that runs still has to do.  The invariant says, at every point   *)
(* of a handler, what is already right.                                     *)

(* Down, and while the VM is formatted, the table is empty; so is a mask    *)
(* that is being formatted or was never written.                            *)
Down ==
  /\ pc \in {"off", "format"} =>
       /\ map = {} /\ map_sw = {}
       /\ alarm_tab = [i \in Slots |-> ZeroEntry]
  /\ pc = "format" \/ ~ vm.valid => vm.map = {} /\ vm.map_sw = {}

(* map_sw and the switch of an entry agree.                                 *)
Switches ==
  /\ \A i \in map_sw : alarm_tab[i].sw # 0
  /\ \A i \in Slots : alarm_tab[i].sw = 1 => i \in map_sw

(* Every slot's record is in the VM, except one still to be written.        *)
InFlight == IF pc \in {"arm", "rec"} /\ wr = "rec" THEN {slot} ELSE {}
Recorded ==
  \A i \in map \ InFlight : vm.rec[i].head /\ vm.rec[i].alarm = alarm_tab[i]

StateInv == Plan /\ Down /\ Nest /\ Switches /\ Recorded /\ MappedHasRecord

(* Nothing is promised of a slot a handler is about to change, and the      *)
(* one-shot alarms that rang are off when the event is done with.           *)
Pending ==
  /\ pc \in {"arm", "rec", "mask"} /\ wr = "rec" => promise[slot].st = "open"
  /\ pc \in {"isr", "isr_mask"} =>
       /\ \A i \in todo : alarm_tab[i].mode = ONCE => promise[i].st = "open"
       /\ \A i \in cur_active \ todo : alarm_tab[i].mode = ONCE => alarm_tab[i].sw = 0
  /\ pc = "isr_mask" /\ alarm_tab[slot].mode = ONCE => alarm_tab[slot].sw = 0
  /\ pc \in {"arm", "mask"} /\ wr = "ring" =>
       \A i \in cur_active : alarm_tab[i].mode = ONCE => alarm_tab[i].sw = 0

OnKept ==
  \A i \in Slots : promise[i].st = "on" =>
    /\ promise[i].alarm.sw = 1
    /\ i \in vm.map /\ vm.rec[i].head /\ vm.rec[i].alarm = promise[i].alarm
    /\ pc \notin {"off", "format"} => i \in map_sw /\ alarm_tab[i] = promise[i].alarm

OffKept ==
  \A i \in Slots : promise[i].st = "off" =>
    /\ i \notin map_sw /\ alarm_tab[i].sw = 0
    /\ i \in vm.map => vm.rec[i].alarm.sw = 0

PromiseInv == Pending /\ OnKept /\ OffKept

Writes == ~ WritesMayFail

-----------------------------------------------------------------------------
(* The state of table and VM at every point of a handler.                   *)
LEMMA InitState == Init => StateInv
BY ConstantTypes DEF Init, StateInv, Plan, Down, Nest, Switches, Recorded, InFlight,
   MappedHasRecord, BlankVm, NoRecord, ZeroEntry

LEMMA StepState == TypeOK /\ StateInv /\ Writes /\ [Next]_vars => StateInv'
<1> SUFFICES ASSUME TypeOK, StateInv, Writes, [Next]_vars
             PROVE  StateInv'
  OBVIOUS
<1> USE DEF StateInv, Writes
<1>1. CASE UNCHANGED <<pc, wr, slot, alarm_tab, map, map_sw, vm>>
  BY <1>1 DEF Plan, Down, Nest, Switches, Recorded, InFlight, MappedHasRecord
<1>2. CASE Tick \/ alarm_check
  BY <1>1, <1>2 DEF Tick, alarm_check, ram
<1>3. ASSUME NEW i \in Slots, NEW e \in Entries, alarm_add(i, e)
      PROVE  StateInv'
  <2>1. alarm_tab' = [alarm_tab EXCEPT ![i] = e] /\ e.sw \in Nat
    BY <1>3, InputAssumption DEF alarm_add, Entries
  <2>2. /\ pc = "ready" /\ pc' = "arm" /\ wr' = "rec" /\ slot' = i
        /\ vm' = vm /\ map' = map \union {i}
    BY <1>3 DEF alarm_add
  <2>3. map_sw' = CASE e.sw = 0 -> map_sw \ {i}
                    [] e.sw = 1 -> map_sw \union {i}
                    [] OTHER -> map_sw
    BY <1>3 DEF alarm_add
  <2>4. alarm_tab \in [Slots -> Entry] /\ map_sw \subseteq Slots
    BY DEF TypeOK
  <2>5. Plan' /\ Down' /\ MappedHasRecord'
    BY <2>2 DEF Plan, Down, MappedHasRecord
  <2>6. Nest'
    BY <2>2, <2>3 DEF Nest
  <2>7. Switches'
    BY <2>1, <2>3, <2>4 DEF Switches
  <2>8. Recorded'
    BY <2>1, <2>2, <2>4 DEF Recorded, InFlight
  <2>9. QED
    BY <2>5, <2>6, <2>7, <2>8
<1>4. ASSUME NEW i \in Slots, alarm_delete(i)
      PROVE  StateInv'
  <2>1. alarm_tab' = [alarm_tab EXCEPT ![i].sw = 0]
    BY <1>4 DEF alarm_delete
  <2>2. /\ pc = "ready" /\ pc' = "arm" /\ wr' = "rec" /\ slot' = i
        /\ vm' = vm /\ map' = map \ {i} /\ map_sw' = map_sw \ {i}
    BY <1>4 DEF alarm_delete
  <2>3. alarm_tab \in [Slots -> Entry] /\ map_sw \subseteq Slots
    BY DEF TypeOK
  <2>4. Plan' /\ Down' /\ MappedHasRecord'
    BY <2>2 DEF Plan, Down, MappedHasRecord
  <2>5. Nest'
    BY <2>2 DEF Nest
  <2>6. \A j \in Slots : alarm_tab'[j].sw = IF j = i THEN 0 ELSE alarm_tab[j].sw
    BY <2>1, <2>3 DEF Entry
  <2>7. Switches'
    BY <2>2, <2>3, <2>6 DEF Switches
  <2>8. Recorded'
    BY <2>1, <2>2, <2>3 DEF Recorded, InFlight
  <2>9. QED
    BY <2>4, <2>5, <2>7, <2>8
<1>5. ASSUME NEW t \in Times, rtc_update_time_api(t)
      PROVE  StateInv'
  BY <1>5 DEF rtc_update_time_api, Plan, Down, Nest, Switches, Recorded, InFlight,
     MappedHasRecord
<1>6. CASE alarm_update_info_after_isr
  BY <1>6 DEF alarm_update_info_after_isr, Plan, Down, Nest, Switches, Recorded,
     InFlight, MappedHasRecord
<1>7. CASE IsrSlot
  <2> DEFINE i == Least(todo)
             e == AfterRing(alarm_tab[i])
  <2>1. i \in Slots
    BY <1>7, LeastSlot DEF IsrSlot, TypeOK
  <2>2. /\ pc = "isr" /\ pc' = "isr_mask" /\ wr' = wr /\ map' = map
        /\ alarm_tab' = [alarm_tab EXCEPT ![i] = e]
        /\ map_sw' = IF e.mode = ONCE THEN map_sw \ {i} ELSE map_sw
        /\ vm' = RecordWritten(vm, i, e)
    BY <1>7 DEF IsrSlot
  <2> HIDE DEF i
  <2>3. alarm_tab \in [Slots -> Entry] /\ map_sw \subseteq Slots /\ vm \in VmContents
    BY DEF TypeOK
  <2>4. /\ alarm_tab[i] \in Entry
        /\ e.mode = alarm_tab[i].mode
        /\ e.sw = IF e.mode = ONCE THEN 0 ELSE alarm_tab[i].sw
    BY <2>1, <2>3 DEF AfterRing, Entry
  <2> HIDE DEF e
  <2>5. /\ vm'.map = vm.map /\ vm'.map_sw = vm.map_sw /\ vm'.valid = vm.valid
        /\ vm'.rec = [vm.rec EXCEPT ![i] = [head |-> TRUE, alarm |-> e]]
    BY <2>1, <2>2, <2>3 DEF RecordWritten, VmContents
  <2>6. Plan' /\ Down' /\ Nest'
    BY <2>2, <2>5 DEF Plan, Down, Nest
  <2>7. Switches'
    BY <2>1, <2>2, <2>3, <2>4 DEF Switches
  <2>8. Recorded'
    <3>1. SUFFICES ASSUME NEW j \in map
                   PROVE  vm'.rec[j].head /\ vm'.rec[j].alarm = alarm_tab'[j]
      BY <2>2 DEF Recorded
    <3>2. j \in Slots /\ vm.rec[j].head /\ vm.rec[j].alarm = alarm_tab[j]
      BY <2>2 DEF Recorded, InFlight, TypeOK
    <3>3. vm'.rec[j] = IF j = i THEN [head |-> TRUE, alarm |-> e] ELSE vm.rec[j]
      BY <2>3, <2>5, <3>2 DEF VmContents
    <3>4. alarm_tab'[j] = IF j = i THEN e ELSE alarm_tab[j]
      BY <2>2, <2>3, <3>2
    <3>5. QED
      BY <3>2, <3>3, <3>4
  <2>9. MappedHasRecord'
    BY <2>1, <2>3, <2>5 DEF MappedHasRecord, VmContents
  <2>10. QED
    BY <2>6, <2>7, <2>8, <2>9
<1>8. CASE IsrMask \/ WriteMask
  <2>1. /\ pc \in {"isr_mask", "mask"} /\ pc' \in {"isr", "ready"} /\ wr' = "none"
        /\ vm' = MaskWritten(vm)
        /\ UNCHANGED ram
    BY <1>8 DEF IsrMask, WriteMask, NextWrite, Plan
  <2>2. /\ vm'.map = map /\ vm'.map_sw = map_sw /\ vm'.rec = vm.rec /\ vm'.valid = TRUE
    BY <2>1 DEF MaskWritten, TypeOK, VmContents
  <2>3. alarm_tab' = alarm_tab /\ map' = map /\ map_sw' = map_sw
    BY <2>1 DEF ram
  <2>4. Plan' /\ Down' /\ Nest' /\ Switches'
    BY <2>1, <2>2, <2>3 DEF Plan, Down, Nest, Switches
  <2>5. \A i \in map : vm.rec[i].head /\ vm.rec[i].alarm = alarm_tab[i]
    BY <2>1 DEF Recorded, InFlight
  <2>6. Recorded' /\ MappedHasRecord'
    BY <2>2, <2>3, <2>5 DEF Recorded, MappedHasRecord, Nest
  <2>7. QED
    BY <2>4, <2>6
<1>9. CASE IsrUpdate
  BY <1>9 DEF IsrUpdate, Plan, Down, Nest, Switches, Recorded, InFlight, MappedHasRecord
<1>10. CASE Arm
  <2>1. /\ pc = "arm" /\ pc' = NextWrite(wr, "arm")
        /\ UNCHANGED <<wr, slot, alarm_tab, map, map_sw, vm>>
    BY <1>10 DEF Arm
  <2>2. /\ pc' \in {"rec", "mask", "ready"}
        /\ pc' = "rec" <=> wr = "rec"
        /\ pc' = "ready" => wr = "none"
        /\ pc' = "mask" => wr # "none"
    BY <2>1 DEF NextWrite, TypeOK
  <2>3. QED
    BY <2>1, <2>2 DEF Plan, Down, Nest, Switches, Recorded, InFlight, MappedHasRecord
<1>11. CASE WriteRecord
  <2>1. /\ pc = "rec" /\ pc' = "mask" /\ wr = "rec" /\ wr' = "rec"
        /\ vm' = RecordWritten(vm, slot, alarm_tab[slot])
        /\ UNCHANGED <<slot, alarm_tab, map, map_sw>>
    BY <1>11 DEF WriteRecord, NextWrite, ram, Plan
  <2>2. slot \in Slots /\ vm \in VmContents
    BY DEF TypeOK
  <2>3. /\ vm'.map = vm.map /\ vm'.map_sw = vm.map_sw /\ vm'.valid = vm.valid
        /\ vm'.rec = [vm.rec EXCEPT ![slot] = [head |-> TRUE, alarm |-> alarm_tab[slot]]]
    BY <2>1, <2>2 DEF RecordWritten, VmContents
  <2>4. Plan' /\ Down' /\ Nest' /\ Switches'
    BY <2>1, <2>3 DEF Plan, Down, Nest, Switches
  <2>5. Recorded'
    BY <2>1, <2>2, <2>3 DEF Recorded, InFlight, VmContents, TypeOK
  <2>6. MappedHasRecord'
    BY <2>2, <2>3 DEF MappedHasRecord, VmContents
  <2>7. QED
    BY <2>4, <2>5, <2>6
<1>12. CASE Crash
  BY <1>12, ConstantTypes DEF Crash, Plan, Down, Nest, Switches, Recorded,
     MappedHasRecord, ZeroEntry
<1>13. CASE InitFresh
  <2>1. /\ pc = "off" /\ pc' = "format" /\ vm' = MaskWritten(vm)
        /\ UNCHANGED <<wr, alarm_tab, map, map_sw>>
    BY <1>13 DEF InitFresh, ram
  <2>2. /\ vm'.map = map /\ vm'.map_sw = map_sw /\ vm'.valid = TRUE
    BY <2>1 DEF MaskWritten, TypeOK, VmContents
  <2>3. QED
    BY <2>1, <2>2 DEF Plan, Down, Nest, Switches, Recorded, MappedHasRecord
<1>14. CASE Format
  <2>1. /\ pc = "format" /\ pc' \in {"format", "ready", "arm"}
        /\ vm' = RecordWritten(vm, slot, ZeroEntry)
        /\ UNCHANGED <<wr, alarm_tab, map, map_sw>>
    BY <1>14 DEF Format, Started, ram
  <2>2. /\ vm'.map = vm.map /\ vm'.map_sw = vm.map_sw
    BY <2>1 DEF RecordWritten, TypeOK, VmContents
  <2>3. QED
    BY <2>1, <2>2 DEF Plan, Down, Nest, Switches, Recorded, MappedHasRecord
<1>15. CASE InitUpdate \/ InitWoken
  <2>1. /\ pc = "off" /\ pc' \in {"arm", "ready"} /\ vm.valid
        /\ alarm_tab' = RestoredTab(vm)
        /\ map' = vm.map /\ map_sw' = RestoredSw(vm)
        /\ UNCHANGED <<wr, vm>>
    BY <1>15 DEF InitUpdate, InitWoken
  <2>2. \A i \in vm.map : i \in Slots /\ vm.rec[i].head
    BY DEF MappedHasRecord, TypeOK, VmContents
  <2>3. \A i \in Slots : /\ i \in map_sw' <=> i \in vm.map /\ vm.rec[i].alarm.sw # 0
                         /\ alarm_tab'[i] = IF i \in vm.map THEN vm.rec[i].alarm
                                                           ELSE ZeroEntry
    BY <2>1, <2>2 DEF RestoredTab, RestoredSw, Nest
  <2>4. map_sw' \subseteq Slots /\ vm.map \subseteq Slots
    BY <2>1 DEF RestoredSw, TypeOK, VmContents
  <2>5. Plan' /\ Down' /\ Nest' /\ MappedHasRecord'
    BY <2>1, <2>3, <2>4 DEF Plan, Down, Nest, MappedHasRecord
  <2>6. Switches'
    BY <2>3, <2>4 DEF Switches, ZeroEntry
  <2>7. Recorded'
    BY <2>1, <2>2, <2>3 DEF Recorded
  <2>8. QED
    BY <2>5, <2>6, <2>7
<1>16. CASE UNCHANGED vars
  BY <1>1, <1>16 DEF vars
<1>17. \A d \in DayInputs, m \in Minutes : [day |-> d, min |-> m] \in Times
  BY InputAssumption DEF Times
<1>18. QED
  BY <1>2, <1>3, <1>4, <1>5, <1>6, <1>7, <1>8, <1>9, <1>10, <1>11, <1>12, <1>13,
     <1>14, <1>15, <1>16, <1>17 DEF Next, Callers, Handler

(* Every slot the mask names has a record that can be read, so that a start *)
(* restores it, wherever in a handler power was lost (alarm_api.c:244-283). *)
THEOREM RecordsReadable == ASSUME Writes PROVE Spec => []MappedHasRecord
<1>1. Init => TypeOK /\ StateInv
  BY InitType, InitState
<1>2. TypeOK /\ StateInv /\ [Next]_vars => (TypeOK /\ StateInv)'
  BY StepType, StepState
<1>3. StateInv => MappedHasRecord
  BY DEF StateInv
<1>4. QED
  BY <1>1, <1>2, <1>3, PTL DEF Spec

-----------------------------------------------------------------------------
(* The register is set for the earliest of the enabled alarms.              *)
LEMMA StepArmed ==
  ASSUME TypeOK, StateInv, ArmedForEarliest, [Next]_vars
  PROVE  ArmedForEarliest'
<1>1. CASE UNCHANGED <<pc, woken, hw, map_sw, active_map, when>>
  BY <1>1 DEF ArmedForEarliest
<1>2. CASE pc' \notin {"rec", "mask", "ready"} \/ woken'
  BY <1>2 DEF ArmedForEarliest
<1>3. CASE Arm
  <2> DEFINE E == Earliest(map_sw, when)
             index == Least(E)
  <2>1. /\ map_sw \subseteq Slots /\ when \in [Slots -> Times]
        /\ hw \in [en : BOOLEAN, at : Times]
    BY DEF TypeOK
  <2>2. /\ active_map' = E /\ map_sw' = map_sw /\ when' = when
        /\ hw' = IF map_sw = {} THEN [hw EXCEPT !.en = FALSE]
                 ELSE [en |-> alarm_tab[index].sw # 0, at |-> when[index]]
    BY <1>3 DEF Arm
  <2>3. CASE map_sw = {}
    BY <2>1, <2>2, <2>3 DEF ArmedForEarliest, Earliest
  <2>4. CASE map_sw # {}
    <3>1. E # {} /\ E \subseteq map_sw
      BY <2>1, <2>4, EarliestExist DEF Earliest
    <3>2. index \in E
      BY <2>1, <3>1, LeastSlot
    <3>3. /\ E = {j \in map_sw : when[j] = when[index]}
          /\ \A j \in map_sw : ~ Before(when[j], when[index])
      BY <2>1, <3>2, EarliestShareTime
    <3>4. alarm_tab[index].sw # 0
      BY <3>1, <3>2 DEF StateInv, Switches
    <3> HIDE DEF E, index
    <3>5. hw'.en = TRUE /\ hw'.at = when[index]
      BY <2>2, <2>4, <3>4 DEF E, index
    <3>6. QED
      BY <2>2, <2>4, <3>1, <3>3, <3>5 DEF ArmedForEarliest
  <2>5. QED
    BY <2>3, <2>4
<1>4. CASE WriteRecord \/ WriteMask
  <2>1. pc \in {"rec", "mask"} /\ UNCHANGED <<woken, hw, map_sw, active_map, when>>
    BY <1>4 DEF WriteRecord, WriteMask, ram
  <2>2. QED
    BY <2>1 DEF ArmedForEarliest
<1>5. CASE Tick \/ alarm_check \/ UNCHANGED vars
  BY <1>1, <1>5 DEF Tick, alarm_check, vars, ram
<1>6. CASE Callers \/ alarm_update_info_after_isr \/ IsrSlot \/ IsrMask \/ IsrUpdate \/ Crash
  <2>1. pc' \notin {"rec", "mask", "ready"}
    BY <1>6 DEF Callers, alarm_add, alarm_delete, rtc_update_time_api,
       alarm_update_info_after_isr, IsrSlot, IsrMask, IsrUpdate, Crash
  <2>2. QED
    BY <1>2, <2>1
<1>7. CASE InitFresh \/ Format \/ InitUpdate \/ InitWoken
  <2>1. pc' \notin {"rec", "mask", "ready"} \/ woken'
    BY <1>7 DEF InitFresh, Format, Started, InitUpdate, InitWoken
  <2>2. QED
    BY <1>2, <2>1
<1>8. QED
  BY <1>3, <1>4, <1>5, <1>6, <1>7 DEF Next, Handler

(* Between two handlers the register is enabled exactly when an alarm is,   *)
(* at a time no enabled alarm is before, and active_map is the alarms of    *)
(* that time (alarm_api.c:648-686, 891-925).                                *)
THEOREM EarliestArmed == ASSUME Writes PROVE Spec => []ArmedForEarliest
<1>1. Init => TypeOK /\ StateInv /\ ArmedForEarliest
  <2>1. Init => ArmedForEarliest
    BY DEF Init, ArmedForEarliest
  <2>2. QED
    BY <2>1, InitType, InitState
<1>2. TypeOK /\ StateInv /\ ArmedForEarliest /\ [Next]_vars
        => (TypeOK /\ StateInv /\ ArmedForEarliest)'
  BY StepType, StepState, StepArmed
<1>3. QED
  BY <1>1, <1>2, PTL DEF Spec

-----------------------------------------------------------------------------
(* What a finished operation promised of a slot is true of table and VM.    *)
LEMMA InitPromise == Init => PromiseInv
BY ConstantTypes DEF Init, PromiseInv, Pending, OnKept, OffKept, Off, ZeroEntry, BlankVm

LEMMA StepPromise ==
  ASSUME TypeOK, StateInv, PromiseInv, Writes, [Next]_vars
  PROVE  PromiseInv'
<1> USE DEF PromiseInv, Writes
<1>0. /\ alarm_tab \in [Slots -> Entry] /\ promise \in [Slots -> Promises]
      /\ slot \in Slots /\ vm \in VmContents /\ map_sw \subseteq Slots
      /\ todo \subseteq Slots /\ cur_active \subseteq Slots /\ map \subseteq Slots
  BY DEF TypeOK
<1>1. CASE UNCHANGED <<pc, wr, slot, todo, alarm_tab, map_sw, cur_active, vm, promise>>
  BY <1>1 DEF Pending, OnKept, OffKept
<1>2. CASE Tick \/ alarm_check \/ UNCHANGED vars
  BY <1>1, <1>2 DEF Tick, alarm_check, ram, vars
<1>3. ASSUME NEW i \in Slots, alarm_delete(i) \/ \E e \in Entries : alarm_add(i, e)
      PROVE  PromiseInv'
  <2>1. /\ pc = "ready" /\ pc' = "arm" /\ wr' = "rec" /\ slot' = i /\ vm' = vm
        /\ promise' = [promise EXCEPT ![i] = Open]
    BY <1>3 DEF alarm_add, alarm_delete
  <2>2. \A j \in Slots \ {i} : /\ alarm_tab'[j] = alarm_tab[j]
                               /\ j \in map_sw' <=> j \in map_sw
    BY <1>0, <1>3 DEF alarm_add, alarm_delete
  <2>3. promise'[i].st = "open" /\ \A j \in Slots \ {i} : promise'[j] = promise[j]
    BY <1>0, <2>1 DEF Open
  <2>4. Pending'
    BY <2>1, <2>3 DEF Pending
  <2>5. OnKept' /\ OffKept'
    BY <2>1, <2>2, <2>3 DEF OnKept, OffKept
  <2>6. QED
    BY <2>4, <2>5
<1>4. ASSUME NEW t \in Times, rtc_update_time_api(t)
      PROVE  PromiseInv'
  BY <1>4 DEF rtc_update_time_api, Pending, OnKept, OffKept
<1>5. CASE alarm_update_info_after_isr
  <2>1. /\ pc = "ready" /\ pc' = "isr" /\ todo' = active_map /\ cur_active' = active_map
        /\ UNCHANGED <<wr, alarm_tab, map_sw, vm>> /\ wr = "none"
    BY <1>5 DEF alarm_update_info_after_isr, Ringing, StateInv, Plan
  <2>2. \A i \in Slots :
          promise'[i] = IF i \in active_map /\ alarm_tab[i].mode = ONCE THEN Open
                                                                     ELSE promise[i]
    BY <1>5 DEF alarm_update_info_after_isr
  <2>3. active_map \subseteq Slots
    BY DEF TypeOK
  <2>4. Pending'
    BY <2>1, <2>2, <2>3 DEF Pending, Open
  <2>5. \A i \in Slots : promise'[i].st # "open" => promise'[i] = promise[i]
    BY <2>2 DEF Open
  <2>6. OnKept' /\ OffKept'
    BY <2>1, <2>5 DEF OnKept, OffKept
  <2>7. QED
    BY <2>4, <2>6
<1>6. CASE IsrSlot
  <2> DEFINE i == Least(todo)
             e == AfterRing(alarm_tab[i])
  <2>1. i \in Slots /\ i \in todo
    BY <1>0, <1>6, LeastSlot DEF IsrSlot
  <2>2. /\ pc = "isr" /\ pc' = "isr_mask" /\ wr' = wr /\ slot' = i
        /\ alarm_tab' = [alarm_tab EXCEPT ![i] = e]
        /\ map_sw' = IF e.mode = ONCE THEN map_sw \ {i} ELSE map_sw
        /\ vm' = RecordWritten(vm, i, e)
        /\ UNCHANGED <<todo, cur_active, promise>>
    BY <1>6 DEF IsrSlot
  <2> HIDE DEF i
  <2>3. /\ e.mode = alarm_tab[i].mode
        /\ e.mode = ONCE => e.sw = 0
        /\ e.mode # ONCE => e = alarm_tab[i]
    BY <1>0, <2>1 DEF AfterRing, Entry
  <2> HIDE DEF e
  <2>4. /\ vm'.map = vm.map
        /\ vm'.rec = [vm.rec EXCEPT ![i] = [head |-> TRUE, alarm |-> e]]
    BY <1>0, <2>1, <2>2 DEF RecordWritten, VmContents
  <2>5. /\ alarm_tab'[i] = e /\ vm'.rec[i].head /\ vm'.rec[i].alarm = e
        /\ \A j \in Slots \ {i} : /\ alarm_tab'[j] = alarm_tab[j] /\ vm'.rec[j] = vm.rec[j]
                                 /\ j \in map_sw' <=> j \in map_sw
    BY <1>0, <2>1, <2>2, <2>4 DEF VmContents
  <2>6. wr = "none"
    BY <2>2 DEF StateInv, Plan
  <2>7. e.mode = ONCE => promise[i].st = "open"
    BY <2>1, <2>2, <2>3 DEF Pending
  <2>8. Pending'
    BY <1>0, <2>1, <2>2, <2>3, <2>5, <2>6 DEF Pending
  <2>9. OnKept'
    BY <2>2, <2>3, <2>4, <2>5, <2>7 DEF OnKept
  <2>10. OffKept'
    BY <2>2, <2>3, <2>4, <2>5, <2>7 DEF OffKept
  <2>11. QED
    BY <2>8, <2>9, <2>10
<1>7. CASE IsrMask
  <2>1. /\ pc = "isr_mask" /\ pc' = "isr" /\ todo' = todo \ {slot}
        /\ vm' = MaskWritten(vm) /\ wr = "none"
        /\ UNCHANGED <<wr, slot, alarm_tab, map, map_sw, cur_active, promise>>
    BY <1>7 DEF IsrMask, ram, StateInv, Plan
  <2>2. vm'.map = map /\ vm'.rec = vm.rec
    BY <1>0, <2>1 DEF MaskWritten, VmContents
  <2>3. Pending'
    BY <1>0, <2>1 DEF Pending
  <2>4. OnKept'
    BY <2>1, <2>2 DEF OnKept, StateInv, Nest
  <2>5. \A i \in map : vm.rec[i].alarm = alarm_tab[i]
    BY <2>1 DEF StateInv, Recorded, InFlight
  <2>6. OffKept'
    BY <2>1, <2>2, <2>5 DEF OffKept
  <2>7. QED
    BY <2>3, <2>4, <2>6
<1>8. CASE IsrUpdate
  <2>1. /\ pc = "isr" /\ pc' = "arm" /\ wr' = "ring" /\ todo = {}
        /\ UNCHANGED <<alarm_tab, map_sw, cur_active, vm, promise>>
    BY <1>8 DEF IsrUpdate
  <2>2. QED
    BY <2>1 DEF Pending, OnKept, OffKept
<1>9. CASE Arm
  <2>1. /\ pc = "arm" /\ pc' \in {"rec", "mask", "ready"} /\ pc' = NextWrite(wr, "arm")
        /\ UNCHANGED <<wr, slot, alarm_tab, map_sw, cur_active, vm, promise>>
    BY <1>9 DEF Arm, NextWrite
  <2>2. QED
    BY <2>1 DEF Pending, OnKept, OffKept
<1>10. CASE WriteRecord
  <2>1. /\ pc = "rec" /\ pc' = "mask" /\ wr = "rec"
        /\ vm' = RecordWritten(vm, slot, alarm_tab[slot])
        /\ UNCHANGED <<wr, slot, alarm_tab, map_sw, promise>>
    BY <1>10 DEF WriteRecord, NextWrite, ram, StateInv, Plan
  <2>2. vm'.map = vm.map /\ \A j \in Slots \ {slot} : vm'.rec[j] = vm.rec[j]
    BY <1>0, <2>1 DEF RecordWritten, VmContents
  <2>3. promise[slot].st = "open"
    BY <2>1 DEF Pending
  <2>4. Pending'
    BY <2>1, <2>3 DEF Pending
  <2>5. OnKept' /\ OffKept'
    BY <2>1, <2>2, <2>3 DEF OnKept, OffKept
  <2>6. QED
    BY <2>4, <2>5
<1>11. CASE WriteMask
  <2>1. /\ pc = "mask" /\ pc' = "ready" /\ vm' = MaskWritten(vm) /\ wr' = "none"
        /\ UNCHANGED <<slot, alarm_tab, map, map_sw, cur_active>>
    BY <1>11 DEF WriteMask, NextWrite, ram
  <2>2. vm'.map = map /\ vm'.rec = vm.rec
    BY <1>0, <2>1 DEF MaskWritten, VmContents
  <2>3. \A i \in map : vm.rec[i].head /\ vm.rec[i].alarm = alarm_tab[i]
    BY <2>1 DEF StateInv, Recorded, InFlight
  <2>4. Pending'
    BY <2>1 DEF Pending
  <2>5. ASSUME NEW i \in Slots
        PROVE  \/ promise'[i] = promise[i]
               \/ promise'[i].st = "open"
               \/ promise'[i] = On(alarm_tab[i]) /\ alarm_tab[i].sw = 1
               \/ promise'[i] = Off /\ alarm_tab[i].sw = 0
    <3>1. CASE wr = "rec"
      <4>1. promise' = [promise EXCEPT ![slot] = Outcome(alarm_tab[slot])]
        BY <1>11, <3>1 DEF WriteMask
      <4>2. CASE i = slot
        BY <1>0, <4>1, <4>2 DEF Outcome, Open
      <4>3. CASE i # slot
        BY <1>0, <4>1, <4>3
      <4>4. QED
        BY <4>2, <4>3
    <3>2. CASE wr = "ring"
      <4>1. promise'[i] = IF i \in cur_active /\ alarm_tab[i].mode = ONCE THEN Off
                                                                        ELSE promise[i]
        BY <1>11, <3>2 DEF WriteMask
      <4>2. i \in cur_active /\ alarm_tab[i].mode = ONCE => alarm_tab[i].sw = 0
        BY <2>1, <3>2 DEF Pending
      <4>3. QED
        BY <4>1, <4>2
    <3>3. CASE wr \notin {"rec", "ring"}
      BY <1>11, <3>3 DEF WriteMask
    <3>4. QED
      BY <3>1, <3>2, <3>3
  <2>6. \A i \in Slots : /\ alarm_tab[i].sw = 1 => i \in map_sw /\ i \in map
                         /\ alarm_tab[i].sw = 0 => i \notin map_sw
    BY DEF StateInv, Switches, Nest
  <2>7. OnKept'
    <3>1. SUFFICES ASSUME NEW i \in Slots, promise'[i].st = "on"
                   PROVE  /\ promise'[i].alarm.sw = 1
                          /\ i \in map /\ i \in map_sw
                          /\ vm.rec[i].head /\ vm.rec[i].alarm = promise'[i].alarm
                          /\ alarm_tab[i] = promise'[i].alarm
      BY <2>1, <2>2 DEF OnKept
    <3>2. CASE promise'[i] = promise[i]
      <4>1. i \in map_sw /\ i \in map
        BY <2>1, <3>1, <3>2 DEF OnKept, StateInv, Nest
      <4>2. QED
        BY <2>1, <3>1, <3>2, <4>1 DEF OnKept
    <3>3. CASE promise'[i] = On(alarm_tab[i]) /\ alarm_tab[i].sw = 1
      <4>1. promise'[i].alarm = alarm_tab[i]
        BY <3>3 DEF On
      <4>2. QED
        BY <2>3, <2>6, <3>3, <4>1
    <3>4. QED
      BY <2>5, <3>1, <3>2, <3>3 DEF Off
  <2>8. OffKept'
    <3>1. SUFFICES ASSUME NEW i \in Slots, promise'[i].st = "off"
                   PROVE  /\ i \notin map_sw' /\ alarm_tab'[i].sw = 0
                          /\ i \in vm'.map => vm'.rec[i].alarm.sw = 0
      BY DEF OffKept
    <3>2. CASE promise'[i] = promise[i]
      <4>1. i \notin map_sw /\ alarm_tab[i].sw = 0
        BY <3>1, <3>2 DEF OffKept
      <4>2. QED
        BY <2>1, <2>2, <2>3, <4>1
    <3>3. CASE promise'[i] = Off /\ alarm_tab[i].sw = 0
      BY <2>1, <2>2, <2>3, <2>6, <3>3
    <3>4. promise'[i] # On(alarm_tab[i])
      BY <3>1 DEF On
    <3>5. promise'[i].st # "open"
      BY <3>1
    <3>6. QED
      BY <2>5, <3>2, <3>3, <3>4, <3>5
  <2>9. QED
    BY <2>4, <2>7, <2>8
<1>12. CASE Crash
  BY <1>12, ConstantTypes DEF Crash, Pending, OnKept, OffKept, ZeroEntry
<1>13. CASE InitFresh \/ Format
  <2>1. /\ pc \in {"off", "format"} /\ pc' \in {"format", "ready", "arm"} /\ wr = "none"
        /\ vm.map = {} /\ map = {} /\ map_sw = {}
        /\ UNCHANGED <<wr, alarm_tab, map_sw, promise>>
    BY <1>13 DEF InitFresh, Format, Started, ram, StateInv, Plan, Down
  <2>2. vm' = MaskWritten(vm) \/ vm' = RecordWritten(vm, slot, ZeroEntry)
    BY <1>13 DEF InitFresh, Format
  <2>3. vm'.map = {}
    BY <1>0, <2>1, <2>2 DEF MaskWritten, RecordWritten, VmContents
  <2>4. QED
    BY <2>1, <2>3 DEF Pending, OnKept, OffKept
<1>14. CASE InitUpdate \/ InitWoken
  <2>1. /\ pc = "off" /\ pc' \in {"arm", "ready"} /\ wr = "none"
        /\ alarm_tab' = RestoredTab(vm) /\ map_sw' = RestoredSw(vm)
        /\ UNCHANGED <<wr, vm, promise>>
    BY <1>14 DEF InitUpdate, InitWoken, StateInv, Plan
  <2>2. \A i \in Slots : /\ i \in map_sw' <=> i \in vm.map /\ vm.rec[i].alarm.sw # 0
                         /\ alarm_tab'[i] = IF i \in vm.map THEN vm.rec[i].alarm
                                                           ELSE ZeroEntry
    BY <2>1 DEF RestoredTab, RestoredSw, StateInv, Nest, MappedHasRecord
  <2>3. Pending'
    BY <2>1 DEF Pending
  <2>4. OnKept'
    BY <2>1, <2>2 DEF OnKept
  <2>5. OffKept'
    BY <2>1, <2>2 DEF OffKept, ZeroEntry
  <2>6. QED
    BY <2>3, <2>4, <2>5
<1>15. \A d \in DayInputs, m \in Minutes : [day |-> d, min |-> m] \in Times
  BY InputAssumption DEF Times
<1>16. QED
  BY <1>2, <1>3, <1>4, <1>5, <1>6, <1>7, <1>8, <1>9, <1>10, <1>11, <1>12, <1>13,
     <1>14, <1>15 DEF Next, Callers, Handler

(* Loss of power anywhere in a handler, or none: an alarm reported as set is *)
(* enabled as it was set now and after the next start, and one deleted,     *)
(* closed or rung for its only time is not (alarm_api.c:273-282, 803-860).  *)
THEOREM PromisesKept == ASSUME Writes PROVE Spec => []PromiseKept
<1> DEFINE Inv == TypeOK /\ StateInv /\ PromiseInv
<1>1. Init => Inv
  BY InitType, InitState, InitPromise
<1>2. Inv /\ [Next]_vars => Inv'
  BY StepType, StepState, StepPromise
<1>3. Inv => PromiseKept
  <2> SUFFICES ASSUME Inv, NEW i \in Slots
               PROVE  /\ promise[i].st = "on" =>
                           /\ i \in RestoredSw(vm) /\ RestoredTab(vm)[i] = promise[i].alarm
                           /\ pc \notin {"off", "format"} =>
                                i \in map_sw /\ alarm_tab[i] = promise[i].alarm
                      /\ promise[i].st = "off" => i \notin RestoredSw(vm) /\ i \notin map_sw
    BY DEF PromiseKept
  <2>1. /\ i \in RestoredSw(vm) <=> i \in vm.map /\ vm.rec[i].alarm.sw # 0
        /\ i \in vm.map => RestoredTab(vm)[i] = vm.rec[i].alarm
    BY DEF RestoredSw, RestoredTab, StateInv, Nest, MappedHasRecord
  <2>2. QED
    BY <2>1 DEF PromiseInv, OnKept, OffKept
<1>4. QED
  BY <1>1, <1>2, <1>3, PTL DEF Spec
=============================================================================
