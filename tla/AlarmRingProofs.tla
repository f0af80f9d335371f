--------------------------- MODULE AlarmRingProofs ---------------------------
(***************************************************************************)
(* Theorems about AlarmRing, for every set of circumstances, queue length   *)
(* and number of alarms that come before the last one has ended.           *)
(***************************************************************************)
EXTENDS AlarmRing, FiniteSetTheorems, SequenceTheorems, TLAPS

-----------------------------------------------------------------------------
(* Events in the queue.                                                     *)
Kinds == {"alm", "low", "poweroff", "bt"}
Queue == Seq(Kinds)
Has(s, e) == \E i \in DOMAIN s : s[i] = e
Alms(s) == {i \in DOMAIN s : s[i] = "alm"}
Count(s) == Cardinality(Alms(s))
One(b) == IF b THEN 1 ELSE 0

LEMMA CountType ==
  ASSUME NEW s \in Queue
  PROVE  /\ IsFiniteSet(Alms(s)) /\ Count(s) \in Nat /\ Count(s) <= Len(s)
         /\ Count(s) = 0 <=> ~ Has(s, "alm")
<1>1. Alms(s) \in SUBSET (1..Len(s)) /\ Len(s) \in Nat
  BY DEF Alms, Queue
<1> DEFINE n == Len(s)
<1>2. IsFiniteSet(1..Len(s)) /\ Cardinality(1..Len(s)) = Len(s)
  <2> HIDE DEF n
  <2>1. n \in Nat
    BY <1>1 DEF n
  <2>2. IsFiniteSet(1..n) /\ Cardinality(1..n) = n
    BY <2>1, FS_Interval
  <2> QED BY <2>2 DEF n
<1>3. IsFiniteSet(Alms(s)) /\ Count(s) \in Nat /\ Count(s) <= Len(s)
  BY <1>1, <1>2, FS_Subset, FS_CardinalityType DEF Count
<1>4. Count(s) = 0 <=> Alms(s) = {}
  BY <1>3, FS_EmptySet DEF Count
<1> QED BY <1>3, <1>4 DEF Alms, Has

LEMMA NoEvent == << >> \in Queue /\ Count(<< >>) = 0 /\ \A e : ~ Has(<< >>, e)
<1>1. << >> \in Queue /\ \A e : ~ Has(<< >>, e)
  BY DEF Queue, Has
<1> QED BY <1>1, CountType

LEMMA Posted ==
  ASSUME NEW s \in Queue, NEW e \in Kinds
  PROVE  /\ Append(s, e) \in Queue /\ Len(Append(s, e)) = Len(s) + 1
         /\ Count(Append(s, e)) = Count(s) + One(e = "alm")
         /\ \A k : Has(Append(s, e), k) <=> Has(s, k) \/ k = e
<1> DEFINE n == Len(s) + 1
<1>1. /\ Append(s, e) \in Queue /\ Len(Append(s, e)) = n /\ DOMAIN Append(s, e) = 1..n
      /\ DOMAIN s = 1..Len(s) /\ Len(s) \in Nat
      /\ Append(s, e)[n] = e /\ \A i \in 1..Len(s) : Append(s, e)[i] = s[i]
  BY AppendProperties DEF Queue
<1>2. \A k : Has(Append(s, e), k) <=> Has(s, k) \/ k = e
  BY <1>1 DEF Has
<1>3. n \notin Alms(s)
  BY <1>1 DEF Alms
<1>4. Alms(Append(s, e)) = IF e = "alm" THEN Alms(s) \union {n} ELSE Alms(s)
  BY <1>1 DEF Alms
<1>5. IsFiniteSet(Alms(s)) /\ Count(s) \in Nat
  BY CountType
<1> HIDE DEF n
<1>6. Cardinality(Alms(s) \union {n}) = Count(s) + 1
  BY <1>3, <1>5, FS_AddElement DEF Count
<1> QED BY <1>1, <1>2, <1>4, <1>5, <1>6 DEF Count, One, n

LEMMA Taken ==
  ASSUME NEW s \in Queue, s # << >>
  PROVE  /\ Tail(s) \in Queue /\ Len(Tail(s)) = Len(s) - 1 /\ Head(s) \in Kinds
         /\ Count(Tail(s)) + One(Head(s) = "alm") <= Count(s)
         /\ \A k : Has(Tail(s), k) => Has(s, k)
         /\ \A k : Has(s, k) => Has(Tail(s), k) \/ Head(s) = k
<1> DEFINE later == Alms(s) \ {1}
           shift == [j \in later |-> j - 1]
<1>1. /\ Tail(s) \in Queue /\ Len(Tail(s)) = Len(s) - 1 /\ Head(s) \in Kinds
      /\ Head(s) = s[1] /\ Len(s) \in Nat \ {0}
      /\ DOMAIN s = 1..Len(s) /\ DOMAIN Tail(s) = 1..(Len(s) - 1)
      /\ \A i \in 1..(Len(s) - 1) : Tail(s)[i] = s[i + 1]
  BY HeadTailProperties, EmptySeq, ElementOfSeq DEF Queue
<1>2. \A k : Has(Tail(s), k) => Has(s, k)
  BY <1>1 DEF Has
<1>3. ASSUME NEW k, Has(s, k), Head(s) # k PROVE Has(Tail(s), k)
  <2>1. PICK i \in 1..Len(s) : s[i] = k
    BY <1>1, <1>3 DEF Has
  <2>2. i - 1 \in 1..(Len(s) - 1) /\ Tail(s)[i - 1] = k
    BY <1>1, <1>3, <2>1
  <2> QED BY <1>1, <2>2 DEF Has
<1>4. \A j \in later : j - 1 \in Alms(Tail(s))
  BY <1>1 DEF Alms
<1>5. \A i \in Alms(Tail(s)) : i + 1 \in later /\ (i + 1) - 1 = i
  BY <1>1 DEF Alms
<1>6. shift \in Surjection(later, Alms(Tail(s)))
  BY <1>4, <1>5 DEF Surjection
<1>7. /\ IsFiniteSet(Alms(s)) /\ Count(s) \in Nat
      /\ IsFiniteSet(Alms(Tail(s))) /\ Count(Tail(s)) \in Nat
  BY <1>1, CountType
<1>8. IsFiniteSet(later) /\ Cardinality(later) = Count(s) - One(1 \in Alms(s))
  <2>1. /\ IsFiniteSet(Alms(s) \ {1})
        /\ Cardinality(Alms(s) \ {1}) = IF 1 \in Alms(s) THEN Count(s) - 1 ELSE Count(s)
    BY <1>7, FS_RemoveElement DEF Count
  <2> QED BY <1>7, <2>1 DEF One
<1>9. Head(s) = "alm" <=> 1 \in Alms(s)
  BY <1>1 DEF Alms
<1> HIDE DEF later, shift
<1>10. Count(Tail(s)) <= Cardinality(later)
  BY <1>6, <1>8, FS_Surjection DEF Count
<1> QED BY <1>1, <1>2, <1>3, <1>7, <1>8, <1>9, <1>10 DEF One

(* What stopping the tone, and the end of the ring, add to the queue.       *)
LEMMA EndedPosts ==
  ASSUME NEW s \in Queue, NEW t
  PROVE  /\ Ended(s, t) \in Queue /\ Count(Ended(s, t)) = Count(s)
         /\ Has(Ended(s, t), "alm") <=> Has(s, "alm")
         /\ Has(Ended(s, t), "poweroff") => Has(s, "poweroff") \/ t = "poweroff"
<1>1. Count(s) \in Nat
  BY CountType
<1>2. CASE t \in {"poweroff", "bt"}
  <2>1. t \in Kinds /\ Ended(s, t) = Append(s, t) /\ t # "alm"
    BY <1>2 DEF Ended, Kinds
  <2> QED BY <1>1, <2>1, Posted DEF One
<1>3. CASE t \notin {"poweroff", "bt"}
  BY <1>3 DEF Ended
<1> QED BY <1>2, <1>3

LEMMA StoppedPosts ==
  ASSUME events \in Queue
  PROVE  /\ Stopped \in Queue /\ Count(Stopped) = Count(events)
         /\ Has(Stopped, "alm") <=> Has(events, "alm")
         /\ Has(Stopped, "poweroff") => Has(events, "poweroff") \/ tone = "poweroff"
BY EndedPosts DEF Stopped

(* A change of task adds the end of a prompt at most, and empties the queue *)
(* for the power-off task.                                                  *)
LEMMA SwitchPosts ==
  ASSUME events \in Queue, SwitchTask
  PROVE  /\ events' \in Queue /\ Count(events') \in Nat /\ Count(events') <= Count(events)
         /\ Has(events', "alm") => Has(events, "alm")
         /\ Has(events', "poweroff") => Has(events, "poweroff") \/ tone = "poweroff"
         /\ next # "poweroff" => (Has(events, "alm") => Has(events', "alm"))
<1>1. Count(events) \in Nat
  BY CountType
<1>2. ASSUME NEW s \in Queue, Count(s) \in Nat, Count(s) <= Count(events),
             Has(s, "alm") => Has(events, "alm"),
             Has(s, "poweroff") => Has(events, "poweroff") \/ tone = "poweroff",
             NEW t \in {None, tone}
      PROVE  /\ Ended(s, t) \in Queue /\ Count(Ended(s, t)) \in Nat
             /\ Count(Ended(s, t)) <= Count(events)
             /\ Has(Ended(s, t), "alm") <=> Has(s, "alm")
             /\ Has(Ended(s, t), "poweroff") => Has(events, "poweroff") \/ tone = "poweroff"
  BY <1>2, EndedPosts DEF None
<1>3. PICK s \in {<< >>, events, Stopped}, t \in {None, tone} :
        /\ events' \in {s, Ended(s, t)} /\ (next # "poweroff" => s \in {events, Stopped})
  <2> DEFINE closes == task = "bt" /\ stack = "open"
             powersOff == next = "poweroff" /\ goto_poweroff
             silent == task = "poweron" \/ closes
             t == IF silent THEN None ELSE tone
             s == IF powersOff THEN << >> ELSE IF silent THEN Stopped ELSE events
  <2>1. events' \in {s, Ended(s, t)}
    BY DEF SwitchTask
  <2>2. s \in {<< >>, events, Stopped} /\ t \in {None, tone}
    OBVIOUS
  <2>3. next # "poweroff" => s \in {events, Stopped}
    OBVIOUS
  <2> QED BY <2>1, <2>2, <2>3
<1>4. /\ s \in Queue /\ Count(s) \in Nat /\ Count(s) <= Count(events)
      /\ Has(s, "alm") => Has(events, "alm")
      /\ Has(s, "poweroff") => Has(events, "poweroff") \/ tone = "poweroff"
      /\ next # "poweroff" => (Has(events, "alm") => Has(s, "alm"))
  <2>1. CASE s = events
    BY <1>1, <2>1
  <2>2. CASE s = Stopped
    BY <1>1, <2>2, StoppedPosts
  <2>3. CASE s \notin {events, Stopped}
    BY <1>1, <1>3, <2>3, NoEvent
  <2> QED BY <2>1, <2>2, <2>3
<1> QED BY <1>2, <1>3, <1>4

Low(s, b) == s \o (IF b THEN <<"low">> ELSE << >>)

LEMMA LowAdded ==
  ASSUME NEW s \in Queue, NEW b
  PROVE  /\ Low(s, b) \in Queue /\ Len(Low(s, b)) <= Len(s) + 1 /\ Count(Low(s, b)) = Count(s)
         /\ \A k \in {"alm", "poweroff"} : Has(Low(s, b), k) <=> Has(s, k)
<1>1. "low" \in Kinds /\ Count(s) \in Nat /\ Len(s) \in Nat
  BY CountType, LenProperties DEF Kinds, Queue
<1>2. CASE b
  <2>1. Low(s, b) = Append(s, "low")
    BY <1>2 DEF Queue, Low
  <2> QED BY <1>1, <2>1, Posted DEF One
<1>3. CASE ~ b
  <2>1. Low(s, b) = s
    BY <1>3, ConcatEmptySeq DEF Queue, Low
  <2> QED BY <1>1, <2>1
<1> QED BY <1>2, <1>3

LEMMA StopPosts ==
  ASSUME events \in Queue, CanStop, NEW o, alarm_stop(o)
  PROVE  /\ events' \in Queue /\ Len(events') <= MaxEvents /\ Count(events') = Count(events)
         /\ Has(events', "alm") <=> Has(events, "alm")
         /\ Has(events', "poweroff") => Has(events, "poweroff") \/ tone = "poweroff"
<1> DEFINE s == Low(Stopped, alarm_power_on)
           t == Low(s, idle_powerlow)
<1>1. Stopped \in Queue
  BY StoppedPosts
<1>2. /\ s \in Queue /\ Len(s) <= Len(Stopped) + 1 /\ Count(s) = Count(Stopped)
      /\ \A k \in {"alm", "poweroff"} : Has(s, k) <=> Has(Stopped, k)
  BY <1>1, LowAdded
<1>3. /\ t \in Queue /\ Len(t) <= Len(s) + 1 /\ Count(t) = Count(s)
      /\ \A k \in {"alm", "poweroff"} : Has(t, k) <=> Has(s, k)
  <2> HIDE DEF s
  <2> QED BY <1>2, LowAdded
<1>4. events' = t
  BY DEF alarm_stop, Low
<1>5. Len(Stopped) \in Nat /\ Len(s) \in Nat /\ Len(t) \in Nat
  <2> HIDE DEF s, t
  <2> QED BY <1>1, <1>2, <1>3, LenProperties DEF Queue
<1> HIDE DEF s, t
<1>6. Len(t) <= Len(Stopped) + 2
  BY <1>2, <1>3, <1>5
<1>7. Len(t) <= MaxEvents
  BY <1>5, <1>6, BoundAssumption DEF CanStop
<1> QED BY <1>2, <1>3, <1>4, <1>7, StoppedPosts

-----------------------------------------------------------------------------
(* The values that are not switches.                                        *)
Values ==
  /\ task \in Tasks /\ next \in Tasks \union {None}
  /\ number \in 0..2 /\ ringing \subseteq AlarmSlots /\ snooze \subseteq {2, 3}
  /\ tone \in {"poweron", "bt", "poweroff", "goodbye", None, "alarm"}

(* The task that is asked for comes next, or the one that was asked before. *)
LEMMA Asked == ASSUME NEW t, app_task_switch_to(t) PROVE next' \in {next, t}
BY DEF app_task_switch_to, switching

LEMMA StepValues == ASSUME Values, [Next]_vars PROVE Values'
<1> USE DEF Values, power, switching, ring, flags, phone, bt, wakeup
<1>1. CASE alm_wakeup_isr \/ to_set_alm \/ alarm_check
  <2>1. next' \in {next, "poweron"} /\ UNCHANGED <<task, number, ringing, snooze, tone>>
    BY <1>1, Asked DEF alm_wakeup_isr, to_set_alm, alarm_check
  <2> QED BY <2>1 DEF Tasks
<1>2. CASE AlarmEvent
  <2>1. /\ ringing' \subseteq AlarmSlots /\ snooze' \subseteq {2, 3} /\ number' \in 0..2
    <3>1. CASE task = "poweroff"
      BY <1>2, <3>1 DEF AlarmEvent
    <3>2. CASE task # "poweroff"
      <4>1. PICK A \in SUBSET ({0, 1} \union snooze) :
              ringing' = A /\ number' = AlarmNumber(A) /\ snooze' = snooze \ A
        BY <1>2, <3>2 DEF AlarmEvent
      <4> QED BY <4>1 DEF AlarmNumber, AlarmSlots
    <3> QED BY <3>1, <3>2
  <2>2. tone' \in {tone, "alarm"} /\ UNCHANGED <<task, next>>
    BY <1>2 DEF AlarmEvent, alarm_ring_start
  <2> QED BY <2>1, <2>2
<1>3. CASE ring_play_timeout \/ AnyKeyLowIdle
  BY <1>3 DEF ring_play_timeout, AnyKeyLowIdle
<1>4. ASSUME NEW o, alarm_stop(o), UNCHANGED <<task, next>>,
             \E slot \in {2, 3} : snooze' \subseteq snooze \union {slot}
      PROVE  Values'
  <2>1. tone' = None /\ number' = 0 /\ ringing' = {} /\ snooze' \subseteq {2, 3}
    BY <1>4 DEF alarm_stop
  <2> QED BY <1>4, <2>1
<1>5. CASE ring_stop_timeout
  <2>1. UNCHANGED <<task, next, snooze>> /\ \E o : alarm_stop(o)
    BY <1>5 DEF ring_stop_timeout
  <2> QED BY <1>4, <2>1
<1>6. CASE KEY_TO_ALARM_SLEEP \/ KEY_TO_ALARM_UNSLEEP
  <2>1. UNCHANGED <<task, next>> /\ alarm_stop(orphans) /\ snooze' \subseteq snooze \union {SnoozeSlot}
    BY <1>6 DEF KEY_TO_ALARM_SLEEP, KEY_TO_ALARM_UNSLEEP
  <2>2. SnoozeSlot \in {2, 3}
    BY DEF SnoozeSlot, SnoozeOf
  <2> QED BY <1>4, <2>1, <2>2
<1>7. ASSUME NEW n \in 1..2, AppAlarmDel(n) PROVE Values'
  <2>1. UNCHANGED <<task, next>> /\ alarm_stop(orphans) /\ snooze' \subseteq snooze
    BY <1>7 DEF AppAlarmDel
  <2> QED BY <1>4, <2>1
<1>8. ASSUME NEW t \in {"poweron", "bt", "music"}, ModeKey(t) PROVE Values'
  <2>1. next' \in {next, t} /\ UNCHANGED <<task, number, ringing, snooze, tone>>
    BY <1>8, Asked DEF ModeKey
  <2> QED BY <2>1 DEF Tasks
<1>9. CASE PowerOffKey \/ PowerOnKey
  BY <1>9 DEF PowerOffKey, PowerOnKey, Tasks
<1>10. CASE SwitchTask
  <2>1. /\ next # None /\ task' = next /\ next' = None /\ UNCHANGED <<number, ringing, snooze>>
    BY <1>10 DEF SwitchTask
  <2>2. tone' \in {None, tone, "goodbye", "poweron", "bt"}
    BY <1>10 DEF SwitchTask
  <2> QED BY <2>1, <2>2
<1>11. CASE wait_dev_online \/ bule_no_connect_to_rtc \/ wait_exit_btstack_flag
  <2>1. next' \in {next, "music", "bt", "poweron", "poweroff"}
    BY <1>11, Asked DEF wait_dev_online, bule_no_connect_to_rtc, wait_exit_btstack_flag
  <2>2. UNCHANGED <<task, number, ringing, snooze, tone>>
    BY <1>11 DEF wait_dev_online, bule_no_connect_to_rtc, wait_exit_btstack_flag
  <2> QED BY <2>1, <2>2 DEF Tasks
<1>12. CASE PromptEnds \/ BtToneStopped
  BY <1>12 DEF PromptEnds, BtToneStopped
<1>13. CASE PowerOffToneEnds \/ PowerOffToneStopped
  <2>1. next' \in {next, "idle"}
    BY <1>13, Asked DEF PowerOffToneEnds, PowerOffToneStopped, GoIdle, GoesIdle
  <2>2. tone' \in {tone, None} /\ UNCHANGED <<task, number, ringing, snooze>>
    BY <1>13 DEF PowerOffToneEnds, PowerOffToneStopped, GoIdle
  <2> QED BY <2>1, <2>2 DEF Tasks
<1>14. CASE PhoneConnects \/ CallBegins \/ CallEnds \/ idle_vbat_check \/ vbat_check
  <2>1. UNCHANGED <<task, next, number, ringing, snooze, tone>>
    BY <1>14 DEF PhoneConnects, CallBegins, CallEnds, idle_vbat_check, vbat_check
  <2> QED BY <2>1
<1>15. CASE PowerLowEvent \/ esco_check_state
  <2>1. next' \in {next, "bt"} /\ UNCHANGED <<task, number, ringing, snooze, tone>>
    BY <1>15 DEF PowerLowEvent, esco_check_state, sys_enter_soft_poweroff
  <2> QED BY <2>1 DEF Tasks
<1>16. CASE poweroff_done \/ idle_vbat_empty
  <2>1. task' = "down" /\ next' = None /\ number' = 0 /\ ringing' = {} /\ tone' = None
    BY <1>16 DEF poweroff_done, idle_vbat_empty, SoftPowerOff
  <2>2. snooze' = snooze
    BY <1>16 DEF poweroff_done, idle_vbat_empty, SoftPowerOff
  <2> QED BY <2>1, <2>2 DEF Tasks
<1>17. CASE PowerOn \/ UNCHANGED vars
  BY <1>17 DEF PowerOn, vars, Tasks
<1> QED
  BY <1>1, <1>2, <1>3, <1>5, <1>6, <1>7, <1>8, <1>9, <1>10, <1>11, <1>12, <1>13, <1>14,
     <1>15, <1>16, <1>17 DEF Next

(* The switches, a few at a time.                                           *)
PowerSwitches == keys \in BOOLEAN /\ first \in BOOLEAN /\ wait \in BOOLEAN /\ user_poweroff \in BOOLEAN
PhoneSwitches == linked \in BOOLEAN /\ call \in BOOLEAN /\ vbat_ok \in BOOLEAN /\ auto \in BOOLEAN /\ stack \in Stacks
TaskSwitches == back \in BOOLEAN /\ goto_poweroff \in BOOLEAN /\ force \in BOOLEAN /\ esco \in BOOLEAN
AlarmSwitches == active \in BOOLEAN /\ alarm_power_on \in BOOLEAN /\ idle_powerlow \in BOOLEAN /\ tone_end \in BOOLEAN
RingSwitches == check \in BOOLEAN /\ retry \in BOOLEAN /\ stop \in BOOLEAN /\ exiting \in BOOLEAN

LEMMA StepPowerSwitches == ASSUME PowerSwitches, [Next]_vars PROVE PowerSwitches'
<1> USE DEF PowerSwitches, power, switching, ring, flags, phone, bt, wakeup
<1>1. CASE alm_wakeup_isr \/ to_set_alm \/ alarm_check
  BY <1>1 DEF alm_wakeup_isr, to_set_alm, alarm_check
<1>2. CASE AlarmEvent
  BY <1>2 DEF AlarmEvent, alarm_ring_start
<1>3. CASE ring_play_timeout \/ AnyKeyLowIdle
  BY <1>3 DEF ring_play_timeout, AnyKeyLowIdle
<1>4. CASE ring_stop_timeout \/ KEY_TO_ALARM_SLEEP \/ KEY_TO_ALARM_UNSLEEP
  BY <1>4 DEF ring_stop_timeout, KEY_TO_ALARM_SLEEP, KEY_TO_ALARM_UNSLEEP, alarm_stop
<1>5. ASSUME NEW n \in 1..2, AppAlarmDel(n) PROVE PowerSwitches'
  BY <1>5 DEF AppAlarmDel, alarm_stop
<1>6. ASSUME NEW t \in {"poweron", "bt", "music"}, ModeKey(t) PROVE PowerSwitches'
  BY <1>6 DEF ModeKey
<1>7. CASE PowerOffKey \/ PowerOnKey
  BY <1>7 DEF PowerOffKey, PowerOnKey
<1>8. CASE SwitchTask
  BY <1>8 DEF SwitchTask
<1>9. CASE wait_dev_online \/ bule_no_connect_to_rtc
  BY <1>9 DEF wait_dev_online, bule_no_connect_to_rtc
<1>10. CASE PromptEnds \/ BtToneStopped
  BY <1>10 DEF PromptEnds, BtToneStopped
<1>11. CASE PowerOffToneEnds \/ PowerOffToneStopped
  BY <1>11 DEF PowerOffToneEnds, PowerOffToneStopped, GoIdle
<1>12. CASE PhoneConnects \/ CallBegins \/ CallEnds
  BY <1>12 DEF PhoneConnects, CallBegins, CallEnds
<1>13. CASE idle_vbat_check \/ vbat_check
  BY <1>13 DEF idle_vbat_check, vbat_check
<1>14. CASE PowerLowEvent \/ esco_check_state
  BY <1>14 DEF PowerLowEvent, esco_check_state
<1>15. CASE wait_exit_btstack_flag
  BY <1>15 DEF wait_exit_btstack_flag
<1>16. CASE poweroff_done \/ idle_vbat_empty \/ PowerOn
  BY <1>16 DEF poweroff_done, idle_vbat_empty, PowerOn, SoftPowerOff
<1>17. CASE UNCHANGED vars
  BY <1>17 DEF vars
<1> QED
  BY <1>1, <1>2, <1>3, <1>4, <1>5, <1>6, <1>7, <1>8, <1>9, <1>10, <1>11, <1>12, <1>13,
     <1>14, <1>15, <1>16, <1>17 DEF Next

LEMMA StepPhoneSwitches == ASSUME PhoneSwitches, [Next]_vars PROVE PhoneSwitches'
<1> USE DEF PhoneSwitches, Stacks, power, switching, ring, flags, phone, bt, wakeup
<1>1. CASE alm_wakeup_isr \/ to_set_alm \/ alarm_check
  BY <1>1 DEF alm_wakeup_isr, to_set_alm, alarm_check
<1>2. CASE AlarmEvent
  BY <1>2 DEF AlarmEvent, alarm_ring_start
<1>3. CASE ring_play_timeout \/ AnyKeyLowIdle
  BY <1>3 DEF ring_play_timeout, AnyKeyLowIdle
<1>4. CASE ring_stop_timeout \/ KEY_TO_ALARM_SLEEP \/ KEY_TO_ALARM_UNSLEEP
  BY <1>4 DEF ring_stop_timeout, KEY_TO_ALARM_SLEEP, KEY_TO_ALARM_UNSLEEP, alarm_stop
<1>5. ASSUME NEW n \in 1..2, AppAlarmDel(n) PROVE PhoneSwitches'
  BY <1>5 DEF AppAlarmDel, alarm_stop
<1>6. ASSUME NEW t \in {"poweron", "bt", "music"}, ModeKey(t) PROVE PhoneSwitches'
  BY <1>6 DEF ModeKey
<1>7. CASE PowerOffKey \/ PowerOnKey
  BY <1>7 DEF PowerOffKey, PowerOnKey
<1>8. CASE SwitchTask
  BY <1>8 DEF SwitchTask, bt_task_start
<1>9. CASE wait_dev_online \/ bule_no_connect_to_rtc
  BY <1>9 DEF wait_dev_online, bule_no_connect_to_rtc
<1>10. CASE PromptEnds \/ BtToneStopped
  BY <1>10 DEF PromptEnds, BtToneStopped, bt_tone_play_end_callback, bt_task_start
<1>11. CASE PowerOffToneEnds \/ PowerOffToneStopped
  BY <1>11 DEF PowerOffToneEnds, PowerOffToneStopped, GoIdle
<1>12. CASE PhoneConnects \/ CallBegins \/ CallEnds
  BY <1>12 DEF PhoneConnects, CallBegins, CallEnds
<1>13. CASE idle_vbat_check \/ vbat_check
  BY <1>13 DEF idle_vbat_check, vbat_check
<1>14. CASE PowerLowEvent \/ esco_check_state
  BY <1>14 DEF PowerLowEvent, esco_check_state
<1>15. CASE wait_exit_btstack_flag
  BY <1>15 DEF wait_exit_btstack_flag
<1>16. CASE poweroff_done \/ idle_vbat_empty \/ PowerOn
  BY <1>16 DEF poweroff_done, idle_vbat_empty, PowerOn, SoftPowerOff
<1>17. CASE UNCHANGED vars
  BY <1>17 DEF vars
<1> QED
  BY <1>1, <1>2, <1>3, <1>4, <1>5, <1>6, <1>7, <1>8, <1>9, <1>10, <1>11, <1>12, <1>13,
     <1>14, <1>15, <1>16, <1>17 DEF Next

LEMMA StepTaskSwitches == ASSUME PhoneSwitches, TaskSwitches, [Next]_vars PROVE TaskSwitches'
<1> USE DEF PhoneSwitches, TaskSwitches, TriedAgain, power, switching, ring, flags, phone, bt, wakeup
<1>1. CASE alm_wakeup_isr \/ to_set_alm \/ alarm_check
  BY <1>1 DEF alm_wakeup_isr, to_set_alm, alarm_check, app_task_switch_to
<1>2. CASE AlarmEvent
  BY <1>2 DEF AlarmEvent, alarm_ring_start
<1>3. CASE ring_play_timeout \/ AnyKeyLowIdle
  BY <1>3 DEF ring_play_timeout, AnyKeyLowIdle
<1>4. CASE ring_stop_timeout \/ KEY_TO_ALARM_SLEEP \/ KEY_TO_ALARM_UNSLEEP
  BY <1>4 DEF ring_stop_timeout, KEY_TO_ALARM_SLEEP, KEY_TO_ALARM_UNSLEEP, alarm_stop
<1>5. ASSUME NEW n \in 1..2, AppAlarmDel(n) PROVE TaskSwitches'
  BY <1>5 DEF AppAlarmDel, alarm_stop
<1>6. ASSUME NEW t \in {"poweron", "bt", "music"}, ModeKey(t) PROVE TaskSwitches'
  BY <1>6 DEF ModeKey, app_task_switch_to
<1>7. CASE PowerOffKey \/ PowerOnKey
  BY <1>7 DEF PowerOffKey, PowerOnKey
<1>8. CASE SwitchTask
  BY <1>8 DEF SwitchTask, bt_task_start
<1>9. CASE wait_dev_online \/ bule_no_connect_to_rtc
  BY <1>9 DEF wait_dev_online, bule_no_connect_to_rtc, app_task_switch_to
<1>10. CASE PromptEnds \/ BtToneStopped
  BY <1>10 DEF PromptEnds, BtToneStopped, bt_tone_play_end_callback, bt_task_start
<1>11. CASE PowerOffToneEnds \/ PowerOffToneStopped
  BY <1>11 DEF PowerOffToneEnds, PowerOffToneStopped, GoIdle, GoesIdle, app_task_switch_to
<1>12. CASE PhoneConnects \/ CallBegins \/ CallEnds
  BY <1>12 DEF PhoneConnects, CallBegins, CallEnds
<1>13. CASE idle_vbat_check \/ vbat_check
  BY <1>13 DEF idle_vbat_check, vbat_check
<1>14. CASE PowerLowEvent \/ esco_check_state
  BY <1>14 DEF PowerLowEvent, esco_check_state, sys_enter_soft_poweroff
<1>15. CASE wait_exit_btstack_flag
  BY <1>15 DEF wait_exit_btstack_flag, app_task_switch_to
<1>16. CASE poweroff_done \/ idle_vbat_empty \/ PowerOn
  BY <1>16 DEF poweroff_done, idle_vbat_empty, PowerOn, SoftPowerOff
<1>17. CASE UNCHANGED vars
  BY <1>17 DEF vars
<1> QED
  BY <1>1, <1>2, <1>3, <1>4, <1>5, <1>6, <1>7, <1>8, <1>9, <1>10, <1>11, <1>12, <1>13,
     <1>14, <1>15, <1>16, <1>17 DEF Next

LEMMA StepAlarmSwitches == ASSUME AlarmSwitches, [Next]_vars PROVE AlarmSwitches'
<1> USE DEF AlarmSwitches, power, switching, ring, flags, phone, bt, wakeup
<1>1. CASE alm_wakeup_isr \/ to_set_alm \/ alarm_check
  BY <1>1 DEF alm_wakeup_isr, to_set_alm, alarm_check
<1>2. CASE AlarmEvent
  BY <1>2 DEF AlarmEvent, alarm_ring_start
<1>3. CASE ring_play_timeout \/ AnyKeyLowIdle
  BY <1>3 DEF ring_play_timeout, AnyKeyLowIdle
<1>4. CASE ring_stop_timeout \/ KEY_TO_ALARM_SLEEP \/ KEY_TO_ALARM_UNSLEEP
  BY <1>4 DEF ring_stop_timeout, KEY_TO_ALARM_SLEEP, KEY_TO_ALARM_UNSLEEP, alarm_stop
<1>5. ASSUME NEW n \in 1..2, AppAlarmDel(n) PROVE AlarmSwitches'
  BY <1>5 DEF AppAlarmDel, alarm_stop
<1>6. ASSUME NEW t \in {"poweron", "bt", "music"}, ModeKey(t) PROVE AlarmSwitches'
  BY <1>6 DEF ModeKey
<1>7. CASE PowerOffKey \/ PowerOnKey
  BY <1>7 DEF PowerOffKey, PowerOnKey
<1>8. CASE SwitchTask
  BY <1>8 DEF SwitchTask, power_on_init
<1>9. CASE wait_dev_online \/ bule_no_connect_to_rtc
  BY <1>9 DEF wait_dev_online, bule_no_connect_to_rtc, power_on_init
<1>10. CASE PromptEnds \/ BtToneStopped
  BY <1>10 DEF PromptEnds, BtToneStopped, power_on_init
<1>11. CASE PowerOffToneEnds \/ PowerOffToneStopped
  BY <1>11 DEF PowerOffToneEnds, PowerOffToneStopped, GoIdle
<1>12. CASE PhoneConnects \/ CallBegins \/ CallEnds
  BY <1>12 DEF PhoneConnects, CallBegins, CallEnds
<1>13. CASE idle_vbat_check \/ vbat_check
  BY <1>13 DEF idle_vbat_check, vbat_check
<1>14. CASE PowerLowEvent \/ esco_check_state
  BY <1>14 DEF PowerLowEvent, esco_check_state
<1>15. CASE wait_exit_btstack_flag
  BY <1>15 DEF wait_exit_btstack_flag
<1>16. CASE poweroff_done \/ idle_vbat_empty \/ PowerOn
  BY <1>16 DEF poweroff_done, idle_vbat_empty, PowerOn, SoftPowerOff
<1>17. CASE UNCHANGED vars
  BY <1>17 DEF vars
<1> QED
  BY <1>1, <1>2, <1>3, <1>4, <1>5, <1>6, <1>7, <1>8, <1>9, <1>10, <1>11, <1>12, <1>13,
     <1>14, <1>15, <1>16, <1>17 DEF Next

LEMMA StepRingSwitches == ASSUME RingSwitches, [Next]_vars PROVE RingSwitches'
<1> USE DEF RingSwitches, power, switching, ring, flags, phone, bt, wakeup
<1>1. CASE alm_wakeup_isr \/ to_set_alm \/ alarm_check
  BY <1>1 DEF alm_wakeup_isr, to_set_alm, alarm_check
<1>2. CASE AlarmEvent
  BY <1>2 DEF AlarmEvent, alarm_ring_start
<1>3. CASE ring_play_timeout \/ AnyKeyLowIdle
  BY <1>3 DEF ring_play_timeout, AnyKeyLowIdle
<1>4. CASE ring_stop_timeout \/ KEY_TO_ALARM_SLEEP \/ KEY_TO_ALARM_UNSLEEP
  BY <1>4 DEF ring_stop_timeout, KEY_TO_ALARM_SLEEP, KEY_TO_ALARM_UNSLEEP, alarm_stop
<1>5. ASSUME NEW n \in 1..2, AppAlarmDel(n) PROVE RingSwitches'
  BY <1>5 DEF AppAlarmDel, alarm_stop
<1>6. ASSUME NEW t \in {"poweron", "bt", "music"}, ModeKey(t) PROVE RingSwitches'
  BY <1>6 DEF ModeKey
<1>7. CASE PowerOffKey \/ PowerOnKey
  BY <1>7 DEF PowerOffKey, PowerOnKey
<1>8. CASE SwitchTask
  BY <1>8 DEF SwitchTask
<1>9. CASE wait_dev_online \/ bule_no_connect_to_rtc
  BY <1>9 DEF wait_dev_online, bule_no_connect_to_rtc
<1>10. CASE PromptEnds \/ BtToneStopped
  BY <1>10 DEF PromptEnds, BtToneStopped
<1>11. CASE PowerOffToneEnds \/ PowerOffToneStopped
  BY <1>11 DEF PowerOffToneEnds, PowerOffToneStopped, GoIdle
<1>12. CASE PhoneConnects \/ CallBegins \/ CallEnds
  BY <1>12 DEF PhoneConnects, CallBegins, CallEnds
<1>13. CASE idle_vbat_check \/ vbat_check
  BY <1>13 DEF idle_vbat_check, vbat_check
<1>14. CASE PowerLowEvent \/ esco_check_state
  BY <1>14 DEF PowerLowEvent, esco_check_state, sys_enter_soft_poweroff
<1>15. CASE wait_exit_btstack_flag
  BY <1>15 DEF wait_exit_btstack_flag
<1>16. CASE poweroff_done \/ idle_vbat_empty \/ PowerOn
  BY <1>16 DEF poweroff_done, idle_vbat_empty, PowerOn, SoftPowerOff
<1>17. CASE UNCHANGED vars
  BY <1>17 DEF vars
<1> QED
  BY <1>1, <1>2, <1>3, <1>4, <1>5, <1>6, <1>7, <1>8, <1>9, <1>10, <1>11, <1>12, <1>13,
     <1>14, <1>15, <1>16, <1>17 DEF Next

-----------------------------------------------------------------------------
(* In the soft power-off nothing waits and nothing is set.                  *)
Cleared ==
  /\ next = None /\ tone = None /\ events = << >> /\ polls = 0 /\ orphans = 0
  /\ ~ stop /\ ~ check /\ ~ retry /\ ~ auto /\ ~ back
  /\ ~ active /\ ~ alarm_power_on /\ ~ idle_powerlow /\ ~ tone_end
Asleep == next # "down" /\ (task = "down" => Cleared)

LEMMA StepAsleep == ASSUME Asleep, [Next]_vars PROVE Asleep'
<1> USE DEF Asleep, power, switching, ring, flags, phone, bt, wakeup, Up, Turn, None
<1>a. ASSUME Up, UNCHANGED task, next' = next \/ next' \in {"idle", "poweron", "bt", "music", "poweroff"}
      PROVE  Asleep'
  BY <1>a
<1>1. CASE alm_wakeup_isr
  BY <1>1, <1>a, Asked DEF alm_wakeup_isr
<1>2. CASE to_set_alm \/ alarm_check \/ AlarmEvent \/ ring_play_timeout
  BY <1>2, <1>a DEF to_set_alm, alarm_check, AlarmEvent, ring_play_timeout
<1>3. CASE ring_stop_timeout \/ AnyKeyLowIdle \/ KEY_TO_ALARM_SLEEP \/ KEY_TO_ALARM_UNSLEEP
  BY <1>3, <1>a DEF ring_stop_timeout, AnyKeyLowIdle, KEY_TO_ALARM_SLEEP, KEY_TO_ALARM_UNSLEEP, Pressed
<1>4. ASSUME NEW n \in 1..2, AppAlarmDel(n) PROVE Asleep'
  BY <1>4, <1>a DEF AppAlarmDel
<1>5. ASSUME NEW t \in {"poweron", "bt", "music"}, ModeKey(t) PROVE Asleep'
  BY <1>5, <1>a, Asked DEF ModeKey, Pressed
<1>6. CASE PowerOffKey \/ PowerOnKey
  BY <1>6, <1>a DEF PowerOffKey, PowerOnKey, Pressed
<1>7. CASE SwitchTask
  BY <1>7 DEF SwitchTask
<1>8. CASE wait_dev_online
  BY <1>8, <1>a, Asked DEF wait_dev_online
<1>9. CASE bule_no_connect_to_rtc \/ wait_exit_btstack_flag
  BY <1>9, <1>a, Asked DEF bule_no_connect_to_rtc, wait_exit_btstack_flag
<1>10. CASE PromptEnds \/ BtToneStopped \/ PhoneConnects \/ CallBegins \/ CallEnds
  BY <1>10, <1>a DEF PromptEnds, BtToneStopped, PhoneConnects, CallBegins, CallEnds
<1>11. CASE PowerOffToneEnds \/ PowerOffToneStopped
  BY <1>11, <1>a, Asked DEF PowerOffToneEnds, PowerOffToneStopped, GoIdle, GoesIdle
<1>12. CASE idle_vbat_check \/ vbat_check
  BY <1>12, <1>a DEF idle_vbat_check, vbat_check
<1>13. CASE PowerLowEvent \/ esco_check_state
  BY <1>13, <1>a DEF PowerLowEvent, esco_check_state, sys_enter_soft_poweroff
<1>14. CASE poweroff_done \/ idle_vbat_empty
  BY <1>14 DEF poweroff_done, idle_vbat_empty, SoftPowerOff, Cleared
<1>15. CASE PowerOn
  BY <1>15 DEF PowerOn, Cleared
<1>16. CASE UNCHANGED vars
  BY <1>16 DEF vars, Cleared
<1> QED
  BY <1>1, <1>2, <1>3, <1>4, <1>5, <1>6, <1>7, <1>8, <1>9, <1>10, <1>11, <1>12, <1>13, <1>14,
     <1>15, <1>16 DEF Next

-----------------------------------------------------------------------------
(* What waits.  The alarms that have not ended fit the bound; a stop timer  *)
(* that is left behind is one of them.                                      *)
Waits == events \in Queue /\ Len(events) <= MaxEvents /\ polls \in 0..MaxPolls /\ orphans \in Nat
Coming == polls + Count(events) + One(check)
Room == orphans + Coming + One(stop) <= MaxOrphans + 1
RingWaits == Waits /\ Room

LEMMA StepWaits == ASSUME RingWaits, Asleep, [Next]_vars PROVE RingWaits'
<1> USE DEF RingWaits, power, switching, ring, flags, phone, bt, wakeup
<1>a. /\ events \in Queue /\ Len(events) \in Nat /\ Len(events) <= MaxEvents /\ Count(events) \in Nat
      /\ polls \in Nat /\ polls <= MaxPolls /\ orphans \in Nat
      /\ One(check) \in Nat /\ One(stop) \in Nat
  BY CountType, LenProperties DEF Waits, Queue, One
<1>b. MaxEvents \in Nat /\ MaxPolls \in Nat /\ MaxOrphans \in Nat
  BY BoundAssumption
<1>c. orphans + polls + Count(events) + One(check) + One(stop) <= MaxOrphans + 1
  BY <1>a DEF Room, Coming
<1>d. ASSUME UNCHANGED <<events, polls, orphans, check, stop>> PROVE RingWaits'
  BY <1>d DEF Waits, Room, Coming
(* Nothing is added that could ring. *)
<1>e. ASSUME events' \in Queue, Len(events') <= MaxEvents, Count(events') <= Count(events),
             polls' = polls, orphans' \in Nat, orphans' <= orphans, check' = check,
             One(stop') <= One(stop)
      PROVE  RingWaits'
  <2>1. Count(events') \in Nat /\ One(stop') \in Nat /\ One(check') \in Nat
    BY <1>e, CountType DEF One
  <2>2. orphans' + (polls' + Count(events') + One(check')) + One(stop') <= MaxOrphans + 1
    <3> DEFINE o == orphans'  p == polls'  n == Count(events')  c == One(check')
               s == One(stop')  k == Count(events)  t == One(stop)
    <3>1. /\ o \in Nat /\ p \in Nat /\ n \in Nat /\ c \in Nat /\ s \in Nat /\ k \in Nat
          /\ t \in Nat /\ orphans \in Nat /\ MaxOrphans \in Nat
      BY <1>a, <1>b, <1>e, <2>1
    <3>2. o <= orphans /\ n <= k /\ s <= t
      BY <1>e
    <3>3. orphans + p + k + c + t <= MaxOrphans + 1
      BY <1>c, <1>e
    <3> HIDE DEF o, p, n, c, s, k, t
    <3>4. o + (p + n + c) + s <= MaxOrphans + 1
      BY <3>1, <3>2, <3>3
    <3> QED BY <3>4 DEF o, p, n, c, s
  <2> QED BY <1>a, <1>e, <2>2 DEF Waits, Room, Coming
<1>f. CanPost => Len(Append(events, "alm")) <= MaxEvents
  BY <1>a, <1>b, Posted DEF CanPost, Kinds
<1>g. Append(events, "alm") \in Queue /\ Count(Append(events, "alm")) = Count(events) + 1
  BY <1>a, Posted DEF Kinds, One
<1>1. CASE alm_wakeup_isr
  <2>1. /\ UNCHANGED <<orphans, check, stop>>
        /\ \/ polls' = polls + 1 /\ polls < MaxPolls /\ events' = events
           \/ polls' = polls /\ CanPost /\ events' = Append(events, "alm")
    BY <1>1 DEF alm_wakeup_isr
  <2>2. orphans + polls + Count(events) + One(check) + One(stop) <= MaxOrphans
    <3>1. orphans + polls + Len(events) + One(stop) + One(check) <= MaxOrphans
      BY <1>1 DEF alm_wakeup_isr, Rings, One
    <3>2. Count(events) <= Len(events)
      BY <1>a, CountType
    <3> DEFINE n == Count(events)  m == Len(events)  c == One(check)  s == One(stop)
    <3>3. n \in Nat /\ m \in Nat /\ c \in Nat /\ s \in Nat
      BY <1>a
    <3>4. orphans + polls + m + s + c <= MaxOrphans /\ n <= m
      BY <3>1, <3>2
    <3> HIDE DEF n, m, c, s
    <3>5. orphans + polls + n + c + s <= MaxOrphans
      BY <1>a, <1>b, <3>3, <3>4
    <3> QED BY <3>5 DEF n, c, s
  <2>3. CASE polls' = polls + 1 /\ polls < MaxPolls /\ events' = events
    <3>1. orphans' + (polls' + Count(events') + One(check')) + One(stop') <= MaxOrphans + 1
      BY <1>a, <1>b, <2>1, <2>2, <2>3
    <3> QED BY <1>a, <1>b, <2>1, <2>3, <3>1 DEF Waits, Room, Coming
  <2>4. CASE polls' = polls /\ CanPost /\ events' = Append(events, "alm")
    <3>1. orphans' + (polls' + Count(events') + One(check')) + One(stop') <= MaxOrphans + 1
      <4>1. orphans' = orphans /\ polls' = polls /\ One(check') = One(check)
            /\ One(stop') = One(stop)
        BY <2>1, <2>4
      <4>2. Count(events') = Count(events) + 1
        BY <1>g, <2>4
      <4> DEFINE n == Count(events)  c == One(check)  s == One(stop)
      <4>3. n \in Nat /\ c \in Nat /\ s \in Nat /\ orphans + polls + n + c + s <= MaxOrphans
        BY <1>a, <2>2
      <4> HIDE DEF n, c, s
      <4>4. orphans + (polls + (n + 1) + c) + s <= MaxOrphans + 1
        BY <1>a, <1>b, <4>3
      <4> QED BY <4>1, <4>2, <4>4 DEF n, c, s
    <3> QED BY <1>a, <1>f, <1>g, <2>1, <2>4, <3>1 DEF Waits, Room, Coming
  <2> QED BY <2>1, <2>3, <2>4
<1>2. CASE to_set_alm
  <2>1. /\ polls > 0 /\ CanPost /\ events' = Append(events, "alm") /\ polls' = polls - 1
        /\ UNCHANGED <<orphans, check, stop>>
    BY <1>2 DEF to_set_alm
  <2> QED BY <1>a, <1>b, <1>c, <1>f, <1>g, <2>1 DEF Waits, Room, Coming
<1>3. CASE alarm_check
  <2>1. /\ check /\ ~ check' /\ CanPost /\ events' = Append(events, "alm")
        /\ UNCHANGED <<orphans, polls, stop>>
    BY <1>3 DEF alarm_check
  <2> QED BY <1>a, <1>b, <1>c, <1>f, <1>g, <2>1 DEF Waits, Room, Coming, One
<1>4. CASE AlarmEvent
  <2>1. /\ events # << >> /\ Head(events) = "alm" /\ events' = Tail(events)
        /\ UNCHANGED <<polls, check>>
        /\ \/ UNCHANGED <<stop, orphans>>
           \/ stop' = TRUE /\ orphans' = IF stop THEN orphans + 1 ELSE orphans
    BY <1>4 DEF AlarmEvent, alarm_ring_start
  <2>2. /\ Tail(events) \in Queue /\ Count(Tail(events)) + 1 <= Count(events)
        /\ Len(Tail(events)) <= MaxEvents /\ Count(Tail(events)) \in Nat
    BY <1>a, <1>b, <2>1, Taken, CountType DEF One
  <2>3. CASE UNCHANGED <<stop, orphans>>
    BY <1>a, <1>e, <2>1, <2>2, <2>3
  <2>4. CASE stop' = TRUE /\ orphans' = IF stop THEN orphans + 1 ELSE orphans
    <3>1. orphans' \in Nat /\ orphans' + One(stop') = orphans + One(stop) + 1
      BY <1>a, <2>4 DEF One
    <3>2. orphans' + (polls' + Count(events') + One(check')) + One(stop') <= MaxOrphans + 1
      <4>1. One(stop') \in Nat /\ polls' = polls /\ One(check') = One(check)
        BY <2>1 DEF One
      <4>2. Count(events') + 1 <= Count(events) /\ Count(events') \in Nat
        BY <2>1, <2>2
      <4> DEFINE o == orphans'
                 st == One(stop')
                 c == Count(events')
                 st0 == One(stop)
                 c0 == Count(events)
                 k == One(check)
      <4>3. /\ o \in Nat /\ st \in Nat /\ c \in Nat /\ st0 \in Nat /\ c0 \in Nat /\ k \in Nat
            /\ o + st = orphans + st0 + 1 /\ c + 1 <= c0
            /\ orphans + polls + c0 + k + st0 <= MaxOrphans + 1
        BY <1>a, <1>c, <3>1, <4>1, <4>2
      <4>4. orphans' + (polls' + Count(events') + One(check')) + One(stop') = o + (polls + c + k) + st
        BY <4>1
      <4> HIDE DEF o, st, c, st0, c0, k
      <4>5. o + (polls + c + k) + st <= MaxOrphans + 1
        BY <1>a, <1>b, <4>3
      <4> QED BY <4>4, <4>5
    <3> QED BY <1>a, <2>1, <2>2, <3>1, <3>2 DEF Waits, Room, Coming
  <2> QED BY <2>1, <2>3, <2>4
<1>5. ASSUME NEW o \in Nat, o <= orphans, CanStop, alarm_stop(o), UNCHANGED wakeup
      PROVE  RingWaits'
  <2>1. stop' = FALSE /\ orphans' = o /\ UNCHANGED <<polls, check>>
    BY <1>5 DEF alarm_stop
  <2>2. One(stop') <= One(stop)
    BY <2>1 DEF One
  <2> QED BY <1>5, <1>a, <1>e, <2>1, <2>2, StopPosts
<1>6. CASE ring_stop_timeout
  <2>1. (IF orphans > 0 THEN orphans - 1 ELSE 0) \in Nat
        /\ (IF orphans > 0 THEN orphans - 1 ELSE 0) <= orphans
    BY <1>a
  <2> QED BY <1>5, <1>6, <2>1 DEF ring_stop_timeout
<1>7. CASE KEY_TO_ALARM_SLEEP \/ KEY_TO_ALARM_UNSLEEP
  BY <1>5, <1>7, <1>a DEF KEY_TO_ALARM_SLEEP, KEY_TO_ALARM_UNSLEEP
<1>8. ASSUME NEW n \in 1..2, AppAlarmDel(n) PROVE RingWaits'
  BY <1>5, <1>8, <1>a DEF AppAlarmDel
<1>9. CASE SwitchTask
  <2>1. Len(events') <= MaxEvents /\ UNCHANGED <<polls, orphans, check, stop>>
    BY <1>9 DEF SwitchTask
  <2>2. events' \in Queue /\ Count(events') <= Count(events)
    BY <1>9, <1>a, SwitchPosts
  <2> QED BY <1>a, <1>e, <2>1, <2>2
<1>10. CASE PowerOffToneStopped \/ PowerLowEvent \/ BtToneStopped
  <2>1. /\ events # << >> /\ events' = Tail(events)
        /\ UNCHANGED <<polls, orphans, check, stop>>
    BY <1>10 DEF PowerOffToneStopped, PowerLowEvent, BtToneStopped, GoIdle
  <2>2. /\ Tail(events) \in Queue /\ Count(Tail(events)) <= Count(events)
        /\ Len(Tail(events)) <= MaxEvents
    BY <1>a, <1>b, <2>1, Taken, CountType DEF One
  <2> QED BY <1>a, <1>e, <2>1, <2>2
<1>11. CASE PowerOffKey
  <2>1. events' = Stopped /\ Len(events') <= MaxEvents /\ UNCHANGED <<polls, orphans, check, stop>>
    BY <1>11 DEF PowerOffKey
  <2> QED BY <1>a, <1>e, <2>1, StoppedPosts
<1>12. CASE vbat_check
  <2>1. CanPost /\ events' = Append(events, "low") /\ UNCHANGED <<polls, orphans, check, stop>>
    BY <1>12 DEF vbat_check
  <2>2. /\ events' \in Queue /\ Len(events') = Len(events) + 1
        /\ Count(events') = Count(events)
    BY <1>a, <2>1, Posted DEF Kinds, One
  <2> QED BY <1>a, <1>b, <1>e, <2>1, <2>2 DEF CanPost
<1>13. CASE poweroff_done \/ idle_vbat_empty \/ PowerOn
  <2>1. events' = << >> /\ polls' = 0 /\ orphans' = 0 /\ ~ stop'
    <3>1. CASE poweroff_done \/ idle_vbat_empty
      BY <3>1 DEF poweroff_done, idle_vbat_empty, SoftPowerOff
    <3>2. CASE PowerOn
      BY <3>2 DEF PowerOn, Asleep, Cleared
    <3> QED BY <1>13, <3>1, <3>2
  <2>2. One(check') \in {0, 1}
    BY DEF One
  <2>3. Len(events') = 0
    BY <2>1
  <2> QED BY <1>b, <2>1, <2>2, <2>3, NoEvent DEF Waits, Room, Coming, One
<1>14. ASSUME NEW t \in {"poweron", "bt", "music"}, ModeKey(t) PROVE RingWaits'
  BY <1>14, <1>d DEF ModeKey
<1>15. CASE ring_play_timeout \/ AnyKeyLowIdle \/ PowerOnKey
  BY <1>15, <1>d DEF ring_play_timeout, AnyKeyLowIdle, PowerOnKey
<1>16. CASE wait_dev_online \/ bule_no_connect_to_rtc \/ PromptEnds
  BY <1>16, <1>d DEF wait_dev_online, bule_no_connect_to_rtc, PromptEnds
<1>17. CASE PowerOffToneEnds \/ PhoneConnects \/ CallBegins \/ CallEnds
  BY <1>17, <1>d DEF PowerOffToneEnds, GoIdle, PhoneConnects, CallBegins, CallEnds
<1>18. CASE idle_vbat_check \/ wait_exit_btstack_flag \/ esco_check_state \/ UNCHANGED vars
  BY <1>18, <1>d DEF idle_vbat_check, wait_exit_btstack_flag, esco_check_state, vars
<1> QED
  BY <1>1, <1>2, <1>3, <1>4, <1>6, <1>7, <1>8, <1>9, <1>10, <1>11, <1>12, <1>13, <1>14,
     <1>15, <1>16, <1>17, <1>18 DEF Next

-----------------------------------------------------------------------------
(* One alarm at a time.  In calm circumstances there is at most one alarm   *)
(* under way: on its way to the queue, in it, or ringing; and its flag is   *)
(* set.  A tone or its retry has a stop timer.                              *)
OneAlarm == orphans = 0 /\ Coming + One(stop) <= 1 /\ (~ active => Coming = 0 /\ ~ stop)
Sounds == (retry \/ tone = "alarm" => stop) /\ ~ (retry /\ tone = "alarm")
(* The power key's prompt plays, and its end waits, with no alarm active.   *)
PromptAlone == tone = "poweroff" \/ Has(events, "poweroff") => ~ active
(* Nobody goes to the fake power-off, or has keys there with the battery    *)
(* empty, while an alarm rings.                                             *)
IdleQuiet == (next = "idle" => ~ stop) /\ (stop /\ task = "idle" /\ ~ vbat_ok => ~ keys)
Numbered == stop => number = AlarmNumber(ringing) /\ ringing # {}
Quiet == OneAlarm /\ Sounds /\ PromptAlone /\ IdleQuiet /\ Numbered

LEMMA EnvStays == ASSUME [Next]_vars PROVE env' = env
<1> USE DEF phone
<1>1. CASE poweroff_done \/ idle_vbat_empty \/ PowerOn
  BY <1>1 DEF poweroff_done, idle_vbat_empty, SoftPowerOff, PowerOn
<1>2. CASE alm_wakeup_isr \/ to_set_alm \/ alarm_check \/ AlarmEvent \/ ring_play_timeout
  BY <1>2 DEF alm_wakeup_isr, to_set_alm, alarm_check, AlarmEvent, ring_play_timeout
<1>3. CASE ring_stop_timeout \/ AnyKeyLowIdle \/ KEY_TO_ALARM_SLEEP \/ KEY_TO_ALARM_UNSLEEP
  BY <1>3 DEF ring_stop_timeout, AnyKeyLowIdle, KEY_TO_ALARM_SLEEP, KEY_TO_ALARM_UNSLEEP
<1>4. CASE (\E n \in 1..2 : AppAlarmDel(n)) \/ (\E t \in {"poweron", "bt", "music"} : ModeKey(t))
  BY <1>4 DEF AppAlarmDel, ModeKey
<1>5. CASE PowerOffKey \/ PowerOnKey \/ SwitchTask
  BY <1>5 DEF PowerOffKey, PowerOnKey, SwitchTask
<1>6. CASE wait_dev_online \/ bule_no_connect_to_rtc \/ PromptEnds \/ BtToneStopped
  BY <1>6 DEF wait_dev_online, bule_no_connect_to_rtc, PromptEnds, BtToneStopped
<1>7. CASE PowerOffToneEnds \/ PowerOffToneStopped
  BY <1>7 DEF PowerOffToneEnds, PowerOffToneStopped, GoIdle
<1>8. CASE PhoneConnects \/ CallBegins \/ CallEnds \/ idle_vbat_check \/ vbat_check
  BY <1>8 DEF PhoneConnects, CallBegins, CallEnds, idle_vbat_check, vbat_check
<1>9. CASE PowerLowEvent \/ wait_exit_btstack_flag \/ esco_check_state \/ UNCHANGED vars
  BY <1>9 DEF PowerLowEvent, wait_exit_btstack_flag, esco_check_state, vars
<1> QED BY <1>1, <1>2, <1>3, <1>4, <1>5, <1>6, <1>7, <1>8, <1>9 DEF Next

(* A key or command that comes while an alarm is active finds none on its   *)
(* way.                                                                     *)
LEMMA KeyFinds ==
  ASSUME Waits, Calm, InTime, active
  PROVE  Coming = 0 /\ ~ retry
<1>1. ~ Waiting
  BY DEF Calm, InTime
<1>2. polls = 0 /\ ~ check /\ ~ retry /\ ~ Has(events, "alm")
  <2>1. events \in Seq(Kinds) /\ polls \in Nat
    BY BoundAssumption DEF Waits, Queue
  <2>2. DOMAIN events = 1..Len(events)
    BY <2>1, LenProperties
  <2> QED BY <1>1, <2>1, <2>2 DEF Waiting, Has
<1> QED BY <1>2, CountType DEF Waits, Coming, One

LEMMA StepOne ==
  ASSUME Waits, Asleep, Calm, OneAlarm, IdleQuiet, [Next]_vars
  PROVE  OneAlarm'
<1> USE DEF OneAlarm, power, switching, ring, flags, phone, bt, wakeup
<1>a. events \in Queue /\ Count(events) \in Nat /\ polls \in Nat
  BY CountType, BoundAssumption DEF Waits
<1>b. /\ One(check) \in {0, 1} /\ One(stop) \in {0, 1} /\ Coming \in Nat
      /\ Coming = polls + Count(events) + One(check)
  BY <1>a DEF One, Coming
<1>c. ASSUME UNCHANGED <<events, polls, check, stop, orphans, active>> PROVE OneAlarm'
  BY <1>c DEF Coming
<1>d. ASSUME Coming' <= Coming, Coming' \in Nat, orphans' = 0, stop' = FALSE \/ stop' = stop,
             active' = active
      PROVE  OneAlarm'
  <2>1. One(stop') \in {0, 1} /\ One(stop') <= One(stop)
    <3>1. CASE stop' = FALSE
      BY <1>b, <3>1 DEF One
    <3>2. CASE stop' = stop
      BY <1>b, <3>2
    <3> QED BY <1>d, <3>1, <3>2
  <2> DEFINE c == Coming'
             t == One(stop')
             u == One(stop)
  <2>2. c \in Nat /\ t \in {0, 1} /\ u \in {0, 1} /\ t <= u /\ c <= Coming /\ Coming + u <= 1
    BY <1>b, <1>d, <2>1
  <2>3. ASSUME ~ active' PROVE Coming = 0 /\ ~ stop'
    BY <1>d, <2>3
  <2> HIDE DEF c, t, u
  <2>4. c + t <= 1 /\ (Coming = 0 => c = 0)
    BY <1>b, <2>2
  <2>5. Coming' + One(stop') <= 1 /\ (Coming = 0 => Coming' = 0)
    BY <2>4 DEF c, t
  <2> QED BY <1>d, <2>3, <2>5
<1>e. ASSUME Coming' = 0, orphans' = 0, stop' = FALSE
      PROVE  OneAlarm'
  BY <1>e DEF One
<1>f. Append(events, "alm") \in Queue /\ Count(Append(events, "alm")) = Count(events) + 1
  BY <1>a, Posted DEF Kinds, One
<1>1. CASE alm_wakeup_isr
  <2>1. ~ active /\ active' = TRUE /\ UNCHANGED <<orphans, check, stop>>
    BY <1>1 DEF alm_wakeup_isr, Calm
  <2>2. Coming = 0 /\ ~ stop /\ orphans = 0
    BY <2>1
  <2>3. polls = 0 /\ Count(events) = 0 /\ One(check) = 0
    BY <1>a, <1>b, <2>2
  <2>4. \/ polls' = polls + 1 /\ events' = events
        \/ polls' = polls /\ events' = Append(events, "alm")
    BY <1>1 DEF alm_wakeup_isr
  <2>5. Coming' = 1
    <3>1. One(check') = 0
      BY <2>1, <2>3
    <3>2. CASE polls' = polls + 1 /\ events' = events
      <4>1. polls' = 1 /\ Count(events') = 0
        BY <2>3, <3>2
      <4> QED BY <3>1, <4>1 DEF Coming
    <3>3. CASE polls' = polls /\ events' = Append(events, "alm")
      <4>1. polls' = 0 /\ Count(events') = 1
        BY <1>f, <2>3, <3>3
      <4> QED BY <3>1, <4>1 DEF Coming
    <3> QED BY <2>4, <3>2, <3>3
  <2> QED BY <2>1, <2>2, <2>5 DEF One
<1>2. CASE to_set_alm
  <2>1. /\ polls > 0 /\ events' = Append(events, "alm") /\ polls' = polls - 1
        /\ UNCHANGED <<orphans, check, stop, active>>
    BY <1>2 DEF to_set_alm
  <2>2. Coming' = Coming
    BY <1>a, <1>b, <1>f, <2>1 DEF Coming
  <2> QED BY <1>b, <1>d, <2>1, <2>2
<1>3. CASE alarm_check
  <2>1. /\ check /\ ~ check' /\ events' = Append(events, "alm")
        /\ UNCHANGED <<orphans, polls, stop, active>>
    BY <1>3 DEF alarm_check
  <2>2. Coming' = Coming
    BY <1>a, <1>f, <2>1 DEF Coming, One
  <2> QED BY <1>b, <1>d, <2>1, <2>2
<1>4. ASSUME events # << >>, events' = Tail(events), UNCHANGED <<polls, check, active>>
      PROVE  Coming' \in Nat /\ Coming' + One(Head(events) = "alm") <= Coming
  <2>1. /\ Count(Tail(events)) + One(Head(events) = "alm") <= Count(events)
        /\ Count(Tail(events)) \in Nat
    BY <1>a, <1>4, Taken, CountType
  <2>2. Coming' = polls + Count(Tail(events)) + One(check)
    BY <1>4 DEF Coming
  <2>3. One(Head(events) = "alm") \in Nat
    BY DEF One
  <2> QED BY <1>a, <1>b, <2>1, <2>2, <2>3
<1>5. CASE AlarmEvent
  <2>1. /\ events # << >> /\ Head(events) = "alm" /\ events' = Tail(events)
        /\ UNCHANGED <<polls, check, active>>
        /\ \/ UNCHANGED <<stop, orphans>>
           \/ stop' = TRUE /\ orphans' = IF stop THEN orphans + 1 ELSE orphans
    BY <1>5 DEF AlarmEvent, alarm_ring_start
  <2>2. Coming' \in Nat /\ Coming' + 1 <= Coming
    BY <1>4, <2>1 DEF One
  <2>3. Coming = 1 /\ ~ stop /\ Coming' = 0 /\ active
    BY <1>b, <2>2 DEF One
  <2>4. orphans' = 0 /\ One(stop') \in {0, 1} /\ active' = active
    BY <2>1, <2>3 DEF One
  <2> QED BY <2>3, <2>4
<1>6. ASSUME NEW o, o = 0, CanStop, alarm_stop(o), UNCHANGED wakeup, Coming = 0
      PROVE  OneAlarm'
  <2>1. stop' = FALSE /\ orphans' = 0 /\ UNCHANGED <<polls, check>>
    BY <1>6 DEF alarm_stop
  <2>2. Count(events') = Count(events)
    BY <1>a, <1>6, StopPosts
  <2>3. Coming' = 0
    BY <1>6, <2>1, <2>2 DEF Coming
  <2> QED BY <1>e, <2>1, <2>3
<1>7. CASE ring_stop_timeout
  <2>1. stop /\ Coming = 0 /\ orphans = 0
    BY <1>b, <1>7 DEF ring_stop_timeout, One
  <2> QED BY <1>6, <1>7, <2>1 DEF ring_stop_timeout
<1>8. CASE KEY_TO_ALARM_SLEEP \/ KEY_TO_ALARM_UNSLEEP
  <2>1. InTime /\ active
    BY <1>8 DEF KEY_TO_ALARM_SLEEP, KEY_TO_ALARM_UNSLEEP, Pressed
  <2> QED BY <1>6, <1>8, <2>1, KeyFinds DEF KEY_TO_ALARM_SLEEP, KEY_TO_ALARM_UNSLEEP
<1>9. CASE AnyKeyLowIdle
  <2>1. /\ InTime /\ keys /\ active /\ task = "idle" /\ ~ vbat_ok
        /\ UNCHANGED <<events, polls, check, stop, orphans>>
    BY <1>9 DEF AnyKeyLowIdle, Pressed, LowIdle
  <2>2. Coming = 0 /\ ~ stop
    BY <2>1, KeyFinds DEF IdleQuiet
  <2>3. Coming' = Coming
    BY <2>1 DEF Coming
  <2> QED BY <2>1, <2>2, <2>3 DEF One
<1>10. CASE SwitchTask
  <2>1. UNCHANGED <<polls, orphans, check, stop, active>>
    BY <1>10 DEF SwitchTask
  <2>2. Count(events') \in Nat /\ Count(events') <= Count(events)
    BY <1>10, <1>a, SwitchPosts
  <2>3. Coming' \in Nat /\ Coming' <= Coming
    <3>1. Coming' = polls + Count(events') + One(check)
      BY <2>1 DEF Coming
    <3> QED BY <1>a, <1>b, <2>2, <3>1
  <2> QED BY <1>d, <2>1, <2>3
<1>11. CASE PowerOffToneStopped \/ PowerLowEvent \/ BtToneStopped
  <2>1. /\ events # << >> /\ events' = Tail(events)
        /\ UNCHANGED <<polls, orphans, check, stop, active>>
    BY <1>11 DEF PowerOffToneStopped, PowerLowEvent, BtToneStopped, GoIdle
  <2>2. Coming' \in Nat /\ Coming' <= Coming
    BY <1>b, <1>4, <2>1 DEF One
  <2> QED BY <1>d, <2>1, <2>2
<1>12. CASE poweroff_done \/ idle_vbat_empty
  <2>1. events' = << >> /\ polls' = 0 /\ orphans' = 0 /\ stop' = FALSE /\ check' = FALSE
    BY <1>12 DEF poweroff_done, idle_vbat_empty, SoftPowerOff
  <2>2. Coming' = 0
    BY <2>1, NoEvent DEF Coming, One
  <2> QED BY <1>e, <2>1, <2>2
<1>13. CASE PowerOn
  <2>1. /\ events' = << >> /\ polls' = 0 /\ orphans' = 0 /\ stop' = FALSE
        /\ check' = active' /\ check' \in BOOLEAN
    BY <1>13 DEF PowerOn, Asleep, Cleared
  <2>2. Coming' = One(check')
    BY <2>1, NoEvent DEF Coming, One
  <2> QED BY <2>1, <2>2 DEF One
<1>14. ASSUME NEW n \in 1..2, AppAlarmDel(n) PROVE OneAlarm'
  <2>1. InTime /\ CanStop /\ alarm_stop(orphans) /\ UNCHANGED wakeup
    BY <1>14 DEF AppAlarmDel
  <2>2. Coming = 0
    BY <2>1, KeyFinds
  <2> QED BY <1>6, <2>1, <2>2
<1>15. ASSUME NEW t \in {"poweron", "bt", "music"}, ModeKey(t) PROVE OneAlarm'
  BY <1>15, <1>c DEF ModeKey
<1>16. CASE PowerOffKey
  <2>1. events' = Stopped /\ UNCHANGED <<polls, check, stop, orphans, active>>
    BY <1>16 DEF PowerOffKey
  <2>2. Coming' = Coming
    BY <1>a, <2>1, StoppedPosts DEF Coming
  <2> QED BY <1>b, <1>d, <2>1, <2>2
<1>17. CASE vbat_check
  <2>1. events' = Append(events, "low") /\ UNCHANGED <<polls, check, stop, orphans, active>>
    BY <1>17 DEF vbat_check
  <2>2. Count(events') = Count(events)
    BY <1>a, <2>1, Posted DEF Kinds, One
  <2>3. Coming' = Coming
    BY <2>1, <2>2 DEF Coming
  <2> QED BY <1>b, <1>d, <2>1, <2>3
<1>18. CASE ring_play_timeout \/ PowerOnKey
  BY <1>18, <1>c DEF ring_play_timeout, PowerOnKey
<1>19. CASE wait_dev_online \/ bule_no_connect_to_rtc \/ PromptEnds
  BY <1>19, <1>c DEF wait_dev_online, bule_no_connect_to_rtc, PromptEnds
<1>20. CASE PowerOffToneEnds \/ PhoneConnects \/ CallBegins \/ CallEnds
  BY <1>20, <1>c DEF PowerOffToneEnds, GoIdle, PhoneConnects, CallBegins, CallEnds
<1>21. CASE idle_vbat_check \/ wait_exit_btstack_flag \/ esco_check_state \/ UNCHANGED vars
  BY <1>21, <1>c DEF idle_vbat_check, wait_exit_btstack_flag, esco_check_state, vars
<1> QED
  BY <1>1, <1>2, <1>3, <1>5, <1>7, <1>8, <1>9, <1>10, <1>11, <1>12, <1>13, <1>14,
     <1>15, <1>16, <1>17, <1>18, <1>19, <1>20, <1>21 DEF Next

LEMMA StepSounds ==
  ASSUME Waits, Asleep, Calm, OneAlarm, Sounds, [Next]_vars
  PROVE  Sounds'
<1> USE DEF Sounds, power, switching, ring, flags, phone, bt, wakeup
<1>a. ASSUME UNCHANGED <<tone, retry, stop>> PROVE Sounds'
  BY <1>a
<1>b. ASSUME ~ retry', tone' # "alarm" PROVE Sounds'
  BY <1>b
<1>1. CASE AlarmEvent
  <2>1. CASE UNCHANGED <<tone, retry, stop>>
    BY <2>1
  <2>2. CASE alarm_ring_start
    <3>1. ~ stop
      <4>1. events # << >> /\ Head(events) = "alm" /\ events \in Queue /\ polls \in Nat
        BY <1>1, BoundAssumption DEF AlarmEvent, Waits
      <4>2. Count(Tail(events)) \in Nat /\ Count(Tail(events)) + 1 <= Count(events)
        BY <4>1, Taken, CountType DEF One
      <4>3. Count(events) \in Nat /\ One(check) \in Nat /\ One(stop) \in Nat
        BY <4>1, CountType DEF One
      <4>4. Coming >= 1
        BY <4>1, <4>2, <4>3 DEF Coming
      <4>5. One(stop) = 0
        BY <4>1, <4>3, <4>4 DEF OneAlarm, Coming
      <4> QED BY <4>5 DEF One
    <3>2. ~ retry /\ tone # "alarm"
      BY <3>1
    <3>3. /\ stop'
          /\ \/ tone' = "alarm" /\ UNCHANGED retry
             \/ retry' = TRUE /\ UNCHANGED tone
      BY <2>2 DEF alarm_ring_start
    <3> QED BY <3>2, <3>3
  <2> QED BY <1>1, <2>1, <2>2 DEF AlarmEvent
<1>2. CASE ring_play_timeout
  <2>1. retry /\ retry' = FALSE /\ stop' = stop
    BY <1>2 DEF ring_play_timeout
  <2> QED BY <2>1
<1>3. CASE ring_stop_timeout
  <2>1. stop /\ (retry => tone = "alarm") /\ tone' = None /\ retry' = retry
    BY <1>3 DEF ring_stop_timeout, alarm_stop, OneAlarm
  <2> QED BY <2>1, <1>b DEF None
<1>4. CASE KEY_TO_ALARM_SLEEP \/ KEY_TO_ALARM_UNSLEEP
  <2>1. InTime /\ active /\ tone' = None /\ retry' = retry
    BY <1>4 DEF KEY_TO_ALARM_SLEEP, KEY_TO_ALARM_UNSLEEP, Pressed, alarm_stop
  <2> QED BY <2>1, <1>b, KeyFinds DEF None
<1>5. CASE PowerOffKey
  <2>1. ~ active /\ tone' = "poweroff" /\ retry' = retry
    BY <1>5 DEF PowerOffKey
  <2> QED BY <2>1, <1>b DEF OneAlarm
<1>6. CASE SwitchTask
  <2>1. /\ next # None /\ tone' \in {"poweron", "bt", "goodbye", None, tone}
        /\ retry' = retry /\ stop' = stop
    BY <1>6 DEF SwitchTask
  <2> QED BY <2>1 DEF None
<1>7. CASE PromptEnds \/ PowerOffToneEnds
  <2>1. tone' = None /\ retry' = retry /\ stop' = stop
    BY <1>7 DEF PromptEnds, PowerOffToneEnds, GoIdle
  <2> QED BY <2>1 DEF None
<1>8. CASE poweroff_done \/ idle_vbat_empty
  <2>1. tone' = None /\ retry' = FALSE
    BY <1>8 DEF poweroff_done, idle_vbat_empty, SoftPowerOff
  <2> QED BY <2>1, <1>b DEF None
<1>9. CASE PowerOn
  <2>1. tone' = None /\ retry' = FALSE
    BY <1>9 DEF PowerOn, Asleep, Cleared
  <2> QED BY <2>1, <1>b DEF None
<1>10. ASSUME NEW n \in 1..2, AppAlarmDel(n) PROVE Sounds'
  <2>1. InTime /\ tone' = None /\ retry' = retry
    BY <1>10 DEF AppAlarmDel, alarm_stop
  <2>2. ~ retry
    <3>1. CASE active
      BY <2>1, <3>1, KeyFinds
    <3>2. CASE ~ active
      BY <3>2 DEF OneAlarm
    <3> QED BY <3>1, <3>2
  <2> QED BY <1>b, <2>1, <2>2 DEF None
<1>11. CASE alm_wakeup_isr \/ to_set_alm \/ alarm_check \/ AnyKeyLowIdle
  BY <1>a, <1>11 DEF alm_wakeup_isr, to_set_alm, alarm_check, AnyKeyLowIdle
<1>12. ASSUME NEW t \in {"poweron", "bt", "music"}, ModeKey(t) PROVE Sounds'
  BY <1>a, <1>12 DEF ModeKey
<1>13. CASE PowerOnKey \/ wait_dev_online \/ bule_no_connect_to_rtc \/ BtToneStopped
  BY <1>a, <1>13 DEF PowerOnKey, wait_dev_online, bule_no_connect_to_rtc, BtToneStopped
<1>14. CASE PowerOffToneStopped \/ PhoneConnects \/ CallBegins \/ CallEnds
  BY <1>a, <1>14 DEF PowerOffToneStopped, GoIdle, PhoneConnects, CallBegins, CallEnds
<1>15. CASE idle_vbat_check \/ vbat_check \/ PowerLowEvent
  BY <1>a, <1>15 DEF idle_vbat_check, vbat_check, PowerLowEvent
<1>16. CASE wait_exit_btstack_flag \/ esco_check_state \/ UNCHANGED vars
  BY <1>a, <1>16 DEF wait_exit_btstack_flag, esco_check_state, vars
<1> QED
  BY <1>1, <1>2, <1>3, <1>4, <1>5, <1>6, <1>7, <1>8, <1>9, <1>10, <1>11, <1>12, <1>13, <1>14,
     <1>15, <1>16 DEF Next

LEMMA StepPromptAlone ==
  ASSUME Waits, Asleep, Calm, OneAlarm, PromptAlone, [Next]_vars
  PROVE  PromptAlone'
<1> USE DEF PromptAlone, power, switching, ring, flags, phone, bt, wakeup
<1>a. events \in Queue
  BY DEF Waits
<1>b. ASSUME UNCHANGED <<tone, events, active>> PROVE PromptAlone'
  BY <1>b
<1>c. ASSUME ~ active' PROVE PromptAlone'
  BY <1>c
<1>d. ASSUME Has(events', "poweroff") => Has(events, "poweroff") \/ tone = "poweroff",
             tone' = "poweroff" => tone = "poweroff", active' = active
      PROVE  PromptAlone'
  BY <1>d
<1>e. ~ Has(events, "poweroff") <=> ~ Has(Append(events, "alm"), "poweroff")
  BY <1>a, Posted DEF Kinds
<1>1. CASE alm_wakeup_isr
  <2>1. events = << >> /\ tone # "poweroff" /\ tone' = tone /\ events' \in {events, Append(events, "alm")}
    BY <1>1 DEF alm_wakeup_isr, Calm
  <2>2. ~ Has(events', "poweroff")
    BY <1>e, <2>1, NoEvent
  <2> QED BY <2>1, <2>2
<1>2. CASE to_set_alm \/ alarm_check
  <2>1. events' = Append(events, "alm") /\ UNCHANGED <<tone, active>>
    BY <1>2 DEF to_set_alm, alarm_check
  <2> QED BY <1>d, <1>e, <2>1
<1>3. CASE AlarmEvent \/ PowerOffToneStopped \/ PowerLowEvent \/ BtToneStopped
  <2>1. events # << >> /\ events' = Tail(events) /\ tone' \in {tone, "alarm"} /\ active' = active
    BY <1>3 DEF AlarmEvent, alarm_ring_start, PowerOffToneStopped, PowerLowEvent, BtToneStopped, GoIdle
  <2>2. Has(events', "poweroff") => Has(events, "poweroff")
    BY <1>a, <2>1, Taken
  <2> QED BY <1>d, <2>1, <2>2
<1>4. CASE ring_stop_timeout \/ KEY_TO_ALARM_SLEEP \/ KEY_TO_ALARM_UNSLEEP \/ AnyKeyLowIdle
  BY <1>c, <1>4
  DEF ring_stop_timeout, KEY_TO_ALARM_SLEEP, KEY_TO_ALARM_UNSLEEP, AnyKeyLowIdle, alarm_stop
<1>5. CASE ring_play_timeout \/ PromptEnds \/ PowerOffToneEnds
  <2>1. tone' # "poweroff" /\ UNCHANGED <<events, active>>
    BY <1>5 DEF ring_play_timeout, PromptEnds, PowerOffToneEnds, GoIdle, None
  <2> QED BY <1>d, <2>1
<1>6. CASE PowerOffKey
  BY <1>c, <1>6 DEF PowerOffKey
<1>7. CASE SwitchTask
  <2>1. next # None /\ tone' \in {"poweron", "bt", "goodbye", None, tone} /\ active' = active
    BY <1>7 DEF SwitchTask
  <2>2. Has(events', "poweroff") => Has(events, "poweroff") \/ tone = "poweroff"
    BY <1>7, <1>a, SwitchPosts
  <2>3. tone' = "poweroff" => tone = "poweroff"
    BY <2>1 DEF None
  <2> QED BY <1>d, <2>1, <2>2, <2>3
<1>8. CASE poweroff_done \/ idle_vbat_empty
  BY <1>c, <1>8 DEF poweroff_done, idle_vbat_empty, SoftPowerOff
<1>9. CASE PowerOn
  <2>1. events' = << >> /\ tone' = None
    BY <1>9 DEF PowerOn, Asleep, Cleared
  <2> QED BY <2>1, NoEvent DEF None
<1>10. ASSUME NEW n \in 1..2, AppAlarmDel(n) PROVE PromptAlone'
  BY <1>c, <1>10 DEF AppAlarmDel, alarm_stop
<1>11. ASSUME NEW t \in {"poweron", "bt", "music"}, ModeKey(t) PROVE PromptAlone'
  BY <1>b, <1>11 DEF ModeKey
<1>12. CASE PowerOnKey \/ wait_dev_online \/ bule_no_connect_to_rtc
  BY <1>b, <1>12 DEF PowerOnKey, wait_dev_online, bule_no_connect_to_rtc
<1>13. CASE vbat_check
  <2>1. events' = Append(events, "low") /\ UNCHANGED <<tone, active>>
    BY <1>13 DEF vbat_check
  <2>2. Has(events', "poweroff") <=> Has(events, "poweroff")
    BY <1>a, <2>1, Posted DEF Kinds
  <2> QED BY <1>d, <2>1, <2>2
<1>14. CASE PhoneConnects \/ CallBegins \/ CallEnds \/ idle_vbat_check
  BY <1>b, <1>14 DEF PhoneConnects, CallBegins, CallEnds, idle_vbat_check
<1>15. CASE wait_exit_btstack_flag \/ esco_check_state \/ UNCHANGED vars
  BY <1>b, <1>15 DEF wait_exit_btstack_flag, esco_check_state, vars
<1> QED
  BY <1>1, <1>2, <1>3, <1>4, <1>5, <1>6, <1>7, <1>8, <1>9, <1>10, <1>11, <1>12, <1>13, <1>14,
     <1>15 DEF Next

LEMMA StepIdleQuiet ==
  ASSUME Waits, Asleep, OneAlarm, PromptAlone, IdleQuiet, [Next]_vars
  PROVE  IdleQuiet'
<1> USE DEF IdleQuiet, power, switching, ring, flags, phone, bt, wakeup
<1>a. ASSUME UNCHANGED <<next, stop, task, vbat_ok, keys>> PROVE IdleQuiet'
  BY <1>a
<1>b. ASSUME ~ stop' PROVE IdleQuiet'
  BY <1>b
<1>c. ASSUME next' # "idle" \/ next' = next, UNCHANGED <<stop, task, vbat_ok, keys>>
      PROVE  IdleQuiet'
  BY <1>c
<1>1. CASE alm_wakeup_isr
  <2>1. next' \in {next, "poweron"} /\ UNCHANGED <<stop, task, vbat_ok, keys>>
    BY <1>1, Asked DEF alm_wakeup_isr
  <2> QED BY <1>c, <2>1
<1>2. CASE AlarmEvent
  <2>1. /\ UNCHANGED <<next, task, vbat_ok, keys>>
        /\ stop' = stop \/ (next # "idle" /\ (task # "idle" \/ vbat_ok))
    BY <1>2 DEF AlarmEvent, Turn, None
  <2> QED BY <2>1
<1>3. CASE ring_stop_timeout \/ KEY_TO_ALARM_SLEEP \/ KEY_TO_ALARM_UNSLEEP
  BY <1>b, <1>3 DEF ring_stop_timeout, KEY_TO_ALARM_SLEEP, KEY_TO_ALARM_UNSLEEP, alarm_stop
<1>4. ASSUME NEW n \in 1..2, AppAlarmDel(n) PROVE IdleQuiet'
  BY <1>b, <1>4 DEF AppAlarmDel, alarm_stop
<1>5. ASSUME NEW t \in {"poweron", "bt", "music"}, ModeKey(t) PROVE IdleQuiet'
  <2>1. next' \in {next, t} /\ UNCHANGED <<stop, task, vbat_ok, keys>>
    BY <1>5, Asked DEF ModeKey
  <2> QED BY <1>c, <2>1
<1>6. CASE PowerOnKey
  BY <1>c, <1>6 DEF PowerOnKey
<1>7. CASE bule_no_connect_to_rtc \/ wait_exit_btstack_flag
  <2>1. next' \in {next, "poweron", "poweroff"} /\ UNCHANGED <<stop, task, vbat_ok, keys>>
    BY <1>7, Asked DEF bule_no_connect_to_rtc, wait_exit_btstack_flag
  <2> QED BY <1>c, <2>1
<1>8. CASE PowerLowEvent \/ esco_check_state
  <2>1. next' \in {next, "bt"} /\ UNCHANGED <<stop, task, vbat_ok, keys>>
    BY <1>8 DEF PowerLowEvent, esco_check_state, sys_enter_soft_poweroff
  <2> QED BY <1>c, <2>1
<1>9. CASE SwitchTask
  <2>1. task' = next /\ next' = None /\ UNCHANGED <<stop, vbat_ok>>
    BY <1>9 DEF SwitchTask
  <2> QED BY <2>1 DEF None
<1>10. CASE wait_dev_online
  <2>1. /\ next' \in {next, "music", "bt"} /\ UNCHANGED <<stop, task, vbat_ok>>
        /\ (task = "poweron" \/ keys' = keys)
    BY <1>10, Asked DEF wait_dev_online
  <2> QED BY <2>1
<1>11. CASE PowerOffToneEnds \/ PowerOffToneStopped
  <2>1. tone = "poweroff" \/ Has(events, "poweroff")
    <3>1. CASE PowerOffToneEnds
      BY <3>1 DEF PowerOffToneEnds
    <3>2. CASE PowerOffToneStopped
      <4>1. events # << >> /\ Head(events) = "poweroff" /\ events \in Seq(Kinds)
        BY <3>2 DEF PowerOffToneStopped, Waits, Queue
      <4>2. 1 \in DOMAIN events /\ events[1] = "poweroff"
        BY <4>1, HeadTailProperties, EmptySeq, LenProperties
      <4> QED BY <4>2 DEF Has
    <3> QED BY <1>11, <3>1, <3>2
  <2>2. ~ stop /\ stop' = stop
    BY <1>11, <2>1 DEF PromptAlone, OneAlarm, PowerOffToneEnds, PowerOffToneStopped, GoIdle
  <2> QED BY <1>b, <2>2
<1>12. CASE idle_vbat_check
  <2>1. keys' = vbat_ok' /\ UNCHANGED <<next, stop>>
    BY <1>12 DEF idle_vbat_check
  <2> QED BY <2>1
<1>13. CASE poweroff_done \/ idle_vbat_empty
  BY <1>b, <1>13 DEF poweroff_done, idle_vbat_empty, SoftPowerOff
<1>14. CASE PowerOn
  BY <1>b, <1>14 DEF PowerOn, Asleep, Cleared
<1>15. CASE to_set_alm \/ alarm_check \/ ring_play_timeout \/ AnyKeyLowIdle \/ PowerOffKey
  BY <1>a, <1>15 DEF to_set_alm, alarm_check, ring_play_timeout, AnyKeyLowIdle, PowerOffKey
<1>16. CASE PromptEnds \/ BtToneStopped \/ PhoneConnects \/ CallBegins
  BY <1>a, <1>16 DEF PromptEnds, BtToneStopped, PhoneConnects, CallBegins
<1>17. CASE CallEnds \/ vbat_check \/ UNCHANGED vars
  BY <1>a, <1>17 DEF CallEnds, vbat_check, vars
<1> QED
  BY <1>1, <1>2, <1>3, <1>4, <1>5, <1>6, <1>7, <1>8, <1>9, <1>10, <1>11, <1>12, <1>13, <1>14,
     <1>15, <1>16, <1>17 DEF Next

LEMMA StepNumbered == ASSUME Numbered, Asleep, [Next]_vars PROVE Numbered'
<1> USE DEF Numbered, power, switching, ring, flags, phone, bt, wakeup
<1>a. ASSUME UNCHANGED <<number, ringing, stop>> PROVE Numbered'
  BY <1>a
<1>b. ASSUME ~ stop' PROVE Numbered'
  BY <1>b
<1>1. CASE AlarmEvent
  <2>1. CASE task = "poweroff"
    BY <1>a, <1>1, <2>1 DEF AlarmEvent
  <2>2. CASE task # "poweroff"
    <3>1. PICK A \in (SUBSET ({0, 1} \union snooze)) \ {{}} : ringing' = A /\ number' = AlarmNumber(A)
      BY <1>1, <2>2 DEF AlarmEvent
    <3>2. number' = AlarmNumber(ringing') /\ ringing' # {}
      <4>1. AlarmNumber(ringing') = AlarmNumber(A)
        BY <3>1
      <4> QED BY <3>1, <4>1
    <3> QED BY <3>2
  <2> QED BY <2>1, <2>2
<1>2. CASE ring_stop_timeout \/ KEY_TO_ALARM_SLEEP \/ KEY_TO_ALARM_UNSLEEP
  BY <1>b, <1>2 DEF ring_stop_timeout, KEY_TO_ALARM_SLEEP, KEY_TO_ALARM_UNSLEEP, alarm_stop
<1>3. ASSUME NEW n \in 1..2, AppAlarmDel(n) PROVE Numbered'
  BY <1>b, <1>3 DEF AppAlarmDel, alarm_stop
<1>4. CASE poweroff_done \/ idle_vbat_empty
  BY <1>b, <1>4 DEF poweroff_done, idle_vbat_empty, SoftPowerOff
<1>5. CASE PowerOn
  BY <1>b, <1>5 DEF PowerOn, Asleep, Cleared
<1>6. CASE alm_wakeup_isr \/ to_set_alm \/ alarm_check \/ AnyKeyLowIdle \/ ring_play_timeout
  BY <1>a, <1>6 DEF alm_wakeup_isr, to_set_alm, alarm_check, AnyKeyLowIdle, ring_play_timeout
<1>7. ASSUME NEW t \in {"poweron", "bt", "music"}, ModeKey(t) PROVE Numbered'
  BY <1>a, <1>7 DEF ModeKey
<1>8. CASE PowerOffKey \/ PowerOnKey \/ SwitchTask \/ wait_dev_online \/ bule_no_connect_to_rtc
  BY <1>a, <1>8 DEF PowerOffKey, PowerOnKey, SwitchTask, wait_dev_online, bule_no_connect_to_rtc
<1>9. CASE PromptEnds \/ BtToneStopped \/ PowerOffToneEnds \/ PowerOffToneStopped
  BY <1>a, <1>9 DEF PromptEnds, BtToneStopped, PowerOffToneEnds, PowerOffToneStopped, GoIdle
<1>10. CASE PhoneConnects \/ CallBegins \/ CallEnds \/ idle_vbat_check \/ vbat_check
  BY <1>a, <1>10 DEF PhoneConnects, CallBegins, CallEnds, idle_vbat_check, vbat_check
<1>11. CASE PowerLowEvent \/ wait_exit_btstack_flag \/ esco_check_state \/ UNCHANGED vars
  BY <1>a, <1>11 DEF PowerLowEvent, wait_exit_btstack_flag, esco_check_state, vars
<1> QED
  BY <1>1, <1>2, <1>3, <1>4, <1>5, <1>6, <1>7, <1>8, <1>9, <1>10, <1>11 DEF Next

-----------------------------------------------------------------------------
(* The theorems.                                                            *)
RingInv == Values /\ Asleep /\ RingWaits /\ (Calm => Quiet)

LEMMA InitRingInv == ASSUME Init PROVE RingInv
<1>1. Values /\ Asleep
  BY DEF Init, Values, Tasks, Asleep, None
<1>2. Coming = One(check) /\ One(stop) = 0 /\ check = active /\ One(check) \in {0, 1}
  BY NoEvent DEF Init, Coming, One
<1>3. RingWaits
  <2>1. Len(events) = 0 /\ events \in Queue /\ polls = 0 /\ orphans = 0
    BY NoEvent DEF Init
  <2>2. MaxEvents \in Nat /\ MaxPolls \in Nat /\ MaxOrphans \in Nat
    BY BoundAssumption
  <2>3. orphans + Coming + One(stop) <= MaxOrphans + 1
    BY <1>2, <2>1, <2>2
  <2> QED BY <2>1, <2>2, <2>3 DEF RingWaits, Waits, Room
<1>4. OneAlarm
  <2>1. ~ active => Coming = 0
    BY <1>2 DEF One
  <2>2. orphans = 0 /\ ~ stop
    BY DEF Init
  <2>3. Coming + One(stop) <= 1
    BY <1>2
  <2> QED BY <2>1, <2>2, <2>3 DEF OneAlarm
<1>5. Sounds /\ PromptAlone /\ IdleQuiet /\ Numbered
  BY NoEvent DEF Init, Sounds, PromptAlone, IdleQuiet, Numbered, None
<1> QED BY <1>1, <1>3, <1>4, <1>5 DEF RingInv, Quiet

LEMMA NextRingInv == ASSUME RingInv, [Next]_vars PROVE RingInv'
<1>1. Values' /\ Asleep' /\ RingWaits'
  BY StepValues, StepAsleep, StepWaits DEF RingInv
<1>2. ASSUME Calm' PROVE Quiet'
  <2>1. Calm
    BY <1>2, EnvStays DEF Calm
  <2>2. Waits /\ Asleep /\ Quiet
    BY <2>1 DEF RingInv, RingWaits
  <2> QED
    BY <2>1, <2>2, StepOne, StepSounds, StepPromptAlone, StepIdleQuiet, StepNumbered DEF Quiet
<1> QED BY <1>1, <1>2 DEF RingInv

LEMMA RingInvariant == Spec => []RingInv
BY InitRingInv, NextRingInv, PTL DEF Spec

(* In calm circumstances an alarm that sounds is active, so that the keys   *)
(* belong to it: every tone has a stop timer, and what clears the flag      *)
(* (alarm_stop, and any key in the fake power-off with an empty battery)    *)
(* finds no timer or ends it.                                               *)
THEOREM KeyEndsRing == Spec => []KeyStopsRing
<1>1. ASSUME RingInv PROVE KeyStopsRing
  BY <1>1 DEF RingInv, Quiet, OneAlarm, Sounds, KeyStopsRing
<1> QED BY <1>1, RingInvariant, PTL

(* alarm_update_info_after_isr names one of the alarms that are due.        *)
LEMMA NumberBelongs ==
  ASSUME NEW A \in SUBSET AlarmSlots, A # {}
  PROVE  AlarmNumber(A) \in {1, 2} /\ A \intersect SlotsOf(AlarmNumber(A)) # {}
<1>1. AlarmSlots = {0, 1, 2, 3}
  BY DEF AlarmSlots
<1>2. IsFiniteSet(A) /\ Cardinality(A) \in Nat /\ Cardinality(A) # 0
  <2>1. IsFiniteSet(0..3)
    <3>1. 0 \in Int /\ 3 \in Int
      OBVIOUS
    <3> QED BY <3>1, FS_Interval
  <2> QED BY <2>1, FS_Subset, FS_CardinalityType, FS_EmptySet DEF AlarmSlots
<1>3. CASE Cardinality(A) = 1
  <2>1. PICK x : A = {x}
    BY <1>2, <1>3, FS_Singleton
  <2>2. x \in {0, 1, 2, 3}
    BY <1>1, <2>1
  <2>3. AlarmNumber(A) = IF x \in {0, 2} THEN 1 ELSE 2
    BY <1>3, <2>1 DEF AlarmNumber
  <2>4. x \in SlotsOf(AlarmNumber(A)) /\ AlarmNumber(A) \in {1, 2}
    BY <2>2, <2>3 DEF SlotsOf
  <2> QED BY <2>1, <2>4
<1>4. CASE Cardinality(A) # 1
  <2>1. Cardinality(A) >= 2 /\ A # {3}
    BY <1>2, <1>4, FS_Singleton
  <2>2. AlarmNumber(A) = IF 1 \in A /\ 0 \notin A THEN 2 ELSE 1
    BY <1>4, <2>1 DEF AlarmNumber
  <2>3. CASE 1 \in A /\ 0 \notin A
    BY <2>2, <2>3 DEF SlotsOf
  <2>4. CASE ~ (1 \in A /\ 0 \notin A)
    <3>1. 0 \in A \/ 2 \in A
      BY <1>1, <2>1, <2>4
    <3> QED BY <2>2, <2>4, <3>1 DEF SlotsOf
  <2> QED BY <2>3, <2>4
<1> QED BY <1>3, <1>4

(* In calm circumstances the key that snoozes a sounding alarm sets the     *)
(* snooze of an alarm that is due.                                          *)
THEOREM SnoozeOwn == Spec => SnoozeBelongs
<1>1. ASSUME RingInv, [Next]_vars, Calm, tone = "alarm",
             NEW n \in 1..2, SnoozeOf(n) \in snooze' \ snooze
      PROVE  ringing \intersect SlotsOf(n) # {}
  <2>1. number = AlarmNumber(ringing) /\ ringing # {} /\ ringing \in SUBSET AlarmSlots
    BY <1>1 DEF RingInv, Quiet, Sounds, Numbered, Values
  <2>2. SnoozeOf(n) = SnoozeSlot
    <3> USE <1>1 DEF power, switching, ring, flags, phone, bt, wakeup
    <3>1. KEY_TO_ALARM_SLEEP \/ snooze' \subseteq snooze
      <4>1. CASE AlarmEvent \/ KEY_TO_ALARM_UNSLEEP \/ KEY_TO_ALARM_SLEEP
        BY <4>1 DEF AlarmEvent, KEY_TO_ALARM_UNSLEEP
      <4>2. CASE alm_wakeup_isr \/ to_set_alm \/ alarm_check \/ ring_play_timeout
        BY <4>2 DEF alm_wakeup_isr, to_set_alm, alarm_check, ring_play_timeout
      <4>3. CASE ring_stop_timeout \/ AnyKeyLowIdle
        BY <4>3 DEF ring_stop_timeout, AnyKeyLowIdle
      <4>4. CASE (\E m \in 1..2 : AppAlarmDel(m)) \/ (\E t \in {"poweron", "bt", "music"} : ModeKey(t))
        BY <4>4 DEF AppAlarmDel, ModeKey
      <4>5. CASE PowerOffKey \/ PowerOnKey \/ SwitchTask
        BY <4>5 DEF PowerOffKey, PowerOnKey, SwitchTask
      <4>6. CASE wait_dev_online \/ bule_no_connect_to_rtc \/ PromptEnds \/ BtToneStopped
        BY <4>6 DEF wait_dev_online, bule_no_connect_to_rtc, PromptEnds, BtToneStopped
      <4>7. CASE PowerOffToneEnds \/ PowerOffToneStopped
        BY <4>7 DEF PowerOffToneEnds, PowerOffToneStopped, GoIdle
      <4>8. CASE PhoneConnects \/ CallBegins \/ CallEnds \/ idle_vbat_check \/ vbat_check
        BY <4>8 DEF PhoneConnects, CallBegins, CallEnds, idle_vbat_check, vbat_check
      <4>9. CASE PowerLowEvent \/ wait_exit_btstack_flag \/ esco_check_state \/ UNCHANGED vars
        BY <4>9 DEF PowerLowEvent, wait_exit_btstack_flag, esco_check_state, vars
      <4>10. CASE poweroff_done \/ idle_vbat_empty \/ PowerOn
        BY <4>10 DEF poweroff_done, idle_vbat_empty, SoftPowerOff, PowerOn
      <4> QED BY <4>1, <4>2, <4>3, <4>4, <4>5, <4>6, <4>7, <4>8, <4>9, <4>10 DEF Next
    <3>2. snooze' = snooze \union {SnoozeSlot}
      BY <3>1 DEF KEY_TO_ALARM_SLEEP
    <3> QED BY <3>2
  <2>3. n = number
    <3>1. number \in {1, 2}
      BY <2>1, NumberBelongs
    <3> QED BY <1>1, <2>2, <3>1 DEF SnoozeSlot, SnoozeOf
  <2> QED BY <2>1, <2>3, NumberBelongs
<1>2. ASSUME RingInv, [Next]_vars
      PROVE  [\A n \in 1..2 :
                Calm /\ SnoozeOf(n) \in snooze' \ snooze /\ tone = "alarm"
                  => ringing \intersect SlotsOf(n) # {}]_vars
  BY <1>1, <1>2
<1> QED BY <1>2, RingInvariant, PTL DEF Spec, SnoozeBelongs

(* Fewer timers are left behind than alarms may come: the last one to come  *)
(* has the recorded timer.                                                  *)
LEMMA StepOrphans ==
  ASSUME RingWaits, Asleep, orphans <= MaxOrphans, [Next]_vars
  PROVE  orphans' <= MaxOrphans
<1> USE DEF power, switching, ring, flags, phone, bt, wakeup
<1>a. orphans \in Nat /\ MaxOrphans \in Nat
  BY BoundAssumption DEF RingWaits, Waits
<1>b. ASSUME orphans' = orphans PROVE orphans' <= MaxOrphans
  BY <1>b
<1>1. CASE AlarmEvent
  <2>1. UNCHANGED orphans \/ stop' = TRUE
    BY <1>1 DEF AlarmEvent, alarm_ring_start
  <2>2. CASE stop' = TRUE
    <3>1. RingWaits'
      BY StepWaits
    <3>2. /\ orphans' \in Nat /\ Count(events') \in Nat /\ polls' \in Nat /\ One(check') \in Nat
          /\ One(stop') = 1
          /\ orphans' + (polls' + Count(events') + One(check')) + One(stop') <= MaxOrphans + 1
      BY <2>2, <3>1, CountType, BoundAssumption DEF RingWaits, Waits, Room, Coming, One
    <3> DEFINE o == orphans'
               c == Count(events')
               p == polls'
               k == One(check')
    <3>3. /\ o \in Nat /\ c \in Nat /\ p \in Nat /\ k \in Nat
          /\ o + (p + c + k) + 1 <= MaxOrphans + 1
      BY <3>2
    <3> HIDE DEF o, c, p, k
    <3>4. o <= MaxOrphans
      BY <1>a, <3>3
    <3> QED BY <3>4 DEF o
  <2> QED BY <1>b, <2>1, <2>2
<1>2. CASE ring_stop_timeout \/ KEY_TO_ALARM_SLEEP \/ KEY_TO_ALARM_UNSLEEP
  <2>1. orphans' \in {orphans, IF orphans > 0 THEN orphans - 1 ELSE 0}
    BY <1>2 DEF ring_stop_timeout, KEY_TO_ALARM_SLEEP, KEY_TO_ALARM_UNSLEEP, alarm_stop
  <2> QED BY <1>a, <2>1
<1>3. ASSUME NEW n \in 1..2, AppAlarmDel(n) PROVE orphans' <= MaxOrphans
  BY <1>b, <1>3 DEF AppAlarmDel, alarm_stop
<1>4. CASE poweroff_done \/ idle_vbat_empty
  <2>1. orphans' = 0
    BY <1>4 DEF poweroff_done, idle_vbat_empty, SoftPowerOff
  <2> QED BY <1>a, <2>1
<1>5. CASE alm_wakeup_isr \/ to_set_alm \/ alarm_check \/ AnyKeyLowIdle \/ ring_play_timeout
  BY <1>b, <1>5 DEF alm_wakeup_isr, to_set_alm, alarm_check, AnyKeyLowIdle, ring_play_timeout
<1>6. ASSUME NEW t \in {"poweron", "bt", "music"}, ModeKey(t) PROVE orphans' <= MaxOrphans
  BY <1>b, <1>6 DEF ModeKey
<1>7. CASE PowerOffKey \/ PowerOnKey \/ SwitchTask \/ wait_dev_online \/ bule_no_connect_to_rtc
  BY <1>b, <1>7 DEF PowerOffKey, PowerOnKey, SwitchTask, wait_dev_online, bule_no_connect_to_rtc
<1>8. CASE PromptEnds \/ BtToneStopped \/ PowerOffToneEnds \/ PowerOffToneStopped
  BY <1>b, <1>8 DEF PromptEnds, BtToneStopped, PowerOffToneEnds, PowerOffToneStopped, GoIdle
<1>9. CASE PhoneConnects \/ CallBegins \/ CallEnds \/ idle_vbat_check \/ vbat_check
  BY <1>b, <1>9 DEF PhoneConnects, CallBegins, CallEnds, idle_vbat_check, vbat_check
<1>10. CASE PowerLowEvent \/ wait_exit_btstack_flag \/ esco_check_state
  BY <1>b, <1>10 DEF PowerLowEvent, wait_exit_btstack_flag, esco_check_state
<1>11. CASE PowerOn \/ UNCHANGED vars
  BY <1>b, <1>11 DEF PowerOn, vars
<1> QED
  BY <1>1, <1>2, <1>3, <1>4, <1>5, <1>6, <1>7, <1>8, <1>9, <1>10, <1>11 DEF Next

(* Every variable has its type, however many alarms overlap: the queue, the *)
(* timeouts and the forgotten stop timers stay within their bounds.         *)
THEOREM RingTyped == Spec => []TypeOK
<1> DEFINE Typed == /\ PowerSwitches /\ PhoneSwitches /\ TaskSwitches /\ AlarmSwitches /\ RingSwitches
                    /\ orphans <= MaxOrphans
<1>1. ASSUME Init PROVE Typed
  <2>1. PowerSwitches /\ PhoneSwitches
    BY <1>1 DEF Init, PowerSwitches, PhoneSwitches, Stacks
  <2>5. TaskSwitches
    BY <1>1 DEF Init, TaskSwitches
  <2>2. AlarmSwitches
    BY <1>1 DEF Init, AlarmSwitches
  <2>3. RingSwitches
    BY <1>1 DEF Init, RingSwitches
  <2>4. orphans <= MaxOrphans
    BY <1>1, BoundAssumption DEF Init
  <2> QED BY <2>1, <2>2, <2>3, <2>4, <2>5
<1>2. ASSUME RingInv, Typed, [Next]_vars PROVE Typed'
  BY <1>2, StepPowerSwitches, StepPhoneSwitches, StepTaskSwitches, StepAlarmSwitches, StepRingSwitches,
     StepOrphans
  DEF RingInv
<1>3. ASSUME RingInv, Typed PROVE TypeOK
  <2>1. Values /\ Waits
    BY <1>3 DEF RingInv, RingWaits
  <2>2. /\ task \in Tasks /\ next \in Tasks \union {None}
        /\ number \in 0..2 /\ ringing \subseteq AlarmSlots
        /\ snooze \subseteq {SnoozeOf(1), SnoozeOf(2)}
        /\ tone \in Prompts \union {None, "alarm"}
    BY <2>1 DEF Values, SnoozeOf, Prompts
  <2>3. /\ events \in Seq({"alm", "low", "poweroff", "bt"}) /\ Len(events) <= MaxEvents
        /\ polls \in 0..MaxPolls /\ orphans \in 0..MaxOrphans
    BY <1>3, <2>1, BoundAssumption DEF Waits, Queue, Kinds
  <2>4. {keys, first, wait, user_poweroff} \subseteq BOOLEAN
    BY <1>3 DEF PowerSwitches
  <2>5. {linked, call, vbat_ok, auto} \subseteq BOOLEAN /\ stack \in Stacks
    BY <1>3 DEF PhoneSwitches
  <2>6. {active, alarm_power_on, idle_powerlow, tone_end} \subseteq BOOLEAN
    BY <1>3 DEF AlarmSwitches
  <2>7. {check, retry, stop, exiting} \subseteq BOOLEAN
    BY <1>3 DEF RingSwitches
  <2>8. {back, goto_poweroff, force, esco} \subseteq BOOLEAN
    BY <1>3 DEF TaskSwitches
  <2>9. {keys, first, wait, auto, linked, call, user_poweroff, vbat_ok, active, alarm_power_on,
         idle_powerlow, tone_end, check, retry, stop, exiting, back, goto_poweroff, force, esco}
          \subseteq BOOLEAN
    BY <2>4, <2>5, <2>6, <2>7, <2>8, Zenon
  <2> QED BY <2>2, <2>3, <2>5, <2>9 DEF TypeOK
<1> HIDE DEF Typed
<1> QED BY <1>1, <1>2, <1>3, RingInvariant, PTL DEF Spec


-----------------------------------------------------------------------------
(* A speaker that the alarm has started.                                    *)

(* Where the timers, the tones and the background of a task are found.      *)
Places ==
  /\ auto => task = "bt" /\ stack = "open" /\ ~ linked
  /\ task = "idle" \/ next = "idle" => ~ back
  /\ task = "idle" => first
  /\ tone = "poweron" => task = "poweron"

LEMMA AskedPlaces ==
  ASSUME Places, NEW t, app_task_switch_to(t), t = "idle" \/ next # "idle" \/ task # "bt"
  PROVE  task = "idle" \/ next' = "idle" => ~ back'
<1>1. CASE t = "idle"
  BY <1>1 DEF app_task_switch_to
<1>2. CASE t # "idle"
  <2>1. next' \in {next, t}
    BY Asked
  <2>2. CASE task = "idle" \/ next = "idle"
    <3>1. ~ back /\ task # "bt"
      BY <1>2, <2>2 DEF Places
    <3> QED BY <3>1 DEF app_task_switch_to
  <2> QED BY <1>2, <2>1, <2>2
<1> QED BY <1>1, <1>2

LEMMA StepPlaces == ASSUME Places, Asleep, [Next]_vars PROVE Places'
<1> USE DEF Places, None, power, switching, ring, flags, phone, bt, wakeup
<1>a. ASSUME UNCHANGED <<auto, task, stack, linked, next, back, first>>, tone' = tone \/ tone' # "poweron"
      PROVE  Places'
  BY <1>a
(* A change of task is asked for. *)
<1>b. ASSUME NEW t, app_task_switch_to(t), Turn, auto' => auto,
             UNCHANGED <<task, stack, linked, first>>, tone' = tone \/ tone' # "poweron"
      PROVE  Places'
  <2>1. next # "idle" \/ task # "bt"
    BY <1>b DEF Turn
  <2>2. task = "idle" \/ next' = "idle" => ~ back'
    BY <1>b, <2>1, AskedPlaces
  <2> QED BY <1>b, <2>2
(* Bluetooth is started. *)
<1>c. ASSUME bt_tone_play_end_callback, UNCHANGED <<task, linked, next, back, first>>,
             tone' = tone \/ tone' # "poweron"
      PROVE  Places'
  <2>1. CASE task = "bt"
    <3>1. bt_task_start
      BY <1>c, <2>1 DEF bt_tone_play_end_callback
    <3>2. auto' => stack' = "open" /\ ~ linked
      <4>1. CASE Started
        BY <3>1, <4>1 DEF bt_task_start
      <4>2. CASE ~ Started
        <5>1. ~ auto
          BY <4>2 DEF Started
        <5> QED BY <3>1, <4>2, <5>1 DEF bt_task_start
      <4> QED BY <4>1, <4>2
    <3> QED BY <1>c, <2>1, <3>2
  <2>2. CASE task # "bt"
    BY <1>a, <1>c, <2>2 DEF bt_tone_play_end_callback
  <2> QED BY <2>1, <2>2
(* The power-off is prepared. *)
<1>d. ASSUME sys_enter_soft_poweroff, UNCHANGED <<auto, task, stack, linked, first, tone>>
      PROVE  Places'
  <2>1. next' \in {next, "bt"} /\ (~ back => back' = back)
    BY <1>d DEF sys_enter_soft_poweroff
  <2> QED BY <1>d, <2>1
<1>1. CASE alm_wakeup_isr
  <2>1. UNCHANGED <<auto, task, stack, linked, first, tone>>
    BY <1>1 DEF alm_wakeup_isr
  <2>2. CASE task = "idle" /\ vbat_ok
    <3>1. app_task_switch_to("poweron")
      BY <1>1, <2>2 DEF alm_wakeup_isr
    <3>2. task = "idle" \/ next' = "idle" => ~ back'
      BY <2>2, <3>1, AskedPlaces
    <3> QED BY <2>1, <3>2
  <2>3. CASE ~ (task = "idle" /\ vbat_ok)
    <3>1. UNCHANGED <<next, back>>
      BY <1>1, <2>3 DEF alm_wakeup_isr
    <3> QED BY <1>a, <2>1, <3>1
  <2> QED BY <2>2, <2>3
<1>2. CASE AlarmEvent \/ ring_play_timeout
  <2>1. UNCHANGED <<auto, task, stack, linked, next, back, first>>
    BY <1>2 DEF AlarmEvent, ring_play_timeout
  <2>2. tone' \in {tone, "alarm"}
    BY <1>2 DEF AlarmEvent, alarm_ring_start, ring_play_timeout
  <2> QED BY <1>a, <2>1, <2>2
<1>3. CASE ring_stop_timeout \/ KEY_TO_ALARM_SLEEP \/ KEY_TO_ALARM_UNSLEEP
  <2>1. UNCHANGED <<auto, task, stack, linked, next, back, first>>
    BY <1>3 DEF ring_stop_timeout, KEY_TO_ALARM_SLEEP, KEY_TO_ALARM_UNSLEEP
  <2>2. tone' = None
    BY <1>3 DEF ring_stop_timeout, KEY_TO_ALARM_SLEEP, KEY_TO_ALARM_UNSLEEP, alarm_stop
  <2> QED BY <1>a, <2>1, <2>2
<1>4. ASSUME NEW n \in 1..2, AppAlarmDel(n) PROVE Places'
  <2>1. UNCHANGED <<auto, task, stack, linked, next, back, first>>
    BY <1>4 DEF AppAlarmDel
  <2>2. tone' = None
    BY <1>4 DEF AppAlarmDel, alarm_stop
  <2> QED BY <1>a, <2>1, <2>2
<1>5. ASSUME NEW t \in {"poweron", "bt", "music"}, ModeKey(t) PROVE Places'
  <2>1. app_task_switch_to(t) /\ Turn /\ UNCHANGED <<auto, task, stack, linked, first, tone>>
    BY <1>5 DEF ModeKey, Pressed
  <2> QED BY <1>b, <2>1
<1>6. CASE PowerOffKey
  BY <1>a, <1>6 DEF PowerOffKey
<1>7. CASE PowerOnKey
  BY <1>7 DEF PowerOnKey
<1>8. CASE SwitchTask
  <2>1. /\ task' = next /\ next' = None /\ UNCHANGED back
        /\ first' = (next = "idle" \/ (first /\ next # "poweron"))
        /\ tone' = "poweron" => next = "poweron" \/ (tone = "poweron" /\ task # "poweron")
        /\ linked' => linked
    BY <1>8 DEF SwitchTask
  <2>2. auto' => task' = "bt" /\ stack' = "open" /\ ~ linked
    <3>1. CASE next = "bt" /\ active
      <4>1. bt_task_start
        BY <1>8, <3>1 DEF SwitchTask
      <4>2. CASE Started
        BY <2>1, <3>1, <4>1, <4>2 DEF bt_task_start
      <4>3. CASE ~ Started
        <5>1. ~ auto
          BY <4>3 DEF Started
        <5> QED BY <2>1, <3>1, <4>1, <4>3, <5>1 DEF bt_task_start
      <4> QED BY <4>2, <4>3
    <3>2. CASE ~ (next = "bt" /\ active)
      <4>1. auto' = (auto /\ ~ (task = "bt" /\ stack = "open"))
        BY <1>8, <3>2 DEF SwitchTask
      <4> QED BY <4>1
    <3> QED BY <3>1, <3>2
  <2> QED BY <2>1, <2>2
<1>9. CASE wait_dev_online
  <2>1. Turn /\ UNCHANGED <<auto, task, stack, linked, first, tone>>
    BY <1>9 DEF wait_dev_online
  <2>2. UNCHANGED <<next, back>> \/ app_task_switch_to("music") \/ app_task_switch_to("bt")
    BY <1>9 DEF wait_dev_online
  <2> QED BY <1>a, <1>b, <2>1, <2>2
<1>10. CASE bule_no_connect_to_rtc \/ wait_exit_btstack_flag
  <2>1. /\ Turn /\ (auto' => auto) /\ UNCHANGED <<task, stack, linked, first, tone>>
        /\ \E t : app_task_switch_to(t)
    BY <1>10 DEF bule_no_connect_to_rtc, wait_exit_btstack_flag
  <2> QED BY <1>b, <2>1
<1>11. CASE PromptEnds
  <2>1. /\ UNCHANGED <<task, linked, next, back, first>> /\ tone' = None
        /\ UNCHANGED <<stack, auto>> \/ bt_tone_play_end_callback
    BY <1>11 DEF PromptEnds
  <2> QED BY <1>a, <1>c, <2>1
<1>12. CASE BtToneStopped
  <2>1. UNCHANGED <<task, linked, next, back, first, tone>> /\ bt_tone_play_end_callback
    BY <1>12 DEF BtToneStopped
  <2> QED BY <1>c, <2>1
<1>13. CASE PowerOffToneEnds \/ PowerOffToneStopped
  <2>1. /\ Turn /\ UNCHANGED <<auto, task, stack, linked, first>>
        /\ app_task_switch_to("idle") /\ tone' \in {tone, None}
    BY <1>13 DEF PowerOffToneEnds, PowerOffToneStopped, GoIdle, GoesIdle
  <2> QED BY <1>b, <2>1
<1>14. CASE PhoneConnects
  BY <1>14 DEF PhoneConnects
<1>15. CASE PowerLowEvent \/ esco_check_state
  <2>1. sys_enter_soft_poweroff /\ UNCHANGED <<auto, task, stack, linked, first, tone>>
    BY <1>15 DEF PowerLowEvent, esco_check_state
  <2> QED BY <1>d, <2>1
<1>16. CASE poweroff_done \/ idle_vbat_empty
  BY <1>16 DEF poweroff_done, idle_vbat_empty, SoftPowerOff
<1>17. CASE PowerOn
  BY <1>17 DEF PowerOn, Asleep, Cleared
<1>18. CASE to_set_alm \/ alarm_check \/ AnyKeyLowIdle
  BY <1>a, <1>18 DEF to_set_alm, alarm_check, AnyKeyLowIdle
<1>19. CASE CallBegins \/ CallEnds \/ idle_vbat_check \/ vbat_check \/ UNCHANGED vars
  BY <1>a, <1>19 DEF CallBegins, CallEnds, idle_vbat_check, vbat_check, vars
<1> QED
  BY <1>1, <1>2, <1>3, <1>4, <1>5, <1>6, <1>7, <1>8, <1>9, <1>10, <1>11, <1>12, <1>13, <1>14,
     <1>15, <1>16, <1>17, <1>18, <1>19 DEF Next

Woken == alarm_power_on \/ idle_powerlow
Stays == next \in {None, "poweroff"}
Held == Stays /\ ~ auto /\ (task = "poweron" /\ wait => alarm_power_on) /\ task # "idle"
Alm == Has(events, "alm")

(* The alarm that has started the speaker is active, and from the moment    *)
(* its start is over and its event on the way, no change of task is waiting *)
(* or can be asked for but to the power-off task.  Bluetooth, where it can  *)
(* have come to, is on already, and nothing of it is in the background.     *)
OnItsWay ==
  /\ Woken => active /\ next # "idle" /\ ~ back
  /\ alarm_power_on => /\ task \in {"poweron", "poweroff"} /\ ~ idle_powerlow
                       /\ check \/ Alm \/ stop \/ task = "poweroff"
  /\ idle_powerlow /\ task = "idle" => polls > 0 /\ next \in {"poweron", "poweroff"}
  /\ Woken /\ (check \/ Alm \/ stop \/ tone_end) => Held
  /\ tone_end => polls > 0
  /\ idle_powerlow => polls > 0 \/ Alm \/ stop \/ task = "poweroff"
  /\ Woken /\ task = "poweroff" => Stays
  /\ idle_powerlow /\ wait /\ task # "idle" => task \in {"poweron", "poweroff"} /\ Stays
  /\ idle_powerlow => tone # "poweron"
  /\ idle_powerlow /\ task = "bt" => Started

(* The one alarm is in one place.                                           *)
LEMMA OnePlace ==
  ASSUME Waits, OneAlarm
  PROVE  /\ polls \in {0, 1}
         /\ polls > 0 => ~ check /\ ~ Alm /\ ~ stop
         /\ check => ~ Alm /\ ~ stop
         /\ Alm => ~ stop
         /\ ~ active => polls = 0 /\ ~ check /\ ~ Alm /\ ~ stop
<1>1. /\ events \in Queue /\ Count(events) \in Nat /\ polls \in Nat
      /\ (Count(events) = 0 <=> ~ Alm)
  BY CountType, BoundAssumption DEF Waits, Alm
<1>2. One(check) \in {0, 1} /\ One(stop) \in {0, 1}
  BY DEF One
<1>3. polls + Count(events) + One(check) + One(stop) <= 1
  BY <1>1, <1>2 DEF OneAlarm, Coming
<1>4. (One(check) = 1 <=> check) /\ (One(stop) = 1 <=> stop)
  BY DEF One
<1>5. ~ active => polls = 0 /\ Count(events) = 0 /\ One(check) = 0 /\ ~ stop
  BY <1>1, <1>2 DEF OneAlarm, Coming
<1> QED BY <1>1, <1>2, <1>3, <1>4, <1>5

LEMMA StepOnItsWay ==
  ASSUME Waits, Asleep, Calm, OneAlarm, PromptAlone, Places, Places', OnItsWay, [Next]_vars
  PROVE  OnItsWay'
<1> USE DEF Woken, Stays, Held, power, switching, ring, flags, phone, bt, wakeup
<1>a. events \in Queue
  BY DEF Waits
<1>b. /\ polls \in {0, 1}
      /\ polls > 0 => ~ check /\ ~ Alm /\ ~ stop
      /\ check => ~ Alm /\ ~ stop
      /\ Alm => ~ stop
      /\ ~ active => polls = 0 /\ ~ check /\ ~ Alm /\ ~ stop
  BY OnePlace
<1>c. ASSUME UNCHANGED <<alarm_power_on, idle_powerlow, active, next, back, task, polls, check, Alm,
                         stop, tone_end, auto, wait, stack>>,
             tone' = tone \/ tone' # "poweron"
      PROVE  OnItsWay'
  BY <1>c DEF OnItsWay, Started
(* Without an alarm that has started the speaker. *)
<1>d. ASSUME ~ alarm_power_on', ~ idle_powerlow', tone_end' => polls' > 0 PROVE OnItsWay'
  BY <1>d DEF OnItsWay
<1>e. ~ active => ~ alarm_power_on /\ ~ idle_powerlow
  BY DEF OnItsWay
<1>f. Has(Append(events, "alm"), "alm")
  BY <1>a, Posted DEF Kinds
<1>g. ASSUME UNCHANGED events PROVE UNCHANGED Alm
  BY <1>g DEF Alm
<1>h. ASSUME events # << >>, Head(events) # "alm", events' = Tail(events) PROVE Alm' <=> Alm
  <2>1. /\ Has(Tail(events), "alm") => Has(events, "alm")
        /\ Has(events, "alm") => Has(Tail(events), "alm")
    BY <1>a, <1>h, Taken
  <2> QED BY <1>h, <2>1 DEF Alm
(* Bluetooth is on where such an alarm is. *)
<1>i. ASSUME bt_tone_play_end_callback, Woken PROVE UNCHANGED <<stack, auto>>
  <2>1. CASE task = "bt"
    <3>1. Started
      BY <1>i, <2>1 DEF OnItsWay
    <3> QED BY <1>i, <2>1, <3>1 DEF bt_tone_play_end_callback, bt_task_start
  <2>2. CASE task # "bt"
    BY <1>i, <2>2 DEF bt_tone_play_end_callback
  <2> QED BY <2>1, <2>2
<1>j. ASSUME ~ Woken, UNCHANGED <<alarm_power_on, idle_powerlow, polls, tone_end>> PROVE OnItsWay'
  BY <1>d, <1>j DEF OnItsWay
<1>k. ASSUME sys_enter_soft_poweroff, Woken PROVE UNCHANGED <<next, back>>
  BY <1>k DEF sys_enter_soft_poweroff, OnItsWay
<1>1. CASE alm_wakeup_isr
  <2>1. /\ ~ active /\ active' = TRUE
        /\ UNCHANGED <<alarm_power_on, task, check, stop, tone_end, tone, stack>>
    BY <1>1 DEF alm_wakeup_isr, Calm
  <2>2. ~ alarm_power_on /\ ~ idle_powerlow /\ polls = 0 /\ ~ check /\ ~ Alm /\ ~ stop /\ ~ tone_end
    BY <1>b, <1>e, <2>1 DEF OnItsWay
  <2>3. CASE task = "idle" /\ vbat_ok
    <3>1. /\ idle_powerlow' = TRUE /\ app_task_switch_to("poweron") /\ polls' = polls + 1
          /\ events' = events
      BY <1>1, <2>3 DEF alm_wakeup_isr
    <3>2. next' = "poweron" /\ ~ back'
      BY <2>3, <3>1 DEF app_task_switch_to, Refused, Places
    <3>3. tone # "poweron" /\ polls' > 0 /\ ~ Alm'
      BY <1>g, <2>2, <2>3, <3>1 DEF Places
    <3> QED BY <2>1, <2>2, <2>3, <3>1, <3>2, <3>3 DEF OnItsWay
  <2>4. CASE ~ (task = "idle" /\ vbat_ok)
    <3>1. idle_powerlow' = idle_powerlow
      BY <1>1, <2>4 DEF alm_wakeup_isr
    <3> QED BY <1>d, <2>1, <2>2, <3>1
  <2> QED BY <2>3, <2>4
<1>2. CASE to_set_alm
  <2>1. /\ polls > 0 /\ tone_end /\ tone_end' = FALSE /\ polls' = polls - 1
        /\ events' = Append(events, "alm")
        /\ UNCHANGED <<alarm_power_on, idle_powerlow, active, next, back, task, check, stop, auto,
                       wait, tone, stack>>
    BY <1>2 DEF to_set_alm
  <2>2. Alm'
    BY <1>f, <2>1 DEF Alm
  <2> QED BY <1>b, <2>1, <2>2 DEF OnItsWay, Started
<1>3. CASE alarm_check
  <2>1. /\ check /\ check' = FALSE
        /\ events' = Append(events, "alm")
        /\ UNCHANGED <<alarm_power_on, idle_powerlow, active, next, back, task, polls, stop, tone_end,
                       auto, wait, tone, stack>>
    BY <1>3 DEF alarm_check
  <2>2. Alm'
    BY <1>f, <2>1 DEF Alm
  <2> QED BY <1>b, <2>1, <2>2 DEF OnItsWay, Started
<1>4. CASE AlarmEvent
  <2>1. /\ events # << >> /\ Head(events) = "alm" /\ events' = Tail(events)
        /\ UNCHANGED <<alarm_power_on, idle_powerlow, active, next, back, task, polls, check,
                       tone_end, auto, wait, vbat_ok, stack>>
        /\ tone' \in {tone, "alarm"}
        /\ (task = "poweroff" \/ (task = "idle" /\ ~ vbat_ok) => stop' = stop)
        /\ (task # "poweroff" /\ (task # "idle" \/ vbat_ok) => stop' = TRUE)
    BY <1>4 DEF AlarmEvent, alarm_ring_start
  <2>2. Alm
    <3>1. events \in Seq(Kinds)
      BY <1>a DEF Queue
    <3>2. 1 \in DOMAIN events /\ events[1] = "alm"
      BY <2>1, <3>1, HeadTailProperties, EmptySeq, LenProperties
    <3> QED BY <3>2 DEF Alm, Has
  <2>3. (Woken => Held) /\ polls = 0 /\ ~ tone_end
    BY <1>b, <2>2 DEF OnItsWay
  <2> QED BY <2>1, <2>2, <2>3 DEF OnItsWay, Started
<1>5. CASE ring_play_timeout
  <2>1. tone' = "alarm" /\ events' = events
        /\ UNCHANGED <<alarm_power_on, idle_powerlow, active, next, back, task, polls, check,
                       stop, tone_end, auto, wait, stack>>
    BY <1>5 DEF ring_play_timeout
  <2> QED BY <1>c, <1>g, <2>1
<1>6. CASE ring_stop_timeout \/ KEY_TO_ALARM_SLEEP \/ KEY_TO_ALARM_UNSLEEP
  <2>1. alarm_power_on' = FALSE /\ idle_powerlow' = FALSE /\ UNCHANGED <<tone_end, polls>>
    BY <1>6 DEF ring_stop_timeout, KEY_TO_ALARM_SLEEP, KEY_TO_ALARM_UNSLEEP, alarm_stop
  <2> QED BY <1>d, <2>1 DEF OnItsWay
<1>7. ASSUME NEW n \in 1..2, AppAlarmDel(n) PROVE OnItsWay'
  <2>1. alarm_power_on' = FALSE /\ idle_powerlow' = FALSE /\ UNCHANGED <<tone_end, polls>>
    BY <1>7 DEF AppAlarmDel, alarm_stop
  <2> QED BY <1>d, <2>1 DEF OnItsWay
<1>8. CASE AnyKeyLowIdle
  <2>1. /\ InTime /\ active /\ task = "idle"
        /\ UNCHANGED <<alarm_power_on, idle_powerlow, tone_end, polls>>
    BY <1>8 DEF AnyKeyLowIdle, LowIdle, Pressed
  <2>2. Coming = 0
    BY <2>1, KeyFinds
  <2>3. polls = 0
    BY <1>a, <1>b, <2>2, CountType DEF Coming, One
  <2> QED BY <1>d, <2>1, <2>3 DEF OnItsWay
<1>9. ASSUME NEW t \in {"poweron", "bt", "music"}, ModeKey(t) PROVE OnItsWay'
  <2>1. ~ active /\ UNCHANGED <<alarm_power_on, idle_powerlow, tone_end, polls>>
    BY <1>9 DEF ModeKey
  <2> QED BY <1>d, <1>e, <2>1 DEF OnItsWay
<1>10. CASE PowerOffKey \/ PowerOnKey
  <2>1. ~ active /\ UNCHANGED <<alarm_power_on, idle_powerlow, tone_end, polls>>
    BY <1>10 DEF PowerOffKey, PowerOnKey
  <2> QED BY <1>d, <1>e, <2>1 DEF OnItsWay
<1>11. CASE SwitchTask
  <2>1. /\ next # None /\ task' = next /\ next' = None /\ task # "poweroff"
        /\ UNCHANGED <<alarm_power_on, idle_powerlow, active, back, polls, check, stop>>
        /\ wait' = (wait \/ (next = "poweron" /\ first))
    BY <1>11 DEF SwitchTask
  <2>2. tone_end' = IF next = "poweron" /\ ~ first THEN tone_end \/ idle_powerlow ELSE tone_end
    BY <1>11 DEF SwitchTask, power_on_init
  <2>3. (Alm' => Alm) /\ (next # "poweroff" => (Alm => Alm'))
    BY <1>11, <1>a, SwitchPosts DEF Alm
  <2>4. tone' = "poweron" => ~ idle_powerlow \/ tone = "poweron"
    BY <1>11 DEF SwitchTask, None
  <2>5. CASE ~ Woken
    <3>1. tone_end' => polls' > 0
      BY <2>1, <2>2, <2>5 DEF OnItsWay
    <3> QED BY <1>d, <2>1, <2>5, <3>1
  <2>6. CASE Woken
    <3>1. /\ active /\ next # "idle" /\ ~ back
          /\ (check \/ Alm \/ stop \/ tone_end => next = "poweroff")
      BY <2>1, <2>6 DEF OnItsWay
    <3>2. tone_end' => polls' > 0
      BY <2>1, <2>2, <3>1 DEF OnItsWay, None
    <3>3. idle_powerlow' => polls' > 0 \/ Alm' \/ stop' \/ task' = "poweroff"
      BY <2>1, <2>3 DEF OnItsWay
    <3>4. idle_powerlow' => tone' # "poweron"
      BY <2>1, <2>4, <3>1 DEF OnItsWay
    <3>5. idle_powerlow' /\ wait' /\ task' # "idle" => task' \in {"poweron", "poweroff"}
      BY <2>1 DEF OnItsWay
    <3>6. auto' => task' = "bt"
      BY DEF Places
    <3>7. check' \/ Alm' \/ stop' \/ tone_end' => Held'
      <4>1. CASE next = "poweroff"
        BY <2>1, <3>6, <4>1
      <4>2. CASE next # "poweroff"
        <5>1. ~ check' /\ ~ Alm' /\ ~ stop' /\ ~ tone_end
          BY <2>1, <2>3, <3>1, <4>2
        <5>2. tone_end' => next = "poweron" /\ ~ first /\ idle_powerlow
          BY <2>2, <5>1
        <5>3. tone_end' => ~ wait
          BY <2>1, <4>2, <5>2 DEF OnItsWay, Places
        <5> QED BY <2>1, <3>6, <5>1, <5>2, <5>3
      <4> QED BY <4>1, <4>2
    <3>8. alarm_power_on' => task' = "poweroff" /\ ~ idle_powerlow'
      BY <2>1, <3>1 DEF OnItsWay
    <3>9. idle_powerlow' /\ task' = "bt" => Started'
      <4>1. task' = "bt" => bt_task_start
        BY <1>11, <2>1, <3>1 DEF SwitchTask
      <4>2. bt_task_start => Started'
        BY DEF bt_task_start, Started
      <4> QED BY <4>1, <4>2
    <3> QED BY <2>1, <3>1, <3>2, <3>3, <3>4, <3>5, <3>7, <3>8, <3>9 DEF OnItsWay, None
  <2> QED BY <2>5, <2>6
<1>12. CASE wait_dev_online
  <2>1. /\ wait /\ Turn /\ wait' = FALSE /\ events' = events
        /\ UNCHANGED <<alarm_power_on, idle_powerlow, active, task, polls, check, stop, auto, tone,
                       stack>>
    BY <1>12 DEF wait_dev_online
  <2>2. UNCHANGED Alm
    BY <1>g, <2>1
  <2>3. CASE task # "poweron"
    <3>1. UNCHANGED <<next, back, tone_end>>
      BY <1>12, <2>3 DEF wait_dev_online
    <3> QED BY <2>1, <2>2, <2>3, <3>1 DEF OnItsWay, Started
  <2>4. CASE task = "poweron"
    <3>1. next = None
      BY <2>1, <2>4 DEF Turn
    <3>2. \/ ~ Woken /\ tone_end' = tone_end
          \/ alarm_power_on /\ tone_end' = (tone_end \/ idle_powerlow) /\ UNCHANGED <<next, back>>
          \/ ~ alarm_power_on /\ app_task_switch_to("bt") /\ tone_end' = tone_end
      BY <1>12, <2>4 DEF wait_dev_online, ToMusic, power_on_init
    <3>3. CASE alarm_power_on
      <4>1. (tone_end' => tone_end) /\ next' = next /\ back' = back
        BY <3>2, <3>3 DEF OnItsWay
      <4> QED BY <2>1, <2>2, <2>4, <3>1, <3>3, <4>1 DEF OnItsWay
    <3>4. CASE ~ alarm_power_on /\ idle_powerlow
      <4>1. app_task_switch_to("bt") /\ tone_end' = tone_end
        BY <3>2, <3>4
      <4>2. next' \in {None, "bt"} /\ back' = back
        BY <2>4, <3>1, <4>1, Asked DEF app_task_switch_to
      <4>3. ~ check /\ ~ Alm /\ ~ stop /\ ~ tone_end
        BY <2>1, <2>4, <3>4 DEF OnItsWay
      <4> QED BY <2>1, <2>2, <2>4, <3>4, <4>1, <4>2, <4>3 DEF OnItsWay, None
    <3>5. CASE ~ Woken
      <4>1. tone_end' = tone_end
        BY <3>2, <3>5
      <4> QED BY <1>j, <2>1, <3>5, <4>1
    <3> QED BY <3>3, <3>4, <3>5
  <2> QED BY <2>3, <2>4
<1>13. CASE bule_no_connect_to_rtc
  <2>1. /\ auto /\ task = "bt" /\ ~ linked /\ auto' = FALSE /\ events' = events
        /\ app_task_switch_to("poweron")
        /\ UNCHANGED <<alarm_power_on, idle_powerlow, active, task, polls, check, stop, tone_end,
                       wait, tone, stack>>
    BY <1>13 DEF bule_no_connect_to_rtc, Places
  <2>2. UNCHANGED Alm
    BY <1>g, <2>1
  <2>3. Woken => ~ check /\ ~ Alm /\ ~ stop /\ ~ tone_end
    BY <2>1 DEF OnItsWay
  <2>4. idle_powerlow => ~ wait
    BY <2>1 DEF OnItsWay
  <2>5. next' \in {next, "poweron"} /\ back' = linked
    BY <2>1, Asked DEF app_task_switch_to
  <2> QED BY <2>1, <2>2, <2>3, <2>4, <2>5 DEF OnItsWay, Started
<1>14. CASE PromptEnds
  <2>1. /\ tone' = None /\ tone \in {"poweron", "bt"}
        /\ UNCHANGED <<alarm_power_on, idle_powerlow, active, next, back, task, polls, check, stop,
                       wait, events>>
    BY <1>14 DEF PromptEnds
  <2>2. UNCHANGED Alm
    BY <1>g, <2>1
  <2>3. CASE tone = "poweron"
    <3>1. ~ idle_powerlow
      BY <2>3 DEF OnItsWay
    <3>2. (tone_end' => tone_end) /\ UNCHANGED <<stack, auto>>
      BY <1>14, <2>3, <3>1 DEF PromptEnds, power_on_init
    <3> QED BY <2>1, <2>2, <3>1, <3>2 DEF OnItsWay, None
  <2>4. CASE tone = "bt"
    <3>1. bt_tone_play_end_callback /\ UNCHANGED tone_end
      BY <1>14, <2>4 DEF PromptEnds
    <3>2. CASE Woken
      BY <1>c, <1>i, <2>1, <2>2, <3>1, <3>2 DEF None
    <3>3. CASE ~ Woken
      BY <1>j, <2>1, <3>1, <3>3
    <3> QED BY <3>2, <3>3
  <2> QED BY <2>1, <2>3, <2>4
<1>15. CASE BtToneStopped
  <2>1. /\ events # << >> /\ Head(events) = "bt" /\ events' = Tail(events)
        /\ bt_tone_play_end_callback
        /\ UNCHANGED <<alarm_power_on, idle_powerlow, active, next, back, task, polls, check, stop,
                       tone_end, wait, tone>>
    BY <1>15 DEF BtToneStopped
  <2>2. Alm' <=> Alm
    BY <1>h, <2>1
  <2>3. CASE Woken
    <3>1. UNCHANGED <<stack, auto>>
      BY <1>i, <2>1, <2>3
    <3> QED BY <2>1, <2>2, <3>1 DEF OnItsWay, Started
  <2>4. CASE ~ Woken
    BY <1>j, <2>1, <2>4
  <2> QED BY <2>3, <2>4
<1>16. CASE PowerOffToneEnds \/ PowerOffToneStopped
  <2>1. tone = "poweroff" \/ Has(events, "poweroff")
    <3>1. CASE PowerOffToneEnds
      BY <3>1 DEF PowerOffToneEnds
    <3>2. CASE PowerOffToneStopped
      <4>1. events # << >> /\ Head(events) = "poweroff" /\ events \in Seq(Kinds)
        BY <1>a, <3>2 DEF PowerOffToneStopped, Queue
      <4>2. 1 \in DOMAIN events /\ events[1] = "poweroff"
        BY <4>1, HeadTailProperties, EmptySeq, LenProperties
      <4> QED BY <4>2 DEF Has
    <3> QED BY <1>16, <3>1, <3>2
  <2>2. ~ active /\ UNCHANGED <<alarm_power_on, idle_powerlow, tone_end, polls>>
    BY <1>16, <2>1 DEF PromptAlone, PowerOffToneEnds, PowerOffToneStopped, GoIdle
  <2> QED BY <1>d, <1>e, <2>2 DEF OnItsWay
<1>17. CASE PhoneConnects
  <2>1. /\ auto' = FALSE
        /\ UNCHANGED <<alarm_power_on, idle_powerlow, active, next, back, task, polls, check, stop,
                       tone_end, wait, tone, events, stack>>
    BY <1>17 DEF PhoneConnects
  <2> QED BY <1>g, <2>1 DEF OnItsWay, Started
<1>18. CASE CallBegins \/ CallEnds \/ idle_vbat_check \/ UNCHANGED vars
  <2>1. UNCHANGED <<alarm_power_on, idle_powerlow, active, next, back, task, polls, check, events,
                    stop, tone_end, auto, wait, tone, stack>>
    BY <1>18 DEF CallBegins, CallEnds, idle_vbat_check, vars
  <2> QED BY <1>c, <1>g, <2>1
<1>19. CASE vbat_check
  <2>1. /\ events' = Append(events, "low")
        /\ UNCHANGED <<alarm_power_on, idle_powerlow, active, next, back, task, polls, check,
                       stop, tone_end, auto, wait, tone, stack>>
    BY <1>19 DEF vbat_check
  <2>2. Alm' <=> Alm
    BY <1>a, <2>1, Posted DEF Kinds, Alm
  <2> QED BY <2>1, <2>2 DEF OnItsWay, Started
<1>20. CASE PowerLowEvent \/ esco_check_state
  <2>1. /\ sys_enter_soft_poweroff
        /\ UNCHANGED <<alarm_power_on, idle_powerlow, active, task, polls, check,
                       stop, tone_end, auto, wait, tone, stack>>
    BY <1>20 DEF PowerLowEvent, esco_check_state
  <2>2. Alm' <=> Alm
    <3>1. CASE PowerLowEvent
      BY <1>h, <3>1 DEF PowerLowEvent
    <3>2. CASE esco_check_state
      BY <1>g, <3>2 DEF esco_check_state
    <3> QED BY <1>20, <3>1, <3>2
  <2>3. CASE Woken
    BY <1>k, <2>1, <2>2, <2>3 DEF OnItsWay, Started
  <2>4. CASE ~ Woken
    BY <1>j, <2>1, <2>4
  <2> QED BY <2>3, <2>4
<1>21. CASE wait_exit_btstack_flag
  <2>1. /\ app_task_switch_to("poweroff")
        /\ UNCHANGED <<alarm_power_on, idle_powerlow, active, task, polls, check, events, stop,
                       tone_end, auto, wait, tone, stack>>
    BY <1>21 DEF wait_exit_btstack_flag
  <2>2. next' \in {next, "poweroff"} /\ back' = FALSE
    BY <2>1, Asked DEF app_task_switch_to
  <2> QED BY <1>g, <2>1, <2>2 DEF OnItsWay, Started
<1>22. CASE poweroff_done \/ idle_vbat_empty
  BY <1>d, <1>22 DEF poweroff_done, idle_vbat_empty, SoftPowerOff
<1>23. CASE PowerOn
  <2>1. /\ task' = "poweron" /\ next' = None /\ ~ auto' /\ tone' = None /\ ~ back'
        /\ active' = alarm_power_on' /\ check' = alarm_power_on' /\ ~ idle_powerlow' /\ ~ tone_end'
    BY <1>23 DEF PowerOn, Asleep, Cleared
  <2> QED BY <2>1 DEF OnItsWay, None
<1> QED
  BY <1>1, <1>2, <1>3, <1>4, <1>5, <1>6, <1>7, <1>8, <1>9, <1>10, <1>11, <1>12, <1>13, <1>14,
     <1>15, <1>16, <1>17, <1>18, <1>19, <1>20, <1>21, <1>22, <1>23 DEF Next

(* In calm circumstances a speaker that the alarm has started rings until   *)
(* the alarm is stopped or the speaker is turned off: its start is over     *)
(* before the tone, and nothing but a power-off changes the task after it.  *)
THEOREM RingGoesOn == Spec => RingKept
<1> DEFINE Going == Places /\ (Calm => OnItsWay)
<1>1. ASSUME Init PROVE Going
  <2>1. Places
    BY <1>1 DEF Init, Places, None
  <2>2. ~ Alm
    BY <1>1, NoEvent DEF Init, Alm
  <2>3. OnItsWay
    BY <1>1, <2>2 DEF Init, OnItsWay, Woken, Held, Stays, None
  <2> QED BY <2>1, <2>3
<1>2. ASSUME RingInv, Going, [Next]_vars PROVE Going'
  <2>1. Waits /\ Asleep /\ (Calm => Quiet)
    BY <1>2 DEF RingInv, RingWaits
  <2>2. Places'
    BY <1>2, <2>1, StepPlaces
  <2>3. ASSUME Calm' PROVE OnItsWay'
    <3>1. Calm
      BY <1>2, <2>3, EnvStays DEF Calm
    <3> QED BY <1>2, <2>1, <2>2, <3>1, StepOnItsWay DEF Quiet
  <2> QED BY <2>2, <2>3
<1>3. ASSUME RingInv, Going, [Next]_vars, Calm, Woken, tone = "alarm", tone' # "alarm",
             next # "poweroff"
      PROVE  ~ active'
  <2>1. Quiet /\ OnItsWay /\ Asleep
    BY <1>3 DEF RingInv
  <2>2. stop /\ Held /\ active
    BY <1>3, <2>1 DEF Quiet, Sounds, OnItsWay
  <2>3. next = None /\ task # "down"
    BY <1>3, <2>1, <2>2 DEF Held, Stays, Asleep, Cleared
  <2> USE <1>3, <2>2, <2>3 DEF power, switching, ring, flags, phone, bt, wakeup
  <2>4. CASE AlarmEvent
    BY <2>4 DEF AlarmEvent, alarm_ring_start, None
  <2>5. CASE ring_stop_timeout \/ KEY_TO_ALARM_SLEEP \/ KEY_TO_ALARM_UNSLEEP
    BY <2>5 DEF ring_stop_timeout, KEY_TO_ALARM_SLEEP, KEY_TO_ALARM_UNSLEEP, alarm_stop
  <2>6. ASSUME NEW n \in 1..2, AppAlarmDel(n) PROVE ~ active'
    BY <2>6 DEF AppAlarmDel, alarm_stop
  <2>7. CASE PowerOffKey \/ SwitchTask \/ PromptEnds \/ PowerOffToneEnds \/ PowerOn
    BY <2>7 DEF PowerOffKey, SwitchTask, PromptEnds, PowerOffToneEnds, PowerOn
  <2>8. CASE poweroff_done \/ idle_vbat_empty
    BY <2>8 DEF poweroff_done, idle_vbat_empty, SoftPowerOff
  <2>9. CASE alm_wakeup_isr \/ to_set_alm \/ alarm_check \/ AnyKeyLowIdle \/ ring_play_timeout
    BY <2>9 DEF alm_wakeup_isr, to_set_alm, alarm_check, AnyKeyLowIdle, ring_play_timeout
  <2>10. ASSUME NEW t \in {"poweron", "bt", "music"}, ModeKey(t) PROVE ~ active'
    BY <2>10 DEF ModeKey
  <2>11. CASE PowerOnKey \/ wait_dev_online \/ bule_no_connect_to_rtc \/ BtToneStopped
    BY <2>11 DEF PowerOnKey, wait_dev_online, bule_no_connect_to_rtc, BtToneStopped
  <2>12. CASE PowerOffToneStopped \/ PhoneConnects \/ CallBegins \/ CallEnds
    BY <2>12 DEF PowerOffToneStopped, GoIdle, PhoneConnects, CallBegins, CallEnds
  <2>13. CASE idle_vbat_check \/ vbat_check \/ PowerLowEvent
    BY <2>13 DEF idle_vbat_check, vbat_check, PowerLowEvent
  <2>14. CASE wait_exit_btstack_flag \/ esco_check_state \/ UNCHANGED vars
    BY <2>14 DEF wait_exit_btstack_flag, esco_check_state, vars
  <2> QED
    BY <2>4, <2>5, <2>6, <2>7, <2>8, <2>9, <2>10, <2>11, <2>12, <2>13, <2>14 DEF Next
<1>4. ASSUME RingInv, Going, [Next]_vars
      PROVE  [Calm /\ (alarm_power_on \/ idle_powerlow) /\ tone = "alarm" /\ tone' # "alarm"
                => ~ active' \/ next = "poweroff"]_vars
  BY <1>3, <1>4 DEF Woken
<1> HIDE DEF Going
<1> QED BY <1>1, <1>2, <1>4, RingInvariant, PTL DEF Spec, RingKept
=============================================================================
