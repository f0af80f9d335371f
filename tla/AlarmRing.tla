------------------------------ MODULE AlarmRing ------------------------------
(***************************************************************************)
(* What the speaker does when an alarm is due: SDK/apps/soundbox/          *)
(* task_manager/rtc/alarm_user.c, with the parts of the task manager it    *)
(* goes through (power_on.c, idle.c, app_task_switch.c, app_main.c) and    *)
(* the power-off it asks for (app_power_manage.c, bt_event_fun.c).         *)
(*                                                                         *)
(* The interrupt marks the alarm active and posts an event; the event      *)
(* starts an endless ring tone and a timer that stops it; a snooze or stop *)
(* key stops it earlier.  Out of the fake power-off (the idle task) the    *)
(* interrupt first powers the speaker on and the event waits until that is *)
(* done; a speaker the alarm turned on is turned off when the alarm stops. *)
(*                                                                         *)
(* Events, timers and keys are handled one at a time by the application    *)
(* task; only the interrupt runs in between.  A key is handled when it is  *)
(* pressed: waiting in the queue it would be handled in some later state,  *)
(* where it can be pressed as well.                                        *)
(***************************************************************************)
EXTENDS Naturals, Sequences, FiniteSets

CONSTANTS
  Envs,       \* the sets of circumstances a behaviour may have
  MaxEvents,  \* bound: events in the queue
  MaxPolls,   \* bound: to_set_alm timeouts waiting
  MaxOrphans  \* bound: alarms that come before the last one has ended

(* "overlap": an alarm can be due while another is active or the prompt of  *)
(* the power key plays; "early": a key or a phone's command can come before *)
(* the events that wait, and between the interrupt and the alarm's first    *)
(* sound; "quick": a key, a command, an alarm, a call, the end of a prompt  *)
(* or the speaker's start can come in the 50 ms between a power-off and its *)
(* task; "snooze": the user snoozes; "phone": a phone may connect over      *)
(* Bluetooth, and "call" with it; "battery": the battery can run low, and   *)
(* "empty", it can be empty in the fake power-off.                          *)
Circumstances ==
  {"overlap", "early", "quick", "snooze", "phone", "call", "battery", "empty"}
ASSUME EnvAssumption == Envs \subseteq SUBSET Circumstances
ASSUME BoundAssumption ==
  MaxEvents \in Nat /\ MaxPolls \in Nat /\ MaxOrphans \in Nat

(* "bt" and "music" are the working modes; "poweron" shows the clock and    *)
(* "idle" is the fake power-off; "down" is the soft power-off of the chip.  *)
Tasks == {"idle", "poweron", "bt", "music", "poweroff", "down"}
None == "none"

(* The slots of the user's two alarms and of their two snoozes (slot 4 is   *)
(* only reached by a raw index from the phone).                             *)
AlarmSlots == 0..3
SlotsOf(n) == IF n = 1 THEN {0, 2} ELSE {1, 3}
SnoozeOf(n) == n + 1

(* bt_user_priv_var's exit_flag, init_ok and init_start: Bluetooth has not  *)
(* been started, or closed again; it is on; it is in the background, from   *)
(* where it is only resumed.                                                *)
Stacks == {"closed", "open", "suspended", "resumed"}
Prompts == {"poweron", "bt", "poweroff", "goodbye"}

VARIABLES
  env,              \* what may happen in this behaviour
  task, next,       \* app_curr_task, app_next_task
  keys,             \* key events are enabled
  first,            \* user_power_on_flag
  wait,             \* the wait_dev_online timeout
  auto,             \* auto_shut_down_timer
  linked, call,     \* a phone is connected, and has a call
  stack, back,      \* Bluetooth's state, bt_back_mode_falg
  goto_poweroff,    \* app_var.goto_poweroff_flag
  force,            \* force_poweroff: calls are hung up
  esco,             \* an esco_check_state timeout
  vbat_ok,          \* user_of_idle_to_poweron_flag
  events,           \* posted and not handled: "alm", "low", and the end of a
                    \* prompt that was stopped, "poweroff" or "bt"
  active,           \* g_alarm_active_flag
  number,           \* alarm_number_flag, 0 for none
  ringing,          \* alarm_cur_active, while the ring lasts
  snooze,           \* snooze slots that are set
  alarm_power_on,   \* alarm_power_on_flag: started by the alarm
  idle_powerlow,    \* idle_powerlow_flag: the alarm ended the fake power-off
  tone_end,         \* idle_to_poweron_tone_end
  polls,            \* to_set_alm timeouts waiting
  check,            \* the alarm_check timeout
  tone,             \* what is playing: none, the alarm, or the prompt of a
                    \* task, of the power key or of the power-off
  user_poweroff,    \* user_poweroff_flag: the power key was held
  retry,            \* the __alarm_ring_play timeout
  stop, orphans,    \* the recorded stop timer, and those that are not
  exiting           \* wait_exit_timer: on the way to the power-off task

power == <<task, keys, first, wait, user_poweroff>>
switching == <<next, back, goto_poweroff, force, esco>>
phone == <<env, linked, call>>
bt == <<stack, auto>>
ring == <<number, ringing, snooze, tone, retry, stop, orphans>>
flags == <<active, alarm_power_on, idle_powerlow>>
wakeup == <<tone_end, polls, check>>
vars == <<power, switching, exiting, ring, flags, wakeup, phone, bt, vbat_ok, events>>

Init ==
  /\ env \in Envs /\ user_poweroff = FALSE
  /\ task = "poweron" /\ next = None /\ keys = FALSE /\ first = FALSE
  /\ wait = TRUE /\ auto = FALSE /\ linked = FALSE /\ call = FALSE /\ vbat_ok = TRUE
  /\ stack = "closed" /\ back = FALSE /\ goto_poweroff = FALSE /\ force = FALSE
  /\ esco = FALSE
  /\ events = << >> /\ number = 0 /\ ringing = {} /\ snooze = {}
  /\ idle_powerlow = FALSE /\ tone_end = FALSE /\ polls = 0
  /\ tone = None /\ retry = FALSE
  /\ stop = FALSE /\ orphans = 0 /\ exiting = FALSE
  /\ \E byAlarm \in BOOLEAN :
       active = byAlarm /\ alarm_power_on = byAlarm /\ check = byAlarm

Up == task # "down"

(* The application task handles one message at a time and changes task      *)
(* before the next one; only the interrupt asks for a change in the middle  *)
(* of a message, in the fake power-off.  The power-off task never leaves.   *)
Turn ==
  Up /\ \/ next = None
        \/ task = "poweroff"
        \/ task = "idle" /\ next = "poweron" /\ idle_powerlow
CanPost == Len(events) < MaxEvents
LowPosted == \E e \in 1..Len(events) : events[e] = "low"
Slow ==
  exiting \/ LowPosted \/ (task = "idle" /\ next = "poweroff") => "quick" \in env

-----------------------------------------------------------------------------
(* Leaving a task, and Bluetooth.                                           *)

Started == stack \in {"open", "resumed"}

(* bt_app_switch_exit_check: nobody leaves Bluetooth during a call; it is   *)
(* hung up for a power-off that is forced, which is tried again.            *)
NoRetryMutant == UNCHANGED esco
Refused == task = "bt" /\ Started /\ call
TriedAgain == esco' = (esco \/ force)

app_task_switch_to(t) ==
  /\ back' = IF t \in {"idle", "poweroff"} THEN FALSE
             ELSE IF task = "bt" THEN linked ELSE back
  /\ IF t = task
     THEN UNCHANGED <<next, goto_poweroff, force, esco>>
     ELSE IF Refused
     THEN goto_poweroff' = FALSE /\ TriedAgain /\ UNCHANGED <<next, force>>
     ELSE /\ next' = t /\ UNCHANGED <<goto_poweroff, esco>>
          /\ force' = (force /\ ~ (task = "bt" /\ Started))

(* From the background Bluetooth is only resumed; started anew it takes     *)
(* back a power-off that is under way.                                      *)
bt_task_start ==
  LET resumes == back /\ stack = "suspended"
  IN  IF Started
      THEN UNCHANGED <<stack, auto, goto_poweroff>>
      ELSE /\ stack' = IF resumes THEN "resumed" ELSE "open"
           /\ auto' = IF resumes THEN auto ELSE ~ linked
           /\ goto_poweroff' = (goto_poweroff /\ back)

(* The exit timer is started once; a Bluetooth in the background is first   *)
(* called back, to be closed.                                               *)
sys_enter_soft_poweroff ==
  LET calls == back /\ stack = "suspended"
  IN  IF goto_poweroff
      THEN UNCHANGED <<next, back, goto_poweroff, exiting>>
      ELSE /\ goto_poweroff' = TRUE /\ exiting' = TRUE
           /\ next' = IF calls /\ task # "bt" THEN "bt" ELSE next
           /\ back' = IF calls /\ task = "bt" THEN linked ELSE back

-----------------------------------------------------------------------------
(* The interrupt, and the way of its event out of the fake power-off.       *)

(* How many alarms have not ended, at most.                                 *)
Rings == orphans + polls + Len(events) + (IF stop THEN 1 ELSE 0)
                                       + (IF check THEN 1 ELSE 0)

alm_wakeup_isr ==
  /\ Up /\ Slow /\ Rings <= MaxOrphans
  /\ active \/ events # << >> \/ tone = "poweroff" => "overlap" \in env
  /\ active' = TRUE
  /\ IF task = "idle" /\ vbat_ok
     THEN /\ polls < MaxPolls
          /\ idle_powerlow' = TRUE /\ polls' = polls + 1
          /\ app_task_switch_to("poweron")
          /\ UNCHANGED events
     ELSE /\ CanPost /\ events' = Append(events, "alm")
          /\ UNCHANGED <<idle_powerlow, switching, polls>>
  /\ UNCHANGED <<power, exiting, ring, alarm_power_on, tone_end, check, phone, bt,
                 vbat_ok>>

(* The timeout puts itself back until the power-on is over.                 *)
to_set_alm ==
  /\ Turn /\ polls > 0 /\ tone_end /\ CanPost
  /\ events' = Append(events, "alm")
  /\ tone_end' = FALSE /\ polls' = polls - 1
  /\ UNCHANGED <<power, switching, exiting, ring, flags, check, phone, bt, vbat_ok>>

alarm_check ==
  /\ Turn /\ check /\ CanPost
  /\ check' = FALSE /\ events' = Append(events, "alm")
  /\ UNCHANGED <<power, switching, exiting, ring, flags, tone_end, polls, phone, bt,
                 vbat_ok>>

-----------------------------------------------------------------------------
(* The event, the ring and its end.                                         *)

(* What is posted once the tone is stopped: its end, like that of one that  *)
(* has played.                                                              *)
Ended(s, t) == IF t \in {"poweroff", "bt"} THEN Append(s, t) ELSE s
Stopped == Ended(events, tone)

Prompting == tone \in Prompts

(* Which of the two alarms rings (alarm_update_info_after_isr).             *)
SlotNumberMutant(A) == 1 + CHOOSE slot \in A : \A other \in A : slot <= other
AlarmNumber(A) ==
  IF Cardinality(A) = 1 THEN IF A \in {{0}, {2}} THEN 1 ELSE 2
  ELSE IF Cardinality(A) >= 2 /\ 1 \in A /\ 0 \notin A THEN 2 ELSE 1

(* __alarm_ring_play and the stop timer; a timer already there is not       *)
(* cancelled, only forgotten.                                               *)
NoStopTimerMutant ==
  /\ IF tone = None THEN tone' = "alarm" /\ UNCHANGED retry
                    ELSE retry' = TRUE /\ UNCHANGED tone
  /\ UNCHANGED <<stop, orphans>>
alarm_ring_start ==
  /\ IF tone = None THEN tone' = "alarm" /\ UNCHANGED retry
                    ELSE retry' = TRUE /\ UNCHANGED tone
  /\ stop' = TRUE /\ orphans' = IF stop THEN orphans + 1 ELSE orphans

(* alarm_sys_event_handler, with any alarms due (AlarmCore has which).  The *)
(* power-off task drops every event.                                        *)
AlarmEvent ==
  /\ events # << >> /\ Head(events) = "alm" /\ Turn
  /\ events' = Tail(events)
  /\ IF task = "poweroff"
     THEN UNCHANGED <<number, ringing, snooze, tone, retry, stop, orphans>>
     ELSE /\ \E A \in (SUBSET ({0, 1} \union snooze)) \ {{}} :
               /\ ringing' = A /\ number' = AlarmNumber(A)
               /\ snooze' = snooze \ A
          /\ IF task # "idle" \/ vbat_ok
             THEN alarm_ring_start
             ELSE UNCHANGED <<tone, retry, stop, orphans>>
  /\ UNCHANGED <<power, switching, exiting, flags, wakeup, phone, bt, vbat_ok>>

(* The 500 ms timeout puts itself back as long as any tone plays.           *)
ring_play_timeout ==
  /\ Turn /\ retry /\ tone = None
  /\ tone' = "alarm" /\ retry' = FALSE
  /\ UNCHANGED <<power, switching, exiting, flags, wakeup, phone, bt, vbat_ok, events,
                 number, ringing, snooze, stop, orphans>>

(* What alarm_stop does; o stop timers stay behind.  A speaker the alarm    *)
(* turned on is told that its battery is low, which turns it off.           *)
KeepToneMutant(o) ==
  /\ UNCHANGED tone /\ active' = FALSE /\ number' = 0 /\ ringing' = {}
  /\ events' = Stopped \o (IF alarm_power_on THEN <<"low">> ELSE << >>)
                      \o (IF idle_powerlow THEN <<"low">> ELSE << >>)
  /\ alarm_power_on' = FALSE /\ idle_powerlow' = FALSE
  /\ stop' = FALSE /\ orphans' = o
KeepTimerMutant(o) ==
  /\ tone' = None /\ active' = FALSE /\ number' = 0 /\ ringing' = {}
  /\ events' = Stopped \o (IF alarm_power_on THEN <<"low">> ELSE << >>)
                      \o (IF idle_powerlow THEN <<"low">> ELSE << >>)
  /\ alarm_power_on' = FALSE /\ idle_powerlow' = FALSE
  /\ orphans' = o /\ UNCHANGED stop
alarm_stop(o) ==
  /\ tone' = None /\ active' = FALSE /\ number' = 0 /\ ringing' = {}
  /\ events' = Stopped \o (IF alarm_power_on THEN <<"low">> ELSE << >>)
                      \o (IF idle_powerlow THEN <<"low">> ELSE << >>)
  /\ alarm_power_on' = FALSE /\ idle_powerlow' = FALSE
  /\ stop' = FALSE /\ orphans' = o

CanStop == Len(Stopped) + 2 <= MaxEvents

(* The 240 s timer: longer than a prompt and the timeout that waits for it. *)
(* Timers that are not recorded are older and end first.                    *)
ring_stop_timeout ==
  /\ Turn /\ CanStop /\ (stop \/ orphans > 0)
  /\ ~ Prompting /\ (retry => tone = "alarm")
  /\ alarm_stop(IF orphans > 0 THEN orphans - 1 ELSE 0)
  /\ UNCHANGED <<power, switching, exiting, wakeup, phone, bt, vbat_ok, snooze, retry>>

-----------------------------------------------------------------------------
(* Keys (alarm_event_handler, before the handler of any task).              *)

(* An alarm has come and has not sounded yet.                               *)
Waiting == polls > 0 \/ check \/ retry \/ \E e \in 1..Len(events) : events[e] = "alm"
InTime == events # << >> \/ (active /\ Waiting) => "early" \in env
Pressed == keys /\ Turn /\ Slow /\ InTime
LowIdle == task = "idle" /\ ~ vbat_ok

(* In the fake power-off with an empty battery any key ends the alarm.      *)
AnyKeyLowIdle ==
  /\ Pressed /\ LowIdle /\ active
  /\ active' = FALSE
  /\ UNCHANGED <<power, switching, exiting, ring, alarm_power_on, idle_powerlow, wakeup,
                 phone, bt, vbat_ok, events>>

SnoozeSlotMutant == IF number = 1 THEN 3 ELSE 2
SnoozeSlot == IF number = 2 THEN SnoozeOf(2) ELSE SnoozeOf(1)

KEY_TO_ALARM_SLEEP ==
  /\ "snooze" \in env /\ Pressed /\ ~ LowIdle /\ active /\ CanStop
  /\ snooze' = snooze \union {SnoozeSlot}
  /\ alarm_stop(orphans)
  /\ UNCHANGED <<power, switching, exiting, wakeup, phone, bt, vbat_ok, retry>>

KEY_TO_ALARM_UNSLEEP ==
  /\ Pressed /\ ~ LowIdle /\ active /\ CanStop
  /\ snooze' = IF number = 0 THEN snooze ELSE snooze \ {SnoozeOf(number)}
  /\ alarm_stop(orphans)
  /\ UNCHANGED <<power, switching, exiting, wakeup, phone, bt, vbat_ok, retry>>

(* A phone deletes one of the alarms, or puts a new one in its place        *)
(* (app_alarm_del): whatever sounds is stopped.                             *)
AppAlarmDel(n) ==
  /\ "phone" \in env /\ linked /\ task \in {"poweron", "bt", "music"} /\ Turn
  /\ Slow /\ InTime /\ CanStop
  /\ snooze' = snooze \ {SnoozeOf(n)}
  /\ alarm_stop(orphans)
  /\ UNCHANGED <<power, switching, exiting, wakeup, phone, bt, vbat_ok, retry>>

(* While an alarm is active every other key is swallowed.                   *)
ModeKey(t) ==
  /\ Pressed /\ ~ active /\ task \in {"poweron", "bt", "music"} /\ t # task
  /\ app_task_switch_to(t)
  /\ UNCHANGED <<power, exiting, ring, flags, wakeup, phone, bt, vbat_ok, events>>

(* KEY_USER_POWEROFF held: a prompt, and then the fake power-off.           *)
PowerOffKey ==
  /\ Pressed /\ ~ active /\ task \in {"poweron", "bt", "music"}
  /\ ~ user_poweroff
  /\ user_poweroff' = TRUE /\ tone' = "poweroff"
  /\ events' = Stopped /\ Len(Stopped) <= MaxEvents
  /\ UNCHANGED <<task, keys, first, wait, switching, exiting, number, ringing, snooze,
                 retry, stop, orphans, flags, wakeup, phone, bt, vbat_ok>>

(* idle_key_poweron_deal: the power key held in the fake power-off.         *)
PowerOnKey ==
  /\ Pressed /\ ~ active /\ task = "idle" /\ vbat_ok
  /\ next' = "poweron" /\ goto_poweroff' = FALSE
  /\ UNCHANGED <<power, back, force, esco, exiting, ring, flags, wakeup, phone, bt,
                 vbat_ok, events>>

-----------------------------------------------------------------------------
(* Tasks.                                                                   *)

(* power_on_init, where the fake power-off is over for the waiting event.   *)
WrongFlagMutant == tone_end' = (tone_end \/ alarm_power_on)
power_on_init == tone_end' = (tone_end \/ idle_powerlow)

(* app_task_exitting, the end of a task and the start of the next.  A       *)
(* Bluetooth that is on is closed, or put in the background.                *)
SwitchTask ==
  LET closes == task = "bt" /\ stack = "open"
      backwards == back /\ ~ goto_poweroff
      powersOff == next = "poweroff" /\ goto_poweroff
      silent == task = "poweron" \/ closes
      left == IF silent THEN None ELSE tone
      queue == IF powersOff THEN << >> ELSE IF silent THEN Stopped ELSE events
      prompts == \/ next = "poweron" /\ ~ first /\ ~ idle_powerlow
                 \/ next = "bt" /\ ~ active
                 \/ powersOff
  IN  /\ next # None /\ task # "poweroff"
      /\ task' = next /\ next' = None
      /\ keys' = (next \in {"idle", "bt", "music"} \/ (next = "poweron" /\ ~ first))
      /\ first' = (next = "idle" \/ (first /\ next # "poweron"))
      /\ wait' = (wait \/ (next = "poweron" /\ first))
      /\ tone' = IF ~ prompts THEN left
                 ELSE IF next = "poweroff" THEN "goodbye" ELSE next
      /\ events' = IF prompts THEN Ended(queue, left) ELSE queue
      /\ Len(events') <= MaxEvents
      /\ user_poweroff' = (user_poweroff /\ next # "idle")
      /\ IF next = "poweron" /\ ~ first THEN power_on_init ELSE UNCHANGED tone_end
      /\ force' = (force /\ next # "bt")
      /\ IF next = "bt" /\ active
         THEN bt_task_start
         ELSE /\ stack' = IF ~ closes THEN stack
                          ELSE IF backwards THEN "suspended" ELSE "closed"
              /\ auto' = (auto /\ ~ closes) /\ UNCHANGED goto_poweroff
      /\ linked' = (linked /\ (closes => backwards))
      /\ UNCHANGED <<env, call, back, esco, exiting, number, ringing, snooze, retry, stop,
                     orphans, flags, polls, check, vbat_ok>>

(* One second after the start: to the music of a card or disk, to           *)
(* Bluetooth, or, started by the alarm, stay on the clock.                  *)
PowerOnOnlyMutant == ~ idle_powerlow
ToMusic == ~ idle_powerlow /\ ~ alarm_power_on
wait_dev_online ==
  /\ wait /\ Turn /\ Slow
  /\ wait' = FALSE
  /\ IF task # "poweron" THEN UNCHANGED <<switching, keys, tone_end>>
     ELSE \/ /\ ToMusic
             /\ app_task_switch_to("music") /\ UNCHANGED <<keys, tone_end>>
          \/ /\ keys' = TRUE
             /\ IF alarm_power_on
                THEN power_on_init /\ UNCHANGED switching
                ELSE app_task_switch_to("bt") /\ UNCHANGED tone_end
  /\ UNCHANGED <<task, first, user_poweroff, exiting, ring, flags, polls, check, phone, bt,
                 vbat_ok, events>>

(* Ten minutes in Bluetooth with no phone: back to the clock.               *)
bule_no_connect_to_rtc ==
  /\ auto /\ Turn
  /\ auto' = FALSE /\ app_task_switch_to("poweron")
  /\ UNCHANGED <<power, exiting, ring, flags, wakeup, phone, stack, vbat_ok, events>>

(* The end of the prompt of Bluetooth starts it, if it is still the task.   *)
bt_tone_play_end_callback ==
  IF task = "bt" THEN bt_task_start ELSE UNCHANGED <<stack, auto, goto_poweroff>>
PromptEnds ==
  /\ Turn /\ Slow
  /\ \/ tone = "poweron" /\ power_on_init /\ UNCHANGED <<stack, auto, goto_poweroff>>
     \/ tone = "bt" /\ bt_tone_play_end_callback /\ UNCHANGED tone_end
  /\ tone' = None
  /\ UNCHANGED <<power, next, back, force, esco, exiting, number, ringing, snooze, retry,
                 stop, orphans, flags, polls, check, phone, vbat_ok, events>>
BtToneStopped ==
  /\ events # << >> /\ Head(events) = "bt" /\ Turn
  /\ exiting => "quick" \in env
  /\ events' = Tail(events) /\ bt_tone_play_end_callback
  /\ UNCHANGED <<power, next, back, force, esco, exiting, ring, flags, wakeup, phone,
                 vbat_ok>>

(* After the prompt of the power key comes the idle task, unless the switch *)
(* is refused; stopped by a task change, it comes all the same.             *)
InTaskMutant == IF task = "poweron" THEN app_task_switch_to("idle") ELSE UNCHANGED switching
GoesIdle == app_task_switch_to("idle")
GoIdle ==
  /\ GoesIdle
  /\ UNCHANGED <<power, exiting, number, ringing, snooze, retry, stop, orphans, flags,
                 wakeup, phone, bt, vbat_ok>>
PowerOffToneEnds ==
  tone = "poweroff" /\ Turn /\ tone' = None /\ UNCHANGED events /\ GoIdle
PowerOffToneStopped ==
  /\ events # << >> /\ Head(events) = "poweroff" /\ Turn
  /\ events' = Tail(events) /\ UNCHANGED tone /\ GoIdle

PhoneConnects ==
  /\ "phone" \in env /\ Turn /\ task = "bt" /\ Started /\ ~ linked
  /\ linked' = TRUE /\ auto' = FALSE
  /\ UNCHANGED <<env, call, stack, power, switching, exiting, ring, flags, wakeup,
                 vbat_ok, events>>

CallBegins ==
  /\ "call" \in env /\ Turn /\ Slow /\ task = "bt" /\ Started /\ linked /\ ~ call
  /\ call' = TRUE
  /\ UNCHANGED <<env, linked, bt, power, switching, exiting, ring, flags, wakeup,
                 vbat_ok, events>>

CallEnds ==
  /\ call /\ Turn /\ call' = FALSE
  /\ UNCHANGED <<env, linked, bt, power, switching, exiting, ring, flags, wakeup,
                 vbat_ok, events>>

(* idle_vbat_check, every two seconds in the fake power-off.                *)
idle_vbat_check ==
  /\ task = "idle" /\ Turn /\ "empty" \in env
  /\ vbat_ok' \in BOOLEAN /\ keys' = vbat_ok'
  /\ UNCHANGED <<task, first, wait, user_poweroff, switching, exiting, ring, flags, wakeup,
                 phone, bt, events>>

(* vbat_check, whose timer its event and the power key's prompt delete.     *)
PowerUnderWay == goto_poweroff \/ esco \/ user_poweroff \/ LowPosted
vbat_check ==
  /\ "battery" \in env /\ Turn /\ task \in {"poweron", "bt", "music"}
  /\ ~ PowerUnderWay /\ CanPost
  /\ events' = Append(events, "low")
  /\ UNCHANGED <<power, switching, exiting, ring, flags, wakeup, phone, bt, vbat_ok>>

-----------------------------------------------------------------------------
(* Power-off.                                                               *)

(* POWER_EVENT_POWER_LOW.                                                   *)
PowerLowEvent ==
  /\ events # << >> /\ Head(events) = "low" /\ Turn
  /\ events' = Tail(events)
  /\ force' = TRUE /\ sys_enter_soft_poweroff
  /\ UNCHANGED <<esco, power, ring, flags, wakeup, phone, bt, vbat_ok>>

wait_exit_btstack_flag ==
  /\ exiting /\ Turn
  /\ exiting' = FALSE /\ app_task_switch_to("poweroff")
  /\ UNCHANGED <<power, ring, flags, wakeup, phone, bt, vbat_ok, events>>

(* The timeout puts itself back until the call is over.                     *)
esco_check_state ==
  /\ esco /\ ~ call /\ Turn
  /\ esco' = FALSE /\ sys_enter_soft_poweroff
  /\ UNCHANGED <<force, power, ring, flags, wakeup, phone, bt, vbat_ok, events>>

(* power_set_soft_poweroff: the RAM is lost, the snoozes are in the flash.   *)
SoftPowerOff ==
  /\ task' = "down"
  /\ tone' = None /\ next' = None /\ keys' = FALSE /\ events' = << >>
  /\ retry' = FALSE /\ stop' = FALSE /\ orphans' = 0 /\ polls' = 0
  /\ wait' = FALSE /\ auto' = FALSE /\ check' = FALSE /\ exiting' = FALSE
  /\ active' = FALSE /\ alarm_power_on' = FALSE /\ idle_powerlow' = FALSE
  /\ tone_end' = FALSE /\ number' = 0 /\ ringing' = {}
  /\ user_poweroff' = FALSE /\ first' = FALSE /\ linked' = FALSE /\ call' = FALSE
  /\ stack' = "closed" /\ back' = FALSE /\ goto_poweroff' = FALSE /\ force' = FALSE
  /\ esco' = FALSE /\ vbat_ok' = TRUE
  /\ UNCHANGED <<snooze, env>>

(* poweroff_tone_end, once the prompt of the power-off has played.           *)
poweroff_done == tone = "goodbye" /\ goto_poweroff /\ SoftPowerOff

(* idle_vbat_check, when the battery is empty for the third time.           *)
idle_vbat_empty == task = "idle" /\ Turn /\ ~ vbat_ok /\ SoftPowerOff

(* By the power key or by an alarm (alarm_init).                            *)
PowerOn ==
  /\ task = "down"
  /\ task' = "poweron" /\ wait' = TRUE
  /\ \E byAlarm \in BOOLEAN :
       active' = byAlarm /\ alarm_power_on' = byAlarm /\ check' = byAlarm
  /\ UNCHANGED <<keys, first, user_poweroff, switching, exiting, ring, idle_powerlow,
                 tone_end, polls, phone, bt, vbat_ok, events>>

-----------------------------------------------------------------------------
Next ==
  \/ alm_wakeup_isr \/ to_set_alm \/ alarm_check \/ AlarmEvent
  \/ ring_play_timeout \/ ring_stop_timeout
  \/ AnyKeyLowIdle \/ KEY_TO_ALARM_SLEEP \/ KEY_TO_ALARM_UNSLEEP
  \/ (\E n \in 1..2 : AppAlarmDel(n))
  \/ (\E t \in {"poweron", "bt", "music"} : ModeKey(t))
  \/ PowerOffKey \/ PowerOnKey \/ SwitchTask
  \/ wait_dev_online \/ bule_no_connect_to_rtc \/ PromptEnds \/ BtToneStopped
  \/ PowerOffToneEnds \/ PowerOffToneStopped
  \/ PhoneConnects \/ CallBegins \/ CallEnds \/ idle_vbat_check \/ vbat_check
  \/ PowerLowEvent \/ wait_exit_btstack_flag \/ esco_check_state
  \/ poweroff_done \/ idle_vbat_empty \/ PowerOn

(* The queue is first in, first out and a timer posts a message when it has *)
(* run out, so what is once waiting is handled however often the task       *)
(* changes before it; a timer that a handler restarts or a tone that        *)
(* another replaces only ends when it is left alone.  A call that is hung   *)
(* up ends.  Nothing else is assumed of keys, alarms, the phone or the      *)
(* battery.                                                                 *)
Handled == AlarmEvent \/ PowerLowEvent \/ BtToneStopped \/ PowerOffToneStopped
HangsUp == esco /\ CallEnds
Fairness ==
  /\ SF_vars(Handled) /\ SF_vars(to_set_alm) /\ SF_vars(alarm_check)
  /\ SF_vars(ring_stop_timeout) /\ SF_vars(wait_dev_online)
  /\ SF_vars(wait_exit_btstack_flag) /\ SF_vars(esco_check_state) /\ SF_vars(HangsUp)
  /\ WF_vars(ring_play_timeout) /\ WF_vars(bule_no_connect_to_rtc)
  /\ WF_vars(PromptEnds) /\ WF_vars(PowerOffToneEnds)
  /\ WF_vars(SwitchTask) /\ WF_vars(poweroff_done)

Spec == Init /\ [][Next]_vars
FairSpec == Spec /\ Fairness

-----------------------------------------------------------------------------
TypeOK ==
  /\ task \in Tasks /\ next \in Tasks \union {None}
  /\ {keys, first, wait, auto, linked, call, user_poweroff, vbat_ok, active, alarm_power_on,
      idle_powerlow, tone_end, check, retry, stop, exiting, back, goto_poweroff, force, esco}
       \subseteq BOOLEAN
  /\ stack \in Stacks
  /\ events \in Seq({"alm", "low", "poweroff", "bt"}) /\ Len(events) <= MaxEvents
  /\ number \in 0..2 /\ ringing \subseteq AlarmSlots
  /\ snooze \subseteq {SnoozeOf(1), SnoozeOf(2)}
  /\ polls \in 0..MaxPolls /\ orphans \in 0..MaxOrphans
  /\ tone \in Prompts \union {None, "alarm"}

(* One alarm at a time, and no key or command before it sounds.             *)
Calm == env \intersect {"overlap", "early"} = {}
(* Nothing in the last 50 ms.                                               *)
Unhurried == "quick" \notin env

(* While an alarm sounds the keys still belong to it: the speaker does not  *)
(* ring on with its active flag gone, where no key would stop it.           *)
KeyStopsRing == Calm /\ tone = "alarm" => active

(* A key that snoozes a sounding alarm snoozes an alarm that is due, not    *)
(* the user's other one.                                                    *)
SnoozeBelongs ==
  [][\A n \in 1..2 :
       Calm /\ SnoozeOf(n) \in snooze' \ snooze /\ tone = "alarm"
         => ringing \intersect SlotsOf(n) # {}]_vars

(* A stop timer that is armed is a stop timer some ring is waiting for: no  *)
(* timer left over from an alarm that is over ends a later one early.       *)
StopTimerOwned == Calm => orphans = 0 /\ (stop => active)

(* A speaker that was started by the alarm rings until it is stopped: the   *)
(* changes of task its start goes through do not silence it (power_on.c:91),*)
(* only a power-off that was under way does.                                *)
RingKept ==
  [][Calm /\ (alarm_power_on \/ idle_powerlow) /\ tone = "alarm" /\ tone' # "alarm"
       => ~ active' \/ next = "poweroff"]_vars

(* No alarm rings for ever, with nobody there to press a key.               *)
RingsEnd == Calm /\ tone = "alarm" ~> tone # "alarm"

(* A speaker whose battery is low, or that an alarm has turned on, is       *)
(* turned off again: a call is hung up and the power-off tried once more    *)
(* (bt_switch_fun.c:677-691), and what is under way is not called off       *)
(* before the power-off task, which only obeys its flag                     *)
(* (power_off.c:210, 253).  A phone that calls again each time can put it   *)
(* off, and an alarm that was not heard is not over (AlarmAnswered).        *)
CallsSettle == <>[][call' => call]_vars
TurnedOffAgain ==
  CallsSettle =>
    (Calm /\ Unhurried /\ (alarm_power_on \/ (idle_powerlow /\ tone = "alarm") \/ LowPosted)
       ~> task = "down")

(* An alarm due in the fake power-off sounds, unless it is stopped first or *)
(* a phone has connected.                                                   *)
IdleAlarmRings == Calm /\ Unhurried /\ polls > 0 ~> tone = "alarm" \/ ~ active \/ linked

(* Held, the power key turns the speaker off, unless a call can refuse it   *)
(* or the power-off task is about to come: its flag, which only the idle    *)
(* task clears, does not make the key dead (app_common.c:212).              *)
PowerOffObeyed == "call" \notin env /\ Unhurried /\ user_poweroff ~> ~ user_poweroff

(* alarm_user.c:34: alarm_sys_event_handler answers the arrival of an alarm:*)
(* it also does with a phone connected.                                     *)
AlarmAnswered == polls > 0 ~> tone = "alarm" \/ ~ active
=============================================================================
