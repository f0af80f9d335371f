-------------------------------- MODULE RtcUi --------------------------------
(***************************************************************************)
(* The clock's user interface: the keys that set the time and the alarms   *)
(* (SDK/apps/soundbox/task_manager/rtc/rtc.c) and the menus of the LED      *)
(* display (SDK/apps/common/ui/led7/led7_ui_api.c, soundbox/ui/led7/        *)
(* ui_rtc.c).                                                               *)
(*                                                                          *)
(* Keys are handled in the application task.  What they change is shown in  *)
(* a menu of the "ui" task, which is sent there as a message with a         *)
(* timeout and a callback; it is the callback, in the ui task, that saves   *)
(* what was set, when the menu times out or is interrupted.  Both tasks     *)
(* work on the same variables and nothing locks them.  The ui task has the  *)
(* higher priority (task_table.c): it runs as soon as it has a message, and *)
(* the application goes on when it waits or is blocked.                     *)
(*                                                                          *)
(* What is kept of a setting is which one it is, the clock or one of the    *)
(* alarms, and whether it was saved; of the time, the day, modulo a week,   *)
(* since an edit moves the date by less than one.  The alarm table itself   *)
(* is in AlarmCore.                                                         *)
(***************************************************************************)
EXTENDS Naturals, Sequences

CONSTANTS
  WeekLen,  \* days in a week, 7 in the product
  Envs,     \* what the world may do in a behaviour, as sets of Troubles
  MaxQueue  \* bound: messages waiting for the ui task

(* race: a menu times out while a key is handled, and the callback blocks   *)
(* in its flash writes; toggle, phone, switch: the 12/24 key, the phone,    *)
(* the key of another setting come while something is being set; alarm: an  *)
(* alarm is due; midnight: the day changes.                                 *)
Troubles == {"race", "toggle", "phone", "switch", "alarm", "midnight"}

ASSUME WeekAssumption == WeekLen \in Nat \ {0}
ASSUME EnvAssumption == Envs \subseteq SUBSET Troubles /\ MaxQueue \in Nat \ {0}

(* The positions of the cursor (rtc.c:47); the year, month and day of the   *)
(* clock are positions of no menu.                                          *)
Null == 0
Year == 1
Day == 3
Hour == 4
Week == 6
RtcMax == 7
AlmHour == 8
Ring == 10
AlmMax == 11
Positions == Null..AlmMax

Modes == {"rtc", "alm"}
Alarms == 1..2
Keys == 6..8
Days == 0..(WeekLen - 1)
Nothing == 3   \* no setting: the clock is 0, the alarms are 1 and 2
Thrown == 4

VARIABLES
  env,        \* what may happen in this behaviour
  now,        \* the day in the calendar of the RTC
  set_time,   \* the day of the time being set
  mode, pos, alm_num,  \* rtc_set_mode, rtc_pos, alm_num
  flags,      \* key_rtc_6/7/8_press_falg
  check,      \* check_alarm_timer_flag
  user_week,  \* the weekday that will be saved
  pc,         \* where the handler of a key is, in the application task
  was,        \* the position set_rtc_pos read
  queue,      \* messages to the ui task; the first one is in work
  menu, cb,   \* this_menu and timeout_cb
  timer,      \* tmp_menu_ret_cnt is counting
  ui,         \* "saved": between the two halves of ui_set_rtc_timeout
  active, tone, retry,  \* g_alarm_active_flag, what plays, and the wait for it
  ring_timer, \* rtc_ring_timer
  (* history *)
  opened,     \* the setting the last long press was for
  stale,      \* what is not of today, or was changed: set_time, user_week
  dirty       \* the setting that was changed and not saved, or Thrown away

edit == <<set_time, mode, pos, alm_num, flags, check, user_week>>
screen == <<menu, cb, timer, ui>>
sound == <<active, tone, retry, ring_timer>>
ghosts == <<opened, stale, dirty>>
vars == <<env, edit, now, pc, was, queue, screen, sound, ghosts>>

WeekVal(day) == IF day % WeekLen = 0 THEN WeekLen ELSE day % WeekLen

Init ==
  /\ env \in Envs
  /\ now = 0 /\ set_time = 0
  /\ mode = "rtc" /\ pos = Null /\ alm_num = 0
  /\ flags = {} /\ check = FALSE /\ user_week = WeekVal(now)
  /\ pc = "idle" /\ was = Null
  /\ queue = << >> /\ menu = "main" /\ cb = "none" /\ timer = FALSE /\ ui = "idle"
  /\ active = FALSE /\ tone = "none" /\ retry = FALSE /\ ring_timer = FALSE
  /\ opened = Nothing /\ stale = {} /\ dirty = Nothing

-----------------------------------------------------------------------------
(* The two tasks.                                                           *)

(* ui_set_tmp_menu, ui_menu_reflash and ui_set_main_menu post these.        *)
Menu(id, callback) == [op |-> "other", menu |-> id, cb |-> callback]
Request(op) == [op |-> op, menu |-> "main", cb |-> "none"]
Messages == [op : {"other", "reflash", "strick", "switch"},
             menu : {"main", "set", "vol"}, cb : {"none", "set", "check", "other"}]

Post(msg) == Len(queue) < MaxQueue /\ queue' = Append(queue, msg)

(* The application runs when the ui task has nothing to do or is blocked.   *)
AppRuns == (ui = "idle" /\ queue = << >>) \/ (ui = "saved" /\ "race" \in env)
UiPreempts == pc = "idle" \/ "race" \in env

(* A setting is open, or the keys still think so.                           *)
Busy == flags # {} \/ pos # Null \/ check
Allowed(trouble) == ~ Busy \/ trouble \in env
OtherSetting == (flags = {} /\ pos = Null) \/ "switch" \in env

(* alarm_event_handler swallows every key of an active alarm.               *)
Pressed == pc = "idle" /\ AppRuns /\ ~ active

-----------------------------------------------------------------------------
(* The callback ui_set_rtc_timeout and the actions of the ui task.          *)

(* The date the clock gets: moved from the weekday it is to user_week.      *)
DateSaved(day, from, to) ==
  IF from < to THEN (day + (to - from)) % WeekLen
  ELSE IF from > to THEN (day + (to + WeekLen - from)) % WeekLen
  ELSE day

Target == IF mode = "rtc" THEN 0 ELSE alm_num

SaveEdit ==
  /\ now' = IF pos # Null /\ mode = "rtc"
            THEN DateSaved(set_time, WeekVal(now), user_week) ELSE now
  /\ set_time' = IF pos # Null /\ mode = "rtc" THEN now' ELSE set_time
  /\ dirty' = IF pos # Null /\ dirty = Target THEN Nothing ELSE dirty
  /\ stale' = IF pos = Null \/ mode # "rtc" THEN stale
              ELSE IF "time" \in stale THEN {"week"} ELSE {}

(* rtc_ring_timer_del stops whatever tone plays.                            *)
rtc_ring_timer_del == tone' = "none" /\ ring_timer' = FALSE

(* Which message calls the callback of the menu shown before.               *)
NoBreakInMutant(msg) ==
  CASE msg.op = "reflash" -> FALSE
    [] msg.op = "other" -> msg.menu # menu
    [] msg.op = "strick" -> ~ timer
    [] OTHER -> TRUE
CallsBack(msg) ==
  CASE msg.op = "reflash" -> menu # "main"
    [] msg.op = "other" -> msg.menu # menu
    [] msg.op = "strick" -> ~ timer
    [] OTHER -> TRUE

(* What is shown next.  The main page may ask for the temperature menu as   *)
(* it is drawn (ui_rtc_main).                                               *)
Temperature == Menu("set", "other")
Drawn(msg) ==
  /\ IF msg.op = "other"
     THEN menu' = msg.menu /\ cb' = msg.cb /\ timer' = TRUE
     ELSE IF msg.op = "strick" /\ timer
     THEN UNCHANGED <<menu, cb, timer>>
     ELSE /\ menu' = "main"
          /\ cb' = "none"
          /\ timer' = (timer /\ msg.op # "switch")
  /\ \E more \in (IF menu' = "main" THEN {<< >>, <<Temperature>>} ELSE {<< >>}) :
       queue' = Tail(queue) \o more

UiAction ==
  LET msg == Head(queue)
  IN  /\ ui = "idle" /\ queue # << >>
      /\ IF CallsBack(msg) /\ cb = "set"
         THEN /\ SaveEdit
              /\ ui' = "saved"
              /\ UNCHANGED <<queue, menu, cb, timer, check>>
         ELSE /\ Drawn(msg)
              /\ check' = (check /\ ~ (CallsBack(msg) /\ cb = "check"))
              /\ UNCHANGED <<now, set_time, ui, stale, dirty>>
      /\ UNCHANGED <<env, mode, pos, alm_num, flags, user_week, pc, was, sound,
                     opened>>

(* The second half of the callback.                                         *)
FlagsLeftMutant == flags' = flags \ {8} /\ check' = FALSE
FlagsCleared == flags' = {} /\ check' = FALSE
UiSaved ==
  /\ ui = "saved"
  /\ rtc_ring_timer_del
  /\ pos' = Null /\ FlagsCleared
  /\ ui' = "idle"
  /\ Drawn(Head(queue))
  /\ UNCHANGED <<env, now, set_time, mode, alm_num, user_week, pc, was, active,
                 retry, ghosts>>

(* ui_strick_loop, in the ui task: the menu's time is up.                   *)
Timeout ==
  /\ timer /\ ui = "idle" /\ queue = << >> /\ UiPreempts
  /\ timer' = FALSE
  /\ Post(Request("strick"))
  /\ UNCHANGED <<env, edit, now, pc, was, menu, cb, ui, sound, ghosts>>

(* The page refreshes itself every half second.                             *)
AutoReflash ==
  /\ menu = "main" /\ ui = "idle" /\ queue = << >> /\ UiPreempts
  /\ Post(Temperature)
  /\ UNCHANGED <<env, edit, now, pc, was, screen, sound, ghosts>>

-----------------------------------------------------------------------------
(* Keys (rtc_key_event_opr): what is done before anything is read.          *)

AlarmOf(key) == IF key = 7 THEN 1 ELSE 2

(* KEY_RTC_6/7/8_LONG_PRESS opens a setting.                                *)
StaleTargetMutant(key) == alm_num' = alm_num
SetTarget(key) == alm_num' = IF key = 8 THEN 0 ELSE AlarmOf(key)
OpenKey(key) ==
  /\ Pressed /\ ~ check /\ key \notin flags /\ OtherSetting
  /\ flags' = flags \union {key}
  /\ mode' = IF key = 8 THEN "rtc" ELSE "alm"
  /\ SetTarget(key)
  /\ pos' = Null
  /\ pc' = "pos"
  /\ opened' = IF key = 8 THEN 0 ELSE AlarmOf(key)
  /\ UNCHANGED <<env, now, set_time, check, user_week, was, queue, screen, sound,
                 stale, dirty>>

(* Held again, the key of an alarm switches it on or off instead, and what  *)
(* was set is thrown away with the cursor (flip_alarm_sw).                  *)
FlipKey(key) ==
  /\ Pressed /\ ~ check /\ key \in flags /\ key # 8
  /\ flags' = flags \ {key}
  /\ pos' = Null
  /\ Post(Request("reflash"))
  /\ dirty' = IF dirty = Nothing THEN Nothing ELSE Thrown
  /\ UNCHANGED <<env, now, set_time, mode, alm_num, check, user_week, pc, was,
                 screen, sound, opened, stale>>

(* The key of the setting, or the mode key, moves the cursor.               *)
PosKey ==
  /\ Pressed /\ flags # {}
  /\ pc' = "pos"
  /\ UNCHANGED <<env, edit, now, was, queue, screen, sound, ghosts>>

(* user_sw_rtc_mode: a short press shows an alarm, or the clock.            *)
CheckKey(key) ==
  /\ Pressed /\ key \notin flags /\ OtherSetting
  /\ set_time' = now /\ pos' = Null
  /\ IF key = 8
     THEN Post(Request("reflash")) /\ UNCHANGED <<check, mode, alm_num>>
     ELSE /\ check' = TRUE /\ mode' = "alm" /\ alm_num' = AlarmOf(key)
          /\ Post(Menu("set", "check"))
  /\ stale' = stale \ {"time"}
  /\ UNCHANGED <<env, now, flags, user_week, pc, was, screen, sound, opened, dirty>>

(* KEY_RTC_1/2_SHORT: up and down, which do nothing without a position.     *)
AdjustKey ==
  /\ Pressed /\ flags # {} /\ pos # Null
  /\ pc' = "adjust"
  /\ UNCHANGED <<env, edit, now, was, queue, screen, sound, ghosts>>

(* set_alarm_tone_vol.                                                      *)
VolumeKey ==
  /\ Pressed /\ pos = Ring
  /\ pc' = "show"
  /\ UNCHANGED <<env, edit, now, was, queue, screen, sound, ghosts>>

(* KEY_RTC_0_SHORT ends the setting.                                        *)
DoneKey ==
  /\ Pressed /\ flags # {}
  /\ Post(Request("reflash"))
  /\ UNCHANGED <<env, edit, now, pc, was, screen, sound, ghosts>>

(* rtc_sw_24_12h, also in the middle of a setting.                          *)
rtc_sw_24_12h ==
  /\ Pressed /\ Allowed("toggle")
  /\ Post(Menu("set", "other"))
  /\ UNCHANGED <<env, edit, now, pc, was, screen, sound, ghosts>>

-----------------------------------------------------------------------------
(* The rest of the handlers of a key.                                       *)

Play == tone' = "preview" /\ ring_timer' = TRUE
SoundAt(p) == IF mode = "rtc" THEN UNCHANGED <<tone, ring_timer>>
              ELSE IF p = Ring THEN Play ELSE rtc_ring_timer_del

(* The time a setting starts from is read when its first position is shown. *)
TimeRead == IF mode = "rtc" THEN now ELSE set_time

(* set_rtc_pos: a new setting starts from the time it has now; otherwise    *)
(* the position is read and written back, which the ui task can fall into.  *)
set_rtc_pos ==
  /\ pc = "pos" /\ AppRuns
  /\ IF pos = Null
     THEN /\ pos' = IF mode = "rtc" THEN Hour ELSE AlmHour
          /\ set_time' = TimeRead
          /\ stale' = IF mode = "rtc" THEN stale \ {"time"} ELSE stale
          /\ SoundAt(AlmHour)
          /\ pc' = "show" /\ UNCHANGED was
     ELSE /\ was' = pos /\ pc' = "next"
          /\ UNCHANGED <<pos, set_time, stale, tone, ring_timer>>
  /\ UNCHANGED <<env, now, mode, alm_num, flags, check, user_week, queue, screen,
                 active, retry, opened, dirty>>

NoWrapMutant(p) == p + 1
NextPos(p) ==
  IF mode = "rtc" THEN IF p + 1 = RtcMax THEN Hour ELSE p + 1
                  ELSE IF p + 1 = AlmMax THEN AlmHour ELSE p + 1

PosNext ==
  /\ pc = "next" /\ AppRuns
  /\ \E p \in {was, pos} : pos' = NextPos(p)
  /\ user_week' = IF mode = "rtc" /\ pos' = Week THEN WeekVal(now) ELSE user_week
  /\ stale' = IF mode = "rtc" /\ pos' = Week THEN stale \ {"week"} ELSE stale
  /\ SoundAt(pos')
  /\ pc' = "show" /\ was' = Null
  /\ UNCHANGED <<env, now, set_time, mode, alm_num, flags, check, queue, screen,
                 active, retry, opened, dirty>>

(* set_rtc_up and set_rtc_down.  At a position of no menu, of the other     *)
(* mode or with the cursor gone only the menu is shown again.               *)
Adjusts == (mode = "rtc" /\ pos \in Year..Week) \/ (mode = "alm" /\ pos \in AlmHour..Ring)
FallThroughMutant(by) ==
  IF mode = "rtc" /\ pos \in {Week - 1, Week} THEN WeekVal(user_week + by) ELSE user_week
WeekAdjusted(by) ==
  IF mode = "rtc" /\ pos = Week THEN WeekVal(user_week + by) ELSE user_week
set_rtc_up_down ==
  /\ pc = "adjust" /\ AppRuns
  /\ \E by \in {1, WeekLen - 1}, day \in Days :
       /\ user_week' = WeekAdjusted(by)
       /\ set_time' = IF mode = "rtc" /\ pos \in Year..Day THEN day ELSE set_time
  /\ IF mode = "alm" /\ pos = Ring THEN Play ELSE UNCHANGED <<tone, ring_timer>>
  /\ stale' = stale \union (IF mode = "rtc" /\ pos \in Year..Day THEN {"time"} ELSE {})
                    \union (IF mode = "rtc" /\ pos = Week THEN {"week"} ELSE {})
  /\ dirty' = IF Adjusts THEN Target ELSE dirty
  /\ pc' = "show"
  /\ UNCHANGED <<env, now, mode, pos, alm_num, flags, check, was, queue, screen,
                 active, retry, opened>>

(* Each of them ends by showing the menu.                                   *)
ShowMenu ==
  /\ pc = "show" /\ AppRuns
  /\ Post(Menu("set", "set"))
  /\ pc' = "idle"
  /\ UNCHANGED <<env, edit, now, was, screen, sound, ghosts>>

(* 20 s after a tone was tried out.                                         *)
RingTimeout ==
  /\ ring_timer /\ pc = "idle" /\ AppRuns
  /\ rtc_ring_timer_del
  /\ UNCHANGED <<env, edit, now, pc, was, queue, screen, active, retry, ghosts>>

-----------------------------------------------------------------------------
(* What else comes to the application task.                                 *)

(* user_display_rtc_mode, after the phone has set an alarm (app_alarm_add). *)
PhoneAlarm ==
  /\ pc = "idle" /\ AppRuns /\ Allowed("phone")
  /\ alm_num' \in Alarms
  /\ mode' = "alm"
  /\ active' = FALSE /\ tone' = "none"
  /\ Post(Menu("set", "other"))
  /\ UNCHANGED <<env, now, set_time, pos, flags, check, user_week, pc, was, screen,
                 retry, ring_timer, ghosts>>

PhoneTime ==
  /\ pc = "idle" /\ AppRuns /\ "phone" \in env
  /\ now' \in Days /\ stale' = {"time", "week"}
  /\ UNCHANGED <<env, edit, pc, was, queue, screen, sound, opened, dirty>>

(* The volume or the number of a file is shown, or the mode changes.        *)
OtherMenu ==
  /\ pc = "idle" /\ AppRuns
  /\ Post(Menu("vol", "none")) \/ Post(Request("switch"))
  /\ UNCHANGED <<env, edit, now, pc, was, screen, sound, ghosts>>

(* alarm_sys_event_handler: clear_rtc_pos, and then the ring.               *)
RingFirstMutant ==
  /\ UNCHANGED pos /\ UNCHANGED queue
  /\ IF tone = "none" THEN tone' = "ring" /\ UNCHANGED retry
                      ELSE retry' = TRUE /\ UNCHANGED tone
  /\ pc' = "idle"
clear_rtc_pos ==
  /\ pos' = Null
  /\ Post(Request("reflash"))
  /\ UNCHANGED <<tone, retry>>
  /\ pc' = "ring"
AlarmEvent ==
  /\ "alarm" \in env /\ pc = "idle" /\ AppRuns /\ ~ active
  /\ active' = TRUE
  /\ clear_rtc_pos
  /\ UNCHANGED <<env, now, set_time, mode, alm_num, flags, check, user_week, was,
                 screen, ring_timer, ghosts>>

alarm_ring_start ==
  /\ pc = "ring" /\ AppRuns
  /\ IF tone = "none" THEN tone' = "ring" /\ UNCHANGED retry
                      ELSE retry' = TRUE /\ UNCHANGED tone
  /\ pc' = "idle"
  /\ UNCHANGED <<env, edit, now, was, queue, screen, active, ring_timer, ghosts>>

alarm_ring_retry ==
  /\ retry /\ tone = "none" /\ pc = "idle" /\ AppRuns
  /\ tone' = "ring" /\ retry' = FALSE
  /\ UNCHANGED <<env, edit, now, pc, was, queue, screen, active, ring_timer, ghosts>>

alarm_stop ==
  /\ active /\ pc = "idle" /\ AppRuns
  /\ active' = FALSE /\ tone' = "none"
  /\ UNCHANGED <<env, edit, now, pc, was, queue, screen, retry, ring_timer, ghosts>>

Midnight ==
  /\ "midnight" \in env
  /\ now' = (now + 1) % WeekLen /\ stale' = {"time", "week"}
  /\ UNCHANGED <<env, edit, pc, was, queue, screen, sound, opened, dirty>>

-----------------------------------------------------------------------------
KeyPress ==
  \/ \E key \in Keys : OpenKey(key) \/ FlipKey(key) \/ CheckKey(key)
  \/ PosKey \/ AdjustKey \/ VolumeKey \/ DoneKey \/ rtc_sw_24_12h
HandlerStep == set_rtc_pos \/ PosNext \/ set_rtc_up_down \/ ShowMenu \/ alarm_ring_start
UiStep == UiAction \/ UiSaved

Next ==
  \/ KeyPress \/ HandlerStep \/ UiStep \/ Timeout \/ AutoReflash
  \/ RingTimeout \/ PhoneAlarm \/ PhoneTime \/ OtherMenu
  \/ AlarmEvent \/ alarm_ring_retry \/ alarm_stop \/ Midnight

(* A task with something to do runs, and a menu that is left alone times    *)
(* out.                                                                     *)
Fairness == WF_vars(HandlerStep) /\ WF_vars(UiStep) /\ SF_vars(Timeout)

Spec == Init /\ [][Next]_vars
FairSpec == Spec /\ Fairness
-----------------------------------------------------------------------------
TypeOK ==
  /\ env \in Envs
  /\ now \in Days /\ set_time \in Days
  /\ mode \in Modes /\ pos \in Null..Ring /\ alm_num \in 0..2
  /\ flags \subseteq Keys /\ check \in BOOLEAN /\ user_week \in 1..WeekLen
  /\ pc \in {"idle", "pos", "next", "adjust", "show", "ring"} /\ was \in Null..Ring
  /\ queue \in Seq(Messages)
  /\ menu \in {"main", "set", "vol"} /\ cb \in {"none", "set", "check", "other"}
  /\ timer \in BOOLEAN /\ ui \in {"idle", "saved"}
  /\ {active, retry, ring_timer} \subseteq BOOLEAN /\ tone \in {"none", "preview", "ring"}
  /\ opened \in 0..Nothing /\ stale \subseteq {"time", "week"} /\ dirty \in 0..Thrown

Without(troubles) == env \intersect troubles = {}

(* What is being set is saved to the setting whose key opened it, also when *)
(* the menu times out in the middle of a key: not the clock's time into an  *)
(* alarm, nor the time of one alarm into the other.                         *)
EditOwnTarget ==
  Without({"phone", "switch"}) /\ pos # Null => Target = opened

(* Setting the hour or the minute leaves the date alone, wherever menus time *)
(* out, alarms come and other settings are opened: the day only moves when   *)
(* the weekday was changed with the keys and not saved, or the day was       *)
(* another when the time or the weekday was read (ui_set_rtc_timeout works   *)
(* it out from user_week, which other handlers wrote).                       *)
DateKept ==
  [][ui = "idle" /\ ui' = "saved" /\ pos # Null /\ mode = "rtc" /\ stale = {}
     => now' = now]_vars

(* With no key pressed any more every setting comes to its end, and the     *)
(* keys that work on it are again those of the player.                      *)
KeysRest == <>[][~ KeyPress]_vars
MenusEnd ==
  KeysRest /\ [](Without({"race", "toggle", "phone", "switch"})) => (Busy ~> ~ Busy)

(* What was set with the keys is saved in the end, unless the key of the    *)
(* alarm is held once more, which switches it on or off instead.            *)
EditsSaved ==
  KeysRest /\ [](Without({"race", "toggle", "phone", "switch", "alarm"}))
    => (dirty \in 0..2 ~> dirty \in {Nothing, Thrown})

(* The end of a setting, which stops the tone that was tried out, does not  *)
(* stop an alarm that rings.  It needs more than it seems: the 12/24 key or *)
(* the key of another setting puts its own menu in the place of the one     *)
(* that would have stopped the timer of that tone, and phone and race too.  *)
RingNotCut ==
  [][Without({"race", "phone", "toggle", "switch"})
       /\ active /\ tone = "ring" /\ tone' # "ring"
     => ~ active']_vars

(* led7_ui_api.c:128: the callback is for a menu that is interrupted or     *)
(* whose time is up.  A setting whose menu goes has been closed.            *)
InterruptedIsTold ==
  [][cb = "set" /\ cb' # "set" => pos' = Null]_vars
=============================================================================
