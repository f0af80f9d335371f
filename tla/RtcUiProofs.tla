---------------------------- MODULE RtcUiProofs -----------------------------
(***************************************************************************)
(* Proofs about the clock's user interface, for every length of the week,   *)
(* every bound on the queue and every set of circumstances: the types, that *)
(* a setting keeps its target, that it leaves the date alone, and that its  *)
(* end does not stop a ring.                                                *)
(***************************************************************************)
EXTENDS RtcUi, SequenceTheorems, TLAPS

(* The cursor stays among the positions of the mode, and the position that  *)
(* was read is kept only until it is written back.                          *)
CursorInMode ==
  /\ mode = "rtc" => pos <= Week /\ was <= Week
  /\ pc # "next" => was = Null

(* The callback is half done only for a message that is still there.        *)
SavedForMessage == ui = "saved" => queue # << >>

(* TypeOK, in the groups in which a step changes it.                        *)
EditTypes ==
  /\ env \in Envs
  /\ now \in Days /\ set_time \in Days
  /\ mode \in Modes /\ pos \in Null..Ring /\ alm_num \in 0..2
  /\ flags \subseteq Keys /\ check \in BOOLEAN /\ user_week \in 1..WeekLen
  /\ pc \in {"idle", "pos", "next", "adjust", "show", "ring"} /\ was \in Null..Ring
ScreenTypes ==
  /\ queue \in Seq(Messages)
  /\ menu \in {"main", "set", "vol"} /\ cb \in {"none", "set", "check", "other"}
  /\ timer \in BOOLEAN /\ ui \in {"idle", "saved"}
SoundTypes ==
  /\ active \in BOOLEAN /\ retry \in BOOLEAN /\ ring_timer \in BOOLEAN
  /\ tone \in {"none", "preview", "ring"}
GhostTypes ==
  /\ opened \in 0..Nothing /\ stale \subseteq {"time", "week"} /\ dirty \in 0..Thrown
Typed == EditTypes /\ ScreenTypes /\ SoundTypes /\ GhostTypes
           /\ CursorInMode /\ SavedForMessage

LEMMA TypedIsTypeOK == Typed => TypeOK
  BY DEF Typed, TypeOK, EditTypes, ScreenTypes, SoundTypes, GhostTypes

-----------------------------------------------------------------------------
(* Days and weekdays.                                                       *)

(* The weekday of any day is one of the week.                               *)
LEMMA WeekdayInWeek ==
  ASSUME NEW day \in Nat
  PROVE  WeekVal(day) \in 1..WeekLen
<1>1. WeekLen \in Nat /\ WeekLen > 0
  BY WeekAssumption
<1>2. day % WeekLen \in 0..(WeekLen - 1)
  BY <1>1
<1> QED
  BY <1>1, <1>2 DEF WeekVal

(* The weekday of a day of the calendar is the day itself, the first the    *)
(* last of the week.                                                        *)
LEMMA WeekdayOfDay ==
  ASSUME NEW day \in Days
  PROVE  WeekVal(day) = IF day = 0 THEN WeekLen ELSE day
<1>1. WeekLen \in Nat /\ WeekLen > 0 /\ day \in Nat /\ day < WeekLen
  BY WeekAssumption DEF Days
<1>2. day % WeekLen = day
  BY <1>1
<1> QED
  BY <1>2 DEF WeekVal

(* The date that is saved is a day, and its weekday the one that was set.   *)
LEMMA SavedWeekday ==
  ASSUME NEW day \in Days, NEW to \in 1..WeekLen
  PROVE  /\ DateSaved(day, WeekVal(day), to) \in Days
         /\ WeekVal(DateSaved(day, WeekVal(day), to)) = to
         /\ to = WeekVal(day) => DateSaved(day, WeekVal(day), to) = day
<1> DEFINE from == WeekVal(day)
           D == DateSaved(day, from, to)
<1>1. WeekLen \in Nat /\ WeekLen > 0 /\ day \in Nat /\ day < WeekLen /\ to \in Nat
        /\ to >= 1 /\ to <= WeekLen
  BY WeekAssumption DEF Days
<1>2. from = IF day = 0 THEN WeekLen ELSE day
  BY WeekdayOfDay
<1>3. D = IF from < to THEN (day + (to - from)) % WeekLen
          ELSE IF from > to THEN (day + (to + WeekLen - from)) % WeekLen
          ELSE day
  BY DEF DateSaved
<1>4. D = IF to = WeekLen THEN 0 ELSE to
  <2>1. CASE from = to
    BY <2>1, <1>1, <1>2, <1>3
  <2>2. CASE from < to
    <3>1. day + (to - from) = to
      BY <2>2, <1>1, <1>2
    <3>2. D = to % WeekLen
      BY <3>1, <2>2, <1>3
    <3> QED
      BY <3>2, <1>1
  <2>3. CASE from > to
    <3>1. day + (to + WeekLen - from) = (IF day = 0 THEN to ELSE to + WeekLen)
      BY <2>3, <1>1, <1>2
    <3>2. to < WeekLen
      BY <2>3, <1>1, <1>2
    <3>3. D = (IF day = 0 THEN to ELSE to + WeekLen) % WeekLen
      BY <3>1, <2>3, <1>1, <1>2, <1>3
    <3>4. to % WeekLen = to /\ (to + WeekLen) % WeekLen = to
      BY <3>2, <1>1
    <3> QED
      BY <3>2, <3>3, <3>4
  <2> QED
    BY <2>1, <2>2, <2>3, <1>1, <1>2
<1>5. D \in Days
  BY <1>4, <1>1 DEF Days
<1>6. WeekVal(D) = IF D = 0 THEN WeekLen ELSE D
  BY <1>5, WeekdayOfDay
<1>7. WeekVal(D) = to
  BY <1>4, <1>6, <1>1
<1>8. to = from => D = day
  BY <1>3, <1>1, <1>2
<1> QED
  BY <1>5, <1>7, <1>8

(* Also when it starts from another day than today.                         *)
LEMMA SavedIsDay ==
  ASSUME NEW day \in Days, NEW from \in 1..WeekLen, NEW to \in 1..WeekLen
  PROVE  DateSaved(day, from, to) \in Days
<1>1. WeekLen \in Nat /\ WeekLen > 0 /\ day \in Nat /\ day < WeekLen
        /\ to \in Nat /\ from \in Nat /\ from <= WeekLen
  BY WeekAssumption DEF Days
<1>2. \A n \in Nat : n % WeekLen \in 0..(WeekLen - 1)
  BY <1>1
<1>3. (day + (to + WeekLen - from)) \in Nat /\ (from < to => day + (to - from) \in Nat)
  BY <1>1
<1> QED
  BY <1>1, <1>2, <1>3 DEF DateSaved, Days

-----------------------------------------------------------------------------
(* The queue of the ui task.                                                *)

(* A message that is posted is a message, and is there.                     *)
LEMMA Posted ==
  ASSUME queue \in Seq(Messages), NEW msg \in Messages, Post(msg)
  PROVE  /\ queue' \in Seq(Messages) /\ queue' # << >>
         /\ queue = << >> => Head(queue') = msg /\ Tail(queue') = << >>
<1>1. queue' = Append(queue, msg)
  BY DEF Post
<1>2. queue' \in Seq(Messages) /\ queue' # << >>
  BY <1>1, AppendProperties
<1>3. queue = << >> => queue' = <<msg>>
  BY <1>1
<1>4. Head(<<msg>>) = msg /\ Tail(<<msg>>) = << >>
  OBVIOUS
<1> QED
  BY <1>2, <1>3, <1>4

(* What the handlers post are messages.                                     *)
LEMMA AllMessages ==
  /\ \A id \in {"main", "set", "vol"}, back \in {"none", "set", "check", "other"} :
       Menu(id, back) \in Messages
  /\ \A op \in {"other", "reflash", "strick", "switch"} : Request(op) \in Messages
  /\ Temperature \in Messages
  BY DEF Menu, Request, Messages, Temperature

(* After the first message is drawn the next ones are left, and perhaps the *)
(* temperature menu.                                                        *)
LEMMA DrawnScreen ==
  ASSUME ScreenTypes, queue # << >>, Drawn(Head(queue))
  PROVE  /\ queue' \in Seq(Messages)
         /\ menu' \in {"main", "set", "vol"} /\ cb' \in {"none", "set", "check", "other"}
         /\ timer' \in BOOLEAN
<1>1. Head(queue) \in Messages /\ Tail(queue) \in Seq(Messages)
  BY HeadTailProperties DEF ScreenTypes
<1>2. << >> \in Seq(Messages) /\ <<Temperature>> \in Seq(Messages)
  BY AllMessages
<1>3. queue' \in Seq(Messages)
  <2>1. PICK more \in {<< >>, <<Temperature>>} : queue' = Tail(queue) \o more
    BY DEF Drawn
  <2>2. more \in Seq(Messages)
    BY <1>2
  <2> QED
    BY <1>1, <2>1, <2>2, ConcatProperties
<1>4. /\ menu' \in {"main", "set", "vol"} /\ cb' \in {"none", "set", "check", "other"}
      /\ timer' \in BOOLEAN
  BY <1>1 DEF Drawn, ScreenTypes, Messages
<1> QED
  BY <1>3, <1>4
-----------------------------------------------------------------------------
(* The types.                                                               *)

LEMMA TypedInit == Init => Typed
<1> SUFFICES ASSUME Init PROVE Typed
  OBVIOUS
<1>1. WeekLen \in Nat /\ WeekLen > 0 /\ 0 \in Nat
  BY WeekAssumption
<1>2. user_week \in 1..WeekLen
  BY <1>1, WeekdayInWeek DEF Init
<1>3. 0 \in Days
  BY <1>1 DEF Days
<1>4. /\ env \in Envs /\ now = 0 /\ set_time = 0 /\ mode = "rtc" /\ pos = 0 /\ was = 0
      /\ alm_num = 0 /\ flags = {} /\ check = FALSE /\ pc = "idle"
  BY DEF Init, Null
<1>5. EditTypes
  <2>1. now \in Days /\ set_time \in Days
    BY <1>3, <1>4
  <2>2. check \in BOOLEAN /\ flags \subseteq Keys
    BY <1>4
  <2> QED
    BY <1>2, <1>4, <2>1, <2>2 DEF EditTypes, Modes, Null, Ring
<1>6. CursorInMode
  BY <1>4 DEF CursorInMode, Null, Week
<1>7. ScreenTypes /\ SavedForMessage
  <2>1. queue = << >> /\ << >> \in Seq(Messages)
    BY DEF Init
  <2> QED
    BY <2>1 DEF Init, ScreenTypes, SavedForMessage
<1>8. SoundTypes
  BY DEF Init, SoundTypes
<1>9. GhostTypes
  <2>1. stale = {}
    BY DEF Init
  <2>2. opened = 3 /\ dirty = 3 /\ 3 \in 0..3 /\ 3 \in 0..4
    BY DEF Init, Nothing
  <2> QED
    BY <2>1, <2>2 DEF GhostTypes, Nothing, Thrown
<1> QED
  BY <1>5, <1>6, <1>7, <1>8, <1>9 DEF Typed

(* What a handler posts leaves the screen as it was.                        *)
LEMMA TypedPost ==
  ASSUME Typed, NEW msg \in Messages, Post(msg),
         UNCHANGED <<menu, cb, ui>>, timer' \in BOOLEAN
  PROVE  ScreenTypes' /\ SavedForMessage'
<1>1. queue' \in Seq(Messages) /\ queue' # << >>
  BY Posted DEF Typed, ScreenTypes
<1> QED
  BY <1>1 DEF Typed, ScreenTypes, SavedForMessage

(* The setting of one of the keys.                                          *)
LEMMA KeyTypes ==
  ASSUME NEW key \in Keys
  PROVE  AlarmOf(key) \in {1, 2}
  BY DEF AlarmOf

LEMMA TypedKey == Typed /\ KeyPress => Typed'
<1> SUFFICES ASSUME Typed, KeyPress PROVE Typed'
  OBVIOUS
<1>1. ASSUME NEW key \in Keys, OpenKey(key)
      PROVE  Typed'
  <2>1. EditTypes' /\ CursorInMode'
    <3>1. pos' = Null /\ pc' = "pos" /\ pc = "idle" /\ flags' = flags \union {key}
          /\ mode' \in Modes /\ alm_num' \in 0..2
          /\ UNCHANGED <<env, now, set_time, check, user_week, was>>
      BY <1>1, KeyTypes DEF OpenKey, Pressed, SetTarget, Modes
    <3> QED
      BY <3>1 DEF Typed, EditTypes, CursorInMode, Null, Ring, Week
  <2>2. ScreenTypes' /\ SavedForMessage' /\ SoundTypes'
    BY <1>1 DEF OpenKey, Typed, ScreenTypes, SavedForMessage, SoundTypes, screen, sound
  <2>3. GhostTypes'
    BY <1>1, KeyTypes DEF OpenKey, Typed, GhostTypes, Nothing
  <2> QED
    BY <2>1, <2>2, <2>3 DEF Typed
<1>2. ASSUME NEW key \in Keys, FlipKey(key)
      PROVE  Typed'
  <2>1. EditTypes' /\ CursorInMode'
    <3>1. pos' = Null /\ flags' = flags \ {key}
          /\ UNCHANGED <<env, now, set_time, mode, alm_num, check, user_week, pc, was>>
      BY <1>2 DEF FlipKey
    <3> QED
      BY <3>1 DEF Typed, EditTypes, CursorInMode, Null, Ring, Week
  <2>2. ScreenTypes' /\ SavedForMessage'
    BY <1>2, TypedPost, AllMessages DEF FlipKey, screen, Typed, ScreenTypes
  <2>3. SoundTypes' /\ GhostTypes'
    BY <1>2 DEF FlipKey, Typed, SoundTypes, GhostTypes, sound, Nothing, Thrown
  <2> QED
    BY <2>1, <2>2, <2>3 DEF Typed
<1>3. ASSUME NEW key \in Keys, CheckKey(key)
      PROVE  Typed'
  <2>1. EditTypes' /\ CursorInMode'
    <3>1. pos' = Null /\ set_time' = now
          /\ UNCHANGED <<env, now, flags, user_week, pc, was>>
      BY <1>3 DEF CheckKey
    <3>2. \/ UNCHANGED <<check, mode, alm_num>>
          \/ check' = TRUE /\ mode' = "alm" /\ alm_num' = AlarmOf(key)
      BY <1>3 DEF CheckKey
    <3>3. check' \in BOOLEAN
      BY <3>2, Zenon DEF Typed, EditTypes
    <3>4. AlarmOf(key) \in 0..2
      BY KeyTypes
    <3>5. alm_num' \in 0..2 /\ mode' \in {mode, "alm"}
      <4>1. CASE UNCHANGED <<check, mode, alm_num>>
        BY <4>1 DEF Typed, EditTypes
      <4>2. CASE mode' = "alm" /\ alm_num' = AlarmOf(key)
        BY <4>2, <3>4
      <4> QED
        BY <3>2, <4>1, <4>2
    <3> QED
      BY <3>1, <3>3, <3>5 DEF Typed, EditTypes, CursorInMode, Modes, Null, Ring, Week
  <2>2. ScreenTypes' /\ SavedForMessage'
    BY <1>3, TypedPost, AllMessages DEF CheckKey, screen, Typed, ScreenTypes
  <2>3. SoundTypes' /\ GhostTypes'
    BY <1>3 DEF CheckKey, Typed, SoundTypes, GhostTypes, sound, ghosts
  <2> QED
    BY <2>1, <2>2, <2>3 DEF Typed
<1>4. ASSUME PosKey \/ AdjustKey \/ VolumeKey
      PROVE  Typed'
  <2>1. /\ pc = "idle" /\ pc' \in {"pos", "adjust", "show"}
        /\ UNCHANGED <<env, edit, now, was, queue, screen, sound, ghosts>>
    BY <1>4 DEF PosKey, AdjustKey, VolumeKey, Pressed
  <2>2. EditTypes' /\ CursorInMode'
    BY <2>1 DEF Typed, EditTypes, CursorInMode, edit
  <2>3. ScreenTypes' /\ SavedForMessage' /\ SoundTypes' /\ GhostTypes'
    BY <2>1 DEF Typed, ScreenTypes, SavedForMessage, SoundTypes, GhostTypes, screen,
                sound, ghosts
  <2> QED
    BY <2>2, <2>3 DEF Typed
<1>5. ASSUME DoneKey \/ rtc_sw_24_12h
      PROVE  Typed'
  <2>1. UNCHANGED <<env, edit, now, pc, was, screen, sound, ghosts>>
    BY <1>5 DEF DoneKey, rtc_sw_24_12h
  <2>2. EditTypes' /\ CursorInMode'
    BY <2>1 DEF Typed, EditTypes, CursorInMode, edit
  <2>3. ScreenTypes' /\ SavedForMessage'
    <3>1. \E msg \in Messages : Post(msg)
      BY <1>5, AllMessages DEF DoneKey, rtc_sw_24_12h
    <3> QED
      BY <2>1, <3>1, TypedPost DEF screen, Typed, ScreenTypes
  <2>4. SoundTypes' /\ GhostTypes'
    BY <2>1 DEF Typed, SoundTypes, GhostTypes, sound, ghosts
  <2> QED
    BY <2>2, <2>3, <2>4 DEF Typed
<1> QED
  BY <1>1, <1>2, <1>3, <1>4, <1>5 DEF KeyPress

LEMMA TypedHandler == Typed /\ HandlerStep => Typed'
<1> SUFFICES ASSUME Typed, HandlerStep PROVE Typed'
  OBVIOUS
<1>1. CASE set_rtc_pos
  <2>1. EditTypes' /\ CursorInMode'
    BY <1>1 DEF set_rtc_pos, TimeRead, Typed, EditTypes, CursorInMode, Null, Ring, Week,
                Hour, AlmHour, Modes
  <2>2. ScreenTypes' /\ SavedForMessage' /\ GhostTypes'
    BY <1>1 DEF set_rtc_pos, Typed, ScreenTypes, SavedForMessage, GhostTypes, screen, ghosts
  <2>3. SoundTypes'
    BY <1>1 DEF set_rtc_pos, Typed, SoundTypes, SoundAt, Play, rtc_ring_timer_del
  <2> QED
    BY <2>1, <2>2, <2>3 DEF Typed
<1>2. CASE PosNext
  <2>1. EditTypes' /\ CursorInMode'
    <3>1. PICK p \in {was, pos} : pos' = NextPos(p)
      BY <1>2 DEF PosNext
    <3>2. p \in Null..Ring /\ (mode = "rtc" => p <= Week)
      BY <3>1 DEF Typed, EditTypes, CursorInMode
    <3>3. pos' \in Null..Ring /\ (mode = "rtc" => pos' <= Week)
      BY <3>1, <3>2 DEF NextPos, Null, Ring, Week, RtcMax, Hour, AlmMax, AlmHour
    <3>4. WeekVal(now) \in 1..WeekLen
      BY WeekdayInWeek DEF Typed, EditTypes, Days
    <3>5. user_week' \in 1..WeekLen /\ pc' = "show" /\ was' = Null
          /\ UNCHANGED <<env, now, set_time, mode, alm_num, flags, check>>
      BY <1>2, <3>4 DEF PosNext, Typed, EditTypes
    <3> QED
      BY <3>3, <3>5 DEF Typed, EditTypes, CursorInMode, Null, Ring, Week
  <2>2. ScreenTypes' /\ SavedForMessage' /\ GhostTypes'
    BY <1>2 DEF PosNext, Typed, ScreenTypes, SavedForMessage, GhostTypes, screen, ghosts
  <2>3. SoundTypes'
    BY <1>2 DEF PosNext, Typed, SoundTypes, SoundAt, Play, rtc_ring_timer_del
  <2> QED
    BY <2>1, <2>2, <2>3 DEF Typed
<1>3. CASE set_rtc_up_down
  <2>1. EditTypes' /\ CursorInMode'
    <3>1. PICK by \in {1, WeekLen - 1}, day \in Days :
            /\ user_week' = WeekAdjusted(by)
            /\ set_time' = IF mode = "rtc" /\ pos \in Year..Day THEN day ELSE set_time
      BY <1>3 DEF set_rtc_up_down
    <3>2. user_week + by \in Nat
      BY WeekAssumption DEF Typed, EditTypes
    <3>3. user_week' \in 1..WeekLen /\ set_time' \in Days
      BY <3>1, <3>2, WeekdayInWeek DEF WeekAdjusted, Typed, EditTypes
    <3>4. pc' = "show" /\ pc = "adjust"
          /\ UNCHANGED <<env, now, mode, pos, alm_num, flags, check, was>>
      BY <1>3 DEF set_rtc_up_down
    <3> QED
      BY <3>3, <3>4 DEF Typed, EditTypes, CursorInMode
  <2>2. ScreenTypes' /\ SavedForMessage'
    BY <1>3 DEF set_rtc_up_down, Typed, ScreenTypes, SavedForMessage, screen
  <2>3. SoundTypes'
    BY <1>3 DEF set_rtc_up_down, Typed, SoundTypes, Play
  <2>4. GhostTypes'
    <3>1. Target \in 0..Thrown
      BY DEF Target, Typed, EditTypes, Thrown
    <3>2. stale' \subseteq stale \union {"time", "week"}
          /\ dirty' \in {Target, dirty} /\ opened' = opened
      BY <1>3 DEF set_rtc_up_down
    <3> QED
      BY <3>1, <3>2 DEF Typed, GhostTypes
  <2> QED
    BY <2>1, <2>2, <2>3, <2>4 DEF Typed
<1>4. CASE ShowMenu
  <2>1. EditTypes' /\ CursorInMode' /\ SoundTypes' /\ GhostTypes'
    BY <1>4 DEF ShowMenu, Typed, EditTypes, CursorInMode, SoundTypes, GhostTypes, edit,
                sound, ghosts
  <2>2. ScreenTypes' /\ SavedForMessage'
    BY <1>4, TypedPost, AllMessages DEF ShowMenu, screen, Typed, ScreenTypes
  <2> QED
    BY <2>1, <2>2 DEF Typed
<1>5. CASE alarm_ring_start
  <2>1. EditTypes' /\ CursorInMode' /\ GhostTypes'
    BY <1>5 DEF alarm_ring_start, Typed, EditTypes, CursorInMode, GhostTypes, edit, ghosts
  <2>2. ScreenTypes' /\ SavedForMessage' /\ SoundTypes'
    BY <1>5 DEF alarm_ring_start, Typed, ScreenTypes, SavedForMessage, SoundTypes, screen
  <2> QED
    BY <2>1, <2>2 DEF Typed
<1> QED
  BY <1>1, <1>2, <1>3, <1>4, <1>5 DEF HandlerStep

LEMMA TypedScreen == Typed /\ (UiStep \/ Timeout \/ AutoReflash) => Typed'
<1> SUFFICES ASSUME Typed, UiStep \/ Timeout \/ AutoReflash PROVE Typed'
  OBVIOUS
<1>1. CASE UiAction
  <2>1. queue # << >> /\ ui = "idle"
        /\ UNCHANGED <<env, mode, pos, alm_num, flags, user_week, pc, was, sound, opened>>
    BY <1>1 DEF UiAction
  <2>2. SoundTypes' /\ CursorInMode'
    BY <2>1 DEF Typed, SoundTypes, CursorInMode, sound
  <2>3. CASE CallsBack(Head(queue)) /\ cb = "set"
    <3>1. SaveEdit /\ ui' = "saved" /\ UNCHANGED <<queue, menu, cb, timer, check>>
      BY <1>1, <2>3 DEF UiAction
    <3>2. WeekVal(now) \in 1..WeekLen
      BY WeekdayInWeek DEF Typed, EditTypes, Days
    <3>3. DateSaved(set_time, WeekVal(now), user_week) \in Days
      BY <3>2, SavedIsDay DEF Typed, EditTypes
    <3>4. now' \in Days /\ set_time' \in Days
      BY <3>1, <3>3 DEF SaveEdit, Typed, EditTypes
    <3>5. EditTypes'
      BY <2>1, <3>1, <3>4 DEF Typed, EditTypes
    <3>6. ScreenTypes' /\ SavedForMessage'
      BY <2>1, <3>1 DEF Typed, ScreenTypes, SavedForMessage
    <3>7. GhostTypes'
      BY <2>1, <3>1 DEF SaveEdit, Typed, GhostTypes, Nothing, Thrown
    <3> QED
      BY <2>2, <3>5, <3>6, <3>7 DEF Typed
  <2>4. CASE ~ (CallsBack(Head(queue)) /\ cb = "set")
    <3>1. Drawn(Head(queue)) /\ check' = (check /\ ~ (CallsBack(Head(queue)) /\ cb = "check"))
          /\ UNCHANGED <<now, set_time, ui, stale, dirty>>
      BY <1>1, <2>4 DEF UiAction
    <3>2. ScreenTypes' /\ SavedForMessage'
      BY <2>1, <3>1, DrawnScreen DEF Typed, ScreenTypes, SavedForMessage
    <3>3. check' \in BOOLEAN
      BY <3>1
    <3>4. EditTypes' /\ GhostTypes'
      BY <2>1, <3>1, <3>3 DEF Typed, EditTypes, GhostTypes
    <3> QED
      BY <2>2, <3>2, <3>4 DEF Typed
  <2> QED
    BY <2>3, <2>4
<1>2. CASE UiSaved
  <2>1. queue # << >> /\ Drawn(Head(queue)) /\ ui' = "idle" /\ pos' = Null /\ FlagsCleared
        /\ rtc_ring_timer_del
        /\ UNCHANGED <<env, now, set_time, mode, alm_num, user_week, pc, was, active,
                      retry, ghosts>>
    BY <1>2 DEF UiSaved, Typed, SavedForMessage
  <2>2. ScreenTypes' /\ SavedForMessage'
    BY <2>1, DrawnScreen DEF Typed, ScreenTypes, SavedForMessage
  <2>3. EditTypes' /\ CursorInMode'
    <3>1. flags' = {} /\ check' = FALSE /\ pos' = Null
      BY <2>1 DEF FlagsCleared
    <3>2. EditTypes'
      <4>1. check' \in BOOLEAN
        BY <3>1
      <4>2. flags' \subseteq Keys /\ pos' \in Null..Ring
        BY <3>1 DEF Null, Ring
      <4> QED
        BY <2>1, <4>1, <4>2 DEF Typed, EditTypes
    <3>3. CursorInMode'
      BY <2>1, <3>1 DEF Typed, CursorInMode, Null, Week
    <3> QED
      BY <3>2, <3>3
  <2>4. SoundTypes' /\ GhostTypes'
    BY <2>1 DEF Typed, SoundTypes, GhostTypes, rtc_ring_timer_del, ghosts
  <2> QED
    BY <2>2, <2>3, <2>4 DEF Typed
<1>3. CASE Timeout \/ AutoReflash
  <2>1. UNCHANGED <<env, edit, now, pc, was, menu, cb, ui, sound, ghosts>>
        /\ timer' \in BOOLEAN
    BY <1>3 DEF Timeout, AutoReflash, screen, Typed, ScreenTypes
  <2>2. \E msg \in Messages : Post(msg)
    BY <1>3, AllMessages DEF Timeout, AutoReflash
  <2>3. ScreenTypes' /\ SavedForMessage'
    BY <2>1, <2>2, TypedPost
  <2>4. EditTypes' /\ CursorInMode'
    BY <2>1 DEF Typed, EditTypes, CursorInMode, edit
  <2>5. SoundTypes' /\ GhostTypes'
    BY <2>1 DEF Typed, SoundTypes, GhostTypes, sound, ghosts
  <2> QED
    BY <2>3, <2>4, <2>5 DEF Typed
<1> QED
  BY <1>1, <1>2, <1>3 DEF UiStep

(* What else comes to the application task.                                 *)
Events ==
  RingTimeout \/ PhoneAlarm \/ PhoneTime \/ OtherMenu
    \/ AlarmEvent \/ alarm_ring_retry \/ alarm_stop \/ Midnight

LEMMA TypedEvents == Typed /\ Events => Typed'
<1> SUFFICES ASSUME Typed, Events PROVE Typed'
  OBVIOUS
<1>1. CASE RingTimeout \/ alarm_ring_retry \/ alarm_stop
  <2>1. UNCHANGED <<env, edit, now, pc, was, queue, screen, ghosts>>
    BY <1>1 DEF RingTimeout, alarm_ring_retry, alarm_stop
  <2>2. SoundTypes'
    BY <1>1 DEF RingTimeout, alarm_ring_retry, alarm_stop, rtc_ring_timer_del, Typed,
                SoundTypes
  <2>3. EditTypes' /\ CursorInMode'
    BY <2>1 DEF Typed, EditTypes, CursorInMode, edit
  <2>4. ScreenTypes' /\ SavedForMessage' /\ GhostTypes'
    BY <2>1 DEF Typed, ScreenTypes, SavedForMessage, GhostTypes, screen, ghosts
  <2> QED
    BY <2>2, <2>3, <2>4 DEF Typed
<1>2. CASE PhoneAlarm
  <2>1. EditTypes' /\ CursorInMode'
    <3>1. alm_num' \in 0..2 /\ mode' = "alm"
          /\ UNCHANGED <<env, now, set_time, pos, flags, check, user_week, pc, was>>
      BY <1>2 DEF PhoneAlarm, Alarms
    <3> QED
      BY <3>1 DEF Typed, EditTypes, CursorInMode, Modes
  <2>2. ScreenTypes' /\ SavedForMessage'
    BY <1>2, TypedPost, AllMessages DEF PhoneAlarm, screen, Typed, ScreenTypes
  <2>3. SoundTypes' /\ GhostTypes'
    BY <1>2 DEF PhoneAlarm, Typed, SoundTypes, GhostTypes, ghosts
  <2> QED
    BY <2>1, <2>2, <2>3 DEF Typed
<1>3. CASE PhoneTime \/ Midnight
  <2>1. now' \in Days
    <3>1. WeekLen \in Nat /\ WeekLen > 0 /\ now + 1 \in Nat
      BY WeekAssumption DEF Typed, EditTypes, Days
    <3>2. (now + 1) % WeekLen \in Days
      BY <3>1 DEF Days
    <3> QED
      BY <1>3, <3>2 DEF PhoneTime, Midnight
  <2>2. UNCHANGED <<env, edit, pc, was, queue, screen, sound, opened, dirty>>
        /\ stale' = {"time", "week"}
    BY <1>3 DEF PhoneTime, Midnight
  <2>3. EditTypes' /\ CursorInMode'
    BY <2>1, <2>2 DEF Typed, EditTypes, CursorInMode, edit
  <2>4. ScreenTypes' /\ SavedForMessage' /\ SoundTypes' /\ GhostTypes'
    BY <2>2 DEF Typed, ScreenTypes, SavedForMessage, SoundTypes, GhostTypes, screen,
                sound
  <2> QED
    BY <2>3, <2>4 DEF Typed
<1>4. CASE OtherMenu
  <2>1. UNCHANGED <<env, edit, now, pc, was, screen, sound, ghosts>>
    BY <1>4 DEF OtherMenu
  <2>2. \E msg \in Messages : Post(msg)
    BY <1>4, AllMessages DEF OtherMenu
  <2>3. ScreenTypes' /\ SavedForMessage'
    BY <2>1, <2>2, TypedPost DEF screen, Typed, ScreenTypes
  <2>4. EditTypes' /\ CursorInMode' /\ SoundTypes' /\ GhostTypes'
    BY <2>1 DEF Typed, EditTypes, CursorInMode, SoundTypes, GhostTypes, edit, sound, ghosts
  <2> QED
    BY <2>3, <2>4 DEF Typed
<1>5. CASE AlarmEvent
  <2>1. EditTypes' /\ CursorInMode'
    BY <1>5 DEF AlarmEvent, clear_rtc_pos, Typed, EditTypes, CursorInMode, Null, Ring, Week
  <2>2. ScreenTypes' /\ SavedForMessage'
    BY <1>5, TypedPost, AllMessages DEF AlarmEvent, clear_rtc_pos, screen, Typed, ScreenTypes
  <2>3. SoundTypes' /\ GhostTypes'
    BY <1>5 DEF AlarmEvent, clear_rtc_pos, Typed, SoundTypes, GhostTypes, ghosts
  <2> QED
    BY <2>1, <2>2, <2>3 DEF Typed
<1> QED
  BY <1>1, <1>2, <1>3, <1>4, <1>5 DEF Events

LEMMA TypedStep == Typed /\ [Next]_vars => Typed'
<1> SUFFICES ASSUME Typed, [Next]_vars PROVE Typed'
  OBVIOUS
<1>1. CASE UNCHANGED vars
  BY <1>1 DEF vars, edit, screen, sound, ghosts, Typed, EditTypes, ScreenTypes, SoundTypes,
              GhostTypes, CursorInMode, SavedForMessage
<1>2. CASE Next
  BY <1>2, TypedKey, TypedHandler, TypedScreen, TypedEvents DEF Next, Events
<1> QED
  BY <1>1, <1>2

LEMMA AlwaysTyped == Spec => []Typed
  BY TypedInit, TypedStep, PTL DEF Spec

(* The variables of the clock's interface keep their types: the cursor a    *)
(* position, the weekday one of the week, whatever runs into what.          *)
THEOREM UiTyped == Spec => []TypeOK
  BY AlwaysTyped, TypedIsTypeOK, PTL

(* What the world may do is settled from the start.                         *)
LEMMA EnvKept == [Next]_vars => env' = env
  BY DEF Next, KeyPress, HandlerStep, UiStep, OpenKey, FlipKey, CheckKey, PosKey, AdjustKey,
         VolumeKey, DoneKey, rtc_sw_24_12h, set_rtc_pos, PosNext, set_rtc_up_down, ShowMenu,
         alarm_ring_start, UiAction, UiSaved, Timeout, AutoReflash, RingTimeout, PhoneAlarm,
         PhoneTime, OtherMenu, AlarmEvent, alarm_ring_retry, alarm_stop, Midnight, vars

-----------------------------------------------------------------------------
(* What is set is saved to its own setting.                                 *)

(* While a setting is open, or its first position is about to be shown, the *)
(* target is the setting whose key opened it.                               *)
OwnTarget ==
  Without({"phone", "switch"})
    => (pos # Null \/ flags # {} \/ pc \in {"pos", "next"} => Target = opened)

LEMMA OwnTargetStep == Typed /\ OwnTarget /\ [Next]_vars => OwnTarget'
<1> SUFFICES ASSUME Typed, OwnTarget, [Next]_vars, Without({"phone", "switch"})',
                    (pos # Null \/ flags # {} \/ pc \in {"pos", "next"})'
             PROVE  Target' = opened'
  BY DEF OwnTarget
<1>1. env' = env
  BY EnvKept
<1>2. Without({"phone", "switch"}) /\ "phone" \notin env /\ "switch" \notin env
  BY <1>1 DEF Without
<1>3. ASSUME UNCHANGED <<mode, alm_num, opened>>,
             (pos # Null \/ flags # {} \/ pc \in {"pos", "next"})
      PROVE  Target' = opened'
  BY <1>2, <1>3 DEF OwnTarget, Target
<1>4. ASSUME NEW key \in Keys, OpenKey(key)
      PROVE  Target' = opened'
  BY <1>4 DEF OpenKey, SetTarget, Target, AlarmOf
<1>5. ASSUME NEW key \in Keys, FlipKey(key)
      PROVE  Target' = opened'
  BY <1>3, <1>5 DEF FlipKey
<1>6. ASSUME NEW key \in Keys, CheckKey(key)
      PROVE  FALSE
  BY <1>2, <1>6 DEF CheckKey, OtherSetting, Pressed
<1>7. ASSUME PosKey \/ AdjustKey \/ VolumeKey \/ DoneKey \/ rtc_sw_24_12h
      PROVE  Target' = opened'
  BY <1>3, <1>7 DEF PosKey, AdjustKey, VolumeKey, DoneKey, rtc_sw_24_12h, edit, ghosts, Ring,
                    Null
<1>8. ASSUME set_rtc_pos \/ PosNext
      PROVE  Target' = opened'
  BY <1>3, <1>8 DEF set_rtc_pos, PosNext, ghosts
<1>9. ASSUME set_rtc_up_down \/ ShowMenu \/ alarm_ring_start
      PROVE  Target' = opened'
  BY <1>3, <1>9 DEF set_rtc_up_down, ShowMenu, alarm_ring_start, edit, ghosts
<1>10. ASSUME UiAction \/ UiSaved
       PROVE  Target' = opened'
  BY <1>3, <1>10 DEF UiAction, UiSaved, FlagsCleared, ghosts
<1>11. ASSUME Timeout \/ AutoReflash \/ RingTimeout \/ PhoneTime \/ OtherMenu
                \/ alarm_ring_retry \/ alarm_stop \/ Midnight
       PROVE  Target' = opened'
  BY <1>3, <1>11 DEF Timeout, AutoReflash, RingTimeout, PhoneTime, OtherMenu,
                     alarm_ring_retry, alarm_stop, Midnight, edit, ghosts
<1>12. ASSUME PhoneAlarm
       PROVE  FALSE
  BY <1>2, <1>12 DEF PhoneAlarm, Allowed, Busy
<1>13. ASSUME AlarmEvent
       PROVE  Target' = opened'
  BY <1>3, <1>13 DEF AlarmEvent, clear_rtc_pos, ghosts
<1>14. CASE UNCHANGED vars
  BY <1>3, <1>14 DEF vars, edit, ghosts
<1> QED
  BY <1>4, <1>5, <1>6, <1>7, <1>8, <1>9, <1>10, <1>11, <1>12, <1>13, <1>14
  DEF Next, KeyPress, HandlerStep, UiStep

LEMMA AlwaysOwnTarget == Spec => []OwnTarget
<1>1. Init => OwnTarget
  BY DEF Init, OwnTarget, Null
<1> QED
  BY <1>1, AlwaysTyped, OwnTargetStep, PTL DEF Spec

(* What is being set is saved to the setting whose key opened it, also when *)
(* a menu times out while a key is handled.                                 *)
THEOREM TargetKept == Spec => []EditOwnTarget
<1>1. OwnTarget => EditOwnTarget
  BY DEF OwnTarget, EditOwnTarget
<1> QED
  BY <1>1, AlwaysOwnTarget, PTL

-----------------------------------------------------------------------------
(* Setting the time leaves the date alone.                                  *)

(* What is not stale is of today: the time being set, and the weekday that  *)
(* will be saved.                                                           *)
Fresh ==
  /\ "time" \notin stale => set_time = now
  /\ "week" \notin stale => user_week = WeekVal(now)

(* The steps that touch neither of them.                                    *)
LEMMA FreshKept ==
  ASSUME Fresh, UNCHANGED <<now, set_time, user_week, stale>>
  PROVE  Fresh'
<1>1. WeekVal(now)' = WeekVal(now)
  BY DEF WeekVal
<1> QED
  BY <1>1 DEF Fresh

LEMMA FreshKey == Fresh /\ KeyPress => Fresh'
<1> SUFFICES ASSUME Fresh, KeyPress PROVE Fresh'
  OBVIOUS
<1>1. ASSUME NEW key \in Keys, CheckKey(key)
      PROVE  Fresh'
  <2>1. set_time' = now /\ now' = now /\ user_week' = user_week
        /\ stale' = stale \ {"time"}
    BY <1>1 DEF CheckKey
  <2>2. WeekVal(now)' = WeekVal(now)
    BY <2>1 DEF WeekVal
  <2> QED
    BY <2>1, <2>2 DEF Fresh
<1>2. ASSUME NEW key \in Keys, OpenKey(key) \/ FlipKey(key)
      PROVE  Fresh'
  BY <1>2, FreshKept DEF OpenKey, FlipKey
<1>3. ASSUME PosKey \/ AdjustKey \/ VolumeKey \/ DoneKey \/ rtc_sw_24_12h
      PROVE  Fresh'
  BY <1>3, FreshKept DEF PosKey, AdjustKey, VolumeKey, DoneKey, rtc_sw_24_12h, edit, ghosts
<1> QED
  BY <1>1, <1>2, <1>3 DEF KeyPress

LEMMA FreshHandler == Fresh /\ HandlerStep => Fresh'
<1> SUFFICES ASSUME Fresh, HandlerStep PROVE Fresh'
  OBVIOUS
<1>1. ASSUME now' = now
      PROVE  WeekVal(now)' = WeekVal(now)
  BY <1>1 DEF WeekVal
<1>2. CASE set_rtc_pos
  <2>1. now' = now /\ user_week' = user_week
    BY <1>2 DEF set_rtc_pos
  <2>2. CASE pos = Null /\ mode = "rtc"
    <3>1. set_time' = now /\ stale' = stale \ {"time"}
      BY <1>2, <2>2 DEF set_rtc_pos, TimeRead
    <3> QED
      BY <1>1, <2>1, <3>1 DEF Fresh
  <2>3. CASE ~ (pos = Null /\ mode = "rtc")
    <3>1. set_time' = set_time /\ stale' = stale
      BY <1>2, <2>3 DEF set_rtc_pos, TimeRead
    <3> QED
      BY <2>1, <3>1, FreshKept
  <2> QED
    BY <2>2, <2>3
<1>3. CASE PosNext
  <2>1. now' = now /\ set_time' = set_time
    BY <1>3 DEF PosNext
  <2>2. CASE mode = "rtc" /\ pos' = Week
    <3>1. user_week' = WeekVal(now) /\ stale' = stale \ {"week"}
      BY <1>3, <2>2 DEF PosNext
    <3> QED
      BY <1>1, <2>1, <3>1 DEF Fresh
  <2>3. CASE ~ (mode = "rtc" /\ pos' = Week)
    <3>1. user_week' = user_week /\ stale' = stale
      BY <1>3, <2>3 DEF PosNext
    <3> QED
      BY <2>1, <3>1, FreshKept
  <2> QED
    BY <2>2, <2>3
<1>4. CASE set_rtc_up_down
  <2>1. now' = now
    BY <1>4 DEF set_rtc_up_down
  <2>2. stale \subseteq stale'
    BY <1>4 DEF set_rtc_up_down
  <2>3. "time" \notin stale' => set_time' = set_time
    BY <1>4 DEF set_rtc_up_down
  <2>4. "week" \notin stale' => user_week' = user_week
    BY <1>4 DEF set_rtc_up_down, WeekAdjusted
  <2> QED
    BY <1>1, <2>1, <2>2, <2>3, <2>4 DEF Fresh
<1>5. CASE ShowMenu \/ alarm_ring_start
  BY <1>5, FreshKept DEF ShowMenu, alarm_ring_start, edit, ghosts
<1> QED
  BY <1>2, <1>3, <1>4, <1>5 DEF HandlerStep

(* A saved date is read back as today's, and its weekday is the one that    *)
(* was saved if the date had not been changed as well.                      *)
LEMMA FreshSave ==
  ASSUME Typed, Fresh, SaveEdit, user_week' = user_week
  PROVE  Fresh'
<1>1. CASE pos # Null /\ mode = "rtc"
  <2>1. now' = DateSaved(set_time, WeekVal(now), user_week) /\ set_time' = now'
        /\ stale' = IF "time" \in stale THEN {"week"} ELSE {}
    BY <1>1 DEF SaveEdit
  <2>2. ASSUME "week" \notin stale'
        PROVE  user_week = WeekVal(now')
    <3>1. set_time = now
      BY <2>1, <2>2 DEF Fresh
    <3> QED
      BY <2>1, <3>1, SavedWeekday DEF Typed, EditTypes
  <2>3. WeekVal(now)' = WeekVal(now')
    BY DEF WeekVal
  <2> QED
    BY <2>1, <2>2, <2>3 DEF Fresh
<1>2. CASE ~ (pos # Null /\ mode = "rtc")
  <2>1. UNCHANGED <<now, set_time, stale>>
    BY <1>2 DEF SaveEdit
  <2> QED
    BY <2>1, FreshKept
<1> QED
  BY <1>1, <1>2

LEMMA FreshStep == Typed /\ Fresh /\ [Next]_vars => Fresh'
<1> SUFFICES ASSUME Typed, Fresh, [Next]_vars PROVE Fresh'
  OBVIOUS
<1>1. CASE UiAction
  <2>1. CASE CallsBack(Head(queue)) /\ cb = "set"
    <3>1. SaveEdit /\ user_week' = user_week
      BY <1>1, <2>1 DEF UiAction
    <3> QED
      BY <3>1, FreshSave
  <2>2. CASE ~ (CallsBack(Head(queue)) /\ cb = "set")
    <3>1. UNCHANGED <<now, set_time, user_week, stale>>
      BY <1>1, <2>2 DEF UiAction
    <3> QED
      BY <3>1, FreshKept
  <2> QED
    BY <2>1, <2>2
<1>2. CASE UiSaved \/ Timeout \/ AutoReflash
  BY <1>2, FreshKept DEF UiSaved, Timeout, AutoReflash, edit, ghosts
<1>3. CASE PhoneTime \/ Midnight
  BY <1>3 DEF PhoneTime, Midnight, Fresh
<1>4. CASE RingTimeout \/ PhoneAlarm \/ OtherMenu \/ AlarmEvent \/ alarm_ring_retry
             \/ alarm_stop
  BY <1>4, FreshKept DEF RingTimeout, PhoneAlarm, OtherMenu, AlarmEvent, alarm_ring_retry,
                         alarm_stop, edit, ghosts
<1>5. CASE UNCHANGED vars
  BY <1>5, FreshKept DEF vars, edit, ghosts
<1> QED
  BY <1>1, <1>2, <1>3, <1>4, <1>5, FreshKey, FreshHandler DEF Next, UiStep

(* Setting the hour or the minute leaves the date alone, whatever runs into *)
(* what: the callback works the day out from the time that was read and     *)
(* from user_week, and both are of today unless they are stale.             *)
THEOREM DateUnmoved == Spec => DateKept
<1>1. Init => Fresh
  BY DEF Init, Fresh
<1>2. Typed /\ Fresh /\ [Next]_vars
        => [ui = "idle" /\ ui' = "saved" /\ pos # Null /\ mode = "rtc" /\ stale = {}
            => now' = now]_vars
  <2> SUFFICES ASSUME Typed, Fresh, Next, ui = "idle", ui' = "saved", pos # Null,
                      mode = "rtc", stale = {}
               PROVE  now' = now
    BY DEF vars, screen
  <2>1. UiAction
    BY DEF Next, KeyPress, HandlerStep, UiStep, OpenKey, FlipKey, CheckKey, PosKey, AdjustKey,
           VolumeKey, DoneKey, rtc_sw_24_12h, set_rtc_pos, PosNext, set_rtc_up_down, ShowMenu,
           alarm_ring_start, UiSaved, Timeout, AutoReflash, RingTimeout, PhoneAlarm,
           PhoneTime, OtherMenu, AlarmEvent, alarm_ring_retry, alarm_stop, Midnight, screen
  <2>2. SaveEdit
    BY <2>1 DEF UiAction
  <2>3. set_time = now /\ user_week = WeekVal(now)
    BY DEF Fresh
  <2>4. now' = DateSaved(now, WeekVal(now), user_week)
    BY <2>2, <2>3 DEF SaveEdit
  <2> QED
    BY <2>3, <2>4, SavedWeekday DEF Typed, EditTypes
<1> QED
  BY <1>1, <1>2, AlwaysTyped, FreshStep, PTL DEF Spec, DateKept

-----------------------------------------------------------------------------
(* The end of a setting does not stop a ring.                               *)

(* One handler at a time, and no other key than those of the setting.       *)
Spared == Without({"race", "phone", "toggle", "switch"})

Msg == Head(queue)
Asks == queue # << >>
InHand == pc \in {"pos", "next", "adjust", "show"}

(* The ui task answers one message at a time, and only the menu of a        *)
(* setting has the callback that saves.                                     *)
OneMessage ==
  /\ Asks => Tail(queue) = << >>
  /\ InHand => ~ Asks /\ ui = "idle" /\ ~ active
  /\ pc = "ring" => active
  /\ ui = "saved" => cb = "set" /\ Asks /\ CallsBack(Msg)
  /\ cb = "set" => menu = "set"
  /\ Asks => /\ Msg.cb = "set" => Msg.op = "other" /\ Msg.menu = "set"
             /\ cb = "set" /\ Msg.op = "other" /\ Msg.menu = "set" => Msg.cb = "set"

(* That menu is shown, or about to be, as long as a setting is open; and a  *)
(* tone that is tried out belongs to it.                                    *)
Ending == cb = "set" /\ Asks /\ Msg.op = "reflash"
SettingShown ==
  /\ cb = "set" \/ (Asks /\ Msg.cb = "set") \/ InHand => flags # {} \/ Ending
  /\ pos # Null => flags # {}
  /\ tone = "preview" \/ ring_timer
       => cb = "set" \/ pc = "show" \/ (Asks /\ Msg.cb = "set")

(* When an alarm rings it is gone, or the message that ends it is next.     *)
GoneForRing ==
  /\ ~ retry
  /\ tone = "ring" => active /\ pc = "idle"
  /\ pc = "ring" => (Asks => Msg.cb # "set") /\ (cb = "set" => Ending)
  /\ active /\ pc = "idle" => cb # "set" /\ (Asks => Msg.cb # "set")

SparedInv == Spared => OneMessage /\ SettingShown /\ GoneForRing

LEMMA SparedNow ==
  ASSUME SparedInv, env' = env, Spared'
  PROVE  /\ Spared /\ OneMessage /\ SettingShown /\ GoneForRing
         /\ "race" \notin env /\ "phone" \notin env /\ "toggle" \notin env
         /\ "switch" \notin env
  BY DEF SparedInv, Spared, Without

(* What a handler that found the queue empty leaves there.                  *)
LEMMA PostedAlone ==
  ASSUME Typed, queue = << >>, NEW msg \in Messages, Post(msg)
  PROVE  Asks' /\ Msg' = msg /\ Tail(queue)' = << >>
  BY Posted DEF Typed, ScreenTypes, Asks, Msg

LEMMA SparedKey ==
  ASSUME Typed, SparedInv, env' = env, Spared', KeyPress
  PROVE  OneMessage' /\ SettingShown' /\ GoneForRing'
<1>1. /\ OneMessage /\ SettingShown /\ GoneForRing
      /\ "race" \notin env /\ "toggle" \notin env /\ "switch" \notin env
  BY SparedNow
<1>2. pc = "idle" /\ ui = "idle" /\ queue = << >> /\ ~ active
      /\ UNCHANGED <<menu, cb, ui, sound>>
  BY <1>1 DEF KeyPress, OpenKey, FlipKey, CheckKey, PosKey, AdjustKey, VolumeKey, DoneKey,
              rtc_sw_24_12h, Pressed, AppRuns, screen
<1>3. tone # "ring" /\ tone' # "ring" /\ ~ active' /\ ~ retry'
      /\ (tone' = "preview" \/ ring_timer' => cb' = "set")
      /\ (cb' = "set" => menu' = "set" /\ flags # {})
      /\ (pos # Null => flags # {})
  BY <1>1, <1>2 DEF OneMessage, SettingShown, GoneForRing, sound, Asks, Ending
<1>4. ASSUME queue' = << >>, pc' \in {"pos", "adjust", "show"}, flags' # {}
      PROVE  OneMessage' /\ SettingShown' /\ GoneForRing'
  <2>1. ~ Asks' /\ ui' = "idle" /\ pc' # "ring" /\ pc' # "idle"
    BY <1>2, <1>4 DEF Asks
  <2>2. OneMessage'
    BY <1>3, <2>1 DEF OneMessage
  <2>3. SettingShown'
    BY <1>3, <1>4, <2>1 DEF SettingShown
  <2>4. GoneForRing'
    BY <1>3, <2>1 DEF GoneForRing
  <2> QED
    BY <2>2, <2>3, <2>4
<1>5. ASSUME pc' = "idle", NEW msg \in Messages, Post(msg), msg.cb # "set",
             msg.op = "other" => cb # "set",
             pos' # Null => flags' # {},
             cb = "set" => flags' # {} \/ msg.op = "reflash"
      PROVE  OneMessage' /\ SettingShown' /\ GoneForRing'
  <2>1. Asks' /\ Msg' = msg /\ Tail(queue)' = << >> /\ ui' = "idle" /\ ~ InHand' /\ cb' = cb
    BY <1>2, <1>5, PostedAlone DEF InHand
  <2>2. OneMessage'
    BY <1>3, <1>5, <2>1 DEF OneMessage
  <2>3. SettingShown'
    BY <1>3, <1>5, <2>1 DEF SettingShown, Ending
  <2>4. GoneForRing'
    BY <1>3, <1>5 DEF GoneForRing
  <2> QED
    BY <2>2, <2>3, <2>4
<1>6. ASSUME NEW key \in Keys, OpenKey(key)
      PROVE  OneMessage' /\ SettingShown' /\ GoneForRing'
  BY <1>2, <1>4, <1>6 DEF OpenKey
<1>7. ASSUME NEW key \in Keys, FlipKey(key)
      PROVE  OneMessage' /\ SettingShown' /\ GoneForRing'
  <2>1. Request("reflash") \in Messages /\ Request("reflash").op = "reflash"
        /\ Request("reflash").cb = "none"
    BY AllMessages DEF Request
  <2>2. Post(Request("reflash")) /\ pos' = Null /\ pc' = "idle"
    BY <1>2, <1>7 DEF FlipKey
  <2> QED
    BY <1>5, <2>1, <2>2
<1>8. ASSUME NEW key \in Keys, CheckKey(key)
      PROVE  OneMessage' /\ SettingShown' /\ GoneForRing'
  <2>1. flags = {} /\ pos' = Null /\ pc' = "idle" /\ cb # "set"
    BY <1>1, <1>2, <1>3, <1>8 DEF CheckKey, OtherSetting
  <2>2. PICK msg \in {Request("reflash"), Menu("set", "check")} : Post(msg)
    BY <1>8 DEF CheckKey
  <2>3. msg \in Messages /\ msg.cb # "set"
    BY <2>2, AllMessages DEF Request, Menu
  <2> QED
    BY <1>5, <2>1, <2>2, <2>3
<1>9. ASSUME PosKey \/ AdjustKey \/ VolumeKey
      PROVE  OneMessage' /\ SettingShown' /\ GoneForRing'
  <2>1. queue' = << >> /\ pc' \in {"pos", "adjust", "show"} /\ flags' = flags
    BY <1>2, <1>9 DEF PosKey, AdjustKey, VolumeKey, edit
  <2>2. flags # {}
    BY <1>3, <1>9 DEF PosKey, AdjustKey, VolumeKey, Ring, Null
  <2> QED
    BY <1>4, <2>1, <2>2
<1>10. ASSUME DoneKey
       PROVE  OneMessage' /\ SettingShown' /\ GoneForRing'
  <2>1. Request("reflash") \in Messages /\ Request("reflash").op = "reflash"
        /\ Request("reflash").cb = "none"
    BY AllMessages DEF Request
  <2>2. Post(Request("reflash")) /\ flags' # {} /\ pc' = "idle"
    BY <1>2, <1>10 DEF DoneKey, edit
  <2> QED
    BY <1>5, <2>1, <2>2
<1>11. ASSUME rtc_sw_24_12h
       PROVE  OneMessage' /\ SettingShown' /\ GoneForRing'
  <2>1. Menu("set", "other") \in Messages /\ Menu("set", "other").cb = "other"
    BY AllMessages DEF Menu
  <2>2. flags = {} /\ pos = Null /\ Post(Menu("set", "other")) /\ pos' = pos /\ pc' = "idle"
    BY <1>1, <1>2, <1>11 DEF rtc_sw_24_12h, Allowed, Busy, edit
  <2>3. cb # "set"
    BY <1>2, <1>3, <2>2
  <2> QED
    BY <1>5, <2>1, <2>2, <2>3
<1> QED
  BY <1>6, <1>7, <1>8, <1>9, <1>10, <1>11 DEF KeyPress

LEMMA SparedHandler ==
  ASSUME Typed, SparedInv, env' = env, Spared', HandlerStep
  PROVE  OneMessage' /\ SettingShown' /\ GoneForRing'
<1>1. /\ OneMessage /\ SettingShown /\ GoneForRing
      /\ "race" \notin env
  BY SparedNow
<1>2. ASSUME InHand
      PROVE  /\ queue = << >> /\ ui = "idle" /\ ~ active /\ flags # {} /\ tone # "ring" /\ ~ retry
             /\ cb = "set" => menu = "set"
  BY <1>1, <1>2 DEF OneMessage, SettingShown, GoneForRing, Asks, Ending
<1>3. CASE set_rtc_pos \/ PosNext \/ set_rtc_up_down
  <2>1. /\ InHand
        /\ pc' \in {"show", "next"}
        /\ UNCHANGED <<flags, queue, menu, cb, ui, active, retry>>
    BY <1>3 DEF set_rtc_pos, PosNext, set_rtc_up_down, screen, InHand
  <2>2. /\ tone' \in {tone, "preview", "none"}
        /\ pc' = "next" => UNCHANGED <<tone, ring_timer>> /\ pc = "pos"
    BY <1>3 DEF set_rtc_pos, PosNext, set_rtc_up_down, SoundAt, Play, rtc_ring_timer_del
  <2>3. ~ Asks'
    BY <1>2, <2>1 DEF Asks
  <2>4. OneMessage'
    BY <1>2, <2>1, <2>3 DEF OneMessage
  <2>5. SettingShown'
    <3>1. pc = "pos" /\ (tone = "preview" \/ ring_timer) => cb = "set"
      BY <1>1, <1>2, <2>1 DEF SettingShown, Asks
    <3> QED
      BY <1>2, <2>1, <2>2, <3>1 DEF SettingShown
  <2>6. GoneForRing'
    BY <1>2, <2>1, <2>2 DEF GoneForRing
  <2> QED
    BY <2>4, <2>5, <2>6
<1>4. CASE ShowMenu
  <2>1. /\ InHand /\ pc' = "idle" /\ Post(Menu("set", "set"))
        /\ UNCHANGED <<flags, menu, cb, ui, active, tone, retry, ring_timer>>
    BY <1>4 DEF ShowMenu, edit, screen, sound, InHand
  <2>2. Menu("set", "set") \in Messages /\ Menu("set", "set").op = "other"
        /\ Menu("set", "set").menu = "set" /\ Menu("set", "set").cb = "set"
    BY AllMessages DEF Menu
  <2>3. Asks' /\ Msg' = Menu("set", "set") /\ Tail(queue)' = << >> /\ ~ InHand'
    BY <1>2, <2>1, <2>2, PostedAlone DEF InHand
  <2>4. OneMessage'
    BY <1>2, <2>1, <2>2, <2>3 DEF OneMessage
  <2>5. SettingShown'
    BY <1>2, <2>1, <2>2, <2>3 DEF SettingShown
  <2>6. GoneForRing'
    BY <1>2, <2>1 DEF GoneForRing
  <2> QED
    BY <2>4, <2>5, <2>6
<1>5. CASE alarm_ring_start
  <2>1. pc = "ring" /\ pc' = "idle" /\ queue = << >> /\ ui = "idle" /\ active
        /\ UNCHANGED <<flags, pos, queue, menu, cb, ui, active, ring_timer>>
    BY <1>1, <1>5 DEF alarm_ring_start, AppRuns, edit, screen, OneMessage
  <2>2. cb # "set" /\ ~ Asks /\ ~ Asks'
    BY <1>1, <2>1 DEF GoneForRing, Ending, Asks
  <2>3. tone # "preview" /\ ~ ring_timer /\ tone # "ring"
    BY <1>1, <2>1, <2>2 DEF SettingShown, GoneForRing
  <2>4. tone = "none"
    BY <2>3 DEF Typed, SoundTypes
  <2>5. tone' = "ring" /\ ~ retry'
    BY <1>1, <1>5, <2>4 DEF alarm_ring_start, GoneForRing
  <2>6. OneMessage'
    BY <2>1, <2>2 DEF OneMessage, InHand
  <2>7. SettingShown'
    BY <1>1, <2>1, <2>2, <2>3, <2>5 DEF SettingShown, InHand
  <2>8. GoneForRing'
    BY <2>1, <2>2, <2>5 DEF GoneForRing
  <2> QED
    BY <2>6, <2>7, <2>8
<1> QED
  BY <1>3, <1>4, <1>5 DEF HandlerStep

(* A message that is drawn puts the menu of a setting away, or its own      *)
(* there; the temperature menu may follow on the main page only.            *)
LEMMA DrawnAlone ==
  ASSUME Typed, Asks, Drawn(Msg), Tail(queue) = << >>, cb = "set" => menu = "set",
         Msg.cb = "set" => Msg.op = "other" /\ Msg.menu = "set"
  PROVE  /\ cb' = "set" => menu' = "set" /\ ~ Asks'
         /\ cb' = "set" => Msg.cb = "set" \/ (cb = "set" /\ Msg.op = "strick" /\ timer)
         /\ Asks' => Msg' = Temperature /\ Tail(queue)' = << >>
         /\ Msg.op = "other" => cb' = Msg.cb
<1>1. PICK more \in (IF menu' = "main" THEN {<< >>, <<Temperature>>} ELSE {<< >>}) :
        queue' = Tail(queue) \o more
  BY DEF Drawn
<1>2. queue' = more
  <2>1. more = << >> \/ more = <<Temperature>>
    BY <1>1
  <2>2. << >> \o << >> = << >> /\ << >> \o <<Temperature>> = <<Temperature>>
    OBVIOUS
  <2> QED
    BY <1>1, <2>1, <2>2
<1>3. Msg.op = "other" => menu' = Msg.menu /\ cb' = Msg.cb
  BY DEF Drawn
<1>4. Msg.op = "strick" /\ timer => UNCHANGED <<menu, cb>>
  BY DEF Drawn
<1>5. Msg.op # "other" /\ ~ (Msg.op = "strick" /\ timer) => menu' = "main" /\ cb' = "none"
  BY DEF Drawn
<1>6. cb' = "set" => menu' = "set"
        /\ (Msg.cb = "set" \/ (cb = "set" /\ Msg.op = "strick" /\ timer))
  BY <1>3, <1>4, <1>5
<1>7. menu' # "main" => ~ Asks'
  BY <1>1, <1>2 DEF Asks
<1>8. Asks' => Msg' = Temperature /\ Tail(queue)' = << >>
  <2>1. Head(<<Temperature>>) = Temperature /\ Tail(<<Temperature>>) = << >>
    OBVIOUS
  <2> QED
    BY <1>1, <1>2, <2>1 DEF Asks, Msg
<1> QED
  BY <1>3, <1>6, <1>7, <1>8

LEMMA SparedScreen ==
  ASSUME Typed, SparedInv, env' = env, Spared', UiStep \/ Timeout \/ AutoReflash
  PROVE  OneMessage' /\ SettingShown' /\ GoneForRing'
<1>1. /\ OneMessage /\ SettingShown /\ GoneForRing
      /\ "race" \notin env
  BY SparedNow
<1>2. Temperature.op = "other" /\ Temperature.menu = "set" /\ Temperature.cb = "other"
  BY DEF Temperature, Menu
<1>3. CASE UiAction
  <2>1. Asks /\ Tail(queue) = << >> /\ ~ InHand /\ ui = "idle"
        /\ UNCHANGED <<pos, flags, pc, active, tone, retry, ring_timer>>
    BY <1>1, <1>3 DEF UiAction, Asks, OneMessage, sound
  <2>2. CASE CallsBack(Msg) /\ cb = "set"
    <3>1. ui' = "saved" /\ UNCHANGED <<queue, menu, cb, timer>>
      BY <1>3, <2>2 DEF UiAction, Msg
    <3>2. OneMessage'
      BY <1>1, <2>1, <2>2, <3>1 DEF OneMessage, Asks, Msg, InHand, CallsBack
    <3>3. SettingShown' /\ GoneForRing'
      BY <1>1, <2>1, <3>1 DEF SettingShown, GoneForRing, Asks, Msg, InHand, Ending
    <3> QED
      BY <3>2, <3>3
  <2>3. CASE ~ (CallsBack(Msg) /\ cb = "set")
    <3>1. Drawn(Msg) /\ ui' = "idle"
      BY <1>3, <2>1, <2>3 DEF UiAction, Msg
    <3>2. /\ cb = "set" => menu = "set"
          /\ Msg.cb = "set" => Msg.op = "other" /\ Msg.menu = "set"
          /\ cb = "set" /\ Msg.op = "other" /\ Msg.menu = "set" => Msg.cb = "set"
      BY <1>1, <2>1 DEF OneMessage
    <3>3. /\ cb' = "set" => menu' = "set" /\ ~ Asks'
          /\ cb' = "set" => Msg.cb = "set" \/ (cb = "set" /\ Msg.op = "strick" /\ timer)
          /\ Asks' => Msg' = Temperature /\ Tail(queue)' = << >>
          /\ Msg.op = "other" => cb' = Msg.cb
      BY <2>1, <3>1, <3>2, DrawnAlone
    <3>4. ~ InHand'
      BY <2>1 DEF InHand
    <3>5. cb = "set" => Msg.op # "reflash" /\ (Msg.op = "other" => Msg.cb = "set")
            /\ (Msg.op # "other" => Msg.op = "strick" /\ timer)
      BY <2>3, <3>2 DEF CallsBack
    <3>6. (cb = "set" \/ Msg.cb = "set") => cb' = "set" /\ flags # {}
      <4>1. cb = "set" \/ Msg.cb = "set" => flags # {}
        BY <1>1, <2>1, <3>2, <3>5 DEF SettingShown, Ending
      <4>2. Msg.cb = "set" => cb' = "set"
        BY <3>2, <3>3
      <4>3. cb = "set" /\ Msg.op = "strick" /\ timer => cb' = "set"
        BY <3>1 DEF Drawn
      <4> QED
        BY <3>5, <4>1, <4>2, <4>3
    <3>7. OneMessage'
      BY <1>1, <1>2, <2>1, <3>1, <3>3, <3>4 DEF OneMessage
    <3>8. SettingShown'
      <4>1. Asks' => Msg'.cb # "set"
        BY <1>2, <3>3
      <4>2. cb' = "set" => flags' # {}
        BY <2>1, <3>3, <3>6
      <4>3. tone' = "preview" \/ ring_timer' => cb' = "set" \/ pc' = "show"
        BY <1>1, <2>1, <3>6 DEF SettingShown
      <4>4. pos' # Null => flags' # {}
        BY <1>1, <2>1 DEF SettingShown
      <4> QED
        BY <3>4, <4>1, <4>2, <4>3, <4>4 DEF SettingShown
    <3>9. GoneForRing'
      <4>1. Asks' => Msg'.cb # "set"
        BY <1>2, <3>3
      <4>2. pc = "ring" => cb' # "set"
        BY <1>1, <2>1, <3>3, <3>5 DEF GoneForRing, Ending
      <4>3. active /\ pc = "idle" => cb' # "set"
        BY <1>1, <2>1, <3>3 DEF GoneForRing
      <4> QED
        BY <1>1, <2>1, <4>1, <4>2, <4>3 DEF GoneForRing
    <3> QED
      BY <3>7, <3>8, <3>9
  <2> QED
    BY <2>2, <2>3
<1>4. CASE UiSaved
  <2>1. ui = "saved" /\ ui' = "idle" /\ pos' = Null /\ flags' = {} /\ Drawn(Head(queue))
        /\ tone' = "none" /\ ~ ring_timer' /\ UNCHANGED <<pc, active, retry>>
    BY <1>4 DEF UiSaved, FlagsCleared, rtc_ring_timer_del
  <2>2. cb = "set" /\ Asks /\ CallsBack(Msg) /\ Tail(queue) = << >> /\ menu = "set" /\ ~ InHand
    BY <1>1, <2>1 DEF OneMessage
  <2>3. /\ Msg.cb = "set" => Msg.op = "other" /\ Msg.menu = "set"
        /\ Drawn(Msg)
    BY <1>1, <2>1, <2>2 DEF OneMessage, Msg
  <2>4. /\ cb' = "set" => Msg.cb = "set" \/ (cb = "set" /\ Msg.op = "strick" /\ timer)
        /\ Asks' => Msg' = Temperature /\ Tail(queue)' = << >>
    BY <2>2, <2>3, DrawnAlone
  <2>5. cb' # "set"
    BY <2>2, <2>3, <2>4 DEF CallsBack
  <2>6. ~ InHand'
    BY <2>1, <2>2 DEF InHand
  <2>7. OneMessage'
    BY <1>1, <1>2, <2>1, <2>4, <2>5, <2>6 DEF OneMessage
  <2>8. SettingShown'
    BY <1>2, <2>1, <2>4, <2>5, <2>6 DEF SettingShown
  <2>9. GoneForRing'
    BY <1>1, <1>2, <2>1, <2>4, <2>5 DEF GoneForRing
  <2> QED
    BY <2>7, <2>8, <2>9
<1>5. CASE Timeout \/ AutoReflash
  <2>1. pc = "idle" /\ queue = << >> /\ ui = "idle"
        /\ UNCHANGED <<pos, flags, pc, menu, cb, ui, active, tone, retry, ring_timer>>
    BY <1>1, <1>5 DEF Timeout, AutoReflash, UiPreempts, edit, screen, sound
  <2>2. Post(Request("strick")) \/ (Post(Temperature) /\ menu = "main")
    BY <1>5 DEF Timeout, AutoReflash
  <2>3. PICK msg \in Messages :
          Post(msg) /\ msg.cb # "set" /\ (msg.op = "other" => menu = "main")
    BY <1>2, <2>2, AllMessages DEF Request
  <2>4. Asks' /\ Msg' = msg /\ Tail(queue)' = << >> /\ ~ Asks
    BY <2>1, <2>3, PostedAlone DEF Asks
  <2>5. ~ InHand /\ ~ InHand'
    BY <2>1 DEF InHand
  <2>6. OneMessage'
    BY <1>1, <2>1, <2>3, <2>4, <2>5 DEF OneMessage
  <2>7. SettingShown'
    BY <1>1, <2>1, <2>3, <2>4, <2>5 DEF SettingShown, Ending
  <2>8. GoneForRing'
    BY <1>1, <2>1, <2>3, <2>4 DEF GoneForRing
  <2> QED
    BY <2>6, <2>7, <2>8
<1> QED
  BY <1>3, <1>4, <1>5 DEF UiStep

LEMMA SparedEvents ==
  ASSUME Typed, SparedInv, env' = env, Spared', Events
  PROVE  OneMessage' /\ SettingShown' /\ GoneForRing'
<1>1. /\ OneMessage /\ SettingShown /\ GoneForRing
      /\ "race" \notin env /\ "phone" \notin env
  BY SparedNow
<1>2. CASE Midnight \/ PhoneTime
  <2>1. UNCHANGED <<pos, flags, pc, queue, menu, cb, ui, timer, active, tone, retry, ring_timer>>
    BY <1>2 DEF Midnight, PhoneTime, edit, screen, sound
  <2> QED
    BY <1>1, <2>1 DEF OneMessage, SettingShown, GoneForRing, Asks, Msg, InHand, Ending, CallsBack
<1>3. CASE RingTimeout \/ alarm_ring_retry \/ alarm_stop
  <2>1. ~ retry
    BY <1>1 DEF GoneForRing
  <2>2. /\ pc = "idle"
        /\ UNCHANGED <<pos, flags, pc, queue, menu, cb, ui, timer, retry>>
        /\ tone' = "none" /\ (active' => active) /\ (ring_timer' => ring_timer)
    BY <1>3, <2>1 DEF RingTimeout, alarm_ring_retry, alarm_stop, rtc_ring_timer_del, edit, screen
  <2>3. OneMessage'
    BY <1>1, <2>2 DEF OneMessage, Asks, Msg, InHand, CallsBack
  <2>4. SettingShown'
    BY <1>1, <2>2 DEF SettingShown, Asks, Msg, InHand, Ending
  <2>5. GoneForRing'
    BY <1>1, <2>2 DEF GoneForRing, Asks, Msg, Ending
  <2> QED
    BY <2>3, <2>4, <2>5
<1>4. ASSUME pc = "idle", queue = << >>, ui = "idle",
             UNCHANGED <<menu, cb, ui, flags, retry, ring_timer>>,
             NEW msg \in Messages, Post(msg), msg.cb # "set",
             msg.op = "other" /\ msg.menu = "set" => cb # "set",
             pos' \in {pos, Null}, tone' \in {tone, "none"}
      PROVE  /\ Asks' /\ Msg' = msg
             /\ pc' = "idle" \/ (pc' = "ring" /\ active') => OneMessage'
             /\ pc' \in {"idle", "ring"} => SettingShown'
  <2>1. Asks' /\ Msg' = msg /\ Tail(queue)' = << >> /\ ~ Asks
    BY <1>4, PostedAlone DEF Asks
  <2>2. pc' = "idle" \/ (pc' = "ring" /\ active') => OneMessage'
    BY <1>1, <1>4, <2>1 DEF OneMessage, InHand
  <2>3. pc' \in {"idle", "ring"} => SettingShown'
    BY <1>1, <1>4, <2>1 DEF SettingShown, InHand, Ending
  <2> QED
    BY <2>1, <2>2, <2>3
<1>5. CASE PhoneAlarm
  <2>1. /\ pc = "idle" /\ queue = << >> /\ ui = "idle" /\ flags = {}
        /\ UNCHANGED <<pc, menu, cb, ui, flags, pos, retry, ring_timer>>
        /\ active' = FALSE /\ tone' = "none" /\ Post(Menu("set", "other"))
    BY <1>1, <1>5 DEF PhoneAlarm, AppRuns, Allowed, Busy, screen
  <2>2. Menu("set", "other") \in Messages /\ Menu("set", "other").cb = "other"
    BY AllMessages DEF Menu
  <2>3. cb # "set"
    BY <1>1, <2>1 DEF SettingShown, Ending, Asks
  <2>4. OneMessage' /\ SettingShown'
    BY <1>4, <2>1, <2>2, <2>3
  <2>5. GoneForRing'
    BY <1>1, <2>1 DEF GoneForRing
  <2> QED
    BY <2>4, <2>5
<1>6. CASE OtherMenu
  <2>1. /\ pc = "idle" /\ queue = << >> /\ ui = "idle"
        /\ UNCHANGED <<pc, menu, cb, ui, flags, pos, active, tone, retry, ring_timer>>
    BY <1>1, <1>6 DEF OtherMenu, AppRuns, edit, screen, sound
  <2>2. Post(Menu("vol", "none")) \/ Post(Request("switch"))
    BY <1>6 DEF OtherMenu
  <2>3. PICK msg \in Messages :
          Post(msg) /\ msg.cb # "set" /\ ~ (msg.op = "other" /\ msg.menu = "set")
    BY <2>2, AllMessages DEF Request, Menu
  <2>4. Asks' /\ Msg' = msg /\ OneMessage' /\ SettingShown'
    BY <1>4, <2>1, <2>3
  <2>5. GoneForRing'
    BY <1>1, <2>1, <2>3, <2>4 DEF GoneForRing
  <2> QED
    BY <2>4, <2>5
<1>7. CASE AlarmEvent
  <2>1. /\ pc = "idle" /\ queue = << >> /\ ui = "idle" /\ ~ active /\ active' = TRUE
        /\ UNCHANGED <<menu, cb, ui, flags, tone, retry, ring_timer>>
        /\ pos' = Null /\ pc' = "ring" /\ Post(Request("reflash"))
    BY <1>1, <1>7 DEF AlarmEvent, AppRuns, clear_rtc_pos, screen
  <2>2. /\ Request("reflash") \in Messages /\ Request("reflash").cb = "none"
        /\ Request("reflash").op = "reflash"
    BY AllMessages DEF Request
  <2>3. Asks' /\ Msg' = Request("reflash") /\ OneMessage' /\ SettingShown'
    BY <1>4, <2>1, <2>2
  <2>4. GoneForRing'
    BY <1>1, <2>1, <2>2, <2>3 DEF GoneForRing, Ending
  <2> QED
    BY <2>3, <2>4
<1> QED
  BY <1>2, <1>3, <1>5, <1>6, <1>7 DEF Events

LEMMA SparedStep == Typed /\ SparedInv /\ [Next]_vars => SparedInv'
<1> SUFFICES ASSUME Typed, SparedInv, [Next]_vars, Spared'
             PROVE  OneMessage' /\ SettingShown' /\ GoneForRing'
  BY DEF SparedInv
<1>1. env' = env
  BY EnvKept
<1>2. CASE UNCHANGED vars
  <2>1. OneMessage /\ SettingShown /\ GoneForRing
    BY <1>1, SparedNow
  <2> QED
    BY <1>2, <2>1 DEF vars, edit, screen, sound, OneMessage, SettingShown, GoneForRing, Asks,
                      Msg, InHand, Ending, CallsBack
<1>3. CASE Next
  BY <1>1, <1>3, SparedKey, SparedHandler, SparedScreen, SparedEvents DEF Next, Events
<1> QED
  BY <1>2, <1>3

LEMMA SparedInit == Init => SparedInv
  BY DEF Init, SparedInv, OneMessage, SettingShown, GoneForRing, Asks, InHand, Ending, Null

(* No end of a setting, and no tone that was tried out, stops an alarm that *)
(* rings: only its own handler does.                                        *)
THEOREM RingSpared == Spec => RingNotCut
<1>1. Typed /\ SparedInv /\ [Next]_vars
        => [Without({"race", "phone", "toggle", "switch"})
              /\ active /\ tone = "ring" /\ tone' # "ring"
            => ~ active']_vars
  <2> SUFFICES ASSUME Typed, SparedInv, Next, Spared, active, tone = "ring", tone' # "ring"
               PROVE  ~ active'
    BY DEF Spared, vars, sound
  <2>1. OneMessage /\ SettingShown /\ GoneForRing
    BY DEF SparedInv
  <2>2. pc = "idle" /\ cb # "set" /\ (Asks => Msg.cb # "set") /\ ui # "saved" /\ ~ ring_timer
    BY <2>1 DEF OneMessage, SettingShown, GoneForRing
  <2>3. ~ HandlerStep /\ ~ UiSaved /\ ~ RingTimeout /\ ~ KeyPress
    BY <2>2 DEF HandlerStep, set_rtc_pos, PosNext, set_rtc_up_down, ShowMenu, alarm_ring_start,
                UiSaved, RingTimeout, KeyPress, OpenKey, FlipKey, CheckKey, PosKey, AdjustKey,
                VolumeKey, DoneKey, rtc_sw_24_12h, Pressed
  <2>4. ~ UiAction /\ ~ Timeout /\ ~ AutoReflash /\ ~ PhoneTime /\ ~ OtherMenu
          /\ ~ AlarmEvent /\ ~ alarm_ring_retry /\ ~ Midnight
    BY DEF UiAction, Timeout, AutoReflash, PhoneTime, OtherMenu, AlarmEvent, alarm_ring_retry,
           Midnight, sound
  <2>5. PhoneAlarm \/ alarm_stop
    BY <2>3, <2>4 DEF Next, UiStep
  <2> QED
    BY <2>5 DEF PhoneAlarm, alarm_stop
<1> QED
  BY <1>1, AlwaysTyped, SparedInit, SparedStep, PTL DEF Spec, RingNotCut
=============================================================================
