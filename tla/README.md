# Verification of the xiaozhi clock speaker

The repository is the firmware of a Bluetooth clock speaker on a JieLi AC695x
chip: the vendor's sound-box SDK (`SDK/apps/soundbox`, `SDK/apps/common`,
`SDK/cpu/br23`) with the product's own logic on top: an alarm clock with two
user alarms, weekly repetition, snooze and a fake power-off, set from a key
panel or from a phone over BLE, and a player for memory cards. This project
models that logic in TLA+, checks it with TLC and proves its central properties
with TLAPS. All paths below are relative to `src/SDK/`; `rtc/` is
`apps/soundbox/task_manager/rtc/`.

## 1. The system

The product is the board `board_ac695x_smartbox`: Bluetooth, music from the
SD card slot, line in and the clock are compiled; FM, PC, recording, SPDIF, TWS,
emitter, charging, the second SD slot and USB disks are not, nor is the smartbox
protocol (`CONFIG_APP_BT_ENABLE` is commented out in the board header).

| component | source | state it keeps | operations |
|---|---|---|---|
| alarm engine | `rtc/alarm_api.c` | `alarm_tab`, `alarm_map` (`map`, `map_sw`, `active_map`), the RTC alarm register, the VM (flash) copies | `alarm_add`, `alarm_delete`, `rtc_update_time_api`, `alarm_update_info_after_isr`, `alarm_init`, `alarm_check` |
| alarm commands | `rtc/alarm_api.c` (from 860), `rtc/alarm_user.c`, `rtc/rtc.c` | the alarm the phone replaced last | the phone's add, delete and delete all, the switch key, snooze and its end, save of a setting |
| calendar | `rtc/alarm_api.c`, `rtc/alarm_user.c`, `cpu/br23/xiaoyun_agreement/` | none | weekday, month lengths, next day, comparison, next time, earliest alarms, snooze time, phone time stamp |
| ring control | `rtc/alarm_user.c` | active flag, ring number, power-on flags, four timers | interrupt, event, keys, timeouts |
| tasks around it | `task_manager/power_on`, `idle`, `power_off`, `app_task_switch.c`, `app_main.c`, `bt/` | current and next task, tones, timers, calls | task switch and its refusal, `wait_dev_online`, power keys, soft power-off |
| clock interface | `rtc/rtc.c`, `apps/common/ui/led7`, `soundbox/ui/led7/ui_rtc.c` | setting cursor, time being edited, the menu shown, its timeout and callback | keys that open, move, change, close; menu messages; save |
| music task and player | `task_manager/music/music.c`, `apps/common/music/music_player.c` | device, scan, file and decoder, error counter, break points | start, next, previous, next device, end of a file, scan and its break, leave |
| device manager | `apps/common/dev_manager/` | list of devices with marks and stamps | add, delete, unmount, searches, scan |
| phone link | `apps/xiaozhi/sdk`, `trans_data_demo/le_trans_data.c` | receive queue, device events, binding record, key | receive, dispatch, acknowledge, bind |
| phone protocol | `cpu/br23/xiaoyun_agreement` | none of its own | the alarm commands above, set time |
| power management | `power_manage/` | battery level, low-power counters | low-power warning, shutdown |
| Bluetooth stack, decoders, drivers | the rest of `apps/`, `cpu/` | | around closed libraries |

How they interact: everything but interrupts and timers of the audio stack runs
in one application task that takes messages from one queue (keys, device
events, timer callbacks). The alarm interrupt marks the alarm active and posts
an event; the event asks the engine what rings and starts the ring; keys and a
timer end it. When the device was off the register itself starts it, and a
timer, `alarm_check`, posts the missing event. In the fake power-off (the idle
task) the interrupt first asks for a task change, and a polling timeout posts
the event when that is over. The engine saves its table to the VM, a flash area
written block by block. There are two exceptions to the one task. The `ui` task
draws the display and, when the menu of a setting times out or is interrupted,
runs the callback that saves the setting: it works on the variables of the keys
and calls the engine. The Bluetooth task receives, deciphers and buffers a
phone's commands, and posts a device event for each; the handler of device
events, in the application task, executes and answers them. The music task is
the application task in a mode: it posts itself a message for each thing to do
next, and a scan of a card takes messages out of the queue on its own.

What is hard: the gap between interrupt and event; two flash writes that belong
together, and commands made of several such operations; a register computed
from a clock that goes on; timers that are not cancelled; a callback in another
task that saves half of an edit; a key changed by one task while the other uses
it; messages posted in reply to a failure that arrive after what they were about
is gone; flags that carry the reason of a start through several tasks; dates at
month, year and century ends. `PROJECT.json` lists these hazards at their lines
with the properties aimed at them.

What makes each part correct:

- engine: register, `active_map` and table always agree; what was confirmed is
  there after a start, and nothing else is; what rings is what was due.
- commands: each slot is as it was, as it was to be, or closed; no stored alarm
  is replaced while there is room.
- calendar: the date computed for an alarm is the first one its mode allows.
- ring control: a due alarm is heard; a key stops a ring that sounds, and only a
  key, the phone's command, the stop timer or a power-off does; every ring ends; a
  device the alarm turned on, or whose battery is low, is turned off again.
- clock interface: what is set is saved, to what it was set for, and moves
  nothing else; every setting ends.
- music: a card with files to play is played, and the task is never silent.
- phone link: each command is run once and answered, in a key the phone has;
  the binding in the flash is the one the phone is told.

## 2. Plan

| step | modules | composes | status |
|---|---|---|---|
| 1 | `AlarmTimes` (when is an alarm due), `AlarmCore` (engine, register, VM, crashes) | | done |
| 2 | `AlarmTimesProofs`, `AlarmCoreProofs` | `AlarmCore` | done: type, VM, register, due times |
| 3 | `AlarmRing` (ring, keys, tasks, calls, battery, power key), `AlarmRingProofs` | | done: type, all safety properties |
| 4 | `Calendar` (dates), `PhoneClock` (the phone's seconds), `CalendarProofs` | `AlarmTimes` | done: all properties |
| 5 | `AlarmStore`, the abstract store of settings; `AlarmStored`, the refinement; proved in `AlarmCommandsProofs` | `AlarmCore` | done |
| 6 | `XzLink` (BLE receive buffer, events, dispatch, answers, keys, binding), `XzLinkProofs` | | done |
| 7 | `AlarmCommands` (the engine's callers in two tasks), `AlarmCommandsProofs` | `AlarmCore`, `AlarmStored` | done |
| 8 | `RtcUi`: the clock interface with its menus, timeouts and two tasks; `RtcUiProofs` | | done: type, all safety properties |
| 9 | `MusicPlayer`: music task, player and device list; `MusicPlayerProofs` | | done: type, safety |
| 10 | BLE connections that fail; the other repeat modes of music, pause, folders | `XzLink`, `MusicPlayer` | left |

The abstract specification is a store with one alarm in each slot, in which a
change is asked for and then happens whole or, when power is lost, not at all.
Every module has its parameters as constants with named assumptions, and no
module has a recursive operator: a loop of the code is a recursive function over
the number of its passes, or a fold, so that it can be reasoned about.

## 3. Modules

Each component has one module, an `MC` module that extends it with the values
TLC needs, and where it has theorems a module of proofs.

### AlarmTimes

The arithmetic of `rtc/alarm_api.c` over day numbers and minutes: `NextTime`
(`alarm_calc_real_time`, `__alarm_calc_time_by_week_mode`), `Earliest`
(`__alarm_get_the_earliest`), `NextMin` (the clock). A mode is a set of bits, as
in the code: empty is once, `{0}` every day, anything else the weekdays. Seconds
are left out: alarms have none, and a due time is a minute.

### AlarmCore

| TLA+ | code |
|---|---|
| `alarm_tab`, `when` | `alarm_tab[]`, its time of day and mode, and its date |
| `map`, `map_sw`, `active_map`, `cur_active` | `alarm_map` and `alarm_cur_active` |
| `hw`, `now` | the RTC's alarm register and clock |
| `vm` | the mask block `VM_ALARM_MASK` and the records `VM_ALARM_0 + i` |
| `pc`, `wr`, `slot`, `todo` | where the running handler is |
| `wake`, `woken`, `check`, `events` | started by the alarm, the `alarm_check` timer, queued events |
| `armed`, `due`, `calm`, `promise` | history: for which slots the register was written, whose time it was, whether anything came in between, what finished operations said |

Actions: `Tick` is the clock, and the interrupt when the register matches;
`alarm_add`, `alarm_delete`, `rtc_update_time_api` and
`alarm_update_info_after_isr` are the operations' effects on the table, which
the code makes with interrupts off; `IsrSlot`, `IsrMask`, `IsrUpdate` the loop
of the event; `Arm` the register; `WriteRecord`, `WriteMask` the VM;
`InitFresh`, `Format`, `InitUpdate`, `InitWoken` the four ways `alarm_init` goes;
`alarm_check` its timer; `Crash` a loss of power. A handler is cut where the
clock, the interrupt or a loss of power can come between two of its effects,
and nowhere else.

### AlarmStore, AlarmStored

`AlarmStore` knows nothing of masks, records or handlers: `up`, what a start
would find in each slot (`kept`), and the changes asked for and not made yet
(`asked`). Its actions are start, loss of power, asking for a setting, the
closing of alarms that rang once, and the moment a change happens.
`AlarmStored` maps the engine to it: `kept` is what `alarm_vm_read_info` makes
of the VM; `asked` is the setting in work as long as the write that decides is
still to come, which is the record for a slot in use and the mask for a new one.
`SettingsStored` is the abstract specification under that mapping.

### AlarmCommands

Extends `AlarmStored`. A command is a sequence of `alarm_add` and `alarm_delete`
calls (`cmd[task].ops`) in the application or the `ui` task, with what it is to
leave in its slots. `Begin` is the handler up to its first call, `Call` the next
call, `Return` its end; `Ring` is the alarm event, which the application task only
takes between commands; `Inside` is every other step of the engine, and
`PowerLost` forgets both tasks. The reset of all alarms in `alarm_init` is left
out: nothing sets its flag (`cpu/br23/setup.c:242`). `may` is history: the
settings of each slot that the commands so far allow.

### AlarmRing

| TLA+ | code |
|---|---|
| `task`, `next` | `app_curr_task`, `app_next_task` |
| `active`, `number`, `ringing` | `g_alarm_active_flag`, `alarm_number_flag`, `alarm_cur_active` |
| `alarm_power_on`, `idle_powerlow`, `tone_end` | `alarm_power_on_flag`, `idle_powerlow_flag`, `idle_to_poweron_tone_end` |
| `retry`, `stop`, `polls`, `check`, `wait`, `auto`, `exiting`, `esco` | the timers: 500 ms retry of the ring, four minutes, `to_set_alm`, `alarm_check`, `wait_dev_online`, `bule_no_connect_to_rtc`, `wait_exit_btstack_flag`, `esco_check_state` |
| `goto_poweroff`, `force` | `app_var.goto_poweroff_flag`, `force_poweroff` |
| `stack`, `back` | `init_ok`, `init_start` and `exit_flag` of Bluetooth; `bt_back_mode_falg` |
| `linked`, `call` | a phone is connected, and has a call |
| `user_poweroff`, `keys`, `first`, `vbat_ok` | `user_poweroff_flag`, key events enabled, `user_power_on_flag`, `user_of_idle_to_poweron_flag` |
| `tone` | what plays: the ring or one of the prompts |
| `events` | posted and not handled: the alarm, a low battery, the end of a prompt that was stopped |
| `orphans` | stop timers whose identifier was overwritten |

Which alarms are due is a choice here (`AlarmCore` decides it); the clock is not
modelled. `bt` and `music` stand for the working tasks, of which the first can
refuse to be left during a call (`bt_app_switch_exit_check`), inside
`app_task_switch_to`. Timers are flags: a timer that is set may fire at any time,
except that the four-minute stop timer does not fire before the prompts and
500 ms retries it outlasts.

A power-off begins with a low battery (`PowerLowEvent`), which `alarm_stop` also
posts for a speaker the alarm turned on. `sys_enter_soft_poweroff` sets
`goto_poweroff_flag` and starts the exit timer, once; `wait_exit_btstack_flag` asks
for the power-off task. In Bluetooth with a call it is refused: the flag is
cleared, the call hung up, and `esco_check_state` tries once more when the call
has ended. `bt_task_start` clears the flag too when Bluetooth is started anew
(`bt_switch_fun.c:849`), and `poweroff_done` obeys it (`power_off.c:253`).

`env` is chosen at the start out of `Envs`: an alarm during another (`overlap`), a
key or a phone's command between the interrupt and the alarm's first sound
(`early`), anything that can upset a power-off in the 50 ms between it and its task
(`quick`), snoozes, a phone, its calls, a battery that runs low (`battery`) or that
is empty in the fake power-off (`empty`).

### RtcUi

| TLA+ | code |
|---|---|
| `mode`, `pos`, `alm_num`, `set_time` | `rtc_set_mode`, `rtc_pos`, `alm_num`, the day of `__this->rtc` |
| `flags`, `check` | `key_rtc_6/7/8_press_falg`, `check_alarm_timer_flag` |
| `user_week` | `user_week`, the weekday the save works the date out from |
| `pc`, `was` | where a key's handler is, and the position it read |
| `queue`, `menu`, `cb`, `timer` | messages to the `ui` task, `this_menu`, `timeout_cb`, `tmp_menu_ret_cnt` |
| `ui` | the callback between the save of the clock and that of the alarm |
| `active`, `tone`, `retry`, `ring_timer` | the alarm's flag, what plays, `rtc_ring_timer` |
| `opened`, `stale`, `dirty` | history: what was opened; which of the time set and the weekday are not of today, or were changed; what is changed and not saved, or thrown away |

A key's handler is cut where the `ui` task, which has the higher priority, can
run: after each of its reads and writes of the cursor. The `ui` task runs
`ui_set_rtc_timeout` in two halves, since it blocks in the flash writes of the
first. The clock's date is a day modulo a week: an edit moves it by less than
one. `FlipKey`, the key of an alarm held once more, puts the cursor away and throws
an edit away that is not saved (`flip_alarm_sw`), which `dirty` remembers.

### MusicPlayer

| TLA+ | code |
|---|---|
| `list`, `recent`, `valid`, `mounted` | the device list, its `active_stamp` order, `dev->valid`, `fmnt` |
| `dev`, `fsn`, `file`, `dec` | `__this->dev`, `fsn`, `file`, the decoder |
| `scan`, `broke` | a scan in progress and the file it is for, `scandisk_break` |
| `file_err_counter`, `backward` | the same and `file_play_direct` |
| `wrapped` | `magic_cnt` has come round to 0 (it is 16 bits) |
| `bp` | break points in the flash, by device, of this card or of another |
| `queue` | the application task's messages, keys and device events included |
| `inserted`, `card`, `seen`, `live` | external: cards in place, their files, what the driver has reported, whether the mounted file system is that of the card |

`music_key_event_opr` is the handler of the music task's messages, one
alternative each; every play function it calls returns a result which
`music_player_err_deal` turns into the next message, in the same step.
`ScanEnd` finishes a play function that had to scan, and
`music_player_scandisk_break` is what the file system calls meanwhile: it takes
one message, and one that means to leave or to change the device ends the scan
and is posted again. `DeviceIn`, `DeviceOut` and `OtherDeviceIn` are the device
events, `FileEnds` and `ReadFails` the decoder. A card is a sequence of files of
which some cannot be decoded. That an interrupted scan yields nothing to play is
taken from the comment at `music.c:423`; the file system is closed.
Posting a message is taken to succeed: `Room` keeps a place in the queue for the
message a scan still posts and for each card the driver is about to notice, and
`QueueAssumption` is that the queue has at least one place for each device.

### Calendar, PhoneClock

The functions over year, month and day, compared on every day of a range of
years with day numbers. This is what justifies the day numbers of `AlarmTimes`.
The unsigned wrap-around of the weekday formula is modelled. `PhoneClock` adds
`GetDateTimeFromSecond` of `xiaoyun_agreement.c`, whose loops over years and months
are passes of a function that changes nothing once the loop has ended; a 32-bit
number of seconds ends in 2106, so 136 passes over years are enough.

### XzLink

| TLA+ | code |
|---|---|
| `flash`, `bound` | `bound_flag` in the record `CFG_USER_XZ_INFO_AUTH` and in `xz_ble_auth` |
| `sbox` | the key `Rc4Sbox` was made of; `Torn` while it is of none |
| `cbuf`, `events`, `post` | `xz_cbuft`, the queue of device events, and a packet stored whose event is not posted yet |
| `reply` | where the handler is in making an answer |
| `ble` | `ble_work_state` |
| `phone`, `acks` | external: the phone's key, what it waits for, answers on the air |
| `lost` | history: commands refused by a full buffer or thrown away |

`att_write_callback` is the Bluetooth task up to the stored packet,
`xiao_zhi_send_even` its event; `xiao_zhi_event_handler` takes a packet for
whatever device event it is called for and executes it, and
`xz_sent_encode_data` and `xiao_zhi_send_ack` are the enciphering of the answer,
cut in two because the Bluetooth task can change the table meanwhile.
`bt_ble_init`, the two connection events, `PhoneAcked` and `PowerLoss` are the
rest. A packet is what tells its handling apart: a new key, a binding command, a
frame with a wrong length, or anything else. A packet deciphered with the wrong
key is such a frame. A new key is taken as the packet is received, before anybody
looks at its length (`xiaozhi_lib.c:271`). An answer goes nowhere without a
connection, and with `SendMayFail` the stack may refuse it because its send buffer
is full, which no caller of `app_send_user_data` looks at. Posting an event is taken
to succeed, as in the code, which does not look; the model therefore stores
nothing while its queue is at the bound.

## 4. Runs

Passing:

| run | question | instance |
|---|---|---|
| `alarm_engine` | does the register follow the earliest enabled alarms, does an undisturbed event name the due ones, does every confirmed setting survive a loss of power anywhere, does the engine implement `AlarmStore`? | 2 slots, a clock of three days that can be set, once and one weekday; clock, interrupt and loss of power between any two effects |
| `alarm_week` | is an enabled alarm ever left behind, and what do failing flash writes leave? | 1 slot, week of 3 days and a clock of four, two minutes a day, once, weekly and mixed modes, switch values 1 and 2; every write may fail, no minute passes inside a handler |
| `alarm_commands` | what does a command of several operations leave, wherever the other task, a ring or a loss of power comes in between; does the phone take a free alarm? | 4 slots (two alarms and their snoozes), three commands, one minute, once and every day |
| `ring_live` | can a ring be stopped, is its timer its own, is the snooze for it, is a ring kept through the task changes of a start, does every ring end, is every alarm heard, is the device turned off again, does the power key stay alive? | one alarm at a time, no key before it sounds; a phone, its calls and a low and an empty battery together, or snoozes with a phone, or an empty battery and whatever comes in the 50 ms before a power-off; 4 events |
| `rtc_ui` | does a setting go where it was opened for, leave the date alone, end, and get saved, and is no alarm silenced? | no trouble, each trouble alone, an alarm with a menu timing out inside a handler; 2 messages to the `ui` task, a week of 3 days |
| `music_player` | is a card with files to play ever given up, is the task ever silent for good? | two devices, four cards (empty, bad, bad and good, two good and a bad), a queue of 3, seven pairs or triples of troubles |
| `phone_link` | is any packet stranded, do the keys agree, can answers be read, is a command answered unless its packet or its answer is refused or thrown away? | 3 commands at a time, one new key, a buffer of 2 packets, 2 events, a send buffer that may be full |
| `calendar_years` | weekday, phone date, due date of every mode, earliest of three, snooze | every day of 2000 to 2099, two minutes a day |

Why the bounds are enough. Two slots suffice for the engine because slots only
meet in `Earliest` (pairs of times) and in the mask; ties, one enabled of two
and both enabled occur. A short day makes midnight and the week's wrap frequent.
In `alarm_commands` times are of no interest and a day has one minute; three
commands make two that overlap in two tasks and one after them. The calendar is
not scaled down: days and weeks have their real lengths, and the years are all
those the clock can be set to (`MIN_YEAR`, `MAX_YEAR`, `rtc/rtc.c:46-47`; no century
year without a leap day is among them). A weekday scan stops at the
first bit it meets, so modes of up to two bits are all there is to distinguish.
`MaxDay` ends the clock, `MaxEvents`, `MaxPolls` and `MaxQueue` bound queues,
`MaxOrphans` the alarms that come before the last has ended, and `MaxCommands`
the commands. In `rtc_ui` a handler posts at most two messages. In
`music_player` the queue holds the message a failure posts, a key and a device
event; devices can only be changed for a second one, and the search for the next
device tells nothing apart beyond two. In `phone_link` the number of names bounds
the commands a phone waits for at one time; three, against a buffer of two, fills
it, and a name is used again once its command is answered, so a run has any
number of commands. `CHECK_DEADLOCK FALSE` is set where the bounded clock, the
bounded number of alarms or commands ends, where a phone may have nothing more to
say, and where nobody need press a key in a speaker without a card.

Violations, each a disagreement between the code and what its comments say:

| run | what happens |
|---|---|
| `ring_phone` | with a phone connected an alarm out of the fake power-off is not heard |
| `rtc_replaced` | the 12/24 key replaces the menu of a setting without telling it: nothing is saved, and the keys stay those of the setting |
| `phone_answer` | another part's device event takes a command's packet away: no answer |
| `calendar_phone` | the time zone is added to the hour without changing the date |

### Conditions, and what happens without them

The passing runs state their conditions in constants or in the properties, and
each is needed. With another value TLC shows what the code does without it.

Engine:

- `alarm_week` with `TickInHandler = TRUE`: a minute that passes between the
  reading of the clock for the table (`alarm_api.c:907`) and the write of the
  register (910) leaves the register behind the clock, and `RegisterAhead` fails.
  The theorem `RegisterIsAhead` shows that this is the only way: minutes may pass
  anywhere else in a handler, and there too unless an enabled alarm is due in them.
- `UndisturbedAlarmRings` is about events with no setting handled since the
  interrupt (`calm`): a setting recomputes `active_map`, and another alarm than
  the due one "rings now".

Ring:

- `overlap`: a second alarm during a ring leaves the retry timeout behind, which
  starts a ring that nothing ends (`RingsEnd`).
- `early`: a key, or the phone's command that deletes an alarm, handled between the
  interrupt and its event clears the active flag, the event then starts a ring no
  key stops (`KeyStopsRing`). An alarm in the first second after an ordinary
  power-on is silenced by the task change of `wait_dev_online`.
- `Unhurried` (`TurnedOffAgain`, `IdleAlarmRings`, `PowerOffObeyed`): in the 50 ms
  between a power-off and its task (`bt_event_fun.c:811`), a Bluetooth started anew
  clears `goto_poweroff_flag` (`bt_switch_fun.c:849`); the power-off task then does
  nothing (`power_off.c:253`), and its keys are off. A call, an alarm or the power
  key of the fake power-off in that time change the next task or clear the flag as
  well. The safety properties hold in these 50 ms too.
- `TurnedOffAgain` is about calls that settle (`CallsSettle`): each new call refuses
  the power-off once more. A speaker woken out of the fake power-off whose alarm
  was not heard is not turned off (`ring_phone`).
- `PowerOffObeyed` is stated without calls: a power-off refused during a call
  leaves `user_poweroff_flag` set, and the power key is dead until the next
  start (`app_common.c:212`).
- `RingKept` is about speakers started by the alarm: one that was in use is
  silenced when `bule_no_connect_to_rtc` leaves Bluetooth during a ring.

Clock interface:

- `DateKept` is about saves in which neither the time nor the weekday is `stale`:
  `user_week` is refreshed only at boot (`rtc.c:1412`) and at the cursor's weekday,
  so an hour edited after midnight, after the phone set the date, or after a weekday
  edit that was dropped, moves the date by days (`rtc.c:147-159`). Races, rings and
  other settings are not excepted.
- `EditOwnTarget` excepts the phone, which changes `alm_num` and the mode in the
  middle of a setting (`rtc.c:348-379`): the clock's time is saved into the
  phone's alarm.
- `MenusEnd` and `EditsSaved` except the 12/24 key (run `rtc_replaced`; after the
  check key it leaves `check_alarm_timer_flag` set, and long presses are dead),
  races, the phone and other settings' keys, and `EditsSaved` an alarm, whose event
  clears the cursor and drops the edit (`rtc.c:131`). `EditsSaved` allows the one
  key that throws an edit away: an alarm's, held once more (`rtc.c:272-287`).
- `RingNotCut` excepts a race: the callback, blocked in its flash writes while the
  alarm starts, goes on to stop the preview tone and silences the alarm. It also
  excepts the 12/24 key, another setting's key and the phone: their menu takes
  the place of the one whose callback stops the timer of the preview tone
  (`rtc.c:532`), and the timer, up to 20 s later, stops whatever plays then.

Music:

- `GoodDeviceKept` allows one kind of disturbance and one file that cannot be
  decoded. With both kinds of key, or a card that comes and goes, a message
  posted for an earlier failure meets a released scan; the player answers with
  the same error an empty card gives, and a good card is marked invalid. With a
  second device the failure counter is carried from one to the other. With two
  bad files around a good one, the previous-key makes the messages for next and
  previous chase each other until the card is given up (`dev_manager.c:33` calls
  a device valid when there are files to play).
- `SilenceEnds` needs `Hears`. A second device that is pulled out while the task
  looks for the next one leaves the task with nothing to do although the first
  can be played; and when the 16-bit count of started files has come round to 0,
  the last file's number, 65535, is compared with `magic_cnt - 1`, which is -1, and
  its read error is ignored (`music_player.c:155`).
  It also needs the cards to be left alone in the end.
- In the same model, without a property of its own: a scan that is broken off has
  dropped the messages it took before, an alarm's event among them; the end of a
  file still queued behind a next-key skips one more.

Phone link and calendar:

- `phone_link` with `WritesMayFail = TRUE`: nobody looks at what the write of the
  binding returns, the phone is told it succeeded, and `BindingSaved` fails.
- `AcksReadable` excepts a key change that overlaps the command: the device
  changes its key when it receives the change, so the answer to an earlier
  command leaves in the new key, or in a mixture of both.
- `KeptCommandAnswered` names what is lost: a command the full buffer refuses, one
  another device event consumes, and an answer that finds the stack's send buffer
  full, which nobody sends again (`le_trans_data.c:820-828`).
- `WeekdayOfDate` and `AlarmDue` before 2020 (`WrapEnds`): the unsigned sum of the
  weekday formula goes below zero in the first months of a year and wraps, and the
  weekday is the fourth one after the right one. `WeekdayOfDate` says that it is one
  of the two; `AlarmDue` is then about modes without weekdays. The clock can be set
  to years from 2000 (`rtc/rtc.c:47`).

### Fairness

The application task takes messages in the order they were posted, so a queued
message is handled however often the task changes, and a timer posts its message
once it has run out. Nothing is assumed of users, alarms, phones, calls, cards or
the battery.

- `AlarmRing`: strong fairness of the queued events and of the timers nothing
  restarts; weak fairness of timeouts that a handler restarts, of tones that
  another tone replaces, and of task changes. A call the power-off has hung up ends
  (`HangsUp`, strong, since the phone may call again); another call need not.
- `RtcUi`: a handler goes on and so does the `ui` task (weak); a menu that is left
  alone times out (strong, because keys restart it). Its liveness is for a user
  who stops pressing keys in the end (`KeysRest`), as each press restarts the
  timeout.
- `MusicPlayer`: weak fairness of the handlers, of the end of a scan and of the
  driver's polling; strong fairness of the prompt's end and of a decoder noticing
  that its card is gone. A file need not end.
- `XzLink`: each task goes on with what it has begun and an answer on the air
  arrives if the connection stays: weak fairness of the five actions that are
  such steps, none of what a phone writes or of connections.

## 5. Proofs

TLAPS proves, for every number of slots, length of day and week, input sets,
and every interleaving:

| theorem | assumption | says |
|---|---|---|
| `AlarmCoreProofs!TypeCorrect` | none | `Spec => []TypeOK` |
| `AlarmCoreProofs!RecordsReadable` | `Writes` | `Spec => []MappedHasRecord` |
| `AlarmCoreProofs!EarliestArmed` | `Writes` | `Spec => []ArmedForEarliest` |
| `AlarmCoreProofs!PromisesKept` | `Writes` | `Spec => []PromiseKept` |
| `AlarmCoreProofs!RegisterIsAhead` | none | `Spec /\ [][~ Overtakes]_vars => []RegisterAhead`: only an alarm's minute that begins between the reading of the clock for the table and the write of the register can leave it behind |
| `AlarmCoreProofs!UndisturbedNamesDue` | none | `Spec => UndisturbedAlarmRings` |
| `AlarmCoreProofs!ErrorsContained` | none | `Spec => []FlashErrorsContained` |
| `AlarmTimesProofs!FirstDue` | none | `NextTime` is the first minute at which the alarm is to ring |
| `AlarmCoreProofs!NoneOvertaken` | none | `Spec => []RegisterOnTime`: the register is no later than any such minute ahead |
| `AlarmCommandsProofs!StoreImplemented` | `Writes` | `Spec => SettingsStored`, the refinement of `AlarmStore` |
| `AlarmCommandsProofs!CommandsUseEngine` | `Writes` | `CmdSpec => Spec` |
| `AlarmCommandsProofs!CommandsWhole` | `Writes` | `CmdSpec => []CommandWhole` |
| `AlarmCommandsProofs!FreeOneFirst` | `Writes` | `CmdSpec => FreeAlarmFirst`: at its look at the table the phone's command sees what a start would find |
| `AlarmRingProofs!RingTyped` | none | `Spec => []TypeOK` |
| `AlarmRingProofs!KeyEndsRing` | none | `Spec => []KeyStopsRing` |
| `AlarmRingProofs!SnoozeOwn` | none | `Spec => SnoozeBelongs` |
| `AlarmRingProofs!RingGoesOn` | none | `Spec => RingKept` |
| `RtcUiProofs!UiTyped` | none | `Spec => []TypeOK` |
| `RtcUiProofs!TargetKept` | none | `Spec => []EditOwnTarget` |
| `RtcUiProofs!DateUnmoved` | none | `Spec => DateKept`, in races, rings and other settings' keys too |
| `RtcUiProofs!RingSpared` | none | `Spec => RingNotCut` |
| `CalendarProofs!CalendarTypes` | none | `Spec => []TypeOK` |
| `CalendarProofs!WeekdayRight` | `InYears` | `Spec => []WeekdayOfDate` |
| `CalendarProofs!AlarmDueOnDate` | `InYears` | `Spec => []AlarmDue` |
| `CalendarProofs!SnoozeInTenMinutes` | 1900 <= `FirstYear` | `Spec => []SnoozeDue` |
| `CalendarProofs!EarliestByDate` | none | `Spec => []EarliestFound`, for any number of slots and any times in the next 28 days |
| `CalendarProofs!DateByDay` | 1970 <= `FirstYear`, `LastYear` <= 2106 | `Spec => []DateOfDay` |
| `MusicPlayerProofs!PlayerTypes` | none | `Spec => []TypeOK` |
| `MusicPlayerProofs!GoodDeviceIsKept` | none | `Spec => []GoodDeviceKept` |
| `XzLinkProofs!LinkTyped` | none | `Spec => []TypeOK` |
| `XzLinkProofs!SameKey` | none | `Spec => []KeysAgree` |
| `XzLinkProofs!NoneStranded` | none | `Spec => []PacketHasEvent` |
| `XzLinkProofs!AnswersReadable` | none | `Spec => []AcksReadable` |
| `XzLinkProofs!BindingsSaved` | `Writes` | `Spec => []BindingSaved` |

"None" is: none beyond the assumptions on the constants that the modules name. In
`AlarmRing`, `RtcUi` and `MusicPlayer` the properties themselves say in which
circumstances (`env`) they hold; the theorems are for every set of circumstances,
all of them at once included, where the runs have a few combinations. `Writes` is
that flash writes do not report an error; loss of power between any two of them is
included. Without it these theorems are false: a format that fails leaves enabled
slots with empty entries. `ErrorsContained` says what is left then. `InYears` is
2000 <= `FirstYear` and `LastYear` <= 2099, the years the clock can be set to.
`Overtakes` is the one step that `RegisterIsAhead` excepts, see "Conditions".

None of `MappedHasRecord`, `ArmedForEarliest` and `PromiseKept` is inductive,
because halfway through a handler the VM and the register are not yet right.
`StateInv` says what is right at every point: which VM writes are still due
(`Plan`), that nothing is enabled while the device is down (`Down`), that masks
nest (`Nest`), that `map_sw` and the switches agree (`Switches`), and that every
mapped slot but the one in flight has its own record (`Recorded`).
`ArmedForEarliest` is inductive with it: the only step that establishes it is
`Arm`, where `EarliestExist` (some alarm is earliest, by well-foundedness of the
naturals) and `EarliestShareTime` (all of them have the same time) do the work.
`PromiseInv` adds that nothing is promised of a slot a handler is about to change
(`Pending`), and that an `on` or `off` promise is true of the VM and, when the
device is up, of the table. TLC checked both invariants on an instance like that
of `alarm_engine` before they were proved.

The theorems about the register do without `Writes`, so their invariants cannot
use `StateInv`. `AheadInv`: at `Arm` every enabled alarm has a time after the present
minute, which only a step of the clock that `Overtakes` one can end; once it is
written, a minute that reaches the register is an event. `Named`: outside `Arm` the
register was last written for `active_map`, and while a match is `calm`, `due` is
what it was written for. `ErrorInv`: an enabled slot is off in the table only when
its record cannot be read (`OnOrUnread`), and a handler about to write a record
does not make such a slot readable (`SlotOn`); so once all records can be read
(`Readable`, where the record being written counts), the register is right.

`FirstDue` says that the arithmetic is: the time computed has the alarm's time of
day, lies on a day of its mode, and no such minute comes before it
(`WeekDayShift`: weekdays go round; `FirstWeekDay`: the bit that is picked is the
next). `NoneOvertaken` carries this over to the register: the table's times are
first due from each update to the next event (`Timed`), a clock that moves on
keeps them so (`LaterStays`), and by `ErrorsContained` the register is at the
earliest. With `RegisterIsAhead` it waits for the first minute at which any
enabled alarm is to ring.

The refinement rests on `StoreInv`, which is the type, `StateInv` and `MaskKept`:
outside of handlers the mask in the VM is the table's, and inside of one it
differs in the slot in work alone. With it each action of the engine is one step
of the store or none: the write of the record is the change of a slot that is in
use, the write of the mask that of a new slot, and the other one of the two
changes nothing a start would find. The proof (`StepStore`) has one step for each
action.

`CommandsUseEngine` shows that the callers are callers: every step of
`AlarmCommands` is a step of `AlarmCore` or leaves the engine alone, so all that
is proved of the engine for arbitrary calls holds of the product's calls.
`CommandsWhole` adds `CmdInv`: types (`CmdType`), that what a start finds is
allowed (`Allowed`), that the change in work or the calls still to make bring
each slot of a command that runs alone to what it is to leave (`OnItsWay`), and
that two commands at a time are seen as such (`Alone`). The engine's side of it is
one lemma, `InsideChanges`: what is kept changes only in the slot of a change that
was asked for, and to that.

`FreeOneFirst` needs that between operations the slots in the engine's table are
those a start would find (`KeptIsTable`), so that the phone's command, which looks
at the table, and the property, which looks at the flash, mean the same free alarm.
It is about the moment of the look: that the `ui` task, in the middle of a save,
has deleted an alarm for a moment is a hazard of its own (`alarm_api.c:979`).

The safety of the ring rests on `RingInv`. In all circumstances the values and the
queue keep their bounds (`Values`, `RingWaits`: each alarm that has not ended is
counted once), and nothing is left in the soft power-off (`Asleep`). In the
circumstances `Calm` (no second alarm, no key before the ring sounds) `Quiet` follows
one alarm through the gap between interrupt and event: it is in one place only,
still to come, in the queue or ringing, and while it is, it is active (`OneAlarm`,
which contains `StopTimerOwned`); a tone that sounds, or the retry that waits to
start it, has a stop timer (`Sounds`); the power key's prompt plays only while no
alarm is active (`PromptAlone`); nobody goes to the fake power-off while an alarm
rings, nor are there keys in it once the battery is empty (`IdleQuiet`); and the
number is that of the alarms that ring (`Numbered`). The stop timer is started in
one handler and the tone in another, so `KeyStopsRing` is not inductive without it.
`RingKept` needs in addition where a speaker that an alarm started can be. `Places`
says where the timers and the background of a task are found; `OnItsWay`, that from
the moment its start is over no change of task waits or can be asked for but to the
power-off task, and that its Bluetooth, if it got there, is on already, so that no
prompt takes the place of the ring.

`RtcUiProofs` has one invariant for each property. `OwnTarget` extends
`EditOwnTarget` to the steps of a handler between opening a setting and showing
its first position, where a timeout can have taken the cursor away. `Fresh` says
that the time being set and `user_week` are of today unless they are `stale`;
`SavedWeekday` is the arithmetic of the callback, that the date it works out has
the weekday that was asked for, so that a save leaves them of today again.
`SparedInv` follows the menu of a setting through the queue of the `ui` task:
while a tone is being tried out that menu is shown or is the next message
(`SettingShown`), and when an alarm gets to its ring it is gone, because the event
posts the message that ends it first and the `ui` task, which has the higher
priority, takes it (`GoneForRing`). That the exceptions of `RingNotCut` are needed
came out of this proof.

`KeysAgree` needs one fact more: the device advertises with the built-in key
(`AdvertisesBuiltIn`), so that a connection starts with the key the phone starts
with. From then on a command that arrives is deciphered with the phone's own
key, so both sides take the same new key (`WriteKeepsKeys`).

The type of the link needs that an event about to be posted has room in its queue
(`LinkType`). `NoneStranded` counts: a packet enters the buffer with an event of
its own or with the `post` that is to be one (`OwnPosted`), and an event goes with
at least the packet it takes (`OwnHandled`). For `AnswersReadable`, `AckInv` says
that an answer which is not in the phone's key is on its way only while the phone
waits for the answer to a key change it sent later (`NewKeyBehind`); this holds of
the answers on the air (`AcksBehind`) and of the one being made (`ReplyBehind`),
and a new connection starts with none (`NoneWaits`).

The theorems of `Calendar` rest on what a step of a few days does to a day's
number: `FewDaysLater` says that `rtc_calculate_next_few_day` by n days adds n to
`DayNumber`, over the ends of months and years. `ZellerSum` is the weekday
formula: `DayNumberFromMarch` counts the days from the first of March, as the
formula does; from 2020 on its sum stays above zero (`ZellerIsWeekDay`), and
before, a sum that wraps adds 4 (`ZellerOrFour`). With `FirstDue` that gives
`AlarmDueOnDate`, for every set of minutes and modes and not only modes of two
bits. `CmpIsBefore` says that dates are in the order of their numbers
(`DatesInOrder`), and `ScanFindsEarliest` that the scan of the table finds the
earliest alarms for any number of slots. `DateByDay` follows the two loops of
`GetDateTimeFromSecond`: what each pass leaves is known (`YearFound`,
`MonthFound`), and so is what the last one leaves (`PassesReach`). The theorems of
the library for induction take an operator, which the provers cannot instantiate;
these two use the least pass that would be wrong instead.

The type of `MusicPlayer` needs `Types`: the nodes by their stamps are those of the
list, each once (`NodesOK`); a scan has a file and its position is one of them
(`PlayerOK`); and messages in the queue, cards the driver has not noticed and the
scan in progress together fit into the queue (`QueueOK`), without which the device
manager would post into a full one. `GoodDeviceKept` has the invariant `Steady`.
With one kind of disturbance there is one device, which stays where it is
(`Alone`). Before its card is noticed the music task cannot begin (`Waiting`).
Afterwards (`Present`) the list is that device, and the queue holds one `START` at
most and none once the task has a device (`Heard`, `Started`), so that no message
finds the player in another state than the one it was posted for. While the card
is good, it holds its mark (`Holding`) for two reasons: a scan yields nothing only
if it was broken off to leave the task, which then has no message left but those
that leave or start it; and the failure counter is above zero only while the file
chosen is the one that cannot be decoded (`OneFailure`), since the next file chosen
is another one (`NextIsOther`) and is played.

Model-checked only: liveness and what needs `ENABLED`, which are out of the prover's
reach: the ends of rings, menus and settings in `AlarmRing` and `RtcUi`,
`SilenceEnds` in `MusicPlayer`, `KeptCommandAnswered` in `XzLink`. Every other safety
invariant and action property that a passing run checks is proved, each for
all values of the constants that the table's assumptions allow; `StopTimerOwned` is
a part of the invariant `OneAlarm`. The runs of the disagreements have their
properties violated, so there is nothing to prove.

## 6. Not modelled

Of the modelled parts:

- alarm: names, the ANCS fields, and two tasks inside one operation of the engine
  at once (whole operations of two tasks do interleave);
- ring and tasks: volume, EQ and mute keys; the working tasks one by one, and the
  prompt of the music task; a phone that disconnects while Bluetooth is the task;
  calls in the background, since leaving Bluetooth disconnects the phone
  (`app_task_switch.c:371-377`); the events of pairing, A2DP and HFP, which drive a
  closed library;
- clock interface: temperature, the counters of long presses, what is drawn, and
  the direct setting keys (`KEY_RTC_SW_POS` and others) that the product's key
  table does not have;
- music: pause, fast forward, folders, the repeat modes but the one that plays
  all, play by number or path, deleting a file, and the recording folder, which is
  switched off; of the device manager the update check and the remount thread;
- phone link: a connection that fails to come up, Bluetooth switched off and on
  without a restart, subscription, a full queue of device events (a closed
  library's), and the new address made at each start. A stored binding does not
  survive a restart in the code (`xz_ble_app_demo.c:298` takes the 0 of a
  successful read for "not found"), and `bt_ble_init` does the same; nothing in
  the repository promises otherwise.

Parts left out: line in, which opens and closes an analogue channel; the sound
sources, TWS, emitter, charging and charge box that the product's board
configuration switches off; the smartbox RTC commands, not compiled. Decoders,
Bluetooth stack, file systems, USB, update and drivers are vendor code or closed
libraries, most of them present as headers and register access only; what the
modelled code needs of them (a flash write succeeds or fails, a tone ends, a
register matches, a file decodes or does not) is stated where it is used. They
are by far the larger part of the repository, which is why the map covers a small
share of its lines.
