----------------------------- MODULE MusicPlayer -----------------------------
(***************************************************************************)
(* The music task (SDK/apps/soundbox/task_manager/music/music.c), its       *)
(* player (apps/common/music/music_player.c) and the list of storage        *)
(* devices they share with the rest of the application                      *)
(* (apps/common/dev_manager/dev_manager.c).                                 *)
(*                                                                          *)
(* The application task takes one message after the other: keys, arrivals   *)
(* and removals of cards, ends of files, and the messages the music task    *)
(* posts to itself.  Every handler calls the player, and what the player    *)
(* returns is turned into the next message by music_player_err_deal.  Only  *)
(* one thing in a handler takes long: to scan a device for files.  While it *)
(* scans, the file system calls music_player_scandisk_break again and       *)
(* again, which takes messages from the queue on its own.                   *)
(*                                                                          *)
(* A card is the sequence of its files, of which some cannot be decoded.    *)
(* Pause, fast forward, folders, repeat modes but the one that plays all,   *)
(* and the recording folder, which the product has not, are left out.       *)
(***************************************************************************)
EXTENDS Naturals, Sequences, FiniteSets, SequencesExt, FiniteSetsExt

CONSTANTS
  Devices,   \* storage devices, by the letter of their drive
  Main,      \* the one the product has, sd0
  Cards,     \* the cards there are
  Envs,      \* what the world may do in a behaviour, as sets of Troubles
  MaxQueue,  \* bound: messages in the queue
  None, Gone \* no device, and a device node that was freed

(* skip: somebody presses the keys for the next and the previous file;      *)
(* mode: the key that leaves the task; plug: cards come and go at any time; *)
(* second: a second device is used, and it is its card that comes and goes; *)
(* unreadable: reading a file may fail with the card in place; wrap: the    *)
(* 16-bit count of started decoders may come round.                         *)
Troubles == {"skip", "mode", "plug", "second", "unreadable", "wrap"}

ASSUME DeviceAssumption == Main \in Devices /\ None \notin Devices /\ Gone \notin Devices
ASSUME CardAssumption == Cards \subseteq Seq({"good", "bad"})
ASSUME EnvAssumption == Envs \subseteq SUBSET Troubles
ASSUME QueueAssumption ==
  MaxQueue \in Nat /\ IsFiniteSet(Devices) /\ Cardinality(Devices) <= MaxQueue

VARIABLES
  env,       \* what may happen in this behaviour
  inserted, card, seen,  \* devices with a card, the card, those the driver has reported
  list,      \* the device nodes, oldest first
  mounted,   \* those with a file system (fmnt)
  live,      \* those whose file system is that of the card now inserted
  valid,     \* those marked as having files to play
  recent,    \* the nodes by active_stamp, the active one last
  queue,     \* messages of the application task
  task,      \* "music" or "other"
  starting,  \* the music task's prompt plays
  dev, fsn, file, dec,  \* the player: device, scan, an open file, decoder
  wrapped,   \* magic_cnt has just come round to 0
  scan,      \* the play function that scans, with the file it will choose
  broke,     \* scandisk_break
  file_err_counter, backward,  \* and file_play_direct
  bp         \* the break point stored for each device

world == <<env, inserted, card, seen>>
nodes == <<list, mounted, live, valid, recent>>
player == <<dev, fsn, file, dec, wrapped, scan, bp>>
control == <<broke, file_err_counter, backward>>
vars == <<world, nodes, queue, task, starting, player, control>>

NoScan == [files |-> << >>, cur |-> 0]
Used == IF "second" \in env THEN Devices ELSE {Main}
Moved == IF "plug" \notin env THEN {} ELSE IF "second" \in env THEN Devices \ {Main} ELSE {Main}

Arrives(d) == [op |-> "in", dev |-> d, err |-> FALSE, fresh |-> FALSE]
Leaves(d) == [op |-> "out", dev |-> d, err |-> FALSE, fresh |-> FALSE]
Key(op) == [op |-> op, dev |-> None, err |-> FALSE, fresh |-> FALSE]
End(err) == [op |-> "END", dev |-> None, err |-> err, fresh |-> TRUE]

UserKeys == {"NEXT", "PREV", "MODE"}
OwnKeys == {"START", "QUIT", "PLAY_FIRST", "AUTO_NEXT_DEV"}
DeviceEvents == {"in", "out"}

Init ==
  /\ env \in Envs
  /\ inserted \in SUBSET Used /\ card \in [Devices -> Cards]
  /\ \A d \in Devices \ inserted : card[d] = CHOOSE c \in Cards : TRUE
  /\ seen = {}
  /\ list = << >> /\ mounted = {} /\ live = {} /\ valid = {} /\ recent = << >>
  /\ queue = << >> /\ task = "other" /\ starting = FALSE
  /\ dev = None /\ fsn = NoScan /\ file = FALSE /\ dec = "none"
  /\ wrapped = FALSE /\ scan = "none" /\ broke = FALSE
  /\ file_err_counter = 0 /\ backward = FALSE
  /\ bp = [d \in Devices |-> "none"]

(* The queue is bounded by what is posted into it; room is kept for what a  *)
(* handler that scans may still post, and for what the driver will notice.  *)
Unnoticed == {d \in Devices : d \in inserted <=> d \notin seen}
Room == Len(queue) + Cardinality(Unnoticed) + (IF scan = "none" THEN 0 ELSE 1) < MaxQueue
Post(m) == Room /\ queue' = Append(queue, m)

-----------------------------------------------------------------------------
(* The device manager.                                                      *)

Playable == valid \intersect mounted
Online(d) == d \in Playable

LastIn(s, S) == LET found == {i \in DOMAIN s : s[i] \in S}
                IN IF found = {} THEN None ELSE s[Max(found)]
find_active == LastIn(recent, Playable)

(* The other nodes, in the order they are met from d on, forward or back.   *)
Around(d, step) ==
  LET n == Len(list)
      at == CHOOSE i \in 1..n : list[i] = d
  IN [k \in 1..(n - 1) |-> list[((at - 1 + (IF step = "next" THEN n - k ELSE k)) % n) + 1]]

(* find_next walks the list backwards, find_prev forwards; a node that is   *)
(* not mounted, or no longer there, has the active device for neighbour.    *)
find_neighbour(d, step) ==
  IF d = None THEN None
  ELSE IF d \notin mounted THEN find_active
  ELSE LET met == {k \in DOMAIN Around(d, step) : Around(d, step)[k] \in Playable}
       IN IF met = {} THEN None ELSE Around(d, step)[Min(met)]

(* music_player_get_dev_flit: the neighbour, asked for from a device that   *)
(* can be played only, and if there is another.                             *)
ManyPlayable == \E x, y \in Playable : x # y
get_dev_flit(step) == IF Online(dev) /\ ManyPlayable THEN find_neighbour(dev, step) ELSE None

Unlist(s, d) == RemoveFirst(s, d)

dev_manager_add(d) ==
  IF \E i \in DOMAIN list : list[i] = d THEN UNCHANGED nodes
  ELSE /\ list' = Append(list, d) /\ recent' = Append(recent, d)
       /\ IF d \in inserted
          THEN mounted' = mounted \union {d} /\ live' = live \union {d} /\ valid' = valid \union {d}
          ELSE UNCHANGED <<mounted, live, valid>>

dev_manager_del(d) ==
  /\ list' = Unlist(list, d) /\ recent' = Unlist(recent, d)
  /\ mounted' = mounted \ {d} /\ live' = live \ {d} /\ valid' = valid \ {d}

(* The player keeps the address of a node.  It is that of no node once the  *)
(* node is freed, until another node is given the same memory.              *)
NodeFreed(d) == IF dev = d THEN Gone ELSE dev
NodeMade(d) == IF dev = Gone THEN {Gone, d} ELSE {dev}

-----------------------------------------------------------------------------
(* music_player_err_deal: what a handler's result makes of the device, and  *)
(* the message it posts.  It looks at the player as the handler left it.    *)

Logo == IF dev' \in mounted THEN {dev'} ELSE {}
Blamed == Logo \intersect valid

(* Every result but a decoder's failure ends the row of failures.           *)
Cleared(err) == IF err \in {"NULL", "DECODE_FAIL"} THEN file_err_counter ELSE 0

GivenUp == file_err_counter >= Len(fsn'.files)

DecodeFailed(q) ==
  /\ UNCHANGED mounted
  /\ IF GivenUp
     THEN /\ file_err_counter' = 0
          /\ valid' = valid \ Logo
          /\ queue' = Append(q, Key(IF valid' \intersect mounted = {} THEN "QUIT" ELSE "AUTO_NEXT_DEV"))
     ELSE /\ file_err_counter' = file_err_counter + 1
          /\ UNCHANGED valid
          /\ queue' = Append(q, Key(IF backward' THEN "PREV" ELSE "NEXT"))

NextDevice(q) ==
  queue' = Append(q, Key(IF valid' \intersect mounted' = {} THEN "QUIT" ELSE "AUTO_NEXT_DEV"))

NotFound(q) ==
  /\ UNCHANGED <<mounted, valid>>
  /\ IF Blamed # {} /\ fsn' # NoScan THEN queue' = Append(q, Key("PLAY_FIRST")) ELSE NextDevice(q)

(* The result of the scan is the device's fault unless the scan was broken. *)
NotAskedMutant(err) == FALSE
Interrupted(err) == err = "FSCAN" /\ broke
Deal(err, q) ==
  /\ broke' = (broke /\ err # "FSCAN")
  /\ \/ err = "DECODE_FAIL" /\ DecodeFailed(q)
     \/ err # "DECODE_FAIL" /\ file_err_counter' = Cleared(err)
        /\ \/ (err \in {"NULL", "SUCC"} \/ Interrupted(err))
              /\ queue' = q /\ UNCHANGED <<mounted, valid>>
           \/ err = "FSCAN" /\ ~ Interrupted(err)
              /\ valid' = valid \ Blamed /\ UNCHANGED mounted /\ NextDevice(q)
           \/ err \in {"DEV_READ", "DEV_OFFLINE"}
              /\ valid' = valid \ Blamed /\ mounted' = mounted \ Blamed /\ NextDevice(q)
           \/ err \in {"FILE_NOFOUND", "PARM"} /\ NotFound(q)

-----------------------------------------------------------------------------
(* The player.                                                              *)

Selected(fs, sel) ==
  LET n == Len(fs.files)
  IN CASE sel = "first" -> {1}
       [] sel = "last" -> {n}
       [] sel = "next" -> {(fs.cur % n) + 1}
       [] sel = "prev" -> {IF fs.cur <= 1 THEN n ELSE fs.cur - 1}
       [] sel = "bp" -> 1..n

FileOnlyMutant == dec' = dec /\ file' = FALSE
music_player_stop == dec' = "none" /\ file' = FALSE

(* The number of the decoder tells its messages from those of later ones.   *)
Older(q) == [i \in DOMAIN q |-> [q[i] EXCEPT !.fresh = FALSE]]

music_player_decode_start(i, q) ==
  /\ UNCHANGED bp
  /\ wrapped' \in (IF "wrap" \in env THEN BOOLEAN ELSE {FALSE})
  /\ \/ /\ fsn'.files[i] = "good"
        /\ dec' = "play"
        /\ recent' = Append(Unlist(recent, dev'), dev')
        /\ Deal("SUCC", Older(q))
     \/ /\ fsn'.files[i] = "bad"
        /\ dec' = "none" /\ UNCHANGED recent
        /\ Deal("DECODE_FAIL", Older(q))

Fails(err, q) == music_player_stop /\ UNCHANGED <<wrapped, bp, recent>> /\ Deal(err, q)

(* A file of a scan is chosen and played; nothing can be chosen from a card *)
(* that is gone.                                                            *)
PlayFrom(fs, sel, q) ==
  /\ UNCHANGED <<list, live>>
  /\ \/ fs = NoScan /\ fsn' = fs /\ Fails("FSCAN", q)
     \/ fs # NoScan /\ dev' \notin live /\ fsn' = fs /\ Fails("FILE_NOFOUND", q)
     \/ fs # NoScan /\ dev' \in live
        /\ \E i \in Selected(fs, sel) :
             fsn' = [fs EXCEPT !.cur = i] /\ file' = TRUE /\ music_player_decode_start(i, q)

(* The play functions that go on with the device and the scan they have.    *)
PlayHere(sel, q) ==
  /\ UNCHANGED <<dev, scan>>
  /\ \/ Online(dev) /\ PlayFrom(fsn, sel, q)
     \/ ~ Online(dev) /\ UNCHANGED <<fsn, list, live>> /\ Fails("DEV_OFFLINE", q)

(* Those that take up a device, and scan it first.                          *)
PlayDevice(d, sel, q) ==
  /\ dev' = d /\ fsn' = NoScan /\ music_player_stop /\ scan' = sel
  /\ queue' = q
  /\ UNCHANGED <<nodes, wrapped, broke, file_err_counter>>

PlayOn(d, sel, q) ==
  \/ d = None /\ PlayHere(sel, q)
  \/ d # None /\ PlayDevice(d, sel, q) /\ UNCHANGED bp

(* The break point of what is played, kept for the card's next turn.        *)
BreakPointSaved == IF dec # "none" /\ Online(dev) THEN [bp EXCEPT ![dev] = "mine"] ELSE bp

FromBreakPoint(d) == IF d # None /\ bp[d] # "none" THEN "bp" ELSE "first"

Nothing(err, q) ==
  UNCHANGED <<dev, fsn, file, dec, wrapped, scan, list, live, recent>> /\ Deal(err, q)

-----------------------------------------------------------------------------
(* music_key_event_opr.                                                     *)

SameDevice == dec # "none" /\ dev \in mounted /\ find_active = dev

PlayerStart(q) ==
  \/ SameDevice /\ UNCHANGED bp /\ Nothing("NULL", q)
  \/ ~ SameDevice /\ PlayOn(find_active, FromBreakPoint(find_active), q)

music_player_play_next(q) ==
  IF fsn.cur >= Len(fsn.files) /\ ManyPlayable
  THEN PlayOn(get_dev_flit("next"), "first", q) ELSE PlayHere("next", q)

music_player_play_prev(q) ==
  IF fsn.cur = 1 /\ ManyPlayable
  THEN PlayOn(get_dev_flit("prev"), "last", q) ELSE PlayHere("prev", q)

NextNumberMutant(m) == FALSE
ReadErrorCounts(m) == m.fresh /\ ~ wrapped

music_player_end_deal(m, q) ==
  \/ m.err /\ ReadErrorCounts(m) /\ bp' = BreakPointSaved /\ Nothing("DEV_READ", q)
  \/ m.err /\ ~ ReadErrorCounts(m) /\ UNCHANGED bp /\ Nothing("NULL", q)
  \/ /\ ~ m.err /\ fsn.cur >= Len(fsn.files) /\ get_dev_flit("next") # None
     /\ PlayDevice(get_dev_flit("next"), "first", q) /\ UNCHANGED bp
  \/ /\ ~ m.err /\ (fsn.cur < Len(fsn.files) \/ get_dev_flit("next") = None)
     /\ PlayHere("next", q)

AutoNextDev(q) ==
  LET next == find_neighbour(dev, "next")
  IN \/ next = None /\ UNCHANGED bp /\ Nothing("NULL", q)
     \/ next # None /\ bp' = BreakPointSaved /\ PlayDevice(next, FromBreakPoint(next), q)

(* music_task_close, and what is left of the queue: app_task_exitting       *)
(* clears the keys.                                                         *)
KeysCleared(q) ==
  LET kept[n \in 0..Len(q)] ==
        IF n = 0 THEN << >>
        ELSE IF q[n].op \in DeviceEvents THEN Append(kept[n - 1], q[n]) ELSE kept[n - 1]
  IN  kept[Len(q)]

music_task_close(q) ==
  /\ task' = "other" /\ starting' = FALSE /\ queue' = KeysCleared(q)
  /\ dev' = None /\ fsn' = NoScan /\ music_player_stop
  /\ broke' = FALSE /\ file_err_counter' = 0 /\ backward' = FALSE
  /\ bp' = BreakPointSaved /\ UNCHANGED <<world, nodes, wrapped, scan>>

Played(m, q) ==
  CASE m.op = "START" -> PlayerStart(q)
    [] m.op = "PLAY_FIRST" -> PlayHere("first", q)
    [] m.op = "NEXT" -> music_player_play_next(q)
    [] m.op = "PREV" -> music_player_play_prev(q)
    [] m.op = "AUTO_NEXT_DEV" -> AutoNextDev(q)
    [] m.op = "END" -> music_player_end_deal(m, q)

Plays == {"START", "PLAY_FIRST", "NEXT", "PREV", "AUTO_NEXT_DEV", "END"}

Take(ops) == scan = "none" /\ queue # << >> /\ queue[1].op \in ops

music_key_event_opr ==
  /\ task = "music" /\ Take(Plays)
  /\ backward' = IF queue[1].op \in {"NEXT", "PREV"} THEN queue[1].op = "PREV" ELSE backward
  /\ Played(queue[1], Tail(queue))
  /\ UNCHANGED <<world, task, starting>>

MusicQuit == task = "music" /\ Take({"QUIT", "MODE"}) /\ music_task_close(Tail(queue))

-----------------------------------------------------------------------------
(* Cards that come and go: music_sys_event_handler, then the handler of all *)
(* tasks, which adds or deletes the node.                                   *)

DeviceOut ==
  /\ Take({"out"})
  /\ LET d == queue[1].dev
         mine == task = "music" /\ dev = d /\ dev \in mounted
     IN /\ dev_manager_del(d)
        /\ dev' = NodeFreed(d)
        /\ IF mine
           THEN /\ music_player_stop /\ fsn' = NoScan /\ bp' = BreakPointSaved
                /\ queue' = Append(Tail(queue), Key("START"))
           ELSE UNCHANGED <<dec, file, fsn, bp>> /\ queue' = Tail(queue)
  /\ UNCHANGED <<world, task, starting, wrapped, scan, control>>

DeviceIn ==
  /\ task = "music" /\ Take({"in"})
  /\ bp' = BreakPointSaved /\ music_player_stop /\ fsn' = NoScan
  /\ queue' = Append(Tail(queue), Key("START"))
  /\ dev_manager_add(queue[1].dev)
  /\ dev' \in (IF list' = list THEN {dev} ELSE NodeMade(queue[1].dev))
  /\ UNCHANGED <<world, task, starting, wrapped, scan, control>>

(* The other tasks go to the music task when a card comes, unless they may  *)
(* not be left or nothing can be played.                                    *)
music_task_start(q) ==
  /\ valid' \intersect mounted' # {}
  /\ task' = "music" /\ starting' = TRUE /\ queue' = KeysCleared(q)

OtherDeviceIn ==
  /\ task = "other" /\ Take({"in"})
  /\ dev_manager_add(queue[1].dev)
  /\ \/ mounted' # mounted /\ music_task_start(Tail(queue))
     \/ queue' = Tail(queue) /\ UNCHANGED <<task, starting>>
  /\ UNCHANGED <<world, player, control>>

OtherKey ==
  /\ task = "other" /\ Take(Plays \union {"QUIT", "MODE"})
  /\ UNCHANGED <<world, nodes, player, control>>
  /\ \/ queue[1].op = "MODE" /\ music_task_start(Tail(queue))
     \/ queue' = Tail(queue) /\ UNCHANGED <<task, starting>>

ToneEnd ==
  /\ starting /\ starting' = FALSE /\ Post(Key("START"))
  /\ UNCHANGED <<world, nodes, task, player, control>>

-----------------------------------------------------------------------------
(* A scan: music_player_scandisk_break takes messages, and the scan ends.   *)

Breaks(m) == m.op = "in" \/ (m.op = "out" /\ m.dev = dev) \/ m.op = "MODE"

(* A message that breaks the scan goes to the end of the queue; the card of *)
(* another device that is gone is dealt with; all others are dropped.       *)
music_player_scandisk_break ==
  /\ scan # "none" /\ ~ broke /\ queue # << >>
  /\ broke' = Breaks(queue[1])
  /\ queue' = IF broke' THEN Append(Tail(queue), queue[1]) ELSE Tail(queue)
  /\ IF ~ broke' /\ queue[1].op = "out" THEN dev_manager_del(queue[1].dev) ELSE UNCHANGED nodes
  /\ UNCHANGED <<world, task, starting, player, file_err_counter, backward>>

ScanEnd ==
  /\ scan # "none"
  /\ scan' = "none" /\ UNCHANGED <<world, task, starting, dev, backward>>
  /\ LET found == ~ broke /\ dev \in live /\ card[dev] # << >>
         fs == IF found THEN [files |-> card[dev], cur |-> 0] ELSE NoScan
     IN \/ scan = "bp" /\ found /\ bp[dev] = "foreign"
           /\ fsn' = fs /\ UNCHANGED <<list, live>> /\ Fails("PARM", queue)
        \/ ~ (scan = "bp" /\ found /\ bp[dev] = "foreign") /\ PlayFrom(fs, scan, queue)

-----------------------------------------------------------------------------
(* What happens around the application task.                                *)

PutIn(d) ==
  /\ d \in Moved /\ d \notin inserted \union seen /\ Room
  /\ inserted' = inserted \union {d}
  /\ \E c \in Cards : card' = [card EXCEPT ![d] = c]
  /\ \E b \in (IF bp[d] = "mine" THEN {"mine", "foreign"} ELSE {bp[d]}) : bp' = [bp EXCEPT ![d] = b]
  /\ UNCHANGED <<env, seen, nodes, queue, task, starting, dev, fsn, file, dec, wrapped, scan, control>>

PullOut(d) ==
  /\ d \in Moved /\ d \in inserted \intersect seen /\ Room
  /\ inserted' = inserted \ {d} /\ live' = live \ {d}
  /\ UNCHANGED <<env, card, seen, list, mounted, valid, recent, queue, task, starting, player, control>>

(* The driver looks from time to time whether there is a card.              *)
Detect(d) ==
  /\ d \in Unnoticed
  /\ IF d \in inserted THEN seen' = seen \union {d} /\ queue' = Append(queue, Arrives(d))
     ELSE seen' = seen \ {d} /\ queue' = Append(queue, Leaves(d))
  /\ UNCHANGED <<env, inserted, card, nodes, task, starting, player, control>>

(* The decoder has reached the end of the file, or cannot read on.          *)
Ends(err) ==
  /\ dec = "play" /\ dec' = "ended" /\ Post(End(err))
  /\ UNCHANGED <<world, nodes, task, starting, dev, fsn, file, wrapped, scan, bp, control>>
FileEnds == dev \in live /\ Ends(FALSE)
ReadFails == (dev \notin live \/ "unreadable" \in env) /\ Ends(TRUE)
CardGone == dev \notin live /\ Ends(TRUE)

Press(k) ==
  /\ IF k = "MODE" THEN "mode" \in env ELSE "skip" \in env /\ task = "music"
  /\ Post(Key(k))
  /\ UNCHANGED <<world, nodes, task, starting, player, control>>

Handle == music_key_event_opr \/ MusicQuit \/ DeviceOut \/ DeviceIn \/ OtherDeviceIn \/ OtherKey

Next ==
  \/ music_key_event_opr \/ MusicQuit
  \/ DeviceOut \/ DeviceIn \/ OtherDeviceIn \/ OtherKey
  \/ ToneEnd \/ music_player_scandisk_break \/ ScanEnd
  \/ FileEnds \/ ReadFails
  \/ \E d \in Used : PutIn(d) \/ PullOut(d) \/ Detect(d)
  \/ \E k \in UserKeys : Press(k)

Spec == Init /\ [][Next]_vars

(* The task goes on with what it has, the prompt ends, a decoder whose card *)
(* is gone notices, and the driver goes on looking.                         *)
Fairness ==
  /\ WF_vars(Handle) /\ WF_vars(ScanEnd) /\ SF_vars(ToneEnd)
  /\ SF_vars(CardGone) /\ \A d \in Devices : WF_vars(Detect(d))

FairSpec == Spec /\ Fairness

-----------------------------------------------------------------------------
Messages ==
  UNION {[op : DeviceEvents, dev : Devices, err : {FALSE}, fresh : {FALSE}],
         [op : UserKeys \union OwnKeys, dev : {None}, err : {FALSE}, fresh : {FALSE}],
         [op : {"END"}, dev : {None}, err : BOOLEAN, fresh : BOOLEAN]}

(* Types; besides, the device list has no node twice, a decoder that plays  *)
(* has an open file of a scan, and a scan goes on only in the music task.   *)
TypeOK ==
  /\ env \in Envs /\ inserted \subseteq Devices /\ seen \subseteq Devices
  /\ card \in [Devices -> Cards]
  /\ list \in Seq(Devices) /\ \A i, j \in DOMAIN list : i # j => list[i] # list[j]
  /\ recent \in Seq(Devices) /\ ToSet(recent) = ToSet(list)
  /\ mounted \union live \union valid \subseteq ToSet(list)
  /\ queue \in Seq(Messages) /\ Len(queue) <= MaxQueue
  /\ task \in {"music", "other"} /\ starting \in BOOLEAN /\ (starting => task = "music")
  /\ dev \in Devices \union {None, Gone} /\ (fsn = NoScan \/ fsn.files \in Cards)
  /\ dec \in {"none", "play", "ended"} /\ file \in BOOLEAN
  /\ (dec # "none" => file /\ fsn # NoScan /\ task = "music")
  /\ wrapped \in BOOLEAN /\ broke \in BOOLEAN /\ backward \in BOOLEAN
  /\ scan \in {"none", "first", "last", "bp"} /\ (scan # "none" => task = "music" /\ dec = "none")
  /\ file_err_counter \in Nat
  /\ bp \in [Devices -> {"none", "mine", "foreign"}]

(* dev_manager.c:33 takes a device for valid when there are files to play.  *)
(* A card that is not moved is not given up when all but one of its files   *)
(* are good, however the keys and the messages of the music task, which     *)
(* post each other after every failure, come between each other.            *)
FilesOf(d, kind) == {i \in DOMAIN card[d] : card[d][i] = kind}
OneDisturbance == env \subseteq {"skip", "unreadable", "wrap"} \/ env \subseteq {"mode", "unreadable", "wrap"}
GoodDeviceKept ==
  OneDisturbance =>
    \A d \in live \intersect mounted :
      FilesOf(d, "good") # {} /\ Cardinality(FilesOf(d, "bad")) <= 1 => d \in valid

(* The music task does not stay silent: it plays, or it is left.            *)
Silent == task = "music" /\ dec # "play"
CardsSettle == <>[][inserted' = inserted]_vars
Hears == ~ {"second", "plug"} \subseteq env /\ ~ {"unreadable", "wrap"} \subseteq env
SilenceEnds == Hears /\ CardsSettle => (Silent ~> ~ Silent)
=============================================================================
