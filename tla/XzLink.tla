------------------------------- MODULE XzLink -------------------------------
(***************************************************************************)
(* The phone's commands over Bluetooth LE: SDK/apps/xiaozhi/sdk, with the  *)
(* connection handling of le_trans_data.c that calls it.                   *)
(*                                                                         *)
(* The phone writes a command enciphered with the key of the session.  The *)
(* Bluetooth task deciphers it, puts it in a ring buffer and posts a device*)
(* event; the event handler takes one packet out of the buffer, executes   *)
(* it and answers.  A command can change the key, which the Bluetooth task *)
(* does as soon as it has deciphered it.                                   *)
(*                                                                         *)
(* The Bluetooth task and the task that handles events run in parallel:    *)
(* the handler is cut where the other task can see or change what it uses. *)
(* The phone is external: it starts each connection with the built-in key, *)
(* subscribes to the answers before it writes, sends a new key in full     *)
(* (the device copies it without a look at the length of the packet), and  *)
(* uses it for everything after the command that sets it, as the device    *)
(* does.                                                                   *)
(***************************************************************************)
EXTENDS Naturals, Sequences, FiniteSets, SequencesExt

CONSTANTS
  Ids,           \* names of the commands the phone waits for
  NewKeys,       \* the keys the phone can set
  Rc4Key, Torn,  \* the built-in key; a table copied while it was changed
  CbufPackets,   \* the packets xz_tr_cbuf holds
  MaxEvents,     \* bound: events in the queue
  WritesMayFail, \* whether a flash write can fail
  SendMayFail    \* whether the stack's send buffer can be full

ASSUME KeyAssumption == Rc4Key \notin NewKeys /\ Torn \notin NewKeys \union {Rc4Key}
ASSUME BoundAssumption ==
  CbufPackets \in Nat /\ MaxEvents \in Nat /\ {WritesMayFail, SendMayFail} \subseteq BOOLEAN

Keys == NewKeys \union {Rc4Key}

(* What a command can be: a new key, a binding command, or any other, known *)
(* or not, whose handling changes nothing here (AlarmCore has what an alarm *)
(* command does).  A packet whose length is not the one it says is "frame". *)
Commands == NewKeys \union {"bind", "unbind", "plain"}
Contents == Commands \union {"frame"}
None == "none"

VARIABLES
  flash,   \* bound_flag of the record in the flash
  bound,   \* xz_ble_auth.bound_flag
  sbox,    \* the key Rc4Sbox was made of
  cbuf,    \* xz_cbuft: the packets received and not handled
  post,    \* the Bluetooth task has stored a packet and not posted its event
  events,  \* device events posted and not handled: "xz" and others
  reply,   \* the answer the handler is making: none, or <<it>>
  ble,     \* ble_work_state; "connect" is BLE_ST_NOTIFY_IDICATE as well
  phone,   \* the phone: its key, and the commands it waits for
  acks,    \* answers on their way to the phone
  lost     \* history: commands whose packet or answer was refused or thrown away

vars == <<flash, bound, sbox, cbuf, post, events, reply, ble, phone, acks, lost>>

Connected == ble = "connect"
NoPhone == [key |-> Rc4Key, wait |-> {}]
InUse == {c.id : c \in phone.wait \union ToSet(cbuf)}
           \union {a.id : a \in ToSet(reply \o acks)}

Init ==
  /\ flash = FALSE /\ bound = FALSE /\ sbox = Torn
  /\ cbuf = <<>> /\ post = FALSE /\ events = <<>> /\ reply = <<>>
  /\ ble = "null" /\ phone = NoPhone /\ acks = <<>> /\ lost = {}

CanPost == Len(events) + (IF post THEN 1 ELSE 0) < MaxEvents

-----------------------------------------------------------------------------
(* xiaozhi_lib.c, xz_ble_port_AC695N.c and xz_ble_app_demo.c.               *)

(* A flash write; nobody looks at what it returns.                          *)
xz_ble_nv_write(val) ==
  flash' \in {val} \union (IF WritesMayFail THEN {flash} ELSE {})

(* Deciphered with another key than the phone's, a packet is noise, and its *)
(* length is not the one it says.                                           *)
xiaozhi_crypt(cmd) == IF sbox = phone.key THEN cmd ELSE "frame"
LateKeyMutant(cmd) == UNCHANGED sbox
xz_recive_decrypt_data(cmd) == sbox' = (IF cmd \in NewKeys THEN cmd ELSE sbox)

(* A full buffer refuses the packet, and no event is posted for it.         *)
FirstOnlyMutant(packet) ==
  IF Len(cbuf) < CbufPackets
  THEN /\ cbuf' = Append(cbuf, packet) /\ post' = (cbuf = <<>>)
       /\ lost' = lost \ {packet.id}
  ELSE UNCHANGED <<cbuf, post>> /\ lost' = lost \union {packet.id}
OverfullMutant(packet) ==
  IF Len(cbuf) <= CbufPackets
  THEN cbuf' = Append(cbuf, packet) /\ post' = TRUE /\ lost' = lost \ {packet.id}
  ELSE UNCHANGED <<cbuf, post>> /\ lost' = lost \union {packet.id}
xz_ibuf_to_cbuf(packet) ==
  IF Len(cbuf) < CbufPackets
  THEN cbuf' = Append(cbuf, packet) /\ post' = TRUE /\ lost' = lost \ {packet.id}
  ELSE UNCHANGED <<cbuf, post>> /\ lost' = lost \union {packet.id}

(* att_write_callback, up to the packet being in the buffer, with what the  *)
(* phone makes of its own command.  A key is taken from a packet of any     *)
(* length: the length is looked at when the packet is taken out.            *)
att_write_callback(id, cmd, whole) ==
  /\ Connected /\ ~ post /\ id \notin InUse
  /\ Len(cbuf) < CbufPackets => CanPost
  /\ phone' = [key |-> IF cmd \in NewKeys THEN cmd ELSE phone.key,
               wait |-> phone.wait \union {[id |-> id, cmd |-> cmd]}]
  /\ xz_recive_decrypt_data(xiaozhi_crypt(cmd))
  /\ xz_ibuf_to_cbuf([id |-> id, cmd |-> IF whole THEN xiaozhi_crypt(cmd) ELSE "frame"])
  /\ UNCHANGED <<flash, bound, events, reply, ble, acks>>

xiao_zhi_send_even ==
  /\ post /\ post' = FALSE /\ events' = Append(events, "xz")
  /\ UNCHANGED <<flash, bound, sbox, cbuf, reply, ble, phone, acks, lost>>

(* Another part of the program posts a device event.                        *)
OtherEvent ==
  /\ ble # "null" /\ CanPost /\ events' = Append(events, "other")
  /\ UNCHANGED <<flash, bound, sbox, cbuf, post, reply, ble, phone, acks, lost>>

-----------------------------------------------------------------------------
(* The binding commands: a device is bound once until it is unbound.        *)
NoWriteMutant(val) == bound' = val /\ UNCHANGED flash
Bind(val) == bound' = val /\ xz_ble_nv_write(val)
call_dp_response_cb(cmd) ==
  \/ cmd \in NewKeys \union {"plain"} /\ UNCHANGED <<flash, bound>>
  \/ /\ cmd \in {"bind", "unbind"} /\ bound = (cmd = "bind")
     /\ UNCHANGED <<flash, bound>>
  \/ cmd \in {"bind", "unbind"} /\ bound # (cmd = "bind") /\ Bind(cmd = "bind")

(* Whatever the device event is, a packet is taken out of the buffer and    *)
(* its length checked; it is executed only if the event is the link's own.  *)
xiao_zhi_event_handler ==
  /\ events # <<>> /\ reply = <<>> /\ events' = Tail(events)
  /\ LET packet == Head(cbuf)
         answer == <<[id |-> packet.id, key |-> None]>>
     IN  \/ cbuf = <<>> /\ UNCHANGED <<cbuf, reply, lost, flash, bound>>
         \/ /\ cbuf # <<>> /\ cbuf' = Tail(cbuf) /\ packet.cmd = "frame"
            /\ reply' = answer /\ UNCHANGED <<lost, flash, bound>>
         \/ /\ cbuf # <<>> /\ cbuf' = Tail(cbuf) /\ packet.cmd # "frame"
            /\ Head(events) = "xz" /\ call_dp_response_cb(packet.cmd)
            /\ reply' = answer /\ UNCHANGED lost
         \/ /\ cbuf # <<>> /\ cbuf' = Tail(cbuf) /\ packet.cmd # "frame"
            /\ Head(events) # "xz" /\ lost' = lost \union {packet.id}
            /\ UNCHANGED <<reply, flash, bound>>
  /\ UNCHANGED <<sbox, post, ble, phone, acks>>

(* The answer is enciphered with a copy of the table; copied while the      *)
(* Bluetooth task makes a new one, the copy may be of neither key.          *)
xz_sent_encode_data ==
  /\ reply # <<>> /\ reply[1].key = None /\ reply' = [reply EXCEPT ![1].key = sbox]
  /\ UNCHANGED <<flash, bound, sbox, cbuf, post, events, ble, phone, acks, lost>>

(* Without a connection the answer goes nowhere; the stack refuses it when  *)
(* its send buffer is full, and nobody looks at the error.                  *)
Refused == SendMayFail /\ lost' = lost \union {reply[1].id} /\ UNCHANGED acks
app_send_user_data ==
  \/ ~ Connected /\ UNCHANGED <<acks, lost>>
  \/ /\ Connected /\ UNCHANGED lost
     /\ LET start == reply[1].key
        IN  \E key \in IF sbox = start THEN {sbox} ELSE {start, sbox, Torn} :
              acks' = Append(acks, [reply[1] EXCEPT !.key = key])
  \/ Connected /\ Refused
xiao_zhi_send_ack ==
  /\ reply # <<>> /\ reply[1].key # None /\ reply' = <<>> /\ app_send_user_data
  /\ UNCHANGED <<flash, bound, sbox, cbuf, post, events, ble, phone>>

-----------------------------------------------------------------------------
(* le_trans_data.c.                                                         *)

(* Advertising starts with the answer to scans, which is enciphered with    *)
(* the built-in key.                                                        *)
KeepKeyMutant == ble' = "adv" /\ sbox' = IF sbox = Torn THEN Rc4Key ELSE sbox
set_adv_enable == ble' = "adv" /\ sbox' = Rc4Key

(* The read of the record returns XZ_BLE_SUCCESS, which is 0, whether there *)
(* is a record or not.                                                      *)
xz_ble_nv_read == 0
xz_ble_app_init ==
  IF xz_ble_nv_read = 0 THEN Bind(FALSE) ELSE bound' = flash /\ UNCHANGED flash

bt_ble_init ==
  /\ ble = "null" /\ cbuf' = <<>> /\ xz_ble_app_init /\ set_adv_enable
  /\ UNCHANGED <<post, events, reply, phone, acks, lost>>

HCI_SUBEVENT_LE_CONNECTION_COMPLETE ==
  /\ ble = "adv" /\ ble' = "connect" /\ phone' = NoPhone
  /\ UNCHANGED <<flash, bound, sbox, cbuf, post, events, reply, acks, lost>>

HCI_EVENT_DISCONNECTION_COMPLETE ==
  /\ Connected /\ ~ post /\ set_adv_enable
  /\ phone' = NoPhone /\ acks' = <<>> /\ lost' = {}
  /\ UNCHANGED <<flash, bound, cbuf, post, events, reply>>

(* The phone gets an answer.                                                *)
PhoneAcked ==
  /\ acks # <<>> /\ acks' = Tail(acks)
  /\ phone' = [phone EXCEPT !.wait = {c \in @ : c.id # Head(acks).id}]
  /\ UNCHANGED <<flash, bound, sbox, cbuf, post, events, reply, ble, lost>>

(* Power is lost: the flash is all there is left.                           *)
PowerLoss ==
  /\ ble # "null" /\ ble' = "null" /\ sbox' = Torn /\ bound' = FALSE
  /\ cbuf' = <<>> /\ post' = FALSE /\ events' = <<>> /\ reply' = <<>>
  /\ phone' = NoPhone /\ acks' = <<>> /\ lost' = {} /\ UNCHANGED flash

-----------------------------------------------------------------------------
Next ==
  \/ (\E id \in Ids, cmd \in Commands, whole \in BOOLEAN : att_write_callback(id, cmd, whole))
  \/ xiao_zhi_send_even \/ OtherEvent
  \/ xiao_zhi_event_handler \/ xz_sent_encode_data \/ xiao_zhi_send_ack
  \/ bt_ble_init \/ HCI_SUBEVENT_LE_CONNECTION_COMPLETE
  \/ HCI_EVENT_DISCONNECTION_COMPLETE \/ PhoneAcked \/ PowerLoss

(* Both tasks go on with what they have begun, events are handled and an    *)
(* answer reaches a phone that stays connected.  Nothing is assumed of what *)
(* the phone writes, of connections and of other events.                    *)
Fairness ==
  /\ WF_vars(xiao_zhi_send_even) /\ WF_vars(xiao_zhi_event_handler)
  /\ WF_vars(xz_sent_encode_data) /\ WF_vars(xiao_zhi_send_ack)
  /\ WF_vars(PhoneAcked)

Spec == Init /\ [][Next]_vars
FairSpec == Spec /\ Fairness

-----------------------------------------------------------------------------
Packet == [id : Ids, cmd : Contents]
TypeOK ==
  /\ {flash, bound, post} \subseteq BOOLEAN /\ sbox \in Keys \union {Torn}
  /\ cbuf \in Seq(Packet) /\ Len(cbuf) <= CbufPackets
  /\ events \in Seq({"xz", "other"}) /\ Len(events) <= MaxEvents
  /\ reply \in Seq([id : Ids, key : Keys \union {None, Torn}])
  /\ Len(reply) <= 1
  /\ ble \in {"null", "adv", "connect"}
  /\ phone \in [key : Keys, wait : SUBSET Packet]
  /\ acks \in Seq([id : Ids, key : Keys \union {Torn}])
  /\ lost \subseteq Ids

(* However the two tasks interleave and whatever other events take packets  *)
(* away, each packet in the buffer has an event of its own still to come:   *)
(* none stays in the buffer until some later command happens to move it.    *)
OwnEvents(s) == {i \in DOMAIN s : s[i] = "xz"}
PacketHasEvent ==
  Len(cbuf) <= Cardinality(OwnEvents(events)) + (IF post THEN 1 ELSE 0)

(* Device and phone use the same key from the first command of a connection *)
(* on, after key changes and connections lost at any moment.                *)
KeysAgree == Connected => sbox = phone.key

(* The answer to a command can be read with the key the phone has, unless   *)
(* the phone is changing the key while the command is unanswered.           *)
AcksReadable ==
  \A a \in ToSet(acks), c \in phone.wait :
    a.id = c.id /\ (\A d \in phone.wait \ {c} : d.cmd \notin NewKeys)
      => a.key = phone.key

(* While nothing is being handled, the record in the flash says of the      *)
(* binding what the device tells the phone.                                 *)
BindingSaved == ble # "null" => flash = bound

Waiting(id) == \E c \in phone.wait : c.id = id

(* A command is answered unless the connection ends or it is one of lost:   *)
(* the buffer was full, another event has thrown its packet away, or the    *)
(* send buffer of the stack had no room for the answer.                     *)
KeptCommandAnswered == \A id \in Ids : Waiting(id) ~> ~ Waiting(id) \/ id \in lost

(* xz_ble_app_demo.c:40: the device answers the app after it has received   *)
(* its data.  A command is answered unless the connection ends.             *)
CommandAnswered == \A id \in Ids : Waiting(id) ~> ~ Waiting(id)
=============================================================================
