---------------------------- MODULE XzLinkProofs ----------------------------
(* For every set of keys and commands, size of the buffer and order of the  *)
(* two tasks' steps: device and phone never lose each other's key, no       *)
(* packet is stranded, answers can be read, and the binding is saved.       *)
EXTENDS XzLink, FiniteSetTheorems, TLAPS

PhoneType == phone \in [key : Keys, wait : SUBSET Packet]

(* Advertising is always with the built-in key, so that a connection starts *)
(* with the key the phone starts with.                                      *)
AdvertisesBuiltIn == ble = "adv" => sbox = Rc4Key

KeyInv == PhoneType /\ AdvertisesBuiltIn /\ KeysAgree

LEMMA InitKeys == Init => KeyInv
BY DEF Init, KeyInv, PhoneType, AdvertisesBuiltIn, KeysAgree, Connected, NoPhone, Keys

(* What a phone writes keeps it a phone, and both sides take the new key.   *)
LEMMA WriteKeepsKeys ==
  ASSUME KeyInv, NEW id \in Ids, NEW cmd \in Commands, NEW whole \in BOOLEAN,
         att_write_callback(id, cmd, whole)
  PROVE  KeyInv'
<1>1. Connected /\ sbox = phone.key /\ ble' = ble
  BY DEF att_write_callback, KeyInv, KeysAgree
<1>2. xiaozhi_crypt(cmd) = cmd
  BY <1>1 DEF xiaozhi_crypt
<1>3. sbox' = IF cmd \in NewKeys THEN cmd ELSE sbox
  BY <1>2 DEF att_write_callback, xz_recive_decrypt_data
<1>4. [id |-> id, cmd |-> cmd] \in Packet
  BY DEF Packet, Contents
<1>5. phone' = [key |-> IF cmd \in NewKeys THEN cmd ELSE phone.key,
                wait |-> phone.wait \union {[id |-> id, cmd |-> cmd]}]
  BY DEF att_write_callback
<1>6. PhoneType'
  BY <1>4, <1>5 DEF KeyInv, PhoneType, Keys
<1>7. KeysAgree' /\ AdvertisesBuiltIn'
  BY <1>1, <1>3, <1>5 DEF KeysAgree, AdvertisesBuiltIn, Connected
<1> QED BY <1>6, <1>7 DEF KeyInv

(* Every step keeps the keys in agreement.                                  *)
LEMMA StepKeepsKeys == KeyInv /\ [Next]_vars => KeyInv'
<1> SUFFICES ASSUME KeyInv, [Next]_vars PROVE KeyInv'
  OBVIOUS
<1> USE DEF KeyInv
<1> DEFINE KeysKept == UNCHANGED <<sbox, ble, phone>>
<1>1. ASSUME KeysKept PROVE KeyInv'
  BY <1>1 DEF PhoneType, AdvertisesBuiltIn, KeysAgree, Connected
<1>2. ASSUME NEW id \in Ids, NEW cmd \in Commands, NEW whole \in BOOLEAN,
         att_write_callback(id, cmd, whole)
      PROVE  KeyInv'
  BY <1>2, WriteKeepsKeys
<1>3. CASE xiao_zhi_send_even \/ OtherEvent \/ xiao_zhi_event_handler
  BY <1>1, <1>3 DEF xiao_zhi_send_even, OtherEvent, xiao_zhi_event_handler
<1>4. CASE xz_sent_encode_data \/ xiao_zhi_send_ack
  BY <1>1, <1>4 DEF xz_sent_encode_data, xiao_zhi_send_ack
<1>5. CASE bt_ble_init
  BY <1>5 DEF bt_ble_init, set_adv_enable, PhoneType, AdvertisesBuiltIn, KeysAgree,
              Connected
<1>6. NoPhone \in [key : Keys, wait : SUBSET Packet] /\ NoPhone.key = Rc4Key
  BY DEF NoPhone, Keys
<1>7. CASE HCI_SUBEVENT_LE_CONNECTION_COMPLETE
  BY <1>6, <1>7 DEF HCI_SUBEVENT_LE_CONNECTION_COMPLETE, PhoneType,
                    AdvertisesBuiltIn, KeysAgree
<1>8. CASE HCI_EVENT_DISCONNECTION_COMPLETE
  BY <1>6, <1>8 DEF HCI_EVENT_DISCONNECTION_COMPLETE, set_adv_enable, PhoneType,
                    AdvertisesBuiltIn, KeysAgree, Connected
<1>9. CASE PhoneAcked
  <2>1. phone' = [phone EXCEPT !.wait = {c \in @ : c.id # Head(acks).id}]
    BY <1>9 DEF PhoneAcked
  <2>2. PhoneType' /\ phone'.key = phone.key
    BY <2>1 DEF PhoneType
  <2> QED BY <1>9, <2>2 DEF PhoneAcked, AdvertisesBuiltIn, KeysAgree, Connected
<1>10. CASE PowerLoss
  BY <1>6, <1>10 DEF PowerLoss, PhoneType, AdvertisesBuiltIn, KeysAgree, Connected
<1>11. CASE UNCHANGED vars
  BY <1>1, <1>11 DEF vars
<1> QED
  BY <1>2, <1>3, <1>4, <1>5, <1>7, <1>8, <1>9, <1>10, <1>11 DEF Next

(* Device and phone use the same key from the first command of a connection *)
(* on, after key changes and connections lost at any moment.                *)
THEOREM SameKey == Spec => []KeysAgree
<1>1. KeyInv => KeysAgree
  BY DEF KeyInv
<1> QED BY <1>1, InitKeys, StepKeepsKeys, PTL DEF Spec

-----------------------------------------------------------------------------
(* Types.  A packet that is stored has room in the queue for its event.     *)
Answer == [id : Ids, key : Keys \union {None, Torn}]
Ack == [id : Ids, key : Keys \union {Torn}]
LinkType ==
  /\ TypeOK
  /\ Len(events) + (IF post THEN 1 ELSE 0) <= MaxEvents

LEMMA InitType == Init => LinkType
<1> SUFFICES ASSUME Init PROVE LinkType
  OBVIOUS
<1>1. NoPhone \in [key : Keys, wait : SUBSET Packet]
  BY DEF NoPhone, Keys
<1>2. Len(events) + (IF post THEN 1 ELSE 0) <= MaxEvents /\ Len(cbuf) <= CbufPackets
  BY BoundAssumption DEF Init
<1>3. /\ cbuf \in Seq(Packet) /\ events \in Seq({"xz", "other"}) /\ Len(events) <= MaxEvents
      /\ reply \in Seq([id : Ids, key : Keys \union {None, Torn}]) /\ Len(reply) <= 1
      /\ acks \in Seq([id : Ids, key : Keys \union {Torn}]) /\ lost \subseteq Ids
  BY BoundAssumption DEF Init
<1>4. {flash, bound, post} \subseteq BOOLEAN /\ sbox \in Keys \union {Torn}
      /\ ble \in {"null", "adv", "connect"}
  BY DEF Init
<1> QED BY <1>1, <1>2, <1>3, <1>4 DEF Init, LinkType, TypeOK

(* Sequences of the link.                                                   *)
LEMMA FirstOf == ASSUME NEW S, NEW s \in Seq(S), s # <<>>
                 PROVE  s[1] \in S /\ Head(s) = s[1] /\ Len(s) > 0
OBVIOUS

LEMMA OneOf == ASSUME NEW S, NEW a \in S
               PROVE  <<a>> \in Seq(S) /\ Len(<<a>>) = 1 /\ <<a>> # <<>> /\ <<a>>[1] = a
OBVIOUS

LEMMA AppendOf == ASSUME NEW S, NEW s \in Seq(S), NEW a \in S
                  PROVE  /\ Append(s, a) \in Seq(S) /\ Len(Append(s, a)) = Len(s) + 1
                         /\ Append(s, a)[Len(s) + 1] = a
                         /\ \A i \in 1..Len(s) : Append(s, a)[i] = s[i]
OBVIOUS

LEMMA TailOf == ASSUME NEW S, NEW s \in Seq(S), s # <<>>
                PROVE  /\ Tail(s) \in Seq(S) /\ Len(Tail(s)) = Len(s) - 1
                       /\ \A i \in 1..Len(Tail(s)) : Tail(s)[i] = s[i + 1]
OBVIOUS

LEMMA StepType == LinkType /\ [Next]_vars => LinkType'
<1> SUFFICES ASSUME LinkType, [Next]_vars PROVE LinkType'
  OBVIOUS
<1>a. flash \in BOOLEAN /\ bound \in BOOLEAN /\ post \in BOOLEAN /\ sbox \in Keys \union {Torn}
  BY DEF LinkType, TypeOK
<1>b. cbuf \in Seq(Packet) /\ Len(cbuf) <= CbufPackets
  BY DEF LinkType, TypeOK
<1>c. events \in Seq({"xz", "other"}) /\ Len(events) + (IF post THEN 1 ELSE 0) <= MaxEvents
  BY DEF LinkType, TypeOK
<1>d. reply \in Seq(Answer) /\ Len(reply) <= 1
  BY DEF LinkType, TypeOK, Answer
<1>e. phone \in [key : Keys, wait : SUBSET Packet] /\ lost \subseteq Ids
  BY DEF LinkType, TypeOK
<1>f. acks \in Seq(Ack)
  BY DEF LinkType, TypeOK, Ack
<1>g. NoPhone \in [key : Keys, wait : SUBSET Packet] /\ Rc4Key \in Keys
  BY DEF NoPhone, Keys
<1>h. ble \in {"null", "adv", "connect"}
  BY DEF LinkType, TypeOK
<1>i. /\ flash' \in BOOLEAN /\ bound' \in BOOLEAN /\ post' \in BOOLEAN /\ sbox' \in Keys \union {Torn}
      /\ cbuf' \in Seq(Packet) /\ Len(cbuf') <= CbufPackets
      /\ events' \in Seq({"xz", "other"}) /\ Len(events') + (IF post' THEN 1 ELSE 0) <= MaxEvents
      /\ reply' \in Seq(Answer) /\ Len(reply') <= 1
      /\ phone' \in [key : Keys, wait : SUBSET Packet] /\ lost' \subseteq Ids
      /\ acks' \in Seq(Ack) /\ ble' \in {"null", "adv", "connect"}
      => LinkType'
  BY BoundAssumption DEF LinkType, TypeOK, Answer, Ack
<1>1. ASSUME NEW id \in Ids, NEW cmd \in Commands, NEW whole \in BOOLEAN,
         att_write_callback(id, cmd, whole)
      PROVE  LinkType'
  <2>1. (IF whole THEN xiaozhi_crypt(cmd) ELSE "frame") \in Contents
    BY DEF xiaozhi_crypt, Contents
  <2>2. /\ [id |-> id, cmd |-> cmd] \in Packet
        /\ [id |-> id, cmd |-> IF whole THEN xiaozhi_crypt(cmd) ELSE "frame"] \in Packet
    BY <2>1 DEF Packet, Contents
  <2>3. phone' \in [key : Keys, wait : SUBSET Packet]
    BY <1>1, <1>e, <2>2 DEF att_write_callback, Keys
  <2>4. sbox' \in Keys \union {Torn}
    BY <1>1, <1>a DEF att_write_callback, xz_recive_decrypt_data, Keys, Commands, xiaozhi_crypt
  <2>5. cbuf' \in Seq(Packet) /\ Len(cbuf') <= CbufPackets /\ lost' \subseteq Ids
        /\ Len(events') + (IF post' THEN 1 ELSE 0) <= MaxEvents /\ post' \in BOOLEAN
    <3> DEFINE packet == [id |-> id, cmd |-> IF whole THEN xiaozhi_crypt(cmd) ELSE "frame"]
    <3>0. packet.id = id /\ packet \in Packet
      BY <2>2
    <3> HIDE DEF packet
    <3>1. ~ post /\ events' = events /\ xz_ibuf_to_cbuf(packet)
      BY <1>1 DEF att_write_callback, packet
    <3>2. CASE Len(cbuf) < CbufPackets
      <4>1. cbuf' = Append(cbuf, packet) /\ post' = TRUE /\ lost' = lost \ {packet.id}
        BY <3>1, <3>2 DEF xz_ibuf_to_cbuf
      <4>2. Len(events) < MaxEvents
        BY <1>1, <3>1, <3>2 DEF att_write_callback, CanPost
      <4>3. cbuf' \in Seq(Packet) /\ Len(cbuf') = Len(cbuf) + 1
        BY <1>b, <3>0, <4>1, AppendOf
      <4>4. Len(cbuf') <= CbufPackets /\ Len(events') + 1 <= MaxEvents
        BY <1>b, <1>c, <3>1, <3>2, <4>2, <4>3, BoundAssumption
      <4> QED BY <1>e, <4>1, <4>3, <4>4
    <3>3. CASE ~ Len(cbuf) < CbufPackets
      <4>1. UNCHANGED <<cbuf, post>> /\ lost' = lost \union {packet.id}
        BY <3>1, <3>3 DEF xz_ibuf_to_cbuf
      <4> QED BY <1>a, <1>b, <1>c, <1>e, <3>0, <3>1, <4>1
    <3> QED BY <3>2, <3>3
  <2> QED BY <1>1, <1>a, <1>c, <1>d, <1>f, <1>h, <1>i, <2>3, <2>4, <2>5 DEF att_write_callback
<1>2. CASE xiao_zhi_send_even
  <2>1. post /\ post' = FALSE /\ events' = Append(events, "xz")
    BY <1>2 DEF xiao_zhi_send_even
  <2>2. events' \in Seq({"xz", "other"}) /\ Len(events') = Len(events) + 1
    BY <1>c, <2>1, AppendOf
  <2>3. Len(events') + (IF post' THEN 1 ELSE 0) <= MaxEvents
    BY <1>c, <2>1, <2>2, BoundAssumption
  <2> QED BY <1>2, <1>a, <1>b, <1>d, <1>e, <1>f, <1>h, <1>i, <2>1, <2>2, <2>3
          DEF xiao_zhi_send_even
<1>3. CASE OtherEvent
  <2>1. CanPost /\ events' = Append(events, "other") /\ post' = post
    BY <1>3 DEF OtherEvent
  <2>2. events' \in Seq({"xz", "other"}) /\ Len(events') = Len(events) + 1
    BY <1>c, <2>1, AppendOf
  <2>3. Len(events') + (IF post' THEN 1 ELSE 0) <= MaxEvents
    BY <1>a, <1>c, <2>1, <2>2, BoundAssumption DEF CanPost
  <2> QED BY <1>3, <1>a, <1>b, <1>d, <1>e, <1>f, <1>h, <1>i, <2>1, <2>2, <2>3 DEF OtherEvent
<1>4. CASE xiao_zhi_event_handler
  <2>1. events # <<>> /\ events' = Tail(events) /\ post' = post
    BY <1>4 DEF xiao_zhi_event_handler
  <2>2. events' \in Seq({"xz", "other"}) /\ Len(events') = Len(events) - 1
    BY <1>c, <2>1, TailOf
  <2>3. Len(events') + (IF post' THEN 1 ELSE 0) <= MaxEvents
    BY <1>a, <1>c, <2>1, <2>2, BoundAssumption
  <2>4. cbuf # <<>> => Head(cbuf) \in Packet /\ Head(cbuf).id \in Ids
    <3>1. cbuf # <<>> => Head(cbuf) \in Packet
      BY <1>b, FirstOf
    <3> QED BY <3>1 DEF Packet
  <2>5. cbuf' = cbuf \/ (cbuf # <<>> /\ cbuf' = Tail(cbuf))
    BY <1>4 DEF xiao_zhi_event_handler
  <2>6. cbuf' \in Seq(Packet) /\ Len(cbuf') <= CbufPackets
    <3>1. CASE cbuf # <<>> /\ cbuf' = Tail(cbuf)
      <4>1. cbuf' \in Seq(Packet) /\ Len(cbuf') = Len(cbuf) - 1
        BY <1>b, <3>1, TailOf
      <4> QED BY <1>b, <4>1, BoundAssumption
    <3> QED BY <1>b, <2>5, <3>1
  <2>7. lost' \subseteq Ids
    BY <1>4, <1>e, <2>4 DEF xiao_zhi_event_handler
  <2>8. reply' = <<>> \/ (cbuf # <<>> /\ reply' = <<[id |-> Head(cbuf).id, key |-> None]>>)
    BY <1>4 DEF xiao_zhi_event_handler
  <2>9. reply' \in Seq(Answer) /\ Len(reply') <= 1
    <3>1. cbuf # <<>> => [id |-> Head(cbuf).id, key |-> None] \in Answer
      BY <2>4 DEF Answer
    <3>2. CASE reply' = <<>>
      BY <3>2
    <3>3. CASE cbuf # <<>> /\ reply' = <<[id |-> Head(cbuf).id, key |-> None]>>
      BY <3>1, <3>3, OneOf
    <3> QED BY <2>8, <3>2, <3>3
  <2>10. flash' \in BOOLEAN /\ bound' \in BOOLEAN
    BY <1>4, <1>a DEF xiao_zhi_event_handler, call_dp_response_cb, Bind, xz_ble_nv_write
  <2> QED BY <1>4, <1>a, <1>e, <1>f, <1>h, <1>i, <2>1, <2>2, <2>3, <2>6, <2>7, <2>9, <2>10
          DEF xiao_zhi_event_handler
<1>5. CASE xz_sent_encode_data
  <2>1. reply # <<>> /\ reply' = [reply EXCEPT ![1] = [reply[1] EXCEPT !.key = sbox]]
    BY <1>5 DEF xz_sent_encode_data
  <2>2. reply[1] \in Answer
    BY <1>d, <2>1, FirstOf
  <2>3. [reply[1] EXCEPT !.key = sbox] \in Answer
    BY <1>a, <2>2 DEF Answer
  <2>4. reply' \in Seq(Answer) /\ Len(reply') = Len(reply)
    BY <1>d, <2>1, <2>3
  <2> QED BY <1>5, <1>a, <1>b, <1>c, <1>d, <1>e, <1>f, <1>h, <1>i, <2>4 DEF xz_sent_encode_data
<1>6. CASE xiao_zhi_send_ack
  <2>1. reply # <<>> /\ reply' = <<>> /\ reply[1].key # None
    BY <1>6 DEF xiao_zhi_send_ack
  <2>2. reply[1] \in Ack
    <3>1. reply[1] \in Answer
      BY <1>d, <2>1, FirstOf
    <3> QED BY <2>1, <3>1 DEF Answer, Ack
  <2>3. acks' = acks \/ \E key \in Keys \union {Torn} :
                          acks' = Append(acks, [reply[1] EXCEPT !.key = key])
    BY <1>6, <1>a, <2>2 DEF xiao_zhi_send_ack, app_send_user_data, Refused, Ack
  <2>4. \A key \in Keys \union {Torn} : [reply[1] EXCEPT !.key = key] \in Ack
    BY <2>2 DEF Ack
  <2>5. acks' \in Seq(Ack)
    BY <1>f, <2>3, <2>4, AppendOf
  <2>6. reply' \in Seq(Answer) /\ Len(reply') <= 1
    BY <2>1
  <2>7. lost' \subseteq Ids
    BY <1>6, <1>e, <2>2 DEF xiao_zhi_send_ack, app_send_user_data, Refused, Ack
  <2> QED BY <1>6, <1>a, <1>b, <1>c, <1>e, <1>h, <1>i, <2>5, <2>6, <2>7 DEF xiao_zhi_send_ack
<1>7. CASE bt_ble_init
  <2>1. cbuf' \in Seq(Packet) /\ Len(cbuf') <= CbufPackets
    BY <1>7, BoundAssumption DEF bt_ble_init
  <2>2. flash' \in BOOLEAN /\ bound' \in BOOLEAN
    BY <1>7, <1>a DEF bt_ble_init, xz_ble_app_init, xz_ble_nv_read, Bind, xz_ble_nv_write
  <2> QED BY <1>7, <1>a, <1>c, <1>d, <1>e, <1>f, <1>g, <1>i, <2>1, <2>2
          DEF bt_ble_init, set_adv_enable
<1>8. CASE HCI_SUBEVENT_LE_CONNECTION_COMPLETE
  BY <1>8, <1>a, <1>b, <1>c, <1>d, <1>e, <1>f, <1>g, <1>i DEF HCI_SUBEVENT_LE_CONNECTION_COMPLETE
<1>9. CASE HCI_EVENT_DISCONNECTION_COMPLETE
  <2>1. acks' \in Seq(Ack) /\ lost' \subseteq Ids
    BY <1>9 DEF HCI_EVENT_DISCONNECTION_COMPLETE
  <2> QED BY <1>9, <1>a, <1>b, <1>c, <1>d, <1>g, <1>i, <2>1
          DEF HCI_EVENT_DISCONNECTION_COMPLETE, set_adv_enable
<1>10. CASE PhoneAcked
  <2>1. phone' = [phone EXCEPT !.wait = {c \in @ : c.id # Head(acks).id}]
    BY <1>10 DEF PhoneAcked
  <2>2. phone' \in [key : Keys, wait : SUBSET Packet]
    BY <1>e, <2>1
  <2>3. acks' \in Seq(Ack)
    BY <1>10, <1>f, TailOf DEF PhoneAcked
  <2> QED BY <1>10, <1>a, <1>b, <1>c, <1>d, <1>e, <1>h, <1>i, <2>2, <2>3 DEF PhoneAcked
<1>11. CASE PowerLoss
  <2>1. /\ cbuf' \in Seq(Packet) /\ Len(cbuf') <= CbufPackets
        /\ events' \in Seq({"xz", "other"}) /\ Len(events') <= MaxEvents
        /\ reply' \in Seq(Answer) /\ Len(reply') <= 1 /\ acks' \in Seq(Ack)
    BY <1>11, BoundAssumption DEF PowerLoss
  <2>2. Len(events') + (IF post' THEN 1 ELSE 0) <= MaxEvents
    BY <1>11, BoundAssumption DEF PowerLoss
  <2> QED BY <1>11, <1>a, <1>g, <1>i, <2>1, <2>2 DEF PowerLoss
<1>12. CASE UNCHANGED vars
  BY <1>12, <1>a, <1>b, <1>c, <1>d, <1>e, <1>f, <1>h, <1>i DEF vars
<1> QED
  BY <1>1, <1>2, <1>3, <1>4, <1>5, <1>6, <1>7, <1>8, <1>9, <1>10, <1>11, <1>12 DEF Next

(* Every reachable state of the link has its type.                          *)
THEOREM LinkTyped == Spec => []TypeOK
<1>1. LinkType => TypeOK
  BY DEF LinkType
<1> QED BY <1>1, InitType, StepType, PTL DEF Spec

-----------------------------------------------------------------------------
(* Each packet has its event: how the link's own events in the queue change *)
(* when one is posted or handled.                                           *)
LEMMA OwnCount ==
  ASSUME NEW S, NEW s \in Seq(S)
  PROVE  IsFiniteSet(OwnEvents(s)) /\ Cardinality(OwnEvents(s)) \in Nat
<1>1. OwnEvents(s) \in SUBSET (1..Len(s)) /\ Len(s) \in Nat
  BY DEF OwnEvents
<1>2. IsFiniteSet(1..Len(s))
  BY <1>1, FS_Interval
<1> QED BY <1>1, <1>2, FS_Subset, FS_CardinalityType

LEMMA OwnPosted ==
  ASSUME NEW S, NEW s \in Seq(S), NEW e \in S
  PROVE  Cardinality(OwnEvents(Append(s, e)))
           = Cardinality(OwnEvents(s)) + (IF e = "xz" THEN 1 ELSE 0)
<1> DEFINE n == Len(s) + 1
<1>1. n \notin OwnEvents(s)
  BY DEF OwnEvents
<1>2. OwnEvents(Append(s, e)) = IF e = "xz" THEN OwnEvents(s) \union {n} ELSE OwnEvents(s)
  BY AppendOf DEF OwnEvents
<1>3. IsFiniteSet(OwnEvents(s)) /\ Cardinality(OwnEvents(s)) \in Nat
  BY OwnCount
<1> HIDE DEF n
<1>4. Cardinality(OwnEvents(s) \union {n}) = Cardinality(OwnEvents(s)) + 1
  BY <1>1, <1>3, FS_AddElement
<1> QED BY <1>2, <1>3, <1>4

LEMMA OwnHandled ==
  ASSUME NEW S, NEW s \in Seq(S), s # <<>>
  PROVE  Cardinality(OwnEvents(s)) <= Cardinality(OwnEvents(Tail(s))) + 1
<1> DEFINE later == OwnEvents(s) \ {1}
           shift == [i \in OwnEvents(Tail(s)) |-> i + 1]
<1>1. Tail(s) \in Seq(S) /\ Len(Tail(s)) = Len(s) - 1
      /\ \A i \in 1..Len(Tail(s)) : Tail(s)[i] = s[i + 1]
  BY TailOf
<1>2. \A i \in OwnEvents(Tail(s)) : i + 1 \in later
  BY <1>1 DEF OwnEvents
<1>3. \A j \in later : j - 1 \in OwnEvents(Tail(s)) /\ (j - 1) + 1 = j
  BY <1>1 DEF OwnEvents
<1>4. shift \in Surjection(OwnEvents(Tail(s)), later)
  BY <1>2, <1>3 DEF Surjection
<1>5. IsFiniteSet(OwnEvents(s)) /\ Cardinality(OwnEvents(s)) \in Nat
  BY OwnCount
<1>6. IsFiniteSet(OwnEvents(Tail(s))) /\ Cardinality(OwnEvents(Tail(s))) \in Nat
  BY <1>1, OwnCount
<1> HIDE DEF later, shift
<1>7. Cardinality(later) <= Cardinality(OwnEvents(Tail(s)))
  BY <1>4, <1>6, FS_Surjection
<1>8. Cardinality(later) = IF 1 \in OwnEvents(s) THEN Cardinality(OwnEvents(s)) - 1
                           ELSE Cardinality(OwnEvents(s))
  BY <1>5, FS_RemoveElement DEF later
<1> QED BY <1>5, <1>6, <1>7, <1>8

LEMMA StepStrandsNone == LinkType /\ PacketHasEvent /\ [Next]_vars => PacketHasEvent'
<1> SUFFICES ASSUME LinkType, PacketHasEvent, [Next]_vars PROVE PacketHasEvent'
  OBVIOUS
<1> DEFINE own == Cardinality(OwnEvents(events))
<1>a. /\ cbuf \in Seq(Packet) /\ Len(cbuf) \in Nat /\ post \in BOOLEAN
      /\ events \in Seq({"xz", "other"})
  BY DEF LinkType, TypeOK
<1>b. own \in Nat
  BY <1>a, OwnCount
<1>c. Len(cbuf) <= own + (IF post THEN 1 ELSE 0)
  BY DEF PacketHasEvent
<1>d. UNCHANGED <<cbuf, post, events>> => PacketHasEvent'
  BY <1>c DEF PacketHasEvent
<1>e. cbuf' = <<>> => PacketHasEvent'
  <2> SUFFICES ASSUME cbuf' = <<>> PROVE PacketHasEvent'
    OBVIOUS
  <2>1. LinkType'
    BY StepType
  <2>2. events' \in Seq({"xz", "other"})
    BY <2>1 DEF LinkType, TypeOK
  <2>3. Cardinality(OwnEvents(events')) \in Nat
    BY <2>2, OwnCount
  <2> QED BY <2>3 DEF PacketHasEvent
<1>1. ASSUME NEW id \in Ids, NEW cmd \in Commands, NEW whole \in BOOLEAN,
         att_write_callback(id, cmd, whole)
      PROVE  PacketHasEvent'
  <2> DEFINE packet == [id |-> id, cmd |-> IF whole THEN xiaozhi_crypt(cmd) ELSE "frame"]
  <2>1. ~ post /\ events' = events /\ xz_ibuf_to_cbuf(packet)
    BY <1>1 DEF att_write_callback
  <2>2. (IF whole THEN xiaozhi_crypt(cmd) ELSE "frame") \in Contents
    BY DEF xiaozhi_crypt, Contents
  <2>3. packet \in Packet
    BY <2>2 DEF Packet
  <2> HIDE DEF packet
  <2>4. CASE UNCHANGED <<cbuf, post>>
    BY <2>1, <2>4, <1>d
  <2>5. CASE cbuf' = Append(cbuf, packet) /\ post' = TRUE
    <3>1. Len(cbuf') = Len(cbuf) + 1
      BY <1>a, <2>3, <2>5, AppendOf
    <3>2. Cardinality(OwnEvents(events')) = own
      BY <2>1
    <3> QED BY <1>a, <1>b, <1>c, <2>1, <2>5, <3>1, <3>2 DEF PacketHasEvent
  <2> QED BY <2>1, <2>4, <2>5 DEF xz_ibuf_to_cbuf
<1>2. CASE xiao_zhi_send_even
  <2>1. post /\ post' = FALSE /\ events' = Append(events, "xz") /\ cbuf' = cbuf
    BY <1>2 DEF xiao_zhi_send_even
  <2>2. Cardinality(OwnEvents(events')) = own + 1
    BY <1>a, <2>1, OwnPosted
  <2> QED BY <1>a, <1>b, <1>c, <2>1, <2>2 DEF PacketHasEvent
<1>3. CASE OtherEvent
  <2>1. post' = post /\ events' = Append(events, "other") /\ cbuf' = cbuf
    BY <1>3 DEF OtherEvent
  <2>2. Cardinality(OwnEvents(events')) = own
    BY <1>a, <1>b, <2>1, OwnPosted
  <2> QED BY <1>a, <1>b, <1>c, <2>1, <2>2 DEF PacketHasEvent
<1>4. CASE xiao_zhi_event_handler
  <2>1. events # <<>> /\ events' = Tail(events) /\ post' = post
    BY <1>4 DEF xiao_zhi_event_handler
  <2>2. (cbuf = <<>> /\ cbuf' = cbuf) \/ (cbuf # <<>> /\ cbuf' = Tail(cbuf))
    BY <1>4 DEF xiao_zhi_event_handler
  <2>3. CASE cbuf # <<>> /\ cbuf' = Tail(cbuf)
    <3>1. Len(cbuf') = Len(cbuf) - 1
      BY <1>a, <2>3, TailOf
    <3>2. own <= Cardinality(OwnEvents(events')) + 1
      BY <1>a, <2>1, OwnHandled
    <3>3. Tail(events) \in Seq({"xz", "other"})
      BY <1>a, <2>1, TailOf
    <3>4. Cardinality(OwnEvents(events')) \in Nat
      BY <2>1, <3>3, OwnCount
    <3> QED BY <1>a, <1>b, <1>c, <2>1, <3>1, <3>2, <3>4 DEF PacketHasEvent
  <2> QED BY <1>e, <2>2, <2>3
<1>5. CASE xz_sent_encode_data \/ xiao_zhi_send_ack \/ PhoneAcked
  BY <1>5, <1>d DEF xz_sent_encode_data, xiao_zhi_send_ack, PhoneAcked
<1>6. CASE HCI_SUBEVENT_LE_CONNECTION_COMPLETE \/ HCI_EVENT_DISCONNECTION_COMPLETE
  BY <1>6, <1>d DEF HCI_SUBEVENT_LE_CONNECTION_COMPLETE, HCI_EVENT_DISCONNECTION_COMPLETE
<1>7. CASE bt_ble_init \/ PowerLoss
  BY <1>7, <1>e DEF bt_ble_init, PowerLoss
<1>8. CASE UNCHANGED vars
  BY <1>8, <1>d DEF vars
<1> QED BY <1>1, <1>2, <1>3, <1>4, <1>5, <1>6, <1>7, <1>8 DEF Next

(* No packet stays in the buffer until some later command happens to move   *)
(* it, whatever events of other parts take packets away.                    *)
THEOREM NoneStranded == Spec => []PacketHasEvent
<1>1. Init => PacketHasEvent
  <2> SUFFICES ASSUME Init PROVE PacketHasEvent
    OBVIOUS
  <2>1. events \in Seq({"xz"}) /\ Len(cbuf) = 0 /\ ~ post
    BY DEF Init
  <2>2. Cardinality(OwnEvents(events)) \in Nat
    BY <2>1, OwnCount
  <2> QED BY <2>1, <2>2 DEF PacketHasEvent
<1> QED BY <1>1, InitType, StepType, StepStrandsNone, PTL DEF Spec

-----------------------------------------------------------------------------
(* Answers can be read.  An answer that is not in the phone's key is on its *)
(* way only while the phone still waits for the answer to a key change that *)
(* it gave later, and gets later.                                           *)
Awaited(id, wait) == \E c \in wait : c.id = id
NewKeyBehind(id, n, wait, on) ==
  \E d \in wait : d.cmd \in NewKeys /\ d.id # id /\ \A j \in 1..n : on[j].id # d.id
AcksBehind ==
  \A i \in 1..Len(acks) :
    acks[i].key # phone.key /\ Awaited(acks[i].id, phone.wait)
      => NewKeyBehind(acks[i].id, i, phone.wait, acks)
ReplyBehind ==
  reply # <<>> /\ reply[1].key \notin {None, phone.key} /\ Awaited(reply[1].id, phone.wait)
    => NewKeyBehind(reply[1].id, Len(acks), phone.wait, acks)
NoneWaits == ~ Connected => phone.wait = {}

AckInv == LinkType /\ KeyInv /\ NoneWaits /\ AcksBehind /\ ReplyBehind

LEMMA InvReadable == AckInv => AcksReadable
<1> SUFFICES ASSUME AckInv, NEW a \in ToSet(acks), NEW c \in phone.wait, a.id = c.id,
                    \A d \in phone.wait \ {c} : d.cmd \notin NewKeys
             PROVE  a.key = phone.key
  BY DEF AcksReadable
<1>1. acks \in Seq(Ack)
  BY DEF AckInv, LinkType, TypeOK, Ack
<1>2. PICK i \in 1..Len(acks) : a = acks[i]
  BY <1>1 DEF ToSet
<1>3. Awaited(acks[i].id, phone.wait)
  BY <1>2 DEF Awaited
<1>4. ~ NewKeyBehind(acks[i].id, i, phone.wait, acks)
  BY <1>2 DEF NewKeyBehind
<1> QED BY <1>2, <1>3, <1>4 DEF AckInv, AcksBehind

(* A command's name is none of an answer still on its way.                  *)
LEMMA NamesInUse ==
  ASSUME LinkType
  PROVE  /\ \A i \in 1..Len(acks) : acks[i].id \in InUse
         /\ reply # <<>> => reply[1].id \in InUse
         /\ \A c \in phone.wait : c.id \in InUse
<1>1. reply \in Seq(Answer) /\ acks \in Seq(Ack)
  BY DEF LinkType, TypeOK, Answer, Ack
<1>2. /\ DOMAIN (reply \o acks) = 1..(Len(reply) + Len(acks))
      /\ Len(reply) \in Nat /\ Len(acks) \in Nat
      /\ \A k \in 1..Len(reply) : (reply \o acks)[k] = reply[k]
      /\ \A i \in 1..Len(acks) : (reply \o acks)[Len(reply) + i] = acks[i]
  BY <1>1
<1>3. ASSUME NEW i \in 1..Len(acks)
      PROVE  acks[i] \in ToSet(reply \o acks)
  <2>1. Len(reply) + i \in DOMAIN (reply \o acks)
    BY <1>2
  <2> QED BY <1>2, <2>1 DEF ToSet
<1>4. ASSUME reply # <<>> PROVE reply[1] \in ToSet(reply \o acks)
  <2>1. 1 \in 1..Len(reply) /\ 1 \in DOMAIN (reply \o acks)
    BY <1>1, <1>2, <1>4, FirstOf
  <2> QED BY <1>2, <2>1 DEF ToSet
<1> QED BY <1>3, <1>4 DEF InUse

LEMMA WriteKeepsBehind ==
  ASSUME AckInv, NEW id \in Ids, NEW cmd \in Commands, NEW whole \in BOOLEAN,
         att_write_callback(id, cmd, whole)
  PROVE  NoneWaits' /\ AcksBehind' /\ ReplyBehind'
<1> DEFINE new == [id |-> id, cmd |-> cmd]
<1>1. /\ Connected /\ ble' = ble /\ acks' = acks /\ reply' = reply /\ id \notin InUse
      /\ phone' = [key |-> IF cmd \in NewKeys THEN cmd ELSE phone.key,
                   wait |-> phone.wait \union {new}]
  BY DEF att_write_callback
<1>2. phone'.wait = phone.wait \union {new} /\ (cmd \notin NewKeys => phone'.key = phone.key)
  BY <1>1
<1>3. NoneWaits'
  BY <1>1 DEF NoneWaits, Connected
<1>4. /\ \A i \in 1..Len(acks) : acks[i].id # id
      /\ reply # <<>> => reply[1].id # id
  BY <1>1, NamesInUse DEF AckInv
<1>5. new.id = id /\ new.cmd = cmd
  OBVIOUS
<1> HIDE DEF new
<1>6. \A other : other # id => (Awaited(other, phone'.wait) <=> Awaited(other, phone.wait))
  BY <1>2, <1>5 DEF Awaited
<1>7. ASSUME NEW other, other # id, NEW n \in 0..Len(acks), cmd \in NewKeys
      PROVE  NewKeyBehind(other, n, phone'.wait, acks')
  <2>1. \A j \in 1..n : acks[j].id # id
    BY <1>4, <1>7 DEF AckInv, LinkType, TypeOK
  <2> QED BY <1>1, <1>2, <1>5, <1>7, <2>1 DEF NewKeyBehind
<1>8. \A other, n : NewKeyBehind(other, n, phone.wait, acks) => NewKeyBehind(other, n, phone'.wait, acks')
  BY <1>1, <1>2 DEF NewKeyBehind
<1>a. Len(acks) \in Nat
  BY DEF AckInv, LinkType, TypeOK
<1>9. AcksBehind'
  <2> SUFFICES ASSUME NEW i \in 1..Len(acks), acks[i].key # phone'.key, Awaited(acks[i].id, phone'.wait)
               PROVE  NewKeyBehind(acks[i].id, i, phone'.wait, acks')
    BY <1>1 DEF AcksBehind
  <2>1. CASE cmd \in NewKeys
    BY <1>4, <1>7, <1>a, <2>1
  <2>2. CASE cmd \notin NewKeys
    <3>1. Awaited(acks[i].id, phone.wait) /\ acks[i].key # phone.key
      BY <1>2, <1>4, <1>6, <2>2
    <3> QED BY <1>8, <3>1 DEF AckInv, AcksBehind
  <2> QED BY <2>1, <2>2
<1>10. ReplyBehind'
  <2> SUFFICES ASSUME reply # <<>>, reply[1].key \notin {None, phone'.key}, Awaited(reply[1].id, phone'.wait)
               PROVE  NewKeyBehind(reply[1].id, Len(acks), phone'.wait, acks')
    BY <1>1 DEF ReplyBehind
  <2>1. CASE cmd \in NewKeys
    BY <1>4, <1>7, <1>a, <2>1
  <2>2. CASE cmd \notin NewKeys
    <3>1. Awaited(reply[1].id, phone.wait) /\ reply[1].key \notin {None, phone.key}
      BY <1>2, <1>4, <1>6, <2>2
    <3> QED BY <1>8, <3>1 DEF AckInv, ReplyBehind
  <2> QED BY <2>1, <2>2
<1> QED BY <1>3, <1>9, <1>10

(* The answer goes out in the key it was begun in, or the key has changed.  *)
LEMMA SendKeepsBehind ==
  ASSUME AckInv, xiao_zhi_send_ack
  PROVE  NoneWaits' /\ AcksBehind' /\ ReplyBehind'
<1>1. /\ reply # <<>> /\ reply[1].key # None /\ reply' = <<>>
      /\ phone' = phone /\ ble' = ble
  BY DEF xiao_zhi_send_ack
<1>2. NoneWaits' /\ ReplyBehind'
  BY <1>1 DEF AckInv, NoneWaits, ReplyBehind, Connected
<1>3. ASSUME acks' = acks PROVE AcksBehind'
  BY <1>1, <1>3 DEF AckInv, AcksBehind
<1>4. ASSUME Connected, NEW key, acks' = Append(acks, [reply[1] EXCEPT !.key = key]),
             reply[1].key = sbox => key = sbox
      PROVE  AcksBehind'
  <2> DEFINE a == [reply[1] EXCEPT !.key = key]
  <2>1. reply \in Seq(Answer) /\ acks \in Seq(Ack) /\ Len(acks) \in Nat
    BY DEF AckInv, LinkType, TypeOK, Answer, Ack
  <2>2. reply[1] \in Answer
    BY <1>1, <2>1, FirstOf
  <2>3. a.id = reply[1].id /\ a.key = key
    BY <2>2 DEF Answer
  <2> HIDE DEF a
  <2>4. /\ Len(acks') = Len(acks) + 1 /\ acks'[Len(acks) + 1] = a
        /\ \A i \in 1..Len(acks) : acks'[i] = acks[i]
    BY <1>4, <2>1 DEF a
  <2> SUFFICES ASSUME NEW i \in 1..(Len(acks) + 1), acks'[i].key # phone.key,
                      Awaited(acks'[i].id, phone.wait)
               PROVE  NewKeyBehind(acks'[i].id, i, phone'.wait, acks')
    BY <1>1, <2>4 DEF AcksBehind, Awaited
  <2>5. CASE i \in 1..Len(acks)
    <3>1. PICK d \in phone.wait : d.cmd \in NewKeys /\ d.id # acks[i].id
                                   /\ \A j \in 1..i : acks[j].id # d.id
      BY <2>4, <2>5 DEF AckInv, AcksBehind, NewKeyBehind
    <3>2. \A j \in 1..i : acks'[j].id # d.id
      BY <2>1, <2>4, <2>5, <3>1
    <3> QED BY <1>1, <2>4, <2>5, <3>1, <3>2 DEF NewKeyBehind
  <2>6. CASE i = Len(acks) + 1
    <3>1. sbox = phone.key
      BY <1>4 DEF AckInv, KeyInv, KeysAgree
    <3>2. reply[1].key # phone.key /\ Awaited(reply[1].id, phone.wait)
      BY <1>4, <2>3, <2>4, <2>6, <3>1
    <3>3. PICK d \in phone.wait : d.cmd \in NewKeys /\ d.id # reply[1].id
                                   /\ \A j \in 1..Len(acks) : acks[j].id # d.id
      BY <1>1, <3>2 DEF AckInv, ReplyBehind, NewKeyBehind
    <3>4. \A j \in 1..i : acks'[j].id # d.id
      BY <2>1, <2>3, <2>4, <2>6, <3>3
    <3> QED BY <1>1, <2>3, <2>4, <2>6, <3>3, <3>4 DEF NewKeyBehind
  <2> QED BY <2>1, <2>5, <2>6
<1>5. CASE acks' = acks
  BY <1>2, <1>3, <1>5
<1>6. CASE acks' # acks
  <2>1. PICK key : /\ acks' = Append(acks, [reply[1] EXCEPT !.key = key])
                   /\ Connected /\ (reply[1].key = sbox => key = sbox)
    BY <1>6 DEF xiao_zhi_send_ack, app_send_user_data, Refused
  <2> QED BY <1>2, <1>4, <1>6, <2>1
<1> QED BY <1>5, <1>6

(* What the phone gets it waits for no more, and the answer of a key change *)
(* that is behind another one is not the first.                             *)
LEMMA AckedKeepsBehind ==
  ASSUME AckInv, PhoneAcked
  PROVE  NoneWaits' /\ AcksBehind' /\ ReplyBehind'
<1>1. /\ acks # <<>> /\ acks' = Tail(acks) /\ reply' = reply /\ ble' = ble
      /\ phone' = [phone EXCEPT !.wait = {c \in @ : c.id # Head(acks).id}]
  BY DEF PhoneAcked
<1>2. acks \in Seq(Ack) /\ phone \in [key : Keys, wait : SUBSET Packet]
  BY DEF AckInv, LinkType, TypeOK, Ack
<1>3. /\ Len(acks) \in Nat /\ Len(acks') = Len(acks) - 1
      /\ \A i \in 1..Len(acks') : acks'[i] = acks[i + 1]
  BY <1>1, <1>2, TailOf
<1>4. Head(acks) = acks[1] /\ Len(acks) > 0
  BY <1>1, <1>2, FirstOf
<1>5. phone'.wait = {c \in phone.wait : c.id # acks[1].id} /\ phone'.key = phone.key
  BY <1>1, <1>2, <1>4
<1>6. NoneWaits'
  BY <1>1, <1>5 DEF AckInv, NoneWaits, Connected
<1>7. \A id : Awaited(id, phone'.wait) => Awaited(id, phone.wait)
  BY <1>5 DEF Awaited
<1>8. ASSUME NEW id, NEW n \in 1..Len(acks), NewKeyBehind(id, n, phone.wait, acks)
      PROVE  NewKeyBehind(id, n - 1, phone'.wait, acks')
  <2>1. PICK d \in phone.wait : d.cmd \in NewKeys /\ d.id # id
                                 /\ \A j \in 1..n : acks[j].id # d.id
    BY <1>8 DEF NewKeyBehind
  <2>2. d \in phone'.wait
    BY <1>3, <1>5, <2>1
  <2>3. \A j \in 1..(n - 1) : acks'[j].id # d.id
    BY <1>3, <2>1
  <2> QED BY <2>1, <2>2, <2>3 DEF NewKeyBehind
<1>9. AcksBehind'
  <2> SUFFICES ASSUME NEW i \in 1..Len(acks'), acks'[i].key # phone'.key, Awaited(acks'[i].id, phone'.wait)
               PROVE  NewKeyBehind(acks'[i].id, i, phone'.wait, acks')
    BY DEF AcksBehind
  <2>1. i + 1 \in 1..Len(acks) /\ acks'[i] = acks[i + 1] /\ (i + 1) - 1 = i
    BY <1>3
  <2>2. NewKeyBehind(acks[i + 1].id, i + 1, phone.wait, acks)
    BY <1>5, <1>7, <2>1 DEF AckInv, AcksBehind
  <2>3. NewKeyBehind(acks[i + 1].id, (i + 1) - 1, phone'.wait, acks')
    BY <1>8, <2>1, <2>2
  <2> QED BY <2>1, <2>3
<1>10. ReplyBehind'
  <2> SUFFICES ASSUME reply # <<>>, reply[1].key \notin {None, phone.key}, Awaited(reply[1].id, phone'.wait)
               PROVE  NewKeyBehind(reply[1].id, Len(acks'), phone'.wait, acks')
    BY <1>1, <1>5 DEF ReplyBehind
  <2>1. NewKeyBehind(reply[1].id, Len(acks), phone.wait, acks)
    BY <1>7 DEF AckInv, ReplyBehind
  <2> QED BY <1>3, <1>4, <1>8, <2>1
<1> QED BY <1>6, <1>9, <1>10

LEMMA StepReadable == AckInv /\ [Next]_vars => AckInv'
<1> SUFFICES ASSUME AckInv, [Next]_vars PROVE NoneWaits' /\ AcksBehind' /\ ReplyBehind'
  BY StepType, StepKeepsKeys DEF AckInv
<1>a. ASSUME phone'.wait = {} PROVE NoneWaits' /\ AcksBehind' /\ ReplyBehind'
  BY <1>a DEF NoneWaits, AcksBehind, ReplyBehind, Awaited
<1>b. ASSUME UNCHANGED <<phone, acks>>, Connected' <=> Connected,
             reply' # <<>> => reply'[1].key \in {None, phone.key} \/ reply' = reply
      PROVE  NoneWaits' /\ AcksBehind' /\ ReplyBehind'
  <2>1. CASE Connected
    <3>1. NoneWaits'
      BY <1>b DEF AckInv, NoneWaits
    <3>2. AcksBehind'
      BY <1>b DEF AckInv, AcksBehind
    <3>3. ReplyBehind'
      BY <1>b DEF AckInv, ReplyBehind
    <3> QED BY <3>1, <3>2, <3>3
  <2>2. CASE ~ Connected
    BY <1>a, <1>b, <2>2 DEF AckInv, NoneWaits
  <2> QED BY <2>1, <2>2
<1>c. NoPhone.wait = {}
  BY DEF NoPhone
<1>1. CASE \E id \in Ids, cmd \in Commands, whole \in BOOLEAN : att_write_callback(id, cmd, whole)
  BY <1>1, WriteKeepsBehind
<1>2. CASE xiao_zhi_send_even \/ OtherEvent
  BY <1>2, <1>b DEF xiao_zhi_send_even, OtherEvent, Connected
<1>3. CASE xiao_zhi_event_handler
  <2>1. UNCHANGED <<phone, acks, ble>>
    BY <1>3 DEF xiao_zhi_event_handler
  <2>2. reply' = reply \/ reply' = <<[id |-> Head(cbuf).id, key |-> None]>>
    BY <1>3 DEF xiao_zhi_event_handler
  <2> QED BY <1>b, <2>1, <2>2 DEF Connected
<1>4. CASE xz_sent_encode_data
  <2>1. UNCHANGED <<phone, acks, ble>> /\ reply # <<>>
        /\ reply' = [reply EXCEPT ![1] = [reply[1] EXCEPT !.key = sbox]]
    BY <1>4 DEF xz_sent_encode_data
  <2>2. reply \in Seq(Answer)
    BY DEF AckInv, LinkType, TypeOK, Answer
  <2>3. reply[1] \in Answer /\ Len(reply) > 0
    BY <2>1, <2>2, FirstOf
  <2>4. reply'[1] = [reply[1] EXCEPT !.key = sbox]
    BY <2>1, <2>2, <2>3
  <2>5. reply'[1].key = sbox
    BY <2>3, <2>4 DEF Answer
  <2>6. CASE Connected
    <3>1. sbox = phone.key
      BY <2>6 DEF AckInv, KeyInv, KeysAgree
    <3> QED BY <1>b, <2>1, <2>5, <2>6, <3>1 DEF Connected
  <2>7. CASE ~ Connected
    BY <1>a, <2>1, <2>7 DEF AckInv, NoneWaits
  <2> QED BY <2>6, <2>7
<1>5. CASE xiao_zhi_send_ack
  BY <1>5, SendKeepsBehind
<1>6. CASE bt_ble_init
  BY <1>6, <1>b DEF bt_ble_init, set_adv_enable, Connected
<1>7. CASE HCI_SUBEVENT_LE_CONNECTION_COMPLETE
  BY <1>7, <1>a, <1>c DEF HCI_SUBEVENT_LE_CONNECTION_COMPLETE
<1>8. CASE HCI_EVENT_DISCONNECTION_COMPLETE
  BY <1>8, <1>a, <1>c DEF HCI_EVENT_DISCONNECTION_COMPLETE
<1>9. CASE PhoneAcked
  BY <1>9, AckedKeepsBehind
<1>10. CASE PowerLoss
  BY <1>10, <1>a, <1>c DEF PowerLoss
<1>11. CASE UNCHANGED vars
  BY <1>11, <1>b DEF vars, Connected
<1> QED
  BY <1>1, <1>2, <1>3, <1>4, <1>5, <1>6, <1>7, <1>8, <1>9, <1>10, <1>11 DEF Next

(* The answer to a command can be read with the key the phone has, unless   *)
(* the phone is changing the key while the command is unanswered; also when *)
(* the two tasks' steps, lost packets and lost connections come in between. *)
THEOREM AnswersReadable == Spec => []AcksReadable
<1>1. Init => AckInv
  <2> SUFFICES ASSUME Init PROVE NoneWaits /\ AcksBehind /\ ReplyBehind
    BY InitType, InitKeys DEF AckInv
  <2> QED BY DEF Init, NoneWaits, AcksBehind, ReplyBehind, NoPhone
<1> QED BY <1>1, InvReadable, StepReadable, PTL DEF Spec

-----------------------------------------------------------------------------
(* The binding: no write of the flash reports an error.                     *)
Writes == ~ WritesMayFail

LEMMA StepSaves == ASSUME Writes, BindingSaved, [Next]_vars PROVE BindingSaved'
<1>a. UNCHANGED <<flash, bound, ble>> => BindingSaved'
  BY DEF BindingSaved
<1>b. ASSUME NEW val, Bind(val) PROVE flash' = bound'
  BY <1>b DEF Bind, xz_ble_nv_write, Writes
<1>1. CASE \E id \in Ids, cmd \in Commands, whole \in BOOLEAN : att_write_callback(id, cmd, whole)
  BY <1>1, <1>a DEF att_write_callback
<1>2. CASE xiao_zhi_send_even \/ OtherEvent \/ xz_sent_encode_data \/ xiao_zhi_send_ack \/ PhoneAcked
  BY <1>2, <1>a DEF xiao_zhi_send_even, OtherEvent, xz_sent_encode_data, xiao_zhi_send_ack,
                    PhoneAcked
<1>3. CASE xiao_zhi_event_handler
  <2>1. ble' = ble
    BY <1>3 DEF xiao_zhi_event_handler
  <2>2. UNCHANGED <<flash, bound>> \/ Bind(Head(cbuf).cmd = "bind")
    BY <1>3 DEF xiao_zhi_event_handler, call_dp_response_cb
  <2>3. CASE Bind(Head(cbuf).cmd = "bind")
    BY <1>b, <2>3 DEF BindingSaved
  <2> QED BY <1>a, <2>1, <2>2, <2>3
<1>4. CASE bt_ble_init
  <2>1. Bind(FALSE)
    BY <1>4 DEF bt_ble_init, xz_ble_app_init, xz_ble_nv_read
  <2> QED BY <1>b, <2>1 DEF BindingSaved
<1>5. CASE HCI_SUBEVENT_LE_CONNECTION_COMPLETE
  BY <1>5 DEF HCI_SUBEVENT_LE_CONNECTION_COMPLETE, BindingSaved
<1>6. CASE HCI_EVENT_DISCONNECTION_COMPLETE
  BY <1>6 DEF HCI_EVENT_DISCONNECTION_COMPLETE, Connected, BindingSaved
<1>7. CASE PowerLoss
  BY <1>7 DEF PowerLoss, BindingSaved
<1>8. CASE UNCHANGED vars
  BY <1>8, <1>a DEF vars
<1> QED BY <1>1, <1>2, <1>3, <1>4, <1>5, <1>6, <1>7, <1>8 DEF Next

(* With flash writes that succeed, the record in the flash says of the      *)
(* binding what the device tells the phone, wherever a connection or the    *)
(* power is lost.                                                           *)
THEOREM BindingsSaved == ASSUME Writes PROVE Spec => []BindingSaved
<1>1. Init => BindingSaved
  BY DEF Init, BindingSaved
<1>2. BindingSaved /\ [Next]_vars => BindingSaved'
  BY StepSaves
<1> QED BY <1>1, <1>2, PTL DEF Spec
=============================================================================
