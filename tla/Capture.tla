------------------------------ MODULE Capture -------------------------------
(***************************************************************************)
(* What an ESP32 board makes of what its radio hands over: gap_callback    *)
(* and report_detection on the Bluetooth board (main.c), on_frame on the   *)
(* Wi-Fi board (wifi_capture.c).  The bytes are taken apart by RemoteId,   *)
(* and a contact that does not say who it is takes its name from the       *)
(* identity cache of IdentitySlots.                                        *)
(***************************************************************************)
EXTENDS IdentitySlots, RemoteIdPython

CONSTANTS
  Address,  \* mac -> its six bytes
  Text,     \* UAS ID, or NA -> its characters
  Basic,    \* UAS ID, or NA -> a Basic ID message that carries it
  Others    \* messages that carry no name

Sent == {Basic[u] : u \in Uas \cup {NA}} \cup Others

\* What the constants stand for: addresses in which a beacon's signature does not
\* occur, Basic IDs that spell names, a different one for each ID, and nothing else that does.
Spelled ==
  /\ \A m \in Macs : /\ Address[m] \in Seq(Byte) /\ Len(Address[m]) = 6
                     /\ Offsets(WIFI_RID_BEACON_SIGNATURE, Address[m]) = {}
  /\ \A u \in Uas \cup {NA} :
       /\ Basic[u] \in Message /\ odid_message_type(Basic[u]) = 0
       /\ {id.uas_id : id \in odid_decode_basic_id(Basic[u])} = {Text[u]}
  /\ \A u, v \in Uas \cup {NA} : Text[u] = Text[v] => u = v
  /\ Others \subseteq Message
  /\ \A msg \in Others : odid_message_type(msg) = 0 => odid_decode_basic_id(msg) = {}

VARIABLE role   \* CIELOTRACK_ROLE_WIFI

vars == <<slotVars, role>>

\* The bytes around a message: the advertisement's flags, or the 802.11 header.
Advertisement(msg) == <<2, 1, 6, 30, 22>> \o ODID_BLE_SIGNATURE \o <<0>> \o msg
Beacon(mac, messages) ==
  [i \in 1..10 |-> 255] \o mac \o <<221, 30>> \o WIFI_RID_BEACON_SIGNATURE \o <<0>>
  \o <<240, ODID_MESSAGE_SIZE, Len(messages)>> \o FoldLeft(LAMBDA s, msg : s \o msg, <<>>, messages)

\* The names that messages carry.
Carried(messages) == {u \in Uas \cup {NA} : \E i \in DOMAIN messages : messages[i] = Basic[u]}

\* What can be heard, and the contact it is decoded to: an advertising report is one
\* message, a frame one or two.
Advertised ==
  UNION {{[mac |-> mac, carried |-> Carried(<<msg>>), contact |-> Contact(<<message>>)] :
            message \in odid_ble_extract(Advertisement(msg))} : mac \in Macs, msg \in Sent}
Framed ==
  UNION {{[mac |-> m, carried |-> Carried(messages), contact |-> contact] :
            m \in {n \in Macs : Address[n] \in wifi_rid_transmitter(Beacon(Address[mac], messages))},
            contact \in FrameContact(Beacon(Address[mac], messages))} :
         mac \in Macs, messages \in {<<msg>> : msg \in Sent} \cup (Sent \X Sent)}
Heardable == IF role = "ble" THEN Advertised ELSE Framed

-----------------------------------------------------------------------------
(* The contact that is queued: named by its own Basic ID or by the cache.  *)

NamesOf(contact) == {u \in Uas \cup {NA} : \E id \in contact.id : id.uas_id = Text[u]}

Unmarked(h) == [uas_id |-> NamesOf(h.contact) \cup identity_recall(h.mac), inferred |-> FALSE]
Queued(h) ==
  IF h.contact.id # {}
  THEN [uas_id |-> NamesOf(h.contact), inferred |-> FALSE]
  ELSE [uas_id |-> identity_recall(h.mac), inferred |-> identity_recall(h.mac) # {}]

Hear(h) ==
  /\ h.contact # Nothing
  /\ \E u \in NamesOf(h.contact) : identity_remember(h.mac, u)
  /\ UNCHANGED <<clocks, role>>

Init == InitSlots /\ role \in {"ble", "wifi"}

Next == \/ \E h \in Heardable : Hear(h)
        \/ (Tick \/ ClockSet) /\ UNCHANGED role

Spec == Init /\ [][Next]_vars

-----------------------------------------------------------------------------
(* Properties.                                                             *)

\* What is queued says only what was heard: a name that the same report or frame carried,
\* or else one that is marked as inferred and was decoded from the same address before.
SaysWhatItHeard ==
  \A h \in Heardable : \A u \in Queued(h).uas_id :
    IF Queued(h).inferred THEN h.carried = {} /\ u \in Heard(h.mac) ELSE u \in h.carried

\* A board and a Raspberry Pi hear the same thing.  A message means the same to both: every
\* coordinate, altitude, speed and direction, and every name written in the characters that
\* a serial has.
MessagesAgree == LocationsAgree /\ TextsAgree /\ (role = "ble" => SystemsAgree)

\* And so do the bytes a radio hands over, whatever comes before, after or instead of the
\* messages: neither takes for a message what the other does not.
BytesAgree == IF role = "ble" THEN ReportsAgree ELSE FramesAgree
DecodersAgree == MessagesAgree /\ BytesAgree
=============================================================================
