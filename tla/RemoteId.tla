------------------------------ MODULE RemoteId ------------------------------
(***************************************************************************)
(* ASTM F3411 Remote ID in C: from the bytes that a radio hands over to    *)
(* the fields of a contact (firmware/odid_decode.c, odid_ble.c,            *)
(* wifi_rid.c, and the loop over a frame in wifi_capture.c).               *)
(*                                                                         *)
(* A byte string is a sequence of 0..255.  A value that may be absent is a *)
(* set of at most one.  Coordinates are in 1e-7 degrees, altitudes and     *)
(* speeds in tenths, so that nothing is rounded but what the code rounds.  *)
(***************************************************************************)
EXTENDS Integers, Sequences, FiniteSetsExt, SequencesExt

\* The byte at offset i; data[i:j], which ends where the data does; data[i:].
At(data, i) == data[i + 1]
Slice(data, i, j) == SubSeq(data, i + 1, IF j < Len(data) THEN j ELSE Len(data))
From(data, i) == SubSeq(data, i + 1, Len(data))

\* The offsets at which a signature occurs.
Offsets(signature, data) ==
  {i \in 0..(Len(data) - Len(signature)) : Slice(data, i, i + Len(signature)) = signature}

ODID_MESSAGE_SIZE == 25
ODID_PACK_MAX_MESSAGES == 9
ODID_BLE_SIGNATURE == <<250, 255, 13>>
WIFI_RID_BEACON_SIGNATURE == <<250, 11, 188, 13>>
WIFI_RID_NAN_SERVICE_ID == <<136, 105, 25, 157, 146, 9>>

odid_message_type(msg) == At(msg, 0) \div 16

-----------------------------------------------------------------------------
(* Framing: where the messages are.                                        *)

\* The message after the first signature and counter that a whole message follows.
odid_ble_extract(data) ==
  LET starts == {i + 4 : i \in Offsets(ODID_BLE_SIGNATURE, data)}
      whole == {i \in starts : i + ODID_MESSAGE_SIZE <= Len(data)}
  IN  IF whole = {} THEN {} ELSE {Slice(data, Min(whole), Min(whole) + ODID_MESSAGE_SIZE)}

\* What follows the counter, when anything does.
After(frame, start) == IF start >= Len(frame) THEN {} ELSE {From(frame, start)}

\* A beacon's vendor element, or else a NaN service descriptor.
wifi_rid_payload(frame) ==
  LET beacon == Offsets(WIFI_RID_BEACON_SIGNATURE, frame)
      nan == Offsets(WIFI_RID_NAN_SERVICE_ID, frame)
  IN  CASE beacon # {} -> After(frame, Min(beacon) + 4 + 1)
        [] beacon = {} /\ nan # {} -> After(frame, Min(nan) + 6 + 4 + 1)
        [] OTHER -> {}

wifi_rid_transmitter(frame) == IF Len(frame) < 16 THEN {} ELSE {Slice(frame, 10, 16)}

\* A pack says how large its messages are and how many there are, and holds them all.
AnySize(data) ==
  /\ Len(data) >= 3
  /\ odid_message_type(data) = 15
  /\ At(data, 2) \in 1..ODID_PACK_MAX_MESSAGES
  /\ Len(data) >= 3 + At(data, 2) * ODID_MESSAGE_SIZE
IsPack(data) ==
  /\ Len(data) >= 3
  /\ odid_message_type(data) = 15
  /\ At(data, 1) = ODID_MESSAGE_SIZE
  /\ At(data, 2) \in 1..ODID_PACK_MAX_MESSAGES
  /\ Len(data) >= 3 + At(data, 2) * At(data, 1)

odid_pack_split(data) ==
  IF ~ IsPack(data) THEN <<>>
  ELSE [n \in 1..At(data, 2) |->
          Slice(data, 3 + (n - 1) * ODID_MESSAGE_SIZE, 3 + n * ODID_MESSAGE_SIZE)]

\* on_frame: a single message rather than a pack is legal too.
Messages(payload) ==
  LET pack == odid_pack_split(payload)
  IN  IF pack = <<>> /\ Len(payload) >= ODID_MESSAGE_SIZE
      THEN <<Slice(payload, 0, ODID_MESSAGE_SIZE)>> ELSE pack

-----------------------------------------------------------------------------
(* Numbers.                                                                *)

Signed(byte) == IF byte < 128 THEN byte ELSE byte - 256

\* Little-endian.  The sign of a 32-bit number is in its highest byte.
read_u16(msg, i) == At(msg, i) + 256 * At(msg, i + 1)
read_i32(msg, i) == read_u16(msg, i) + 65536 * At(msg, i + 2) + 16777216 * Signed(At(msg, i + 3))

\* From hundredths to tenths: half away from zero, half to even.
HalfAway(hundredths) == (hundredths + 5) \div 10
round_to(hundredths) ==
  LET down == hundredths \div 10
  IN  CASE hundredths % 10 < 5 -> down
        [] hundredths % 10 = 5 -> down + (down % 2)
        [] OTHER -> down + 1

\* Half-metre steps from -1000 m.
altitude_from(encoded) == 5 * encoded - 10000

-----------------------------------------------------------------------------
(* Messages.                                                               *)

\* byte & mask, for a mask of one bit.
Flag(byte, mask) == (byte \div mask) % 2 = 1

odid_decode_location(msg) ==
  LET byte1 == At(msg, 1)
      lat == read_i32(msg, 5)
      lon == read_i32(msg, 9)
      baro == read_u16(msg, 13)
      geo == read_u16(msg, 15)
      height == read_u16(msg, 17)
  IN  IF lat = 0 /\ lon = 0 THEN {}
      ELSE {[lat |-> lat, lon |-> lon,
             speed |-> round_to(IF Flag(byte1, 1) THEN 255 * 25 + At(msg, 3) * 75
                                ELSE At(msg, 3) * 25),
             vspeed |-> 5 * Signed(At(msg, 4)),
             direction |-> At(msg, 2) + (IF Flag(byte1, 2) THEN 180 ELSE 0),
             altitude |-> CASE height # 0 -> {<<altitude_from(height), "agl">>}
                            [] height = 0 /\ geo # 0 -> {<<altitude_from(geo), "absolute">>}
                            [] height = 0 /\ geo = 0 /\ baro # 0 ->
                                 {<<altitude_from(baro), "absolute">>}
                            [] OTHER -> {},
             height |-> IF height = 0 THEN {}
                        ELSE {<<altitude_from(height),
                                IF Flag(byte1, 4) THEN "ground" ELSE "takeoff">>}]}

odid_decode_system(msg) ==
  LET lat == read_i32(msg, 2)
      lon == read_i32(msg, 6)
  IN  IF lat = 0 /\ lon = 0 THEN {}
      ELSE {[lat |-> lat, lon |-> lon, altitude |-> altitude_from(read_u16(msg, 18)),
             type |-> At(msg, 1) % 4]}

\* The text of a name: NUL padded, blanks stripped from both ends.
UntilNul(text) ==
  LET nuls == {i \in DOMAIN text : text[i] = 0}
  IN  IF nuls = {} THEN text ELSE SubSeq(text, 1, Min(nuls) - 1)
Strip(text, blanks) ==
  LET ink == {i \in DOMAIN text : text[i] \notin blanks}
  IN  IF ink = {} THEN <<>> ELSE SubSeq(text, Min(ink), Max(ink))

HasControl(text) == \E i \in DOMAIN text : text[i] < 32 \/ text[i] = 127

odid_decode_basic_id(msg) ==
  LET uas_id == Strip(UntilNul(Slice(msg, 2, 22)), {9, 32})
  IN  IF uas_id = <<>> \/ HasControl(uas_id) THEN {}
      ELSE {[uas_id |-> uas_id, ua_type |-> At(msg, 1) % 16]}

-----------------------------------------------------------------------------
(* The contact of one frame.                                               *)

\* odid_ua_type_label, in the 23 characters of the field that it is copied to.
LabelLength == <<15, 9, 21, 9, 11, 11, 6, 4, 12, 15, 7, 19, 6, 25, 15, 5>>
Label(ua_type) == <<ua_type, Min({LabelLength[ua_type + 1], 23})>>

Nothing == [id |-> {}, position |-> {}, altitude |-> {}, height |-> {}]

\* A message that does not say a thing leaves what an earlier one said of it.
Or(new, old) == IF new = {} THEN old ELSE new

Merge(contact, msg) ==
  LET id == {[uas_id |-> i.uas_id, ua_type |-> Label(i.ua_type)] : i \in odid_decode_basic_id(msg)}
      location == odid_decode_location(msg)
  IN  CASE odid_message_type(msg) = 0 -> [contact EXCEPT !.id = Or(id, @)]
        [] odid_message_type(msg) = 1 ->
             [contact EXCEPT
                !.position = Or({<<l.lat, l.lon, l.speed>> : l \in location}, @),
                !.altitude = Or(UNION {l.altitude : l \in location}, @),
                !.height = Or(UNION {l.height : l \in location}, @)]
        [] OTHER -> contact

\* on_frame, up to the identity cache; report_detection does as much for one message.
Contact(messages) == FoldLeft(Merge, Nothing, messages)
FrameContact(frame) ==
  {Contact(Messages(payload)) : payload \in wifi_rid_payload(frame)} \ {Nothing}
=============================================================================
