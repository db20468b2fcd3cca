--------------------------- MODULE RemoteIdPython ---------------------------
(***************************************************************************)
(* The same bytes in Python (odid_decode.py, wifi_remote_id.py), which the *)
(* Raspberry Pi runs, and what the two implementations promise each other: *)
(* "a disagreement about what a message says would be indistinguishable    *)
(* from a difference in what each one heard" (odid_decode.h).              *)
(***************************************************************************)
EXTENDS RemoteId

\* extract_odid_message: on from the byte after a signature that is cut off.
extract_odid_message(data) ==
  LET hits(start) == {i \in Offsets(ODID_BLE_SIGNATURE, data) : i >= start}
      msg(i) == Slice(data, i + 4, i + 4 + ODID_MESSAGE_SIZE)
      found[start \in 0..Len(data)] ==
        IF hits(start) = {} THEN {}
        ELSE LET i == Min(hits(start))
             IN  IF Len(msg(i)) = ODID_MESSAGE_SIZE THEN {msg(i)} ELSE found[i + 1]
  IN  found[0]

extract_rid_payload(dot11) ==
  LET beacon == Offsets(WIFI_RID_BEACON_SIGNATURE, dot11)
      after == Min(Offsets(WIFI_RID_NAN_SERVICE_ID, dot11)) + 6
  IN  CASE beacon # {} -> {From(dot11, Min(beacon) + 4 + 1)}
        [] beacon = {} /\ Offsets(WIFI_RID_NAN_SERVICE_ID, dot11) # {} ->
             IF Len(dot11) > after + 4 THEN {From(dot11, after + 4 + 1)} ELSE {}
        [] OTHER -> {}

\* struct.unpack: little-endian and two's complement.
unpack_i(bytes) ==
  LET value(b) == b[1] + 256 * b[2] + 65536 * b[3] + 16777216 * b[4]
  IN  IF bytes[4] < 128 THEN value(bytes)
      ELSE -1 - value([k \in 1..4 |-> 255 - bytes[k]])
unpack_H(bytes) == bytes[1] + 256 * bytes[2]

\* round(hundredths / 100, 1): the nearest tenth, the even one of two.
Round(hundredths) ==
  LET distance(t) == IF 10 * t > hundredths THEN 10 * t - hundredths ELSE hundredths - 10 * t
      around == (hundredths \div 10)..(hundredths \div 10 + 1)
      nearest == {t \in around : \A s \in around : distance(t) <= distance(s)}
  IN  CHOOSE t \in nearest : nearest = {t} \/ t % 2 = 0

Metres(encoded) == encoded * 5 - 10000

decode_location(msg) ==
  LET bit(weight) == (At(msg, 1) \div weight) % 2
      lat == unpack_i(Slice(msg, 5, 9))
      lon == unpack_i(Slice(msg, 9, 13))
      baro == unpack_H(Slice(msg, 13, 15))
      geo == unpack_H(Slice(msg, 15, 17))
      height == unpack_H(Slice(msg, 17, 19))
      absolute == IF geo # 0 THEN geo ELSE baro
      vspeed == unpack_i(<<0, 0, 0, At(msg, 4)>>) \div 16777216
  IN  IF {lat, lon} = {0} THEN {}
      ELSE {[lat |-> lat, lon |-> lon,
             speed |-> Round(IF bit(1) = 1 THEN 6375 + At(msg, 3) * 75 ELSE At(msg, 3) * 25),
             vspeed |-> vspeed * 5,
             direction |-> At(msg, 2) + 180 * bit(2),
             altitude |-> IF height # 0 THEN {<<Metres(height), "agl">>}
                          ELSE {<<Metres(a), "absolute">> : a \in {absolute} \ {0}},
             height |-> {<<Metres(h), <<"takeoff", "ground">>[bit(4) + 1]>> : h \in {height} \ {0}}]}

decode_system(msg) ==
  LET lat == unpack_i(Slice(msg, 2, 6))
      lon == unpack_i(Slice(msg, 6, 10))
  IN  IF {lat, lon} = {0} THEN {}
      ELSE {[lat |-> lat, lon |-> lon, altitude |-> Metres(unpack_H(Slice(msg, 18, 20))),
             type |-> At(msg, 1) % 4]}

\* errors='ignore' drops what is not ASCII, strip() what is white; an empty name is "N/A".
Ascii(text) == FoldLeft(LAMBDA kept, byte : IF byte < 128 THEN Append(kept, byte) ELSE kept, <<>>, text)
Whitespace == 9..13 \cup 28..32
NotAvailable == <<78, 47, 65>>
decode_basic_id(msg) ==
  LET uas_id == Strip(Ascii(UntilNul(Slice(msg, 2, 22))), Whitespace)
  IN  IF HasControl(uas_id) THEN {}
      ELSE {[uas_id |-> IF uas_id = <<>> THEN NotAvailable ELSE uas_id, ua_type |-> At(msg, 1) % 16]}

\* decode_message_pack and decode_odid_payload: "merged.update(fields)".
decode_message_pack(data) ==
  IF \/ Len(data) < 3 \/ At(data, 0) < 240
     \/ At(data, 1) # 25 \/ At(data, 2) = 0 \/ At(data, 2) > 9
     \/ Len(From(data, 3)) < At(data, 2) * 25
  THEN <<>>
  ELSE [i \in 1..At(data, 2) |-> Slice(From(data, 3), (i - 1) * 25, i * 25)]
Update(fields, msg) ==
  CASE Len(msg) # ODID_MESSAGE_SIZE -> fields
    [] Len(msg) = ODID_MESSAGE_SIZE /\ odid_message_type(msg) = 0 ->
         [fields EXCEPT !.id = Or(decode_basic_id(msg), @)]
    [] Len(msg) = ODID_MESSAGE_SIZE /\ odid_message_type(msg) = 1 ->
         [fields EXCEPT !.location = Or(decode_location(msg), @)]
    [] OTHER -> fields
decode_odid_payload(data) ==
  FoldLeft(Update, [id |-> {}, location |-> {}],
           CASE data = <<>> -> <<>>
             [] data # <<>> /\ odid_message_type(data) = 15 -> decode_message_pack(data)
             [] OTHER -> <<Slice(data, 0, ODID_MESSAGE_SIZE)>>)

-----------------------------------------------------------------------------
(* Where the two agree.                                                    *)

CONSTANTS
  Locations,  \* messages read as Location and as System messages
  Names,      \* Basic ID messages
  Reports,    \* the data of advertising reports
  Frames      \* 802.11 frames

LocationsAgree == \A msg \in Locations : odid_decode_location(msg) = decode_location(msg)
SystemsAgree == \A msg \in Locations : odid_decode_system(msg) = decode_system(msg)

\* The names in which every byte is text, or padding; "N/A" says that there is none.
IsText(msg) == \A i \in 2..21 : At(msg, i) \in {0, 9} \cup 32..126
Named(ids) == {id \in ids : id.uas_id # NotAvailable}
TextsAgree == \A msg \in Names : IsText(msg) => odid_decode_basic_id(msg) = Named(decode_basic_id(msg))

\* Which messages are rejected, text or not.
RejectionsAgree ==
  \A msg \in Names : odid_decode_basic_id(msg) = {} <=> Named(decode_basic_id(msg)) = {}

ReportsAgree == \A data \in Reports : odid_ble_extract(data) = extract_odid_message(data)

\* What both take from a frame: a name, a position with its speed, an altitude, a height.
FullLabel(ua_type) == <<ua_type, LabelLength[ua_type + 1]>>
Shared(fields) ==
  [id |-> {[uas_id |-> id.uas_id, ua_type |-> FullLabel(id.ua_type)] : id \in Named(fields.id)},
   position |-> {<<l.lat, l.lon, l.speed>> : l \in fields.location},
   altitude |-> UNION {l.altitude : l \in fields.location},
   height |-> UNION {l.height : l \in fields.location}]
FrameFields(frame) ==
  {Shared(decode_odid_payload(data)) : data \in extract_rid_payload(frame)} \ {Nothing}

\* No frame says twice who, or where.
SaysOnce(frame) ==
  \A payload \in wifi_rid_payload(frame) : \A type \in {0, 1} :
    Cardinality({i \in DOMAIN Messages(payload) : odid_message_type(Messages(payload)[i]) = type}) <= 1

FramesAgree == \A frame \in Frames : SaysOnce(frame) => FrameContact(frame) = FrameFields(frame)
PacksAgree == \A frame \in Frames : FrameContact(frame) = FrameFields(frame)

-----------------------------------------------------------------------------
(* The inputs on which they have to.                                       *)

Byte == 0..255
Message == {msg \in Seq(Byte) : Len(msg) = ODID_MESSAGE_SIZE}

\* Basic ID messages that both read: in text, and not "N/A", which is Python's for none.
Legible(msg) ==
  /\ IsText(msg)
  /\ \A id \in odid_decode_basic_id(msg) : id.uas_id # NotAvailable

\* A name is said in text, by an aircraft whose type has a label that fits its field: that
\* of type 13 does not.
Readable(msg) == odid_message_type(msg) = 0 => Legible(msg) /\ At(msg, 1) % 16 # 13

\* Any bytes at all, except in names: text that does not spell out what the Pi shows for
\* no name, of an aircraft whose type's label fits.
ReadableInputs ==
  /\ Locations \subseteq Message
  /\ Names \subseteq Message /\ \A msg \in Names : IsText(msg) => Legible(msg)
  /\ Reports \subseteq Seq(Byte)
  /\ Frames \subseteq Seq(Byte)
  /\ \A frame \in Frames : \A payload \in wifi_rid_payload(frame) :
       \A k \in DOMAIN Messages(payload) : Readable(Messages(payload)[k])
=============================================================================
