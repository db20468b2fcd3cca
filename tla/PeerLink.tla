----------------------------- MODULE PeerLink ------------------------------
(***************************************************************************)
(* Two ESP32 boards: the sensor listens to Wi-Fi Remote ID and writes each *)
(* contact as one line on a wire; the master reads the wire, collects the  *)
(* contacts as text and posts them for it (firmware/esp32/main/            *)
(* peer_link.c, uplink.c, main.c).                                         *)
(*                                                                         *)
(* On the master, master_task fills the batch and reporting_task empties   *)
(* it, under peer_lock.  A line is a head, with its kind and the checksum, *)
(* the JSON that the checksum covers, and a newline; the wire may lose or  *)
(* garble any of the three.  The wire, the master's network and the server *)
(* are external.                                                           *)
(***************************************************************************)
EXTENDS Naturals, Sequences, FiniteSets

CONSTANTS
  LineRoom,    \* PEER_LINK_MAX_LINE, in tokens
  BatchRoom,   \* contacts that fit in peer_batch
  Missed,      \* status intervals without a line after which the sensor is down: 3
  MaxLines,    \* lines the sensor writes (a bound)
  MaxOnWire,   \* tokens on the wire at once (a bound)
  MaxFaults,   \* bytes lost or garbled, posts that fail, networks lost (a bound)
  NOISE, NL

Kinds == {"CT1D", "CT1S"}
Heads == [n : 1..MaxLines, kind : Kinds \cup {"other"}]
Jsons == [n : 1..MaxLines, json : Kinds]
Bytes == Heads \cup Jsons \cup {NOISE, NL}

ASSUME PeerLinkAssumption ==
  /\ LineRoom \in Nat /\ LineRoom >= 2
  /\ BatchRoom \in Nat \ {0} /\ Missed \in Nat \ {0}
  /\ MaxLines \in Nat /\ MaxOnWire \in Nat /\ MaxFaults \in Nat
  /\ NOISE # NL /\ {NOISE, NL} \cap (Heads \cup Jsons) = {}

VARIABLES
  sent,         \* lines written by the sensor
  wire,
  line,         \* what master_task has read of the current line
  forwarding,   \* the contact in uplink_forward_peer_contact, or 0
  silence,      \* status intervals since last_heard_us; Missed if never
  errors,       \* bad_crc + bad_frame
  peer_batch,   \* the contacts counted by peer_count, and the text behind them
  reporting,    \* reporting_task, and the contacts and text of its request
  ready,        \* uplink_ready
  received,     \* contacts the server has stored for the sensor
  told,         \* what the peer's last heartbeat said of the link
  good,         \* lines that handle_line has taken for what they are
  overflowed,   \* whether a contact did not fit in peer_batch
  faults,
  damage        \* how many of them were on the wire

sensor == <<sent, wire, damage>>
master == <<line, forwarding, silence, errors, good>>
uplink == <<reporting, ready, received, told>>
linkVars == <<sensor, master, peer_batch, uplink, overflowed, faults>>

\* The text behind the counted contacts: none, all of a contact or half of it.
NoText == [n |-> 0, half |-> FALSE]
Uncounted == [n : 0..MaxLines, half : BOOLEAN]
Batch == [counted : Seq(1..MaxLines), behind : Uncounted]
NoBatch == [counted |-> <<>>, behind |-> NoText]

LinkTypeOK ==
  /\ sent \in 0..MaxLines
  /\ wire \in Seq(Bytes)
  /\ line \in Seq(Bytes \ {NL}) /\ Len(line) <= LineRoom
  /\ forwarding \in 0..MaxLines
  /\ silence \in 0..Missed
  /\ errors \in Nat
  /\ peer_batch \in Batch /\ Len(peer_batch.counted) <= BatchRoom
  /\ reporting \in [pc : {"reports", "flush", "post", "beat"}, batch : Batch]
  /\ ready \in BOOLEAN
  /\ received \in Seq(1..MaxLines)
  /\ told \in {"nothing", "alive", "down"}
  /\ good \in 0..MaxLines
  /\ overflowed \in BOOLEAN
  /\ faults \in 0..MaxFaults /\ damage \in 0..MaxFaults

LinkInit ==
  /\ sent = 0 /\ wire = <<>>
  /\ line = <<>> /\ forwarding = 0
  /\ silence = Missed /\ errors = 0
  /\ peer_batch = NoBatch
  /\ reporting = [pc |-> "reports", batch |-> NoBatch]
  /\ ready = FALSE
  /\ received = <<>>
  /\ told = "nothing"
  /\ good = 0 /\ overflowed = FALSE /\ faults = 0 /\ damage = 0

Fault == faults < MaxFaults /\ faults' = faults + 1

-----------------------------------------------------------------------------
(* The sensor, and the wire.                                               *)

\* peer_link_send_contact and peer_link_send_status.
SendLine(kind) ==
  /\ sent < MaxLines
  /\ Len(wire) < MaxOnWire
  /\ sent' = sent + 1
  /\ wire' = wire \o <<[n |-> sent + 1, kind |-> kind], [n |-> sent + 1, json |-> kind], NL>>
  /\ UNCHANGED <<master, peer_batch, uplink, overflowed, faults, damage>>

-----------------------------------------------------------------------------
(* master_task and handle_line.                                            *)

\* The checksum is right.  It does not cover the kind.
Whole(head, json) == line = <<head, json>> /\ head.n = json.n

Accepted(head, json) ==
  /\ Whole(head, json)
  /\ silence' = 0
  /\ forwarding' = IF head.kind = "CT1D" THEN json.n ELSE 0
  /\ errors' = IF head.kind = "other" THEN errors + 1 ELSE errors
  /\ good' = IF head.kind = json.json THEN good + 1 ELSE good
Rejected ==
  /\ \A head \in Heads, json \in Jsons : ~ Whole(head, json)
  /\ errors' = errors + 1
  /\ UNCHANGED <<good, silence, forwarding>>
handle_line == Rejected \/ \E head \in Heads, json \in Jsons : Accepted(head, json)

\* "used < sizeof line - 1", which keeps a byte for the end of the string.
Room == Len(line) < LineRoom

\* The buffer after a newline.
StillThere == line
StartsAfresh == <<>>

\* One byte read, as it arrives.
Read(byte) ==
  /\ forwarding = 0
  /\ CASE byte = NL /\ line # <<>> -> handle_line /\ line' = StartsAfresh
       [] byte = NL /\ line = <<>> -> UNCHANGED master
       [] byte # NL /\ Room ->
            line' = Append(line, byte) /\ UNCHANGED <<forwarding, silence, errors, good>>
       [] OTHER -> line' = <<>> /\ errors' = errors + 1
                   /\ UNCHANGED <<forwarding, silence, good>>
  /\ UNCHANGED <<sent, peer_batch, uplink, overflowed>>

TakeByte == wire # <<>> /\ wire' = Tail(wire)

Arrive == TakeByte /\ Read(Head(wire)) /\ UNCHANGED <<faults, damage>>

\* Garbled: into noise, into the end of the line, or in the kind of a head.
Garbles(byte) == {NOISE, NL} \cup (IF byte \in Heads THEN {h \in Heads : h.n = byte.n} ELSE {})
Garbled == /\ TakeByte /\ Fault /\ damage' = damage + 1
           /\ \E byte \in Garbles(Head(wire)) \ {Head(wire)} : Read(byte)
Lost == /\ TakeByte /\ Fault /\ damage' = damage + 1
        /\ UNCHANGED <<sent, master, peer_batch, uplink, overflowed>>

\* PEER_STATUS_EVERY_SECONDS pass.
StatusInterval ==
  /\ silence < Missed
  /\ silence' = silence + 1
  /\ UNCHANGED <<sensor, line, forwarding, errors, good, peer_batch, uplink, overflowed, faults>>

-----------------------------------------------------------------------------
(* uplink_forward_peer_contact, with peer_lock taken.                      *)

\* What snprintf leaves behind the counted contacts when the contact does not fit: the
\* buffer's end cuts it, or it is complete and only the margin is used up.
Behind == \E half \in BOOLEAN :
  peer_batch' = [peer_batch EXCEPT !.behind = [n |-> forwarding, half |-> half]]

Newest == Append(peer_batch.counted, forwarding)
Forward ==
  /\ forwarding # 0
  /\ forwarding' = 0
  /\ IF Len(peer_batch.counted) < BatchRoom
     THEN peer_batch' = [counted |-> Newest, behind |-> NoText] /\ UNCHANGED overflowed
     ELSE Behind /\ overflowed' = TRUE
  /\ UNCHANGED <<sensor, line, silence, errors, good, uplink, faults>>

-----------------------------------------------------------------------------
(* reporting_task.                                                         *)

ReportingTo(pc) == reporting' = [reporting EXCEPT !.pc = pc]
ReportingAt(pc) == reporting.pc = pc

\* The master's own contacts are waited for and posted.
OwnReports ==
  /\ ReportingAt("reports") /\ ReportingTo("flush")
  /\ UNCHANGED <<sensor, master, peer_batch, ready, received, told, overflowed, faults>>

\* "if (peer_count == 0 || !uplink_ready()) return;"
NotEmpty == peer_batch.counted # <<>>
Flushable == peer_batch.counted # <<>> /\ ready
NothingToFlush ==
  /\ ReportingAt("flush") /\ ReportingTo("beat")
  /\ ~ Flushable
  /\ UNCHANGED <<sensor, master, peer_batch, ready, received, told, overflowed, faults>>

\* peer_lock taken: the text is copied up to its end and the batch starts afresh.
Reset == NoBatch
Flush ==
  /\ ReportingAt("flush")
  /\ Flushable
  /\ reporting' = [pc |-> "post", batch |-> peer_batch]
  /\ peer_batch' = Reset
  /\ UNCHANGED <<sensor, master, ready, received, told, overflowed, faults>>

\* The contacts a request carries; a body that ends in half a contact is refused.
InRequest == reporting.batch.counted
           \o (IF reporting.batch.behind = NoText THEN <<>> ELSE <<reporting.batch.behind.n>>)

Post(stored) ==
  /\ ReportingAt("post")
  /\ reporting' = [pc |-> "beat", batch |-> NoBatch]
  /\ received' = IF stored /\ ~ reporting.batch.behind.half THEN received \o InRequest ELSE received
  /\ UNCHANGED <<sensor, master, peer_batch, ready, told, overflowed>>

Posted == ready /\ Post(TRUE) /\ UNCHANGED faults
\* The network has gone since; the request may have got through before.
Unreachable == ~ ready /\ (\E stored \in BOOLEAN : Post(stored)) /\ UNCHANGED faults
PostFails == ready /\ Fault /\ \E stored \in BOOLEAN : Post(stored)

AlwaysAlive == TRUE
peer_link_sensor_alive == silence < Missed

uplink_peer_heartbeat(link) == told' = IF ready THEN link ELSE told

\* send_peer_heartbeat, when it is due.
Beat ==
  /\ ReportingAt("beat") /\ ReportingTo("reports")
  /\ uplink_peer_heartbeat(IF peer_link_sensor_alive THEN "alive" ELSE "down")
  /\ UNCHANGED <<sensor, master, peer_batch, ready, received, overflowed, faults>>

NetworkUp == ~ ready /\ ready' = TRUE
             /\ UNCHANGED <<sensor, master, peer_batch, reporting, received, told, overflowed, faults>>
NetworkDown == ready /\ Fault /\ ready' = FALSE
               /\ UNCHANGED <<sensor, master, peer_batch, reporting, received, told, overflowed>>

reporting_task == OwnReports \/ NothingToFlush \/ Flush \/ Posted \/ Unreachable \/ Beat
master_task == Arrive \/ Forward

LinkNext == \/ (\E kind \in Kinds : SendLine(kind)) \/ StatusInterval
        \/ master_task \/ reporting_task \/ NetworkUp
        \/ Garbled \/ Lost \/ PostFails \/ NetworkDown

LinkSpec == LinkInit /\ [][LinkNext]_linkVars

\* The master's tasks run and its network comes back; nothing obliges the sensor to
\* send, or time to pass before the next line.
LinkFairSpec == /\ LinkSpec
            /\ WF_linkVars(master_task) /\ WF_linkVars(reporting_task) /\ WF_linkVars(NetworkUp)

-----------------------------------------------------------------------------
(* Properties.                                                             *)

\* A byte lost or garbled on the wire costs no more than the two lines it joins: what
\* was sent is accepted, still under way, or lost to one of the faults.
Newlines == {i \in DOMAIN wire : wire[i] = NL}
LinesUnderWay == Cardinality(Newlines) + (IF line = <<>> THEN 0 ELSE 1)
DamageIsBounded == sent <= good + LinesUnderWay + 2 * damage

\* A contact in the batch waits for the network and is stored, unless something fails or
\* the batch has overflowed.
BatchIsStored ==
  \A c \in 1..MaxLines :
    (\E i \in DOMAIN peer_batch.counted : peer_batch.counted[i] = c)
      ~> (\E i \in DOMAIN received : received[i] = c) \/ faults > 0 \/ overflowed

\* The peer's heartbeat says what is: a sensor that stays silent is reported down, and
\* one that keeps being heard alive.
LinkIsTold ==
  /\ <>[](silence = Missed) => <>[](told = "down")
  /\ <>[](silence < Missed) => <>[](told = "alive")
=============================================================================
