----------------------------- MODULE TimeSlice -----------------------------
(***************************************************************************)
(* The Wi-Fi board: one radio that listens for Remote ID on channel 6 and, *)
(* every five minutes, leaves the channel to join the network and upload   *)
(* (firmware/esp32/main/wifi_capture.c, uplink.c).                         *)
(*                                                                         *)
(* Three tasks: the Wi-Fi driver calls on_frame, the event loop calls      *)
(* on_wifi_event, and capture_task alternates between listening and a      *)
(* window on the network.  They share the queue of contacts under a lock   *)
(* and the flag station_held without one.  The driver's station, the time  *)
(* server, the owner and the server are external.                          *)
(***************************************************************************)
EXTENDS Naturals, Sequences

CONSTANTS
  Depth,        \* CAPTURE_QUEUE_DEPTH
  BatchMax,     \* CAPTURE_BATCH_MAX; sixteen contacts always fit the body buffer
  MaxContacts,  \* contacts that are heard (a bound)
  MaxFaults     \* connections, answers and boards that fail (a bound)

ASSUME TimeSliceAssumption ==
  /\ Depth \in Nat \ {0} /\ BatchMax \in Nat \ {0}
  /\ MaxContacts \in Nat /\ MaxFaults \in Nat

VARIABLES
  promiscuous,   \* whether the driver hands over the frames of the channel
  station,       \* the driver's station
  station_held,
  ready,         \* the event bits, and whether the board has an API key
  events,        \* Wi-Fi events not yet handled
  handler,       \* on_wifi_event
  driver,        \* the contact that on_frame is about to remember, or 0
  queue,
  capture,       \* where capture_task is, and whether this is an upload window
  batch,         \* what drain_queue has taken off the queue and not yet posted
  count,         \* counters, from boot
  mark,          \* drops_at_last_heartbeat
  heard,         \* contacts are numbered as they are heard
  received,      \* what the server has stored
  told,          \* what its last heartbeat says of drops
  faults

network == <<station, station_held, ready, events, handler>>
contacts == <<driver, queue, batch, count, heard, received>>
health == <<mark, told>>
vars == <<promiscuous, network, contacts, capture, health, faults>>

Bits == {"connected", "clock", "claimed"}
Steps == {"release", "connect", "joining", "joined", "beat", "drain", "copying", "posting",
          "hold", "disconnect", "tune", "listening"}

TypeOK ==
  /\ promiscuous \in BOOLEAN
  /\ station \in {"idle", "connecting", "connected"}
  /\ station_held \in BOOLEAN
  /\ ready \subseteq Bits
  /\ events \in Seq({"got_ip", "disconnected"})
  /\ handler \in {"idle", "reconnect"}
  /\ driver \in 0..MaxContacts
  /\ queue \in Seq(1..MaxContacts) /\ Len(queue) <= Depth
  /\ capture \in [pc : Steps, window : BOOLEAN]
  /\ batch \in Seq(1..MaxContacts) /\ Len(batch) <= Depth
  /\ count \in [decoded : Nat, dropped : Nat, sent : Nat, failed : Nat]
  /\ mark \in Nat
  /\ heard \in 0..MaxContacts
  /\ received \in Seq(1..MaxContacts)
  /\ told \in [total : Nat, flag : BOOLEAN]
  /\ faults \in 0..MaxFaults

Fault == faults < MaxFaults /\ faults' = faults + 1

\* What app_main has done when it starts capture_task: uplink_start has begun to
\* connect, and the station is held.
Booted ==
  /\ promiscuous' = FALSE
  /\ station' = "connecting" /\ station_held' = TRUE
  /\ ready' = ready \cap {"claimed"}
  /\ events' = <<>> /\ handler' = "idle"
  /\ driver' = 0 /\ queue' = <<>> /\ batch' = <<>>
  /\ capture' = [pc |-> "release", window |-> FALSE]
  /\ count' = [decoded |-> 0, dropped |-> 0, sent |-> 0, failed |-> 0]
  /\ mark' = 0
  /\ UNCHANGED <<heard, received, told>>

Init ==
  /\ promiscuous = FALSE
  /\ station = "connecting" /\ station_held = TRUE
  /\ ready \in SUBSET {"claimed"}
  /\ events = <<>> /\ handler = "idle"
  /\ driver = 0 /\ queue = <<>> /\ batch = <<>>
  /\ capture = [pc |-> "release", window |-> FALSE]
  /\ count = [decoded |-> 0, dropped |-> 0, sent |-> 0, failed |-> 0]
  /\ mark = 0
  /\ heard = 0 /\ received = <<>>
  /\ told = [total |-> 0, flag |-> FALSE]
  /\ faults = 0

-----------------------------------------------------------------------------
(* on_frame and remember, on the driver's task.                            *)

Hear ==
  /\ promiscuous
  /\ driver = 0
  /\ heard < MaxContacts
  /\ heard' = heard + 1
  /\ driver' = heard + 1
  /\ count' = [count EXCEPT !.decoded = @ + 1]
  /\ UNCHANGED <<promiscuous, network, queue, batch, received, capture, health, faults>>

Locked == capture.pc = "copying"

Room == Len(queue) < Depth

\* The queue when there is no room.
OldestGoes == IF Locked THEN queue ELSE Append(Tail(queue), driver)
NewestGoes == queue

OverflowCounted == IF Locked THEN count ELSE [count EXCEPT !.dropped = @ + 1]
DropCounted == [count EXCEPT !.dropped = @ + 1]

\* remember: not if the lock is taken, not if the queue is full.
Remember ==
  /\ driver # 0
  /\ driver' = 0
  /\ IF ~ Locked /\ Room
     THEN queue' = Append(queue, driver) /\ UNCHANGED count
     ELSE queue' = NewestGoes /\ count' = DropCounted
  /\ UNCHANGED <<promiscuous, network, batch, heard, received, capture, health, faults>>

-----------------------------------------------------------------------------
(* The station and on_wifi_event.                                          *)

\* esp_wifi_connect: without effect on a station that is on its way or there.
Connect == station' = IF station = "idle" THEN "connecting" ELSE station

Happen(event) == events' = Append(events, event)

Associated ==
  /\ station = "connecting"
  /\ station' = "connected"
  /\ Happen("got_ip")
  /\ UNCHANGED <<promiscuous, station_held, ready, handler, contacts, capture, health, faults>>

\* A handshake that times out, or a network that goes away.
LinkFails ==
  /\ station # "idle"
  /\ Fault
  /\ station' = "idle"
  /\ Happen("disconnected")
  /\ UNCHANGED <<promiscuous, station_held, ready, handler, contacts, capture, health>>

GotIp ==
  /\ handler = "idle"
  /\ events # <<>> /\ Head(events) = "got_ip"
  /\ events' = Tail(events)
  /\ ready' = ready \cup {"connected"}
  /\ UNCHANGED <<promiscuous, station, station_held, handler, contacts, capture, health, faults>>

\* "if (station_held) return;"
Disconnected ==
  /\ handler = "idle"
  /\ events # <<>> /\ Head(events) = "disconnected"
  /\ events' = Tail(events)
  /\ ready' = ready \ {"connected"}
  /\ handler' = IF station_held THEN "idle" ELSE "reconnect"
  /\ UNCHANGED <<promiscuous, station, station_held, contacts, capture, health, faults>>

Reconnect ==
  /\ handler = "reconnect"
  /\ handler' = "idle"
  /\ Connect
  /\ UNCHANGED <<promiscuous, station_held, ready, events, contacts, capture, health, faults>>

\* clock_synced, after uplink_resync_clock if the first answer was missed.
ClockSynced ==
  /\ station = "connected"
  /\ ready' = ready \cup {"clock"}
  /\ UNCHANGED <<promiscuous, station, station_held, events, handler, contacts, capture, health,
                 faults>>

\* The owner claims the board, and claim_task stores the key.
Claimed ==
  /\ station = "connected"
  /\ ready' = ready \cup {"claimed"}
  /\ UNCHANGED <<promiscuous, station, station_held, events, handler, contacts, capture, health,
                 faults>>

-----------------------------------------------------------------------------
(* capture_task.                                                           *)

uplink_ready == ready = Bits

At(pc) == capture.pc = pc
Goto(pc) == capture' = [capture EXCEPT !.pc = pc]

\* join_network: promiscuous off, then uplink_hold_station(false).
Release ==
  /\ At("release") /\ Goto("connect")
  /\ promiscuous' = FALSE
  /\ station_held' = FALSE
  /\ UNCHANGED <<station, ready, events, handler, contacts, health, faults>>

ConnectNow ==
  /\ At("connect") /\ Goto("joining")
  /\ Connect
  /\ UNCHANGED <<promiscuous, station_held, ready, events, handler, contacts, health, faults>>

Joining == At("joining") /\ Goto("joined") /\ UNCHANGED <<promiscuous, network, contacts, health>>
NetworkUp == Joining /\ uplink_ready /\ UNCHANGED faults
\* A board nobody has claimed is never ready; a claimed one is, unless the network is slow.
Unclaimed == Joining /\ "claimed" \notin ready /\ UNCHANGED faults
TooSlow == Joining /\ ~ uplink_ready /\ Fault

\* join_network asks again before it returns; the first join is only for the clock.
Joined ==
  /\ At("joined")
  /\ Goto(IF capture.window /\ uplink_ready THEN "beat" ELSE "hold")
  /\ UNCHANGED <<promiscuous, network, contacts, health, faults>>

\* send_heartbeat, and health_counter_moved.
Moved == mark # count.dropped
Beat ==
  /\ At("beat") /\ Goto("drain")
  /\ mark' = count.dropped
  /\ \/ /\ uplink_ready
        /\ told' = [total |-> count.dropped, flag |-> Moved]
        /\ UNCHANGED faults
     \/ ~ uplink_ready /\ UNCHANGED <<told, faults>>
  /\ UNCHANGED <<promiscuous, network, contacts>>

BeatLost ==
  /\ At("beat") /\ Goto("drain")
  /\ Fault
  /\ mark' = count.dropped
  /\ UNCHANGED <<promiscuous, network, contacts, told>>

\* drain_queue takes the lock, ...
Drain ==
  /\ At("drain") /\ Goto("copying")
  /\ UNCHANGED <<promiscuous, network, contacts, health, faults>>

\* ... copies the queue and empties it.
NotEmptied == queue
Emptied == <<>>
Copy ==
  /\ At("copying") /\ Goto("posting")
  /\ batch' = queue
  /\ queue' = Emptied
  /\ UNCHANGED <<promiscuous, network, driver, count, heard, received, health, faults>>

\* How many contacts the next request takes.
NextBatch == IF Len(batch) < BatchMax THEN Len(batch) ELSE BatchMax

\* uplink_report_batch for the contacts of one request: stored ones are now at the
\* server, and the outcome is what the board believes.
Post(stored, outcome) ==
  /\ At("posting") /\ batch # <<>>
  /\ batch' = SubSeq(batch, NextBatch + 1, Len(batch))
  /\ received' = IF stored THEN received \o SubSeq(batch, 1, NextBatch) ELSE received
  /\ count' = [count EXCEPT ![outcome] = @ + NextBatch]
  /\ UNCHANGED <<promiscuous, network, driver, queue, heard, capture, health>>

Reported == uplink_ready /\ Post(TRUE, "sent") /\ UNCHANGED faults
NotReady == ~ uplink_ready /\ Post(FALSE, "failed") /\ UNCHANGED faults
ReportFails == uplink_ready /\ Fault /\ \E stored \in BOOLEAN : Post(stored, "failed")

Drained ==
  /\ At("posting") /\ batch = <<>>
  /\ Goto("hold")
  /\ UNCHANGED <<promiscuous, network, contacts, health, faults>>

\* leave_network: held, then disconnected, then back on the channel.
NeverHold ==
  /\ At("hold") /\ Goto("disconnect")
  /\ UNCHANGED <<promiscuous, network, contacts, health, faults>>
Hold ==
  /\ At("hold") /\ Goto("disconnect")
  /\ station_held' = TRUE
  /\ UNCHANGED <<promiscuous, station, ready, events, handler, contacts, health, faults>>

StayConnected == /\ At("disconnect") /\ Goto("tune")
                 /\ UNCHANGED <<promiscuous, network, contacts, health, faults>>
Disconnect ==
  /\ At("disconnect") /\ Goto("tune")
  /\ station' = "idle"
  /\ IF station = "idle" THEN UNCHANGED events ELSE Happen("disconnected")
  /\ UNCHANGED <<promiscuous, station_held, ready, handler, contacts, health, faults>>

\* listen_on_rid_channel
Tune ==
  /\ At("tune") /\ Goto("listening")
  /\ station = "idle"
  /\ promiscuous' = TRUE
  /\ UNCHANGED <<network, contacts, health, faults>>

\* The channel is refused while the station owns it: ESP_ERROR_CHECK restarts the board.
Abort ==
  /\ At("tune")
  /\ station # "idle"
  /\ Booted
  /\ UNCHANGED faults

\* CIELOTRACK_UPLOAD_EVERY_SECONDS later; the event loop has long caught up.
Wake ==
  /\ At("listening")
  /\ events = <<>> /\ handler = "idle"
  /\ capture' = [pc |-> "release", window |-> TRUE]
  /\ UNCHANGED <<promiscuous, network, contacts, health, faults>>

PowerLost == Fault /\ Booted

capture_task ==
  \/ Release \/ ConnectNow \/ NetworkUp \/ Unclaimed \/ Joined \/ Beat \/ Drain \/ Copy
  \/ Reported \/ NotReady \/ Drained \/ Hold \/ Disconnect \/ Tune \/ Abort \/ Wake

on_wifi_event == GotIp \/ Disconnected \/ Reconnect

Next == \/ Hear \/ Remember \/ Associated \/ on_wifi_event \/ ClockSynced \/ Claimed
        \/ capture_task \/ LinkFails \/ TooSlow \/ BeatLost \/ ReportFails \/ PowerLost

Spec == Init /\ [][Next]_vars

\* Every task runs; a network in reach lets the station in and answers with the time.
\* Nothing obliges an aircraft to be heard or the owner to claim the board.
FairSpec == /\ Spec
            /\ WF_vars(Remember) /\ WF_vars(Associated) /\ WF_vars(ClockSynced)
            /\ WF_vars(on_wifi_event) /\ WF_vars(capture_task)

-----------------------------------------------------------------------------
(* Properties.                                                             *)

\* Every contact decoded since boot is on its way, sent, counted as failed or counted
\* as dropped: none vanishes and none is counted twice.
Accounted ==
  count.decoded = (IF driver = 0 THEN 0 ELSE 1) + Len(queue) + Len(batch)
                  + count.sent + count.failed + count.dropped

\* The server stores a contact at most once, in the order they were heard, whatever
\* answer is lost.
InOrderOnce == \A i \in 2..Len(received) : received[i - 1] < received[i]

\* The board restarts itself only after the network has failed it: the channel is
\* never claimed while its own station is on the way.
NoBootLoop == [][Abort => faults > 0]_vars

\* A contact that a claimed board has queued is stored, unless something fails.
QueuedIsStored ==
  \A c \in 1..MaxContacts :
    (\E i \in DOMAIN queue : queue[i] = c) /\ "claimed" \in ready /\ faults = 0
      ~> (\E i \in DOMAIN received : received[i] = c) \/ faults > 0

\* Whatever fails, the board is back on the Remote ID channel again and again.
ComesBack == []<>(promiscuous /\ station = "idle")
=============================================================================
