----------------------------- MODULE Reporting ------------------------------
(***************************************************************************)
(* How the Bluetooth board reports what it hears (firmware/esp32/main/     *)
(* main.c, uplink.c, contact_time.c, health.c).                            *)
(*                                                                         *)
(* The Bluetooth host's task calls gap_callback for every advertisement    *)
(* and puts the contacts on a queue; reporting_task takes them off, posts  *)
(* them in batches and sends a heartbeat; the link task adds the sensor's  *)
(* contacts, which PeerLink follows from the wire, and counts in the same  *)
(* failed_count without a lock (the S3 has two cores).  The board has a    *)
(* monotonic clock that starts with it, and a wall clock that starts in    *)
(* 1970 until the time server has answered.  The network, the time server, *)
(* the owner and the server are external.                                  *)
(***************************************************************************)
EXTENDS Integers, Sequences

CONSTANTS
  Depth,        \* REPORT_QUEUE_DEPTH
  BatchMax,     \* REPORT_BATCH_MAX
  AlwaysFit,    \* contacts that fit in the request's body whatever they say
  PeerFit,      \* the sensor's contacts that fit in peer_batch
  Wrap,         \* 2^32, where the counter of advertisements starts again
  Epoch,        \* how long after 1970 the model's time begins
  MaxContacts,  \* contacts of the board's own (a bound)
  MaxPeer,      \* contacts of the sensor between two starts of the board (a bound)
  MaxTime,      \* the horizon (a bound)
  MaxFaults     \* requests, networks and boards that fail (a bound)

ASSUME ReportingAssumption ==
  /\ Depth \in Nat \ {0} /\ BatchMax \in Nat \ {0} /\ AlwaysFit \in 1..BatchMax
  /\ PeerFit \in Nat \ {0}
  /\ Wrap \in Nat /\ Wrap >= 2
  /\ MaxContacts \in Nat /\ MaxPeer \in Nat /\ MaxTime \in Nat \ {0} /\ MaxFaults \in Nat
  /\ Epoch \in Nat /\ Epoch > MaxTime

VARIABLES
  time,      \* the true time, and that of boot
  ready,     \* the event bits, and whether the board has an API key
  reports,   \* the queue
  task,      \* reporting_task, the contacts in its batch, those in its request, and those
             \* of the sensor that it is forwarding
  peer,      \* peer_batch: of each contact, whether its stamp says when it was heard
  seen,      \* reports_seen, and how many advertisements since the last heartbeat
  count,     \* the other counters, from boot
  adding,    \* what reporting_task and the link task have still to add to failed_count,
             \* now and next, and what each has read of it for the addition it is at
  tally,     \* history, from boot: the sensor's contacts, the contacts that were added to
             \* failed_count, and how many of those the link task added
  mark,      \* reports_at_last_heartbeat, drops_at_last_heartbeat
  last,      \* when the last heartbeat was due
  heard,     \* history: when each of the board's contacts was heard
  received,  \* what the server has stored of the board's contacts
  told,      \* the problem the last heartbeat told
  faults

radio == <<seen, heard, reports>>
server == <<received, told>>
health == <<mark, last>>
counters == <<count, adding, tally>>
vars == <<time, ready, radio, task, peer, counters, health, server, faults>>

Bits == {"connected", "clock", "claimed"}
TrueTime == Epoch..(Epoch + MaxTime)
Time == 0..(Epoch + MaxTime)
Contact == [n : 1..MaxContacts, decoded_us : 1..(MaxTime + 1)]
Stored == [n : 1..MaxContacts, at : Time]
Adders == {"report", "link"}
Unread == -1

TypeOK ==
  /\ time \in [now : TrueTime, boot : TrueTime] /\ time.boot <= time.now
  /\ ready \subseteq Bits
  /\ reports \in Seq(Contact) /\ Len(reports) <= Depth
  /\ task \in [pc : {"receive", "taking", "post", "flush", "forward", "beat"},
               batch : Seq(Contact), request : Seq(Stored), forward : Seq(BOOLEAN)]
  /\ Len(task.batch) <= BatchMax /\ Len(task.request) <= Len(task.batch)
  /\ peer \in Seq(BOOLEAN)
  /\ seen \in [total : 0..(Wrap - 1), since : 0..(Wrap - 1)]
  /\ count \in [decoded : Nat, dropped : Nat, sent : Nat, failed : Nat]
  /\ adding \in [Adders -> [now : Nat, next : Nat, read : Nat \cup {Unread}]]
  /\ tally \in [relayed : Nat, failed : Nat, byLink : Nat]
  /\ mark \in [seen : 0..(Wrap - 1), dropped : Nat]
  /\ last \in 0..(MaxTime + 1)
  /\ heard \in Seq(TrueTime) /\ Len(heard) <= MaxContacts
  /\ received \in Seq(Stored)
  /\ told \in {"none", "ble_stream_down", "detections_not_queued"}
  /\ faults \in 0..MaxFaults

Idle == [pc |-> "receive", batch |-> <<>>, request |-> <<>>, forward |-> <<>>]
NoneCounted == [decoded |-> 0, dropped |-> 0, sent |-> 0, failed |-> 0]
Nothing == [now |-> 0, next |-> 0, read |-> Unread]
NoneTallied == [relayed |-> 0, failed |-> 0, byLink |-> 0]

Init ==
  /\ time = [now |-> Epoch, boot |-> Epoch]
  /\ ready \in SUBSET {"claimed"}
  /\ reports = <<>> /\ task = Idle /\ peer = <<>>
  /\ seen = [total |-> 0, since |-> 0] /\ count = NoneCounted
  /\ adding = [t \in Adders |-> Nothing] /\ tally = NoneTallied
  /\ mark = [seen |-> 0, dropped |-> 0] /\ last = 0
  /\ heard = <<>> /\ received = <<>>
  /\ told = "none"
  /\ faults = 0

Fault == faults < MaxFaults /\ faults' = faults + 1

-----------------------------------------------------------------------------
(* The clocks, and contact_stamp.                                          *)

\* clocks_now.  esp_timer_get_time is never 0 once the board runs.
mono == time.now - time.boot + 1
wall == IF "clock" \in ready THEN time.now ELSE time.now - time.boot

WallOnly(now_wall, now_mono, decoded_us) == now_wall
contact_stamp(now_wall, now_mono, decoded_us) ==
  LET age == IF decoded_us > 0 /\ now_mono > decoded_us THEN now_mono - decoded_us ELSE 0
  IN  IF now_wall >= age THEN now_wall - age ELSE 0

Tick ==
  /\ time.now < Epoch + MaxTime
  /\ time' = [time EXCEPT !.now = @ + 1]
  /\ UNCHANGED <<ready, radio, task, peer, counters, health, server, faults>>

-----------------------------------------------------------------------------
(* gap_callback, on the Bluetooth host's task.                             *)

\* Two heartbeats are far closer than Wrap advertisements.
CountSeen ==
  /\ seen.since < Wrap - 1
  /\ seen' = [total |-> (seen.total + 1) % Wrap, since |-> seen.since + 1]

Advertisement ==
  /\ CountSeen
  /\ UNCHANGED <<time, ready, reports, heard, task, peer, counters, health, server, faults>>

\* enqueue_report: the newest contact is dropped when the queue is full.
DropUncounted == [count EXCEPT !.decoded = @ + 1]
Enqueued ==
  [count EXCEPT !.decoded = @ + 1, !.dropped = IF Len(reports) < Depth THEN @ ELSE @ + 1]

Detection ==
  /\ Len(heard) < MaxContacts
  /\ CountSeen
  /\ heard' = Append(heard, time.now)
  /\ count' = Enqueued
  /\ reports' = IF Len(reports) < Depth
                THEN Append(reports, [n |-> Len(heard) + 1, decoded_us |-> mono]) ELSE reports
  /\ UNCHANGED <<time, ready, task, peer, adding, tally, health, server, faults>>

-----------------------------------------------------------------------------
(* failed_count, which two tasks add to.                                   *)

\* failed_count += now, after which next is added as well.
ToAdd(t, now, next) == adding' = [adding EXCEPT ![t] = [now |-> now, next |-> next, read |-> Unread]]
Adds(t) == adding[t].now > 0

Load(t) ==
  /\ Adds(t) /\ adding[t].read = Unread
  /\ adding' = [adding EXCEPT ![t].read = count.failed]
  /\ UNCHANGED <<time, ready, radio, task, peer, count, tally, health, server, faults>>

Store(t) ==
  /\ Adds(t) /\ adding[t].read # Unread
  /\ count' = [count EXCEPT !.failed = adding[t].read + adding[t].now]
  /\ ToAdd(t, adding[t].next, 0)
  /\ tally' = [tally EXCEPT !.failed = @ + adding[t].now,
                            !.byLink = IF t = "link" THEN @ + adding[t].now ELSE @]
  /\ UNCHANGED <<time, ready, radio, task, peer, health, server, faults>>

AddFailed(t) == Load(t) \/ Store(t)

\* uplink_forward_peer_contact, on the link task: stamped as it arrives, and counted as
\* failed when the batch is full.
PeerContact ==
  /\ ~ Adds("link")
  /\ tally.relayed < MaxPeer
  /\ tally' = [tally EXCEPT !.relayed = @ + 1]
  /\ IF Len(peer) < PeerFit
     THEN peer' = Append(peer, contact_stamp(wall, mono, 0) = time.now) /\ UNCHANGED adding
     ELSE ToAdd("link", 1, 0) /\ UNCHANGED peer
  /\ UNCHANGED <<time, ready, radio, task, count, health, server, faults>>

-----------------------------------------------------------------------------
(* reporting_task.                                                         *)

uplink_ready == ready = Bits

\* The task is at a step of its own, with nothing left to add to failed_count.
At(pc) == task.pc = pc /\ ~ Adds("report")
Goto(pc) == task' = [task EXCEPT !.pc = pc]

\* xQueueReceive: the first contact is waited for, for a second.
Receive ==
  /\ At("receive")
  /\ IF reports = <<>>
     THEN Goto("flush") /\ UNCHANGED reports
     ELSE /\ task' = [task EXCEPT !.pc = "taking", !.batch = <<Head(reports)>>]
          /\ reports' = Tail(reports)
  /\ UNCHANGED <<time, ready, seen, heard, peer, counters, health, server, faults>>

\* Whatever else is already waiting goes into the batch; nothing is waited for.
OnlyFull == Len(task.batch) = BatchMax
Gathered == reports = <<>> \/ Len(task.batch) = BatchMax

TakeMore ==
  /\ At("taking") /\ reports # <<>> /\ Len(task.batch) < BatchMax
  /\ task' = [task EXCEPT !.batch = Append(@, Head(reports))]
  /\ reports' = Tail(reports)
  /\ UNCHANGED <<time, ready, seen, heard, peer, counters, health, server, faults>>

\* uplink_report_batch.  Not ready: nothing is sent, and the batch is counted as failed.
NotReady ==
  /\ At("taking") /\ Gathered
  /\ ~ uplink_ready
  /\ ToAdd("report", Len(task.batch), 0)
  /\ task' = [task EXCEPT !.pc = "flush", !.batch = <<>>]
  /\ UNCHANGED <<time, ready, radio, peer, count, tally, health, server, faults>>

\* As many as fit are stamped and packed.
Stamped(c) == [n |-> c.n, at |-> contact_stamp(wall, mono, c.decoded_us)]
Packed(n) == [i \in 1..n |-> Stamped(task.batch[i])]
Pack ==
  /\ At("taking") /\ Gathered
  /\ uplink_ready
  /\ \E n \in 1..Len(task.batch) :
       /\ n >= AlwaysFit \/ n = Len(task.batch)
       /\ task' = [task EXCEPT !.pc = "post", !.request = Packed(n)]
  /\ UNCHANGED <<time, ready, radio, peer, counters, health, server, faults>>

\* What did not fit is counted as failed, whatever became of the request.
Remainder == Len(task.batch) - Len(task.request)
Outcome(sent) ==
  IF sent
  THEN count' = [count EXCEPT !.sent = @ + Len(task.request)] /\ ToAdd("report", Remainder, 0)
  ELSE ToAdd("report", Len(task.request), Remainder) /\ UNCHANGED count
Post(stored, sent) ==
  /\ At("post")
  /\ received' = IF stored THEN received \o task.request ELSE received
  /\ Outcome(sent)
  /\ task' = [task EXCEPT !.pc = "flush", !.batch = <<>>, !.request = <<>>]
  /\ UNCHANGED <<time, ready, radio, peer, tally, health, told>>

Posted == "connected" \in ready /\ Post(TRUE, TRUE) /\ UNCHANGED faults
\* The network has gone since; the request may have got through before.
Unreachable == /\ "connected" \notin ready
               /\ (\E stored \in BOOLEAN : Post(stored, FALSE)) /\ UNCHANGED faults
PostFails == "connected" \in ready /\ Fault /\ \E stored \in BOOLEAN : Post(stored, FALSE)

\* uplink_flush_peer: there is nothing to forward, or no way to.
NoFlush ==
  /\ At("flush") /\ Goto("beat")
  /\ peer = <<>> \/ ~ uplink_ready
  /\ UNCHANGED <<time, ready, radio, peer, counters, health, server, faults>>

\* The batch is copied and started anew.  The link task counts an overrun under the lock
\* that this takes.
Flush ==
  /\ At("flush")
  /\ peer # <<>> /\ uplink_ready
  /\ ~ Adds("link")
  /\ task' = [task EXCEPT !.pc = "forward", !.forward = peer]
  /\ peer' = <<>>
  /\ UNCHANGED <<time, ready, radio, counters, health, server, faults>>

\* Its request, of which the server may have stored what is counted as failed.
Forward(sent) ==
  /\ At("forward")
  /\ IF sent THEN count' = [count EXCEPT !.sent = @ + Len(task.forward)] /\ UNCHANGED adding
     ELSE ToAdd("report", Len(task.forward), 0) /\ UNCHANGED count
  /\ task' = [task EXCEPT !.pc = "beat", !.forward = <<>>]
  /\ UNCHANGED <<time, ready, radio, peer, tally, health, server>>

Forwarded == "connected" \in ready /\ Forward(TRUE) /\ UNCHANGED faults
ForwardUnreachable == "connected" \notin ready /\ Forward(FALSE) /\ UNCHANGED faults
ForwardFails == "connected" \in ready /\ Fault /\ Forward(FALSE)

\* health_counter_moved: not equal, because a counter that has wrapped has moved too.
HasGrown(counter_mark, counter) == counter > counter_mark
health_counter_moved(counter_mark, counter) == counter # counter_mark

Due == mono - last >= 1
NotDue ==
  /\ At("beat") /\ Goto("receive")
  /\ ~ Due
  /\ UNCHANGED <<time, ready, radio, peer, counters, health, server, faults>>

\* send_heartbeat.
Problem ==
  CASE ~ health_counter_moved(mark.seen, seen.total) -> "ble_stream_down"
    [] health_counter_moved(mark.seen, seen.total) /\ health_counter_moved(mark.dropped, count.dropped) ->
         "detections_not_queued"
    [] OTHER -> "none"
Beat(delivered) ==
  /\ At("beat") /\ Goto("receive")
  /\ Due
  /\ last' = mono
  /\ mark' = [seen |-> seen.total, dropped |-> count.dropped]
  /\ seen' = [seen EXCEPT !.since = 0]
  /\ told' = IF delivered THEN Problem ELSE told
  /\ UNCHANGED <<time, ready, heard, reports, peer, counters, received>>

Delivered == uplink_ready /\ Beat(TRUE) /\ UNCHANGED faults
\* Not ready: the time server is asked again, and there is no heartbeat.
Skipped == ~ uplink_ready /\ Beat(FALSE) /\ UNCHANGED faults
BeatLost == uplink_ready /\ Fault /\ Beat(FALSE)

-----------------------------------------------------------------------------
(* The network, the clock, the claim, and power.                           *)

Becomes(bit) ==
  /\ bit \notin ready
  /\ ready' = ready \cup {bit}
  /\ UNCHANGED <<time, radio, task, peer, counters, health, server, faults>>

GotIp == Becomes("connected")
ClockSynced == "connected" \in ready /\ Becomes("clock")
Claimed == "connected" \in ready /\ Becomes("claimed")

Disconnected ==
  /\ "connected" \in ready
  /\ Fault
  /\ ready' = ready \ {"connected"}
  /\ UNCHANGED <<time, radio, task, peer, counters, health, server>>

PowerLost ==
  /\ Fault
  /\ time' = [time EXCEPT !.boot = time.now]
  /\ ready' = ready \cap {"claimed"}
  /\ reports' = <<>> /\ task' = Idle /\ peer' = <<>>
  /\ seen' = [total |-> 0, since |-> 0] /\ count' = NoneCounted
  /\ adding' = [t \in Adders |-> Nothing] /\ tally' = NoneTallied
  /\ mark' = [seen |-> 0, dropped |-> 0] /\ last' = 0
  /\ UNCHANGED <<heard, server>>

gap_callback == Advertisement \/ Detection

reporting_task == \/ Receive \/ TakeMore \/ NotReady \/ Pack \/ Posted \/ Unreachable
                  \/ NoFlush \/ Flush \/ Forwarded \/ ForwardUnreachable
                  \/ NotDue \/ Delivered \/ Skipped \/ AddFailed("report")

Next == \/ gap_callback \/ PeerContact \/ AddFailed("link") \/ reporting_task
        \/ PostFails \/ ForwardFails \/ BeatLost \/ Disconnected \/ PowerLost
        \/ GotIp \/ ClockSynced \/ Claimed \/ Tick

Spec == Init /\ [][Next]_vars

\* reporting_task runs, the link task finishes what it is at, a network in reach lets the
\* board in, and the time server answers.
FairSpec == /\ Spec /\ WF_vars(reporting_task) /\ WF_vars(AddFailed("link"))
            /\ WF_vars(GotIp) /\ WF_vars(ClockSynced)

-----------------------------------------------------------------------------
(* Properties.                                                             *)

\* Every contact the server has of this board says when it was heard: not when it was
\* posted, and never in 1970 (contact_stamp, and uplink_ready's wait for the clock).
StampIsWhenHeard == \A i \in DOMAIN received : received[i].at = heard[received[i].n]

\* Every contact decoded or relayed since the board started is in a queue or a batch, or has
\* been counted as dropped, sent or failed, or is being counted: none goes missing in between
\* and none is counted twice (enqueue_report, reporting_task, the exits of
\* uplink_report_batch and uplink_flush_peer, and uplink_forward_peer_contact).
Waiting == Len(reports) + Len(task.batch) + Len(peer) + Len(task.forward)
Pending(t) == adding[t].now + adding[t].next
InOnePlace ==
  count.decoded + tally.relayed =
    Waiting + count.dropped + count.sent + tally.failed + Pending("report") + Pending("link")

\* The failed_count the log prints is never more than the contacts that failed, however the
\* additions of the two tasks fall between one another; and it is exactly that for as long as
\* no contact of the sensor has found its batch full.
FailedIsCounted ==
  count.failed <= tally.failed /\ (tally.byLink = 0 => count.failed = tally.failed)

Accounted == InOnePlace /\ FailedIsCounted

\* A heartbeat that arrives says the radio is dead exactly when there was no advertisement
\* since the heartbeat before, also when the counter has started again from 0
\* (health_counter_moved).
StreamIsTold == [][Delivered => (told' = "ble_stream_down" <=> seen.since = 0)]_vars

\* Once nothing fails any more, a contact that is first in the queue of a board that is
\* ready when reporting_task comes back to it is stored, with others behind it or none:
\* the task does not wait for a batch that never fills.
FirstIsStored ==
  \A n \in 1..MaxContacts :
    (/\ faults = MaxFaults /\ uplink_ready /\ At("receive")
     /\ reports # <<>> /\ Head(reports).n = n)
      ~> \E i \in DOMAIN received : received[i].n = n
=============================================================================
