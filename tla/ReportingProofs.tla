-------------------------- MODULE ReportingProofs ---------------------------
(* Theorems about Reporting, for any depth of the queue, size of a request,   *)
(* width of the counter, and any number of contacts and failures.             *)
EXTENDS Reporting, SequenceTheorems, TLAPS

TaskType == [pc : {"receive", "taking", "post", "flush", "forward", "beat"},
             batch : Seq(Contact), request : Seq(Stored), forward : Seq(BOOLEAN)]
CountType == [decoded : Nat, dropped : Nat, sent : Nat, failed : Nat]
AddingType == [Adders -> [now : Nat, next : Nat, read : Nat \cup {Unread}]]
TallyType == [relayed : Nat, failed : Nat, byLink : Nat]
USE DEF TaskType, CountType

\* Nothing is in hand outside the loop, and a request is only held while it is posted.
InHand ==
  /\ task.pc \notin {"taking", "post"} => task.batch = <<>>
  /\ task.pc = "post" <=> task.request # <<>>
  /\ task.pc # "forward" => task.forward = <<>>
  /\ \A t \in Adders : adding[t].now = 0 => adding[t].next = 0

\* What a task has read of failed_count is no more than what was added to it by then; and
\* until the link task has stored an addition of its own it is what failed_count is.
Counting ==
  /\ count.failed <= tally.failed
  /\ \A t \in Adders : adding[t].read = Unread \/ adding[t].read <= tally.failed
  /\ tally.byLink = 0 =>
       /\ count.failed = tally.failed
       /\ adding["report"].read = Unread \/ adding["report"].read = count.failed

\* A contact in RAM was heard since the board started, when its monotonic stamp says: h is
\* when each contact was heard, t the time and that of boot.
HeardThen(c, h, t) ==
  /\ c.n <= Len(h)
  /\ t.boot <= h[c.n] /\ h[c.n] <= t.now
  /\ c.decoded_us = h[c.n] - t.boot + 1
AllHeardThen(s, h, t) == \A i \in 1..Len(s) : HeardThen(s[i], h, t)
Timely == AllHeardThen(reports, heard, time) /\ AllHeardThen(task.batch, heard, time)

\* A stamp in a request, or on the server, says so too.
StampedThen(s, h) == \A i \in 1..Len(s) : s[i].n <= Len(h) /\ s[i].at = h[s[i].n]
Stamps == StampedThen(received, heard) /\ StampedThen(task.request, heard)

\* The counter of advertisements is as far from its mark as there were any, or has started
\* again since.
Marked == seen.total = mark.seen + seen.since \/ seen.total = mark.seen + seen.since - Wrap

IInv == TypeOK /\ InHand /\ InOnePlace /\ Counting /\ Timely /\ Stamps /\ Marked

-----------------------------------------------------------------------------
(* Sequences, and a counter that wraps.                                    *)

LEMMA Appended ==
  ASSUME NEW S, NEW s \in Seq(S), NEW x \in S
  PROVE  /\ Append(s, x) \in Seq(S) /\ Len(Append(s, x)) = Len(s) + 1
         /\ \A i \in 1..(Len(s) + 1) : Append(s, x)[i] = IF i <= Len(s) THEN s[i] ELSE x
OBVIOUS

LEMMA Headed ==
  ASSUME NEW S, NEW s \in Seq(S), s # <<>>
  PROVE  /\ Head(s) = s[1] /\ Head(s) \in S /\ 1 \in 1..Len(s)
         /\ Tail(s) \in Seq(S) /\ Len(Tail(s)) = Len(s) - 1 /\ Len(s) \in Nat \ {0}
         /\ \A i \in 1..Len(Tail(s)) : Tail(s)[i] = s[i + 1] /\ i + 1 \in 1..Len(s)
OBVIOUS

LEMMA Joined ==
  ASSUME NEW S, NEW s \in Seq(S), NEW t \in Seq(S)
  PROVE  /\ s \o t \in Seq(S) /\ Len(s \o t) = Len(s) + Len(t)
         /\ \A i \in 1..(Len(s) + Len(t)) :
              \/ i \in 1..Len(s) /\ (s \o t)[i] = s[i]
              \/ i - Len(s) \in 1..Len(t) /\ (s \o t)[i] = t[i - Len(s)]
OBVIOUS

LEMMA SeqMono ==
  ASSUME NEW s \in Seq(TrueTime)
  PROVE  s \in Seq(Nat)
<1>1. TrueTime \subseteq Nat
  BY ReportingAssumption DEF TrueTime
<1>2. QED
  BY <1>1, SeqMonotonic

LEMMA Wrapped ==
  ASSUME NEW n \in 0..(Wrap - 1)
  PROVE  /\ (n + 1) % Wrap \in 0..(Wrap - 1)
         /\ (n + 1) % Wrap = n + 1 \/ (n + 1) % Wrap = n + 1 - Wrap
BY ReportingAssumption

\* What has been heard stays so as more is heard, and as the time goes on.
LEMMA HeardThenLonger ==
  ASSUME NEW h \in Seq(Nat), NEW x \in Nat, NEW c \in Contact, NEW t, HeardThen(c, h, t)
  PROVE  HeardThen(c, Append(h, x), t)
<1>1. c.n \in 1..Len(h)
  <2>1. c.n \in 1..MaxContacts /\ c.n <= Len(h)
    BY DEF Contact, HeardThen
  <2>2. QED
    BY <2>1, ReportingAssumption
<1>2. c.n <= Len(Append(h, x)) /\ Append(h, x)[c.n] = h[c.n]
  BY <1>1, Appended
<1>3. QED
  BY <1>2 DEF HeardThen

LEMMA HeardThenLater ==
  ASSUME NEW h \in Seq(Nat), NEW c \in Contact, NEW t \in [now : Nat, boot : Nat], HeardThen(c, h, t)
  PROVE  HeardThen(c, h, [t EXCEPT !.now = @ + 1])
<1>1. c.n \in 1..Len(h)
  <2>1. c.n \in 1..MaxContacts /\ c.n <= Len(h)
    BY DEF Contact, HeardThen
  <2>2. QED
    BY <2>1, ReportingAssumption
<1>2. h[c.n] \in Nat /\ h[c.n] <= t.now /\ t.now \in Nat
  BY <1>1 DEF HeardThen
<1>3. h[c.n] <= t.now + 1
  BY <1>2
<1>4. [t EXCEPT !.now = @ + 1].now = t.now + 1 /\ [t EXCEPT !.now = @ + 1].boot = t.boot
  OBVIOUS
<1>5. QED
  BY <1>3, <1>4 DEF HeardThen

LEMMA StampedThenLonger ==
  ASSUME NEW h \in Seq(Nat), NEW x \in Nat, NEW s \in Seq(Stored), StampedThen(s, h)
  PROVE  StampedThen(s, Append(h, x))
<1> SUFFICES ASSUME NEW i \in 1..Len(s)
             PROVE  s[i].n <= Len(Append(h, x)) /\ s[i].at = Append(h, x)[s[i].n]
  BY DEF StampedThen
<1>1. s[i] \in Stored
  OBVIOUS
<1>2. s[i].n \in 1..MaxContacts /\ s[i].n <= Len(h) /\ s[i].at = h[s[i].n]
  BY <1>1 DEF StampedThen, Stored
<1>3. s[i].n \in 1..Len(h)
  BY <1>2, ReportingAssumption
<1>4. QED
  BY <1>2, <1>3, Appended

-----------------------------------------------------------------------------
(* The clocks.                                                             *)

LEMMA Clocks ==
  ASSUME TypeOK
  PROVE  /\ time.now \in Nat /\ time.boot \in Nat /\ time.boot <= time.now
         /\ time.now >= Epoch /\ time.now <= Epoch + MaxTime /\ time.boot >= Epoch
         /\ mono \in 1..(MaxTime + 1) /\ wall \in Time
<1>1. /\ time.now \in Nat /\ time.boot \in Nat /\ time.boot <= time.now
      /\ time.now >= Epoch /\ time.now <= Epoch + MaxTime /\ time.boot >= Epoch
  <2>1. time \in [now : TrueTime, boot : TrueTime] /\ time.boot <= time.now
    BY DEF TypeOK
  <2>2. QED
    BY <2>1, ReportingAssumption DEF TrueTime
<1>2. mono \in 1..(MaxTime + 1)
  BY <1>1, ReportingAssumption DEF mono
<1>3. wall \in Time
  BY <1>1, ReportingAssumption DEF wall, Time
<1>4. QED
  BY <1>1, <1>2, <1>3

LEMMA StampType ==
  ASSUME NEW w \in Time, NEW m \in Nat, NEW d \in Nat
  PROVE  contact_stamp(w, m, d) \in Time
<1> DEFINE age == IF d > 0 /\ m > d THEN m - d ELSE 0
<1>1. age \in Nat /\ w \in Nat /\ w <= Epoch + MaxTime
  BY ReportingAssumption DEF Time
<1>2. contact_stamp(w, m, d) = IF w >= age THEN w - age ELSE 0
  BY DEF contact_stamp
<1> HIDE DEF age
<1>3. QED
  BY <1>1, <1>2, ReportingAssumption DEF Time

\* A contact that is stamped when the board has the time is stamped with when it was heard.
LEMMA StampIsRight ==
  ASSUME TypeOK, "clock" \in ready, NEW c \in Contact, HeardThen(c, heard, time), heard[c.n] \in Nat
  PROVE  contact_stamp(wall, mono, c.decoded_us) = heard[c.n]
<1> DEFINE d == c.decoded_us
           h == heard[c.n]
           age == IF d > 0 /\ mono > d THEN mono - d ELSE 0
<1>1. /\ time.now \in Nat /\ time.boot \in Nat /\ time.boot <= time.now
      /\ wall = time.now /\ mono = time.now - time.boot + 1
  BY Clocks DEF wall, mono
<1>2. h \in Nat /\ time.boot <= h /\ h <= time.now /\ d = h - time.boot + 1
  BY DEF HeardThen
<1>3. contact_stamp(wall, mono, d) = IF wall >= age THEN wall - age ELSE 0
  BY DEF contact_stamp
<1> HIDE DEF h, d
<1>4. age = time.now - h
  BY <1>1, <1>2
<1> HIDE DEF age
<1>5. QED
  BY <1>1, <1>2, <1>3, <1>4 DEF h, d

-----------------------------------------------------------------------------
(* The books: where the contacts are, and what was counted.                *)

Balance(d, r, q, b, p, w, x, s, f, m, l) == d + r = (q + b + p + w) + x + s + f + m + l
Balanced == Balance(count.decoded, tally.relayed, Len(reports), Len(task.batch), Len(peer),
                    Len(task.forward), count.dropped, count.sent, tally.failed,
                    Pending("report"), Pending("link"))
Numbers ==
  /\ count.decoded \in Nat /\ count.dropped \in Nat /\ count.sent \in Nat /\ count.failed \in Nat
  /\ tally.relayed \in Nat /\ tally.failed \in Nat /\ tally.byLink \in Nat
  /\ Len(reports) \in Nat /\ Len(task.batch) \in Nat /\ Len(task.request) \in Nat
  /\ Len(peer) \in Nat /\ Len(task.forward) \in Nat
  /\ \A t \in Adders : adding[t].now \in Nat /\ adding[t].next \in Nat /\ Pending(t) \in Nat

\* A contact comes in: heard and queued or dropped, or relayed and put in the sensor's batch
\* or about to be counted.
LEMMA ComesIn ==
  ASSUME NEW d \in Nat, NEW r \in Nat, NEW q \in Nat, NEW b \in Nat, NEW p \in Nat, NEW w \in Nat,
         NEW x \in Nat, NEW s \in Nat, NEW f \in Nat, NEW m \in Nat, NEW l \in Nat,
         Balance(d, r, q, b, p, w, x, s, f, m, l)
  PROVE  /\ Balance(d + 1, r, q + 1, b, p, w, x, s, f, m, l)
         /\ Balance(d + 1, r, q, b, p, w, x + 1, s, f, m, l)
         /\ Balance(d, r + 1, q, b, p + 1, w, x, s, f, m, l)
         /\ Balance(d, r + 1, q, b, p, w, x, s, f, m, l + 1)
BY DEF Balance

\* An addition to failed_count is stored.
LEMMA ReportAdds ==
  ASSUME NEW d \in Nat, NEW r \in Nat, NEW q \in Nat, NEW b \in Nat, NEW p \in Nat, NEW w \in Nat,
         NEW x \in Nat, NEW s \in Nat, NEW f \in Nat, NEW l \in Nat, NEW n \in Nat, NEW o \in Nat,
         Balance(d, r, q, b, p, w, x, s, f, n + o, l)
  PROVE  Balance(d, r, q, b, p, w, x, s, f + n, o, l)
BY DEF Balance

LEMMA LinkAdds ==
  ASSUME NEW d \in Nat, NEW r \in Nat, NEW q \in Nat, NEW b \in Nat, NEW p \in Nat, NEW w \in Nat,
         NEW x \in Nat, NEW s \in Nat, NEW f \in Nat, NEW m \in Nat, NEW n \in Nat, NEW o \in Nat,
         Balance(d, r, q, b, p, w, x, s, f, m, n + o)
  PROVE  Balance(d, r, q, b, p, w, x, s, f + n, m, o)
BY DEF Balance

\* A batch has been posted, or that of the sensor; and the latter is taken.
LEMMA BatchSettles ==
  ASSUME NEW d \in Nat, NEW r \in Nat, NEW q \in Nat, NEW p \in Nat, NEW w \in Nat, NEW x \in Nat,
         NEW s \in Nat, NEW f \in Nat, NEW m \in Nat, NEW l \in Nat, NEW n \in Nat, NEW o \in Nat,
         Balance(d, r, q, n + o, p, w, x, s, f, m, l)
  PROVE  Balance(d, r, q, 0, p, w, x, s + n, f, m + o, l)
BY DEF Balance

LEMMA ForwardSettles ==
  ASSUME NEW d \in Nat, NEW r \in Nat, NEW q \in Nat, NEW b \in Nat, NEW p \in Nat, NEW x \in Nat,
         NEW s \in Nat, NEW f \in Nat, NEW m \in Nat, NEW l \in Nat, NEW n \in Nat, NEW o \in Nat,
         Balance(d, r, q, b, p, n + o, x, s, f, m, l)
  PROVE  Balance(d, r, q, b, p, 0, x, s + n, f, m + o, l)
BY DEF Balance

LEMMA PeerTaken ==
  ASSUME NEW d \in Nat, NEW r \in Nat, NEW q \in Nat, NEW b \in Nat, NEW x \in Nat, NEW s \in Nat,
         NEW f \in Nat, NEW m \in Nat, NEW l \in Nat, NEW n \in Nat, NEW o \in Nat,
         Balance(d, r, q, b, n, o, x, s, f, m, l)
  PROVE  Balance(d, r, q, b, o, n, x, s, f, m, l)
BY DEF Balance

LEMMA IsBalanced == InOnePlace <=> Balanced
BY DEF InOnePlace, Balanced, Balance, Waiting

LEMMA AreNumbers == ASSUME TypeOK PROVE Numbers
<1>1. count \in CountType /\ tally \in TallyType /\ adding \in AddingType /\ task \in TaskType
      /\ reports \in Seq(Contact) /\ peer \in Seq(BOOLEAN)
  BY DEF TypeOK, CountType, TallyType, AddingType, TaskType
<1>2. /\ count.decoded \in Nat /\ count.dropped \in Nat /\ count.sent \in Nat /\ count.failed \in Nat
      /\ tally.relayed \in Nat /\ tally.failed \in Nat /\ tally.byLink \in Nat
  BY <1>1 DEF CountType, TallyType
<1>3. /\ task.batch \in Seq(Contact) /\ task.request \in Seq(Stored) /\ task.forward \in Seq(BOOLEAN)
  BY <1>1 DEF TaskType
<1>4. /\ Len(reports) \in Nat /\ Len(task.batch) \in Nat /\ Len(task.request) \in Nat
      /\ Len(peer) \in Nat /\ Len(task.forward) \in Nat
  BY <1>1, <1>3
<1>5. \A t \in Adders : adding[t].now \in Nat /\ adding[t].next \in Nat
  BY <1>1 DEF AddingType
<1>6. QED
  BY <1>2, <1>4, <1>5 DEF Numbers, Pending

LEMMA NothingPending ==
  ASSUME Numbers, InHand, NEW t \in Adders, ~ Adds(t)
  PROVE  adding[t].now = 0 /\ adding[t].next = 0 /\ Pending(t) = 0
<1>1. adding[t].now \in Nat /\ ~ (adding[t].now > 0)
  BY DEF Numbers, Adds
<1>2. adding[t].now = 0
  BY <1>1
<1>3. QED
  BY <1>2 DEF InHand, Pending

\* A step that leaves the counters and the lengths of what they are about alone.
LEMMA Kept ==
  ASSUME InOnePlace, Counting, UNCHANGED <<count, adding, tally, peer>>,
         Len(reports') = Len(reports), Len(task'.batch) = Len(task.batch),
         task'.forward = task.forward
  PROVE  InOnePlace' /\ Counting'
<1>1. InOnePlace'
  BY DEF InOnePlace, Waiting, Pending
<1>2. Counting'
  BY DEF Counting
<1>3. QED
  BY <1>1, <1>2

\* What a task is about to add, and that it has yet to read what it adds it to.
LEMMA Asked ==
  ASSUME TypeOK, NEW t \in Adders, NEW now \in Nat, NEW next \in Nat, ToAdd(t, now, next)
  PROVE  /\ adding' \in AddingType
         /\ adding'[t].now = now /\ adding'[t].next = next /\ adding'[t].read = Unread
         /\ Pending(t)' = now + next
         /\ \A u \in Adders \ {t} : adding'[u] = adding[u] /\ Pending(u)' = Pending(u)
<1> DEFINE a == [now |-> now, next |-> next, read |-> Unread]
<1>1. adding \in AddingType /\ adding' = [adding EXCEPT ![t] = a]
  BY DEF TypeOK, AddingType, ToAdd
<1>2. /\ a \in [now : Nat, next : Nat, read : Nat \cup {Unread}]
      /\ a.now = now /\ a.next = next /\ a.read = Unread
  OBVIOUS
<1> HIDE DEF a
<1>3. adding' \in AddingType /\ adding'[t] = a /\ \A u \in Adders \ {t} : adding'[u] = adding[u]
  BY <1>1, <1>2 DEF AddingType
<1>4. QED
  BY <1>2, <1>3 DEF Pending

-----------------------------------------------------------------------------
(* The steps.                                                              *)

\* What a step has to show when it leaves the clock, what was heard and the rest alone.
LEMMA ContactTypes ==
  ASSUME TypeOK
  PROVE  /\ \A i \in 1..Len(reports) : reports[i] \in Contact
         /\ \A i \in 1..Len(task.batch) : task.batch[i] \in Contact
         /\ \A n \in 1..Len(heard) : heard[n] \in TrueTime /\ heard[n] \in Nat
         /\ Len(reports) \in Nat /\ Len(task.batch) \in Nat /\ Len(task.request) \in Nat
         /\ Len(heard) \in Nat
         /\ count \in CountType
         /\ task.batch \in Seq(Contact) /\ task.request \in Seq(Stored)
<1>1. /\ reports \in Seq(Contact) /\ heard \in Seq(TrueTime)
      /\ task \in TaskType
      /\ count \in CountType
  BY DEF TypeOK
<1>2. TrueTime \subseteq Nat
  BY ReportingAssumption DEF TrueTime
<1>3. task.batch \in Seq(Contact) /\ task.request \in Seq(Stored)
  BY <1>1
<1>4. (\A i \in 1..Len(reports) : reports[i] \in Contact) /\ Len(reports) \in Nat
  BY <1>1
<1>5. /\ \A i \in 1..Len(task.batch) : task.batch[i] \in Contact
      /\ Len(task.batch) \in Nat /\ Len(task.request) \in Nat
  BY <1>3
<1>6. (\A n \in 1..Len(heard) : heard[n] \in TrueTime) /\ Len(heard) \in Nat
  BY <1>1
<1>7. QED
  BY <1>1, <1>2, <1>3, <1>4, <1>5, <1>6

LEMMA Initially == Init => IInv
<1> SUFFICES ASSUME Init PROVE IInv
  OBVIOUS
<1>1. Epoch \in TrueTime /\ 0 \in 0..(MaxTime + 1) /\ 0 \in 0..(Wrap - 1) /\ 0 \in 0..MaxFaults
      /\ Epoch <= Epoch
  BY ReportingAssumption DEF TrueTime
<1>2. Idle \in TaskType /\ Idle.batch = <<>> /\ Idle.request = <<>> /\ Idle.forward = <<>>
  BY DEF Idle, TaskType
<1>3. /\ NoneCounted \in CountType /\ NoneTallied \in TallyType
      /\ [t \in Adders |-> Nothing] \in AddingType
  BY DEF NoneCounted, CountType, NoneTallied, TallyType, Nothing, AddingType
<1>4. TypeOK
  <2>1. time \in [now : TrueTime, boot : TrueTime] /\ time.boot <= time.now
    BY <1>1 DEF Init
  <2>2. ready \subseteq Bits
    BY DEF Init, Bits
  <2>3. /\ reports \in Seq(Contact) /\ Len(reports) <= Depth
        /\ Len(task.batch) <= BatchMax /\ Len(task.request) <= Len(task.batch)
        /\ peer \in Seq(BOOLEAN)
        /\ heard \in Seq(TrueTime) /\ Len(heard) <= MaxContacts
        /\ received \in Seq(Stored)
    BY <1>2, ReportingAssumption DEF Init
  <2>4. /\ seen \in [total : 0..(Wrap - 1), since : 0..(Wrap - 1)]
        /\ mark \in [seen : 0..(Wrap - 1), dropped : Nat]
        /\ last \in 0..(MaxTime + 1) /\ faults \in 0..MaxFaults
    BY <1>1 DEF Init
  <2>5. QED
    BY <1>2, <1>3, <2>1, <2>2, <2>3, <2>4 DEF Init, TypeOK, TaskType, CountType, AddingType, TallyType
<1>5. InHand
  <2>1. \A t \in Adders : adding[t].next = 0
    BY DEF Init, Nothing
  <2>2. QED
    BY <2>1, <1>2 DEF Init, InHand, Idle
<1>6. InOnePlace /\ Counting
  BY <1>2 DEF Init, InOnePlace, Waiting, Pending, Counting, NoneCounted, NoneTallied, Nothing, Adders
<1>7. Timely /\ Stamps
  BY <1>2 DEF Init, Timely, AllHeardThen, Stamps, StampedThen
<1>8. Marked
  BY DEF Init, Marked
<1>9. QED
  BY <1>4, <1>5, <1>6, <1>7, <1>8 DEF IInv

LEMMA TickKeeps == ASSUME IInv, Tick PROVE IInv'
<1>1. /\ time' = [time EXCEPT !.now = @ + 1] /\ time.now < Epoch + MaxTime
      /\ UNCHANGED <<ready, reports, seen, heard, task, peer, count, adding, tally, mark, last,
                     received, told, faults>>
  BY DEF Tick, radio, counters, health, server
<1>2. /\ time.now \in Nat /\ time.boot \in Nat /\ time.boot <= time.now /\ time.now >= Epoch
      /\ time \in [now : TrueTime, boot : TrueTime]
  BY Clocks DEF IInv, TypeOK
<1>3. time' \in [now : TrueTime, boot : TrueTime] /\ time'.boot <= time'.now
      /\ time'.now = time.now + 1 /\ time'.boot = time.boot
  BY <1>1, <1>2, ReportingAssumption DEF TrueTime
<1>4. TypeOK'
  BY <1>1, <1>3 DEF IInv, TypeOK
<1>5. InHand' /\ InOnePlace' /\ Counting' /\ Marked'
  BY <1>1 DEF IInv, InHand, InOnePlace, Waiting, Pending, Counting, Marked
<1>6. Timely'
  <2>1. heard \in Seq(Nat) /\ time \in [now : Nat, boot : Nat]
    BY <1>2, SeqMono DEF IInv, TypeOK
  <2>2. \A c \in Contact : HeardThen(c, heard, time) => HeardThen(c, heard, [time EXCEPT !.now = @ + 1])
    BY <2>1, HeardThenLater
  <2>3. \A c \in Contact : HeardThen(c, heard, time) => HeardThen(c, heard', time')
    BY <2>2, <1>1
  <2>4. QED
    BY <2>3, <1>1, ContactTypes DEF Timely, AllHeardThen, IInv
<1>7. Stamps'
  BY <1>1 DEF IInv, Stamps
<1>8. QED
  BY <1>4, <1>5, <1>6, <1>7 DEF IInv

\* The network, the time server and the owner.
LEMMA BitKeeps ==
  ASSUME IInv, (\E bit \in Bits : Becomes(bit)) \/ Disconnected
  PROVE  IInv'
<1>1. /\ ready' \subseteq Bits /\ faults' \in 0..MaxFaults
      /\ UNCHANGED <<time, reports, seen, heard, task, peer, count, adding, tally, mark, last,
                     received, told>>
  <2>1. ready \subseteq Bits /\ faults \in 0..MaxFaults
    BY DEF IInv, TypeOK
  <2>2. CASE \E bit \in Bits : Becomes(bit)
    BY <2>1, <2>2 DEF Becomes, radio, counters, health, server
  <2>3. CASE Disconnected
    BY <2>1, <2>3, ReportingAssumption DEF Disconnected, Fault, radio, counters, health, server
  <2>4. QED
    BY <2>2, <2>3
<1>2. TypeOK'
  BY <1>1 DEF IInv, TypeOK
<1>3. InHand' /\ InOnePlace' /\ Counting' /\ Marked'
  BY <1>1 DEF IInv, InHand, InOnePlace, Waiting, Pending, Counting, Marked
<1>4. Timely' /\ Stamps'
  BY <1>1 DEF IInv, Timely, Stamps
<1>5. QED
  BY <1>2, <1>3, <1>4 DEF IInv

\* gap_callback.
LEMMA Counted ==
  ASSUME IInv, CountSeen, UNCHANGED mark
  PROVE  seen' \in [total : 0..(Wrap - 1), since : 0..(Wrap - 1)] /\ Marked'
<1> DEFINE total == (seen.total + 1) % Wrap
<1>1. /\ seen \in [total : 0..(Wrap - 1), since : 0..(Wrap - 1)]
      /\ mark.seen \in Nat
  BY ReportingAssumption DEF IInv, TypeOK
<1>2. /\ seen' = [total |-> total, since |-> seen.since + 1] /\ seen.since < Wrap - 1
  BY DEF CountSeen
<1>3. total \in 0..(Wrap - 1) /\ (total = seen.total + 1 \/ total = seen.total + 1 - Wrap)
  BY <1>1, Wrapped
<1> HIDE DEF total
<1>4. seen.since + 1 \in 0..(Wrap - 1) /\ seen.since \in Nat /\ seen.total \in Nat /\ seen.total < Wrap
  BY <1>1, <1>2, ReportingAssumption
<1>5. seen.total = mark.seen + seen.since \/ seen.total = mark.seen + seen.since - Wrap
  BY DEF IInv, Marked
<1>6. total = mark.seen + (seen.since + 1) \/ total = mark.seen + (seen.since + 1) - Wrap
  <2>1. total \in Nat /\ Wrap \in Nat
    BY <1>3, ReportingAssumption
  <2>2. mark.seen < Wrap
    <3>1. mark \in [seen : 0..(Wrap - 1), dropped : Nat]
      BY DEF IInv, TypeOK
    <3>2. QED
      BY <3>1, ReportingAssumption
  <2>3. CASE seen.total = mark.seen + seen.since
    BY <2>1, <2>3, <1>1, <1>3, <1>4
  <2>4. CASE seen.total = mark.seen + seen.since - Wrap
    <3>1. total # seen.total + 1 - Wrap
      BY <2>1, <2>2, <2>4, <1>1, <1>4
    <3>2. QED
      BY <3>1, <2>1, <2>4, <1>1, <1>3, <1>4
  <2>5. QED
    BY <2>3, <2>4, <1>5
<1>7. seen'.total = total /\ seen'.since = seen.since + 1
  BY <1>2
<1>8. seen' \in [total : 0..(Wrap - 1), since : 0..(Wrap - 1)]
  BY <1>2, <1>3, <1>4
<1>9. Marked'
  BY <1>6, <1>7 DEF Marked
<1>10. QED
  BY <1>8, <1>9

LEMMA AdvertisementKeeps == ASSUME IInv, Advertisement PROVE IInv'
<1>1. /\ CountSeen
      /\ UNCHANGED <<time, ready, reports, heard, task, peer, count, adding, tally, mark, last,
                     received, told, faults>>
  BY DEF Advertisement, counters, health, server
<1>2. seen' \in [total : 0..(Wrap - 1), since : 0..(Wrap - 1)] /\ Marked'
  BY <1>1, Counted
<1>3. TypeOK'
  BY <1>1, <1>2 DEF IInv, TypeOK
<1>4. InHand' /\ InOnePlace' /\ Counting' /\ Timely' /\ Stamps'
  BY <1>1 DEF IInv, InHand, InOnePlace, Waiting, Pending, Counting, Timely, Stamps
<1>5. QED
  BY <1>2, <1>3, <1>4 DEF IInv

LEMMA DetectionKeeps == ASSUME IInv, Detection PROVE IInv'
<1> DEFINE c == [n |-> Len(heard) + 1, decoded_us |-> mono]
           fits == Len(reports) < Depth
<1>1. /\ CountSeen /\ Len(heard) < MaxContacts
      /\ heard' = Append(heard, time.now)
      /\ count' = Enqueued
      /\ reports' = IF fits THEN Append(reports, c) ELSE reports
      /\ UNCHANGED <<time, ready, task, peer, adding, tally, mark, last, received, told, faults>>
  BY DEF Detection, counters, health, server
<1>2. TypeOK
  BY DEF IInv
<1>3. seen' \in [total : 0..(Wrap - 1), since : 0..(Wrap - 1)] /\ Marked'
  BY <1>1, Counted
<1>4. /\ time.now \in TrueTime /\ time.boot \in Nat /\ time.now \in Nat /\ time.boot <= time.now
      /\ mono \in 1..(MaxTime + 1) /\ mono = time.now - time.boot + 1
      /\ heard \in Seq(TrueTime) /\ Len(heard) \in Nat
      /\ reports \in Seq(Contact) /\ Len(reports) \in Nat
  BY <1>2, Clocks, ContactTypes DEF TypeOK, mono
<1>5. /\ heard' \in Seq(TrueTime) /\ Len(heard') = Len(heard) + 1
      /\ heard'[Len(heard) + 1] = time.now
      /\ \A n \in 1..Len(heard) : heard'[n] = heard[n]
  BY <1>1, <1>4, Appended
<1>6. c \in Contact /\ c.n = Len(heard) + 1 /\ c.decoded_us = mono
  BY <1>1, <1>4, ReportingAssumption DEF Contact
<1> HIDE DEF c
<1>7. /\ reports' \in Seq(Contact) /\ Len(reports') <= Depth
      /\ Len(reports') = IF fits THEN Len(reports) + 1 ELSE Len(reports)
      /\ \A i \in 1..Len(reports') : (i \in 1..Len(reports) /\ reports'[i] = reports[i]) \/ reports'[i] = c
  <2>1. Len(reports) <= Depth
    BY <1>2 DEF TypeOK
  <2>2. CASE fits
    BY <2>2, <1>1, <1>4, <1>6, Appended, ReportingAssumption
  <2>3. CASE ~ fits
    BY <2>1, <2>3, <1>1, <1>4
  <2>4. QED
    BY <2>2, <2>3
<1>8. /\ count' \in CountType
      /\ count'.decoded = count.decoded + 1 /\ count'.sent = count.sent /\ count'.failed = count.failed
      /\ count'.dropped = IF fits THEN count.dropped ELSE count.dropped + 1
  <2> DEFINE more == count.decoded + 1
             drops == IF fits THEN count.dropped ELSE count.dropped + 1
  <2>1. count \in CountType
    BY <1>2 DEF TypeOK
  <2>2. more \in Nat /\ drops \in Nat
    BY <2>1
  <2>3. count' = [count EXCEPT !.decoded = more, !.dropped = drops]
    BY <1>1 DEF Enqueued
  <2> HIDE DEF more, drops
  <2>4. /\ count' \in CountType
        /\ count'.decoded = more /\ count'.sent = count.sent /\ count'.failed = count.failed
        /\ count'.dropped = drops
    BY <2>1, <2>2, <2>3
  <2>5. QED
    BY <2>4 DEF more, drops
<1>9. TypeOK'
  <2>1. Len(heard') <= MaxContacts
    BY <1>1, <1>4, <1>5, ReportingAssumption
  <2>2. QED
    BY <2>1, <1>1, <1>2, <1>3, <1>5, <1>7, <1>8 DEF TypeOK
<1>10. InHand'
  BY <1>1 DEF IInv, InHand
<1>11. InOnePlace' /\ Counting'
  <2>1. Balanced /\ Numbers
    BY <1>2, IsBalanced, AreNumbers DEF IInv
  <2>2. /\ count'.decoded = count.decoded + 1 /\ count'.sent = count.sent
        /\ count'.failed = count.failed /\ UNCHANGED <<task, peer, adding, tally>>
        /\ \/ Len(reports') = Len(reports) + 1 /\ count'.dropped = count.dropped
           \/ Len(reports') = Len(reports) /\ count'.dropped = count.dropped + 1
    BY <1>1, <1>7, <1>8
  <2>3. /\ Pending("report")' = Pending("report") /\ Pending("link")' = Pending("link")
        /\ Pending("report") \in Nat /\ Pending("link") \in Nat
    BY <2>1, <2>2 DEF Pending, Numbers, Adders
  <2>4. Balanced'
    <3>1. /\ Balance(count.decoded + 1, tally.relayed, Len(reports) + 1, Len(task.batch), Len(peer),
                     Len(task.forward), count.dropped, count.sent, tally.failed,
                     Pending("report"), Pending("link"))
          /\ Balance(count.decoded + 1, tally.relayed, Len(reports), Len(task.batch), Len(peer),
                     Len(task.forward), count.dropped + 1, count.sent, tally.failed,
                     Pending("report"), Pending("link"))
      BY <2>1, <2>3, ComesIn DEF Balanced, Numbers
    <3>2. QED
      BY <3>1, <2>2, <2>3 DEF Balanced
  <2>5. Counting'
    BY <2>2 DEF IInv, Counting
  <2>6. QED
    BY <2>4, <2>5 DEF InOnePlace, Balanced, Balance, Waiting
<1>12. Timely'
  <2>1. heard \in Seq(Nat)
    BY <1>4, SeqMono
  <2>2. \A d \in Contact : HeardThen(d, heard, time) => HeardThen(d, heard', time')
    BY <2>1, <1>1, <1>4, HeardThenLonger
  <2>3. HeardThen(c, heard', time')
    BY <1>1, <1>4, <1>5, <1>6 DEF HeardThen
  <2>4. AllHeardThen(reports', heard', time')
    <3>1. \A i \in 1..Len(reports) : reports[i] \in Contact /\ HeardThen(reports[i], heard, time)
      BY <1>2, ContactTypes DEF IInv, Timely, AllHeardThen
    <3>2. QED
      BY <3>1, <2>2, <2>3, <1>7 DEF AllHeardThen
  <2>5. AllHeardThen(task.batch, heard', time')
    <3>1. \A i \in 1..Len(task.batch) : task.batch[i] \in Contact /\ HeardThen(task.batch[i], heard, time)
      BY <1>2, ContactTypes DEF IInv, Timely, AllHeardThen
    <3>2. QED
      BY <3>1, <2>2 DEF AllHeardThen
  <2>6. QED
    BY <2>4, <2>5, <1>1 DEF Timely
<1>13. Stamps'
  <2>1. heard \in Seq(Nat)
    BY <1>4, SeqMono
  <2>2. received \in Seq(Stored) /\ task.request \in Seq(Stored)
    BY <1>2, ContactTypes DEF TypeOK
  <2>3. StampedThen(received, heard') /\ StampedThen(task.request, heard')
    BY <2>1, <2>2, <1>1, <1>4, StampedThenLonger DEF IInv, Stamps
  <2>4. QED
    BY <2>3, <1>1 DEF Stamps
<1>14. QED
  BY <1>3, <1>9, <1>10, <1>11, <1>12, <1>13 DEF IInv

\* The link task, and failed_count.
LEMMA PeerContactKeeps == ASSUME IInv, PeerContact PROVE IInv'
<1>1. /\ UNCHANGED <<time, ready, seen, heard, reports, task, count, mark, last, received, told, faults>>
      /\ tally' = [tally EXCEPT !.relayed = @ + 1]
      /\ ~ Adds("link")
  BY DEF PeerContact, radio, health, server
<1>2. TypeOK /\ peer \in Seq(BOOLEAN) /\ adding \in AddingType /\ tally \in TallyType
      /\ Balanced /\ Numbers
  BY IsBalanced, AreNumbers DEF IInv, TypeOK, AddingType, TallyType
<1>3. /\ tally' \in TallyType /\ tally'.relayed = tally.relayed + 1
      /\ tally'.failed = tally.failed /\ tally'.byLink = tally.byLink
  BY <1>1, <1>2 DEF TallyType
<1>4. Pending("report") \in Nat /\ Pending("link") \in Nat /\ "report" \in Adders /\ "link" \in Adders
      /\ "report" \in Adders \ {"link"}
  BY <1>2 DEF Numbers, Adders
<1>5. CASE Len(peer) < PeerFit
  <2>1. UNCHANGED adding /\ peer' = Append(peer, contact_stamp(wall, mono, 0) = time.now)
    BY <1>5 DEF PeerContact
  <2>2. peer' \in Seq(BOOLEAN) /\ Len(peer') = Len(peer) + 1
    BY <2>1, <1>2
  <2>3. Balanced'
    <3>1. Pending("report")' = Pending("report") /\ Pending("link")' = Pending("link")
      BY <2>1 DEF Pending
    <3>2. Balance(count.decoded, tally.relayed + 1, Len(reports), Len(task.batch), Len(peer) + 1,
                  Len(task.forward), count.dropped, count.sent, tally.failed,
                  Pending("report"), Pending("link"))
      BY <1>2, <1>4, ComesIn DEF Balanced, Numbers
    <3>3. QED
      BY <3>1, <3>2, <2>2, <1>1, <1>3 DEF Balanced
  <2>4. Counting'
    BY <2>1, <1>1, <1>3 DEF IInv, Counting
  <2>5. TypeOK'
    BY <1>1, <1>2, <1>3, <2>1, <2>2 DEF TypeOK, TallyType
  <2>6. InHand' /\ Timely' /\ Stamps' /\ Marked'
    BY <1>1, <2>1 DEF IInv, InHand, Timely, Stamps, Marked
  <2>7. QED
    BY <2>3, <2>4, <2>5, <2>6 DEF IInv, InOnePlace, Balanced, Balance, Waiting
<1>6. CASE ~ (Len(peer) < PeerFit)
  <2>1. ToAdd("link", 1, 0) /\ UNCHANGED peer
    BY <1>6 DEF PeerContact
  <2>2. /\ adding' \in AddingType /\ adding'["link"].read = Unread
        /\ adding'["report"] = adding["report"]
        /\ Pending("link")' = 1 + 0 /\ Pending("report")' = Pending("report")
    BY <2>1, <1>2, <1>4, Asked
  <2>3. Pending("link") = 0
    BY <1>1, <1>2, <1>4, NothingPending DEF IInv
  <2>4. Balanced'
    <3>1. Balance(count.decoded, tally.relayed + 1, Len(reports), Len(task.batch), Len(peer),
                  Len(task.forward), count.dropped, count.sent, tally.failed,
                  Pending("report"), Pending("link") + 1)
      BY <1>2, <1>4, ComesIn DEF Balanced, Numbers
    <3>2. Pending("link")' = Pending("link") + 1
      BY <2>2, <2>3
    <3>3. QED
      BY <3>1, <3>2, <2>1, <2>2, <1>1, <1>3 DEF Balanced
  <2>5. Counting'
    BY <2>2, <1>1, <1>3 DEF IInv, Counting, Adders
  <2>6. TypeOK'
    BY <1>1, <1>2, <1>3, <2>1, <2>2 DEF TypeOK, TallyType, AddingType
  <2>7. InHand' /\ Timely' /\ Stamps' /\ Marked'
    <3>1. adding'["link"].next = 0
      BY <2>1, <1>2, <1>4, Asked
    <3>2. \A t \in Adders : adding'[t].now = 0 => adding'[t].next = 0
      BY <3>1, <2>2 DEF IInv, InHand, Adders
    <3>3. QED
      BY <3>2, <1>1 DEF IInv, InHand, Timely, Stamps, Marked
  <2>8. QED
    BY <2>4, <2>5, <2>6, <2>7 DEF IInv, InOnePlace, Balanced, Balance, Waiting
<1>7. QED
  BY <1>5, <1>6

LEMMA LoadKeeps == ASSUME IInv, NEW t \in Adders, Load(t) PROVE IInv'
<1>1. /\ adding' = [adding EXCEPT ![t].read = count.failed]
      /\ UNCHANGED <<time, ready, seen, heard, reports, task, peer, count, tally, mark, last, received,
                     told, faults>>
  BY DEF Load, radio, health, server
<1>2. TypeOK /\ adding \in AddingType /\ Numbers
  BY AreNumbers DEF IInv, TypeOK, AddingType
<1>3. /\ adding' \in AddingType
      /\ adding'[t].read = count.failed /\ adding'[t].now = adding[t].now /\ adding'[t].next = adding[t].next
      /\ \A u \in Adders \ {t} : adding'[u] = adding[u]
  BY <1>1, <1>2 DEF AddingType, Numbers
<1>4. \A u \in Adders : adding'[u].now = adding[u].now /\ adding'[u].next = adding[u].next
  BY <1>3
<1>5. InOnePlace'
  BY <1>1, <1>4 DEF IInv, InOnePlace, Waiting, Pending, Adders
<1>6. Counting'
  BY <1>1, <1>3 DEF IInv, Counting, Adders
<1>7. TypeOK'
  BY <1>1, <1>2, <1>3 DEF TypeOK, AddingType
<1>8. InHand' /\ Timely' /\ Stamps' /\ Marked'
  BY <1>1, <1>4 DEF IInv, InHand, Timely, Stamps, Marked
<1>9. QED
  BY <1>5, <1>6, <1>7, <1>8 DEF IInv

LEMMA StoreKeeps == ASSUME IInv, NEW t \in Adders, Store(t) PROVE IInv'
<1> DEFINE now == adding[t].now
           more == adding[t].read + now
           link == IF t = "link" THEN tally.byLink + now ELSE tally.byLink
<1>1. /\ adding[t].read # Unread /\ now > 0
      /\ count' = [count EXCEPT !.failed = more]
      /\ tally' = [tally EXCEPT !.failed = @ + now, !.byLink = link]
      /\ ToAdd(t, adding[t].next, 0)
      /\ UNCHANGED <<time, ready, seen, heard, reports, task, peer, mark, last, received, told, faults>>
  BY DEF Store, Adds, radio, health, server
<1>2. /\ TypeOK /\ count \in CountType /\ tally \in TallyType /\ adding \in AddingType
      /\ Balanced /\ Numbers
  BY IsBalanced, AreNumbers DEF IInv, TypeOK, CountType, TallyType, AddingType
<1>3. /\ now \in Nat /\ adding[t].next \in Nat /\ adding[t].read \in Nat
      /\ more \in Nat /\ link \in Nat /\ tally.failed + now \in Nat
      /\ tally.failed \in Nat /\ tally.byLink \in Nat
  <2>1. adding[t] \in [now : Nat, next : Nat, read : Nat \cup {Unread}]
    BY <1>2 DEF AddingType
  <2>2. now \in Nat /\ adding[t].next \in Nat /\ adding[t].read \in Nat
    BY <2>1, <1>1
  <2>3. tally.failed \in Nat /\ tally.byLink \in Nat
    BY <1>2 DEF Numbers
  <2>4. QED
    BY <2>2, <2>3
<1>4. /\ adding' \in AddingType /\ adding'[t].read = Unread /\ adding'[t].next = 0
      /\ Pending(t)' = adding[t].next + 0
      /\ \A u \in Adders \ {t} : adding'[u] = adding[u] /\ Pending(u)' = Pending(u)
  BY <1>1, <1>2, <1>3, Asked
<1>5. Pending(t) = now + adding[t].next /\ Pending(t) = now + Pending(t)'
  BY <1>3, <1>4 DEF Pending
<1>6. more <= tally.failed + now
  <2>1. adding[t].read <= tally.failed
    BY <1>1 DEF IInv, Counting
  <2>2. QED
    BY <2>1, <1>3
<1>7. t = "report" /\ tally.byLink = 0 => more = tally.failed + now
  BY <1>1, <1>3 DEF IInv, Counting
<1>8. t = "link" => link > 0
  BY <1>1, <1>3
<1>9. t = "report" => link = tally.byLink
  OBVIOUS
<1> HIDE DEF now, more, link
<1>10. /\ count' \in CountType /\ count'.decoded = count.decoded /\ count'.dropped = count.dropped
       /\ count'.sent = count.sent /\ count'.failed = more
       /\ tally' \in TallyType /\ tally'.relayed = tally.relayed /\ tally'.failed = tally.failed + now
       /\ tally'.byLink = link
  BY <1>1, <1>2, <1>3 DEF CountType, TallyType
<1>11. Balanced'
  <2>1. /\ Pending("report") \in Nat /\ Pending("link") \in Nat
        /\ Pending("report")' \in Nat /\ Pending("link")' \in Nat
        /\ \/ Pending("report") = now + Pending("report")' /\ Pending("link")' = Pending("link")
           \/ Pending("link") = now + Pending("link")' /\ Pending("report")' = Pending("report")
    <3>1. CASE t = "report"
      BY <3>1, <1>2, <1>3, <1>4, <1>5 DEF Numbers, Adders
    <3>2. CASE t = "link"
      BY <3>2, <1>2, <1>3, <1>4, <1>5 DEF Numbers, Adders
    <3>3. QED
      BY <3>1, <3>2 DEF Adders
  <2>2. Balance(count.decoded, tally.relayed, Len(reports), Len(task.batch), Len(peer),
                Len(task.forward), count.dropped, count.sent, tally.failed + now,
                Pending("report")', Pending("link")')
    <3>1. CASE Pending("report") = now + Pending("report")' /\ Pending("link")' = Pending("link")
      <4>1. Balance(count.decoded, tally.relayed, Len(reports), Len(task.batch), Len(peer),
                    Len(task.forward), count.dropped, count.sent, tally.failed, now + Pending("report")', Pending("link")')
        BY <3>1, <1>2 DEF Balanced
      <4>2. QED
        BY <4>1, <2>1, <1>2, <1>3, ReportAdds DEF Numbers
    <3>2. CASE Pending("link") = now + Pending("link")' /\ Pending("report")' = Pending("report")
      <4>1. Balance(count.decoded, tally.relayed, Len(reports), Len(task.batch), Len(peer),
                    Len(task.forward), count.dropped, count.sent, tally.failed, Pending("report")', now + Pending("link")')
        BY <3>2, <1>2 DEF Balanced
      <4>2. QED
        BY <4>1, <2>1, <1>2, <1>3, LinkAdds DEF Numbers
    <3>3. QED
      BY <3>1, <3>2, <2>1
  <2>3. QED
    BY <2>2, <1>1, <1>10 DEF Balanced
<1>12. Counting'
  <2>1. count'.failed <= tally'.failed
    BY <1>6, <1>10
  <2>2. ASSUME NEW u \in Adders PROVE adding'[u].read = Unread \/ adding'[u].read <= tally'.failed
    <3>1. CASE u = t
      BY <3>1, <1>4
    <3>2. CASE u # t
      <4>1. adding'[u] = adding[u] /\ adding[u].read \in Nat \cup {Unread}
        BY <3>2, <1>2, <1>4 DEF AddingType
      <4>2. adding[u].read = Unread \/ adding[u].read <= tally.failed
        BY DEF IInv, Counting
      <4>3. QED
        BY <4>1, <4>2, <1>3, <1>10
    <3>3. QED
      BY <3>1, <3>2
  <2>3. ASSUME tally'.byLink = 0
        PROVE  /\ count'.failed = tally'.failed
               /\ adding'["report"].read = Unread \/ adding'["report"].read = count'.failed
    <3>1. t = "report"
      BY <2>3, <1>8, <1>10 DEF Adders
    <3>2. QED
      BY <2>3, <3>1, <1>4, <1>7, <1>9, <1>10
  <2>4. QED
    BY <2>1, <2>2, <2>3 DEF Counting
<1>13. TypeOK'
  BY <1>1, <1>2, <1>4, <1>10 DEF TypeOK, CountType, TallyType, AddingType
<1>14. InHand' /\ Timely' /\ Stamps' /\ Marked'
  BY <1>1, <1>4 DEF IInv, InHand, Timely, Stamps, Marked
<1>15. QED
  BY <1>11, <1>12, <1>13, <1>14 DEF IInv, InOnePlace, Balanced, Balance, Waiting

\* reporting_task: what is left of the queue without its first contact, and a batch with it.
LEMMA TakenFromQueue ==
  ASSUME IInv, reports # <<>>, NEW b \in Seq(Contact), AllHeardThen(b, heard, time), Len(b) < BatchMax
  PROVE  /\ Append(b, Head(reports)) \in Seq(Contact) /\ Len(Append(b, Head(reports))) = Len(b) + 1
         /\ Len(b) + 1 <= BatchMax
         /\ Tail(reports) \in Seq(Contact) /\ Len(reports) \in Nat
         /\ Len(Tail(reports)) = Len(reports) - 1 /\ Len(Tail(reports)) <= Depth
         /\ AllHeardThen(Append(b, Head(reports)), heard, time)
         /\ AllHeardThen(Tail(reports), heard, time)
<1>1. reports \in Seq(Contact) /\ Len(reports) <= Depth
  BY DEF IInv, TypeOK
<1>2. /\ Head(reports) = reports[1] /\ Head(reports) \in Contact /\ 1 \in 1..Len(reports)
      /\ Tail(reports) \in Seq(Contact) /\ Len(Tail(reports)) = Len(reports) - 1
      /\ Len(reports) \in Nat \ {0}
      /\ \A i \in 1..Len(Tail(reports)) : Tail(reports)[i] = reports[i + 1] /\ i + 1 \in 1..Len(reports)
  BY <1>1, Headed
<1>3. \A i \in 1..Len(reports) : HeardThen(reports[i], heard, time)
  BY DEF IInv, Timely, AllHeardThen
<1>4. AllHeardThen(Tail(reports), heard, time)
  BY <1>2, <1>3 DEF AllHeardThen
<1>5. HeardThen(Head(reports), heard, time)
  BY <1>2, <1>3
<1>6. /\ Append(b, Head(reports)) \in Seq(Contact) /\ Len(Append(b, Head(reports))) = Len(b) + 1
      /\ \A i \in 1..(Len(b) + 1) : Append(b, Head(reports))[i] = IF i <= Len(b) THEN b[i] ELSE Head(reports)
  BY <1>2, Appended
<1>7. AllHeardThen(Append(b, Head(reports)), heard, time)
  <2>1. \A i \in 1..(Len(b) + 1) : i <= Len(b) => i \in 1..Len(b)
    OBVIOUS
  <2>2. QED
    BY <2>1, <1>5, <1>6 DEF AllHeardThen
<1>8. Len(b) + 1 <= BatchMax /\ Len(Tail(reports)) <= Depth
  <2>1. Len(b) \in Nat /\ Len(reports) \in Nat /\ BatchMax \in Nat /\ Depth \in Nat
    BY <1>1, ReportingAssumption
  <2>2. QED
    BY <2>1, <1>1, <1>2
<1>9. QED
  BY <1>2, <1>4, <1>6, <1>7, <1>8

LEMMA ReceiveKeeps == ASSUME IInv, Receive \/ TakeMore PROVE IInv'
<1>1. UNCHANGED <<time, ready, seen, heard, peer, count, adding, tally, mark, last, received,
                  told, faults>>
  BY DEF Receive, TakeMore, counters, health, server
<1>2. /\ TypeOK /\ InHand
      /\ task \in TaskType
      /\ Len(task.request) <= Len(task.batch)
  BY DEF IInv, TypeOK, TaskType
<1>3. Stamps' /\ Marked' /\ task'.request = <<>> /\ task.request = <<>>
  <2>1. task'.request = task.request /\ task.request = <<>>
    BY <1>2 DEF Receive, TakeMore, Goto, InHand, At
  <2>2. QED
    BY <2>1, <1>1 DEF IInv, Stamps, Marked
<1>4. CASE Receive /\ reports = <<>>
  <2>1. task' = [task EXCEPT !.pc = "flush"] /\ reports' = reports /\ task.batch = <<>>
    BY <1>2, <1>4 DEF Receive, Goto, InHand, At
  <2>2. TypeOK'
    BY <2>1, <1>1, <1>2 DEF TypeOK
  <2>3. InHand' /\ Timely'
    <3>1. task'.pc = "flush" /\ task'.batch = <<>> /\ task'.request = <<>> /\ task'.forward = <<>>
      BY <2>1, <1>2, <1>3, <1>4 DEF InHand, Receive, At
    <3>2. QED
      BY <3>1, <2>1, <1>1, <1>2 DEF IInv, InHand, Timely
  <2>4. InOnePlace' /\ Counting'
    BY <2>1, <1>1, <1>2, Kept DEF IInv
  <2>5. QED
    BY <2>2, <2>3, <2>4, <1>3 DEF IInv
<1>5. CASE (Receive /\ reports # <<>>) \/ TakeMore
  <2> DEFINE b == Append(task.batch, Head(reports))
  <2>1. /\ task.batch \in Seq(Contact) /\ Len(task.batch) \in Nat /\ Len(task.batch) < BatchMax
        /\ AllHeardThen(task.batch, heard, time)
    <3>1. task.batch \in Seq(Contact) /\ AllHeardThen(task.batch, heard, time)
      BY <1>2 DEF IInv, Timely
    <3>2. CASE Receive
      BY <3>1, <3>2, <1>2, ReportingAssumption DEF Receive, InHand, At
    <3>3. CASE TakeMore
      BY <3>1, <3>3 DEF TakeMore
    <3>4. QED
      BY <3>1, <3>2, <3>3, <1>5
  <2>2. task'.batch = b /\ task'.request = <<>> /\ task'.pc = "taking" /\ reports # <<>>
        /\ reports' = Tail(reports) /\ task'.forward = task.forward /\ task.forward = <<>>
        /\ task' = [pc |-> "taking", batch |-> b, request |-> <<>>, forward |-> <<>>]
    <3>1. CASE Receive /\ reports # <<>>
      <4>1. task.batch = <<>>
        BY <3>1, <1>2 DEF Receive, InHand, At
      <4>2. <<Head(reports)>> = b
        BY <4>1
      <4>3. /\ task' = [task EXCEPT !.pc = "taking", !.batch = <<Head(reports)>>]
            /\ reports' = Tail(reports) /\ task.forward = <<>>
        BY <3>1, <1>2 DEF Receive, InHand, At
      <4>4. QED
        BY <4>2, <4>3, <3>1, <1>2, <1>3
    <3>2. CASE TakeMore
      <4>1. task' = [task EXCEPT !.batch = b] /\ reports' = Tail(reports) /\ task.pc = "taking"
            /\ reports # <<>> /\ task.forward = <<>>
        BY <3>2, <1>2 DEF TakeMore, InHand, At
      <4>2. QED
        BY <4>1, <1>2, <1>3
    <3>3. QED
      BY <3>1, <3>2, <1>5
  <2>3. /\ b \in Seq(Contact) /\ Len(b) = Len(task.batch) + 1 /\ Len(task.batch) + 1 <= BatchMax
        /\ Tail(reports) \in Seq(Contact) /\ Len(Tail(reports)) = Len(reports) - 1
        /\ Len(Tail(reports)) <= Depth /\ Len(reports) \in Nat
        /\ AllHeardThen(b, heard, time) /\ AllHeardThen(Tail(reports), heard, time)
    BY <2>1, <2>2, TakenFromQueue
  <2> HIDE DEF b
  <2>4. TypeOK'
    <3>1. /\ task' \in TaskType
          /\ Len(task'.request) = 0
      BY <2>2, <2>3
    <3>2. Len(task'.batch) <= BatchMax /\ Len(task'.request) <= Len(task'.batch)
      BY <3>1, <2>1, <2>2, <2>3
    <3>3. QED
      BY <3>1, <3>2, <2>2, <2>3, <1>1, <1>2 DEF TypeOK
  <2>5. InHand'
    BY <2>2, <1>1, <1>2 DEF InHand
  <2>6. InOnePlace' /\ Counting'
    <3>1. Balanced /\ Numbers
      BY <1>2, IsBalanced, AreNumbers DEF IInv
    <3>2. /\ Len(reports') + Len(task'.batch) = Len(reports) + Len(task.batch)
          /\ Len(reports') \in Nat /\ Len(task'.batch) \in Nat
      BY <2>1, <2>2, <2>3
    <3>3. task'.forward = task.forward /\ UNCHANGED <<count, adding, tally, peer>>
      BY <2>2, <1>1
    <3>4. /\ Pending("report")' = Pending("report") /\ Pending("link")' = Pending("link")
          /\ Pending("report") \in Nat /\ Pending("link") \in Nat
      BY <3>1, <3>3 DEF Pending, Numbers, Adders
    <3>5. Balanced'
      BY <3>1, <3>2, <3>3, <3>4 DEF Balanced, Balance, Numbers
    <3>6. Counting'
      BY <3>3 DEF IInv, Counting
    <3>7. QED
      BY <3>5, <3>6 DEF InOnePlace, Balanced, Balance, Waiting
  <2>7. Timely'
    BY <2>2, <2>3, <1>1 DEF Timely
  <2>8. QED
    BY <2>4, <2>5, <2>6, <2>7, <1>3 DEF IInv
<1>6. QED
  BY <1>4, <1>5

\* uplink_report_batch.
LEMMA NotReadyKeeps == ASSUME IInv, NotReady PROVE IInv'
<1> DEFINE b == Len(task.batch)
<1>1. /\ task.pc = "taking" /\ ~ Adds("report") /\ ToAdd("report", b, 0)
      /\ task' = [task EXCEPT !.pc = "flush", !.batch = <<>>]
      /\ UNCHANGED <<time, ready, seen, heard, reports, peer, count, tally, mark, last, received,
                     told, faults>>
  BY DEF NotReady, At, radio, health, server
<1>2. /\ TypeOK /\ Balanced /\ Numbers /\ task \in TaskType
      /\ task.request = <<>> /\ task.forward = <<>>
  BY <1>1, IsBalanced, AreNumbers DEF IInv, TypeOK, InHand
<1>3. b \in Nat /\ "report" \in Adders /\ "link" \in Adders \ {"report"}
      /\ Pending("report") = 0 /\ Pending("link") \in Nat
  BY <1>1, <1>2, NothingPending DEF Numbers, Adders, IInv
<1>4. /\ adding' \in AddingType /\ adding'["report"].read = Unread
      /\ adding'["report"].now = b /\ adding'["report"].next = 0
      /\ adding'["link"] = adding["link"]
      /\ Pending("report")' = b + 0 /\ Pending("link")' = Pending("link")
  BY <1>1, <1>2, <1>3, Asked
<1>5. /\ task' \in TaskType /\ task'.pc = "flush"
      /\ task'.batch = <<>> /\ task'.request = <<>> /\ task'.forward = <<>>
  <2>1. <<>> \in Seq(Contact)
    OBVIOUS
  <2>2. QED
    BY <2>1, <1>1, <1>2
<1>6. TypeOK'
  <2>1. Len(task'.batch) <= BatchMax /\ Len(task'.request) <= Len(task'.batch)
    BY <1>5, ReportingAssumption
  <2>2. QED
    BY <2>1, <1>1, <1>2, <1>4, <1>5 DEF TypeOK, AddingType
<1>7. Balanced'
  <2>1. Len(task'.batch) = 0 /\ Len(task'.forward) = 0 /\ Len(task.forward) = 0
    BY <1>2, <1>5
  <2>2. Balance(count.decoded, tally.relayed, Len(reports), 0, Len(peer), Len(task.forward),
                count.dropped, count.sent + 0, tally.failed, Pending("report") + b, Pending("link"))
    <3>1. Balance(count.decoded, tally.relayed, Len(reports), 0 + b, Len(peer),
                  Len(task.forward), count.dropped, count.sent, tally.failed, Pending("report"), Pending("link"))
      BY <1>2, <1>3 DEF Balanced
    <3>2. QED
      BY <3>1, <1>2, <1>3, BatchSettles DEF Numbers
  <2>3. count.sent + 0 = count.sent /\ Pending("report")' = Pending("report") + b
    BY <1>2, <1>3, <1>4 DEF Numbers
  <2>4. QED
    BY <2>1, <2>2, <2>3, <1>1, <1>4 DEF Balanced
<1>8. Counting'
  BY <1>1, <1>4 DEF IInv, Counting, Adders
<1>9. InHand' /\ Timely' /\ Stamps' /\ Marked'
  BY <1>1, <1>4, <1>5 DEF IInv, InHand, Timely, AllHeardThen, Stamps, StampedThen, Marked, Adders
<1>10. QED
  BY <1>6, <1>7, <1>8, <1>9 DEF IInv, InOnePlace, Balanced, Balance, Waiting

LEMMA PackKeeps == ASSUME IInv, Pack PROVE IInv'
<1>1. /\ task.pc = "taking" /\ "clock" \in ready
      /\ UNCHANGED <<time, ready, seen, heard, reports, peer, count, adding, tally, mark, last, received,
                     told, faults>>
  BY DEF Pack, At, uplink_ready, Bits, radio, counters, health, server
<1>2. PICK n \in 1..Len(task.batch) : task' = [task EXCEPT !.pc = "post", !.request = Packed(n)]
  BY DEF Pack
<1>3. /\ TypeOK /\ task.batch \in Seq(Contact) /\ Len(task.batch) \in Nat
      /\ \A i \in 1..Len(task.batch) : task.batch[i] \in Contact /\ HeardThen(task.batch[i], heard, time)
      /\ task \in TaskType
  BY ContactTypes DEF IInv, TypeOK, Timely, AllHeardThen
<1>4. n \in Nat /\ n <= Len(task.batch) /\ \A i \in 1..n : i \in 1..Len(task.batch)
  BY <1>3
<1>5. \A i \in 1..n :
        /\ Stamped(task.batch[i]) \in Stored
        /\ Stamped(task.batch[i]).n <= Len(heard)
        /\ Stamped(task.batch[i]).at = heard[Stamped(task.batch[i]).n]
  <2> SUFFICES ASSUME NEW i \in 1..n
               PROVE  /\ Stamped(task.batch[i]) \in Stored
                      /\ Stamped(task.batch[i]).n <= Len(heard)
                      /\ Stamped(task.batch[i]).at = heard[Stamped(task.batch[i]).n]
    OBVIOUS
  <2> DEFINE c == task.batch[i]
  <2>1. c \in Contact /\ HeardThen(c, heard, time)
    BY <1>3, <1>4
  <2> HIDE DEF c
  <2>2. c.n \in 1..MaxContacts /\ c.n <= Len(heard) /\ c.decoded_us \in Nat
    BY <2>1, ReportingAssumption DEF Contact, HeardThen
  <2>3. heard[c.n] \in Nat
    <3>1. c.n \in 1..Len(heard)
      BY <1>3, <2>2, ContactTypes, ReportingAssumption
    <3>2. QED
      BY <3>1, <1>3, ContactTypes
  <2>4. contact_stamp(wall, mono, c.decoded_us) = heard[c.n]
    BY <1>1, <1>3, <2>1, <2>3, StampIsRight
  <2>5. contact_stamp(wall, mono, c.decoded_us) \in Time
    <3>1. wall \in Time /\ mono \in Nat
      BY <1>3, Clocks, ReportingAssumption
    <3>2. QED
      BY <3>1, <2>2, StampType
  <2>6. Stamped(c) = [n |-> c.n, at |-> contact_stamp(wall, mono, c.decoded_us)]
    BY DEF Stamped
  <2>7. QED
    BY <2>2, <2>4, <2>5, <2>6 DEF Stored, c
<1>6. /\ Packed(n) \in Seq(Stored) /\ Len(Packed(n)) = n
      /\ \A i \in 1..n : Packed(n)[i] = Stamped(task.batch[i])
  <2>1. Packed(n) = [i \in 1..n |-> Stamped(task.batch[i])]
    BY DEF Packed
  <2>2. Packed(n) \in [1..n -> Stored]
    BY <2>1, <1>5
  <2>3. QED
    BY <2>1, <2>2, <1>4
<1>7. /\ task' \in TaskType
      /\ task'.pc = "post" /\ task'.batch = task.batch /\ task'.request = Packed(n)
      /\ task'.forward = task.forward
  BY <1>2, <1>3, <1>6
<1>8. TypeOK'
  <2>1. Len(task'.batch) <= BatchMax /\ Len(task'.request) <= Len(task'.batch)
    BY <1>3, <1>4, <1>6, <1>7 DEF TypeOK
  <2>2. QED
    BY <2>1, <1>1, <1>3, <1>7 DEF TypeOK
<1>9. InHand' /\ InOnePlace' /\ Counting' /\ Timely' /\ Marked'
  <2>1. InOnePlace' /\ Counting'
    BY <1>1, <1>7, Kept DEF IInv
  <2>2. QED
    <3>1. task'.request # <<>> /\ task.forward = <<>>
      BY <1>1, <1>4, <1>6, <1>7 DEF IInv, InHand
    <3>2. QED
      BY <2>1, <3>1, <1>1, <1>7 DEF IInv, InHand, Timely, Marked
<1>10. Stamps'
  <2>1. StampedThen(Packed(n), heard)
    BY <1>5, <1>6 DEF StampedThen
  <2>2. QED
    BY <2>1, <1>1, <1>7 DEF IInv, Stamps
<1>11. QED
  BY <1>8, <1>9, <1>10 DEF IInv

LEMMA PostKeeps ==
  ASSUME IInv, NEW stored \in BOOLEAN, NEW sent \in BOOLEAN, Post(stored, sent),
         faults' \in 0..MaxFaults
  PROVE  IInv'
<1> DEFINE b == Len(task.batch)
           r == Len(task.request)
           now == IF sent THEN b - r ELSE r
           next == IF sent THEN 0 ELSE b - r
           more == IF sent THEN count.sent + r ELSE count.sent
           some == IF sent THEN r ELSE 0
<1>1. /\ task.pc = "post" /\ ~ Adds("report") /\ Outcome(sent)
      /\ received' = IF stored THEN received \o task.request ELSE received
      /\ task' = [task EXCEPT !.pc = "flush", !.batch = <<>>, !.request = <<>>]
      /\ UNCHANGED <<time, ready, seen, heard, reports, peer, tally, mark, last, told>>
  BY DEF Post, At, radio, health
<1>2. /\ TypeOK /\ received \in Seq(Stored) /\ task.request \in Seq(Stored) /\ r <= b
      /\ Balanced /\ Numbers /\ count \in CountType /\ task.forward = <<>>
  BY <1>1, ContactTypes, IsBalanced, AreNumbers DEF IInv, TypeOK, InHand
<1>3. b \in Nat /\ r \in Nat /\ "report" \in Adders /\ "link" \in Adders \ {"report"}
      /\ Pending("report") = 0 /\ Pending("link") \in Nat
  BY <1>1, <1>2, NothingPending DEF Numbers, Adders, IInv
<1>4. /\ now \in Nat /\ next \in Nat /\ more \in Nat /\ some \in Nat
      /\ more = count.sent + some /\ b = some + (now + next)
      /\ now = 0 => next = 0
  <2>1. task.request # <<>>
    BY <1>1 DEF IInv, InHand
  <2>2. r > 0
    BY <2>1, <1>2
  <2>3. count.sent \in Nat
    BY <1>2 DEF Numbers
  <2>4. r <= b
    BY <1>2
  <2> HIDE DEF b, r
  <2>5. CASE sent
    BY <2>3, <2>4, <2>5, <1>3
  <2>6. CASE ~ sent
    BY <2>2, <2>3, <2>4, <2>6, <1>3
  <2>7. QED
    BY <2>5, <2>6
<1>5. /\ ToAdd("report", now, next)
      /\ count' = [count EXCEPT !.sent = more]
  <2>1. CASE sent
    BY <2>1, <1>1 DEF Outcome, Remainder
  <2>2. CASE ~ sent
    <3>1. ToAdd("report", now, next) /\ UNCHANGED count
      BY <2>2, <1>1 DEF Outcome, Remainder
    <3>2. [count EXCEPT !.sent = count.sent] = count
      BY <1>2
    <3>3. QED
      BY <3>1, <3>2, <2>2
  <2>3. QED
    BY <2>1, <2>2
<1> HIDE DEF now, next, more, some
<1>6. /\ count' \in CountType /\ count'.decoded = count.decoded /\ count'.dropped = count.dropped
      /\ count'.sent = more /\ count'.failed = count.failed
      /\ adding' \in AddingType /\ adding'["report"].read = Unread
      /\ adding'["report"].now = now /\ adding'["report"].next = next
      /\ adding'["link"] = adding["link"]
      /\ Pending("report")' = now + next /\ Pending("link")' = Pending("link")
  <2>1. /\ count' \in CountType /\ count'.decoded = count.decoded /\ count'.dropped = count.dropped
        /\ count'.sent = more /\ count'.failed = count.failed
    BY <1>2, <1>4, <1>5
  <2>2. /\ adding' \in AddingType /\ adding'["report"].read = Unread
        /\ adding'["report"].now = now /\ adding'["report"].next = next
        /\ adding'["link"] = adding["link"]
        /\ Pending("report")' = now + next /\ Pending("link")' = Pending("link")
    BY <1>2, <1>3, <1>4, <1>5, Asked
  <2>3. QED
    BY <2>1, <2>2
<1>7. /\ task' \in TaskType
      /\ task'.pc = "flush" /\ task'.batch = <<>> /\ task'.request = <<>> /\ task'.forward = <<>>
  <2>1. task \in TaskType
    BY <1>2 DEF TypeOK
  <2>2. <<>> \in Seq(Contact) /\ <<>> \in Seq(Stored)
    OBVIOUS
  <2>3. task'.pc = "flush" /\ task'.batch = <<>> /\ task'.request = <<>> /\ task'.forward = <<>>
    BY <2>1, <1>1, <1>2
  <2>4. QED
    BY <2>1, <2>2, <2>3, <1>1
<1>8. received' \in Seq(Stored) /\ StampedThen(received', heard)
  <2>1. StampedThen(received, heard) /\ StampedThen(task.request, heard)
    BY DEF IInv, Stamps
  <2>2. /\ received \o task.request \in Seq(Stored)
        /\ Len(received \o task.request) = Len(received) + Len(task.request)
        /\ \A i \in 1..(Len(received) + Len(task.request)) :
             \/ i \in 1..Len(received) /\ (received \o task.request)[i] = received[i]
             \/ i - Len(received) \in 1..Len(task.request)
                /\ (received \o task.request)[i] = task.request[i - Len(received)]
    BY <1>2, Joined
  <2>3. StampedThen(received \o task.request, heard)
    BY <2>1, <2>2 DEF StampedThen
  <2>4. QED
    BY <2>1, <2>2, <2>3, <1>1, <1>2
<1>9. TypeOK'
  <2>1. Len(task'.batch) <= BatchMax /\ Len(task'.request) <= Len(task'.batch)
    BY <1>7, ReportingAssumption
  <2>2. QED
    BY <2>1, <1>1, <1>2, <1>6, <1>7, <1>8 DEF TypeOK, AddingType
<1>10. Balanced'
  <2>1. Len(task'.batch) = 0 /\ Len(task'.forward) = 0 /\ Len(task.forward) = 0
    BY <1>2, <1>7
  <2>2. UNCHANGED <<reports, peer, tally>>
    BY <1>1
  <2>3. Balance(count.decoded, tally.relayed, Len(reports), 0, Len(peer), Len(task.forward),
                count.dropped, count.sent + some, tally.failed, Pending("report") + (now + next),
                Pending("link"))
    <3>1. now + next \in Nat
      BY <1>4
    <3>2. Balance(count.decoded, tally.relayed, Len(reports), some + (now + next), Len(peer),
                  Len(task.forward), count.dropped, count.sent, tally.failed, Pending("report"), Pending("link"))
      BY <1>2, <1>4 DEF Balanced
    <3>3. QED
      BY <3>1, <3>2, <1>2, <1>3, <1>4, BatchSettles DEF Numbers
  <2>4. Pending("report")' = Pending("report") + (now + next)
    BY <1>3, <1>4, <1>6
  <2>5. QED
    BY <2>1, <2>2, <2>3, <2>4, <1>4, <1>6 DEF Balanced
<1>11. Counting'
  BY <1>1, <1>6 DEF IInv, Counting, Adders
<1>12. InHand' /\ Timely' /\ Stamps' /\ Marked'
  <2>1. InHand'
    BY <1>4, <1>6, <1>7 DEF IInv, InHand, Adders
  <2>2. QED
    BY <2>1, <1>1, <1>7, <1>8 DEF IInv, Timely, AllHeardThen, Stamps, StampedThen, Marked
<1>13. QED
  BY <1>9, <1>10, <1>11, <1>12 DEF IInv, InOnePlace, Balanced, Balance, Waiting

\* uplink_flush_peer, and the wait for the next heartbeat.
LEMMA FlushKeeps == ASSUME IInv, NoFlush \/ NotDue \/ Flush PROVE IInv'
<1>1. /\ task.pc \in {"flush", "beat"}
      /\ UNCHANGED <<time, ready, seen, heard, reports, count, adding, tally, mark, last, received,
                     told, faults>>
  BY DEF NoFlush, Flush, NotDue, Goto, At, radio, counters, health, server
<1>2. /\ TypeOK /\ task.batch = <<>> /\ task.request = <<>> /\ task.forward = <<>>
      /\ task \in TaskType /\ peer \in Seq(BOOLEAN) /\ Balanced /\ Numbers
  BY <1>1, IsBalanced, AreNumbers DEF IInv, TypeOK, InHand
<1>3. /\ task' \in TaskType /\ task'.batch = <<>> /\ task'.request = <<>> /\ task'.pc # "post"
      /\ task'.pc # "forward" => task'.forward = <<>>
      /\ peer' \in Seq(BOOLEAN)
      /\ \/ Len(peer') = Len(peer) /\ Len(task'.forward) = Len(task.forward)
         \/ Len(peer') = Len(task.forward) /\ Len(task'.forward) = Len(peer)
  <2>1. CASE NoFlush \/ NotDue
    <3>1. peer' = peer /\ \E pc \in {"receive", "beat"} : task' = [task EXCEPT !.pc = pc]
      BY <2>1 DEF NoFlush, NotDue, Goto
    <3>2. QED
      BY <3>1, <1>2
  <2>2. CASE Flush
    <3>1. peer' = <<>> /\ task' = [task EXCEPT !.pc = "forward", !.forward = peer]
      BY <2>2 DEF Flush
    <3>2. <<>> \in Seq(BOOLEAN) /\ Len(peer) \in Nat
      BY <1>2
    <3>3. /\ task' \in TaskType /\ task'.batch = <<>> /\ task'.request = <<>>
          /\ task'.pc = "forward" /\ task'.forward = peer
      BY <3>1, <1>2
    <3>4. QED
      BY <3>1, <3>2, <3>3, <1>2
  <2>3. QED
    BY <2>1, <2>2
<1>4. TypeOK'
  BY <1>1, <1>2, <1>3, ReportingAssumption DEF TypeOK
<1>5. Balanced'
  <2>1. Pending("report")' = Pending("report") /\ Pending("link")' = Pending("link")
        /\ Pending("report") \in Nat /\ Pending("link") \in Nat
    BY <1>1, <1>2 DEF Pending, Numbers, Adders
  <2>2. Balance(count.decoded, tally.relayed, Len(reports), Len(task.batch), Len(peer'),
                Len(task'.forward), count.dropped, count.sent, tally.failed,
                Pending("report"), Pending("link"))
    <3>1. Balance(count.decoded, tally.relayed, Len(reports), Len(task.batch), Len(peer),
                  Len(task.forward), count.dropped, count.sent, tally.failed, Pending("report"), Pending("link"))
      BY <1>2 DEF Balanced
    <3>2. Balance(count.decoded, tally.relayed, Len(reports), Len(task.batch), Len(task.forward),
                  Len(peer), count.dropped, count.sent, tally.failed, Pending("report"), Pending("link"))
      BY <3>1, <2>1, <1>2, PeerTaken DEF Numbers
    <3>3. QED
      BY <3>1, <3>2, <1>3
  <2>3. QED
    BY <2>1, <2>2, <1>1, <1>2, <1>3 DEF Balanced
<1>6. Counting' /\ Timely' /\ Stamps' /\ Marked'
  BY <1>1, <1>2, <1>3 DEF IInv, Counting, Timely, Stamps, Marked
<1>7. InHand'
  BY <1>1, <1>3 DEF IInv, InHand
<1>8. QED
  BY <1>4, <1>5, <1>6, <1>7 DEF IInv, InOnePlace, Balanced, Balance, Waiting

LEMMA ForwardKeeps ==
  ASSUME IInv, NEW sent \in BOOLEAN, Forward(sent), faults' \in 0..MaxFaults
  PROVE  IInv'
<1> DEFINE w == Len(task.forward)
           more == IF sent THEN count.sent + w ELSE count.sent
           lost == IF sent THEN 0 ELSE w
           some == IF sent THEN w ELSE 0
<1>1. /\ task.pc = "forward" /\ ~ Adds("report")
      /\ task' = [task EXCEPT !.pc = "beat", !.forward = <<>>]
      /\ UNCHANGED <<time, ready, seen, heard, reports, peer, tally, mark, last, received, told>>
  BY DEF Forward, At, radio, health, server
<1>2. /\ TypeOK /\ task.batch = <<>> /\ task.request = <<>> /\ task \in TaskType
      /\ Balanced /\ Numbers /\ count \in CountType /\ adding \in AddingType
  BY <1>1, IsBalanced, AreNumbers DEF IInv, TypeOK, InHand, AddingType
<1>3. w \in Nat /\ "report" \in Adders /\ "link" \in Adders \ {"report"}
      /\ Pending("report") = 0 /\ Pending("link") \in Nat /\ count.sent \in Nat /\ w + 0 = w
      /\ adding["report"].next = 0
  BY <1>1, <1>2, NothingPending DEF Numbers, Adders, IInv
<1>4. /\ more \in Nat /\ lost \in Nat /\ some \in Nat
      /\ more = count.sent + some /\ w = some + lost
  <2> HIDE DEF w
  <2>1. QED
    BY <1>3
<1>5. /\ count' \in CountType /\ count'.decoded = count.decoded /\ count'.dropped = count.dropped
      /\ count'.sent = more /\ count'.failed = count.failed
      /\ adding' \in AddingType /\ adding'["link"] = adding["link"]
      /\ adding'["report"].read \in {Unread, adding["report"].read} /\ adding'["report"].next = 0
      /\ Pending("report")' = lost /\ Pending("link")' = Pending("link")
  <2>1. CASE sent
    <3>1. count' = [count EXCEPT !.sent = more] /\ UNCHANGED adding
      BY <2>1 DEF Forward
    <3>2. Pending("report")' = 0 /\ Pending("link")' = Pending("link")
      <4>1. Pending("report")' = Pending("report") /\ Pending("link")' = Pending("link")
        BY <3>1 DEF Pending
      <4>2. QED
        BY <4>1, <1>3
    <3>3. /\ count' \in CountType /\ count'.decoded = count.decoded /\ count'.dropped = count.dropped
          /\ count'.sent = more /\ count'.failed = count.failed
      BY <3>1, <1>2, <1>4
    <3>4. lost = 0
      BY <2>1
    <3>5. QED
      BY <3>1, <3>2, <3>3, <3>4, <1>2, <1>3
  <2>2. CASE ~ sent
    <3>1. ToAdd("report", w, 0) /\ UNCHANGED count
      BY <2>2 DEF Forward
    <3>2. /\ adding' \in AddingType /\ adding'["report"].read = Unread /\ adding'["report"].next = 0
          /\ adding'["link"] = adding["link"]
          /\ Pending("report")' = w + 0 /\ Pending("link")' = Pending("link")
      BY <3>1, <1>2, <1>3, Asked
    <3>3. QED
      BY <2>2, <3>1, <3>2, <1>2, <1>3, <1>4
  <2>3. QED
    BY <2>1, <2>2
<1> HIDE DEF more, lost, some
<1>6. /\ task' \in TaskType /\ task'.pc = "beat"
      /\ task'.batch = <<>> /\ task'.request = <<>> /\ task'.forward = <<>>
  <2>1. <<>> \in Seq(BOOLEAN)
    OBVIOUS
  <2>2. QED
    BY <2>1, <1>1, <1>2
<1>7. TypeOK'
  BY <1>1, <1>2, <1>5, <1>6, ReportingAssumption DEF TypeOK, AddingType
<1>8. Balanced'
  <2>1. Len(task'.forward) = 0 /\ task'.batch = task.batch /\ UNCHANGED <<reports, peer, tally>>
    BY <1>1, <1>2, <1>6
  <2>2. Balance(count.decoded, tally.relayed, Len(reports), Len(task.batch), Len(peer), 0,
                count.dropped, count.sent + some, tally.failed, Pending("report") + lost,
                Pending("link"))
    <3>1. Balance(count.decoded, tally.relayed, Len(reports), Len(task.batch), Len(peer),
                  some + lost, count.dropped, count.sent, tally.failed, Pending("report"), Pending("link"))
      BY <1>2, <1>4 DEF Balanced
    <3>2. QED
      BY <3>1, <1>2, <1>3, <1>4, ForwardSettles DEF Numbers
  <2>3. Pending("report")' = Pending("report") + lost
    BY <1>3, <1>4, <1>5
  <2>4. QED
    BY <2>1, <2>2, <2>3, <1>4, <1>5 DEF Balanced
<1>9. Counting' /\ Timely' /\ Stamps' /\ Marked'
  <2>1. Counting'
    BY <1>1, <1>5 DEF IInv, Counting, Adders
  <2>2. QED
    BY <2>1, <1>1, <1>2, <1>6 DEF IInv, Timely, Stamps, Marked
<1>10. InHand'
  BY <1>5, <1>6 DEF IInv, InHand, Adders
<1>11. QED
  BY <1>7, <1>8, <1>9, <1>10 DEF IInv, InOnePlace, Balanced, Balance, Waiting

\* send_heartbeat.
LEMMA BeatKeeps ==
  ASSUME IInv, NEW delivered \in BOOLEAN, Beat(delivered), UNCHANGED ready, faults' \in 0..MaxFaults
  PROVE  IInv'
<1>1. /\ task.pc = "beat" /\ task' = [task EXCEPT !.pc = "receive"]
      /\ last' = mono /\ mark' = [seen |-> seen.total, dropped |-> count.dropped]
      /\ seen' = [seen EXCEPT !.since = 0]
      /\ told' = IF delivered THEN Problem ELSE told
      /\ UNCHANGED <<time, ready, heard, reports, peer, count, adding, tally, received>>
  BY DEF Beat, Goto, At, counters
<1>2. /\ TypeOK /\ task.batch = <<>> /\ task.request = <<>> /\ task.forward = <<>>
      /\ task \in TaskType
      /\ seen \in [total : 0..(Wrap - 1), since : 0..(Wrap - 1)]
      /\ count \in CountType
      /\ told \in {"none", "ble_stream_down", "detections_not_queued"}
  BY <1>1 DEF IInv, TypeOK, InHand
<1>3. /\ task' \in TaskType
      /\ task'.batch = task.batch /\ task'.request = task.request
      /\ task'.forward = task.forward /\ task'.pc = "receive" /\ task.forward = <<>>
  BY <1>1, <1>2
<1>4. /\ seen' \in [total : 0..(Wrap - 1), since : 0..(Wrap - 1)]
      /\ mark' \in [seen : 0..(Wrap - 1), dropped : Nat]
      /\ mark'.seen = seen.total /\ seen'.total = seen.total /\ seen'.since = 0
  <2>1. 0 \in 0..(Wrap - 1)
    BY ReportingAssumption
  <2>2. QED
    BY <2>1, <1>1, <1>2
<1>5. last' \in 0..(MaxTime + 1)
  <2>1. mono \in 1..(MaxTime + 1)
    BY <1>2, Clocks
  <2>2. QED
    BY <2>1, <1>1, ReportingAssumption
<1>6. told' \in {"none", "ble_stream_down", "detections_not_queued"}
  BY <1>1, <1>2 DEF Problem
<1>7. TypeOK'
  BY <1>1, <1>2, <1>3, <1>4, <1>5, <1>6 DEF TypeOK
<1>8. Marked'
  <2>1. seen.total \in Nat
    BY <1>2, ReportingAssumption
  <2>2. seen.total = seen.total + 0
    BY <2>1
  <2>3. QED
    BY <2>2, <1>4, Zenon DEF Marked
<1>9. InHand' /\ InOnePlace' /\ Counting' /\ Timely' /\ Stamps'
  <2>1. InOnePlace' /\ Counting'
    BY <1>1, <1>3, Kept DEF IInv
  <2>2. QED
    BY <2>1, <1>1, <1>2, <1>3 DEF IInv, InHand, Timely, Stamps
<1>10. QED
  BY <1>7, <1>8, <1>9 DEF IInv

LEMMA PowerLostKeeps == ASSUME IInv, PowerLost PROVE IInv'
<1>1. /\ time' = [time EXCEPT !.boot = time.now] /\ ready' = ready \cap {"claimed"}
      /\ reports' = <<>> /\ task' = Idle /\ peer' = <<>>
      /\ seen' = [total |-> 0, since |-> 0] /\ count' = NoneCounted
      /\ adding' = [t \in Adders |-> Nothing] /\ tally' = NoneTallied
      /\ mark' = [seen |-> 0, dropped |-> 0] /\ last' = 0
      /\ faults < MaxFaults /\ faults' = faults + 1
      /\ UNCHANGED <<heard, received, told>>
  BY DEF PowerLost, Fault, server
<1>2. TypeOK
  BY DEF IInv
<1>3. /\ Idle \in TaskType
      /\ Idle.batch = <<>> /\ Idle.request = <<>> /\ Idle.forward = <<>> /\ Idle.pc = "receive"
      /\ NoneCounted \in CountType /\ NoneTallied \in TallyType
      /\ [t \in Adders |-> Nothing] \in AddingType
  BY DEF Idle, NoneCounted, NoneTallied, TallyType, Nothing, AddingType
<1>4. time' \in [now : TrueTime, boot : TrueTime] /\ time'.boot <= time'.now
  <2>1. time \in [now : TrueTime, boot : TrueTime] /\ time.now \in Nat
    BY <1>2, Clocks DEF TypeOK
  <2>2. time'.boot = time.now /\ time'.now = time.now
    BY <2>1, <1>1
  <2>3. QED
    BY <2>1, <2>2, <1>1
<1>5. 0 \in 0..(MaxTime + 1) /\ 0 \in 0..(Wrap - 1) /\ faults' \in 0..MaxFaults
  <2>1. faults \in 0..MaxFaults
    BY <1>2 DEF TypeOK
  <2>2. QED
    BY <2>1, <1>1, ReportingAssumption
<1>6. /\ reports' \in Seq(Contact) /\ Len(reports') <= Depth
      /\ Len(task'.batch) <= BatchMax /\ Len(task'.request) <= Len(task'.batch)
      /\ peer' \in Seq(BOOLEAN)
  BY <1>1, <1>3, ReportingAssumption
<1>7. TypeOK'
  <2>1. ready' \subseteq Bits
    BY <1>1, <1>2 DEF TypeOK
  <2>2. /\ seen' \in [total : 0..(Wrap - 1), since : 0..(Wrap - 1)]
        /\ mark' \in [seen : 0..(Wrap - 1), dropped : Nat]
        /\ last' \in 0..(MaxTime + 1)
    BY <1>1, <1>5
  <2>3. QED
    BY <2>1, <2>2, <1>1, <1>2, <1>3, <1>4, <1>5, <1>6 DEF TypeOK, AddingType, TallyType
<1>8. InHand' /\ Timely'
  BY <1>1, <1>3 DEF InHand, Timely, AllHeardThen, Nothing, Adders
<1>9. InOnePlace' /\ Counting' /\ Marked'
  <2>1. /\ Len(reports') = 0 /\ Len(task'.batch) = 0 /\ Len(peer') = 0 /\ Len(task'.forward) = 0
        /\ \A t \in Adders : adding'[t].now = 0 /\ adding'[t].next = 0 /\ adding'[t].read = Unread
    BY <1>1, <1>3 DEF Nothing
  <2>2. InOnePlace' /\ Counting'
    BY <2>1, <1>1 DEF InOnePlace, Waiting, Pending, Counting, NoneCounted, NoneTallied, Adders
  <2>3. Marked'
    BY <1>1 DEF Marked
  <2>4. QED
    BY <2>2, <2>3
<1>10. Stamps'
  BY <1>1, <1>3 DEF IInv, Stamps, StampedThen
<1>11. QED
  BY <1>7, <1>8, <1>9, <1>10 DEF IInv

-----------------------------------------------------------------------------
(* The invariant, and the theorems.                                        *)

LEMMA NextKeeps == ASSUME IInv, [Next]_vars PROVE IInv'
<1>1. faults \in 0..MaxFaults /\ (Fault => faults' \in 0..MaxFaults)
  <2>1. faults \in 0..MaxFaults
    BY DEF IInv, TypeOK
  <2>2. QED
    BY <2>1, ReportingAssumption DEF Fault
<1>2. CASE gap_callback \/ PeerContact \/ Tick
  BY <1>2, AdvertisementKeeps, DetectionKeeps, PeerContactKeeps, TickKeeps DEF gap_callback
<1>3. CASE Receive \/ TakeMore \/ NotReady \/ Pack \/ NoFlush \/ Flush \/ NotDue
  BY <1>3, ReceiveKeeps, NotReadyKeeps, PackKeeps, FlushKeeps
<1>4. CASE Posted \/ Unreachable \/ PostFails
  <2>1. \E stored \in BOOLEAN, sent \in BOOLEAN : Post(stored, sent) /\ faults' \in 0..MaxFaults
    BY <1>1, <1>4 DEF Posted, Unreachable, PostFails
  <2>2. QED
    BY <2>1, PostKeeps
<1>5. CASE Delivered \/ Skipped \/ BeatLost
  <2>1. \E delivered \in BOOLEAN : Beat(delivered) /\ UNCHANGED ready /\ faults' \in 0..MaxFaults
    BY <1>1, <1>5 DEF Delivered, Skipped, BeatLost, Beat
  <2>2. QED
    BY <2>1, BeatKeeps
<1>6. CASE GotIp \/ ClockSynced \/ Claimed \/ Disconnected
  <2>1. (\E bit \in Bits : Becomes(bit)) \/ Disconnected
    BY <1>6 DEF GotIp, ClockSynced, Claimed, Bits
  <2>2. QED
    BY <2>1, BitKeeps
<1>7. CASE PowerLost
  BY <1>7, PowerLostKeeps
<1>10. CASE AddFailed("report") \/ AddFailed("link")
  BY <1>10, LoadKeeps, StoreKeeps DEF AddFailed, Adders
<1>11. CASE Forwarded \/ ForwardUnreachable \/ ForwardFails
  <2>1. \E sent \in BOOLEAN : Forward(sent) /\ faults' \in 0..MaxFaults
    BY <1>1, <1>11 DEF Forwarded, ForwardUnreachable, ForwardFails
  <2>2. QED
    BY <2>1, ForwardKeeps
<1>8. CASE UNCHANGED vars
  BY <1>8 DEF vars, radio, counters, health, server, IInv, TypeOK, InHand, InOnePlace, Waiting,
              Pending, Counting, Timely, Stamps, Marked
<1>9. QED
  BY <1>2, <1>3, <1>4, <1>5, <1>6, <1>7, <1>8, <1>10, <1>11 DEF Next, reporting_task

LEMMA Invariant == Spec => []IInv
<1>1. Init => IInv
  BY Initially
<1>2. IInv /\ [Next]_vars => IInv'
  BY NextKeeps
<1>3. QED
  BY <1>1, <1>2, PTL DEF Spec

\* The queue and the batches keep to their sizes (enqueue_report, reporting_task).
THEOREM Types == Spec => []TypeOK
<1>1. IInv => TypeOK
  BY DEF IInv
<1>2. QED
  BY <1>1, Invariant, PTL

\* No contact, the board's or the sensor's, goes missing between the queue, the batches and
\* the outcomes, or is counted twice; and failed_count, which two tasks add to without a
\* lock, never shows more than failed, nor less before the sensor's batch has overrun.
THEOREM NoneGoesMissing == Spec => []Accounted
<1>1. IInv => Accounted
  BY DEF IInv, Accounted, Counting, FailedIsCounted
<1>2. QED
  BY <1>1, Invariant, PTL

\* What the server has of the board is stamped with when it was heard, however long it was
\* queued, whenever the clock was set and whatever failed (contact_stamp, uplink_ready).
THEOREM StampsAreTrue == Spec => []StampIsWhenHeard
<1>1. IInv => StampIsWhenHeard
  <2> SUFFICES ASSUME IInv, NEW i \in DOMAIN received
               PROVE  received[i].at = heard[received[i].n]
    BY DEF StampIsWhenHeard
  <2>1. received \in Seq(Stored) /\ StampedThen(received, heard)
    BY DEF IInv, TypeOK, Stamps
  <2>2. i \in 1..Len(received)
    BY <2>1
  <2>3. QED
    BY <2>1, <2>2 DEF StampedThen
<1>2. QED
  BY <1>1, Invariant, PTL

\* A heartbeat tells a silent radio from one that was heard, whatever the counter's width
\* (health_counter_moved): as long as it has not gone all the way round in between.
THEOREM SilenceIsTold == Spec => StreamIsTold
<1>1. ASSUME IInv, Delivered PROVE told' = "ble_stream_down" <=> seen.since = 0
  <2>1. /\ seen \in [total : 0..(Wrap - 1), since : 0..(Wrap - 1)]
        /\ mark \in [seen : 0..(Wrap - 1), dropped : Nat]
        /\ seen.total = mark.seen + seen.since \/ seen.total = mark.seen + seen.since - Wrap
    BY <1>1 DEF IInv, TypeOK, Marked
  <2>2. mark.seen = seen.total <=> seen.since = 0
    BY <2>1, ReportingAssumption
  <2>3. told' = Problem
    BY <1>1 DEF Delivered, Beat
  <2>4. Problem = "ble_stream_down" <=> mark.seen = seen.total
    BY DEF Problem, health_counter_moved
  <2>5. QED
    BY <2>2, <2>3, <2>4
<1>2. IInv /\ [Next]_vars => [Delivered => (told' = "ble_stream_down" <=> seen.since = 0)]_vars
  BY <1>1
<1>3. QED
  BY <1>2, Invariant, PTL DEF Spec, StreamIsTold
=============================================================================
