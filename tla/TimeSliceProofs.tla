-------------------------- MODULE TimeSliceProofs --------------------------
(* Theorems about TimeSlice, for any depth of the queue, any size of a        *)
(* request, and any number of contacts, failures and restarts.                *)
EXTENDS TimeSlice, TLAPS

Increasing(s) == \A i, j \in DOMAIN s : i < j => s[i] < s[j]
Below(s, t) == \A i \in DOMAIN s, j \in DOMAIN t : s[i] < t[j]
UpTo(s, n) == \A i \in DOMAIN s : s[i] <= n

\* on_frame works on the newest contact; Newest is the newest one before it.
InHand == driver \in {0, heard}
Newest == IF driver = 0 THEN heard ELSE heard - 1

\* drain_queue has nothing in hand outside its loop.
Posting == capture.pc # "posting" => batch = <<>>

\* What the server has, what is being posted and what is queued, in the order heard.
Ordered ==
  /\ Increasing(received) /\ Increasing(batch) /\ Increasing(queue)
  /\ Below(received, batch) /\ Below(received, queue) /\ Below(batch, queue)
  /\ UpTo(received, Newest) /\ UpTo(batch, Newest) /\ UpTo(queue, Newest)

IInv == TypeOK /\ InHand /\ Posting /\ Accounted /\ Ordered

-----------------------------------------------------------------------------
(* Sequences of numbers.                                                   *)

LEMMA AppendOrdered ==
  ASSUME NEW s \in Seq(Nat), NEW n \in Nat, NEW m \in Nat, n < m,
         Increasing(s), UpTo(s, n)
  PROVE  Increasing(Append(s, m)) /\ UpTo(Append(s, m), m)
<1>1. /\ DOMAIN s = 1..Len(s) /\ Len(s) \in Nat
      /\ DOMAIN Append(s, m) = 1..(Len(s) + 1)
      /\ Append(s, m)[Len(s) + 1] = m
      /\ \A i \in 1..Len(s) : Append(s, m)[i] = s[i] /\ s[i] \in Nat
  OBVIOUS
<1>2. \A i \in 1..Len(s) : s[i] <= n /\ s[i] < m
  BY <1>1 DEF UpTo
<1>3. Increasing(Append(s, m))
  BY <1>1, <1>2 DEF Increasing
<1>4. UpTo(Append(s, m), m)
  BY <1>1, <1>2 DEF UpTo
<1>5. QED
  BY <1>3, <1>4

LEMMA AppendBelow ==
  ASSUME NEW s \in Seq(Nat), NEW t \in Seq(Nat), NEW n \in Nat, NEW m \in Nat, n < m,
         Below(t, s), UpTo(t, n)
  PROVE  Below(t, Append(s, m))
<1>1. /\ DOMAIN s = 1..Len(s) /\ Len(s) \in Nat
      /\ DOMAIN Append(s, m) = 1..(Len(s) + 1)
      /\ Append(s, m)[Len(s) + 1] = m
      /\ \A i \in 1..Len(s) : Append(s, m)[i] = s[i]
  OBVIOUS
<1>2. \A i \in DOMAIN t : t[i] \in Nat /\ t[i] <= n /\ t[i] < m
  BY DEF UpTo
<1>3. QED
  BY <1>1, <1>2 DEF Below

LEMMA UpToMore ==
  ASSUME NEW s \in Seq(Nat), NEW n \in Nat, NEW m \in Nat, n <= m, UpTo(s, n)
  PROVE  UpTo(s, m)
<1>1. \A i \in DOMAIN s : s[i] \in Nat /\ s[i] <= n
  BY DEF UpTo
<1>2. QED
  BY <1>1 DEF UpTo

\* The two parts of a sequence.
LEMMA Parts ==
  ASSUME NEW s \in Seq(Nat), NEW k \in 0..Len(s)
  PROVE  /\ SubSeq(s, 1, k) \in Seq(Nat) /\ Len(SubSeq(s, 1, k)) = k
         /\ \A i \in 1..k : SubSeq(s, 1, k)[i] = s[i]
         /\ SubSeq(s, k + 1, Len(s)) \in Seq(Nat)
         /\ Len(SubSeq(s, k + 1, Len(s))) = Len(s) - k
         /\ \A i \in 1..(Len(s) - k) : SubSeq(s, k + 1, Len(s))[i] = s[i + k]
  OBVIOUS

LEMMA PartsType ==
  ASSUME NEW S, NEW s \in Seq(S), NEW k \in 0..Len(s)
  PROVE  SubSeq(s, 1, k) \in Seq(S) /\ SubSeq(s, k + 1, Len(s)) \in Seq(S)
  OBVIOUS

LEMMA PartsOrdered ==
  ASSUME NEW s \in Seq(Nat), NEW k \in 0..Len(s), Increasing(s)
  PROVE  LET a == SubSeq(s, 1, k)
             b == SubSeq(s, k + 1, Len(s))
         IN  /\ Increasing(a) /\ Increasing(b) /\ Below(a, b)
             /\ \A i \in DOMAIN a : \E j \in DOMAIN s : a[i] = s[j]
             /\ \A i \in DOMAIN b : \E j \in DOMAIN s : b[i] = s[j]
<1> DEFINE a == SubSeq(s, 1, k)
           b == SubSeq(s, k + 1, Len(s))
<1>1. /\ DOMAIN s = 1..Len(s) /\ Len(s) \in Nat /\ k \in Nat /\ k <= Len(s)
      /\ DOMAIN a = 1..k /\ DOMAIN b = 1..(Len(s) - k)
  BY Parts
<1>2. (\A i \in 1..k : a[i] = s[i]) /\ (\A i \in 1..(Len(s) - k) : b[i] = s[i + k])
  BY Parts
<1> HIDE DEF a, b
<1>3. Increasing(a)
  BY <1>1, <1>2 DEF Increasing
<1>4. Increasing(b)
  <2>1. \A i, j \in 1..(Len(s) - k) : i < j => i + k \in DOMAIN s /\ j + k \in DOMAIN s /\ i + k < j + k
    BY <1>1
  <2>2. QED
    BY <1>1, <1>2, <2>1 DEF Increasing
<1>5. Below(a, b)
  <2>1. \A i \in 1..k, j \in 1..(Len(s) - k) : i \in DOMAIN s /\ j + k \in DOMAIN s /\ i < j + k
    BY <1>1
  <2>2. QED
    BY <1>1, <1>2, <2>1 DEF Increasing, Below
<1>6. \A i \in DOMAIN a : \E j \in DOMAIN s : a[i] = s[j]
  BY <1>1, <1>2
<1>7. \A i \in DOMAIN b : \E j \in DOMAIN s : b[i] = s[j]
  <2>1. \A i \in 1..(Len(s) - k) : i + k \in DOMAIN s
    BY <1>1
  <2>2. QED
    BY <1>1, <1>2, <2>1
<1>8. QED
  BY <1>3, <1>4, <1>5, <1>6, <1>7 DEF a, b

LEMMA ConcatOrdered ==
  ASSUME NEW s \in Seq(Nat), NEW t \in Seq(Nat), Increasing(s), Increasing(t), Below(s, t)
  PROVE  /\ Increasing(s \o t)
         /\ \A i \in DOMAIN (s \o t) :
              (\E j \in DOMAIN s : (s \o t)[i] = s[j]) \/ (\E j \in DOMAIN t : (s \o t)[i] = t[j])
<1>1. /\ DOMAIN s = 1..Len(s) /\ DOMAIN t = 1..Len(t) /\ Len(s) \in Nat /\ Len(t) \in Nat
      /\ DOMAIN (s \o t) = 1..(Len(s) + Len(t))
      /\ \A i \in 1..(Len(s) + Len(t)) : (s \o t)[i] = IF i <= Len(s) THEN s[i] ELSE t[i - Len(s)]
  OBVIOUS
<1>2. \A i \in 1..(Len(s) + Len(t)) : IF i <= Len(s) THEN i \in DOMAIN s ELSE i - Len(s) \in DOMAIN t
  BY <1>1
<1>3. ASSUME NEW i \in DOMAIN (s \o t), NEW j \in DOMAIN (s \o t), i < j
      PROVE  (s \o t)[i] < (s \o t)[j]
  <2>1. CASE j <= Len(s)
    <3>1. i \in DOMAIN s /\ j \in DOMAIN s /\ (s \o t)[i] = s[i] /\ (s \o t)[j] = s[j]
      BY <1>1, <1>3, <2>1
    <3>2. QED
      BY <1>3, <3>1 DEF Increasing
  <2>2. CASE i <= Len(s) /\ ~ (j <= Len(s))
    <3>1. i \in DOMAIN s /\ j - Len(s) \in DOMAIN t
          /\ (s \o t)[i] = s[i] /\ (s \o t)[j] = t[j - Len(s)]
      BY <1>1, <1>2, <2>2
    <3>2. QED
      BY <3>1 DEF Below
  <2>3. CASE ~ (i <= Len(s))
    <3>1. /\ ~ (j <= Len(s)) /\ i - Len(s) < j - Len(s)
          /\ i - Len(s) \in DOMAIN t /\ j - Len(s) \in DOMAIN t
      BY <1>1, <1>2, <1>3, <2>3
    <3>2. (s \o t)[i] = t[i - Len(s)] /\ (s \o t)[j] = t[j - Len(s)]
      BY <1>1, <2>3, <3>1
    <3>3. QED
      BY <3>1, <3>2 DEF Increasing
  <2>4. QED
    BY <1>1, <1>3, <2>1, <2>2, <2>3
<1>4. Increasing(s \o t)
  BY <1>3 DEF Increasing
<1>5. QED
  BY <1>1, <1>2, <1>4

-----------------------------------------------------------------------------
(* The initial state, and a restart.                                       *)

LEMMA Empty == \A s : /\ Increasing(<<>>) /\ Below(<<>>, s) /\ Below(s, <<>>)
                      /\ \A n : UpTo(<<>>, n)
  BY DEF Increasing, Below, UpTo

LEMMA InitIInv == Init => IInv
<1> SUFFICES ASSUME Init PROVE IInv
  OBVIOUS
<1>1. TypeOK
  <2>1. events \in Seq({"got_ip", "disconnected"}) /\ queue \in Seq(1..MaxContacts)
        /\ batch \in Seq(1..MaxContacts) /\ received \in Seq(1..MaxContacts)
        /\ Len(queue) <= Depth /\ Len(batch) <= Depth
    BY TimeSliceAssumption DEF Init
  <2>2. /\ capture \in [pc : Steps, window : BOOLEAN]
        /\ count \in [decoded : Nat, dropped : Nat, sent : Nat, failed : Nat]
        /\ told \in [total : Nat, flag : BOOLEAN]
    BY DEF Init, Steps
  <2>3. ready \subseteq Bits
    BY DEF Init, Bits
  <2>4. driver \in 0..MaxContacts /\ heard \in 0..MaxContacts /\ mark \in Nat
        /\ faults \in 0..MaxFaults
    BY TimeSliceAssumption DEF Init
  <2>5. promiscuous \in BOOLEAN /\ station_held \in BOOLEAN /\ handler = "idle"
        /\ station = "connecting"
    BY DEF Init
  <2>6. QED
    BY <2>1, <2>2, <2>3, <2>4, <2>5 DEF TypeOK
<1>2. InHand /\ Posting /\ Accounted
  BY DEF Init, InHand, Posting, Accounted
<1>3. Ordered
  BY Empty DEF Init, Ordered
<1>4. QED
  BY <1>1, <1>2, <1>3 DEF IInv

LEMMA BootedIInv == ASSUME IInv, Booted, faults' \in 0..MaxFaults PROVE IInv'
<1>1. TypeOK'
  <2>1. station' = "connecting" /\ ready' \subseteq Bits
    BY DEF IInv, TypeOK, Booted
  <2>2. events' \in Seq({"got_ip", "disconnected"}) /\ queue' \in Seq(1..MaxContacts)
        /\ batch' \in Seq(1..MaxContacts) /\ Len(queue') <= Depth /\ Len(batch') <= Depth
    BY TimeSliceAssumption DEF Booted
  <2>3. capture' \in [pc : Steps, window : BOOLEAN]
        /\ count' \in [decoded : Nat, dropped : Nat, sent : Nat, failed : Nat]
    BY DEF Booted, Steps
  <2>4. heard' \in 0..MaxContacts /\ received' \in Seq(1..MaxContacts)
        /\ told' \in [total : Nat, flag : BOOLEAN]
    BY DEF Booted, IInv, TypeOK
  <2>5. promiscuous' \in BOOLEAN /\ station_held' \in BOOLEAN /\ handler' = "idle"
    BY DEF Booted
  <2>6. driver' \in 0..MaxContacts /\ mark' \in Nat
    BY TimeSliceAssumption DEF Booted
  <2>7. QED
    BY <2>1, <2>2, <2>3, <2>4, <2>5, <2>6 DEF TypeOK
<1>2. InHand' /\ Posting' /\ Accounted'
  BY DEF Booted, InHand, Posting, Accounted
<1>3. Ordered'
  <2>1. UpTo(received, heard)
    <3>1. received \in Seq(Nat) /\ heard \in Nat /\ Newest \in Nat /\ Newest <= heard
      BY TimeSliceAssumption DEF IInv, TypeOK, InHand, Newest
    <3>2. QED
      BY <3>1, UpToMore DEF IInv, Ordered
  <2>2. Newest' = heard /\ received' = received /\ batch' = <<>> /\ queue' = <<>>
    BY DEF Booted, Newest
  <2>3. QED
    BY <2>1, <2>2, Empty DEF IInv, Ordered
<1>4. QED
  BY <1>1, <1>2, <1>3 DEF IInv

-----------------------------------------------------------------------------
(* Steps that leave the contacts alone.                                    *)

NetworkOK ==
  /\ promiscuous \in BOOLEAN
  /\ station \in {"idle", "connecting", "connected"}
  /\ station_held \in BOOLEAN
  /\ ready \subseteq Bits
  /\ events \in Seq({"got_ip", "disconnected"})
  /\ handler \in {"idle", "reconnect"}
CaptureOK == capture \in [pc : Steps, window : BOOLEAN]
HealthOK == mark \in Nat /\ told \in [total : Nat, flag : BOOLEAN]

LEMMA QuietIInv ==
  ASSUME IInv, UNCHANGED contacts, NetworkOK', CaptureOK', HealthOK', faults' \in 0..MaxFaults,
         Posting'
  PROVE  IInv'
<1>1. /\ driver' = driver /\ queue' = queue /\ batch' = batch /\ count' = count
      /\ heard' = heard /\ received' = received
  BY DEF contacts
<1>2. TypeOK'
  BY <1>1 DEF IInv, TypeOK, NetworkOK, CaptureOK, HealthOK
<1>3. InHand' /\ Accounted' /\ Ordered'
  BY <1>1 DEF IInv, InHand, Accounted, Ordered, Newest
<1>4. QED
  BY <1>2, <1>3 DEF IInv

LEMMA FaultType == ASSUME IInv, Fault PROVE faults' \in 0..MaxFaults
  BY TimeSliceAssumption DEF IInv, TypeOK, Fault

LEMMA NetworkIInv ==
  ASSUME IInv, Associated \/ LinkFails \/ on_wifi_event \/ ClockSynced \/ Claimed
  PROVE  IInv'
<1>1. /\ promiscuous' = promiscuous /\ station_held' = station_held
      /\ UNCHANGED contacts /\ UNCHANGED capture /\ UNCHANGED health
  BY DEF Associated, LinkFails, on_wifi_event, GotIp, Disconnected, Reconnect, ClockSynced, Claimed
<1>2. station' \in {"idle", "connecting", "connected"}
  BY DEF IInv, TypeOK, Associated, LinkFails, on_wifi_event, GotIp, Disconnected, Reconnect,
     ClockSynced, Claimed, Connect
<1>3. ready' \subseteq Bits /\ handler' \in {"idle", "reconnect"}
  BY DEF IInv, TypeOK, Associated, LinkFails, on_wifi_event, GotIp, Disconnected, Reconnect,
     ClockSynced, Claimed, Bits
<1>4. events' \in Seq({"got_ip", "disconnected"})
  <2>1. events \in Seq({"got_ip", "disconnected"})
    BY DEF IInv, TypeOK
  <2>2. CASE GotIp \/ Disconnected
    <3>1. events' = Tail(events) /\ events # <<>>
      BY <2>2 DEF GotIp, Disconnected
    <3>2. QED
      BY <2>1, <3>1
  <2>3. CASE Associated \/ LinkFails
    BY <2>1, <2>3 DEF Associated, LinkFails, Happen
  <2>4. CASE Reconnect \/ ClockSynced \/ Claimed
    BY <2>1, <2>4 DEF Reconnect, ClockSynced, Claimed
  <2>5. QED
    BY <2>2, <2>3, <2>4 DEF on_wifi_event
<1>5. faults' \in 0..MaxFaults
  <2>1. CASE LinkFails
    BY <2>1, FaultType DEF LinkFails
  <2>2. CASE Associated \/ on_wifi_event \/ ClockSynced \/ Claimed
    BY <2>2 DEF IInv, TypeOK, Associated, on_wifi_event, GotIp, Disconnected, Reconnect,
       ClockSynced, Claimed
  <2>3. QED
    BY <2>1, <2>2
<1>6. NetworkOK'
  BY <1>1, <1>2, <1>3, <1>4 DEF NetworkOK, IInv, TypeOK
<1>7. CaptureOK' /\ HealthOK' /\ Posting'
  BY <1>1 DEF CaptureOK, HealthOK, Posting, health, contacts, IInv, TypeOK
<1>8. QED
  BY <1>1, <1>5, <1>6, <1>7, QuietIInv

LEMMA GotoPosting ==
  ASSUME IInv, UNCHANGED contacts, NEW pc \in Steps, Goto(pc), ~ At("posting")
  PROVE  CaptureOK' /\ Posting'
<1>1. capture' \in [pc : Steps, window : BOOLEAN]
  BY DEF Goto, IInv, TypeOK
<1>2. batch' = <<>>
  BY DEF IInv, Posting, At, contacts
<1>3. QED
  BY <1>1, <1>2 DEF CaptureOK, Posting

\* The steps of capture_task that touch neither the queue nor what is being posted.
CaptureStep ==
  \/ Release \/ ConnectNow \/ NetworkUp \/ Unclaimed \/ TooSlow \/ Joined \/ Beat \/ BeatLost
  \/ Drain \/ Drained \/ Hold \/ Disconnect \/ Tune \/ Wake

LEMMA CaptureIInv == ASSUME IInv, CaptureStep PROVE IInv'
<1>1. UNCHANGED contacts
  BY DEF CaptureStep, Release, ConnectNow, NetworkUp, Unclaimed, TooSlow, Joining, Joined, Beat,
     BeatLost, Drain, Drained, Hold, Disconnect, Tune, Wake
<1>2. CaptureOK' /\ Posting'
  <2>1. CASE Drained
    <3>1. capture' \in [pc : Steps, window : BOOLEAN] /\ batch' = <<>>
      BY <2>1, <1>1 DEF Drained, Goto, IInv, TypeOK, Steps, contacts
    <3>2. QED
      BY <3>1 DEF CaptureOK, Posting
  <2>2. CASE Wake
    <3>1. capture' = [pc |-> "release", window |-> TRUE] /\ batch' = <<>>
      BY <2>2, <1>1 DEF Wake, At, IInv, Posting, contacts
    <3>2. QED
      BY <3>1 DEF CaptureOK, Posting, Steps
  <2>3. CASE Joined
    <3>1. PICK pc \in {"beat", "hold"} : Goto(pc)
      BY <2>3 DEF Joined
    <3>2. ~ At("posting") /\ pc \in Steps
      BY <2>3, <3>1 DEF Joined, At, Steps
    <3>3. QED
      BY <1>1, <3>1, <3>2, GotoPosting
  <2>4. CASE Release \/ ConnectNow \/ NetworkUp \/ Unclaimed \/ TooSlow \/ Beat \/ BeatLost
             \/ Drain \/ Hold \/ Disconnect \/ Tune
    <3>1. PICK pc \in Steps : Goto(pc)
      BY <2>4 DEF Release, ConnectNow, NetworkUp, Unclaimed, TooSlow, Joining, Beat, BeatLost,
         Drain, Hold, Disconnect, Tune, Steps
    <3>2. ~ At("posting")
      BY <2>4 DEF Release, ConnectNow, NetworkUp, Unclaimed, TooSlow, Joining, Beat, BeatLost,
         Drain, Hold, Disconnect, Tune, At
    <3>3. QED
      BY <1>1, <3>1, <3>2, GotoPosting
  <2>5. QED
    BY <2>1, <2>2, <2>3, <2>4 DEF CaptureStep
<1>3. HealthOK'
  <2>1. mark \in Nat /\ count.dropped \in Nat /\ told \in [total : Nat, flag : BOOLEAN]
    BY DEF IInv, TypeOK
  <2>2. CASE Beat
    <3>1. mark' = count.dropped
      BY <2>2 DEF Beat
    <3>2. told' = [total |-> count.dropped, flag |-> Moved] \/ told' = told
      BY <2>2 DEF Beat
    <3>3. Moved \in BOOLEAN
      BY DEF Moved
    <3>4. QED
      BY <2>1, <3>1, <3>2, <3>3 DEF HealthOK
  <2>3. CASE BeatLost
    BY <2>1, <2>3 DEF BeatLost, HealthOK
  <2>4. CASE CaptureStep /\ ~ Beat /\ ~ BeatLost
    <3>1. UNCHANGED health
      BY <2>4 DEF CaptureStep, Release, ConnectNow, NetworkUp, Unclaimed, TooSlow, Joining, Joined,
         Drain, Drained, Hold, Disconnect, Tune, Wake
    <3>2. QED
      BY <2>1, <3>1 DEF HealthOK, health
  <2>5. QED
    BY <2>2, <2>3, <2>4
<1>4. faults' \in 0..MaxFaults
  <2>1. CASE TooSlow \/ BeatLost
    BY <2>1, FaultType DEF TooSlow, BeatLost
  <2>2. CASE CaptureStep /\ ~ TooSlow /\ ~ BeatLost
    <3>1. faults' = faults
      BY <2>2 DEF CaptureStep, Release, ConnectNow, NetworkUp, Unclaimed, Joined, Beat, Drain,
         Drained, Hold, Disconnect, Tune, Wake
    <3>2. QED
      BY <3>1 DEF IInv, TypeOK
  <2>3. QED
    BY <2>1, <2>2
<1>5. NetworkOK'
  <2>1. NetworkOK
    BY DEF IInv, TypeOK, NetworkOK
  <2>2. CASE Release \/ Hold \/ Tune
    BY <2>1, <2>2 DEF Release, Hold, Tune, NetworkOK, network
  <2>3. CASE ConnectNow
    BY <2>1, <2>3 DEF ConnectNow, Connect, NetworkOK
  <2>4. CASE Disconnect
    <3>1. events' = events \/ events' = Append(events, "disconnected")
      BY <2>4 DEF Disconnect, Happen
    <3>2. events' \in Seq({"got_ip", "disconnected"})
      BY <2>1, <3>1 DEF NetworkOK
    <3>3. QED
      BY <2>1, <2>4, <3>2 DEF Disconnect, NetworkOK
  <2>5. CASE CaptureStep /\ ~ Release /\ ~ Hold /\ ~ Tune /\ ~ ConnectNow /\ ~ Disconnect
    <3>1. promiscuous' = promiscuous /\ UNCHANGED network
      BY <2>5 DEF CaptureStep, NetworkUp, Unclaimed, TooSlow, Joining, Joined, Beat, BeatLost,
         Drain, Drained, Wake
    <3>2. QED
      BY <2>1, <3>1 DEF NetworkOK, network
  <2>6. QED
    BY <2>2, <2>3, <2>4, <2>5
<1>6. QED
  BY <1>1, <1>2, <1>3, <1>4, <1>5, QuietIInv

-----------------------------------------------------------------------------
(* Steps that move contacts.                                               *)

LEMMA InOrderFacts ==
  ASSUME IInv
  PROVE  /\ received \in Seq(Nat) /\ batch \in Seq(Nat) /\ queue \in Seq(Nat)
         /\ heard \in Nat /\ driver \in Nat /\ Newest \in Nat /\ Newest <= heard
         /\ driver # 0 => driver = heard /\ Newest < driver
<1>1. Seq(1..MaxContacts) \subseteq Seq(Nat)
  BY TimeSliceAssumption
<1>2. heard \in Nat /\ driver \in Nat /\ driver \in {0, heard}
  BY TimeSliceAssumption DEF IInv, TypeOK, InHand
<1>3. QED
  BY <1>1, <1>2 DEF IInv, TypeOK, Newest

LEMMA HearIInv == ASSUME IInv, Hear PROVE IInv'
<1>1. /\ driver = 0 /\ driver' = heard + 1 /\ heard' = heard + 1
      /\ queue' = queue /\ batch' = batch /\ received' = received
      /\ count' = [count EXCEPT !.decoded = @ + 1]
  BY DEF Hear
<1>2. heard \in Nat /\ heard < MaxContacts /\ MaxContacts \in Nat
  BY TimeSliceAssumption, InOrderFacts DEF Hear
<1>3. heard' \in 0..MaxContacts /\ driver' \in 0..MaxContacts /\ driver' # 0
  BY <1>1, <1>2
<1>4. count \in [decoded : Nat, dropped : Nat, sent : Nat, failed : Nat]
  BY DEF IInv, TypeOK
<1>5. /\ count' \in [decoded : Nat, dropped : Nat, sent : Nat, failed : Nat]
      /\ count'.decoded = count.decoded + 1
      /\ count'.dropped = count.dropped /\ count'.sent = count.sent /\ count'.failed = count.failed
  BY <1>1, <1>4
<1>6. TypeOK'
  <2>1. /\ promiscuous' = promiscuous /\ UNCHANGED network /\ UNCHANGED capture
        /\ UNCHANGED health /\ faults' = faults
    BY DEF Hear
  <2>2. QED
    BY <1>1, <1>3, <1>5, <2>1 DEF IInv, TypeOK, network, health
<1>7. InHand' /\ Posting'
  BY <1>1 DEF Hear, IInv, InHand, Posting
<1>8. Accounted'
  <2>1. Len(queue) \in Nat /\ Len(batch) \in Nat
    BY InOrderFacts
  <2>2. count.decoded \in Nat /\ count.dropped \in Nat /\ count.sent \in Nat /\ count.failed \in Nat
    BY <1>4
  <2>3. count.decoded = 0 + Len(queue) + Len(batch) + count.sent + count.failed + count.dropped
    BY <1>1 DEF IInv, Accounted
  <2>4. count'.decoded = 1 + Len(queue) + Len(batch) + count'.sent + count'.failed + count'.dropped
    BY <1>5, <2>1, <2>2, <2>3
  <2>5. QED
    BY <1>1, <1>3, <2>4 DEF Accounted
<1>9. Ordered'
  <2>1. Newest' = Newest
    BY <1>1, <1>2, <1>3 DEF Newest
  <2>2. QED
    BY <1>1, <2>1 DEF IInv, Ordered
<1>10. QED
  BY <1>6, <1>7, <1>8, <1>9 DEF IInv

LEMMA RememberIInv == ASSUME IInv, Remember PROVE IInv'
<1>1. /\ driver # 0 /\ driver' = 0 /\ heard' = heard
      /\ batch' = batch /\ received' = received
  BY DEF Remember
<1>2. /\ count \in [decoded : Nat, dropped : Nat, sent : Nat, failed : Nat]
      /\ queue \in Seq(1..MaxContacts) /\ Len(queue) <= Depth /\ Len(queue) \in Nat
      /\ Len(batch) \in Nat /\ Depth \in Nat /\ driver \in 1..MaxContacts
  BY <1>1, InOrderFacts, TimeSliceAssumption DEF IInv, TypeOK
<1>3. Newest' = driver /\ Newest' \in Nat /\ Newest < driver /\ Newest \in Nat /\ driver \in Nat
  BY <1>1, InOrderFacts DEF Newest
<1>4. \/ queue' = Append(queue, driver) /\ Len(queue) < Depth /\ count' = count
      \/ queue' = queue /\ count' = [count EXCEPT !.dropped = @ + 1]
  BY DEF Remember, Room, NewestGoes, DropCounted
<1>5. TypeOK'
  <2>1. queue' \in Seq(1..MaxContacts) /\ Len(queue') <= Depth
    <3>1. CASE queue' = Append(queue, driver) /\ Len(queue) < Depth
      <4>1. queue' \in Seq(1..MaxContacts) /\ Len(queue') = Len(queue) + 1
        BY <1>2, <3>1
      <4>2. QED
        BY <1>2, <3>1, <4>1
    <3>2. CASE queue' = queue
      BY <1>2, <3>2
    <3>3. QED
      BY <1>4, <3>1, <3>2
  <2>2. count' \in [decoded : Nat, dropped : Nat, sent : Nat, failed : Nat]
    BY <1>2, <1>4
  <2>3. driver' \in 0..MaxContacts
    BY <1>1, TimeSliceAssumption
  <2>4. /\ promiscuous' = promiscuous /\ UNCHANGED network /\ UNCHANGED capture
        /\ UNCHANGED health /\ faults' = faults
    BY DEF Remember
  <2>5. QED
    BY <1>1, <2>1, <2>2, <2>3, <2>4 DEF IInv, TypeOK, network, health
<1>6. InHand' /\ Posting'
  BY <1>1 DEF Remember, IInv, InHand, Posting
<1>7. Accounted'
  <2>1. count.decoded \in Nat /\ count.dropped \in Nat /\ count.sent \in Nat /\ count.failed \in Nat
    BY <1>2
  <2>2. count.decoded = 1 + Len(queue) + Len(batch) + count.sent + count.failed + count.dropped
    BY <1>1 DEF IInv, Accounted
  <2>3. /\ count'.decoded = count.decoded /\ count'.sent = count.sent /\ count'.failed = count.failed
        /\ \/ Len(queue') = Len(queue) + 1 /\ count'.dropped = count.dropped
           \/ Len(queue') = Len(queue) /\ count'.dropped = count.dropped + 1
    <3>1. CASE queue' = Append(queue, driver) /\ count' = count
      <4>1. Len(queue') = Len(queue) + 1
        BY <1>2, <3>1
      <4>2. QED
        BY <3>1, <4>1
    <3>2. CASE queue' = queue /\ count' = [count EXCEPT !.dropped = @ + 1]
      BY <1>2, <3>2
    <3>3. QED
      BY <1>4, <3>1, <3>2
  <2>4. count'.decoded = 0 + Len(queue') + Len(batch) + count'.sent + count'.failed + count'.dropped
    <3>1. CASE Len(queue') = Len(queue) + 1 /\ count'.dropped = count.dropped
      BY <1>2, <2>1, <2>2, <2>3, <3>1
    <3>2. CASE Len(queue') = Len(queue) /\ count'.dropped = count.dropped + 1
      BY <1>2, <2>1, <2>2, <2>3, <3>2
    <3>3. QED
      BY <2>3, <3>1, <3>2
  <2>5. QED
    BY <1>1, <2>4 DEF Accounted
<1>8. Ordered'
  <2>1. UpTo(received, driver) /\ UpTo(batch, driver) /\ UpTo(queue, driver)
    BY <1>3, InOrderFacts, UpToMore DEF IInv, Ordered
  <2>2. CASE queue' = queue
    BY <1>1, <1>3, <2>1, <2>2 DEF IInv, Ordered
  <2>3. CASE queue' = Append(queue, driver)
    <3>1. Increasing(queue') /\ UpTo(queue', driver)
      BY <1>3, <2>3, InOrderFacts, AppendOrdered DEF IInv, Ordered
    <3>2. Below(received, queue') /\ Below(batch, queue')
      BY <1>3, <2>3, InOrderFacts, AppendBelow DEF IInv, Ordered
    <3>3. QED
      BY <1>1, <1>3, <2>1, <3>1, <3>2 DEF IInv, Ordered
  <2>4. QED
    BY <1>4, <2>2, <2>3
<1>9. QED
  BY <1>5, <1>6, <1>7, <1>8 DEF IInv

LEMMA CopyIInv == ASSUME IInv, Copy PROVE IInv'
<1>1. /\ batch = <<>> /\ batch' = queue /\ queue' = <<>>
      /\ driver' = driver /\ count' = count /\ heard' = heard /\ received' = received
  BY DEF Copy, Emptied, At, IInv, Posting
<1>2. TypeOK'
  <2>1. batch' \in Seq(1..MaxContacts) /\ Len(batch') <= Depth
        /\ queue' \in Seq(1..MaxContacts) /\ Len(queue') <= Depth
    BY <1>1, TimeSliceAssumption DEF IInv, TypeOK
  <2>2. capture' \in [pc : Steps, window : BOOLEAN]
    BY DEF Copy, Goto, IInv, TypeOK, Steps
  <2>3. /\ promiscuous' = promiscuous /\ UNCHANGED network /\ UNCHANGED health /\ faults' = faults
    BY DEF Copy
  <2>4. QED
    BY <1>1, <2>1, <2>2, <2>3 DEF IInv, TypeOK, network, health
<1>3. InHand'
  BY <1>1 DEF IInv, InHand
<1>4. Posting'
  <2>1. capture'.pc = "posting"
    BY DEF Copy, Goto, IInv, TypeOK
  <2>2. QED
    BY <2>1 DEF Posting
<1>5. Accounted'
  <2>1. Len(batch') = Len(queue) /\ Len(queue') = Len(batch)
    BY <1>1
  <2>2. Len(queue) \in Nat /\ Len(batch) \in Nat
    BY InOrderFacts
  <2>3. count.decoded \in Nat /\ count.dropped \in Nat /\ count.sent \in Nat /\ count.failed \in Nat
    BY DEF IInv, TypeOK
  <2>4. QED
    BY <1>1, <2>1, <2>2, <2>3 DEF IInv, Accounted
<1>6. Ordered'
  <2>1. Newest' = Newest
    BY <1>1 DEF Newest
  <2>2. QED
    BY <1>1, <2>1, Empty DEF IInv, Ordered
<1>7. QED
  BY <1>2, <1>3, <1>4, <1>5, <1>6 DEF IInv

\* A request: its contacts leave batch, and the server has stored them or has not.
LEMMA PostIInv ==
  ASSUME IInv, NEW stored \in BOOLEAN, NEW outcome \in {"sent", "failed"}, Post(stored, outcome),
         faults' \in 0..MaxFaults
  PROVE  IInv'
<1> DEFINE k == NextBatch
           request == SubSeq(batch, 1, k)
           rest == SubSeq(batch, k + 1, Len(batch))
<1>1. /\ batch # <<>> /\ capture.pc = "posting" /\ batch' = rest
      /\ received' = IF stored THEN received \o request ELSE received
      /\ count' = [count EXCEPT ![outcome] = @ + k]
      /\ driver' = driver /\ queue' = queue /\ heard' = heard /\ capture' = capture
      /\ promiscuous' = promiscuous /\ UNCHANGED network /\ UNCHANGED health
  BY DEF Post, At
<1>2. k \in 0..Len(batch) /\ k \in Nat /\ Len(batch) \in Nat
  BY InOrderFacts, TimeSliceAssumption DEF NextBatch
<1>3. /\ batch \in Seq(1..MaxContacts) /\ Len(batch) <= Depth /\ Depth \in Nat
      /\ received \in Seq(1..MaxContacts)
      /\ count \in [decoded : Nat, dropped : Nat, sent : Nat, failed : Nat]
  BY TimeSliceAssumption DEF IInv, TypeOK
<1>4. Len(rest) = Len(batch) - k
  BY <1>2, InOrderFacts, Parts
<1> HIDE DEF k
<1>5. request \in Seq(1..MaxContacts) /\ rest \in Seq(1..MaxContacts)
  BY <1>2, <1>3, PartsType
<1>6. /\ Increasing(request) /\ Increasing(rest) /\ Below(request, rest)
      /\ \A i \in DOMAIN request : \E j \in DOMAIN batch : request[i] = batch[j]
      /\ \A i \in DOMAIN rest : \E j \in DOMAIN batch : rest[i] = batch[j]
  BY <1>2, InOrderFacts, PartsOrdered DEF IInv, Ordered
<1> HIDE DEF request, rest
<1>7. TypeOK'
  <2>1. batch' \in Seq(1..MaxContacts) /\ Len(batch') <= Depth
    BY <1>1, <1>2, <1>3, <1>4, <1>5
  <2>2. received' \in Seq(1..MaxContacts)
    <3>1. received \o request \in Seq(1..MaxContacts)
      BY <1>3, <1>5
    <3>2. QED
      BY <1>1, <1>3, <3>1
  <2>3. count' \in [decoded : Nat, dropped : Nat, sent : Nat, failed : Nat]
    <3>1. CASE outcome = "sent"
      BY <1>1, <1>2, <1>3, <3>1
    <3>2. CASE outcome = "failed"
      BY <1>1, <1>2, <1>3, <3>2
    <3>3. QED
      BY <3>1, <3>2
  <2>4. QED
    BY <1>1, <2>1, <2>2, <2>3 DEF IInv, TypeOK, network, health
<1>8. InHand' /\ Posting'
  BY <1>1 DEF IInv, InHand, Posting
<1>9. Accounted'
  <2>1. /\ count.decoded \in Nat /\ count.dropped \in Nat
        /\ count.sent \in Nat /\ count.failed \in Nat
    BY <1>3
  <2>2. /\ count'.decoded = count.decoded /\ count'.dropped = count.dropped
        /\ \/ count'.sent = count.sent + k /\ count'.failed = count.failed
           \/ count'.sent = count.sent /\ count'.failed = count.failed + k
    <3>1. CASE outcome = "sent"
      BY <1>1, <1>2, <1>3, <3>1
    <3>2. CASE outcome = "failed"
      BY <1>1, <1>2, <1>3, <3>2
    <3>3. QED
      BY <3>1, <3>2
  <2>3. Len(batch') = Len(batch) - k /\ Len(queue') = Len(queue) /\ Len(queue) \in Nat
    BY <1>1, <1>4, InOrderFacts
  <2> DEFINE hand == IF driver = 0 THEN 0 ELSE 1
  <2>4. hand \in Nat
    OBVIOUS
  <2>5. count.decoded = hand + Len(queue) + Len(batch) + count.sent + count.failed + count.dropped
    BY DEF IInv, Accounted
  <2> HIDE DEF hand
  <2>6. count'.decoded = hand + Len(queue') + Len(batch') + count'.sent + count'.failed
                         + count'.dropped
    BY <1>2, <2>1, <2>2, <2>3, <2>4, <2>5
  <2>7. QED
    BY <1>1, <2>6 DEF Accounted, hand
<1>10. Ordered'
  <2>1. Newest' = Newest
    BY <1>1 DEF Newest
  <2>2. /\ Increasing(received) /\ Increasing(queue)
        /\ Below(received, batch) /\ Below(received, queue) /\ Below(batch, queue)
        /\ UpTo(received, Newest) /\ UpTo(batch, Newest) /\ UpTo(queue, Newest)
    BY DEF IInv, Ordered
  <2>3. /\ Below(received, request) /\ Below(received, rest)
        /\ Below(request, queue) /\ Below(rest, queue)
        /\ UpTo(request, Newest) /\ UpTo(rest, Newest)
    BY <1>6, <2>2 DEF Below, UpTo
  <2>4. CASE ~ stored
    BY <1>1, <1>6, <2>1, <2>2, <2>3, <2>4 DEF Ordered
  <2>5. CASE stored
    <3>1. received' = received \o request
      BY <1>1, <2>5
    <3>2. request \in Seq(Nat) /\ received \in Seq(Nat)
      BY <1>5, InOrderFacts, TimeSliceAssumption
    <3>3. /\ Increasing(received')
          /\ \A i \in DOMAIN received' : \/ \E j \in DOMAIN received : received'[i] = received[j]
                                        \/ \E j \in DOMAIN request : received'[i] = request[j]
      BY <1>6, <2>2, <2>3, <3>1, <3>2, ConcatOrdered
    <3>4. Below(received', rest) /\ Below(received', queue) /\ UpTo(received', Newest)
      BY <1>6, <2>2, <2>3, <3>3 DEF Below, UpTo
    <3>5. QED
      BY <1>1, <1>6, <2>1, <2>2, <2>3, <3>3, <3>4 DEF Ordered
  <2>6. QED
    BY <2>4, <2>5
<1>11. QED
  BY <1>7, <1>8, <1>9, <1>10 DEF IInv

LEMMA NextIInv == IInv /\ [Next]_vars => IInv'
<1> SUFFICES ASSUME IInv, [Next]_vars PROVE IInv'
  OBVIOUS
<1>1. CASE Hear
  BY <1>1, HearIInv
<1>2. CASE Remember
  BY <1>2, RememberIInv
<1>3. CASE Associated \/ LinkFails \/ on_wifi_event \/ ClockSynced \/ Claimed
  BY <1>3, NetworkIInv
<1>4. CASE CaptureStep
  BY <1>4, CaptureIInv
<1>5. CASE Copy
  BY <1>5, CopyIInv
<1>6. CASE Reported
  <2>1. faults' \in 0..MaxFaults
    BY <1>6 DEF Reported, IInv, TypeOK
  <2>2. QED
    BY <1>6, <2>1, PostIInv DEF Reported
<1>7. CASE NotReady
  <2>1. faults' \in 0..MaxFaults
    BY <1>7 DEF NotReady, IInv, TypeOK
  <2>2. QED
    BY <1>7, <2>1, PostIInv DEF NotReady
<1>8. CASE ReportFails
  BY <1>8, FaultType, PostIInv DEF ReportFails
<1>9. CASE Abort
  <2>1. faults' \in 0..MaxFaults
    BY <1>9 DEF Abort, IInv, TypeOK
  <2>2. QED
    BY <1>9, <2>1, BootedIInv DEF Abort
<1>10. CASE PowerLost
  BY <1>10, FaultType, BootedIInv DEF PowerLost
<1>11. CASE UNCHANGED vars
  BY <1>11 DEF vars, network, contacts, health, IInv, TypeOK, InHand, Posting, Accounted, Ordered,
     Newest
<1>12. QED
  BY <1>1, <1>2, <1>3, <1>4, <1>5, <1>6, <1>7, <1>8, <1>9, <1>10, <1>11
  DEF Next, capture_task, CaptureStep

-----------------------------------------------------------------------------
(* The theorems.                                                           *)

LEMMA Inductive == Spec => []IInv
  BY InitIInv, NextIInv, PTL DEF Spec

\* The variables keep their types: neither the queue nor what is taken off it ever
\* exceeds the arrays of wifi_capture.c.
THEOREM TypeCorrect == Spec => []TypeOK
<1>1. IInv => TypeOK
  BY DEF IInv
<1>2. QED
  BY <1>1, Inductive, PTL

\* Every contact decoded since boot is in hand, queued, being posted or counted exactly
\* once, whatever is lost between the driver, the queue, the network and the server.
THEOREM EveryContactAccounted == Spec => []Accounted
<1>1. IInv => Accounted
  BY DEF IInv
<1>2. QED
  BY <1>1, Inductive, PTL

\* What the Wi-Fi board delivers, the server stores at most once and in the order heard.
THEOREM StoredInOrderOnce == Spec => []InOrderOnce
<1>1. ASSUME IInv PROVE InOrderOnce
  <2>1. received \in Seq(Nat) /\ Increasing(received)
    BY InOrderFacts, <1>1 DEF IInv, Ordered
  <2>2. \A i \in 2..Len(received) : i - 1 \in DOMAIN received /\ i \in DOMAIN received /\ i - 1 < i
    BY <2>1
  <2>3. QED
    BY <2>1, <2>2 DEF InOrderOnce, Increasing
<1>2. QED
  BY <1>1, Inductive, PTL

-----------------------------------------------------------------------------
(* The board restarts itself only after a failure.                         *)

Disconnections == {i \in DOMAIN events : events[i] = "disconnected"}

\* While nothing has failed, the one disconnection is leave_network's own: it happens
\* with the station held, on_wifi_event leaves the station alone, and the board wakes
\* after the event is handled.  So the station is idle when the channel is claimed.
Undisturbed ==
  faults = 0 =>
    /\ handler = "idle"
    /\ capture.pc \in {"disconnect", "tune", "listening"} => station_held
    /\ capture.pc \in {"tune", "listening"} => station = "idle"
    /\ Disconnections # {} => capture.pc \in {"tune", "listening"}

LEMMA EventsAppended ==
  ASSUME IInv, NEW e \in {"got_ip", "disconnected"}, events' = Append(events, e)
  PROVE  e # "disconnected" => (Disconnections' # {} => Disconnections # {})
<1>1. events \in Seq({"got_ip", "disconnected"})
  BY DEF IInv, TypeOK
<1>2. /\ DOMAIN events = 1..Len(events) /\ DOMAIN events' = 1..(Len(events) + 1)
      /\ Len(events) \in Nat /\ events'[Len(events) + 1] = e
      /\ \A i \in 1..Len(events) : events'[i] = events[i]
  BY <1>1
<1>3. QED
  BY <1>2 DEF Disconnections

LEMMA EventsTaken ==
  ASSUME IInv, events # <<>>, events' = Tail(events)
  PROVE  /\ Disconnections' # {} => Disconnections # {}
         /\ Head(events) = "disconnected" => Disconnections # {}
<1>1. events \in Seq({"got_ip", "disconnected"})
  BY DEF IInv, TypeOK
<1>2. /\ DOMAIN events = 1..Len(events) /\ DOMAIN events' = 1..(Len(events) - 1)
      /\ Len(events) \in Nat \ {0} /\ Head(events) = events[1]
      /\ \A i \in 1..(Len(events) - 1) : events'[i] = events[i + 1]
  BY <1>1
<1>3. \A i \in 1..(Len(events) - 1) : i + 1 \in 1..Len(events)
  BY <1>2
<1>4. 1 \in DOMAIN events
  BY <1>2
<1>5. QED
  BY <1>2, <1>3, <1>4 DEF Disconnections

\* A failure is remembered.
LEMMA FaultsStay ==
  ASSUME IInv, Next, faults' = 0
  PROVE  /\ faults = 0
         /\ ~ LinkFails /\ ~ TooSlow /\ ~ BeatLost /\ ~ ReportFails /\ ~ PowerLost
<1>1. faults \in Nat
  BY TimeSliceAssumption DEF IInv, TypeOK
<1>2. ~ Fault
  BY <1>1 DEF Fault
<1>3. ~ LinkFails /\ ~ TooSlow /\ ~ BeatLost /\ ~ ReportFails /\ ~ PowerLost
  BY <1>2 DEF LinkFails, TooSlow, BeatLost, ReportFails, PowerLost
<1>4. faults' = faults
  <2>1. CASE Hear \/ Remember \/ Associated \/ on_wifi_event \/ ClockSynced \/ Claimed
    BY <2>1 DEF Hear, Remember, Associated, on_wifi_event, GotIp, Disconnected, Reconnect,
       ClockSynced, Claimed
  <2>2. CASE capture_task
    <3>1. CASE Beat
      BY <1>2, <3>1 DEF Beat
    <3>2. CASE capture_task /\ ~ Beat
      BY <3>2 DEF capture_task, Release, ConnectNow, NetworkUp, Unclaimed, Joined, Drain, Copy,
         Reported, NotReady, Drained, Hold, Disconnect, Tune, Abort, Wake
    <3>3. QED
      BY <2>2, <3>1, <3>2
  <2>3. QED
    BY <1>3, <2>1, <2>2 DEF Next
<1>5. QED
  BY <1>3, <1>4

LEMMA StepUndisturbed == IInv /\ Undisturbed /\ [Next]_vars => Undisturbed'
<1> SUFFICES ASSUME IInv, Undisturbed, [Next]_vars, faults' = 0
             PROVE  /\ handler' = "idle"
                    /\ capture'.pc \in {"disconnect", "tune", "listening"} => station_held'
                    /\ capture'.pc \in {"tune", "listening"} => station' = "idle"
                    /\ Disconnections' # {} => capture'.pc \in {"tune", "listening"}
  BY DEF Undisturbed
<1>1. CASE UNCHANGED vars
  BY <1>1 DEF vars, network, Undisturbed, Disconnections
<1>2. CASE Next
  <2>1. /\ faults = 0
        /\ ~ LinkFails /\ ~ TooSlow /\ ~ BeatLost /\ ~ ReportFails /\ ~ PowerLost
    BY <1>2, FaultsStay
  <2>2. /\ handler = "idle"
        /\ capture.pc \in {"disconnect", "tune", "listening"} => station_held
        /\ capture.pc \in {"tune", "listening"} => station = "idle"
        /\ Disconnections # {} => capture.pc \in {"tune", "listening"}
    BY <2>1 DEF Undisturbed
  <2>3. capture \in [pc : Steps, window : BOOLEAN]
    BY DEF IInv, TypeOK
  <2>4. CASE Hear \/ Remember \/ ClockSynced \/ Claimed
    BY <2>2, <2>4 DEF Hear, Remember, ClockSynced, Claimed, network, Disconnections
  <2>5. CASE Associated
    <3>1. Disconnections' # {} => Disconnections # {}
      BY <2>5, EventsAppended DEF Associated, Happen
    <3>2. QED
      BY <2>2, <2>5, <3>1 DEF Associated
  <2>6. CASE GotIp
    <3>1. Disconnections' # {} => Disconnections # {}
      BY <2>6, EventsTaken DEF GotIp
    <3>2. QED
      BY <2>2, <2>6, <3>1 DEF GotIp
  <2>7. CASE Disconnected
    <3>1. (Disconnections' # {} => Disconnections # {}) /\ Disconnections # {}
      BY <2>7, EventsTaken DEF Disconnected
    <3>2. QED
      BY <2>2, <2>7, <3>1 DEF Disconnected
  <2>8. CASE Reconnect
    BY <2>2, <2>8 DEF Reconnect
  <2>9. CASE Release \/ ConnectNow \/ NetworkUp \/ Unclaimed \/ Joined \/ Beat \/ Drain
    <3>1. /\ capture.pc \in {"release", "connect", "joining", "joined", "beat", "drain"}
          /\ capture'.pc \in Steps \ {"disconnect", "tune", "listening"}
          /\ handler' = handler /\ events' = events
      BY <2>3, <2>9 DEF Release, ConnectNow, NetworkUp, Unclaimed, Joining, Joined, Beat, Drain,
         Goto, At, Steps, network
    <3>2. QED
      BY <2>2, <3>1 DEF Disconnections
  <2>10. CASE Copy \/ Drained \/ Reported \/ NotReady
    <3>1. /\ capture.pc \in {"copying", "posting"} /\ capture'.pc \in {"posting", "hold"}
          /\ handler' = handler /\ events' = events
      BY <2>3, <2>10 DEF Copy, Drained, Reported, NotReady, Post, Goto, At, network
    <3>2. QED
      BY <2>2, <3>1 DEF Disconnections
  <2>11. CASE Hold
    BY <2>2, <2>3, <2>11 DEF Hold, Goto, At, Disconnections
  <2>12. CASE Disconnect
    BY <2>2, <2>3, <2>12 DEF Disconnect, Goto, At
  <2>13. CASE Tune
    BY <2>2, <2>3, <2>13 DEF Tune, Goto, At, network, Disconnections
  <2>14. CASE Abort
    BY <2>2, <2>14 DEF Abort, At
  <2>15. CASE Wake
    BY <2>2, <2>15 DEF Wake, At, network, Disconnections
  <2>16. QED
    BY <1>2, <2>1, <2>4, <2>5, <2>6, <2>7, <2>8, <2>9, <2>10, <2>11, <2>12, <2>13, <2>14, <2>15
    DEF Next, capture_task, on_wifi_event
<1>3. QED
  BY <1>1, <1>2

\* Left alone by the network and the server, the board never claims the channel while
\* its own station is on the way, so it never restarts itself.
THEOREM RestartsOnlyAfterFailure == Spec => NoBootLoop
<1>1. Init => Undisturbed
  BY DEF Init, Undisturbed, Disconnections
<1>2. IInv /\ Undisturbed /\ [Next]_vars => Undisturbed'
  BY StepUndisturbed
<1>3. IInv /\ Undisturbed => [Abort => faults > 0]_vars
  BY TimeSliceAssumption DEF IInv, TypeOK, Undisturbed, Abort, At
<1>4. QED
  BY <1>1, <1>2, <1>3, Inductive, PTL DEF Spec, NoBootLoop
=============================================================================
