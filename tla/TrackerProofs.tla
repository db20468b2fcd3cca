--------------------------- MODULE TrackerProofs ----------------------------
(* Theorems about the two halves of radio_tracker.py that a detection passes  *)
(* through: Contacts, for any addresses, IDs, frames and bounds, and then     *)
(* Outbox, for any bounds on rows and faults, any batch size and any limit on *)
(* the errors an answer lists.                                                *)
EXTENDS Contacts, Outbox, FiniteSetTheorems, TLAPS

USE DEF Dropping

\* What each thread has in hand where it is: the frame and the key it works on,
\* and a live reference only to a dictionary that exists.
InHand ==
  /\ \A t \in Threads :
       /\ capture[t].pc = "merge" => capture[t].frame \in Frames
       /\ capture[t].pc \in {"lookup", "expire", "schedule"} => capture[t].key \in Keys
  /\ \A i \in Timers :
       /\ timer[i].pc # "free" => timer[i].key \in Keys
       /\ timer[i].pc \in Dropping => timer[i].victim \in Keys
       /\ timer[i].live => timer[i].pc \in Running /\ drone_state[timer[i].key] # NONE

IInv == TypeOK /\ InHand /\ NoStrandedTimer

LEMMA FreeTimerType == FreeTimer \in TimerState
  BY ContactsAssumption DEF FreeTimer, TimerState, Running, Maybe, Telemetry, Blank, Time

LEMMA UpdateType ==
  ASSUME NEW a \in Telemetry, NEW b \in Telemetry
  PROVE  Update(a, b) \in Telemetry
  BY DEF Update, Telemetry

LEMMA DecodedType ==
  ASSUME NEW f \in Frames, NEW at \in Time
  PROVE  Decoded(f, at) \in Telemetry
  BY ContactsAssumption DEF Decoded, Telemetry, Maybe, Frame

LEMMA ResolveType ==
  ASSUME TypeOK, NEW m \in Macs
  PROVE  resolve_state_key(m) \in Keys
  BY DEF TypeOK, resolve_state_key, OrElse, Keys, Maybe

LEMMA MergedType ==
  ASSUME TypeOK, NEW t \in Threads, capture[t].frame \in Frames
  PROVE  Merged(t) \in Telemetry
<1>1. capture[t].frame.mac \in Macs /\ capture[t].at \in Time
  BY ContactsAssumption DEF TypeOK, CaptureState, Frame
<1>2. OrElse(drone_state[resolve_state_key(capture[t].frame.mac)], Blank) \in Telemetry
  BY <1>1, ResolveType DEF TypeOK, OrElse, Maybe, Blank, Telemetry
<1>3. QED
  BY <1>1, <1>2, DecodedType, UpdateType DEF Merged

LEMMA OrphanedType ==
  ASSUME TypeOK, NEW k \in Keys, NEW obj \in Telemetry
  PROVE  /\ Orphaned(k, obj) \in [Timers -> TimerState]
         /\ \A i \in Timers : /\ Orphaned(k, obj)[i].pc = timer[i].pc
                              /\ Orphaned(k, obj)[i].key = timer[i].key
                              /\ Orphaned(k, obj)[i].victim = timer[i].victim
                              /\ Orphaned(k, obj)[i].dropped = timer[i].dropped
                              /\ Orphaned(k, obj)[i].live => timer[i].live /\ timer[i].key # k
<1>1. \A i \in Timers : timer[i] \in TimerState
  BY DEF TypeOK
<1>2. \A i \in Timers : [timer[i] EXCEPT !.live = FALSE, !.obj = obj] \in TimerState
  BY <1>1 DEF TimerState
<1>3. Orphaned(k, obj) \in [Timers -> TimerState]
  BY <1>1, <1>2 DEF Orphaned
<1>4. QED
  BY <1>1, <1>3 DEF Orphaned, TimerState

\* Timers ts that differ from us in no field the invariant speaks of.
Alike(ts, us) ==
  /\ ts \in [Timers -> TimerState]
  /\ \A i \in Timers : /\ ts[i].pc = us[i].pc /\ ts[i].key = us[i].key
                       /\ ts[i].victim = us[i].victim /\ ts[i].live = us[i].live
                       /\ ts[i].doomed = us[i].doomed /\ ts[i].dropped = us[i].dropped

LEMMA MacsType ==
  ASSUME NEW ts \in [Timers -> TimerState], NEW k, NEW S
  PROVE  Alike(MacsGrow(ts, k, S), ts) /\ Alike(MacsPopped(ts, k), ts)
<1>1. \A i \in Timers : [ts[i] EXCEPT !.macs = "grown"] \in TimerState
                        /\ [ts[i] EXCEPT !.macs = "private"] \in TimerState
  BY DEF TimerState
<1>2. MacsGrow(ts, k, S) \in [Timers -> TimerState]
  BY <1>1 DEF MacsGrow
<1>3. MacsPopped(ts, k) \in [Timers -> TimerState]
  BY <1>1 DEF MacsPopped
<1>4. QED
  BY <1>2, <1>3 DEF MacsGrow, MacsPopped, Alike, TimerState

LEMMA InitIInv == Init => IInv
<1> SUFFICES ASSUME Init PROVE IInv
  OBVIOUS
<1>1. \A t \in Threads : IdleThread \in CaptureState
  BY ContactsAssumption DEF IdleThread, CaptureState, Maybe, Time
<1>2. TypeOK
  BY <1>1, FreeTimerType, ContactsAssumption DEF Init, TypeOK, CaptureState, TimerState, Maybe, Time
<1>3. InHand /\ NoStrandedTimer
  BY ContactsAssumption DEF Init, InHand, NoStrandedTimer, IdleThread, FreeTimer
<1>4. QED
  BY <1>2, <1>3 DEF IInv
-----------------------------------------------------------------------------
(* The capture threads.                                                    *)

LEMMA HearIInv == ASSUME IInv, NEW t \in Threads, Hear(t) PROVE IInv'
<1>1. TypeOK'
  BY ContactsAssumption DEF IInv, TypeOK, Hear, contact, CaptureState, Maybe, Time
<1>2. InHand' /\ NoStrandedTimer'
  BY DEF IInv, TypeOK, InHand, NoStrandedTimer, Hear, contact
<1>3. QED
  BY <1>1, <1>2 DEF IInv

LEMMA ReadSentAtIInv == ASSUME IInv, NEW t \in Threads, ReadSentAt(t) PROVE IInv'
<1>1. TypeOK'
  BY DEF IInv, TypeOK, ReadSentAt, contact, CaptureState
<1>2. InHand' /\ NoStrandedTimer'
  BY DEF IInv, TypeOK, InHand, NoStrandedTimer, ReadSentAt, contact, CaptureState
<1>3. QED
  BY <1>1, <1>2 DEF IInv

LEMMA ExpireCooldownIInv == ASSUME IInv, NEW t \in Threads, ExpireCooldown(t) PROVE IInv'
<1>1. TypeOK'
  BY DEF IInv, TypeOK, ExpireCooldown, contact, CaptureState, Maybe
<1>2. InHand' /\ NoStrandedTimer'
  BY DEF IInv, TypeOK, InHand, NoStrandedTimer, ExpireCooldown, contact, CaptureState
<1>3. QED
  BY <1>1, <1>2 DEF IInv

LEMMA IdleThreadType == MaxTime \in Nat => IdleThread \in CaptureState
  BY DEF IdleThread, CaptureState, Maybe, Time

LEMMA CoveredIInv == ASSUME IInv, NEW t \in Threads, Covered(t) PROVE IInv'
<1>1. TypeOK'
  BY IdleThreadType, ContactsAssumption DEF IInv, TypeOK, Covered, contact
<1>2. InHand' /\ NoStrandedTimer'
  BY DEF IInv, TypeOK, InHand, NoStrandedTimer, Covered, contact, IdleThread
<1>3. QED
  BY <1>1, <1>2 DEF IInv

LEMMA ScheduleIInv == ASSUME IInv, NEW t \in Threads, Schedule(t) PROVE IInv'
<1> DEFINE k == capture[t].key
           i == CHOOSE j \in Timers : timer[j].pc = "free"
           armed == [FreeTimer EXCEPT !.pc = "armed", !.key = k, !.due = now + Grace]
<1>1. k \in Keys /\ i \in Timers /\ timer[i].pc = "free"
  BY DEF IInv, InHand, Schedule
<1>2. armed \in TimerState /\ armed.pc = "armed" /\ armed.key = k /\ ~ armed.live
  <2>1. now + Grace \in Nat
    BY ContactsAssumption DEF IInv, TypeOK, Time
  <2>2. FreeTimer \in TimerState /\ FreeTimer.live = FALSE
    BY FreeTimerType DEF FreeTimer
  <2>3. QED
    BY <1>1, <2>1, <2>2 DEF TimerState, Maybe
<1>3. timer' = [timer EXCEPT ![i] = armed]
  BY DEF Schedule
<1> HIDE DEF armed, i
<1>4. TypeOK'
  BY <1>1, <1>2, <1>3, IdleThreadType, ContactsAssumption
     DEF IInv, TypeOK, Schedule, contact, Maybe, i
<1>5. InHand'
  BY <1>1, <1>2, <1>3 DEF IInv, TypeOK, InHand, Schedule, contact, IdleThread
<1>6. NoStrandedTimer'
  BY <1>1, <1>2, <1>3 DEF IInv, TypeOK, NoStrandedTimer, Schedule, i
<1>7. QED
  BY <1>4, <1>5, <1>6 DEF IInv

LEMMA StampType ==
  ASSUME TypeOK, NEW t \in Threads, NEW k \in Keys,
         NEW first \in [Keys -> Maybe(Time)], NEW position \in [Keys -> Maybe(Time)],
         Stamp(t, k, first, position)
  PROVE  /\ key_to_first_seen' \in [Keys -> Maybe(Time)]
         /\ key_to_position_at' \in [Keys -> Maybe(Time)]
         /\ capture' \in [Threads -> CaptureState]
         /\ \A s \in Threads : IF s = t THEN capture'[s].pc = "lookup" /\ capture'[s].key = k
                                        ELSE capture'[s] = capture[s]
<1>1. capture[t] \in CaptureState /\ capture[t].at \in Time
  BY DEF TypeOK, CaptureState
<1>2. key_to_first_seen' \in [Keys -> Maybe(Time)]
  BY <1>1 DEF Stamp, OrElse, Maybe
<1>3. key_to_position_at' \in [Keys -> Maybe(Time)]
  BY <1>1 DEF Stamp, Maybe
<1>4. [[capture[t] EXCEPT !.pc = "lookup"] EXCEPT !.key = k] \in CaptureState
  BY <1>1 DEF CaptureState, Maybe
<1>5. capture' = [capture EXCEPT ![t] = [[capture[t] EXCEPT !.pc = "lookup"] EXCEPT !.key = k]]
  BY <1>1 DEF Stamp, TypeOK, CaptureState
<1>6. capture' \in [Threads -> CaptureState]
  BY <1>4, <1>5 DEF TypeOK
<1>7. QED
  BY <1>1, <1>2, <1>3, <1>5, <1>6 DEF TypeOK, CaptureState

LEMMA MergeInPlaceIInv == ASSUME IInv, NEW t \in Threads, MergeInPlace(t) PROVE IInv'
<1> DEFINE m == capture[t].frame.mac
           k == resolve_state_key(m)
<1>1. /\ TypeOK /\ InHand /\ NoStrandedTimer
      /\ capture[t].frame \in Frames
  BY DEF IInv, InHand, MergeInPlace
<1>2. m \in Macs /\ k \in Keys /\ Merged(t) \in Telemetry
  BY <1>1, MergedType, ResolveType, ContactsAssumption DEF Frame
<1>3. Merged(t) # NONE
  BY <1>2, ContactsAssumption DEF Telemetry
<1>4. /\ drone_state' = [drone_state EXCEPT ![k] = Merged(t)]
      /\ key_to_macs' = [key_to_macs EXCEPT ![k] = @ \cup {m}]
      /\ Stamp(t, k, key_to_first_seen, key_to_position_at)
      /\ timer' = MacsGrow(timer, k, {m})
      /\ UNCHANGED <<now, heard, transport_mac_to_key, pending_alert_timers,
                     sent_alert_tracker, rows, owed, lost>>
  BY DEF MergeInPlace
<1> HIDE DEF k
<1>5. Alike(timer', timer)
  BY <1>1, <1>4, MacsType DEF TypeOK
<1>6. TypeOK'
  BY <1>1, <1>2, <1>4, <1>5, StampType DEF TypeOK, Maybe, Alike
<1>7. InHand'
  <2>1. \A s \in Threads : IF s = t THEN capture'[s].pc = "lookup" /\ capture'[s].key = k
                                     ELSE capture'[s] = capture[s]
    BY <1>1, <1>2, <1>4, StampType DEF TypeOK
  <2>2. \A j \in Keys : drone_state[j] # NONE => drone_state'[j] # NONE
    BY <1>1, <1>2, <1>3, <1>4 DEF TypeOK
  <2>3. \A i \in Timers :
          /\ timer'[i].pc # "free" => timer'[i].key \in Keys
          /\ timer'[i].pc \in Dropping => timer'[i].victim \in Keys
          /\ timer'[i].live => timer'[i].pc \in Running /\ drone_state'[timer'[i].key] # NONE
    <3> TAKE i \in Timers
    <3>1. /\ timer'[i].pc = timer[i].pc /\ timer'[i].key = timer[i].key
          /\ timer'[i].victim = timer[i].victim /\ timer'[i].live = timer[i].live
      BY <1>5 DEF Alike
    <3>2. timer[i].live => timer[i].key \in Keys
      BY <1>1 DEF InHand, Running
    <3>3. QED
      BY <1>1, <2>2, <3>1, <3>2 DEF InHand
  <2>4. \A s \in Threads :
          /\ capture'[s].pc = "merge" => capture'[s].frame \in Frames
          /\ capture'[s].pc \in {"lookup", "expire", "schedule"} => capture'[s].key \in Keys
    <3> TAKE s \in Threads
    <3>1. CASE s = t
      BY <1>2, <2>1, <3>1
    <3>2. CASE s # t
      <4>1. capture'[s] = capture[s]
        BY <2>1, <3>2
      <4>2. QED
        BY <1>1, <4>1 DEF InHand
    <3>3. QED
      BY <3>1, <3>2
  <2>5. QED
    BY <2>3, <2>4 DEF InHand
<1>8. NoStrandedTimer'
  <2>1. \A i \in Timers : timer'[i].pc = timer[i].pc /\ timer'[i].key = timer[i].key
    BY <1>5 DEF Alike
  <2>2. \A x \in Keys : pending_alert_timers[x] # NONE => pending_alert_timers[x] \in Timers
    BY <1>1 DEF TypeOK, Maybe
  <2>3. QED
    BY <1>1, <1>4, <2>1, <2>2 DEF NoStrandedTimer
<1>9. QED
  BY <1>6, <1>7, <1>8 DEF IInv

LEMMA CancelledType ==
  ASSUME NEW ts \in [Timers -> TimerState], NEW i
  PROVE  /\ Cancelled(ts, i) \in [Timers -> TimerState]
         /\ \A j \in Timers : \/ Cancelled(ts, i)[j] = ts[j]
                              \/ j = i /\ Cancelled(ts, i)[j] = FreeTimer
  BY FreeTimerType DEF Cancelled

LEMMA MergeRekeyIInv == ASSUME IInv, NEW t \in Threads, MergeRekey(t) PROVE IInv'
<1> DEFINE m == capture[t].frame.mac
           k == resolve_state_key(m)
           u == Merged(t).id
           target == Update(OrElse(drone_state[u], Blank), Merged(t))
           first == [key_to_first_seen EXCEPT ![k] = NONE, ![u] = Earlier(@, key_to_first_seen[k])]
           position == [key_to_position_at EXCEPT ![k] = NONE, ![u] = Later(@, key_to_position_at[k])]
           stale == pending_alert_timers[k]
           orphaned == Orphaned(k, Merged(t))
           grown == MacsGrow(orphaned, k, {m})
           popped == MacsPopped(grown, k)
           detached == MacsGrow(popped, u, key_to_macs[k] \cup {m})
<1>1. /\ TypeOK /\ InHand /\ NoStrandedTimer
      /\ capture[t].frame \in Frames
  BY DEF IInv, InHand, MergeRekey
<1>2. m \in Macs /\ k \in Keys /\ Merged(t) \in Telemetry
  BY <1>1, MergedType, ResolveType, ContactsAssumption DEF Frame
<1>3. u \in Uas /\ u \in Keys /\ u # k
  BY <1>2 DEF MergeRekey, Telemetry, Maybe, Keys
<1>4. target \in Telemetry /\ target # NONE
  <2>1. OrElse(drone_state[u], Blank) \in Telemetry
    BY <1>1, <1>3 DEF TypeOK, OrElse, Maybe, Blank, Telemetry
  <2>2. QED
    BY <1>2, <2>1, UpdateType, ContactsAssumption
<1>5. first \in [Keys -> Maybe(Time)] /\ position \in [Keys -> Maybe(Time)]
  BY <1>1, <1>2, <1>3 DEF TypeOK, Earlier, Later, Maybe
<1>6. /\ drone_state' = [drone_state EXCEPT ![k] = NONE, ![u] = target]
      /\ key_to_macs' = [key_to_macs EXCEPT ![k] = {}, ![u] = @ \cup key_to_macs[k] \cup {m}]
      /\ Stamp(t, u, first, position)
      /\ transport_mac_to_key' = [transport_mac_to_key EXCEPT ![m] = u]
      /\ pending_alert_timers' = [pending_alert_timers EXCEPT ![k] = NONE]
      /\ timer' = Cancelled(detached, stale)
      /\ owed' = Renamed(owed, k, u) /\ lost' = Renamed(lost, k, u)
      /\ UNCHANGED <<now, heard, sent_alert_tracker, rows>>
  BY DEF MergeRekey, Unregistered
<1>7. /\ detached \in [Timers -> TimerState]
      /\ \A i \in Timers : /\ detached[i].pc = timer[i].pc
                           /\ detached[i].key = timer[i].key
                           /\ detached[i].victim = timer[i].victim
                           /\ detached[i].live => timer[i].live /\ timer[i].key # k
  <2>1. /\ orphaned \in [Timers -> TimerState]
        /\ \A i \in Timers : /\ orphaned[i].pc = timer[i].pc
                             /\ orphaned[i].key = timer[i].key
                             /\ orphaned[i].victim = timer[i].victim
                             /\ orphaned[i].live => timer[i].live /\ timer[i].key # k
    BY <1>1, <1>2, OrphanedType
  <2> HIDE DEF orphaned
  <2>2. Alike(grown, orphaned)
    BY <2>1, MacsType
  <2> HIDE DEF grown
  <2>3. grown \in [Timers -> TimerState]
    BY <2>2 DEF Alike
  <2>4. Alike(popped, grown)
    BY <2>3, MacsType
  <2> HIDE DEF popped
  <2>5. popped \in [Timers -> TimerState]
    BY <2>4 DEF Alike
  <2>6. Alike(detached, popped)
    BY <2>5, MacsType
  <2> HIDE DEF detached
  <2>7. QED
    BY <2>1, <2>2, <2>4, <2>6 DEF Alike
<1> HIDE DEF m, k, u, target, first, position, stale, orphaned, grown, popped, detached
<1>8. /\ timer' \in [Timers -> TimerState]
      /\ \A i \in Timers : \/ timer'[i] = detached[i]
                           \/ i = stale /\ timer'[i] = FreeTimer
  BY <1>6, <1>7, CancelledType
<1>9. TypeOK'
  <2>1. owed' \subseteq Keys /\ lost' \subseteq Keys
    BY <1>1, <1>3, <1>6 DEF TypeOK, Renamed
  <2>2. /\ drone_state' \in [Keys -> Maybe(Telemetry)]
        /\ key_to_macs' \in [Keys -> SUBSET Macs]
        /\ transport_mac_to_key' \in [Macs -> Maybe(Uas)]
        /\ pending_alert_timers' \in [Keys -> Maybe(Timers)]
    BY <1>1, <1>2, <1>3, <1>4, <1>6 DEF TypeOK, Maybe
  <2>3. QED
    BY <1>1, <1>3, <1>5, <1>6, <1>8, <2>1, <2>2, StampType DEF TypeOK
<1>10. InHand'
  <2>1. \A i \in Timers :
          drone_state[timer[i].key] # NONE /\ timer[i].key # k /\ timer[i].key \in Keys
          => drone_state'[timer[i].key] # NONE
    BY <1>1, <1>2, <1>3, <1>4, <1>6 DEF TypeOK
  <2>2. \A i \in Timers :
          timer'[i].live => timer'[i].pc \in Running /\ drone_state'[timer'[i].key] # NONE
    <3> TAKE i \in Timers
    <3> HAVE timer'[i].live
    <3>1. timer'[i] = detached[i]
      BY <1>8 DEF FreeTimer
    <3>2. timer[i].live /\ timer[i].pc \in Running /\ timer[i].key # k
          /\ drone_state[timer[i].key] # NONE
      BY <1>1, <1>7, <3>1 DEF InHand
    <3>3. timer[i].key \in Keys
      BY <1>1, <3>2 DEF InHand, Running
    <3>4. QED
      BY <1>7, <2>1, <3>1, <3>2, <3>3
  <2>3. \A i \in Timers :
          /\ timer'[i].pc # "free" => timer'[i].key \in Keys
          /\ timer'[i].pc \in Dropping => timer'[i].victim \in Keys
    BY <1>1, <1>7, <1>8 DEF InHand, FreeTimer
  <2>4. \A s \in Threads : IF s = t THEN capture'[s].pc = "lookup" /\ capture'[s].key = u
                                     ELSE capture'[s] = capture[s]
    BY <1>1, <1>3, <1>5, <1>6, StampType
  <2>5. \A s \in Threads :
          /\ capture'[s].pc = "merge" => capture'[s].frame \in Frames
          /\ capture'[s].pc \in {"lookup", "expire", "schedule"} => capture'[s].key \in Keys
    <3> TAKE s \in Threads
    <3>1. CASE s = t
      BY <1>3, <2>4, <3>1
    <3>2. CASE s # t
      <4>1. capture'[s] = capture[s]
        BY <2>4, <3>2
      <4>2. QED
        BY <1>1, <4>1 DEF InHand
    <3>3. QED
      BY <3>1, <3>2
  <2>6. QED
    BY <2>2, <2>3, <2>5 DEF InHand
<1>11. NoStrandedTimer'
  BY <1>1, <1>2, <1>6, <1>7, <1>8, ContactsAssumption DEF TypeOK, NoStrandedTimer, Maybe, stale
<1>12. QED
  BY <1>9, <1>10, <1>11 DEF IInv
-----------------------------------------------------------------------------
(* The timers' threads.                                                    *)

\* What each step of a timer's thread does to the timers: only timer i changes,
\* it keeps its key, and it is registered afterwards only if it was before.
LEMMA TimerStep ==
  ASSUME IInv, NEW i \in Timers, NEW r \in TimerState,
         timer' = [timer EXCEPT ![i] = r],
         r.pc # "free" => r.key \in Keys,
         r.pc \in Dropping => r.victim \in Keys,
         r.live => r.pc \in Running /\ drone_state[r.key] # NONE,
         UNCHANGED <<now, heard, capture, drone_state>>
  PROVE  timer' \in [Timers -> TimerState] /\ InHand'
  BY DEF IInv, TypeOK, InHand

\* A timer that is no longer waiting to be finalised is not registered.
LEMMA RunningUnregistered ==
  ASSUME IInv, NEW i \in Timers, timer[i].pc \notin {"armed", "fired"}
  PROVE  \A k \in Keys : pending_alert_timers[k] # i
  BY ContactsAssumption DEF IInv, NoStrandedTimer

\* A step of a timer already past its locked block leaves registrations alone.
LEMMA PastFinalize ==
  ASSUME IInv, NEW i \in Timers, NEW r,
         timer[i].pc \notin {"armed", "fired"},
         timer' = [timer EXCEPT ![i] = r],
         UNCHANGED pending_alert_timers
  PROVE  NoStrandedTimer'
  BY RunningUnregistered DEF IInv, TypeOK, NoStrandedTimer, Maybe

LEMMA FireIInv == ASSUME IInv, NEW i \in Timers, Fire(i) PROVE IInv'
<1> DEFINE r == [timer[i] EXCEPT !.pc = "fired", !.since = now]
<1>1. timer[i] \in TimerState /\ now \in Time /\ timer[i].pc = "armed"
  BY DEF IInv, TypeOK, Fire
<1>2. r \in TimerState /\ r.pc = "fired" /\ r.key = timer[i].key /\ r.live = timer[i].live
  BY <1>1 DEF TimerState, Running
<1>3. timer' = [timer EXCEPT ![i] = r]
  BY <1>1 DEF Fire, IInv, TypeOK, TimerState
<1> HIDE DEF r
<1>4. r.key \in Keys /\ ~ r.live
  BY <1>1, <1>2 DEF IInv, InHand, Running, TimerState
<1>5. timer' \in [Timers -> TimerState] /\ InHand'
  BY <1>2, <1>3, <1>4, TimerStep DEF Fire, contact
<1>6. TypeOK'
  BY <1>5 DEF IInv, TypeOK, Fire, contact
<1>7. NoStrandedTimer'
  <2>1. UNCHANGED pending_alert_timers /\ timer \in [Timers -> TimerState]
    BY DEF Fire, IInv, TypeOK
  <2>2. \A j \in Timers : timer'[j] = IF j = i THEN r ELSE timer[j]
    BY <1>3, <2>1
  <2>3. \A k \in Keys : pending_alert_timers[k] \in Timers \cup {NONE}
    BY DEF IInv, TypeOK, Maybe
  <2>4. QED
    BY <1>1, <1>2, <2>1, <2>2, <2>3 DEF IInv, NoStrandedTimer
<1>8. QED
  BY <1>5, <1>6, <1>7 DEF IInv

LEMMA FinalizeIInv == ASSUME IInv, NEW i \in Timers, Finalize(i) PROVE IInv'
<1> DEFINE k == timer[i].key
           r == IF drone_state[k] = NONE THEN FreeTimer
                ELSE [timer[i] EXCEPT !.pc = "identify", !.live = TRUE]
<1>1. timer[i] \in TimerState /\ timer[i].pc = "fired" /\ k \in Keys
  BY DEF IInv, TypeOK, InHand, Finalize
<1>2. /\ r \in TimerState
      /\ r.pc # "free" => r.key \in Keys
      /\ r.pc \notin Dropping
      /\ r.live => r.pc \in Running /\ drone_state[r.key] # NONE
  BY <1>1, FreeTimerType DEF TimerState, Running, FreeTimer
<1>3. timer' = [timer EXCEPT ![i] = r]
  BY <1>1 DEF Finalize, IInv, TypeOK, TimerState
<1> HIDE DEF r
<1>4. timer' \in [Timers -> TimerState] /\ InHand'
  BY <1>2, <1>3, TimerStep DEF Finalize, contact
<1>5. TypeOK'
  BY <1>4 DEF IInv, TypeOK, Finalize, contact, Maybe
<1>6. NoStrandedTimer'
  BY <1>1, <1>3 DEF Finalize, IInv, TypeOK, NoStrandedTimer, Maybe
<1>7. QED
  BY <1>4, <1>5, <1>6 DEF IInv

\* A timer's thread ends: by return, by exception, or after its alert.
LEMMA FreedIInv ==
  ASSUME IInv, NEW i \in Timers, timer[i].pc \in Running \ {"fired"},
         timer' = [timer EXCEPT ![i] = FreeTimer],
         owed' \subseteq Keys, lost' \subseteq Keys,
         sent_alert_tracker' \in [Keys -> Maybe(Time)],
         UNCHANGED <<now, heard, contact, pending_alert_timers, capture, rows>>
  PROVE  IInv'
<1>1. timer[i].pc \notin {"armed", "fired"}
  BY DEF Running
<1>2. timer' \in [Timers -> TimerState] /\ InHand'
  BY FreeTimerType, TimerStep DEF FreeTimer, contact
<1>3. TypeOK'
  BY <1>2 DEF IInv, TypeOK, contact
<1>4. NoStrandedTimer'
  BY <1>1, PastFinalize
<1>5. QED
  BY <1>2, <1>3, <1>4 DEF IInv

LEMMA EndIInv ==
  ASSUME IInv, NEW i \in Timers,
         \/ Suppress(i) \/ MarkSent(i) \/ CheckRaises(i)
         \/ RememberRaises(i) \/ ScanRaises(i) \/ DeleteRaises(i) \/ WriteRaises(i)
  PROVE  IInv'
<1>1. timer[i].pc \in {"remember", "check", "scan", "delete", "write", "mark"}
  BY DEF Suppress, CheckRaises, RememberRaises, ScanRaises, DeleteRaises, WriteRaises, MarkSent
<1>2. timer[i] \in TimerState /\ timer[i].key \in Keys /\ timer[i].pc \in Running \ {"fired"}
  BY <1>1 DEF IInv, TypeOK, InHand, Running
<1>3. CASE Suppress(i)
  BY <1>2, <1>3, FreedIInv DEF Suppress, IInv, TypeOK
<1>4. CASE \/ CheckRaises(i) \/ RememberRaises(i) \/ ScanRaises(i) \/ DeleteRaises(i)
           \/ WriteRaises(i)
  BY <1>2, <1>4, FreedIInv DEF CheckRaises, RememberRaises, ScanRaises, DeleteRaises, WriteRaises,
     Die, IInv, TypeOK
<1>5. CASE MarkSent(i)
  <2>1. timer[i].at \in Time
    BY <1>2 DEF TimerState
  <2>2. sent_alert_tracker' \in [Keys -> Maybe(Time)]
    BY <1>5, <2>1 DEF MarkSent, IInv, TypeOK, Maybe
  <2>3. QED
    BY <1>2, <1>5, <2>2, FreedIInv DEF MarkSent, IInv, TypeOK
<1>6. QED
  BY <1>3, <1>4, <1>5
LEMMA HeldType ==
  ASSUME IInv, NEW i \in Timers, timer[i].pc # "free"
  PROVE  Held(i) \in Telemetry
  BY DEF IInv, TypeOK, InHand, Held, TimerState, Maybe

\* A step that only moves timer i on, past its locked block.
LEMMA MovedIInv ==
  ASSUME IInv, NEW i \in Timers, timer[i].pc \in Running \ {"fired"},
         NEW r \in TimerState,
         r.pc \in Running, r.key = timer[i].key,
         r.pc \in Dropping => r.victim \in Keys,
         r.live => timer[i].live,
         timer' = [timer EXCEPT ![i] = r],
         rows' \in Seq(Row), owed' \subseteq Keys, lost' \subseteq Keys,
         sent_alert_tracker' \in [Keys -> Maybe(Time)],
         UNCHANGED <<now, heard, contact, pending_alert_timers, capture>>
  PROVE  IInv'
<1>1. timer[i].pc \notin {"armed", "fired"} /\ timer[i].key \in Keys
  BY DEF Running, IInv, InHand
<1>2. r.live => drone_state[r.key] # NONE
  BY DEF IInv, InHand
<1>3. timer' \in [Timers -> TimerState] /\ InHand'
  BY <1>1, <1>2, TimerStep DEF contact
<1>4. TypeOK'
  BY <1>3 DEF IInv, TypeOK, contact
<1>5. NoStrandedTimer'
  BY <1>1, PastFinalize
<1>6. QED
  BY <1>3, <1>4, <1>5 DEF IInv

LEMMA IdentityIInv ==
  ASSUME IInv, NEW i \in Timers, IdentityInferred(i)
  PROVE  IInv'
<1>1. timer[i] \in TimerState /\ timer[i].pc = "identify" /\ Held(i) \in Telemetry
      /\ timer \in [Timers -> TimerState]
  BY HeldType DEF IdentityInferred, IInv, TypeOK
<1>2. PICK r \in TimerState : /\ timer' = [timer EXCEPT ![i] = r]
                              /\ r.pc = "check" /\ r.key = timer[i].key
                              /\ r.live => timer[i].live
  <2>1. CASE timer' = [timer EXCEPT ![i].pc = "check"]
    <3>1. [timer[i] EXCEPT !.pc = "check"] \in TimerState
      BY <1>1 DEF TimerState, Running
    <3>2. timer' = [timer EXCEPT ![i] = [timer[i] EXCEPT !.pc = "check"]]
      BY <1>1, <2>1 DEF TimerState
    <3>3. QED
      BY <1>1, <3>1, <3>2 DEF TimerState
  <2>2. ASSUME NEW id \in Remembered,
               timer' = [timer EXCEPT ![i] =
                           [@ EXCEPT !.pc = "check", !.source = "inferred", !.live = FALSE,
                                     !.obj = [Held(i) EXCEPT !.id = id]]]
        PROVE  \E r \in TimerState : /\ timer' = [timer EXCEPT ![i] = r]
                                     /\ r.pc = "check" /\ r.key = timer[i].key
                                     /\ r.live => timer[i].live
    <3> DEFINE copy == [Held(i) EXCEPT !.id = id]
               r == [timer[i] EXCEPT !.pc = "check", !.source = "inferred", !.live = FALSE,
                                     !.obj = copy]
    <3>1. copy \in Telemetry
      BY <1>1, ContactsAssumption DEF Telemetry, Maybe
    <3>2. timer' = [timer EXCEPT ![i] = r]
      BY <1>1, <2>2
    <3> HIDE DEF copy
    <3>3. r \in TimerState /\ r.pc = "check" /\ r.key = timer[i].key /\ r.live = FALSE
      BY <1>1, <3>1 DEF TimerState, Running
    <3>4. QED
      BY <3>2, <3>3
  <2>3. PICK id \in Maybe(Remembered) :
          timer' = [timer EXCEPT ![i] =
                 IF id = NONE
                 THEN [@ EXCEPT !.pc = "check"]
                 ELSE [@ EXCEPT !.pc = "check", !.source = "inferred", !.live = FALSE,
                                !.obj = [Held(i) EXCEPT !.id = id]]]
    BY DEF IdentityInferred
  <2>4. CASE id = NONE
    BY <1>1, <2>1, <2>3, <2>4
  <2>5. CASE id # NONE
    BY <1>1, <2>2, <2>3, <2>5 DEF Maybe
  <2>6. QED
    BY <2>4, <2>5
<1>3. rows' \in Seq(Row) /\ owed' \subseteq Keys /\ lost' \subseteq Keys
      /\ sent_alert_tracker' \in [Keys -> Maybe(Time)]
      /\ UNCHANGED <<now, heard, contact, pending_alert_timers, capture>>
  BY DEF IdentityInferred, IInv, TypeOK
<1>4. timer[i].pc \in Running \ {"fired"} /\ r.pc \in Running
  BY <1>1, <1>2 DEF Running
<1>5. QED
  BY <1>2, <1>3, <1>4, MovedIInv

LEMMA RememberIInv ==
  ASSUME IInv, NEW i \in Timers, IdentityDecoded(i) \/ IdentityRemembered(i)
  PROVE  IInv'
<1>1. timer[i] \in TimerState /\ timer \in [Timers -> TimerState]
      /\ timer[i].pc \in {"identify", "remember"}
  BY DEF IdentityDecoded, IdentityRemembered, IInv, TypeOK
<1>2. PICK pc \in {"remember", "check"}, macs \in {"private", "shared"} :
        timer' = [timer EXCEPT ![i].pc = pc, ![i].macs = macs]
  BY DEF IdentityDecoded, IdentityRemembered
<1> DEFINE r == [timer[i] EXCEPT !.pc = pc, !.macs = macs]
<1>3. timer' = [timer EXCEPT ![i] = r]
  BY <1>1, <1>2 DEF TimerState
<1>4. r \in TimerState /\ r.pc = pc /\ r.key = timer[i].key /\ r.live = timer[i].live
  BY <1>1 DEF TimerState, Running
<1> HIDE DEF r
<1>5. rows' \in Seq(Row) /\ owed' \subseteq Keys /\ lost' \subseteq Keys
      /\ sent_alert_tracker' \in [Keys -> Maybe(Time)]
      /\ UNCHANGED <<now, heard, contact, pending_alert_timers, capture>>
  BY DEF IdentityDecoded, IdentityRemembered, IInv, TypeOK
<1>6. timer[i].pc \in Running \ {"fired"} /\ r.pc \in Running
      /\ r.pc \notin Dropping
  BY <1>1, <1>4 DEF Running
<1>7. QED
  BY <1>3, <1>4, <1>5, <1>6, MovedIInv

LEMMA HeardAtType ==
  ASSUME IInv, NEW i \in Timers, timer[i].key \in Keys
  PROVE  HeardAt(i) \in Time
  BY DEF IInv, TypeOK, HeardAt, OrElse, Maybe

LEMMA PassCooldownIInv == ASSUME IInv, NEW i \in Timers, PassCooldown(i) PROVE IInv'
<1> DEFINE stamp == HeardAt(i)
           r == [timer[i] EXCEPT !.pc = "scan", !.at = now, !.stamp = stamp]
<1>1. timer[i] \in TimerState /\ timer[i].pc = "check" /\ timer \in [Timers -> TimerState]
      /\ now \in Time
  BY DEF PassCooldown, IInv, TypeOK
<1>2. timer[i].key \in Keys
  BY <1>1 DEF IInv, InHand
<1>3. stamp \in Time
  BY <1>2, HeardAtType
<1>4. timer' = [timer EXCEPT ![i].pc = "scan", ![i].at = now, ![i].stamp = stamp]
  BY DEF PassCooldown
<1> HIDE DEF stamp
<1>5. timer' = [timer EXCEPT ![i] = r]
  BY <1>1, <1>4 DEF TimerState
<1>6. r \in TimerState /\ r.pc = "scan" /\ r.key = timer[i].key /\ r.live = timer[i].live
  BY <1>1, <1>3 DEF TimerState, Running
<1> HIDE DEF r
<1>7. rows' \in Seq(Row) /\ owed' \subseteq Keys /\ lost' \subseteq Keys
      /\ sent_alert_tracker' \in [Keys -> Maybe(Time)]
      /\ UNCHANGED <<now, heard, contact, pending_alert_timers, capture>>
  BY DEF PassCooldown, IInv, TypeOK
<1>8. timer[i].pc \in Running \ {"fired"} /\ r.pc \in Running
  BY <1>1, <1>6 DEF Running
<1>9. QED
  BY <1>5, <1>6, <1>7, <1>8, MovedIInv

LEMMA ScanIInv == ASSUME IInv, NEW i \in Timers, Scan(i) PROVE IInv'
<1> DEFINE doomed == Expired(timer[i].at)
           next == IF doomed = {} THEN "write" ELSE "delete"
           r == [timer[i] EXCEPT !.pc = next, !.doomed = doomed]
<1>1. timer[i] \in TimerState /\ timer[i].pc = "scan" /\ timer \in [Timers -> TimerState]
  BY DEF Scan, IInv, TypeOK
<1>2. doomed \in SUBSET Keys
  BY DEF Expired
<1>3. timer' = [timer EXCEPT ![i].pc = next, ![i].doomed = doomed]
  BY DEF Scan
<1>4. next \in {"write", "delete"}
  OBVIOUS
<1> HIDE DEF doomed, next
<1>5. timer' = [timer EXCEPT ![i] = r]
  BY <1>1, <1>3 DEF TimerState
<1>6. r \in TimerState /\ r.pc = next /\ r.key = timer[i].key /\ r.live = timer[i].live
  BY <1>1, <1>2, <1>4 DEF TimerState, Running
<1> HIDE DEF r
<1>7. rows' \in Seq(Row) /\ owed' \subseteq Keys /\ lost' \subseteq Keys
      /\ sent_alert_tracker' \in [Keys -> Maybe(Time)]
      /\ UNCHANGED <<now, heard, contact, pending_alert_timers, capture>>
  BY DEF Scan, IInv, TypeOK
<1>8. timer[i].pc \in Running \ {"fired"} /\ r.pc \in Running
      /\ r.pc \notin Dropping
  BY <1>1, <1>4, <1>6 DEF Running
<1>9. QED
  BY <1>5, <1>6, <1>7, <1>8, MovedIInv

LEMMA DeleteExpiredIInv == ASSUME IInv, NEW i \in Timers, DeleteExpired(i) PROVE IInv'
<1>1. timer[i] \in TimerState /\ timer[i].pc = "delete" /\ timer \in [Timers -> TimerState]
  BY DEF DeleteExpired, IInv, TypeOK
<1>2. PICK k \in timer[i].doomed :
        /\ sent_alert_tracker' = [sent_alert_tracker EXCEPT ![k] = NONE]
        /\ timer' = [timer EXCEPT ![i].pc = "dropState", ![i].victim = k,
                                  ![i].doomed = @ \ {k}]
  BY DEF DeleteExpired
<1> DEFINE r == [timer[i] EXCEPT !.pc = "dropState", !.victim = k, !.doomed = @ \ {k}]
<1>3. k \in Keys
  BY <1>1 DEF TimerState
<1>4. timer' = [timer EXCEPT ![i] = r]
  BY <1>1, <1>2 DEF TimerState
<1>5. r \in TimerState /\ r.pc = "dropState" /\ r.key = timer[i].key
      /\ r.live = timer[i].live /\ r.victim = k
  BY <1>1, <1>3 DEF TimerState, Running, Maybe
<1> HIDE DEF r
<1>6. rows' \in Seq(Row) /\ owed' \subseteq Keys /\ lost' \subseteq Keys
      /\ sent_alert_tracker' \in [Keys -> Maybe(Time)]
      /\ UNCHANGED <<now, heard, contact, pending_alert_timers, capture>>
  BY <1>2, <1>3 DEF DeleteExpired, IInv, TypeOK, Maybe
<1>7. timer[i].pc \in Running \ {"fired"} /\ r.pc \in Running
  BY <1>1, <1>5 DEF Running
<1>8. QED
  BY <1>3, <1>4, <1>5, <1>6, <1>7, MovedIInv

LEMMA WriteIInv == ASSUME IInv, NEW i \in Timers, Write(i) PROVE IInv'
<1> DEFINE tele == Held(i)
           written == [key |-> timer[i].key, at |-> timer[i].at, stamp |-> timer[i].stamp,
                       tele |-> tele, source |-> timer[i].source]
           r == [timer[i] EXCEPT !.pc = "mark"]
<1>1. timer[i] \in TimerState /\ timer[i].pc = "write" /\ timer \in [Timers -> TimerState]
      /\ timer[i].key \in Keys /\ rows \in Seq(Row)
  BY DEF Write, IInv, TypeOK, InHand
<1>2. tele \in Telemetry
  BY <1>1, HeldType
<1>3. rows' = Append(rows, written)
  BY DEF Write
<1> HIDE DEF tele
<1>4. written \in Row
  BY <1>1, <1>2 DEF Row, TimerState
<1>5. timer' = [timer EXCEPT ![i] = r]
  BY <1>1 DEF TimerState, Write
<1>6. r \in TimerState /\ r.pc = "mark" /\ r.key = timer[i].key /\ r.live = timer[i].live
  BY <1>1 DEF TimerState, Running
<1> HIDE DEF r, written
<1>7. rows' \in Seq(Row)
  BY <1>1, <1>3, <1>4
<1>8. owed' \subseteq Keys /\ lost' \subseteq Keys
      /\ sent_alert_tracker' \in [Keys -> Maybe(Time)]
      /\ UNCHANGED <<now, heard, contact, pending_alert_timers, capture>>
  BY DEF Write, IInv, TypeOK
<1>9. timer[i].pc \in Running \ {"fired"} /\ r.pc \in Running
  BY <1>1, <1>6 DEF Running
<1>10. QED
  BY <1>5, <1>6, <1>7, <1>8, <1>9, MovedIInv

LEMMA DropStateIInv == ASSUME IInv, NEW i \in Timers, DropState(i) PROVE IInv'
<1> DEFINE k == timer[i].victim
           obj == IF drone_state[k] = NONE THEN Blank ELSE drone_state[k]
           detached == Orphaned(k, obj)
           r == [detached[i] EXCEPT !.pc = "dropFirstSeen"]
<1>1. /\ timer[i].pc = "dropState" /\ k \in Keys /\ timer[i].key \in Keys
      /\ TypeOK /\ InHand /\ NoStrandedTimer
  BY DEF DropState, IInv, InHand
<1>2. obj \in Telemetry
  BY <1>1 DEF TypeOK, Maybe, Blank, Telemetry
<1>3. Orphaned(k, drone_state[k]) = detached
  <2>1. CASE drone_state[k] = NONE
    <3>1. \A j \in Timers : ~ (timer[j].live /\ timer[j].key = k)
      BY <1>1, <2>1 DEF InHand
    <3>2. QED
      BY <3>1 DEF Orphaned
  <2>2. QED
    BY <2>1
<1>4. timer' = [detached EXCEPT ![i].pc = "dropFirstSeen"]
  BY <1>3 DEF DropState
<1> HIDE DEF obj, detached
<1>5. /\ detached \in [Timers -> TimerState]
      /\ \A j \in Timers : /\ detached[j].pc = timer[j].pc
                           /\ detached[j].key = timer[j].key
                           /\ detached[j].victim = timer[j].victim
                           /\ detached[j].live => timer[j].live /\ timer[j].key # k
  BY <1>1, <1>2, OrphanedType DEF detached
<1>6. r \in TimerState /\ r.pc = "dropFirstSeen" /\ r.key = detached[i].key
      /\ r.victim = detached[i].victim /\ r.live = detached[i].live
  BY <1>5 DEF TimerState, Running
<1>7. timer' = [detached EXCEPT ![i] = r]
  BY <1>4, <1>5 DEF TimerState
<1> HIDE DEF r
<1>8. \A j \in Timers : timer'[j] = IF j = i THEN r ELSE detached[j]
  BY <1>5, <1>7
<1>9. timer' \in [Timers -> TimerState]
  BY <1>5, <1>6, <1>7
<1>10. /\ drone_state' = [drone_state EXCEPT ![k] = NONE]
       /\ UNCHANGED <<now, heard, key_to_macs, key_to_first_seen, key_to_position_at,
                      transport_mac_to_key, pending_alert_timers, sent_alert_tracker,
                      capture, rows, owed, lost>>
  BY DEF DropState
<1>11. TypeOK'
  BY <1>1, <1>9, <1>10 DEF TypeOK, Maybe
<1>12. InHand'
  <2>1. \A j \in Timers :
          /\ timer'[j].pc # "free" => timer'[j].key \in Keys
          /\ timer'[j].pc \in Dropping => timer'[j].victim \in Keys
          /\ timer'[j].live => timer'[j].pc \in Running /\ drone_state'[timer'[j].key] # NONE
    <3> TAKE j \in Timers
    <3>1. /\ timer'[j].key = timer[j].key /\ timer'[j].victim = timer[j].victim
          /\ timer'[j].live => timer[j].live /\ timer[j].key # k
          /\ timer'[j].pc = IF j = i THEN "dropFirstSeen" ELSE timer[j].pc
      BY <1>5, <1>6, <1>8
    <3>2. timer[j].pc # "free" => timer[j].key \in Keys
      BY <1>1 DEF InHand
    <3>3. timer[j].live => timer[j].pc \in Running /\ drone_state[timer[j].key] # NONE
                           /\ timer[j].key \in Keys
      BY <1>1, <3>2 DEF InHand, Running
    <3>4. timer'[j].pc \in Dropping => timer'[j].victim \in Keys
      BY <1>1, <3>1 DEF InHand
    <3>5. timer'[j].live => timer'[j].pc \in Running /\ drone_state'[timer'[j].key] # NONE
      BY <1>1, <1>10, <3>1, <3>3 DEF TypeOK, Running
    <3>6. QED
      BY <1>1, <3>1, <3>2, <3>4, <3>5
  <2>2. QED
    BY <1>1, <1>10, <2>1 DEF InHand
<1>13. NoStrandedTimer'
  BY <1>1, <1>5, <1>6, <1>8, <1>10 DEF TypeOK, NoStrandedTimer, Maybe
<1>14. QED
  BY <1>11, <1>12, <1>13 DEF IInv

\* Two states of a timer that agree on what a clean-up does not touch.
SameTask(r, s) ==
  /\ r.key = s.key /\ r.due = s.due /\ r.since = s.since /\ r.at = s.at
  /\ r.doomed = s.doomed /\ r.live = s.live /\ r.stamp = s.stamp /\ r.obj = s.obj
  /\ r.source = s.source

\* And on where it is in one, which leaves the flag of its set of addresses.
SameButMacs(r, s) ==
  SameTask(r, s) /\ r.pc = s.pc /\ r.victim = s.victim /\ r.dropped = s.dropped

LEMMA PoppedAlike ==
  ASSUME TypeOK, NEW k
  PROVE  /\ MacsPopped(timer, k) \in [Timers -> TimerState]
         /\ \A j \in Timers : SameButMacs(MacsPopped(timer, k)[j], timer[j])
<1>1. MacsPopped(timer, k) \in [Timers -> TimerState]
  BY MacsType DEF Alike, TypeOK
<1>2. ASSUME NEW j \in Timers PROVE SameButMacs(MacsPopped(timer, k)[j], timer[j])
  <2>1. timer[j] \in TimerState
    BY DEF TypeOK
  <2>2. SameButMacs([timer[j] EXCEPT !.macs = "private"], timer[j])
    BY <2>1 DEF TimerState, SameButMacs, SameTask
  <2>3. SameButMacs(timer[j], timer[j])
    BY DEF SameButMacs, SameTask
  <2>4. QED
    BY <2>2, <2>3 DEF MacsPopped
<1>3. QED
  BY <1>1, <1>2

\* What the pops after the dictionary's do to the timers: timer i goes on to the next pop of
\* the same clean-up, or to what follows it, and nothing else about any timer changes but
\* whether its set of addresses has grown.
GoesOn(i) ==
  /\ timer[i].pc \in Dropping \ {"dropState"}
  /\ timer' \in [Timers -> TimerState]
  /\ \/ timer'[i].pc \in Dropping \ {"dropState"} /\ timer'[i].victim = timer[i].victim
     \/ timer'[i].pc = IF timer[i].doomed = {} THEN "write" ELSE "delete"
  /\ \A j \in Timers : SameTask(timer'[j], timer[j])
  /\ \A j \in Timers \ {i} : SameButMacs(timer'[j], timer[j])

\* A step that only timer i takes, from timers ts that differ from timer in those flags.
LEMMA GoesOnTo ==
  ASSUME NEW i \in Timers, timer[i].pc \in Dropping \ {"dropState"},
         NEW ts \in [Timers -> TimerState], \A j \in Timers : SameButMacs(ts[j], timer[j]),
         timer' \in [Timers -> TimerState], SameTask(timer'[i], ts[i]),
         \A j \in Timers \ {i} : timer'[j] = ts[j],
         \/ timer'[i].pc \in Dropping \ {"dropState"} /\ timer'[i].victim = timer[i].victim
         \/ timer'[i].pc = IF timer[i].doomed = {} THEN "write" ELSE "delete"
  PROVE  GoesOn(i)
<1>1. SameTask(ts[i], timer[i]) /\ \A j \in Timers \ {i} : SameButMacs(timer'[j], timer[j])
  BY DEF SameButMacs
<1>2. SameTask(timer'[i], timer[i])
  BY <1>1 DEF SameTask
<1>3. \A j \in Timers : SameTask(timer'[j], timer[j])
  BY <1>1, <1>2 DEF SameButMacs
<1>4. QED
  BY <1>1, <1>3 DEF GoesOn

\* The end of a clean-up.
LEMMA CleanedType ==
  ASSUME NEW i \in Timers, NEW ts \in [Timers -> TimerState]
  PROVE  /\ Cleaned(ts, i) \in [Timers -> TimerState]
         /\ Cleaned(ts, i)[i].pc = IF timer[i].doomed = {} THEN "write" ELSE "delete"
         /\ SameTask(Cleaned(ts, i)[i], ts[i])
         /\ \A j \in Timers \ {i} : Cleaned(ts, i)[j] = ts[j]
<1> DEFINE next == IF timer[i].doomed = {} THEN "write" ELSE "delete"
           r == [ts[i] EXCEPT !.pc = next, !.victim = NONE, !.dropped = {}]
<1>1. Cleaned(ts, i) = [ts EXCEPT ![i].pc = next, ![i].victim = NONE, ![i].dropped = {}]
  BY DEF Cleaned
<1>2. next \in Running
  BY DEF Running
<1>3. next = IF timer[i].doomed = {} THEN "write" ELSE "delete"
  OBVIOUS
<1> HIDE DEF next
<1>4. r \in TimerState /\ r.pc = next /\ SameTask(r, ts[i])
  BY <1>2 DEF TimerState, Maybe, SameTask
<1>5. Cleaned(ts, i) = [ts EXCEPT ![i] = r]
  BY <1>1 DEF TimerState
<1> HIDE DEF r
<1>6. QED
  BY <1>3, <1>4, <1>5

\* The step to the loop over what has been popped.
LEMMA LoopsOver ==
  ASSUME NEW i \in Timers, NEW ts \in [Timers -> TimerState], NEW left \in SUBSET Macs,
         timer' = [ts EXCEPT ![i].pc = "dropMapping", ![i].dropped = left]
  PROVE  /\ timer' \in [Timers -> TimerState]
         /\ timer'[i].pc = "dropMapping" /\ timer'[i].dropped = left
         /\ timer'[i].victim = ts[i].victim /\ SameTask(timer'[i], ts[i])
         /\ \A j \in Timers \ {i} : timer'[j] = ts[j]
<1> DEFINE r == [ts[i] EXCEPT !.pc = "dropMapping", !.dropped = left]
<1>1. ts[i] \in TimerState /\ "dropMapping" \in Running
  BY DEF Running
<1>2. r \in TimerState
  BY <1>1 DEF TimerState
<1>3. r.pc = "dropMapping" /\ r.dropped = left /\ r.victim = ts[i].victim
  BY <1>1 DEF TimerState
<1>4. SameTask(r, ts[i])
  BY <1>1 DEF TimerState, SameTask
<1>5. timer' = [ts EXCEPT ![i] = r]
  BY DEF TimerState
<1> HIDE DEF r
<1>6. QED
  BY <1>2, <1>3, <1>4, <1>5

LEMMA DropMacsGoesOn ==
  ASSUME IInv, NEW i \in Timers, DropMacs(i)
  PROVE  /\ GoesOn(i)
         /\ timer'[i].pc = "dropMapping" => timer'[i].dropped = key_to_macs[timer[i].victim]
         /\ timer'[i].pc # "dropMapping" => key_to_macs[timer[i].victim] = {}
<1> DEFINE k == timer[i].victim
           popped == MacsPopped(timer, k)
<1>1. /\ timer[i].pc = "dropMacs" /\ k \in Keys /\ key_to_macs[k] \in SUBSET Macs
  BY DEF IInv, TypeOK, InHand, DropMacs
<1>2. popped \in [Timers -> TimerState] /\ \A j \in Timers : SameButMacs(popped[j], timer[j])
  BY PoppedAlike DEF IInv
<1>3. popped[i].victim = k
  BY <1>2 DEF SameButMacs
<1> HIDE DEF popped
<1>4. CASE key_to_macs[k] = {}
  <2>1. timer' = Cleaned(popped, i)
    BY <1>4 DEF DropMacs, popped
  <2>2. GoesOn(i)
    BY <1>1, <1>2, <2>1, CleanedType, GoesOnTo
  <2>3. timer'[i].pc \in {"write", "delete"}
    BY <1>2, <2>1, CleanedType
  <2>4. QED
    BY <1>4, <2>2, <2>3
<1>5. CASE key_to_macs[k] # {}
  <2>1. timer' = [popped EXCEPT ![i].pc = "dropMapping", ![i].dropped = key_to_macs[k]]
    BY <1>5 DEF DropMacs, popped
  <2>2. /\ timer' \in [Timers -> TimerState]
        /\ timer'[i].pc = "dropMapping" /\ timer'[i].dropped = key_to_macs[k]
        /\ timer'[i].victim = popped[i].victim /\ SameTask(timer'[i], popped[i])
        /\ \A j \in Timers \ {i} : timer'[j] = popped[j]
    BY <1>1, <1>2, <2>1, LoopsOver
  <2>3. GoesOn(i)
    BY <1>1, <1>2, <1>3, <2>2, GoesOnTo
  <2>4. QED
    BY <2>2, <2>3
<1>6. QED
  BY <1>4, <1>5

LEMMA DropMappingGoesOn ==
  ASSUME IInv, NEW i \in Timers, NEW m \in timer[i].dropped, timer[i].pc = "dropMapping",
         timer' = IF timer[i].dropped = {m} THEN Cleaned(timer, i)
                  ELSE [timer EXCEPT ![i].dropped = @ \ {m}]
  PROVE  /\ GoesOn(i)
         /\ timer'[i].pc = "dropMapping" => timer'[i].dropped = timer[i].dropped \ {m}
         /\ timer'[i].pc # "dropMapping" => timer[i].dropped = {m}
<1>1. /\ timer \in [Timers -> TimerState] /\ timer[i] \in TimerState
      /\ timer[i].dropped \in SUBSET Macs
  BY DEF IInv, TypeOK, TimerState
<1>2. \A j \in Timers : SameButMacs(timer[j], timer[j])
  BY DEF SameButMacs, SameTask
<1>3. CASE timer[i].dropped = {m}
  <2>1. timer' = Cleaned(timer, i)
    BY <1>3
  <2>2. /\ timer' \in [Timers -> TimerState]
        /\ timer'[i].pc = IF timer[i].doomed = {} THEN "write" ELSE "delete"
        /\ SameTask(timer'[i], timer[i])
        /\ \A j \in Timers \ {i} : timer'[j] = timer[j]
    <3>1. /\ Cleaned(timer, i) \in [Timers -> TimerState]
          /\ Cleaned(timer, i)[i].pc = IF timer[i].doomed = {} THEN "write" ELSE "delete"
          /\ SameTask(Cleaned(timer, i)[i], timer[i])
          /\ \A j \in Timers \ {i} : Cleaned(timer, i)[j] = timer[j]
      BY <1>1, CleanedType
    <3>2. QED
      BY <2>1, <3>1
  <2>3. GoesOn(i)
    BY <1>1, <1>2, <2>2, GoesOnTo
  <2>4. QED
    BY <1>3, <2>2, <2>3
<1>4. CASE timer[i].dropped # {m}
  <2> DEFINE left == timer[i].dropped \ {m}
  <2>1. timer' = [timer EXCEPT ![i].dropped = left]
    BY <1>4
  <2>2. left \in SUBSET Macs
    BY <1>1
  <2>3. left = timer[i].dropped \ {m}
    OBVIOUS
  <2> HIDE DEF left
  <2>4. /\ timer' \in [Timers -> TimerState]
        /\ timer'[i].pc = "dropMapping" /\ timer'[i].dropped = left
        /\ timer'[i].victim = timer[i].victim /\ SameTask(timer'[i], timer[i])
        /\ \A j \in Timers \ {i} : timer'[j] = timer[j]
    BY <1>1, <2>1, <2>2 DEF TimerState, SameTask
  <2>5. GoesOn(i)
    BY <1>1, <1>2, <2>4, GoesOnTo
  <2>6. QED
    BY <2>3, <2>4, <2>5
<1>5. QED
  BY <1>3, <1>4

\* The variables a clean-up leaves alone once it has dropped the dictionary.
LEMMA DropRestGoesOn ==
  ASSUME IInv, NEW i \in Timers, DropRest(i)
  PROVE  GoesOn(i) /\ UNCHANGED <<now, heard, drone_state, pending_alert_timers,
                                  sent_alert_tracker, capture, rows, owed, lost>>
<1>1. timer \in [Timers -> TimerState] /\ \A j \in Timers : SameButMacs(timer[j], timer[j])
  BY DEF IInv, TypeOK, SameButMacs, SameTask
<1>3. ASSUME NEW next \in {"dropPosition", "dropMacs"}, timer[i].pc \in Dropping \ {"dropState"},
             timer' = [timer EXCEPT ![i].pc = next]
      PROVE  GoesOn(i)
  <2>1. /\ timer' \in [Timers -> TimerState] /\ timer'[i].pc = next
        /\ timer'[i].victim = timer[i].victim /\ SameTask(timer'[i], timer[i])
        /\ \A j \in Timers \ {i} : timer'[j] = timer[j]
    BY <1>1, <1>3 DEF TimerState, Running, SameTask
  <2>2. QED
    BY <1>1, <1>3, <2>1, GoesOnTo
<1>4. CASE DropFirstSeen(i)
  BY <1>3, <1>4 DEF DropFirstSeen
<1>5. CASE DropPosition(i)
  BY <1>3, <1>5 DEF DropPosition
<1>6. CASE DropMacs(i)
  BY <1>6, DropMacsGoesOn DEF DropMacs
<1>7. CASE DropMapping(i)
  BY <1>7, DropMappingGoesOn DEF DropMapping
<1>8. QED
  BY <1>4, <1>5, <1>6, <1>7 DEF DropRest

LEMMA DropRestIInv == ASSUME IInv, NEW i \in Timers, DropRest(i) PROVE IInv'
<1>1. /\ GoesOn(i)
      /\ UNCHANGED <<now, heard, drone_state, pending_alert_timers, sent_alert_tracker,
                     capture, rows, owed, lost>>
  BY DropRestGoesOn
<1>2. /\ timer[i].key \in Keys /\ timer[i].victim \in Keys
      /\ timer'[i].pc \in Running
  BY <1>1 DEF IInv, InHand, GoesOn, Running
<1>3. InHand'
  <2>1. \A j \in Timers :
          /\ timer'[j].pc # "free" => timer'[j].key \in Keys
          /\ timer'[j].pc \in Dropping => timer'[j].victim \in Keys
          /\ timer'[j].live => timer'[j].pc \in Running /\ drone_state'[timer'[j].key] # NONE
    <3> TAKE j \in Timers
    <3>1. /\ timer'[j].key = timer[j].key /\ timer'[j].live = timer[j].live
          /\ j # i => timer'[j].pc = timer[j].pc /\ timer'[j].victim = timer[j].victim
      BY <1>1 DEF GoesOn, SameTask, SameButMacs
    <3>2. timer'[i].pc \in Dropping => timer'[i].victim = timer[i].victim
      BY <1>1 DEF GoesOn
    <3>3. QED
      BY <1>1, <1>2, <3>1, <3>2 DEF IInv, InHand
  <2>2. QED
    BY <1>1, <2>1 DEF IInv, InHand
<1>4. TypeOK'
  <2>1. /\ key_to_macs' \in [Keys -> SUBSET Macs]
        /\ key_to_first_seen' \in [Keys -> Maybe(Time)]
        /\ key_to_position_at' \in [Keys -> Maybe(Time)]
        /\ transport_mac_to_key' \in [Macs -> Maybe(Uas)]
    BY DEF IInv, TypeOK, Maybe, DropRest, DropFirstSeen, DropPosition, DropMacs, DropMapping
  <2>2. QED
    BY <1>1, <2>1 DEF IInv, TypeOK, GoesOn
<1>5. NoStrandedTimer'
  <2>1. \A k \in Keys : pending_alert_timers[k] # i
    BY <1>1, RunningUnregistered DEF GoesOn
  <2>2. \A k \in Keys : pending_alert_timers[k] # NONE =>
          LET j == pending_alert_timers[k]
          IN  j \in Timers \ {i} /\ timer[j].pc \in {"armed", "fired"} /\ timer[j].key = k
    BY <2>1 DEF IInv, TypeOK, NoStrandedTimer, Maybe
  <2>3. QED
    BY <1>1, <2>2 DEF NoStrandedTimer, GoesOn, SameButMacs, SameTask
<1>6. QED
  BY <1>3, <1>4, <1>5 DEF IInv

-----------------------------------------------------------------------------
LEMMA TickIInv == ASSUME IInv, Tick PROVE IInv'
<1>1. now' \in Time
  BY ContactsAssumption DEF IInv, TypeOK, Tick, Time
<1>2. QED
  BY <1>1 DEF IInv, TypeOK, InHand, NoStrandedTimer, Tick, contact

LEMMA StepIInv == IInv /\ [Next]_vars => IInv'
<1> SUFFICES ASSUME IInv, [Next]_vars PROVE IInv'
  OBVIOUS
<1>1. CASE UNCHANGED vars
  BY <1>1 DEF IInv, TypeOK, InHand, NoStrandedTimer, vars
<1>2. ASSUME NEW t \in Threads, Hear(t) \/ Register(t) PROVE IInv'
  BY <1>2, HearIInv, MergeInPlaceIInv, MergeRekeyIInv, ReadSentAtIInv, ExpireCooldownIInv,
     CoveredIInv, ScheduleIInv DEF Register
<1>3. ASSUME NEW i \in Timers, Finalise(i) PROVE IInv'
  BY <1>3, FireIInv, FinalizeIInv, IdentityIInv, RememberIInv, EndIInv, PassCooldownIInv, ScanIInv,
     DeleteExpiredIInv, DropStateIInv, DropRestIInv, WriteIInv DEF Finalise
<1>4. CASE Tick
  BY <1>4, TickIInv
<1>5. CASE Horizon
  BY <1>1, <1>5 DEF Horizon
<1>6. QED
  BY <1>1, <1>2, <1>3, <1>4, <1>5 DEF Next

\* The inductive invariant holds of every execution.
THEOREM Inductive == Spec => []IInv
  BY InitIInv, StepIInv, PTL DEF Spec

\* Every variable keeps its type: in particular a row is only ever built from a
\* dictionary that exists, whatever the cleanup did to the shared ones.
THEOREM TypeCorrect == Spec => []TypeOK
<1>1. IInv => TypeOK
  BY DEF IInv
<1>2. QED
  BY <1>1, Inductive, PTL

\* No interleaving of re-keys, cancellations, finalisations and cleanups leaves a
\* timer registered that will not finalise the contact it is registered for.
THEOREM NoTimerIsStranded == Spec => []NoStrandedTimer
<1>1. IInv => NoStrandedTimer
  BY DEF IInv
<1>2. QED
  BY <1>1, Inductive, PTL
-----------------------------------------------------------------------------
(* Time: when each thread is where it is, for the contacts whose keys are in *)
(* K.  It looks at a timer's position, key and times alone.                  *)

\* Before and after the cooldown test of log_and_alert, and in its clean-up.
Untested == {"armed", "fired", "identify", "remember", "check"}
Passed == {"scan", "delete", "write", "mark"} \cup Dropping
Deleting == {"delete"} \cup Dropping

\* A timer fires in the tick it is due and its thread ends within Stall; a capture
\* thread is through within Linger.
OnTime ==
  /\ \A i \in Timers :
       /\ timer[i].pc = "armed" => now <= timer[i].due /\ timer[i].due <= now + Grace
       /\ timer[i].pc \in Running => /\ timer[i].since = timer[i].due
                                     /\ timer[i].since <= now
                                     /\ now <= timer[i].since + Stall
       /\ timer[i].pc \in Passed => timer[i].since <= timer[i].at /\ timer[i].at <= now
  /\ \A t \in Threads :
       capture[t].pc # "idle" => capture[t].at <= now /\ now <= capture[t].at + Linger

\* What TypeOK says of the numbers, once and for all.
LEMMA Numbers ==
  ASSUME TypeOK
  PROVE  /\ now \in Nat /\ Grace \in Nat /\ Stall \in Nat /\ Linger \in Nat /\ Cooldown \in Nat
         /\ \A i \in Timers : /\ timer[i].due \in Nat /\ timer[i].since \in Nat /\ timer[i].at \in Nat
                              /\ timer[i].pc \in {"free", "armed"} \cup Running
         /\ \A t \in Threads : capture[t].at \in Nat
         /\ \A k \in Keys : sent_alert_tracker[k] # NONE => sent_alert_tracker[k] \in Nat
         /\ \A n \in DOMAIN rows : rows[n].at \in Nat /\ rows[n].key \in Keys
<1>1. Time \subseteq Nat
  BY ContactsAssumption DEF Time
<1>2. \A i \in Timers : timer[i] \in TimerState
  BY DEF TypeOK
<1>3. \A t \in Threads : capture[t] \in CaptureState
  BY DEF TypeOK
<1>4. \A n \in DOMAIN rows : rows[n] \in Row
  BY DEF TypeOK
<1>5. \A k \in Keys : sent_alert_tracker[k] \in Time \cup {NONE}
  BY DEF TypeOK, Maybe
<1>6. now \in Nat
  BY <1>1 DEF TypeOK
<1>7. \A i \in Timers : /\ timer[i].due \in Nat /\ timer[i].since \in Nat /\ timer[i].at \in Nat
                        /\ timer[i].pc \in {"free", "armed"} \cup Running
  BY <1>1, <1>2 DEF TimerState
<1>8. \A t \in Threads : capture[t].at \in Nat
  BY <1>1, <1>3 DEF CaptureState
<1>9. \A n \in DOMAIN rows : rows[n].at \in Nat /\ rows[n].key \in Keys
  BY <1>1, <1>4 DEF Row
<1>10. QED
  BY <1>1, <1>5, <1>6, <1>7, <1>8, <1>9, ContactsAssumption

\* What a step does to a timer that neither fires nor takes or passes the cooldown test,
\* nor writes: it ends, or stays on the same side of the test with its key and times.
Continues(j) ==
  /\ timer'[j].pc # "free" => /\ timer[j].pc # "free" /\ timer'[j].key = timer[j].key
                              /\ timer'[j].due = timer[j].due
                              /\ timer'[j].since = timer[j].since
  /\ timer'[j].pc \in {"armed", "fired"} => timer'[j].pc = timer[j].pc
  /\ timer[j].pc = "armed" => timer'[j].pc \in {"armed", "free"}
  /\ timer'[j].pc \in Running => timer[j].pc \in Running
  /\ timer'[j].pc \in Untested => timer[j].pc \in Untested
  /\ timer'[j].pc \in Passed => timer[j].pc \in Passed /\ timer'[j].at = timer[j].at
  /\ timer'[j].pc \in Deleting => timer[j].pc \in Deleting /\ timer'[j].doomed = timer[j].doomed
  /\ timer'[j].pc = "mark" => timer[j].pc = "mark"

\* And to a capture thread that does not find a cooldown expired.
Proceeds(t) ==
  \/ capture'[t].pc = "idle"
  \/ capture'[t].at = now /\ capture'[t].pc # "expire"
  \/ /\ capture[t].pc # "idle" /\ capture'[t].at = capture[t].at
     /\ capture'[t].pc = "expire" => capture[t].pc = "expire" /\ capture'[t].key = capture[t].key

Quiet == /\ UNCHANGED <<now, sent_alert_tracker, rows>>
         /\ \A j \in Timers : Continues(j)
         /\ \A t \in Threads : Proceeds(t)

LEMMA UnchangedContinues ==
  ASSUME NEW j \in Timers, timer'[j] = timer[j]
  PROVE  Continues(j)
  BY DEF Continues

LEMMA UnchangedProceeds ==
  ASSUME NEW t \in Threads, capture'[t] = capture[t]
  PROVE  Proceeds(t)
  BY DEF Proceeds

\* MacsGrow and MacsPopped change no field of a timer but macs, Orphaned none but live and obj.
SamePace(r, s) == /\ r.pc = s.pc /\ r.key = s.key /\ r.due = s.due
                  /\ r.since = s.since /\ r.at = s.at /\ r.doomed = s.doomed
                  /\ r.dropped = s.dropped

LEMMA MacsPace ==
  ASSUME NEW ts \in [Timers -> TimerState], NEW k, NEW S, NEW j \in Timers
  PROVE  SamePace(MacsGrow(ts, k, S)[j], ts[j]) /\ SamePace(MacsPopped(ts, k)[j], ts[j])
<1>1. ts[j] \in TimerState
  OBVIOUS
<1>2. SamePace([ts[j] EXCEPT !.macs = "grown"], ts[j]) /\ SamePace(ts[j], ts[j])
  BY <1>1 DEF TimerState, SamePace
<1>3. SamePace([ts[j] EXCEPT !.macs = "private"], ts[j])
  BY <1>1 DEF TimerState, SamePace
<1>4. MacsGrow(ts, k, S)[j] = ts[j] \/ MacsGrow(ts, k, S)[j] = [ts[j] EXCEPT !.macs = "grown"]
  BY DEF MacsGrow
<1>5. MacsPopped(ts, k)[j] = ts[j] \/ MacsPopped(ts, k)[j] = [ts[j] EXCEPT !.macs = "private"]
  BY DEF MacsPopped
<1>6. QED
  BY <1>2, <1>3, <1>4, <1>5

LEMMA OrphanedPace ==
  ASSUME TypeOK, NEW k, NEW obj, NEW j \in Timers
  PROVE  SamePace(Orphaned(k, obj)[j], timer[j])
<1>1. timer[j] \in TimerState
  BY DEF TypeOK
<1>2. SamePace([timer[j] EXCEPT !.live = FALSE, !.obj = obj], timer[j]) /\ SamePace(timer[j], timer[j])
  BY <1>1 DEF TimerState, SamePace
<1>3. \/ Orphaned(k, obj)[j] = timer[j]
      \/ Orphaned(k, obj)[j] = [timer[j] EXCEPT !.live = FALSE, !.obj = obj]
  BY DEF Orphaned
<1>4. QED
  BY <1>2, <1>3

LEMMA SamePaceContinues ==
  ASSUME NEW j \in Timers, SamePace(timer'[j], timer[j])
  PROVE  Continues(j)
  BY DEF Continues, SamePace
-----------------------------------------------------------------------------
(* The quiet steps.                                                        *)

LEMMA HearQuiet == ASSUME IInv, NEW t \in Threads, Hear(t) PROVE Quiet
<1>1. \A j \in Timers : Continues(j)
  BY UnchangedContinues DEF Hear
<1>2. \A s \in Threads : Proceeds(s)
  BY DEF Hear, Proceeds, IInv, TypeOK
<1>3. QED
  BY <1>1, <1>2 DEF Quiet, Hear

LEMMA CoveredQuiet == ASSUME IInv, NEW t \in Threads, Covered(t) PROVE Quiet
<1>1. \A j \in Timers : Continues(j)
  BY UnchangedContinues DEF Covered
<1>2. \A s \in Threads : Proceeds(s)
  BY DEF Covered, Proceeds, IInv, TypeOK, IdleThread
<1>3. QED
  BY <1>1, <1>2 DEF Quiet, Covered

LEMMA StampProceeds ==
  ASSUME IInv, NEW t \in Threads, NEW k, NEW first, NEW position,
         Stamp(t, k, first, position), capture[t].pc = "merge"
  PROVE  \A s \in Threads : Proceeds(s)
<1>1. capture[t] \in CaptureState /\ capture \in [Threads -> CaptureState]
  BY DEF IInv, TypeOK
<1>2. capture' = [capture EXCEPT ![t].pc = "lookup", ![t].key = k]
  BY DEF Stamp
<1>3. capture'[t].pc = "lookup" /\ capture'[t].at = capture[t].at
  BY <1>1, <1>2 DEF CaptureState
<1>4. \A s \in Threads \ {t} : capture'[s] = capture[s]
  BY <1>1, <1>2
<1>5. QED
  BY <1>3, <1>4 DEF Proceeds

LEMMA MergeInPlaceQuiet == ASSUME IInv, NEW t \in Threads, MergeInPlace(t) PROVE Quiet
<1> DEFINE k == resolve_state_key(capture[t].frame.mac)
<1>1. timer' = MacsGrow(timer, k, {capture[t].frame.mac}) /\ timer \in [Timers -> TimerState]
  BY DEF MergeInPlace, IInv, TypeOK
<1>2. \A j \in Timers : Continues(j)
  BY <1>1, MacsPace, SamePaceContinues
<1>3. \A s \in Threads : Proceeds(s)
  BY StampProceeds DEF MergeInPlace
<1>4. QED
  BY <1>2, <1>3 DEF Quiet, MergeInPlace

LEMMA MergeRekeyTimers ==
  ASSUME IInv, NEW t \in Threads, MergeRekey(t)
  PROVE  LET k == resolve_state_key(capture[t].frame.mac)
         IN  \A j \in Timers :
               IF j = pending_alert_timers[k] /\ timer[j].pc = "armed"
               THEN timer'[j] = FreeTimer ELSE SamePace(timer'[j], timer[j])
<1> DEFINE m == capture[t].frame.mac
           k == resolve_state_key(m)
           u == Merged(t).id
           stale == pending_alert_timers[k]
           orphaned == Orphaned(k, Merged(t))
           grown == MacsGrow(orphaned, k, {m})
           popped == MacsPopped(grown, k)
           detached == MacsGrow(popped, u, key_to_macs[k] \cup {m})
<1>1. /\ TypeOK /\ capture[t].frame \in Frames
  BY DEF IInv, InHand, MergeRekey
<1>2. m \in Macs /\ k \in Keys /\ Merged(t) \in Telemetry
  BY <1>1, MergedType, ResolveType, ContactsAssumption DEF Frame
<1>3. timer' = Cancelled(detached, stale)
  BY DEF MergeRekey
<1>4. /\ detached \in [Timers -> TimerState]
      /\ \A j \in Timers : SamePace(detached[j], timer[j])
  <2>1. /\ orphaned \in [Timers -> TimerState]
        /\ \A j \in Timers : SamePace(orphaned[j], timer[j])
    BY <1>1, <1>2, OrphanedType, OrphanedPace
  <2> HIDE DEF orphaned
  <2>2. grown \in [Timers -> TimerState] /\ \A j \in Timers : SamePace(grown[j], orphaned[j])
    BY <2>1, MacsType, MacsPace DEF Alike
  <2> HIDE DEF grown
  <2>3. popped \in [Timers -> TimerState] /\ \A j \in Timers : SamePace(popped[j], grown[j])
    BY <2>2, MacsType, MacsPace DEF Alike
  <2> HIDE DEF popped
  <2>4. detached \in [Timers -> TimerState] /\ \A j \in Timers : SamePace(detached[j], popped[j])
    BY <2>3, MacsType, MacsPace DEF Alike
  <2> HIDE DEF detached
  <2>5. QED
    BY <2>1, <2>2, <2>3, <2>4 DEF SamePace
<1>5. stale \in Maybe(Timers) /\ NONE \notin Timers
  BY <1>1, <1>2, ContactsAssumption DEF TypeOK
<1> HIDE DEF detached, stale
<1>6. \A j \in Timers : IF j = stale /\ detached[j].pc = "armed"
                        THEN timer'[j] = FreeTimer ELSE timer'[j] = detached[j]
  BY <1>3, <1>4, <1>5 DEF Cancelled, Maybe
<1>7. \A j \in Timers : detached[j].pc = timer[j].pc
  BY <1>4 DEF SamePace
<1>8. QED
  BY <1>4, <1>6, <1>7 DEF stale

LEMMA MergeRekeyQuiet == ASSUME IInv, NEW t \in Threads, MergeRekey(t) PROVE Quiet
<1>1. \A j \in Timers : \/ timer'[j] = FreeTimer /\ timer[j].pc = "armed"
                        \/ SamePace(timer'[j], timer[j])
  BY MergeRekeyTimers
<1>2. \A j \in Timers : Continues(j)
  BY <1>1, SamePaceContinues DEF Continues, FreeTimer, Running, Untested, Passed, Deleting
<1>3. \A s \in Threads : Proceeds(s)
  BY StampProceeds DEF MergeRekey
<1>4. QED
  BY <1>2, <1>3 DEF Quiet, MergeRekey

\* The steps of one finaliser that end it, or keep it on its side of the test.
LEMMA FinaliserQuiet ==
  ASSUME IInv, NEW i \in Timers, NEW r,
         timer' = [timer EXCEPT ![i] = r],
         \/ r.pc = "free" /\ timer[i].pc # "mark"
         \/ /\ timer[i].pc \in Untested \ {"armed"} /\ r.pc \in Untested \ {"armed", "fired"}
            /\ r.key = timer[i].key /\ r.due = timer[i].due /\ r.since = timer[i].since,
         UNCHANGED <<now, sent_alert_tracker, rows, capture>>
  PROVE  Quiet
<1>1. timer'[i] = r /\ \A j \in Timers \ {i} : timer'[j] = timer[j]
  BY DEF IInv, TypeOK
<1>2. Continues(i)
  BY <1>1 DEF Continues, Running, Untested, Passed, Deleting
<1>3. \A j \in Timers \ {i} : Continues(j)
  BY <1>1, UnchangedContinues
<1>4. \A t \in Threads : Proceeds(t)
  BY UnchangedProceeds
<1>5. QED
  BY <1>2, <1>3, <1>4 DEF Quiet

LEMMA EndQuiet ==
  ASSUME IInv, NEW i \in Timers,
         \/ Suppress(i) \/ CheckRaises(i) \/ RememberRaises(i) \/ ScanRaises(i)
         \/ DeleteRaises(i) \/ WriteRaises(i)
  PROVE  Quiet
<1>1. /\ timer' = [timer EXCEPT ![i] = FreeTimer] /\ timer[i].pc # "mark"
      /\ UNCHANGED <<now, sent_alert_tracker, rows, capture>>
  BY DEF Suppress, CheckRaises, RememberRaises, ScanRaises, DeleteRaises, WriteRaises, Die
<1>2. QED
  BY <1>1, FinaliserQuiet DEF FreeTimer

LEMMA FinalizeQuiet == ASSUME IInv, NEW i \in Timers, Finalize(i) PROVE Quiet
<1> DEFINE r == IF drone_state[timer[i].key] = NONE THEN FreeTimer
                ELSE [timer[i] EXCEPT !.pc = "identify", !.live = TRUE]
<1>1. timer[i] \in TimerState /\ timer \in [Timers -> TimerState] /\ timer[i].pc = "fired"
  BY DEF Finalize, IInv, TypeOK
<1>2. timer' = [timer EXCEPT ![i] = r]
  BY <1>1 DEF Finalize, TimerState
<1>3. \/ r.pc = "free"
      \/ r.pc = "identify" /\ r.key = timer[i].key /\ r.due = timer[i].due /\ r.since = timer[i].since
  BY <1>1 DEF FreeTimer, TimerState
<1> HIDE DEF r
<1>4. QED
  BY <1>1, <1>2, <1>3, FinaliserQuiet DEF Untested, Finalize

LEMMA IdentityQuiet ==
  ASSUME IInv, NEW i \in Timers,
         IdentityDecoded(i) \/ IdentityRemembered(i) \/ IdentityInferred(i)
  PROVE  Quiet
<1>1. timer[i] \in TimerState /\ timer \in [Timers -> TimerState]
  BY DEF IInv, TypeOK
<1>2. CASE IdentityDecoded(i)
  <2> DEFINE macs == IF key_to_macs[timer[i].key] = {} THEN "private" ELSE "shared"
             r == [timer[i] EXCEPT !.pc = "remember", !.macs = macs]
  <2>1. timer' = [timer EXCEPT ![i] = r]
    BY <1>1, <1>2 DEF IdentityDecoded, TimerState
  <2>2. r.pc = "remember" /\ r.key = timer[i].key /\ r.due = timer[i].due /\ r.since = timer[i].since
    BY <1>1 DEF TimerState
  <2> HIDE DEF r
  <2>3. QED
    BY <1>2, <2>1, <2>2, FinaliserQuiet DEF Untested, IdentityDecoded
<1>3. CASE IdentityRemembered(i)
  <2> DEFINE r == [timer[i] EXCEPT !.pc = "check", !.macs = "private"]
  <2>1. timer' = [timer EXCEPT ![i] = r]
    BY <1>1, <1>3 DEF IdentityRemembered, TimerState
  <2>2. r.pc = "check" /\ r.key = timer[i].key /\ r.due = timer[i].due /\ r.since = timer[i].since
    BY <1>1 DEF TimerState
  <2> HIDE DEF r
  <2>3. QED
    BY <1>3, <2>1, <2>2, FinaliserQuiet DEF Untested, IdentityRemembered
<1>4. CASE IdentityInferred(i)
  <2>1. PICK id \in Maybe(Remembered) :
          timer' = [timer EXCEPT ![i] =
                     IF id = NONE
                     THEN [@ EXCEPT !.pc = "check"]
                     ELSE [@ EXCEPT !.pc = "check", !.source = "inferred", !.live = FALSE,
                                    !.obj = [Held(i) EXCEPT !.id = id]]]
    BY <1>4 DEF IdentityInferred
  <2> DEFINE obj == [Held(i) EXCEPT !.id = id]
             r == IF id = NONE THEN [timer[i] EXCEPT !.pc = "check"]
                  ELSE [timer[i] EXCEPT !.pc = "check", !.source = "inferred", !.live = FALSE,
                                        !.obj = obj]
  <2>2. timer' = [timer EXCEPT ![i] = r]
    BY <1>1, <2>1
  <2> HIDE DEF obj
  <2>3. r.pc = "check" /\ r.key = timer[i].key /\ r.due = timer[i].due /\ r.since = timer[i].since
    BY <1>1 DEF TimerState
  <2> HIDE DEF r
  <2>4. QED
    BY <1>4, <2>2, <2>3, FinaliserQuiet DEF Untested, IdentityInferred
<1>5. QED
  BY <1>2, <1>3, <1>4

LEMMA DropQuiet ==
  ASSUME IInv, NEW i \in Timers, DropState(i) \/ DropRest(i)
  PROVE  Quiet
<1> DEFINE k == timer[i].victim
<1>1. k \in Keys /\ TypeOK /\ timer[i].key \in Keys
  BY DEF IInv, InHand, DropState, DropRest, DropFirstSeen, DropPosition, DropMacs, DropMapping
<1>2. CASE DropState(i)
  <2> DEFINE obj == IF drone_state[k] = NONE THEN Blank ELSE drone_state[k]
             detached == Orphaned(k, obj)
  <2>1. obj \in Telemetry
    BY <1>1 DEF TypeOK, Maybe, Blank, Telemetry
  <2>2. Orphaned(k, drone_state[k]) = detached
    <3>1. CASE drone_state[k] = NONE
      <4>1. \A j \in Timers : ~ (timer[j].live /\ timer[j].key = k)
        BY <1>1, <3>1 DEF IInv, InHand
      <4>2. QED
        BY <4>1 DEF Orphaned
    <3>2. QED
      BY <3>1
  <2>3. timer' = [detached EXCEPT ![i].pc = "dropFirstSeen"]
    BY <1>2, <2>2 DEF DropState
  <2>4. detached \in [Timers -> TimerState] /\ \A j \in Timers : SamePace(detached[j], timer[j])
    BY <1>1, <2>1, OrphanedType, OrphanedPace
  <2> HIDE DEF obj, detached
  <2>5. \A j \in Timers \ {i} : timer'[j] = detached[j]
    BY <2>3, <2>4
  <2>6. /\ timer'[i].pc = "dropFirstSeen" /\ timer'[i].key = detached[i].key
        /\ timer'[i].due = detached[i].due /\ timer'[i].since = detached[i].since
        /\ timer'[i].at = detached[i].at /\ timer'[i].doomed = detached[i].doomed
    BY <2>3, <2>4 DEF TimerState
  <2>7. timer[i].pc = "dropState"
    BY <1>2 DEF DropState
  <2>8. Continues(i)
    BY <2>4, <2>6, <2>7 DEF Continues, SamePace, Running, Untested, Passed, Deleting
  <2>9. \A j \in Timers \ {i} : Continues(j)
    BY <2>4, <2>5, SamePaceContinues
  <2>10. QED
    BY <1>2, <2>8, <2>9, UnchangedProceeds DEF Quiet, DropState
<1>3. CASE DropRest(i)
  <2>1. GoesOn(i) /\ UNCHANGED <<now, sent_alert_tracker, rows, capture>>
    BY <1>3, DropRestGoesOn
  <2>2. /\ timer'[i].pc \in Deleting \cup {"write"} /\ timer[i].pc \in Dropping
        /\ SameTask(timer'[i], timer[i])
    BY <2>1 DEF GoesOn, Deleting
  <2>3. Continues(i)
    BY <2>2 DEF Continues, SameTask, Running, Untested, Passed, Deleting
  <2>4. \A j \in Timers \ {i} : SamePace(timer'[j], timer[j])
    BY <2>1 DEF GoesOn, SameButMacs, SameTask, SamePace
  <2>5. QED
    BY <2>1, <2>3, <2>4, SamePaceContinues, UnchangedProceeds DEF Quiet
<1>4. QED
  BY <1>2, <1>3

LEMMA QuietSteps ==
  ASSUME IInv,
         \/ \E t \in Threads : Hear(t) \/ MergeInPlace(t) \/ MergeRekey(t) \/ Covered(t)
         \/ \E i \in Timers :
              \/ Finalize(i) \/ IdentityDecoded(i) \/ IdentityRemembered(i) \/ IdentityInferred(i)
              \/ Suppress(i) \/ CheckRaises(i) \/ RememberRaises(i) \/ ScanRaises(i)
              \/ DeleteRaises(i) \/ WriteRaises(i) \/ DropState(i) \/ DropRest(i)
         \/ UNCHANGED vars
  PROVE  Quiet
<1>1. UNCHANGED vars => Quiet
  BY UnchangedContinues, UnchangedProceeds DEF vars, Quiet
<1>2. QED
  BY <1>1, HearQuiet, MergeInPlaceQuiet, MergeRekeyQuiet, CoveredQuiet, FinalizeQuiet,
     IdentityQuiet, EndQuiet, DropQuiet
-----------------------------------------------------------------------------
(* OnTime, whatever the timing.                                            *)

\* A step that changes one timer alone.
LEMMA OneTimer ==
  ASSUME TypeOK, NEW i \in Timers, NEW r, timer' = [timer EXCEPT ![i] = r]
  PROVE  timer'[i] = r /\ \A j \in Timers \ {i} : timer'[j] = timer[j]
  BY DEF TypeOK

LEMMA QuietOnTime == ASSUME IInv, IInv', OnTime, Quiet PROVE OnTime'
<1>1. /\ now' = now /\ \A j \in Timers : Continues(j)
      /\ \A t \in Threads : Proceeds(t)
  BY DEF Quiet
<1>2. now \in Nat /\ Linger \in Nat /\ \A t \in Threads : capture[t].at \in Nat
  BY Numbers DEF IInv
<1>3. ASSUME NEW j \in Timers
      PROVE  /\ timer'[j].pc = "armed" => now <= timer'[j].due /\ timer'[j].due <= now + Grace
             /\ timer'[j].pc \in Running => /\ timer'[j].since = timer'[j].due
                                            /\ timer'[j].since <= now
                                            /\ now <= timer'[j].since + Stall
             /\ timer'[j].pc \in Passed => timer'[j].since <= timer'[j].at /\ timer'[j].at <= now
  BY <1>1 DEF OnTime, Continues, Running, Passed
<1>4. ASSUME NEW t \in Threads, capture'[t].pc # "idle"
      PROVE  capture'[t].at <= now /\ now <= capture'[t].at + Linger
  BY <1>1, <1>2, <1>4 DEF Proceeds, OnTime
<1>5. QED
  BY <1>1, <1>3, <1>4 DEF OnTime

\* The four ways a timer's own step can matter: the rest of the step leaves every other
\* timer alone, and no capture thread but t moves.
LEMMA ScheduleTimer ==
  ASSUME IInv, NEW t \in Threads, Schedule(t)
  PROVE  \E i \in Timers :
           /\ timer[i].pc = "free"
           /\ timer'[i].pc = "armed" /\ timer'[i].key = capture[t].key
           /\ timer'[i].due = now + Grace
           /\ \A j \in Timers \ {i} : timer'[j] = timer[j]
           /\ pending_alert_timers' = [pending_alert_timers EXCEPT ![capture[t].key] = i]
<1> DEFINE i == CHOOSE j \in Timers : timer[j].pc = "free"
           armed == [FreeTimer EXCEPT !.pc = "armed", !.key = capture[t].key, !.due = now + Grace]
<1>1. i \in Timers /\ timer[i].pc = "free"
  BY DEF Schedule
<1>2. armed.pc = "armed" /\ armed.key = capture[t].key /\ armed.due = now + Grace
  BY DEF FreeTimer
<1>3. /\ timer' = [timer EXCEPT ![i] = armed]
      /\ pending_alert_timers' = [pending_alert_timers EXCEPT ![capture[t].key] = i]
  BY DEF Schedule
<1> HIDE DEF i, armed
<1>4. timer'[i] = armed /\ \A j \in Timers \ {i} : timer'[j] = timer[j]
  BY <1>1, <1>3, OneTimer DEF IInv
<1>5. QED
  BY <1>1, <1>2, <1>3, <1>4

LEMMA FireTimer ==
  ASSUME IInv, NEW i \in Timers, Fire(i)
  PROVE  /\ timer'[i].pc = "fired" /\ timer'[i].since = now
         /\ timer'[i].key = timer[i].key /\ timer'[i].due = timer[i].due
         /\ \A j \in Timers \ {i} : timer'[j] = timer[j]
<1>1. timer \in [Timers -> TimerState] /\ timer[i] \in TimerState
  BY DEF IInv, TypeOK
<1>2. timer' = [timer EXCEPT ![i].pc = "fired", ![i].since = now]
  BY DEF Fire
<1>3. QED
  BY <1>1, <1>2 DEF TimerState

LEMMA PassCooldownTimer ==
  ASSUME IInv, NEW i \in Timers, PassCooldown(i)
  PROVE  /\ timer'[i].pc = "scan" /\ timer'[i].at = now
         /\ timer'[i].key = timer[i].key /\ timer'[i].due = timer[i].due
         /\ timer'[i].since = timer[i].since
         /\ \A j \in Timers \ {i} : timer'[j] = timer[j]
<1>1. timer \in [Timers -> TimerState] /\ timer[i] \in TimerState
  BY DEF IInv, TypeOK
<1>2. timer' = [timer EXCEPT ![i].pc = "scan", ![i].at = now, ![i].stamp = HeardAt(i)]
  BY DEF PassCooldown
<1>3. QED
  BY <1>1, <1>2 DEF TimerState

LEMMA MarkSentTimer ==
  ASSUME IInv, NEW i \in Timers, MarkSent(i)
  PROVE  /\ timer[i].pc = "mark" /\ timer'[i].pc = "free"
         /\ \A j \in Timers \ {i} : timer'[j] = timer[j]
<1>1. timer' = [timer EXCEPT ![i] = FreeTimer] /\ timer[i].pc = "mark"
  BY DEF MarkSent
<1>2. timer'[i] = FreeTimer /\ \A j \in Timers \ {i} : timer'[j] = timer[j]
  BY <1>1, OneTimer DEF IInv
<1>3. QED
  BY <1>1, <1>2 DEF FreeTimer

\* Past the test a timer keeps its key and its times until it marks.
Advances(i) == /\ timer'[i].pc \in Passed
               /\ timer'[i].key = timer[i].key /\ timer'[i].due = timer[i].due
               /\ timer'[i].since = timer[i].since /\ timer'[i].at = timer[i].at
               /\ \A j \in Timers \ {i} : timer'[j] = timer[j]

LEMMA ScanTimer ==
  ASSUME IInv, NEW i \in Timers, Scan(i)
  PROVE  /\ Advances(i) /\ timer[i].pc = "scan" /\ timer'[i].pc \in {"write", "delete"}
         /\ timer'[i].doomed = Expired(timer[i].at)
<1> DEFINE next == IF Expired(timer[i].at) = {} THEN "write" ELSE "delete"
<1>1. timer \in [Timers -> TimerState] /\ timer[i] \in TimerState /\ timer[i].pc = "scan"
  BY DEF IInv, TypeOK, Scan
<1>2. timer' = [timer EXCEPT ![i].pc = next, ![i].doomed = Expired(timer[i].at)]
  BY DEF Scan
<1>3. next \in {"write", "delete"}
  OBVIOUS
<1> HIDE DEF next
<1>4. QED
  BY <1>1, <1>2, <1>3 DEF TimerState, Advances, Passed

LEMMA DeleteExpiredTimer ==
  ASSUME IInv, NEW i \in Timers, DeleteExpired(i)
  PROVE  /\ Advances(i) /\ timer[i].pc = "delete" /\ timer'[i].pc = "dropState"
         /\ timer'[i].doomed \subseteq timer[i].doomed
         /\ \E k \in timer[i].doomed :
              /\ k \in Keys /\ sent_alert_tracker[k] # NONE
              /\ sent_alert_tracker' = [sent_alert_tracker EXCEPT ![k] = NONE]
<1>1. timer \in [Timers -> TimerState] /\ timer[i] \in TimerState /\ timer[i].pc = "delete"
  BY DEF IInv, TypeOK, DeleteExpired
<1>2. PICK k \in timer[i].doomed :
        /\ sent_alert_tracker[k] # NONE
        /\ sent_alert_tracker' = [sent_alert_tracker EXCEPT ![k] = NONE]
        /\ timer' = [timer EXCEPT ![i].pc = "dropState", ![i].victim = k,
                                  ![i].doomed = @ \ {k}]
  BY DEF DeleteExpired
<1>3. k \in Keys
  BY <1>1 DEF TimerState
<1>4. Advances(i) /\ timer'[i].pc = "dropState" /\ timer'[i].doomed \subseteq timer[i].doomed
  BY <1>1, <1>2 DEF TimerState, Advances, Passed
<1>5. QED
  BY <1>1, <1>2, <1>3, <1>4

LEMMA WriteTimer ==
  ASSUME IInv, NEW i \in Timers, Write(i)
  PROVE  /\ Advances(i) /\ timer[i].pc = "write" /\ timer'[i].pc = "mark"
         /\ DOMAIN rows' = 1..(Len(rows) + 1) /\ DOMAIN rows = 1..Len(rows) /\ Len(rows) \in Nat
         /\ \A n \in DOMAIN rows : rows'[n] = rows[n]
         /\ rows'[Len(rows) + 1].key = timer[i].key /\ rows'[Len(rows) + 1].at = timer[i].at
<1> DEFINE written == [key |-> timer[i].key, at |-> timer[i].at, stamp |-> timer[i].stamp,
                       tele |-> Held(i), source |-> timer[i].source]
<1>1. timer \in [Timers -> TimerState] /\ timer[i] \in TimerState /\ timer[i].pc = "write"
      /\ rows \in Seq(Row) /\ rows' = Append(rows, written)
  BY DEF IInv, TypeOK, Write
<1>2. written.key = timer[i].key /\ written.at = timer[i].at
  OBVIOUS
<1> HIDE DEF written
<1>3. timer' = [timer EXCEPT ![i].pc = "mark"]
  BY DEF Write
<1>4. Advances(i) /\ timer'[i].pc = "mark"
  BY <1>1, <1>3 DEF TimerState, Advances, Passed
<1>5. /\ DOMAIN rows' = 1..(Len(rows) + 1) /\ DOMAIN rows = 1..Len(rows) /\ Len(rows) \in Nat
      /\ \A n \in DOMAIN rows : rows'[n] = rows[n]
      /\ rows'[Len(rows) + 1] = written
  BY <1>1
<1>6. QED
  BY <1>1, <1>2, <1>4, <1>5

LEMMA AdvancesOnTime ==
  ASSUME IInv, OnTime, NEW i \in Timers, timer[i].pc \in Passed, Advances(i),
         UNCHANGED <<now, capture>>
  PROVE  OnTime'
<1>1. ASSUME NEW j \in Timers
      PROVE  /\ timer'[j].pc = "armed" => now <= timer'[j].due /\ timer'[j].due <= now + Grace
             /\ timer'[j].pc \in Running => /\ timer'[j].since = timer'[j].due
                                            /\ timer'[j].since <= now
                                            /\ now <= timer'[j].since + Stall
             /\ timer'[j].pc \in Passed => timer'[j].since <= timer'[j].at /\ timer'[j].at <= now
  <2>1. CASE j = i
    BY <2>1 DEF Advances, OnTime, Passed, Running
  <2>2. CASE j # i
    BY <2>2 DEF Advances, OnTime
  <2>3. QED
    BY <2>1, <2>2
<1>2. QED
  BY <1>1 DEF OnTime

LEMMA CaptureOnTime ==
  ASSUME IInv, OnTime, NEW t \in Threads, ReadSentAt(t) \/ ExpireCooldown(t)
  PROVE  OnTime'
<1>1. capture[t].pc # "idle" /\ timer' = timer /\ now' = now
  BY DEF ReadSentAt, ExpireCooldown
<1>2. capture[t] \in CaptureState /\ capture \in [Threads -> CaptureState]
  BY DEF IInv, TypeOK
<1>3. capture'[t].at = capture[t].at /\ \A s \in Threads \ {t} : capture'[s] = capture[s]
  <2>1. CASE ReadSentAt(t)
    <3> DEFINE next == IF sent_alert_tracker[capture[t].key] # NONE
                          /\ now - sent_alert_tracker[capture[t].key] >= Cooldown
                       THEN "expire" ELSE "schedule"
    <3>1. capture' = [capture EXCEPT ![t].pc = next]
      BY <2>1 DEF ReadSentAt
    <3> HIDE DEF next
    <3>2. QED
      BY <1>2, <3>1 DEF CaptureState
  <2>2. CASE ExpireCooldown(t)
    <3>1. capture' = [capture EXCEPT ![t].pc = "schedule"]
      BY <2>2 DEF ExpireCooldown
    <3>2. QED
      BY <1>2, <3>1 DEF CaptureState
  <2>3. QED
    BY <2>1, <2>2
<1>4. QED
  BY <1>1, <1>3 DEF OnTime

LEMMA OwnStepOnTime ==
  ASSUME IInv, OnTime, NEW i \in Timers,
         Fire(i) \/ PassCooldown(i) \/ MarkSent(i)
  PROVE  OnTime'
<1>1. /\ now \in Nat /\ Stall \in Nat
      /\ \A j \in Timers : timer[j].due \in Nat /\ timer[j].since \in Nat /\ timer[j].at \in Nat
  BY Numbers DEF IInv
<1>2. now' = now /\ capture' = capture
  BY DEF Fire, PassCooldown, MarkSent
<1>3. \A j \in Timers \ {i} : timer'[j] = timer[j]
  BY FireTimer, PassCooldownTimer, MarkSentTimer
<1>4. /\ timer'[i].pc = "armed" => now <= timer'[i].due /\ timer'[i].due <= now + Grace
      /\ timer'[i].pc \in Running => /\ timer'[i].since = timer'[i].due
                                     /\ timer'[i].since <= now
                                     /\ now <= timer'[i].since + Stall
      /\ timer'[i].pc \in Passed => timer'[i].since <= timer'[i].at /\ timer'[i].at <= now
  <2>1. CASE Fire(i)
    <3>1. timer[i].pc = "armed" /\ now >= timer[i].due
      BY <2>1 DEF Fire
    <3>2. now = timer[i].due
      BY <1>1, <3>1 DEF OnTime
    <3>3. QED
      BY <1>1, <2>1, <3>2, FireTimer DEF Passed
  <2>2. CASE PassCooldown(i)
    <3>1. timer[i].pc = "check"
      BY <2>2 DEF PassCooldown
    <3>2. QED
      BY <1>1, <2>2, <3>1, PassCooldownTimer DEF OnTime, Running, Passed
  <2>3. CASE MarkSent(i)
    <3>1. timer'[i].pc = "free"
      BY <2>3, MarkSentTimer
    <3>2. QED
      BY <3>1 DEF Running, Passed
  <2>4. QED
    BY <2>1, <2>2, <2>3
<1>5. QED
  BY <1>2, <1>3, <1>4 DEF OnTime

LEMMA ScheduleOnTime == ASSUME IInv, OnTime, NEW t \in Threads, Schedule(t) PROVE OnTime'
<1>1. PICK i \in Timers : /\ timer'[i].pc = "armed" /\ timer'[i].due = now + Grace
                          /\ \A j \in Timers \ {i} : timer'[j] = timer[j]
  BY ScheduleTimer
<1>2. now' = now /\ now \in Nat /\ Grace \in Nat
  BY Numbers DEF Schedule, IInv
<1>3. \A s \in Threads : capture'[s] = capture[s] \/ capture'[s].pc = "idle"
  BY DEF Schedule, IdleThread, IInv, TypeOK
<1>4. QED
  BY <1>1, <1>2, <1>3 DEF OnTime, Running, Passed

LEMMA TickOnTime == ASSUME IInv, OnTime, Tick PROVE OnTime'
<1>1. /\ now \in Nat /\ Grace \in Nat /\ Stall \in Nat /\ Linger \in Nat
      /\ \A i \in Timers : timer[i].due \in Nat /\ timer[i].since \in Nat /\ timer[i].at \in Nat
      /\ \A t \in Threads : capture[t].at \in Nat
  BY Numbers DEF IInv
<1>2. now' = now + 1 /\ UNCHANGED <<timer, capture>>
  BY DEF Tick
<1>3. /\ \A i \in Timers : /\ timer[i].pc = "armed" => now < timer[i].due
                           /\ timer[i].pc \in Running => now - timer[i].since < Stall
      /\ \A t \in Threads : capture[t].pc # "idle" => now - capture[t].at < Linger
  BY DEF Tick
<1>4. QED
  BY <1>1, <1>2, <1>3 DEF OnTime

LEMMA InitOnTime == Init => OnTime
  BY DEF Init, OnTime, FreeTimer, IdleThread, Running, Passed

LEMMA StepOnTime == ASSUME IInv, IInv', OnTime, [Next]_vars PROVE OnTime'
<1>1. CASE Quiet
  BY <1>1, QuietOnTime
<1>2. ASSUME NEW t \in Threads, Hear(t) \/ Register(t), ~ Quiet PROVE OnTime'
  BY <1>2, QuietSteps, CaptureOnTime, ScheduleOnTime DEF Register
<1>3. ASSUME NEW i \in Timers, Finalise(i), ~ Quiet PROVE OnTime'
  <2>1. CASE Fire(i) \/ PassCooldown(i) \/ MarkSent(i)
    BY <2>1, OwnStepOnTime
  <2>2. CASE Scan(i) \/ DeleteExpired(i) \/ Write(i)
    <3>1. /\ Advances(i) /\ timer[i].pc \in Passed /\ UNCHANGED <<now, capture>>
      BY <2>2, ScanTimer, DeleteExpiredTimer, WriteTimer DEF Passed, Scan, DeleteExpired, Write
    <3>2. QED
      BY <3>1, AdvancesOnTime
  <2>3. QED
    BY <1>3, <2>1, <2>2, QuietSteps DEF Finalise
<1>4. CASE Tick
  BY <1>4, TickOnTime
<1>5. CASE Horizon
  BY <1>1, <1>5, QuietSteps DEF Horizon
<1>6. QED
  BY <1>1, <1>2, <1>3, <1>4, <1>5, QuietSteps DEF Next
-----------------------------------------------------------------------------
(* The finalisers of one contact, for the contacts in K: one at a time, as   *)
(* long as a timer that waits is the registered one and the threads keep to  *)
(* Timing.                                                                   *)

Waiting(K) ==
  \A i \in Timers : timer[i].pc = "armed" /\ timer[i].key \in K
                    => pending_alert_timers[timer[i].key] = i

\* While a finaliser runs, the next timer of its contact waits, a grace period behind.
OneAtATime(K) ==
  \A i, j \in Timers :
    /\ i # j /\ timer[i].key = timer[j].key /\ timer[i].key \in K
    /\ timer[i].pc \in Running /\ timer[j].pc # "free"
    => timer[j].pc = "armed" /\ timer[j].due >= timer[i].since + Grace

\* A cooldown that is running when a timer is set will still run when it takes the
\* test, and none is on record for a contact that has passed it.
Covers(K) ==
  \A i \in Timers :
    LET sent == sent_alert_tracker[timer[i].key]
    IN  timer[i].key \in K =>
          /\ timer[i].pc \in Untested /\ sent # NONE => timer[i].due + Stall < sent + Cooldown
          /\ timer[i].pc \in Passed => sent = NONE

\* At time clock the entry sent of contact k has served its time, and none of the
\* timers ts finalises k before until.
OutOfUse(clock, sent, ts, k, until) ==
  /\ sent # NONE => clock - sent >= Cooldown
  /\ \A j \in Timers : ts[j].pc # "free" /\ ts[j].key = k
                       => ts[j].pc = "armed" /\ ts[j].due > until

\* So it is with every entry somebody is about to remove.
Removable(K) ==
  /\ \A t \in Threads : \A k \in K :
       capture[t].pc = "expire" /\ capture[t].key = k
       => OutOfUse(now, sent_alert_tracker[k], timer, k, capture[t].at + Linger)
  /\ \A i \in Timers : \A k \in K :
       timer[i].pc \in Deleting /\ k \in timer[i].doomed
       => OutOfUse(now, sent_alert_tracker[k], timer, k, timer[i].since + Stall)

Apart(K) == OneAtATime(K) /\ Covers(K) /\ Removable(K)

\* A finaliser and a capture thread are done long before the next grace period ends, and
\* a cooldown outlasts a grace period and the finalisers on both sides of it.
Timing == Stall < Grace /\ Linger < Grace /\ Grace + 2 * Stall < Cooldown

LEMMA InitApart == ASSUME NEW K, Init PROVE Apart(K)
  BY DEF Init, Apart, OneAtATime, Covers, Removable, FreeTimer, IdleThread,
         Running, Untested, Passed, Deleting

LEMMA QuietApart ==
  ASSUME NEW K, IInv, Apart(K), Quiet
  PROVE  Apart(K)'
<1>1. /\ UNCHANGED <<now, sent_alert_tracker, rows>>
      /\ \A t \in Threads : Proceeds(t)
  BY DEF Quiet
<1>2. \A j \in Timers : Continues(j)
  BY DEF Quiet
<1>3. "free" \notin Running \cup Untested \cup Passed \cup Deleting
  BY DEF Running, Untested, Passed, Deleting
<1>4. OneAtATime(K)'
  <2>1. ASSUME NEW i \in Timers, NEW j \in Timers, i # j, timer'[i].key = timer'[j].key,
               timer'[i].key \in K, timer'[i].pc \in Running, timer'[j].pc # "free"
        PROVE  timer'[j].pc = "armed" /\ timer'[j].due >= timer'[i].since + Grace
    <3>1. timer[i].key = timer[j].key /\ timer[i].key \in K
          /\ timer[i].pc \in Running /\ timer[j].pc # "free"
      BY <1>2, <1>3, <2>1 DEF Continues
    <3>2. timer[j].pc = "armed" /\ timer[j].due >= timer[i].since + Grace
      BY <2>1, <3>1 DEF Apart, OneAtATime
    <3>3. QED
      BY <1>2, <1>3, <2>1, <3>2 DEF Continues
  <2>2. QED
    BY <2>1 DEF OneAtATime
<1>5. Covers(K)'
  <2>1. ASSUME NEW i \in Timers, timer'[i].key \in K
        PROVE  /\ timer'[i].pc \in Untested /\ sent_alert_tracker[timer'[i].key] # NONE
                  => timer'[i].due + Stall < sent_alert_tracker[timer'[i].key] + Cooldown
               /\ timer'[i].pc \in Passed => sent_alert_tracker[timer'[i].key] = NONE
    BY <1>2, <1>3, <2>1 DEF Apart, Covers, Continues
  <2>2. QED
    BY <1>1, <2>1 DEF Covers
<1>6. ASSUME NEW sent, NEW k, NEW until, OutOfUse(now, sent, timer, k, until)
      PROVE  OutOfUse(now, sent, timer', k, until)
  BY <1>2, <1>6 DEF OutOfUse, Continues
<1>7. Removable(K)'
  <2>1. ASSUME NEW t \in Threads, NEW k \in K, capture'[t].pc = "expire", capture'[t].key = k
        PROVE  OutOfUse(now, sent_alert_tracker[k], timer', k, capture'[t].at + Linger)
    <3>1. capture[t].pc = "expire" /\ capture[t].key = k /\ capture'[t].at = capture[t].at
      BY <1>1, <2>1 DEF Proceeds
    <3>2. OutOfUse(now, sent_alert_tracker[k], timer, k, capture[t].at + Linger)
      BY <3>1 DEF Apart, Removable
    <3>3. QED
      BY <1>6, <3>1, <3>2
  <2>2. ASSUME NEW i \in Timers, NEW k \in K, timer'[i].pc \in Deleting, k \in timer'[i].doomed
        PROVE  OutOfUse(now, sent_alert_tracker[k], timer', k, timer'[i].since + Stall)
    <3>1. timer[i].pc \in Deleting /\ k \in timer[i].doomed /\ timer'[i].since = timer[i].since
      BY <1>2, <1>3, <2>2 DEF Continues
    <3>2. OutOfUse(now, sent_alert_tracker[k], timer, k, timer[i].since + Stall)
      BY <3>1 DEF Apart, Removable
    <3>3. QED
      BY <1>6, <3>1, <3>2
  <2>3. QED
    BY <1>1, <2>1, <2>2 DEF Removable
<1>8. QED
  BY <1>4, <1>5, <1>7 DEF Apart
-----------------------------------------------------------------------------
(* Apart, at the steps that are not quiet.                                 *)

\* A finaliser that runs on: it keeps its key and its times.
Onward(i) == /\ timer[i].pc \in Running /\ timer'[i].pc \in Running
             /\ timer'[i].key = timer[i].key /\ timer'[i].due = timer[i].due
             /\ timer'[i].since = timer[i].since
             /\ \A j \in Timers \ {i} : timer'[j] = timer[j]

LEMMA RunningTimer ==
  ASSUME IInv, NEW i \in Timers,
         PassCooldown(i) \/ Scan(i) \/ DeleteExpired(i) \/ Write(i)
  PROVE  Onward(i)
<1>1. CASE PassCooldown(i)
  <2>1. timer[i].pc = "check"
    BY <1>1 DEF PassCooldown
  <2>2. QED
    BY <1>1, <2>1, PassCooldownTimer DEF Onward, Running
<1>2. CASE Scan(i) \/ DeleteExpired(i) \/ Write(i)
  BY <1>2, ScanTimer, DeleteExpiredTimer, WriteTimer DEF Onward, Advances, Passed, Running
<1>3. QED
  BY <1>1, <1>2

\* The actions of this section, by what they do to the timers.
LEMMA NoisyTimers ==
  ASSUME IInv
  PROVE  /\ \A t \in Threads : ReadSentAt(t) \/ ExpireCooldown(t) => UNCHANGED <<timer, now, rows>>
         /\ Tick => UNCHANGED <<timer, sent_alert_tracker, capture, rows>> /\ now' = now + 1
         /\ \A i \in Timers : Fire(i) \/ PassCooldown(i) \/ Scan(i)
                              => UNCHANGED <<now, sent_alert_tracker, capture, rows>>
         /\ \A i \in Timers : DeleteExpired(i) => UNCHANGED <<now, capture, rows>>
         /\ \A i \in Timers : Write(i) => UNCHANGED <<now, sent_alert_tracker, capture>>
         /\ \A i \in Timers : MarkSent(i) => UNCHANGED <<now, capture, rows>>
         /\ \A t \in Threads : Schedule(t) => UNCHANGED <<now, sent_alert_tracker, rows>>
  BY DEF ReadSentAt, ExpireCooldown, Tick, Fire, PassCooldown, Scan, DeleteExpired, Write,
         MarkSent, Schedule

LEMMA OneAtATimeStep ==
  ASSUME NEW K, IInv, OnTime, Timing, Waiting(K), OneAtATime(K),
         \/ \E t \in Threads : ReadSentAt(t) \/ ExpireCooldown(t) \/ Schedule(t)
         \/ \E i \in Timers : \/ Fire(i) \/ PassCooldown(i) \/ Scan(i) \/ DeleteExpired(i)
                              \/ Write(i) \/ MarkSent(i)
         \/ Tick
  PROVE  OneAtATime(K)'
<1>1. /\ now \in Nat /\ Grace \in Nat /\ Stall \in Nat
      /\ \A j \in Timers : timer[j].due \in Nat /\ timer[j].since \in Nat
  BY Numbers DEF IInv
<1>2. "free" \notin Running /\ "armed" \notin Running
  BY DEF Running
<1>3. ASSUME NEW t \in Threads, Schedule(t) PROVE OneAtATime(K)'
  <2>1. PICK i \in Timers : /\ timer[i].pc = "free" /\ timer'[i].pc = "armed"
                            /\ timer'[i].due = now + Grace
                            /\ \A j \in Timers \ {i} : timer'[j] = timer[j]
    BY <1>3, ScheduleTimer
  <2>2. ASSUME NEW a \in Timers, NEW b \in Timers, a # b, timer'[a].key = timer'[b].key,
               timer'[a].key \in K, timer'[a].pc \in Running, timer'[b].pc # "free"
        PROVE  timer'[b].pc = "armed" /\ timer'[b].due >= timer'[a].since + Grace
    <3>1. a # i /\ timer'[a] = timer[a]
      BY <1>2, <2>1, <2>2
    <3>2. CASE b = i
      <4>1. timer[a].since <= now
        BY <2>2, <3>1 DEF OnTime
      <4>2. QED
        BY <1>1, <2>1, <3>1, <3>2, <4>1
    <3>3. CASE b # i
      BY <2>1, <2>2, <3>1, <3>3 DEF OneAtATime
    <3>4. QED
      BY <3>2, <3>3
  <2>3. QED
    BY <2>2 DEF OneAtATime
<1>4. ASSUME NEW i \in Timers, Fire(i) PROVE OneAtATime(K)'
  <2>1. /\ timer'[i].pc = "fired" /\ timer'[i].since = now /\ timer'[i].key = timer[i].key
        /\ timer[i].pc = "armed" /\ timer[i].due = now
        /\ \A j \in Timers \ {i} : timer'[j] = timer[j]
    <3>1. timer[i].pc = "armed" /\ now >= timer[i].due
      BY <1>4 DEF Fire
    <3>2. now <= timer[i].due
      BY <3>1 DEF OnTime
    <3>3. QED
      BY <1>1, <1>4, <3>1, <3>2, FireTimer
  <2>2. ASSUME NEW j \in Timers \ {i}, timer[j].key = timer[i].key, timer[i].key \in K
        PROVE  timer[j].pc = "free"
    <3>1. timer[j].pc # "armed"
      BY <2>1, <2>2 DEF Waiting
    <3>2. timer[j].pc \notin Running
      <4>1. timer[j].pc \in Running => timer[i].due >= timer[j].since + Grace
        BY <2>1, <2>2 DEF OneAtATime
      <4>2. timer[j].pc \in Running => now <= timer[j].since + Stall
        BY DEF OnTime
      <4>3. QED
        BY <1>1, <2>1, <4>1, <4>2 DEF Timing
    <3>3. QED
      BY <3>1, <3>2, Numbers DEF IInv
  <2>3. ASSUME NEW a \in Timers, NEW b \in Timers, a # b, timer'[a].key = timer'[b].key,
               timer'[a].key \in K, timer'[a].pc \in Running, timer'[b].pc # "free"
        PROVE  timer'[b].pc = "armed" /\ timer'[b].due >= timer'[a].since + Grace
    <3>1. a # i /\ b # i
      BY <1>2, <2>1, <2>2, <2>3
    <3>2. QED
      BY <2>1, <2>3, <3>1 DEF OneAtATime
  <2>4. QED
    BY <2>3 DEF OneAtATime
<1>5. ASSUME NEW i \in Timers, Onward(i) PROVE OneAtATime(K)'
  BY <1>2, <1>5 DEF Onward, OneAtATime
<1>6. ASSUME NEW i \in Timers, MarkSent(i) PROVE OneAtATime(K)'
  BY <1>2, <1>6, MarkSentTimer DEF OneAtATime
<1>7. CASE timer' = timer
  BY <1>7 DEF OneAtATime
<1>8. QED
  BY <1>3, <1>4, <1>5, <1>6, <1>7, RunningTimer, NoisyTimers

\* A contact that passes the cooldown test has no mark on record.
LEMMA PassesUnmarked ==
  ASSUME NEW K, IInv, OnTime, Covers(K), NEW i \in Timers, PassCooldown(i), timer[i].key \in K
  PROVE  sent_alert_tracker[timer[i].key] = NONE
<1>1. timer[i].pc = "check" /\ ~ InCooldown(timer[i].key) /\ timer[i].key \in Keys
  BY DEF PassCooldown, IInv, InHand
<1>2. timer[i].since = timer[i].due /\ now <= timer[i].since + Stall
  BY <1>1 DEF OnTime, Running
<1>3. sent_alert_tracker[timer[i].key] # NONE
      => timer[i].due + Stall < sent_alert_tracker[timer[i].key] + Cooldown
  BY <1>1 DEF Covers, Untested
<1>4. QED
  BY <1>1, <1>2, <1>3, Numbers DEF InCooldown, IInv

LEMMA CoversStep ==
  ASSUME NEW K, IInv, OnTime, Timing, OneAtATime(K), Covers(K),
         \/ \E t \in Threads : ReadSentAt(t) \/ ExpireCooldown(t) \/ Schedule(t)
         \/ \E i \in Timers : \/ Fire(i) \/ PassCooldown(i) \/ Scan(i) \/ DeleteExpired(i)
                              \/ Write(i) \/ MarkSent(i)
         \/ Tick
  PROVE  Covers(K)'
<1>1. /\ now \in Nat /\ Grace \in Nat /\ Stall \in Nat /\ Cooldown \in Nat
      /\ \A j \in Timers : /\ timer[j].due \in Nat /\ timer[j].since \in Nat /\ timer[j].at \in Nat
                           /\ timer[j].pc \in {"free", "armed"} \cup Running
  BY Numbers DEF IInv
<1>2. /\ \A j \in Timers : timer[j].pc # "free" => timer[j].key \in Keys
      /\ sent_alert_tracker \in [Keys -> Maybe(Time)]
  BY DEF IInv, InHand, TypeOK
<1>3. "free" \notin Untested \cup Passed
  BY DEF Untested, Passed
<1>4. ASSUME timer' = timer, NEW k, \/ sent_alert_tracker' = sent_alert_tracker
                                   \/ sent_alert_tracker' = [sent_alert_tracker EXCEPT ![k] = NONE]
      PROVE  Covers(K)'
  BY <1>2, <1>3, <1>4 DEF Covers
<1>5. ASSUME NEW t \in Threads, Schedule(t) PROVE Covers(K)'
  <2>1. PICK i \in Timers : /\ timer'[i].pc = "armed" /\ timer'[i].key = capture[t].key
                            /\ \A j \in Timers \ {i} : timer'[j] = timer[j]
    BY <1>5, ScheduleTimer
  <2>2. sent_alert_tracker[capture[t].key] = NONE /\ sent_alert_tracker' = sent_alert_tracker
    BY <1>5 DEF Schedule
  <2>3. QED
    BY <2>1, <2>2 DEF Covers, Passed
<1>6. ASSUME NEW i \in Timers, Fire(i) PROVE Covers(K)'
  <2>1. /\ timer[i].pc = "armed" /\ timer'[i].pc = "fired"
        /\ timer'[i].key = timer[i].key /\ timer'[i].due = timer[i].due
        /\ \A j \in Timers \ {i} : timer'[j] = timer[j]
        /\ sent_alert_tracker' = sent_alert_tracker
    BY <1>6, FireTimer DEF Fire
  <2>2. QED
    BY <2>1 DEF Covers, Untested, Passed
<1>7. ASSUME NEW i \in Timers, PassCooldown(i) PROVE Covers(K)'
  <2>1. /\ timer'[i].pc = "scan" /\ timer'[i].key = timer[i].key
        /\ \A j \in Timers \ {i} : timer'[j] = timer[j]
        /\ sent_alert_tracker' = sent_alert_tracker
    BY <1>7, PassCooldownTimer DEF PassCooldown
  <2>2. timer[i].key \in K => sent_alert_tracker[timer[i].key] = NONE
    BY <1>7, PassesUnmarked
  <2>3. QED
    BY <2>1, <2>2 DEF Covers, Untested
<1>8. ASSUME NEW i \in Timers, Advances(i), timer[i].pc \in Passed,
             NEW k, \/ sent_alert_tracker' = sent_alert_tracker
                    \/ sent_alert_tracker' = [sent_alert_tracker EXCEPT ![k] = NONE]
      PROVE  Covers(K)'
  <2>1. \A j \in Keys : sent_alert_tracker'[j] \in {sent_alert_tracker[j], NONE}
    BY <1>2, <1>8
  <2>2. timer'[i].pc \notin Untested
    BY <1>8 DEF Advances, Untested, Passed
  <2>3. QED
    BY <1>2, <1>3, <1>8, <2>1, <2>2 DEF Covers, Advances
<1>9. ASSUME NEW i \in Timers, MarkSent(i) PROVE Covers(K)'
  <2>1. /\ timer[i].pc = "mark" /\ timer'[i].pc = "free"
        /\ \A j \in Timers \ {i} : timer'[j] = timer[j]
        /\ sent_alert_tracker' = [sent_alert_tracker EXCEPT ![timer[i].key] = timer[i].at]
        /\ timer[i].key \in Keys
    BY <1>2, <1>9, MarkSentTimer DEF MarkSent
  <2>2. /\ timer[i].since <= timer[i].at /\ now <= timer[i].since + Stall
        /\ timer[i].pc \in Running
    BY <2>1 DEF OnTime, Running, Passed
  <2>3. ASSUME NEW j \in Timers \ {i}, timer[j].key \in K, timer[j].key = timer[i].key,
               timer[j].pc # "free"
        PROVE  timer[j].pc = "armed" /\ timer[j].due + Stall < timer[i].at + Cooldown
    <3>1. timer[j].pc = "armed" /\ timer[j].due <= now + Grace
      BY <2>2, <2>3 DEF OneAtATime, OnTime
    <3>2. QED
      BY <1>1, <2>2, <3>1 DEF Timing
  <2>4. ASSUME NEW j \in Timers, timer'[j].key \in K
        PROVE  LET sent == sent_alert_tracker'[timer'[j].key]
               IN  /\ timer'[j].pc \in Untested /\ sent # NONE
                      => timer'[j].due + Stall < sent + Cooldown
                   /\ timer'[j].pc \in Passed => sent = NONE
    <3>1. CASE j = i \/ timer'[j].pc = "free"
      BY <1>3, <2>1, <3>1
    <3>2. CASE j # i /\ timer[j].key = timer[i].key /\ timer'[j].pc # "free"
      BY <1>2, <2>1, <2>3, <2>4, <3>2 DEF Passed
    <3>3. CASE j # i /\ timer[j].key # timer[i].key /\ timer'[j].pc # "free"
      BY <1>2, <2>1, <2>4, <3>3 DEF Covers
    <3>4. QED
      BY <2>1, <3>1, <3>2, <3>3
  <2>5. QED
    BY <2>4 DEF Covers
<1>10. ASSUME NEW t \in Threads, ReadSentAt(t) \/ ExpireCooldown(t) PROVE Covers(K)'
  BY <1>4, <1>10 DEF ReadSentAt, ExpireCooldown
<1>11. ASSUME NEW i \in Timers, Scan(i) \/ DeleteExpired(i) \/ Write(i) PROVE Covers(K)'
  <2>1. Advances(i) /\ timer[i].pc \in Passed
    BY <1>11, ScanTimer, DeleteExpiredTimer, WriteTimer DEF Passed
  <2>2. \E k : \/ sent_alert_tracker' = sent_alert_tracker
               \/ sent_alert_tracker' = [sent_alert_tracker EXCEPT ![k] = NONE]
    BY <1>11, DeleteExpiredTimer DEF Scan, Write
  <2>3. QED
    BY <1>8, <2>1, <2>2
<1>12. CASE Tick
  BY <1>4, <1>12, NoisyTimers
<1>13. QED
  BY <1>5, <1>6, <1>7, <1>9, <1>10, <1>11, <1>12

\* A contact whose entry has served its time has no timer at all.
LEMMA ServedAlone ==
  ASSUME NEW K, IInv, OnTime, Covers(K), NEW k \in K, k \in Keys,
         sent_alert_tracker[k] # NONE, now - sent_alert_tracker[k] >= Cooldown,
         NEW j \in Timers, timer[j].key = k
  PROVE  timer[j].pc = "free"
<1>1. /\ now \in Nat /\ Stall \in Nat /\ Cooldown \in Nat
      /\ timer[j].due \in Nat /\ timer[j].since \in Nat
      /\ timer[j].pc \in {"free", "armed"} \cup Running
      /\ sent_alert_tracker[k] \in Nat
  BY Numbers DEF IInv
<1>2. /\ timer[j].pc \in Untested => timer[j].due + Stall < sent_alert_tracker[k] + Cooldown
      /\ timer[j].pc \notin Passed
  BY DEF Covers
<1>3. timer[j].pc \in Untested => now <= timer[j].due + Stall
  BY <1>1 DEF OnTime, Untested, Running
<1>4. timer[j].pc \notin Untested
  BY <1>1, <1>2, <1>3
<1>5. QED
  BY <1>1, <1>2, <1>4 DEF Untested, Passed, Running

LEMMA CaptureMoves ==
  ASSUME IInv, NEW t \in Threads
  PROVE  /\ ReadSentAt(t) \/ ExpireCooldown(t) \/ Schedule(t)
            => \A s \in Threads \ {t} : capture'[s] = capture[s]
         /\ ExpireCooldown(t) => capture'[t].pc = "schedule"
         /\ Schedule(t) => capture'[t].pc = "idle"
<1>1. capture \in [Threads -> CaptureState] /\ capture[t] \in CaptureState
  BY DEF IInv, TypeOK
<1>2. ReadSentAt(t) \/ ExpireCooldown(t) \/ Schedule(t)
      => \A s \in Threads \ {t} : capture'[s] = capture[s]
  BY <1>1 DEF ReadSentAt, ExpireCooldown, Schedule
<1>3. ExpireCooldown(t) => capture'[t].pc = "schedule"
  BY <1>1 DEF ExpireCooldown, CaptureState
<1>4. Schedule(t) => capture'[t].pc = "idle"
  BY <1>1 DEF Schedule, IdleThread
<1>5. QED
  BY <1>2, <1>3, <1>4

LEMMA RemovableStep ==
  ASSUME NEW K, IInv, OnTime, Timing, Covers(K), Removable(K),
         \/ \E t \in Threads : ReadSentAt(t) \/ ExpireCooldown(t) \/ Schedule(t)
         \/ \E i \in Timers : \/ Fire(i) \/ PassCooldown(i) \/ Scan(i) \/ DeleteExpired(i)
                              \/ Write(i) \/ MarkSent(i)
         \/ Tick
  PROVE  Removable(K)'
<1>1. /\ now \in Nat /\ Grace \in Nat /\ Stall \in Nat /\ Cooldown \in Nat /\ Linger \in Nat
      /\ \A j \in Timers : /\ timer[j].due \in Nat /\ timer[j].since \in Nat /\ timer[j].at \in Nat
                           /\ timer[j].pc \in {"free", "armed"} \cup Running
      /\ \A t \in Threads : capture[t].at \in Nat
      /\ \A k \in Keys : sent_alert_tracker[k] # NONE => sent_alert_tracker[k] \in Nat
  BY Numbers DEF IInv
<1>2. /\ \A j \in Timers : timer[j].pc # "free" => timer[j].key \in Keys
      /\ \A j \in Timers : timer[j].doomed \subseteq Keys
      /\ \A t \in Threads : capture[t].pc = "expire" => capture[t].key \in Keys
      /\ sent_alert_tracker \in [Keys -> Maybe(Time)]
      /\ capture \in [Threads -> CaptureState]
  BY DEF IInv, InHand, TypeOK, TimerState
<1>3. /\ Deleting \subseteq Passed /\ Passed \subseteq Running
      /\ "armed" \notin Running /\ "free" \notin Running /\ "mark" \notin Deleting
  BY DEF Running, Passed, Deleting
\* What survives: the entries and timers OutOfUse speaks of only get older or go.
<1>4. ASSUME NEW k \in Keys, NEW until \in Nat, until < now + Grace,
             OutOfUse(now, sent_alert_tracker[k], timer, k, until),
             now <= until
      PROVE  OutOfUse(now', sent_alert_tracker'[k], timer', k, until)
  <2>1. \A j \in Timers : timer[j].key = k => timer[j].pc \in {"free", "armed"}
    BY <1>4 DEF OutOfUse
  <2>2. ASSUME NEW t \in Threads, Schedule(t)
        PROVE  OutOfUse(now', sent_alert_tracker'[k], timer', k, until)
    <3>1. PICK i \in Timers : /\ timer'[i].pc = "armed" /\ timer'[i].due = now + Grace
                              /\ \A j \in Timers \ {i} : timer'[j] = timer[j]
      BY <2>2, ScheduleTimer
    <3>2. UNCHANGED <<now, sent_alert_tracker>>
      BY <2>2 DEF Schedule
    <3>3. QED
      BY <1>1, <1>4, <3>1, <3>2 DEF OutOfUse
  <2>3. ASSUME NEW t \in Threads, ReadSentAt(t) \/ ExpireCooldown(t)
        PROVE  OutOfUse(now', sent_alert_tracker'[k], timer', k, until)
    <3>1. UNCHANGED <<now, timer>> /\ sent_alert_tracker'[k] \in {sent_alert_tracker[k], NONE}
      BY <1>2, <2>3 DEF ReadSentAt, ExpireCooldown
    <3>2. QED
      BY <1>4, <3>1 DEF OutOfUse
  <2>4. ASSUME NEW i \in Timers, Fire(i)
        PROVE  OutOfUse(now', sent_alert_tracker'[k], timer', k, until)
    <3>1. timer[i].key # k
      <4>1. timer[i].pc = "armed" /\ now >= timer[i].due
        BY <2>4 DEF Fire
      <4>2. timer[i].key = k => timer[i].due > until
        BY <1>4, <4>1 DEF OutOfUse
      <4>3. QED
        BY <1>1, <1>4, <4>1, <4>2
    <3>2. /\ timer'[i].key = timer[i].key /\ \A j \in Timers \ {i} : timer'[j] = timer[j]
          /\ UNCHANGED <<now, sent_alert_tracker>>
      BY <2>4, FireTimer DEF Fire
    <3>3. QED
      BY <1>4, <3>1, <3>2 DEF OutOfUse
  <2>5. ASSUME NEW i \in Timers, PassCooldown(i) \/ Scan(i) \/ DeleteExpired(i) \/ Write(i)
        PROVE  OutOfUse(now', sent_alert_tracker'[k], timer', k, until)
    <3>1. Onward(i)
      BY <2>5, RunningTimer
    <3>2. now' = now /\ sent_alert_tracker'[k] \in {sent_alert_tracker[k], NONE}
      BY <1>2, <2>5, DeleteExpiredTimer DEF PassCooldown, Scan, DeleteExpired, Write
    <3>3. timer[i].key # k
      BY <1>3, <2>1, <3>1 DEF Onward
    <3>4. QED
      BY <1>4, <3>1, <3>2, <3>3 DEF OutOfUse, Onward
  <2>6. ASSUME NEW i \in Timers, MarkSent(i)
        PROVE  OutOfUse(now', sent_alert_tracker'[k], timer', k, until)
    <3>1. /\ timer[i].pc = "mark" /\ timer'[i].pc = "free"
          /\ \A j \in Timers \ {i} : timer'[j] = timer[j]
      BY <2>6, MarkSentTimer
    <3>2. timer[i].key # k
      BY <2>1, <3>1
    <3>3. now' = now /\ sent_alert_tracker'[k] = sent_alert_tracker[k]
      BY <1>2, <2>6, <3>2 DEF MarkSent
    <3>4. QED
      BY <1>4, <3>1, <3>3 DEF OutOfUse
  <2>7. CASE Tick
    <3>1. now' = now + 1 /\ UNCHANGED <<timer, sent_alert_tracker>>
      BY <2>7 DEF Tick
    <3>2. QED
      BY <1>1, <1>4, <3>1 DEF OutOfUse
  <2>8. QED
    BY <2>2, <2>3, <2>4, <2>5, <2>6, <2>7
\* The capture threads: only a read of an entry that has served its time begins a removal.
<1>5. ASSUME NEW t \in Threads, NEW k \in K, capture'[t].pc = "expire", capture'[t].key = k
      PROVE  OutOfUse(now', sent_alert_tracker'[k], timer', k, capture'[t].at + Linger)
  <2>1. CASE capture'[t] = capture[t]
    <3>1. /\ k \in Keys /\ OutOfUse(now, sent_alert_tracker[k], timer, k, capture[t].at + Linger)
      BY <1>2, <1>5, <2>1 DEF Removable
    <3>2. capture[t].at <= now /\ now <= capture[t].at + Linger
      BY <1>5, <2>1 DEF OnTime
    <3>3. capture[t].at + Linger \in Nat /\ capture[t].at + Linger < now + Grace
      BY <1>1, <3>2 DEF Timing
    <3>4. QED
      BY <1>4, <2>1, <3>1, <3>2, <3>3
  <2>2. CASE capture'[t] # capture[t]
    <3>1. PICK s \in Threads : ReadSentAt(s) \/ ExpireCooldown(s) \/ Schedule(s)
      BY <2>2, NoisyTimers
    <3>2. s = t /\ ReadSentAt(t)
      BY <1>5, <2>2, <3>1, CaptureMoves
    <3>3. /\ capture[t].pc = "lookup" /\ capture'[t].key = capture[t].key
          /\ sent_alert_tracker[k] # NONE /\ now - sent_alert_tracker[k] >= Cooldown
      <4> DEFINE expired == sent_alert_tracker[capture[t].key] # NONE
                            /\ now - sent_alert_tracker[capture[t].key] >= Cooldown
                 next == IF expired THEN "expire" ELSE "schedule"
      <4>1. capture' = [capture EXCEPT ![t].pc = next] /\ capture[t].pc = "lookup"
        BY <3>2 DEF ReadSentAt
      <4>2. next = "expire" => expired
        OBVIOUS
      <4> HIDE DEF expired, next
      <4>3. capture'[t].pc = next /\ capture'[t].key = capture[t].key
        BY <1>2, <4>1 DEF CaptureState
      <4>4. expired
        BY <1>5, <4>2, <4>3
      <4>5. QED
        BY <1>5, <4>1, <4>3, <4>4 DEF expired
    <3>4. k \in Keys
      BY <1>5, <3>3 DEF IInv, InHand
    <3>5. \A j \in Timers : timer[j].key = k => timer[j].pc = "free"
      BY <3>3, <3>4, ServedAlone
    <3>6. UNCHANGED <<now, timer, sent_alert_tracker>>
      BY <3>2 DEF ReadSentAt
    <3>7. QED
      BY <3>3, <3>5, <3>6 DEF OutOfUse
  <2>3. QED
    BY <2>1, <2>2
\* The finalisers: only a scan draws up a list.
<1>6. ASSUME NEW i \in Timers, NEW k \in K, timer'[i].pc \in Deleting, k \in timer'[i].doomed
      PROVE  OutOfUse(now', sent_alert_tracker'[k], timer', k, timer'[i].since + Stall)
  <2>1. CASE timer[i].pc \in Deleting /\ k \in timer[i].doomed /\ timer'[i].since = timer[i].since
    <3>1. k \in Keys /\ OutOfUse(now, sent_alert_tracker[k], timer, k, timer[i].since + Stall)
      BY <1>2, <2>1 DEF Removable
    <3>2. timer[i].since <= now /\ now <= timer[i].since + Stall
      BY <1>3, <2>1 DEF OnTime
    <3>3. timer[i].since + Stall \in Nat /\ timer[i].since + Stall < now + Grace
      BY <1>1, <3>2 DEF Timing
    <3>4. QED
      BY <1>4, <2>1, <3>1, <3>2, <3>3
  <2>2. CASE Scan(i)
    <3>1. /\ timer[i].pc = "scan" /\ timer'[i].doomed = Expired(timer[i].at) /\ Advances(i)
          /\ UNCHANGED <<now, sent_alert_tracker>>
      BY <2>2, ScanTimer, NoisyTimers
    <3>2. timer[i].at <= now
      BY <3>1 DEF OnTime, Passed
    <3>3. k \in Keys /\ sent_alert_tracker[k] # NONE /\ timer[i].at - sent_alert_tracker[k] >= Cooldown
      BY <1>6, <3>1 DEF Expired
    <3>4. now - sent_alert_tracker[k] >= Cooldown
      BY <1>1, <3>2, <3>3
    <3>5. \A j \in Timers : timer[j].key = k => timer[j].pc = "free"
      BY <3>3, <3>4, ServedAlone
    <3>6. ASSUME NEW j \in Timers, timer'[j].key = k, timer'[j].pc # "free" PROVE FALSE
      <4>1. CASE j = i
        BY <3>1, <3>5, <3>6, <4>1 DEF Advances
      <4>2. CASE j # i
        BY <3>1, <3>5, <3>6, <4>2 DEF Advances
      <4>3. QED
        BY <4>1, <4>2
    <3>7. QED
      BY <3>1, <3>4, <3>6 DEF OutOfUse
  <2>3. CASE DeleteExpired(i)
    BY <1>6, <2>1, <2>3, DeleteExpiredTimer DEF Advances, Deleting
  <2>4. CASE timer'[i] = timer[i]
    BY <1>6, <2>1, <2>4
  <2>5. CASE timer'[i] # timer[i] /\ ~ Scan(i) /\ ~ DeleteExpired(i)
    <3>1. timer'[i].pc \notin Deleting
      <4>1. ASSUME NEW j \in Timers, \/ Fire(j) \/ PassCooldown(j) \/ Write(j) \/ MarkSent(j)
                                     \/ Scan(j) \/ DeleteExpired(j)
            PROVE  timer'[i].pc \notin Deleting
        <5>1. i = j
          BY <2>5, <4>1, FireTimer, MarkSentTimer, RunningTimer DEF Onward
        <5>2. QED
          BY <2>5, <4>1, <5>1, FireTimer, MarkSentTimer, PassCooldownTimer, WriteTimer DEF Deleting
      <4>2. ASSUME NEW t \in Threads, Schedule(t) PROVE timer'[i].pc \notin Deleting
        BY <2>5, <4>2, ScheduleTimer DEF Deleting
      <4>3. QED
        BY <2>5, <4>1, <4>2, NoisyTimers
    <3>2. QED
      BY <1>6, <3>1
  <2>6. QED
    BY <2>2, <2>3, <2>4, <2>5
<1>7. QED
  BY <1>5, <1>6 DEF Removable

LEMMA StepApart ==
  ASSUME NEW K, IInv, OnTime, Timing, Waiting(K), Apart(K), [Next]_vars
  PROVE  Apart(K)'
<1> DEFINE Noisy == \/ \E t \in Threads : ReadSentAt(t) \/ ExpireCooldown(t) \/ Schedule(t)
                    \/ \E i \in Timers : \/ Fire(i) \/ PassCooldown(i) \/ Scan(i)
                                         \/ DeleteExpired(i) \/ Write(i) \/ MarkSent(i)
                    \/ Tick
<1>1. Quiet \/ Noisy
  BY QuietSteps DEF Next, Register, Finalise, Horizon
<1>2. CASE Quiet
  BY <1>2, QuietApart
<1>3. CASE Noisy
  <2>1. OneAtATime(K)'
    BY <1>3, OneAtATimeStep DEF Apart
  <2>2. Covers(K)'
    BY <1>3, CoversStep DEF Apart
  <2>3. Removable(K)'
    BY <1>3, RemovableStep DEF Apart
  <2>4. QED
    BY <2>1, <2>2, <2>3 DEF Apart
<1>4. QED
  BY <1>1, <1>2, <1>3

\* Every thread is where its clock says: a timer waits until it is due, a finaliser that runs
\* is no older than Stall and a capture thread no older than Linger.
THEOREM Punctual == Spec => []OnTime
<1>1. IInv /\ OnTime /\ [Next]_vars => (IInv /\ OnTime)'
  BY StepIInv, StepOnTime
<1>2. QED
  BY <1>1, InitIInv, InitOnTime, PTL DEF Spec

-----------------------------------------------------------------------------
(* Identities: what an address has been heard to say.                      *)

Says(m) == {f.id : f \in {g \in Frames : g.mac = m}} \ {NONE}

\* No address and no UAS ID are the same, and no address is heard to say two IDs.
SingleIdentity ==
  /\ Macs \cap Uas = {}
  /\ \A f, g \in Frames : f.mac = g.mac /\ NONE \notin {f.id, g.id} => f.id = g.id

\* A dictionary with an ID is filed under that ID, and an address is mapped to an ID
\* it has said.
Identified ==
  /\ \A k \in Keys : drone_state[k] # NONE => drone_state[k].id \in {NONE, k}
  /\ \A m \in Macs : transport_mac_to_key[m] \in Says(m) \cup {NONE}

LEMMA MergedId ==
  ASSUME IInv, Identified, NEW t \in Threads, capture[t].pc = "merge"
  PROVE  LET m == capture[t].frame.mac
             k == resolve_state_key(m)
             u == Merged(t).id
         IN  /\ m \in Macs /\ k \in Keys /\ Merged(t) \in Telemetry
             /\ k = m \/ k \in Says(m)
             /\ u \notin {NONE, k} => u \in Says(m)
<1> DEFINE f == capture[t].frame
           m == f.mac
           k == resolve_state_key(m)
           old == OrElse(drone_state[k], Blank)
<1>1. f \in Frames /\ TypeOK
  BY DEF IInv, InHand
<1>2. f \in Frame /\ m \in Macs /\ k \in Keys /\ Merged(t) \in Telemetry
  BY <1>1, MergedType, ResolveType, ContactsAssumption DEF Frame
<1>3. k = m \/ k \in Says(m)
  BY <1>2 DEF resolve_state_key, OrElse, Identified
<1>4. Merged(t).id = IF f.id = NONE THEN old.id ELSE f.id
  BY DEF Merged, Update, Decoded
<1>5. old.id \in {NONE, k}
  BY <1>2 DEF Identified, OrElse, Blank
<1>6. f.id # NONE => f.id \in Says(m)
  BY <1>1 DEF Says
<1>7. QED
  BY <1>2, <1>3, <1>4, <1>5, <1>6

LEMMA MergeInPlaceIdentified ==
  ASSUME IInv, Identified, NEW t \in Threads, MergeInPlace(t) PROVE Identified'
<1> DEFINE k == resolve_state_key(capture[t].frame.mac)
<1>1. k \in Keys /\ Merged(t).id \in {NONE, k}
  BY MergedId DEF MergeInPlace
<1>2. /\ drone_state' = [drone_state EXCEPT ![k] = Merged(t)]
      /\ transport_mac_to_key' = transport_mac_to_key
  BY DEF MergeInPlace
<1> HIDE DEF k
<1>3. QED
  BY <1>1, <1>2 DEF Identified, IInv, TypeOK

LEMMA MergeRekeyIdentified ==
  ASSUME IInv, Identified, NEW t \in Threads, MergeRekey(t) PROVE Identified'
<1> DEFINE m == capture[t].frame.mac
           k == resolve_state_key(m)
           u == Merged(t).id
           target == Update(OrElse(drone_state[u], Blank), Merged(t))
<1>1. /\ m \in Macs /\ k \in Keys /\ u \in Says(m) /\ u # NONE /\ u \in Keys
  BY MergedId DEF MergeRekey, Telemetry, Maybe, Keys
<1>2. /\ drone_state' = [drone_state EXCEPT ![k] = NONE, ![u] = target]
      /\ transport_mac_to_key' = [transport_mac_to_key EXCEPT ![m] = u]
  BY DEF MergeRekey
<1>3. target.id = u
  BY <1>1 DEF Update
<1> HIDE DEF m, k, u, target
<1>4. QED
  BY <1>1, <1>2, <1>3 DEF Identified, IInv, TypeOK

LEMMA StepIdentified == ASSUME IInv, Identified, [Next]_vars PROVE Identified'
<1>1. CASE UNCHANGED <<drone_state, transport_mac_to_key>>
  BY <1>1 DEF Identified
<1>2. ASSUME NEW i \in Timers, DropState(i) PROVE Identified'
  BY <1>2 DEF Identified, DropState, IInv, TypeOK
<1>3. ASSUME NEW i \in Timers, DropRest(i) PROVE Identified'
  BY <1>3 DEF Identified, DropRest, DropFirstSeen, DropPosition, DropMacs, DropMapping, IInv, TypeOK
<1>4. ASSUME NEW t \in Threads, Hear(t) \/ Register(t) PROVE Identified'
  BY <1>1, <1>4, MergeInPlaceIdentified, MergeRekeyIdentified
     DEF Register, Hear, ReadSentAt, ExpireCooldown, Covered, Schedule, contact
<1>5. ASSUME NEW i \in Timers, Finalise(i) PROVE Identified'
  BY <1>1, <1>2, <1>3, <1>5
     DEF Finalise, Fire, Finalize, IdentityDecoded, IdentityRemembered, RememberRaises,
         IdentityInferred, Suppress, CheckRaises, PassCooldown, Scan, ScanRaises, DeleteExpired, DeleteRaises,
         Write, WriteRaises, MarkSent, Die, contact
<1>6. CASE Tick \/ Horizon \/ UNCHANGED vars
  BY <1>1, <1>6 DEF Tick, Horizon, vars, contact
<1>7. QED
  BY <1>4, <1>5, <1>6 DEF Next

\* Whatever is re-keyed, merged, orphaned and cleaned up, a dictionary that carries a
\* UAS ID is filed under it, and an address leads only to an ID it was heard to say.
THEOREM FiledUnderItsId == Spec => []Identified
<1>1. Init => Identified
  BY DEF Init, Identified
<1>2. QED
  BY <1>1, StepIdentified, Inductive, PTL DEF Spec

\* Then only an address is ever re-keyed, never an ID.
LEMMA OnlyAddressesRekeyed ==
  ASSUME SingleIdentity, IInv, Identified, NEW t \in Threads, MergeRekey(t)
  PROVE  LET m == capture[t].frame.mac
         IN  /\ m \in Macs /\ m \notin Uas /\ Merged(t).id \in Uas
             /\ resolve_state_key(m) = m
<1> DEFINE m == capture[t].frame.mac
           k == resolve_state_key(m)
           u == Merged(t).id
<1>1. /\ m \in Macs /\ Merged(t) \in Telemetry /\ u \in Says(m) /\ (k = m \/ k \in Says(m)) /\ u # k
  BY MergedId DEF MergeRekey
<1>2. \A a, b \in Says(m) : a = b
  BY DEF Says, SingleIdentity
<1>3. u # NONE /\ u \in Uas
  BY <1>1 DEF MergeRekey, Telemetry, Maybe
<1>4. QED
  BY <1>1, <1>2, <1>3 DEF SingleIdentity

Registered(K) ==
  \A i \in Timers : timer[i].pc \in {"armed", "fired"} /\ timer[i].key \in K
                    => pending_alert_timers[timer[i].key] = i

LEMMA StepRegistered ==
  ASSUME SingleIdentity, IInv, Identified, Registered(Uas), [Next]_vars
  PROVE  Registered(Uas)'
<1>1. \A i \in Timers : timer[i].pc # "free" => timer[i].key \in Keys
  BY DEF IInv, InHand
<1>2. pending_alert_timers \in [Keys -> Maybe(Timers)]
  BY DEF IInv, TypeOK
<1>3. ASSUME NEW t \in Threads, MergeRekey(t) PROVE Registered(Uas)'
  <2> DEFINE m == capture[t].frame.mac
  <2>1. m \in Macs /\ m \notin Uas /\ resolve_state_key(m) = m
    BY <1>3, OnlyAddressesRekeyed
  <2>2. pending_alert_timers' = [pending_alert_timers EXCEPT ![m] = NONE]
    BY <1>3, <2>1 DEF MergeRekey, Unregistered
  <2>3. \A j \in Timers : timer'[j].pc # "free" => timer'[j].pc = timer[j].pc
                                                   /\ timer'[j].key = timer[j].key
    BY <1>3, MergeRekeyTimers DEF SamePace, FreeTimer
  <2> HIDE DEF m
  <2>4. QED
    BY <1>1, <1>2, <2>1, <2>2, <2>3 DEF Registered
<1>4. ASSUME NEW t \in Threads, MergeInPlace(t) PROVE Registered(Uas)'
  <2>1. pending_alert_timers' = pending_alert_timers
    BY <1>4 DEF MergeInPlace
  <2>2. \A j \in Timers : SamePace(timer'[j], timer[j])
    BY <1>4, MacsPace DEF MergeInPlace, IInv, TypeOK
  <2>3. QED
    BY <2>1, <2>2 DEF Registered, SamePace
<1>5. ASSUME NEW t \in Threads, Schedule(t) PROVE Registered(Uas)'
  <2>1. PICK i \in Timers :
          /\ timer[i].pc = "free" /\ timer'[i].pc = "armed" /\ timer'[i].key = capture[t].key
          /\ \A j \in Timers \ {i} : timer'[j] = timer[j]
          /\ pending_alert_timers' = [pending_alert_timers EXCEPT ![capture[t].key] = i]
    BY <1>5, ScheduleTimer
  <2>2. pending_alert_timers[capture[t].key] = NONE /\ capture[t].key \in Keys
    BY <1>5 DEF Schedule, IInv, InHand
  <2>3. NONE \notin Timers
    BY ContactsAssumption
  <2>4. QED
    BY <1>1, <1>2, <2>1, <2>2, <2>3 DEF Registered
<1>6. ASSUME NEW i \in Timers, Fire(i) PROVE Registered(Uas)'
  BY <1>6, FireTimer DEF Fire, Registered
<1>7. ASSUME NEW i \in Timers, Finalize(i) PROVE Registered(Uas)'
  <2>1. /\ timer[i].pc = "fired" /\ timer[i].key \in Keys
        /\ pending_alert_timers' = [pending_alert_timers EXCEPT ![timer[i].key] = NONE]
    BY <1>1, <1>7 DEF Finalize
  <2> DEFINE r == IF drone_state[timer[i].key] = NONE THEN FreeTimer
                  ELSE [timer[i] EXCEPT !.pc = "identify", !.live = TRUE]
  <2>2. timer' = [timer EXCEPT ![i] = r] /\ r.pc \in {"free", "identify"}
    BY <1>7 DEF Finalize, IInv, TypeOK, TimerState, FreeTimer
  <2> HIDE DEF r
  <2>3. timer'[i] = r /\ \A j \in Timers \ {i} : timer'[j] = timer[j]
    BY <2>2, OneTimer DEF IInv
  <2>4. QED
    BY <1>1, <1>2, <2>1, <2>2, <2>3 DEF Registered
<1>8. ASSUME pending_alert_timers' = pending_alert_timers,
             \A j \in Timers : \/ timer'[j].pc \notin {"armed", "fired"}
                               \/ timer'[j].pc = timer[j].pc /\ timer'[j].key = timer[j].key
      PROVE  Registered(Uas)'
  BY <1>8 DEF Registered
<1>9. ASSUME NEW t \in Threads, Hear(t) \/ Register(t) PROVE Registered(Uas)'
  BY <1>3, <1>4, <1>5, <1>8, <1>9 DEF Register, Hear, ReadSentAt, ExpireCooldown, Covered
<1>10. ASSUME NEW i \in Timers, Finalise(i) PROVE Registered(Uas)'
  <2>1. CASE Fire(i) \/ Finalize(i)
    BY <1>6, <1>7, <2>1
  <2>2. CASE ~ (Fire(i) \/ Finalize(i))
    <3>1. pending_alert_timers' = pending_alert_timers
      BY <1>10, <2>2
         DEF Finalise, IdentityDecoded, IdentityRemembered, RememberRaises, IdentityInferred,
             Suppress, CheckRaises, PassCooldown, Scan, ScanRaises, DeleteExpired, DeleteRaises, DropState,
             DropRest, DropFirstSeen, DropPosition, DropMacs, DropMapping,
             Write, WriteRaises, MarkSent, Die
    <3>2. CASE Quiet
      BY <1>8, <3>1, <3>2 DEF Quiet, Continues
    <3>3. CASE PassCooldown(i) \/ Scan(i) \/ DeleteExpired(i) \/ Write(i)
      <4>1. timer'[i].pc \in Passed /\ \A j \in Timers \ {i} : timer'[j] = timer[j]
        BY <3>3, PassCooldownTimer, ScanTimer, DeleteExpiredTimer, WriteTimer DEF Advances, Passed
      <4>2. QED
        BY <1>8, <3>1, <4>1 DEF Passed
    <3>4. CASE MarkSent(i)
      BY <1>8, <3>1, <3>4, MarkSentTimer
    <3>5. QED
      BY <1>10, <2>2, <3>2, <3>3, <3>4, QuietSteps DEF Finalise
  <2>3. QED
    BY <2>1, <2>2
<1>11. CASE Tick \/ Horizon \/ UNCHANGED vars
  BY <1>8, <1>11 DEF Tick, Horizon, vars
<1>12. QED
  BY <1>9, <1>10, <1>11 DEF Next

\* The timer that waits or has just fired for an ID is the one registered for that ID: no
\* re-key takes it away, and no finaliser but its own.
THEOREM IdTimersRegistered == SingleIdentity => (Spec => []Registered(Uas))
<1> SUFFICES ASSUME SingleIdentity PROVE Spec => []Registered(Uas)
  OBVIOUS
<1>1. Init => Registered(Uas)
  BY DEF Init, Registered, FreeTimer
<1>2. IInv /\ Identified /\ Registered(Uas) /\ [Next]_vars => Registered(Uas)'
  BY StepRegistered
<1>3. QED
  BY <1>1, <1>2, Inductive, FiledUnderItsId, PTL DEF Spec

-----------------------------------------------------------------------------
(* A capture thread and the cooldown it read.                              *)

\* An entry a capture thread finds, once it has looked, covered the frame it carries.
Suppressible ==
  \A t \in Threads :
    capture[t].pc = "schedule" =>
      LET sent == sent_alert_tracker[capture[t].key]
      IN  sent # NONE => capture[t].at - sent < Cooldown

LEMMA StepSuppressible ==
  ASSUME Stall < Cooldown, IInv, OnTime, Suppressible, [Next]_vars
  PROVE  Suppressible'
<1>1. /\ now \in Nat /\ Stall \in Nat /\ Cooldown \in Nat
      /\ \A j \in Timers : timer[j].since \in Nat /\ timer[j].at \in Nat
      /\ \A t \in Threads : capture[t].at \in Nat
      /\ \A k \in Keys : sent_alert_tracker[k] # NONE => sent_alert_tracker[k] \in Nat
  BY Numbers DEF IInv
<1>2. /\ \A t \in Threads : capture[t].pc \in {"lookup", "expire", "schedule"} => capture[t].key \in Keys
      /\ capture \in [Threads -> CaptureState]
      /\ sent_alert_tracker \in [Keys -> Maybe(Time)]
      /\ \A j \in Timers : timer[j].pc # "free" => timer[j].key \in Keys
  BY DEF IInv, InHand, TypeOK
<1>3. ASSUME \A t \in Threads : capture'[t].pc = "schedule" => capture'[t] = capture[t],
             \A k \in Keys : sent_alert_tracker'[k] \in {sent_alert_tracker[k], NONE}
      PROVE  Suppressible'
  BY <1>2, <1>3 DEF Suppressible
<1>4. ASSUME NEW t \in Threads, Hear(t) PROVE Suppressible'
  BY <1>2, <1>3, <1>4 DEF Hear
<1>5. ASSUME NEW t \in Threads, MergeInPlace(t) \/ MergeRekey(t) PROVE Suppressible'
  <2>1. /\ \E k : capture' = [capture EXCEPT ![t].pc = "lookup", ![t].key = k]
        /\ sent_alert_tracker' = sent_alert_tracker
    BY <1>5 DEF MergeInPlace, MergeRekey, Stamp
  <2>2. \A s \in Threads : capture'[s].pc = "schedule" => capture'[s] = capture[s]
    BY <1>2, <2>1 DEF CaptureState
  <2>3. QED
    BY <1>3, <2>1, <2>2
<1>6. ASSUME NEW t \in Threads, ReadSentAt(t) PROVE Suppressible'
  <2> DEFINE expired == sent_alert_tracker[capture[t].key] # NONE
                        /\ now - sent_alert_tracker[capture[t].key] >= Cooldown
             next == IF expired THEN "expire" ELSE "schedule"
  <2>1. /\ capture' = [capture EXCEPT ![t].pc = next] /\ capture[t].pc = "lookup"
        /\ sent_alert_tracker' = sent_alert_tracker
    BY <1>6 DEF ReadSentAt
  <2>2. next = "schedule" => ~ expired
    OBVIOUS
  <2> HIDE DEF next
  <2>3. /\ capture'[t].pc = next /\ capture'[t].key = capture[t].key /\ capture'[t].at = capture[t].at
        /\ \A s \in Threads \ {t} : capture'[s] = capture[s]
    BY <1>2, <2>1 DEF CaptureState
  <2>4. capture[t].at <= now /\ capture[t].key \in Keys
    BY <1>2, <2>1 DEF OnTime
  <2>5. ~ expired /\ sent_alert_tracker[capture[t].key] # NONE
        => capture[t].at - sent_alert_tracker[capture[t].key] < Cooldown
    BY <1>1, <2>4
  <2> HIDE DEF expired
  <2>6. QED
    BY <2>1, <2>2, <2>3, <2>5 DEF Suppressible
<1>7. ASSUME NEW t \in Threads, ExpireCooldown(t) PROVE Suppressible'
  <2>1. /\ capture[t].pc = "expire" /\ capture[t].key \in Keys
        /\ capture' = [capture EXCEPT ![t].pc = "schedule"]
        /\ sent_alert_tracker' = [sent_alert_tracker EXCEPT ![capture[t].key] = NONE]
    BY <1>2, <1>7 DEF ExpireCooldown
  <2>2. /\ capture'[t].key = capture[t].key
        /\ \A s \in Threads \ {t} : capture'[s] = capture[s]
    BY <1>2, <2>1 DEF CaptureState
  <2>3. /\ sent_alert_tracker'[capture[t].key] = NONE
        /\ \A k \in Keys : sent_alert_tracker'[k] \in {sent_alert_tracker[k], NONE}
    BY <1>2, <2>1
  <2>4. QED
    BY <1>2, <2>2, <2>3 DEF Suppressible
<1>8. ASSUME NEW t \in Threads, Covered(t) \/ Schedule(t) PROVE Suppressible'
  BY <1>2, <1>3, <1>8 DEF Covered, Schedule, IdleThread
<1>9. ASSUME NEW i \in Timers, MarkSent(i) PROVE Suppressible'
  <2>1. /\ timer[i].pc = "mark" /\ timer[i].key \in Keys /\ capture' = capture
        /\ sent_alert_tracker' = [sent_alert_tracker EXCEPT ![timer[i].key] = timer[i].at]
    BY <1>2, <1>9 DEF MarkSent
  <2>2. timer[i].since <= timer[i].at /\ now <= timer[i].since + Stall
    BY <2>1 DEF OnTime, Running, Passed
  <2>3. \A t \in Threads : capture[t].pc = "schedule" => capture[t].at <= now
    BY DEF OnTime
  <2>4. \A t \in Threads : capture[t].pc = "schedule" => capture[t].at - timer[i].at < Cooldown
    BY <1>1, <2>2, <2>3
  <2>5. QED
    BY <1>2, <2>1, <2>4 DEF Suppressible
<1>10. ASSUME NEW i \in Timers, Finalise(i), ~ MarkSent(i) PROVE Suppressible'
  <2>1. capture' = capture
    BY <1>10
       DEF Finalise, Fire, Finalize, IdentityDecoded, IdentityRemembered, RememberRaises,
           IdentityInferred, Suppress, CheckRaises, PassCooldown, Scan, ScanRaises, DeleteExpired, DeleteRaises,
           DropState, DropRest, DropFirstSeen, DropPosition, DropMacs, DropMapping,
           Write, WriteRaises, Die
  <2>2. \/ sent_alert_tracker' = sent_alert_tracker
        \/ DeleteExpired(i)
    BY <1>10
       DEF Finalise, Fire, Finalize, IdentityDecoded, IdentityRemembered, RememberRaises,
           IdentityInferred, Suppress, CheckRaises, PassCooldown, Scan, ScanRaises, DeleteRaises,
           DropState, DropRest, DropFirstSeen, DropPosition, DropMacs, DropMapping,
           Write, WriteRaises, Die
  <2>3. \A k \in Keys : sent_alert_tracker'[k] \in {sent_alert_tracker[k], NONE}
    BY <1>2, <2>2 DEF DeleteExpired
  <2>4. QED
    BY <1>3, <2>1, <2>3
<1>11. CASE Tick \/ Horizon \/ UNCHANGED vars
  BY <1>3, <1>11 DEF Tick, Horizon, vars
<1>12. QED
  BY <1>4, <1>5, <1>6, <1>7, <1>8, <1>9, <1>10, <1>11 DEF Next, Register

LEMMA LeavesByRegistering ==
  ASSUME IInv, [Next]_vars, NEW t \in Threads,
         capture[t].pc = "schedule", capture'[t].pc = "idle"
  PROVE  Covered(t) \/ Schedule(t)
<1>1. capture' # capture /\ capture \in [Threads -> CaptureState]
  BY DEF IInv, TypeOK
<1>2. ~ UNCHANGED vars /\ ~ Tick /\ ~ Horizon
  BY <1>1 DEF vars, Tick, Horizon
<1>3. \A i \in Timers : ~ Finalise(i)
  BY <1>1
     DEF Finalise, Fire, Finalize, IdentityDecoded, IdentityRemembered, RememberRaises,
         IdentityInferred, Suppress, CheckRaises, PassCooldown, Scan, ScanRaises, DeleteExpired, DeleteRaises,
         DropState, DropRest, DropFirstSeen, DropPosition, DropMacs, DropMapping,
         Write, WriteRaises, MarkSent, Die
<1>4. PICK s \in Threads : Hear(s) \/ Register(s)
  BY <1>2, <1>3 DEF Next
<1>5. \A r \in Threads \ {s} : capture'[r] = capture[r]
  BY <1>1, <1>4
     DEF Register, Hear, MergeInPlace, MergeRekey, Stamp, ReadSentAt, ExpireCooldown, Covered, Schedule
<1>6. s = t
  BY <1>5
<1>7. QED
  BY <1>4, <1>6 DEF Register, Hear, MergeInPlace, MergeRekey, ReadSentAt, ExpireCooldown

\* A cooldown that ran out before a frame was heard keeps no one from being logged,
\* whoever marks, reads and removes its entry meanwhile: finalisers need only be done
\* within one cooldown.
THEOREM ExpiredSuppressesNobody == Stall < Cooldown => (Spec => ExpiredNeverSuppresses)
<1> SUFFICES ASSUME Stall < Cooldown PROVE Spec => ExpiredNeverSuppresses
  OBVIOUS
<1> DEFINE Left == \A t \in Threads :
             capture[t].pc = "schedule" /\ capture'[t].pc = "idle" =>
               LET k == capture[t].key
               IN  \/ pending_alert_timers'[k] # NONE
                   \/ capture[t].at - sent_alert_tracker[k] < Cooldown
<1>1. Init => Suppressible
  BY DEF Init, Suppressible, IdleThread
<1>2. IInv /\ OnTime /\ Suppressible /\ [Next]_vars => Suppressible'
  BY StepSuppressible
<1>3. IInv /\ Suppressible /\ [Next]_vars => [Left]_vars
  <2> SUFFICES ASSUME IInv, Suppressible, [Next]_vars, NEW t \in Threads,
                      capture[t].pc = "schedule", capture'[t].pc = "idle"
               PROVE  \/ pending_alert_timers'[capture[t].key] # NONE
                      \/ capture[t].at - sent_alert_tracker[capture[t].key] < Cooldown
    OBVIOUS
  <2>1. /\ capture[t].key \in Keys /\ pending_alert_timers \in [Keys -> Maybe(Timers)]
        /\ NONE \notin Timers
    BY ContactsAssumption DEF IInv, InHand, TypeOK
  <2>2. Covered(t) \/ Schedule(t)
    BY LeavesByRegistering
  <2>3. CASE Covered(t)
    BY <2>3 DEF Covered, Suppressible
  <2>4. CASE Schedule(t)
    <3>1. \E i \in Timers : pending_alert_timers' = [pending_alert_timers EXCEPT ![capture[t].key] = i]
      BY <2>4, ScheduleTimer
    <3>2. QED
      BY <2>1, <3>1
  <2>5. QED
    BY <2>2, <2>3, <2>4
<1>4. QED
  BY <1>1, <1>2, <1>3, Inductive, Punctual, PTL DEF Spec, ExpiredNeverSuppresses

-----------------------------------------------------------------------------
(* A cooldown and the row it stands for.                                   *)

\* Contact k has a row of time at.
Rowed(k, at) == \E n \in DOMAIN rows : rows[n].key = k /\ rows[n].at = at

\* And after the step.
StaysRowed(k, at) == \E n \in DOMAIN rows' : rows'[n].key = k /\ rows'[n].at = at

\* A finaliser about to start a cooldown has written the row it starts it for.
MarksItsRow == \A i \in Timers : timer[i].pc = "mark" => Rowed(timer[i].key, timer[i].at)

LEMMA StepRows ==
  ASSUME IInv, [Next]_vars
  PROVE  \A k, at : Rowed(k, at) => StaysRowed(k, at)
<1>1. ASSUME rows' = rows PROVE \A k, at : Rowed(k, at) => StaysRowed(k, at)
  BY <1>1 DEF Rowed, StaysRowed
<1>2. ASSUME NEW i \in Timers, Write(i) PROVE \A k, at : Rowed(k, at) => StaysRowed(k, at)
  <2>1. /\ DOMAIN rows' = 1..(Len(rows) + 1) /\ DOMAIN rows = 1..Len(rows) /\ Len(rows) \in Nat
        /\ \A n \in DOMAIN rows : rows'[n] = rows[n]
    BY <1>2, WriteTimer
  <2>2. DOMAIN rows \subseteq DOMAIN rows'
    BY <2>1
  <2>3. QED
    BY <2>1, <2>2 DEF Rowed, StaysRowed
<1>3. rows' = rows \/ \E i \in Timers : Write(i)
  <2>1. ASSUME NEW t \in Threads, Hear(t) \/ Register(t) PROVE rows' = rows
    BY <2>1 DEF Register, Hear, MergeInPlace, MergeRekey, ReadSentAt, ExpireCooldown, Covered, Schedule
  <2>2. ASSUME NEW i \in Timers, Finalise(i), ~ Write(i) PROVE rows' = rows
    BY <2>2 DEF Finalise, Fire, Finalize, IdentityDecoded, IdentityRemembered, RememberRaises,
         IdentityInferred, Suppress, CheckRaises, PassCooldown, Scan, ScanRaises, DeleteExpired,
         DeleteRaises, DropState, DropRest, DropFirstSeen, DropPosition, DropMacs, DropMapping,
         WriteRaises, MarkSent, Die
  <2>3. QED
    BY <2>1, <2>2 DEF Next, Tick, Horizon, vars
<1>4. QED
  BY <1>1, <1>2, <1>3

\* A timer is about to start a cooldown because it was, or because it has just written.
LEMMA StepMarks ==
  ASSUME IInv, [Next]_vars, NEW i \in Timers, timer'[i].pc = "mark"
  PROVE  \/ timer[i].pc = "mark" /\ timer'[i].key = timer[i].key /\ timer'[i].at = timer[i].at
         \/ Write(i)
<1> DEFINE Still == timer[i].pc = "mark" /\ timer'[i].key = timer[i].key /\ timer'[i].at = timer[i].at
<1>1. CASE Quiet
  BY <1>1 DEF Quiet, Continues, Passed
<1>2. ASSUME NEW t \in Threads, Hear(t) \/ Register(t), ~ Quiet PROVE Still
  <2>1. CASE Schedule(t)
    BY <2>1, ScheduleTimer
  <2>2. CASE ReadSentAt(t) \/ ExpireCooldown(t)
    BY <2>2 DEF ReadSentAt, ExpireCooldown
  <2>3. QED
    BY <1>2, <2>1, <2>2, QuietSteps DEF Register
<1>3. ASSUME NEW j \in Timers, Finalise(j), ~ Quiet, ~ Write(i) PROVE Still
  <2>1. CASE Fire(j) \/ PassCooldown(j) \/ MarkSent(j)
    BY <2>1, FireTimer, PassCooldownTimer, MarkSentTimer
  <2>2. CASE Scan(j) \/ DeleteExpired(j) \/ Write(j)
    BY <1>3, <2>2, ScanTimer, DeleteExpiredTimer, WriteTimer DEF Advances
  <2>3. QED
    BY <1>3, <2>1, <2>2, QuietSteps DEF Finalise
<1>4. CASE Tick \/ Horizon \/ UNCHANGED vars
  BY <1>4 DEF Tick, Horizon, vars
<1>5. QED
  BY <1>1, <1>2, <1>3, <1>4 DEF Next

\* The cooldowns on record are those there were, but for the ones that went and the one a
\* finaliser starts.
LEMMA StepCooldowns ==
  ASSUME IInv, [Next]_vars, NEW k \in Keys, sent_alert_tracker'[k] # NONE
  PROVE  \/ sent_alert_tracker'[k] = sent_alert_tracker[k]
         \/ \E i \in Timers : /\ timer[i].pc = "mark" /\ timer[i].key = k
                              /\ sent_alert_tracker'[k] = timer[i].at
<1>1. sent_alert_tracker \in [Keys -> Maybe(Time)]
  BY DEF IInv, TypeOK
<1>2. ASSUME NEW t \in Threads, Hear(t) \/ Register(t)
      PROVE  sent_alert_tracker'[k] = sent_alert_tracker[k]
  BY <1>1, <1>2 DEF Register, Hear, MergeInPlace, MergeRekey, ReadSentAt, ExpireCooldown, Covered,
                    Schedule
<1>3. ASSUME NEW i \in Timers, Finalise(i), ~ MarkSent(i), ~ DeleteExpired(i)
      PROVE  sent_alert_tracker' = sent_alert_tracker
  BY <1>3 DEF Finalise, Fire, Finalize, IdentityDecoded, IdentityRemembered, RememberRaises,
       IdentityInferred, Suppress, CheckRaises, PassCooldown, Scan, ScanRaises,
       DeleteRaises, DropState, DropRest, DropFirstSeen, DropPosition, DropMacs, DropMapping,
       Write, WriteRaises, Die
<1>4. ASSUME NEW i \in Timers, DeleteExpired(i)
      PROVE  sent_alert_tracker'[k] = sent_alert_tracker[k]
  BY <1>1, <1>4, DeleteExpiredTimer
<1>5. ASSUME NEW i \in Timers, MarkSent(i)
      PROVE  \/ sent_alert_tracker'[k] = sent_alert_tracker[k]
             \/ /\ timer[i].pc = "mark" /\ timer[i].key = k
                /\ sent_alert_tracker'[k] = timer[i].at
  BY <1>1, <1>5 DEF MarkSent
<1>6. CASE Tick \/ Horizon \/ UNCHANGED vars
  BY <1>6 DEF Tick, Horizon, vars
<1>7. QED
  BY <1>2, <1>3, <1>4, <1>5, <1>6 DEF Next

\* Nobody is suppressed in favour of a row that was never written: whatever failed, stalled,
\* overtook or cleaned up, a cooldown on record is that of a row of the same contact.
THEOREM CooldownsHaveRows == Spec => []CooldownHasItsRow
<1>1. Init => MarksItsRow /\ CooldownHasItsRow
  BY DEF Init, MarksItsRow, CooldownHasItsRow, FreeTimer
<1>2. IInv /\ MarksItsRow /\ CooldownHasItsRow /\ [Next]_vars => (MarksItsRow /\ CooldownHasItsRow)'
  <2> SUFFICES ASSUME IInv, MarksItsRow, CooldownHasItsRow, [Next]_vars
               PROVE  MarksItsRow' /\ CooldownHasItsRow'
    OBVIOUS
  <2>1. ASSUME NEW i \in Timers, timer'[i].pc = "mark"
        PROVE  StaysRowed(timer'[i].key, timer'[i].at)
    <3>1. CASE Write(i)
      <4>1. /\ DOMAIN rows' = 1..(Len(rows) + 1) /\ Len(rows) \in Nat
            /\ timer'[i].key = timer[i].key /\ timer'[i].at = timer[i].at
            /\ rows'[Len(rows) + 1].key = timer[i].key /\ rows'[Len(rows) + 1].at = timer[i].at
        BY <3>1, WriteTimer DEF Advances
      <4>2. Len(rows) + 1 \in DOMAIN rows'
        BY <4>1
      <4>3. QED
        BY <4>1, <4>2 DEF StaysRowed
    <3>2. CASE ~ Write(i)
      <4>1. timer[i].pc = "mark" /\ timer'[i].key = timer[i].key /\ timer'[i].at = timer[i].at
        BY <2>1, <3>2, StepMarks
      <4>2. Rowed(timer[i].key, timer[i].at)
        BY <4>1 DEF MarksItsRow
      <4>3. QED
        BY <4>1, <4>2, StepRows
    <3>3. QED
      BY <3>1, <3>2
  <2>2. ASSUME NEW k \in Keys, sent_alert_tracker'[k] # NONE
        PROVE  StaysRowed(k, sent_alert_tracker'[k])
    <3>1. Rowed(k, sent_alert_tracker'[k])
      BY <2>2, StepCooldowns DEF CooldownHasItsRow, MarksItsRow, Rowed
    <3>2. QED
      BY <3>1, StepRows
  <2>3. QED
    BY <2>1, <2>2 DEF MarksItsRow, CooldownHasItsRow, Rowed, StaysRowed
<1>3. QED
  BY <1>1, <1>2, Inductive, PTL DEF Spec
-----------------------------------------------------------------------------
(* An aircraft alone on one transport: every frame comes from one address,   *)
(* heard by one capture thread.  Then nobody else's finaliser cleans its     *)
(* entry up, and its own never does.  In what follows m is the address, ear  *)
(* the thread, and r the key the contact is filed under: m until the address *)
(* has said its ID, and that ID ever after.                                  *)

AloneOn(ear, m) == \A f \in Frames : f.thread = ear /\ f.mac = m
Alone == \E ear \in Threads, m \in Macs : AloneOn(ear, m)

\* No thread but ear registers detections, and it works on the entry that exists.
OneListener(ear, r) ==
  \A t \in Threads :
    /\ capture[t].pc # "idle" => t = ear
    /\ capture[t].pc \in {"idle", "merge"} => capture[t].key = NONE
    /\ capture[t].pc \in {"lookup", "expire", "schedule"}
       => capture[t].key = r /\ drone_state[r] # NONE

\* Nothing is on record under any key but r, and nothing owed.
OneEntry(r) ==
  \A k \in Keys \ {r} : /\ drone_state[k] = NONE /\ key_to_macs[k] = {}
                        /\ key_to_position_at[k] = NONE
                        /\ k \notin owed

\* Timers and cooldowns are of the address or of its ID.
TwoKeys(m, r) ==
  /\ \A i \in Timers : timer[i].pc # "free" => timer[i].key \in {m, r}
  /\ \A k \in Keys : sent_alert_tracker[k] # NONE => k \in {m, r}

\* A finaliser of the address that is still running after the re-key has ended before the
\* first timer of the ID fires, so before the ID can have a cooldown.
Succession(m, r) ==
  \A i \in Timers :
    r # m /\ timer[i].pc # "free" /\ timer[i].key = m =>
      /\ timer[i].pc \in Running
      /\ sent_alert_tracker[r] = NONE
      /\ \A j \in Timers : timer[j].pc # "free" /\ timer[j].key # m
                           => timer[j].pc = "armed" /\ timer[j].due > timer[i].since + Stall

\* So all that a clean-up can find is the cooldown of the bare address, long re-keyed, and
\* no address is listed under it any more.
CleansAddress(m) ==
  \A i \in Timers :
    /\ timer[i].pc = "delete" => /\ timer[i].key # m /\ timer[i].doomed = {m}
                                 /\ sent_alert_tracker[m] # NONE
    /\ timer[i].pc \in Dropping
       => timer[i].key # m /\ timer[i].victim = m /\ timer[i].doomed = {}
    /\ timer[i].pc # "dropMapping"

\* The set of addresses a finaliser iterates over holds m already: it cannot grow.
Undisturbed(m) ==
  /\ \A k \in Keys : key_to_macs[k] \subseteq {m}
  /\ \A i \in Timers :
       \/ timer[i].macs = "private"
       \/ timer[i].macs = "shared" /\ timer[i].key \in Keys /\ m \in key_to_macs[timer[i].key]

\* A contact that is owed a row has an entry, and somebody at work on it, unless an
\* exception took its finaliser; and only the CSV file raises one.
Promised ==
  /\ \A k \in owed : drone_state[k] # NONE /\ (k \in lost \/ Attended(k))
  /\ CsvFails \/ lost = {}

Lone(ear, m, r) ==
  /\ resolve_state_key(m) = r
  /\ OneListener(ear, r) /\ OneEntry(r) /\ TwoKeys(m, r) /\ Succession(m, r)
  /\ Registered({r}) /\ CleansAddress(m) /\ Undisturbed(m) /\ Promised
  /\ PositionTimeMatches

\* What is already known of every reachable state.
Known == IInv /\ OnTime /\ Identified /\ Apart(Keys)

LEMMA OneRunner ==
  ASSUME NEW m, NEW r, Known, TwoKeys(m, r), Succession(m, r),
         NEW i \in Timers, timer[i].pc \in Running, NEW j \in Timers, timer[j].pc \in Running
  PROVE  i = j
<1>1. "armed" \notin Running /\ "free" \notin Running
  BY DEF Running
<1>2. timer[i].key \in Keys /\ timer[i].key \in {m, r} /\ timer[j].key \in {m, r}
  BY <1>1 DEF Known, IInv, InHand, TwoKeys
<1>3. CASE timer[i].key = timer[j].key
  BY <1>1, <1>2, <1>3 DEF Known, Apart, OneAtATime
<1>4. CASE timer[i].key # timer[j].key
  <2>1. r # m
    BY <1>2, <1>4
  <2>2. CASE timer[i].key = m
    BY <1>1, <1>4, <2>1, <2>2 DEF Succession
  <2>3. CASE timer[j].key = m
    BY <1>1, <1>4, <2>1, <2>3 DEF Succession
  <2>4. QED
    BY <1>2, <1>4, <2>2, <2>3
<1>5. QED
  BY <1>3, <1>4

\* A finaliser that scans has no cooldown of its own, and of the other key only if the
\* contact was re-keyed and this is the finaliser of the ID.
LEMMA ScanFinds ==
  ASSUME NEW m, NEW r, Known, TwoKeys(m, r), Succession(m, r),
         NEW i \in Timers, timer[i].pc \in Passed
  PROVE  /\ timer[i].key \in {m, r}
         /\ sent_alert_tracker[timer[i].key] = NONE
         /\ sent_alert_tracker[r] = NONE
         /\ \A k \in Keys : sent_alert_tracker[k] # NONE => k = m /\ timer[i].key # m
<1>1. Passed \subseteq Running /\ "free" \notin Passed
  BY DEF Passed, Running
<1>2. timer[i].key \in Keys /\ timer[i].key \in {m, r}
  BY <1>1 DEF Known, IInv, InHand, TwoKeys
<1>3. sent_alert_tracker[timer[i].key] = NONE
  BY <1>2 DEF Known, Apart, Covers
<1>4. sent_alert_tracker[r] = NONE
  <2>1. CASE timer[i].key = r
    BY <1>3, <2>1
  <2>2. CASE timer[i].key # r
    BY <1>1, <1>2, <2>2 DEF Succession
  <2>3. QED
    BY <2>1, <2>2
<1>5. QED
  BY <1>2, <1>3, <1>4 DEF TwoKeys

LEMMA NobodyRaises ==
  ASSUME NEW ear, NEW m \in Macs, NEW r \in Keys, Known, Lone(ear, m, r), NEW i \in Timers
  PROVE  ~ RememberRaises(i) /\ ~ CheckRaises(i) /\ ~ ScanRaises(i) /\ ~ DeleteRaises(i)
<1>1. ~ RememberRaises(i)
  BY DEF Lone, Undisturbed, RememberRaises
<1>2. ASSUME CheckRaises(i) PROVE FALSE
  <2>1. timer[i].pc = "check" /\ timer[i].key \in Keys /\ Removing(i, timer[i].key)
    BY <1>2 DEF CheckRaises, Known, IInv, InHand
  <2>2. ASSUME NEW until, OutOfUse(now, sent_alert_tracker[timer[i].key], timer, timer[i].key, until)
        PROVE  FALSE
    BY <2>1, <2>2 DEF OutOfUse
  <2>3. QED
    BY <2>1, <2>2 DEF Removing, Known, Apart, Removable, Deleting
<1>3. ~ DeleteRaises(i)
  BY DEF Lone, CleansAddress, DeleteRaises
<1>4. ASSUME ScanRaises(i) PROVE FALSE
  <2>1. timer[i].pc = "scan" /\ timer[i].pc \in Passed /\ timer[i].pc \in Running
    BY <1>4 DEF ScanRaises, Passed, Running
  <2>2. sent_alert_tracker[r] = NONE
    BY <2>1, ScanFinds DEF Lone
  <2>3. \A t \in Threads : capture[t].pc = "expire" => capture[t].key = r
    BY DEF Lone, OneListener
  <2>4. \A j \in Timers \ {i} : timer[j].pc \notin Running
    BY <2>1, OneRunner DEF Lone
  <2>5. \A j \in Timers \ {i} : timer[j].pc \notin {"mark", "delete"}
    BY <2>4 DEF Running
  <2>6. ~ TrackerResizing(i)
    BY <2>2, <2>3, <2>5 DEF TrackerResizing
  <2>7. QED
    BY <1>4, <2>6 DEF ScanRaises
<1>5. QED
  BY <1>1, <1>3, <1>4, <1>2

\* What is on file.
Files == <<drone_state, key_to_macs, key_to_position_at, transport_mac_to_key>>

\* A clean-up takes nothing from the files: the address has none of its own.
LEMMA CleanUpSpares ==
  ASSUME NEW ear, NEW m \in Macs, NEW r \in Keys, Known, Lone(ear, m, r),
         NEW i \in Timers, DropState(i) \/ DropRest(i)
  PROVE  UNCHANGED Files
<1>1. /\ timer[i].pc \in Dropping /\ timer[i].pc # "free"
      /\ timer[i].victim = m /\ timer[i].key # m
  BY DEF Lone, CleansAddress, DropState, DropRest, DropFirstSeen, DropPosition, DropMacs, DropMapping
<1>2. m \in Keys \ {r}
  BY <1>1 DEF Lone, TwoKeys, Keys
<1>3. /\ drone_state \in [Keys -> Maybe(Telemetry)] /\ key_to_macs \in [Keys -> SUBSET Macs]
      /\ key_to_position_at \in [Keys -> Maybe(Time)]
  BY DEF Known, IInv, TypeOK
<1>4. drone_state[m] = NONE /\ key_to_macs[m] = {} /\ key_to_position_at[m] = NONE
  BY <1>2 DEF Lone, OneEntry
<1>5. CASE DropState(i)
  <2>1. drone_state' = [drone_state EXCEPT ![m] = NONE]
        /\ UNCHANGED <<key_to_macs, key_to_position_at, transport_mac_to_key>>
    BY <1>1, <1>5 DEF DropState
  <2>2. drone_state' = drone_state
    BY <1>2, <1>3, <1>4, <2>1
  <2>3. QED
    BY <2>1, <2>2 DEF Files
<1>6. CASE DropFirstSeen(i)
  BY <1>6 DEF DropFirstSeen, Files
<1>7. CASE DropPosition(i)
  <2>1. key_to_position_at' = [key_to_position_at EXCEPT ![m] = NONE]
        /\ UNCHANGED <<drone_state, key_to_macs, transport_mac_to_key>>
    BY <1>1, <1>7 DEF DropPosition
  <2>2. key_to_position_at' = key_to_position_at
    BY <1>2, <1>3, <1>4, <2>1
  <2>3. QED
    BY <2>1, <2>2 DEF Files
<1>8. CASE DropMacs(i)
  <2>1. key_to_macs' = [key_to_macs EXCEPT ![m] = {}]
        /\ UNCHANGED <<drone_state, key_to_position_at, transport_mac_to_key>>
    BY <1>1, <1>8 DEF DropMacs
  <2>2. key_to_macs' = key_to_macs
    BY <1>2, <1>3, <1>4, <2>1
  <2>3. QED
    BY <2>1, <2>2 DEF Files
<1>9. ~ DropMapping(i)
  BY DEF DropMapping, Lone, CleansAddress
<1>10. QED
  BY <1>5, <1>6, <1>7, <1>8, <1>9 DEF DropRest

\* Nor does it touch a finaliser but its own, which it takes to the row in the end.
CleansOn(i, m) ==
  /\ timer[i].pc \in Dropping
  /\ SameTask(timer'[i], timer[i]) /\ timer'[i].macs = timer[i].macs
  /\ \A j \in Timers \ {i} : timer'[j] = timer[j]
  /\ \/ timer'[i].pc \in Dropping \ {"dropMapping"} /\ timer'[i].victim = m
     \/ timer'[i].pc = "write"

LEMMA CleanUpTimers ==
  ASSUME NEW ear, NEW m \in Macs, NEW r \in Keys, Known, Lone(ear, m, r), NEW i \in Timers,
         DropState(i) \/ DropRest(i)
  PROVE  CleansOn(i, m)
<1>1. timer \in [Timers -> TimerState] /\ timer[i] \in TimerState /\ m \in Keys
  BY DEF Known, IInv, TypeOK, Keys
<1>2. timer[i].pc \in Dropping
  BY DEF DropState, DropRest, DropFirstSeen, DropPosition, DropMacs, DropMapping
<1>3. /\ timer[i].victim = m /\ timer[i].doomed = {} /\ timer[i].pc # "dropMapping"
      /\ drone_state[m] = NONE /\ key_to_macs[m] = {}
  BY <1>1, <1>2 DEF Lone, CleansAddress, TwoKeys, OneEntry
<1>4. ASSUME NEW pc \in Dropping \ {"dropMapping"}, timer' = [timer EXCEPT ![i].pc = pc]
      PROVE  CleansOn(i, m)
  BY <1>1, <1>2, <1>3, <1>4 DEF TimerState, SameTask, CleansOn
<1>5. CASE DropState(i)
  <2>1. \A j \in Timers : ~ (timer[j].live /\ timer[j].key = m)
    BY <1>3 DEF Known, IInv, InHand
  <2>2. Orphaned(m, drone_state[m]) = timer
    BY <1>1, <2>1 DEF Orphaned
  <2>3. timer' = [timer EXCEPT ![i].pc = "dropFirstSeen"]
    BY <1>3, <1>5, <2>2 DEF DropState
  <2>4. QED
    BY <1>4, <2>3
<1>6. CASE DropFirstSeen(i)
  BY <1>4, <1>6 DEF DropFirstSeen
<1>7. CASE DropPosition(i)
  BY <1>4, <1>7 DEF DropPosition
<1>8. CASE DropMacs(i)
  <2>1. \A j \in Timers : ~ (timer[j].macs = "shared" /\ timer[j].key = m)
    BY <1>3 DEF Lone, Undisturbed
  <2>2. MacsPopped(timer, m) = timer
    BY <1>1, <2>1 DEF MacsPopped
  <2>3. timer' = Cleaned(timer, i)
    BY <1>3, <1>8, <2>2 DEF DropMacs
  <2>4. timer' = [timer EXCEPT ![i].pc = "write", ![i].victim = NONE, ![i].dropped = {}]
    BY <1>3, <2>3 DEF Cleaned
  <2>5. timer'[i].macs = timer[i].macs
    BY <1>1, <2>4 DEF TimerState
  <2>6. /\ timer'[i].pc = "write" /\ SameTask(timer'[i], timer[i])
        /\ \A j \in Timers \ {i} : timer'[j] = timer[j]
    <3>1. /\ Cleaned(timer, i)[i].pc = IF timer[i].doomed = {} THEN "write" ELSE "delete"
          /\ SameTask(Cleaned(timer, i)[i], timer[i])
          /\ \A j \in Timers \ {i} : Cleaned(timer, i)[j] = timer[j]
      BY <1>1, CleanedType
    <3>2. QED
      BY <1>3, <2>3, <3>1
  <2>7. QED
    BY <1>2, <2>5, <2>6 DEF CleansOn
<1>9. QED
  BY <1>3, <1>5, <1>6, <1>7, <1>8 DEF DropRest, DropMapping

\* A step of one finaliser, for all that Lone looks at.
FinaliserMoves(i) ==
  /\ timer[i].pc # "free"
  /\ \A j \in Timers \ {i} : timer'[j] = timer[j]
  /\ UNCHANGED <<Files, capture>>
  /\ \/ timer'[i] = FreeTimer
     \/ /\ timer'[i].pc \in Running /\ timer'[i].key = timer[i].key
        /\ \/ timer'[i].macs \in {timer[i].macs, "private"}
           \/ timer'[i].macs = "shared" /\ key_to_macs[timer[i].key] # {}

LEMMA FinaliserStep ==
  ASSUME NEW ear, NEW m \in Macs, NEW r \in Keys, Known, Lone(ear, m, r), NEW i \in Timers,
         Finalise(i)
  PROVE  FinaliserMoves(i)
<1>1. timer \in [Timers -> TimerState] /\ timer[i] \in TimerState
  BY DEF Known, IInv, TypeOK
<1>2. UNCHANGED Files
  BY CleanUpSpares
     DEF Finalise, Fire, Finalize, IdentityDecoded, IdentityRemembered, RememberRaises,
         IdentityInferred, Suppress, CheckRaises, PassCooldown, Scan, ScanRaises, DeleteExpired, DeleteRaises,
         Write, WriteRaises, MarkSent, Die, contact, Files
<1>3. timer[i].pc # "free" /\ UNCHANGED capture
  BY DEF Finalise, Fire, Finalize, IdentityDecoded, IdentityRemembered, RememberRaises,
         IdentityInferred, Suppress, CheckRaises, PassCooldown, Scan, ScanRaises, DeleteExpired, DeleteRaises,
         DropState, DropRest, DropFirstSeen, DropPosition, DropMacs, DropMapping,
         Write, WriteRaises, MarkSent, Die
<1>4. ASSUME timer' = [timer EXCEPT ![i] = FreeTimer] PROVE FinaliserMoves(i)
  BY <1>1, <1>2, <1>3, <1>4 DEF FinaliserMoves
<1>5. CASE Suppress(i) \/ CheckRaises(i) \/ RememberRaises(i) \/ ScanRaises(i) \/ DeleteRaises(i)
           \/ WriteRaises(i) \/ MarkSent(i)
  BY <1>4, <1>5 DEF Suppress, CheckRaises, RememberRaises, ScanRaises, DeleteRaises, WriteRaises,
                    MarkSent, Die
<1>6. CASE Finalize(i)
  <2> DEFINE q == [timer[i] EXCEPT !.pc = "identify", !.live = TRUE]
  <2>1. \/ timer' = [timer EXCEPT ![i] = FreeTimer]
        \/ timer' = [timer EXCEPT ![i] = q]
    BY <1>1, <1>6 DEF Finalize
  <2>2. q.pc = "identify" /\ q.key = timer[i].key /\ q.macs = timer[i].macs
    BY <1>1 DEF TimerState
  <2> HIDE DEF q
  <2>3. QED
    BY <1>1, <1>2, <1>3, <1>4, <2>1, <2>2 DEF FinaliserMoves, Running
<1>7. CASE Fire(i)
  BY <1>1, <1>2, <1>3, <1>7 DEF Fire, FinaliserMoves, TimerState, Running
<1>8. CASE IdentityDecoded(i)
  <2> DEFINE x == IF key_to_macs[timer[i].key] = {} THEN "private" ELSE "shared"
  <2>1. timer' = [timer EXCEPT ![i].pc = "remember", ![i].macs = x]
    BY <1>8 DEF IdentityDecoded
  <2>2. x = "private" \/ (x = "shared" /\ key_to_macs[timer[i].key] # {})
    BY Zenon
  <2> HIDE DEF x
  <2>3. QED
    BY <1>1, <1>2, <1>3, <2>1, <2>2 DEF FinaliserMoves, TimerState, Running
<1>9. CASE IdentityRemembered(i)
  BY <1>1, <1>2, <1>3, <1>9 DEF IdentityRemembered, FinaliserMoves, TimerState, Running
<1>10. CASE IdentityInferred(i)
  <2>1. PICK id \in Maybe(Remembered) :
          timer' = [timer EXCEPT ![i] =
                      IF id = NONE
                      THEN [@ EXCEPT !.pc = "check"]
                      ELSE [@ EXCEPT !.pc = "check", !.source = "inferred", !.live = FALSE,
                                     !.obj = [Held(i) EXCEPT !.id = id]]]
    BY <1>10 DEF IdentityInferred
  <2> DEFINE q == IF id = NONE
                  THEN [timer[i] EXCEPT !.pc = "check"]
                  ELSE [timer[i] EXCEPT !.pc = "check", !.source = "inferred", !.live = FALSE,
                                        !.obj = [Held(i) EXCEPT !.id = id]]
  <2>2. timer' = [timer EXCEPT ![i] = q]
    BY <2>1
  <2>3. q.pc = "check" /\ q.key = timer[i].key /\ q.macs = timer[i].macs
    BY <1>1 DEF TimerState
  <2> HIDE DEF q
  <2>4. QED
    BY <1>1, <1>2, <1>3, <2>2, <2>3 DEF FinaliserMoves, Running
<1>11. CASE PassCooldown(i)
  BY <1>1, <1>2, <1>3, <1>11 DEF PassCooldown, FinaliserMoves, TimerState, Running
<1>12. CASE Scan(i)
  <2> DEFINE p == IF Expired(timer[i].at) = {} THEN "write" ELSE "delete"
  <2>1. timer' = [timer EXCEPT ![i].pc = p, ![i].doomed = Expired(timer[i].at)]
    BY <1>12 DEF Scan
  <2>2. p \in {"write", "delete"}
    OBVIOUS
  <2> HIDE DEF p
  <2>3. QED
    BY <1>1, <1>2, <1>3, <2>1, <2>2 DEF FinaliserMoves, TimerState, Running
<1>13. CASE DeleteExpired(i)
  BY <1>1, <1>2, <1>3, <1>13 DEF DeleteExpired, FinaliserMoves, TimerState, Running
<1>14. CASE DropState(i) \/ DropRest(i)
  <2>1. CleansOn(i, m)
    BY <1>14, CleanUpTimers
  <2>2. timer'[i].pc \in Running /\ timer'[i].key = timer[i].key /\ timer'[i].macs = timer[i].macs
    BY <2>1 DEF CleansOn, SameTask, Running
  <2>3. \A j \in Timers \ {i} : timer'[j] = timer[j]
    BY <2>1 DEF CleansOn
  <2>4. QED
    BY <1>2, <1>3, <2>2, <2>3 DEF FinaliserMoves
<1>15. CASE Write(i)
  BY <1>1, <1>2, <1>3, <1>15 DEF Write, FinaliserMoves, TimerState, Running
<1>16. QED
  BY <1>5, <1>6, <1>7, <1>8, <1>9, <1>10, <1>11, <1>12, <1>13, <1>14, <1>15 DEF Finalise

\* A merge that keeps the key finds the address listed already, or lists it for nobody
\* who is looking.
LEMMA InPlaceFiles ==
  ASSUME NEW ear, NEW m \in Macs, NEW r \in Keys, AloneOn(ear, m), Known, Lone(ear, m, r),
         NEW t \in Threads, MergeInPlace(t)
  PROVE  /\ t = ear /\ capture[t].frame.mac = m /\ Merged(t) # NONE
         /\ timer' = timer
         /\ drone_state' = [drone_state EXCEPT ![r] = Merged(t)]
         /\ key_to_macs' = [key_to_macs EXCEPT ![r] = @ \cup {m}]
         /\ transport_mac_to_key' = transport_mac_to_key
         /\ Stamp(t, r, key_to_first_seen, key_to_position_at)
         /\ owed' = owed /\ lost' = lost
<1>1. capture[t].pc = "merge" /\ capture[t].frame \in Frames
  BY DEF MergeInPlace, Known, IInv, InHand
<1>2. t = ear /\ capture[t].frame.mac = m /\ resolve_state_key(m) = r
  BY <1>1 DEF Lone, OneListener, AloneOn
<1>3. Merged(t) # NONE
  BY <1>1, MergedType, ContactsAssumption DEF Known, IInv
<1>4. timer' = MacsGrow(timer, r, {m})
  BY <1>2 DEF MergeInPlace
<1>5. \A i \in Timers : ~ (timer[i].macs = "shared" /\ timer[i].key = r /\ ~ ({m} \subseteq key_to_macs[r]))
  BY DEF Lone, Undisturbed
<1>6. timer' = timer
  BY <1>4, <1>5 DEF MacsGrow, Known, IInv, TypeOK
<1>7. QED
  BY <1>2, <1>3, <1>6 DEF MergeInPlace

\* The re-key: from the address to its ID, of which nothing is on record yet.  It leaves
\* the address no timer but the finaliser that runs already.
LEMMA RekeyFiles ==
  ASSUME SingleIdentity, NEW ear, NEW m \in Macs, NEW r \in Keys, AloneOn(ear, m), Known,
         Lone(ear, m, r), NEW t \in Threads, MergeRekey(t)
  PROVE  LET u == Merged(t).id
         IN  /\ t = ear /\ capture[t].frame.mac = m /\ capture[t].frame \in Frames
             /\ r = m /\ m \in Keys /\ u \in Uas /\ u \in Keys /\ u # m /\ u # NONE
             /\ Merged(t) \in Telemetry
             /\ drone_state' = [drone_state EXCEPT ![m] = NONE, ![u] = Update(Blank, Merged(t))]
             /\ key_to_macs' = [key_to_macs EXCEPT ![m] = {}, ![u] = @ \cup key_to_macs[m] \cup {m}]
             /\ transport_mac_to_key' = [transport_mac_to_key EXCEPT ![m] = u]
             /\ Stamp(t, u,
                      [key_to_first_seen EXCEPT ![m] = NONE,
                                                ![u] = Earlier(@, key_to_first_seen[m])],
                      [key_to_position_at EXCEPT ![m] = NONE,
                                                 ![u] = Later(@, key_to_position_at[m])])
             /\ owed' = Renamed(owed, m, u) /\ lost' = Renamed(lost, m, u)
             /\ sent_alert_tracker' = sent_alert_tracker
<1> DEFINE u == Merged(t).id
<1>1. capture[t].pc = "merge" /\ capture[t].frame \in Frames
  BY DEF MergeRekey, Known, IInv, InHand
<1>2. t = ear /\ capture[t].frame.mac = m
  BY <1>1 DEF Lone, OneListener, AloneOn
<1>3. r = m /\ m \notin Uas /\ u \in Uas /\ Merged(t) \in Telemetry
  BY <1>2, OnlyAddressesRekeyed, MergedId DEF Lone, Known, MergeRekey
<1>4. m \in Keys /\ u \in Keys /\ u # m /\ u # NONE
  BY <1>3, ContactsAssumption DEF Keys
<1>5. resolve_state_key(m) = m /\ drone_state[u] = NONE
  BY <1>3, <1>4 DEF Lone, OneEntry
<1>6. OrElse(drone_state[u], Blank) = Blank
  BY <1>5 DEF OrElse
<1>7. drone_state' = [drone_state EXCEPT ![m] = NONE, ![u] = Update(Blank, Merged(t))]
  BY <1>2, <1>5, <1>6 DEF MergeRekey
<1>8. QED
  BY <1>1, <1>2, <1>3, <1>4, <1>5, <1>7 DEF MergeRekey

LEMMA RekeyTimers ==
  ASSUME SingleIdentity, NEW ear, NEW m \in Macs, NEW r \in Keys, AloneOn(ear, m), Known,
         Lone(ear, m, r), NEW t \in Threads, MergeRekey(t), NEW j \in Timers
  PROVE  /\ timer'[j].macs = "private"
         /\ timer'[j].pc # "free" => /\ timer[j].pc \in Running /\ timer[j].key = m
                                     /\ timer'[j].pc = timer[j].pc /\ timer'[j].key = m
                                     /\ timer'[j].since = timer[j].since
<1> DEFINE u == Merged(t).id
           O == Orphaned(m, Merged(t))
           G == MacsGrow(O, m, {m})
           P == MacsPopped(G, m)
           W == MacsGrow(P, u, key_to_macs[m] \cup {m})
<1>1. /\ capture[t].frame.mac = m /\ r = m /\ m \in Keys /\ resolve_state_key(m) = m
  BY RekeyFiles DEF Lone
<1>2. timer \in [Timers -> TimerState] /\ \A i \in Timers : timer[i] \in TimerState
  BY DEF Known, IInv, TypeOK
<1>3. timer' = Cancelled(W, pending_alert_timers[m])
  BY <1>1 DEF MergeRekey
<1>4. \A i \in Timers : O[i].macs = timer[i].macs /\ O[i].key = timer[i].key
  BY <1>2 DEF Orphaned, TimerState
<1>5. O \in [Timers -> TimerState]
  BY <1>1, OrphanedType, RekeyFiles DEF Known, IInv
<1>6. \A i \in Timers : O[i].macs = "private" \/ (O[i].macs = "shared" /\ O[i].key = m /\ m \in key_to_macs[m])
  BY <1>1, <1>4 DEF Lone, Undisturbed, OneEntry
<1> HIDE DEF O
<1>7. G = O
  BY <1>5, <1>6 DEF MacsGrow
<1>8. P \in [Timers -> TimerState] /\ \A i \in Timers : P[i].macs = "private"
  <2>1. P \in [Timers -> TimerState]
    BY <1>5, <1>7, MacsType DEF Alike
  <2>2. \A i \in Timers : P[i].macs = "private"
    <3>1. \A i \in Timers : O[i] \in TimerState
      BY <1>5
    <3>2. QED
      BY <1>6, <1>7, <3>1 DEF MacsPopped, TimerState
  <2>3. QED
    BY <2>1, <2>2
<1> HIDE DEF P
<1>9. \A i \in Timers : W[i].macs = "private"
  BY <1>8 DEF MacsGrow
<1>10. W \in [Timers -> TimerState]
  BY <1>8 DEF MacsGrow
<1> HIDE DEF W
<1>11. timer'[j].macs = "private"
  BY <1>3, <1>9, <1>10 DEF Cancelled, FreeTimer
<1>12. IF j = pending_alert_timers[m] /\ timer[j].pc = "armed"
       THEN timer'[j] = FreeTimer ELSE SamePace(timer'[j], timer[j])
  BY <1>1, MergeRekeyTimers DEF Known
<1>13. ASSUME timer'[j].pc # "free"
       PROVE  /\ timer[j].pc \in Running /\ timer[j].key = m
              /\ timer'[j].pc = timer[j].pc /\ timer'[j].key = m
              /\ timer'[j].since = timer[j].since
  <2>1. SamePace(timer'[j], timer[j])
    BY <1>12, <1>13 DEF FreeTimer
  <2>2. timer[j].pc # "free" /\ timer[j].key = m
    BY <1>1, <1>13, <2>1 DEF SamePace, Lone, TwoKeys
  <2>3. timer[j].pc # "armed"
    <3>1. timer[j].pc = "armed" => pending_alert_timers[m] = j
      BY <1>1, <2>2 DEF Lone, Registered
    <3>2. QED
      BY <1>12, <1>13, <3>1 DEF FreeTimer
  <2>4. QED
    BY <1>2, <2>1, <2>2, <2>3 DEF SamePace, TimerState
<1>14. QED
  BY <1>11, <1>13

LEMMA RekeyLone ==
  ASSUME SingleIdentity, NEW ear, NEW m \in Macs, NEW r \in Keys, AloneOn(ear, m), Known,
         Lone(ear, m, r), NEW t \in Threads, MergeRekey(t)
  PROVE  \E u \in Keys : Lone(ear, m, u)'
<1> DEFINE new == Merged(t)
           first == [key_to_first_seen EXCEPT ![m] = NONE,
                                              ![new.id] = Earlier(@, key_to_first_seen[m])]
<1>1. PICK u \in Keys : u = new.id
  BY RekeyFiles
<1> DEFINE position == [key_to_position_at EXCEPT ![m] = NONE,
                                                  ![u] = Later(@, key_to_position_at[m])]
<1>2. /\ t = ear /\ capture[t].frame.mac = m /\ capture[t].frame \in Frames
      /\ r = m /\ m \in Keys /\ u \in Uas /\ u # m /\ u # NONE /\ new \in Telemetry
      /\ drone_state' = [drone_state EXCEPT ![m] = NONE, ![u] = Update(Blank, new)]
      /\ key_to_macs' = [key_to_macs EXCEPT ![m] = {}, ![u] = @ \cup key_to_macs[m] \cup {m}]
      /\ transport_mac_to_key' = [transport_mac_to_key EXCEPT ![m] = u]
      /\ Stamp(t, u, first, position)
      /\ owed' = Renamed(owed, m, u) /\ lost' = Renamed(lost, m, u)
      /\ sent_alert_tracker' = sent_alert_tracker
  BY <1>1, RekeyFiles
<1>3. /\ drone_state \in [Keys -> Maybe(Telemetry)] /\ key_to_macs \in [Keys -> SUBSET Macs]
      /\ key_to_position_at \in [Keys -> Maybe(Time)]
      /\ transport_mac_to_key \in [Macs -> Maybe(Uas)]
      /\ capture \in [Threads -> CaptureState] /\ capture[t] \in CaptureState
  BY DEF Known, IInv, TypeOK
<1>4. Update(Blank, new) # NONE /\ Update(Blank, new).posAt = new.posAt
  <2>1. Blank \in Telemetry /\ Blank.posAt = NONE
    BY DEF Blank, Telemetry, Maybe
  <2>2. Update(Blank, new) \in Telemetry
    BY <1>2, <2>1, UpdateType
  <2>3. QED
    BY <2>1, <2>2, ContactsAssumption DEF Update
<1>5. /\ capture' = [capture EXCEPT ![t].pc = "lookup", ![t].key = u]
      /\ key_to_position_at' = IF capture[t].frame.pos THEN [position EXCEPT ![u] = capture[t].at]
                                                       ELSE position
  BY <1>2 DEF Stamp
<1>6. \A j \in Timers : /\ timer'[j].macs = "private"
                        /\ timer'[j].pc # "free" => /\ timer[j].pc \in Running /\ timer[j].key = m
                                                    /\ timer'[j].pc = timer[j].pc
                                                    /\ timer'[j].key = m
  BY RekeyTimers
<1>7. \A k \in Keys \ {m} : drone_state[k] = NONE /\ key_to_macs[k] = {}
                            /\ key_to_position_at[k] = NONE /\ k \notin owed
  BY <1>2 DEF Lone, OneEntry
<1>8. owed \subseteq Keys /\ lost \subseteq Keys
  BY DEF Known, IInv, TypeOK
<1> HIDE DEF new, first
<1>9. resolve_state_key(m)' = u
  BY <1>2, <1>3 DEF resolve_state_key, OrElse
<1>10. OneListener(ear, u)'
  <2>1. drone_state'[u] # NONE
    BY <1>2, <1>3, <1>4
  <2>2. capture'[t].pc = "lookup" /\ capture'[t].key = u
    BY <1>3, <1>5 DEF CaptureState
  <2>3. \A s \in Threads \ {t} : capture'[s] = capture[s] /\ capture[s].pc = "idle"
    BY <1>2, <1>3, <1>5 DEF Lone, OneListener
  <2>4. QED
    BY <1>2, <2>1, <2>2, <2>3 DEF Lone, OneListener
<1>11. \A k \in Keys \ {u} : key_to_position_at'[k] = NONE
  BY <1>2, <1>3, <1>5, <1>7
<1>12. OneEntry(u)'
  <2>1. ASSUME NEW k \in Keys \ {u}
        PROVE  drone_state'[k] = NONE /\ key_to_macs'[k] = {} /\ k \notin owed'
    BY <1>2, <1>3, <1>7, <2>1 DEF Renamed
  <2>2. QED
    BY <1>11, <2>1 DEF OneEntry
<1>13. \A k \in Keys : sent_alert_tracker[k] # NONE => k = m
  BY <1>2 DEF Lone, TwoKeys
<1>14. TwoKeys(m, u)'
  BY <1>2, <1>6, <1>13 DEF TwoKeys
<1>15. Succession(m, u)'
  BY <1>2, <1>6, <1>13 DEF Succession
<1>16. Registered({u})'
  BY <1>2, <1>6 DEF Registered
<1>17. CleansAddress(m)'
  <2>1. \A j \in Timers : timer'[j].pc \notin {"delete"} \cup Dropping
    BY <1>6 DEF Lone, CleansAddress
  <2>2. QED
    BY <2>1 DEF CleansAddress
<1>18. Undisturbed(m)'
  <2>1. \A k \in Keys : key_to_macs'[k] \subseteq {m}
    BY <1>2, <1>3 DEF Lone, Undisturbed
  <2>2. QED
    BY <1>6, <2>1 DEF Undisturbed
<1>19. Promised'
  <2>1. capture'[t].key = u
    BY <1>3, <1>5 DEF CaptureState
  <2>2. Attended(u)'
    BY <2>1 DEF Attended
  <2>3. drone_state'[u] # NONE
    BY <1>2, <1>3, <1>4
  <2>4. owed' \subseteq {u}
    BY <1>2, <1>7, <1>8 DEF Renamed
  <2>5. CsvFails \/ lost' = {}
    BY <1>2 DEF Renamed, Lone, Promised
  <2>6. \A k \in owed' : drone_state'[k] # NONE /\ Attended(k)'
    BY <2>2, <2>3, <2>4
  <2>7. QED
    BY <2>5, <2>6 DEF Promised
<1>20. PositionTimeMatches'
  <2> DEFINE f == capture[t].frame
             at == capture[t].at
             old == OrElse(drone_state[m], Blank)
  <2>1. at \in Time /\ at # NONE
    BY <1>3, ContactsAssumption DEF CaptureState, Time
  <2>2. new.posAt = IF f.pos THEN at ELSE old.posAt
    <3>1. new = Update(old, Decoded(f, at))
      BY <1>2 DEF new, Merged, Lone
    <3>2. QED
      BY <2>1, <3>1 DEF Update, Decoded
  <2>3. old.posAt # NONE => key_to_position_at[m] = old.posAt
    BY <1>2 DEF Lone, PositionTimeMatches, OrElse, Blank
  <2>4. key_to_position_at'[u] = IF f.pos THEN at ELSE key_to_position_at[m]
    BY <1>2, <1>3, <1>5, <1>7 DEF Later
  <2>5. drone_state'[u].posAt = new.posAt
    BY <1>2, <1>3, <1>4
  <2>6. \A k \in Keys \ {u} : drone_state'[k] = NONE
    BY <1>12 DEF OneEntry
  <2> HIDE DEF f, at, old
  <2>7. drone_state'[u].posAt # NONE => key_to_position_at'[u] = drone_state'[u].posAt
    BY <2>2, <2>3, <2>4, <2>5
  <2>8. QED
    BY <2>6, <2>7 DEF PositionTimeMatches
<1>21. QED
  BY <1>9, <1>10, <1>12, <1>14, <1>15, <1>16, <1>17, <1>18, <1>19, <1>20 DEF Lone

LEMMA InPlaceLone ==
  ASSUME NEW ear, NEW m \in Macs, NEW r \in Keys, AloneOn(ear, m), Known, Lone(ear, m, r),
         NEW t \in Threads, MergeInPlace(t)
  PROVE  Lone(ear, m, r)'
<1> DEFINE new == Merged(t)
<1>1. /\ t = ear /\ capture[t].frame.mac = m /\ new # NONE
      /\ timer' = timer /\ owed' = owed /\ lost' = lost
      /\ drone_state' = [drone_state EXCEPT ![r] = new]
      /\ key_to_macs' = [key_to_macs EXCEPT ![r] = @ \cup {m}]
      /\ transport_mac_to_key' = transport_mac_to_key
      /\ Stamp(t, r, key_to_first_seen, key_to_position_at)
      /\ UNCHANGED <<pending_alert_timers, sent_alert_tracker>>
  BY InPlaceFiles DEF MergeInPlace
<1>2. /\ drone_state \in [Keys -> Maybe(Telemetry)] /\ key_to_macs \in [Keys -> SUBSET Macs]
      /\ key_to_position_at \in [Keys -> Maybe(Time)]
      /\ capture \in [Threads -> CaptureState] /\ capture[t] \in CaptureState
  BY DEF Known, IInv, TypeOK
<1>3. /\ capture' = [capture EXCEPT ![t].pc = "lookup", ![t].key = r]
      /\ key_to_position_at' = IF capture[t].frame.pos
                               THEN [key_to_position_at EXCEPT ![r] = capture[t].at]
                               ELSE key_to_position_at
  BY <1>1 DEF Stamp
<1>4. /\ drone_state'[r] = new /\ \A k \in Keys \ {r} : drone_state'[k] = drone_state[k]
      /\ key_to_macs'[r] = key_to_macs[r] \cup {m}
      /\ \A k \in Keys \ {r} : key_to_macs'[k] = key_to_macs[k]
      /\ \A k \in Keys \ {r} : key_to_position_at'[k] = key_to_position_at[k]
      /\ key_to_position_at'[r] = IF capture[t].frame.pos THEN capture[t].at
                                                          ELSE key_to_position_at[r]
  BY <1>1, <1>2, <1>3
<1>5. /\ capture'[t].pc = "lookup" /\ capture'[t].key = r
      /\ capture[t].pc = "merge" /\ capture[t].key = NONE
      /\ \A s \in Threads \ {t} : capture'[s] = capture[s] /\ capture[s].pc = "idle"
  BY <1>1, <1>2, <1>3 DEF CaptureState, Lone, OneListener, MergeInPlace
<1>6. resolve_state_key(m)' = r
  BY <1>1 DEF Lone, resolve_state_key
<1>7. OneListener(ear, r)'
  BY <1>1, <1>4, <1>5 DEF Lone, OneListener
<1>8. OneEntry(r)'
  BY <1>1, <1>4 DEF Lone, OneEntry
<1>9. TwoKeys(m, r)' /\ Succession(m, r)' /\ Registered({r})' /\ CleansAddress(m)'
  BY <1>1 DEF Lone, TwoKeys, Succession, Registered, CleansAddress
<1>10. Undisturbed(m)'
  BY <1>1, <1>4 DEF Lone, Undisturbed
<1>11. Promised'
  <2>1. ASSUME NEW k \in owed PROVE k \in Keys /\ drone_state'[k] # NONE
    BY <1>1, <1>4 DEF Lone, Promised, Known, IInv, TypeOK
  <2>2. \A k \in owed : Attended(k) => Attended(k)'
    <3>1. NONE \notin owed
      BY ContactsAssumption DEF Known, IInv, TypeOK
    <3>2. ASSUME NEW k \in owed, NEW s \in Threads, capture[s].key = k PROVE capture'[s].key = k
      <4>1. s # t
        BY <1>5, <3>1, <3>2
      <4>2. QED
        BY <1>5, <3>2, <4>1
    <3>3. QED
      BY <1>1, <3>2 DEF Attended
  <2>3. QED
    BY <1>1, <2>1, <2>2 DEF Lone, Promised
<1>12. PositionTimeMatches'
  <2> DEFINE f == capture[t].frame
             at == capture[t].at
             old == OrElse(drone_state[r], Blank)
  <2>1. at \in Time /\ at # NONE
    BY <1>2, ContactsAssumption DEF CaptureState, Time
  <2>2. new.posAt = IF f.pos THEN at ELSE old.posAt
    <3>1. new = Update(old, Decoded(f, at))
      BY <1>1 DEF new, Merged, Lone
    <3>2. QED
      BY <2>1, <3>1 DEF Update, Decoded
  <2>3. old.posAt # NONE => key_to_position_at[r] = old.posAt
    BY DEF Lone, PositionTimeMatches, OrElse, Blank
  <2>4. \A k \in Keys \ {r} : drone_state'[k] = NONE
    BY <1>4 DEF Lone, OneEntry
  <2> HIDE DEF f, at, old, new
  <2>5. new.posAt # NONE => key_to_position_at'[r] = new.posAt
    BY <1>4, <2>2, <2>3 DEF f, at
  <2>6. QED
    BY <1>4, <2>4, <2>5 DEF PositionTimeMatches
<1>13. QED
  BY <1>6, <1>7, <1>8, <1>9, <1>10, <1>11, <1>12 DEF Lone

\* The other steps of the capture thread, for all that Lone looks at.
LEMMA CaptureLone ==
  ASSUME Timing, NEW ear, NEW m \in Macs, NEW r \in Keys, AloneOn(ear, m), Known,
         Lone(ear, m, r), NEW t \in Threads,
         Hear(t) \/ ReadSentAt(t) \/ ExpireCooldown(t) \/ Covered(t)
  PROVE  Lone(ear, m, r)'
<1>1. /\ UNCHANGED <<Files, timer, pending_alert_timers, lost>>
      /\ owed' \subseteq owed
  BY DEF Hear, ReadSentAt, ExpireCooldown, Covered, contact, Files
<1>2. /\ capture \in [Threads -> CaptureState] /\ capture[t] \in CaptureState
      /\ sent_alert_tracker \in [Keys -> Maybe(Time)]
  BY DEF Known, IInv, TypeOK
<1>3. \A s \in Threads \ {t} : capture'[s] = capture[s]
  BY <1>2 DEF Hear, ReadSentAt, ExpireCooldown, Covered
<1>4. Hear(t) => t = ear /\ capture'[t].pc = "merge" /\ capture'[t].key = NONE
  BY <1>2 DEF Hear, AloneOn
<1>5. Covered(t) => capture'[t].pc = "idle" /\ capture'[t].key = NONE
  BY <1>2 DEF Covered, IdleThread
<1>6. ReadSentAt(t) => /\ capture[t].pc = "lookup" /\ capture'[t].pc \in {"expire", "schedule"}
                       /\ capture'[t].key = capture[t].key /\ sent_alert_tracker' = sent_alert_tracker
  <2> DEFINE p == IF sent_alert_tracker[capture[t].key] # NONE
                     /\ now - sent_alert_tracker[capture[t].key] >= Cooldown
                  THEN "expire" ELSE "schedule"
  <2>1. ReadSentAt(t) => /\ capture' = [capture EXCEPT ![t].pc = p] /\ capture[t].pc = "lookup"
                         /\ sent_alert_tracker' = sent_alert_tracker
    BY DEF ReadSentAt
  <2>2. p \in {"expire", "schedule"}
    BY Zenon
  <2> HIDE DEF p
  <2>3. QED
    BY <1>2, <2>1, <2>2 DEF CaptureState
<1>7. ExpireCooldown(t) => /\ capture[t].pc = "expire" /\ capture'[t].pc = "schedule"
                           /\ capture'[t].key = capture[t].key
                           /\ sent_alert_tracker' = [sent_alert_tracker EXCEPT ![capture[t].key] = NONE]
  BY <1>2 DEF ExpireCooldown, CaptureState
<1>8. resolve_state_key(m)' = r
  BY <1>1 DEF Lone, resolve_state_key, Files
<1>9. OneListener(ear, r)'
  BY <1>1, <1>3, <1>4, <1>5, <1>6, <1>7 DEF Lone, OneListener, Files
<1>10. OneEntry(r)' /\ Registered({r})' /\ Undisturbed(m)' /\ PositionTimeMatches'
  BY <1>1 DEF Lone, OneEntry, Registered, Undisturbed, PositionTimeMatches, Files
<1>11. \A k \in Keys : sent_alert_tracker'[k] # sent_alert_tracker[k]
                      => k = r /\ sent_alert_tracker'[k] = NONE
  <2>1. ExpireCooldown(t) => capture[t].key = r
    BY <1>7 DEF Lone, OneListener
  <2>2. QED
    BY <1>2, <1>7, <2>1 DEF Hear, ReadSentAt, ExpireCooldown, Covered
<1>12. TwoKeys(m, r)' /\ Succession(m, r)'
  BY <1>1, <1>11 DEF Lone, TwoKeys, Succession
<1>13. CleansAddress(m)'
  <2>1. \A i \in Timers : timer[i].pc = "delete" => m # r /\ m \in Keys
    BY DEF Lone, CleansAddress, TwoKeys, Keys
  <2>2. QED
    BY <1>1, <1>11, <2>1 DEF Lone, CleansAddress
<1>14. Promised'
  <2>1. ASSUME NEW k \in owed', Attended(k) PROVE Attended(k)'
    <3>1. k \in owed /\ k \in Keys /\ k # NONE /\ k = r
      BY <1>1, ContactsAssumption DEF Known, IInv, TypeOK, Lone, OneEntry
    <3>2. CASE \E i \in Timers : timer[i].key = k /\ timer[i].pc # "mark"
      BY <1>1, <3>2 DEF Attended
    <3>3. ASSUME NEW s \in Threads, capture[s].key = k PROVE Attended(k)'
      <4>1. CASE s # t
        BY <1>3, <3>3, <4>1 DEF Attended
      <4>2. CASE s = t /\ (ReadSentAt(t) \/ ExpireCooldown(t))
        BY <1>6, <1>7, <3>3, <4>2 DEF Attended
      <4>3. CASE s = t /\ Hear(t)
        <5>1. capture[t].key = NONE
          BY <4>3 DEF Hear, Lone, OneListener
        <5>2. QED
          BY <3>1, <3>3, <4>3, <5>1
      <4>4. CASE s = t /\ Covered(t)
        <5>1. sent_alert_tracker[k] = NONE
          BY <2>1, <3>3, <4>4 DEF Covered
        <5>2. pending_alert_timers[k] # NONE
          BY <3>3, <4>4, <5>1 DEF Covered
        <5>3. pending_alert_timers[k] \in Timers
          BY <3>1, <5>2 DEF Known, IInv, TypeOK, Maybe
        <5>4. timer[pending_alert_timers[k]].key = k /\ timer[pending_alert_timers[k]].pc # "mark"
          BY <3>1, <5>2 DEF Known, IInv, NoStrandedTimer
        <5>5. QED
          BY <1>1, <5>3, <5>4 DEF Attended
      <4>5. QED
        BY <4>1, <4>2, <4>3, <4>4
    <3>4. QED
      BY <2>1, <3>2, <3>3 DEF Attended
  <2>2. QED
    BY <1>1, <2>1 DEF Lone, Promised, Files
<1>15. QED
  BY <1>8, <1>9, <1>10, <1>12, <1>13, <1>14 DEF Lone

LEMMA ScheduleLone ==
  ASSUME Timing, NEW ear, NEW m \in Macs, NEW r \in Keys, Known, Lone(ear, m, r),
         NEW t \in Threads, Schedule(t)
  PROVE  Lone(ear, m, r)'
<1>1. PICK i \in Timers :
        /\ timer[i].pc = "free"
        /\ timer'[i].pc = "armed" /\ timer'[i].key = capture[t].key
        /\ timer'[i].due = now + Grace
        /\ \A j \in Timers \ {i} : timer'[j] = timer[j]
        /\ pending_alert_timers' = [pending_alert_timers EXCEPT ![capture[t].key] = i]
  BY ScheduleTimer DEF Known
<1>2. timer'[i].macs = "private"
  <2>1. PICK j \in Timers : /\ timer[j].pc = "free"
                            /\ timer' = [timer EXCEPT ![j] = [FreeTimer EXCEPT !.pc = "armed",
                                             !.key = capture[t].key, !.due = now + Grace]]
    BY DEF Schedule
  <2>2. timer'[j].macs = "private" /\ timer'[j].pc = "armed"
    BY <2>1 DEF FreeTimer, Known, IInv, TypeOK
  <2>3. j = i
    BY <1>1, <2>1, <2>2
  <2>4. QED
    BY <2>2, <2>3
<1>3. /\ UNCHANGED <<Files, sent_alert_tracker, lost>>
      /\ owed' = owed \cup {capture[t].key}
      /\ capture' = [capture EXCEPT ![t] = IdleThread]
      /\ capture[t].key = r /\ drone_state[r] # NONE
      /\ pending_alert_timers[r] = NONE /\ sent_alert_tracker[r] = NONE
  BY DEF Schedule, contact, Files, Lone, OneListener
<1>4. /\ capture \in [Threads -> CaptureState] /\ pending_alert_timers \in [Keys -> Maybe(Timers)]
      /\ NONE \notin Timers /\ owed \subseteq Keys /\ NONE \notin Keys
  BY ContactsAssumption DEF Known, IInv, TypeOK
<1>5. capture'[t].pc = "idle" /\ capture'[t].key = NONE
      /\ \A s \in Threads \ {t} : capture'[s] = capture[s]
  BY <1>3, <1>4 DEF IdleThread
<1>6. resolve_state_key(m)' = r
  BY <1>3 DEF Lone, resolve_state_key, Files
<1>7. OneListener(ear, r)'
  BY <1>3, <1>5 DEF Lone, OneListener, Files
<1>8. OneEntry(r)' /\ PositionTimeMatches'
  BY <1>3 DEF Lone, OneEntry, PositionTimeMatches, Files
<1>9. TwoKeys(m, r)'
  BY <1>1, <1>3 DEF Lone, TwoKeys
<1>10. Succession(m, r)'
  <2>1. ASSUME r # m, NEW j \in Timers, timer'[j].pc # "free", timer'[j].key = m
        PROVE  /\ timer'[j].pc \in Running
               /\ sent_alert_tracker'[r] = NONE
               /\ \A x \in Timers : timer'[x].pc # "free" /\ timer'[x].key # m
                                    => timer'[x].pc = "armed" /\ timer'[x].due > timer'[j].since + Stall
    <3>1. j # i /\ timer'[j] = timer[j]
      BY <1>1, <1>3, <2>1
    <3>2. timer[j].pc \in Running /\ timer[j].since <= now
      BY <2>1, <3>1 DEF Lone, Succession, Known, OnTime
    <3>3. now + Grace > timer[j].since + Stall
      <4>1. now \in Nat /\ Grace \in Nat /\ Stall \in Nat /\ timer[j].since \in Nat
        BY Numbers DEF Known, IInv
      <4>2. QED
        BY <3>2, <4>1 DEF Timing
    <3>4. QED
      BY <1>1, <1>3, <2>1, <3>1, <3>2, <3>3 DEF Lone, Succession
  <2>2. QED
    BY <2>1 DEF Succession
<1>11. Registered({r})'
  BY <1>1, <1>3, <1>4 DEF Lone, Registered
<1>12. CleansAddress(m)'
  BY <1>1, <1>3 DEF Lone, CleansAddress
<1>13. Undisturbed(m)'
  BY <1>1, <1>2, <1>3 DEF Lone, Undisturbed, Files
<1>14. Promised'
  <2>1. owed' \subseteq {r}
    BY <1>3, <1>4 DEF Lone, OneEntry
  <2>2. Attended(r)'
    BY <1>1, <1>3 DEF Attended
  <2>3. \A k \in owed' : drone_state'[k] # NONE /\ Attended(k)'
    BY <1>3, <2>1, <2>2 DEF Files
  <2>4. QED
    BY <1>3, <2>3 DEF Lone, Promised
<1>15. QED
  BY <1>6, <1>7, <1>8, <1>9, <1>10, <1>11, <1>12, <1>13, <1>14 DEF Lone

\* A finaliser's step is its first, or it was running and keeps its clock.
LEMMA FinaliserClock ==
  ASSUME IInv, NEW i \in Timers, Finalise(i)
  PROVE  \/ Fire(i)
         \/ /\ timer[i].pc \in Running
            /\ timer'[i].pc \notin {"armed", "fired"}
            /\ timer'[i].pc # "free" => timer'[i].since = timer[i].since
<1>1. CASE PassCooldown(i) \/ Scan(i) \/ DeleteExpired(i) \/ Write(i)
  <2>1. Onward(i)
    BY <1>1, RunningTimer
  <2>2. timer'[i].pc \in Passed
    BY <1>1, PassCooldownTimer, ScanTimer, DeleteExpiredTimer, WriteTimer DEF Passed, Advances
  <2>3. QED
    BY <2>1, <2>2 DEF Onward, Passed
<1>2. CASE MarkSent(i)
  BY <1>2, MarkSentTimer DEF Running
<1>3. CASE \/ Finalize(i) \/ IdentityDecoded(i) \/ IdentityRemembered(i) \/ IdentityInferred(i)
           \/ Suppress(i) \/ CheckRaises(i) \/ RememberRaises(i) \/ ScanRaises(i)
           \/ DeleteRaises(i) \/ WriteRaises(i) \/ DropState(i) \/ DropRest(i)
  <2>1. Continues(i)
    BY <1>3, QuietSteps DEF Quiet
  <2>2. timer[i].pc \in Running
    BY <1>3 DEF Finalize, IdentityDecoded, IdentityRemembered, RememberRaises, IdentityInferred,
         Suppress, CheckRaises, ScanRaises, DeleteRaises,
         DropState, DropRest, DropFirstSeen, DropPosition, DropMacs, DropMapping,
         WriteRaises, Running
  <2>3. timer[i].pc = "fired" => timer'[i].pc \in {"free", "identify"}
    <3>1. timer[i].pc = "fired" => Finalize(i)
      BY <1>3 DEF Finalize, IdentityDecoded, IdentityRemembered, RememberRaises, IdentityInferred,
         Suppress, CheckRaises, ScanRaises, DeleteRaises,
         DropState, DropRest, DropFirstSeen, DropPosition, DropMacs, DropMapping,
         WriteRaises
    <3>2. Finalize(i) => timer'[i].pc \in {"free", "identify"}
      BY DEF Finalize, IInv, TypeOK, TimerState, FreeTimer
    <3>3. QED
      BY <3>1, <3>2
  <2>4. QED
    BY <2>1, <2>2, <2>3 DEF Continues, Running
<1>4. QED
  BY <1>1, <1>2, <1>3 DEF Finalise

\* How the contact stands in the finalisers' hands: what each does to the cooldowns, to
\* the registrations and to what is owed.
LEMMA FinaliserLone ==
  ASSUME Timing, NEW ear, NEW m \in Macs, NEW r \in Keys, Known, Lone(ear, m, r),
         NEW i \in Timers, Finalise(i)
  PROVE  Lone(ear, m, r)'
<1>1. /\ FinaliserMoves(i)
      /\ ~ RememberRaises(i) /\ ~ CheckRaises(i) /\ ~ ScanRaises(i) /\ ~ DeleteRaises(i)
  BY FinaliserStep, NobodyRaises
<1>2. /\ timer[i].pc # "free"
      /\ \A j \in Timers \ {i} : timer'[j] = timer[j]
      /\ UNCHANGED <<drone_state, key_to_macs, key_to_position_at, transport_mac_to_key, capture>>
      /\ timer'[i] = FreeTimer \/ (timer'[i].pc \in Running /\ timer'[i].key = timer[i].key)
  BY <1>1 DEF FinaliserMoves, Files
<1>3. /\ timer[i].key \in Keys /\ timer[i].key \in {m, r}
      /\ timer \in [Timers -> TimerState] /\ timer[i] \in TimerState
      /\ sent_alert_tracker \in [Keys -> Maybe(Time)]
      /\ pending_alert_timers \in [Keys -> Maybe(Timers)] /\ NONE \notin Timers
      /\ owed \subseteq Keys /\ NONE \notin Keys
  BY <1>2, ContactsAssumption DEF Known, IInv, InHand, TypeOK, Lone, TwoKeys
<1>4. resolve_state_key(m)' = r
  BY <1>2 DEF Lone, resolve_state_key
<1>5. OneListener(ear, r)'
  BY <1>2 DEF Lone, OneListener
<1>6. PositionTimeMatches'
  BY <1>2 DEF Lone, PositionTimeMatches
<1>7. owed' \subseteq owed
  BY DEF Finalise, Fire, Finalize, IdentityDecoded, IdentityRemembered, RememberRaises,
         IdentityInferred, Suppress, CheckRaises, PassCooldown, Scan, ScanRaises, DeleteExpired, DeleteRaises,
         DropState, DropRest, DropFirstSeen, DropPosition, DropMacs, DropMapping,
         Write, WriteRaises, MarkSent, Die
<1>8. OneEntry(r)'
  BY <1>2, <1>7 DEF Lone, OneEntry
<1>9. Undisturbed(m)'
  <2>1. \/ timer'[i].macs = "private"
        \/ timer'[i].macs = "shared" /\ timer'[i].key \in Keys /\ m \in key_to_macs[timer'[i].key]
    BY <1>1, <1>3 DEF Lone, Undisturbed, FinaliserMoves, FreeTimer
  <2>2. QED
    BY <1>2, <2>1 DEF Lone, Undisturbed
<1>10. \/ sent_alert_tracker' = sent_alert_tracker
       \/ MarkSent(i) /\ sent_alert_tracker' = [sent_alert_tracker EXCEPT ![timer[i].key] = timer[i].at]
       \/ DeleteExpired(i) /\ timer[i].doomed = {m}
          /\ sent_alert_tracker' = [sent_alert_tracker EXCEPT ![m] = NONE]
  <2>1. DeleteExpired(i) => /\ timer[i].doomed = {m}
                            /\ sent_alert_tracker' = [sent_alert_tracker EXCEPT ![m] = NONE]
    <3>1. DeleteExpired(i) => timer[i].doomed = {m}
      BY DEF DeleteExpired, Lone, CleansAddress
    <3>2. QED
      BY <3>1 DEF DeleteExpired
  <2>2. QED
    BY <2>1 DEF Finalise, Fire, Finalize, IdentityDecoded, IdentityRemembered, RememberRaises,
         IdentityInferred, Suppress, CheckRaises, PassCooldown, Scan, ScanRaises, DeleteExpired, DeleteRaises,
         DropState, DropRest, DropFirstSeen, DropPosition, DropMacs, DropMapping,
         Write, WriteRaises, MarkSent, Die
<1>11. TwoKeys(m, r)'
  BY <1>2, <1>3, <1>10 DEF Lone, TwoKeys, FreeTimer
<1>12. Succession(m, r)'
  <2>1. sent_alert_tracker'[r] # NONE /\ r # m => sent_alert_tracker[r] # NONE \/ (MarkSent(i) /\ timer[i].key = r)
    BY <1>3, <1>10
  <2>2. ASSUME r # m, NEW j \in Timers, timer'[j].pc # "free", timer'[j].key = m
        PROVE  /\ timer'[j].pc \in Running
               /\ sent_alert_tracker'[r] = NONE
               /\ \A x \in Timers : timer'[x].pc # "free" /\ timer'[x].key # m
                                    => timer'[x].pc = "armed" /\ timer'[x].due > timer'[j].since + Stall
    <3>1. timer[j].pc # "free" /\ timer[j].key = m
      BY <1>2, <2>2 DEF FreeTimer
    <3>2. /\ timer[j].pc \in Running /\ sent_alert_tracker[r] = NONE
          /\ \A x \in Timers : timer[x].pc # "free" /\ timer[x].key # m
                               => timer[x].pc = "armed" /\ timer[x].due > timer[j].since + Stall
      BY <2>2, <3>1 DEF Lone, Succession
    <3>3. timer'[j].pc \in Running
      BY <1>2, <2>2, <3>2 DEF FreeTimer
    <3>4. timer'[j].since = timer[j].since
      <4>1. CASE j = i
        <5>1. ~ Fire(i)
          BY <3>2, <4>1 DEF Fire, Running
        <5>2. QED
          BY <2>2, <4>1, <5>1, FinaliserClock DEF Known
      <4>2. QED
        BY <1>2, <4>1
    <3>5. sent_alert_tracker'[r] = NONE
      BY <1>2, <2>1, <2>2, <3>2 DEF MarkSent
    <3>6. ~ (Fire(i) /\ timer[i].key # m)
      <4>1. ASSUME Fire(i), timer[i].key # m PROVE FALSE
        <5>1. now >= timer[i].due /\ timer[i].due > timer[j].since + Stall
          BY <1>2, <3>2, <4>1 DEF Fire
        <5>2. now <= timer[j].since + Stall
          BY <3>2 DEF Known, OnTime
        <5>3. now \in Nat /\ Stall \in Nat /\ timer[j].since \in Nat /\ timer[i].due \in Nat
          BY Numbers DEF Known, IInv
        <5>4. QED
          BY <5>1, <5>2, <5>3
      <4>2. QED
        BY <4>1
    <3>7. ASSUME NEW x \in Timers, timer'[x].pc # "free", timer'[x].key # m
          PROVE  timer'[x].pc = "armed" /\ timer'[x].due > timer[j].since + Stall
      <4>1. timer[x].pc = "armed" /\ timer[x].due > timer[j].since + Stall
        BY <1>2, <3>2, <3>7 DEF FreeTimer
      <4>2. x # i
        <5>1. x = i => Fire(i)
          BY <4>1, FinaliserClock DEF Known, Running
        <5>2. QED
          BY <1>2, <3>6, <3>7, <5>1 DEF FreeTimer
      <4>3. QED
        BY <1>2, <4>1, <4>2
    <3>8. QED
      BY <3>3, <3>4, <3>5, <3>7
  <2>3. QED
    BY <2>2 DEF Succession
<1>13. Registered({r})'
  <2>1. CASE Fire(i)
    BY <2>1, FireTimer DEF Fire, Lone, Registered, Known
  <2>2. CASE Finalize(i)
    <3>1. pending_alert_timers' = [pending_alert_timers EXCEPT ![timer[i].key] = NONE]
          /\ timer[i].pc = "fired"
      BY <2>2 DEF Finalize
    <3>2. timer'[i].pc \notin {"armed", "fired"}
      BY <2>2, FinaliserClock DEF Finalize, Fire, Known
    <3>3. QED
      BY <1>2, <1>3, <3>1, <3>2 DEF Lone, Registered
  <2>3. CASE ~ Fire(i) /\ ~ Finalize(i)
    <3>1. pending_alert_timers' = pending_alert_timers
      BY <2>3 DEF Finalise, IdentityDecoded, IdentityRemembered, RememberRaises,
         IdentityInferred, Suppress, CheckRaises, PassCooldown, Scan, ScanRaises, DeleteExpired, DeleteRaises,
         DropState, DropRest, DropFirstSeen, DropPosition, DropMacs, DropMapping,
         Write, WriteRaises, MarkSent, Die
    <3>2. timer'[i].pc \notin {"armed", "fired"}
      BY <2>3, FinaliserClock DEF Known
    <3>3. QED
      BY <1>2, <3>1, <3>2 DEF Lone, Registered
  <2>4. QED
    BY <2>1, <2>2, <2>3
<1>14. CleansAddress(m)'
  <2>1. ASSUME NEW j \in Timers \ {i}
        PROVE  /\ timer'[j].pc = "delete" => /\ timer'[j].key # m /\ timer'[j].doomed = {m}
                                             /\ sent_alert_tracker'[m] # NONE
               /\ timer'[j].pc \in Dropping
                  => timer'[j].key # m /\ timer'[j].victim = m /\ timer'[j].doomed = {}
               /\ timer'[j].pc # "dropMapping"
    <3>1. timer'[j] = timer[j]
      BY <1>2
    <3>2. timer[j].pc = "delete" => ~ DeleteExpired(i) /\ ~ MarkSent(i)
      <4>1. timer[j].pc = "delete" => timer[j].pc \in Running
        BY DEF Running
      <4>2. DeleteExpired(i) \/ MarkSent(i) => timer[i].pc \in Running
        BY DEF DeleteExpired, MarkSent, Running
      <4>3. QED
        BY <4>1, <4>2, OneRunner DEF Lone
    <3>3. QED
      BY <1>10, <3>1, <3>2 DEF Lone, CleansAddress
  <2>2. /\ timer'[i].pc = "delete" => /\ timer'[i].key # m /\ timer'[i].doomed = {m}
                                      /\ sent_alert_tracker'[m] # NONE
        /\ timer'[i].pc \in Dropping
           => timer'[i].key # m /\ timer'[i].victim = m /\ timer'[i].doomed = {}
        /\ timer'[i].pc # "dropMapping"
    <3>1. CASE Scan(i)
      <4>1. timer[i].pc \in Passed /\ sent_alert_tracker' = sent_alert_tracker
        BY <3>1 DEF Scan, Passed
      <4>2. \A k \in Keys : sent_alert_tracker[k] # NONE => k = m /\ timer[i].key # m
        BY <4>1, ScanFinds DEF Lone
      <4>3. timer'[i].doomed = Expired(timer[i].at)
            /\ timer'[i].pc \in {"write", "delete"} /\ timer'[i].key = timer[i].key
        BY <3>1, ScanTimer DEF Known, Advances
      <4>4. timer'[i].pc = "delete" => Expired(timer[i].at) # {}
        BY <1>3, <3>1 DEF Scan, TimerState
      <4>5. Expired(timer[i].at) # {} => /\ Expired(timer[i].at) = {m} /\ timer[i].key # m
                                         /\ sent_alert_tracker[m] # NONE
        BY <4>2 DEF Expired
      <4>6. QED
        BY <4>1, <4>3, <4>4, <4>5
    <3>2. CASE DeleteExpired(i)
      <4>1. timer[i].pc = "delete" /\ timer[i].doomed = {m} /\ timer[i].key # m
        BY <3>2 DEF DeleteExpired, Lone, CleansAddress
      <4>2. timer' = [timer EXCEPT ![i].pc = "dropState", ![i].victim = m,
                                   ![i].doomed = timer[i].doomed \ {m}]
        BY <1>3, <3>2, <4>1 DEF DeleteExpired
      <4>3. QED
        BY <1>3, <4>1, <4>2 DEF TimerState
    <3>3. CASE DropState(i) \/ DropRest(i)
      <4>1. CleansOn(i, m)
        BY <3>3, CleanUpTimers
      <4>2. timer[i].key # m /\ timer[i].doomed = {}
        BY <4>1 DEF Lone, CleansAddress, CleansOn
      <4>3. QED
        BY <4>1, <4>2 DEF CleansOn, SameTask
    <3>4. CASE ~ (Scan(i) \/ DeleteExpired(i) \/ DropState(i) \/ DropRest(i))
      <4>1. timer'[i].pc \notin Deleting
        <5>1. CASE PassCooldown(i) \/ Write(i) \/ MarkSent(i) \/ Fire(i)
          BY <5>1, PassCooldownTimer, WriteTimer, MarkSentTimer, FireTimer DEF Known, Deleting
        <5>2. CASE ~ (PassCooldown(i) \/ Write(i) \/ MarkSent(i) \/ Fire(i))
          <6>1. timer[i].pc \notin Deleting
            BY <1>1, <3>4, <5>2 DEF Finalise, Finalize, IdentityDecoded, IdentityRemembered,
               IdentityInferred, Suppress, WriteRaises, Deleting
          <6>2. Continues(i)
            BY <3>4, <5>2, QuietSteps DEF Finalise, Quiet, Known
          <6>3. QED
            BY <6>1, <6>2 DEF Continues
        <5>3. QED
          BY <5>1, <5>2
      <4>2. QED
        BY <4>1 DEF Deleting
    <3>5. QED
      BY <3>1, <3>2, <3>3, <3>4
  <2>3. QED
    BY <2>1, <2>2 DEF CleansAddress
<1>15. Promised'
  <2>1. \A k \in owed' : k \in owed /\ k = r /\ drone_state'[k] # NONE
    BY <1>2, <1>3, <1>7 DEF Lone, Promised, OneEntry
  <2>2. CsvFails \/ lost' = {}
    BY <1>1 DEF Finalise, Fire, Finalize, IdentityDecoded, IdentityRemembered,
         IdentityInferred, Suppress, CheckRaises, PassCooldown, Scan, DeleteExpired,
         DropState, DropRest, DropFirstSeen, DropPosition, DropMacs, DropMapping,
         Write, WriteRaises, MarkSent, Lone, Promised
  <2>3. ASSUME NEW k \in owed', k \in lost PROVE k \in lost'
    BY <2>3 DEF Finalise, Fire, Finalize, IdentityDecoded, IdentityRemembered, RememberRaises,
         IdentityInferred, Suppress, CheckRaises, PassCooldown, Scan, ScanRaises, DeleteExpired, DeleteRaises,
         DropState, DropRest, DropFirstSeen, DropPosition, DropMacs, DropMapping,
         Write, WriteRaises, MarkSent, Die
  <2>4. ASSUME NEW k \in owed', NEW t \in Threads, capture[t].key = k PROVE Attended(k)'
    BY <1>2, <2>4 DEF Attended
  <2>5. ASSUME NEW k \in owed', NEW j \in Timers, timer[j].key = k, timer[j].pc # "mark"
        PROVE  k \in lost' \/ Attended(k)'
    <3>1. CASE j # i
      BY <1>2, <2>5, <3>1 DEF Attended
    <3>2. CASE j = i /\ WriteRaises(i)
      BY <2>5, <3>2 DEF WriteRaises, Die
    <3>3. CASE j = i /\ (Suppress(i) \/ Write(i))
      BY <2>5, <3>3 DEF Suppress, Write
    <3>4. CASE j = i /\ ~ (WriteRaises(i) \/ Suppress(i) \/ Write(i))
      <4>1. timer'[i].pc # "free" /\ timer'[i].pc # "mark"
        <5>1. CASE Finalize(i)
          <6>1. drone_state[timer[i].key] # NONE
            BY <1>2, <2>1, <2>5, <3>4
          <6>2. timer' = [timer EXCEPT ![i].pc = "identify", ![i].live = TRUE]
            BY <5>1, <6>1 DEF Finalize
          <6>3. QED
            BY <1>3, <6>2 DEF TimerState
        <5>2. CASE IdentityDecoded(i) \/ IdentityRemembered(i)
          BY <1>3, <5>2 DEF IdentityDecoded, IdentityRemembered, TimerState
        <5>3. CASE IdentityInferred(i)
          <6>1. PICK id \in Maybe(Remembered) :
                  timer' = [timer EXCEPT ![i] =
                              IF id = NONE
                              THEN [@ EXCEPT !.pc = "check"]
                              ELSE [@ EXCEPT !.pc = "check", !.source = "inferred",
                                             !.live = FALSE,
                                             !.obj = [Held(i) EXCEPT !.id = id]]]
            BY <5>3 DEF IdentityInferred
          <6> DEFINE q == IF id = NONE
                          THEN [timer[i] EXCEPT !.pc = "check"]
                          ELSE [timer[i] EXCEPT !.pc = "check", !.source = "inferred",
                                                !.live = FALSE,
                                                !.obj = [Held(i) EXCEPT !.id = id]]
          <6>2. timer' = [timer EXCEPT ![i] = q]
            BY <6>1
          <6>3. q.pc = "check"
            BY <1>3 DEF TimerState
          <6> HIDE DEF q
          <6>4. QED
            BY <1>3, <6>2, <6>3
        <5>4. CASE PassCooldown(i) \/ Scan(i) \/ DeleteExpired(i) \/ Fire(i)
          BY <5>4, PassCooldownTimer, ScanTimer, DeleteExpiredTimer, FireTimer DEF Known
        <5>5. CASE DropState(i) \/ DropRest(i)
          <6>1. CleansOn(i, m)
            BY <5>5, CleanUpTimers
          <6>2. QED
            BY <6>1 DEF CleansOn
        <5>6. QED
          BY <1>1, <2>5, <3>4, <5>1, <5>2, <5>3, <5>4, <5>5 DEF Finalise, MarkSent
      <4>2. timer'[i].key = k
        BY <1>2, <2>5, <3>4, <4>1 DEF FreeTimer
      <4>3. QED
        BY <4>1, <4>2 DEF Attended
    <3>5. QED
      BY <3>1, <3>2, <3>3, <3>4
  <2>6. \A k \in owed' : k \in lost' \/ Attended(k)'
    BY <2>1, <2>3, <2>4, <2>5 DEF Lone, Promised, Attended
  <2>7. QED
    BY <2>1, <2>2, <2>6 DEF Promised
<1>16. QED
  BY <1>4, <1>5, <1>6, <1>8, <1>9, <1>11, <1>12, <1>13, <1>14, <1>15 DEF Lone

LEMMA StepLone ==
  ASSUME Timing, SingleIdentity, NEW ear, NEW m \in Macs, AloneOn(ear, m), Known,
         \E r \in Keys : Lone(ear, m, r), [Next]_vars
  PROVE  \E r \in Keys : Lone(ear, m, r)'
<1>1. PICK r \in Keys : Lone(ear, m, r)
  OBVIOUS
<1>2. ASSUME NEW t \in Threads, MergeRekey(t) PROVE \E u \in Keys : Lone(ear, m, u)'
  BY <1>1, <1>2, RekeyLone
<1>3. ASSUME NEW t \in Threads, Hear(t) \/ Register(t), ~ MergeRekey(t) PROVE Lone(ear, m, r)'
  BY <1>1, <1>3, InPlaceLone, CaptureLone, ScheduleLone DEF Register
<1>4. ASSUME NEW i \in Timers, Finalise(i) PROVE Lone(ear, m, r)'
  BY <1>1, <1>4, FinaliserLone
<1>5. CASE Tick \/ Horizon \/ UNCHANGED vars
  <2>1. UNCHANGED <<contact, timer, capture, sent_alert_tracker, pending_alert_timers, owed, lost>>
    BY <1>5 DEF Tick, Horizon, vars, contact
  <2>2. Attended(r)' <=> Attended(r)
    BY <2>1 DEF Attended
  <2>3. \A k \in owed : k = r
    BY <1>1 DEF Lone, OneEntry, Known, IInv, TypeOK
  <2>4. Promised'
    BY <1>1, <2>1, <2>2, <2>3 DEF Lone, Promised, contact
  <2>5. QED
    BY <1>1, <2>1, <2>4 DEF Lone, OneListener, OneEntry, TwoKeys, Succession, Registered,
       CleansAddress, Undisturbed, PositionTimeMatches, resolve_state_key, contact
<1>6. QED
  BY <1>1, <1>2, <1>3, <1>4, <1>5 DEF Next

LEMMA InitLone ==
  ASSUME NEW ear, NEW m \in Macs, Init
  PROVE  Lone(ear, m, m)
<1>1. m \in Keys /\ NONE \notin Keys
  BY ContactsAssumption DEF Keys
<1>2. \A i \in Timers : timer[i] = FreeTimer /\ timer[i].pc = "free" /\ timer[i].macs = "private"
  BY DEF Init, FreeTimer
<1>3. \A t \in Threads : capture[t].pc = "idle" /\ capture[t].key = NONE
  BY DEF Init, IdleThread
<1>4. resolve_state_key(m) = m /\ drone_state[m] = NONE
  BY <1>1 DEF Init, resolve_state_key, OrElse
<1>5. OneListener(ear, m) /\ OneEntry(m)
  BY <1>3 DEF Init, OneListener, OneEntry
<1>6. TwoKeys(m, m) /\ Succession(m, m) /\ Registered({m}) /\ CleansAddress(m) /\ Undisturbed(m)
  BY <1>2 DEF Init, TwoKeys, Succession, Registered, CleansAddress, Undisturbed
<1>7. Promised /\ PositionTimeMatches
  BY DEF Init, Promised, PositionTimeMatches
<1>8. QED
  BY <1>4, <1>5, <1>6, <1>7 DEF Lone

LEMMA LoneKnown ==
  ASSUME NEW ear, NEW m \in Macs, NEW r \in Keys, Known, Lone(ear, m, r)
  PROVE  WaitingIsRegistered
<1>1. ASSUME NEW i \in Timers, timer[i].pc = "armed" PROVE timer[i].key = r
  <2>1. timer[i].key \in {m, r}
    BY <1>1 DEF Lone, TwoKeys
  <2>2. r # m => timer[i].key # m
    BY <1>1 DEF Lone, Succession, Running
  <2>3. QED
    BY <2>1, <2>2
<1>2. QED
  BY <1>1 DEF Lone, Registered, WaitingIsRegistered

\* An aircraft alone on one transport keeps what Lone says of it, whatever it sends and
\* however its threads interleave.
THEOREM LoneAircraft ==
  ASSUME Timing, SingleIdentity, NEW ear, NEW m \in Macs, AloneOn(ear, m)
  PROVE  Spec => [](Known /\ \E r \in Keys : Lone(ear, m, r))
<1> DEFINE LoneIInv == Known /\ \E r \in Keys : Lone(ear, m, r)
<1>1. Init => LoneIInv
  <2>1. Init => Known
    BY InitIInv, InitOnTime, InitApart DEF Known, Identified, Init
  <2>2. m \in Keys
    BY DEF Keys
  <2>3. QED
    BY <2>1, <2>2, InitLone
<1>2. LoneIInv /\ [Next]_vars => LoneIInv'
  <2> SUFFICES ASSUME LoneIInv, [Next]_vars PROVE LoneIInv'
    OBVIOUS
  <2>1. IInv' /\ OnTime' /\ Identified'
    BY StepIInv, StepOnTime, StepIdentified DEF Known
  <2>2. WaitingIsRegistered
    BY LoneKnown
  <2>3. Apart(Keys)'
    BY <2>2, StepApart DEF WaitingIsRegistered, Waiting, Known
  <2>4. QED
    BY <2>1, <2>3, StepLone DEF Known
<1>3. QED
  BY <1>1, <1>2, PTL DEF Spec

\* A contact for which an alert was scheduled is not forgotten, as long as its aircraft is
\* alone on its transport and the CSV file can be written.
THEOREM LoneNeverForgotten ==
  Timing /\ SingleIdentity /\ Alone /\ ~ CsvFails => (Spec => []NoForgottenContact)
<1> SUFFICES ASSUME Timing, SingleIdentity, Alone, ~ CsvFails PROVE Spec => []NoForgottenContact
  OBVIOUS
<1>1. PICK ear \in Threads, m \in Macs : AloneOn(ear, m)
  BY DEF Alone
<1>2. (\E r \in Keys : Lone(ear, m, r)) => NoForgottenContact
  BY DEF Lone, Promised, NoForgottenContact
<1>3. Spec => [](Known /\ \E r \in Keys : Lone(ear, m, r))
  BY <1>1, LoneAircraft
<1>4. QED
  BY <1>2, <1>3, PTL

\* The time on record for a position is that of the position the contact carries, as long
\* as its aircraft is alone on its transport.
THEOREM LonePositionTime ==
  Timing /\ SingleIdentity /\ Alone => (Spec => []PositionTimeMatches)
<1> SUFFICES ASSUME Timing, SingleIdentity, Alone PROVE Spec => []PositionTimeMatches
  OBVIOUS
<1>1. PICK ear \in Threads, m \in Macs : AloneOn(ear, m)
  BY DEF Alone
<1>2. (\E r \in Keys : Lone(ear, m, r)) => PositionTimeMatches
  BY DEF Lone
<1>3. Spec => [](Known /\ \E r \in Keys : Lone(ear, m, r))
  BY <1>1, LoneAircraft
<1>4. QED
  BY <1>2, <1>3, PTL

\* And no finaliser of it ends in an exception but for the CSV file: neither its
\* dictionaries nor its set of addresses change under an iteration.
THEOREM LoneNeverRaises ==
  Timing /\ SingleIdentity /\ Alone /\ ~ CsvFails => (Spec => [](lost = {}))
<1> SUFFICES ASSUME Timing, SingleIdentity, Alone, ~ CsvFails PROVE Spec => [](lost = {})
  OBVIOUS
<1>1. PICK ear \in Threads, m \in Macs : AloneOn(ear, m)
  BY DEF Alone
<1>2. (\E r \in Keys : Lone(ear, m, r)) => lost = {}
  BY DEF Lone, Promised
<1>3. Spec => [](Known /\ \E r \in Keys : Lone(ear, m, r))
  BY <1>1, LoneAircraft
<1>4. QED
  BY <1>2, <1>3, PTL
-----------------------------------------------------------------------------
(* The outbox.                                                             *)

\* The ids in the table are those handed out so far, without a gap.
Gapless == enqueue_failures <= logged /\ Present = 1..(logged - enqueue_failures)

\* The server's verdict on a row is that of its validation, and never changes.
Judged == /\ valid \subseteq Present /\ refused \subseteq Present \ valid
          /\ \A i \in Ids : copies[i] > 0 => i \in valid

\* A batch in flight holds pending rows, no more than fit.
InFlight == /\ batch \subseteq Pending
            /\ sync = "idle" => batch = {}
            /\ \A i \in batch : Index(batch, i) < BatchSize

\* Once answered, the batch has been judged, and what the answer lists stands
\* for refused rows: for all of them unless it was cut short.
Reported == sync = "answered" =>
              /\ \A i \in batch : IF i \in valid THEN copies[i] > 0 ELSE i \in refused
              /\ Rejected(batch, reply) \subseteq batch \ valid
              /\ ErrorCap >= BatchSize => Rejected(batch, reply) = batch \ valid

Settled == /\ ErrorIsRefused
           /\ ErrorCap >= BatchSize => SentIsStored

OutboxIInv == OutboxTypeOK /\ Gapless /\ Judged /\ InFlight /\ Reported /\ Settled

LEMMA IdsFinite == IsFiniteSet(Ids) /\ \A S \in SUBSET Ids : IsFiniteSet(S) /\ Cardinality(S) \in Nat
<1>1. IsFiniteSet(Ids)
  BY FS_Interval, OutboxAssumption DEF Ids
<1>2. QED
  BY <1>1, FS_Subset, FS_CardinalityType

\* Two ids of a batch have different indices, in the order of the ids.
LEMMA IndexOrdered ==
  ASSUME NEW S \in SUBSET Ids, NEW i \in S, NEW j \in S, i < j
  PROVE  Index(S, i) \in Nat /\ Index(S, j) \in Nat /\ Index(S, i) < Index(S, j)
<1> DEFINE A == {x \in S : x < i}
           B == {x \in S : x < j}
<1>1. i \in Int /\ j \in Int /\ S \subseteq Int
  BY OutboxAssumption DEF Ids
<1>2. A \subseteq B /\ i \in B /\ i \notin A
  <2>1. \A x \in S : x \in Int /\ (x < i => x < j)
    BY <1>1
  <2>2. ~ (i < i)
    BY <1>1
  <2>3. QED
    BY <2>1, <2>2
<1>3. IsFiniteSet(B) /\ Cardinality(A) \in Nat /\ Cardinality(B) \in Nat
  <2>1. A \in SUBSET Ids /\ B \in SUBSET Ids
    OBVIOUS
  <2>2. QED
    BY <2>1, IdsFinite
<1> HIDE DEF A, B
<1>4. Cardinality(A) <= Cardinality(B) /\ Cardinality(A) # Cardinality(B)
  BY <1>2, <1>3, FS_Subset
<1>5. QED
  BY <1>3, <1>4 DEF Index, A, B

LEMMA IndexType ==
  ASSUME NEW S \in SUBSET Ids, NEW i
  PROVE  Index(S, i) \in Nat
<1>1. {j \in S : j < i} \in SUBSET Ids
  OBVIOUS
<1>2. QED
  BY <1>1, IdsFinite DEF Index

\* The indices of some of a batch's ids stand for exactly those ids.
LEMMA RejectedExactly ==
  ASSUME NEW S \in SUBSET Ids, NEW T \in SUBSET S
  PROVE  Rejected(S, {Index(S, i) : i \in T}) = T
<1>1. ASSUME NEW i \in S, NEW j \in T, Index(S, i) = Index(S, j)
      PROVE  i = j
  <2>1. i \in Int /\ j \in Int /\ i \in S /\ j \in S
    BY OutboxAssumption DEF Ids
  <2>2. ~ (i < j)
    <3> SUFFICES ASSUME i < j PROVE FALSE
      OBVIOUS
    <3>1. Index(S, i) \in Nat /\ Index(S, i) < Index(S, j)
      BY <2>1, IndexOrdered
    <3>2. QED
      BY <1>1, <3>1
  <2>3. ~ (j < i)
    <3> SUFFICES ASSUME j < i PROVE FALSE
      OBVIOUS
    <3>1. Index(S, j) \in Nat /\ Index(S, j) < Index(S, i)
      BY <2>1, IndexOrdered
    <3>2. QED
      BY <1>1, <3>1
  <2>4. QED
    BY <2>1, <2>2, <2>3
<1>2. QED
  BY <1>1 DEF Rejected

LEMMA RejectedMonotone ==
  ASSUME NEW S, NEW A, NEW B \in SUBSET A
  PROVE  Rejected(S, B) \subseteq Rejected(S, A)
  BY DEF Rejected

LEMMA MinOfTwo ==
  ASSUME NEW a \in Nat, NEW b \in Nat
  PROVE  Min({a, b}) \in Nat /\ (a <= b => Min({a, b}) = a)
<1>1. \E x \in {a, b} : \A y \in {a, b} : x =< y
  OBVIOUS
<1>2. Min({a, b}) \in {a, b} /\ \A y \in {a, b} : Min({a, b}) =< y
  BY <1>1 DEF Min
<1>3. QED
  BY <1>2

LEMMA OutboxInitIInv == OutboxInit => OutboxIInv
<1> SUFFICES ASSUME OutboxInit PROVE OutboxIInv
  OBVIOUS
<1>1. OutboxTypeOK
  BY OutboxAssumption DEF OutboxInit, OutboxTypeOK
<1>2. Gapless /\ Judged /\ InFlight /\ Reported /\ Settled
  BY OutboxAssumption DEF OutboxInit, Gapless, Judged, InFlight, Reported, Settled, Present, Pending,
     ErrorIsRefused, SentIsStored
<1>3. QED
  BY <1>1, <1>2 DEF OutboxIInv
-----------------------------------------------------------------------------
(* The table.                                                              *)

\* The id of a new row is the first that was never used.
LEMMA NextIdFresh ==
  ASSUME OutboxIInv, logged < MaxRows
  PROVE  /\ NextId = logged - enqueue_failures + 1
         /\ NextId \in Ids \ Present
<1>1. logged \in Nat /\ enqueue_failures \in Nat /\ enqueue_failures <= logged
      /\ Present = 1..(logged - enqueue_failures) /\ MaxRows \in Nat
  BY OutboxAssumption DEF OutboxIInv, OutboxTypeOK, Gapless
<1>2. Cardinality(Present) = logged - enqueue_failures
  BY <1>1, FS_Interval
<1>3. QED
  BY <1>1, <1>2 DEF NextId, Ids

LEMMA EnqueueIInv == ASSUME OutboxIInv, Enqueue PROVE OutboxIInv'
<1> DEFINE n == NextId
<1>1. n = logged - enqueue_failures + 1 /\ n \in Ids /\ n \notin Present
  BY NextIdFresh DEF Enqueue
<1>2. /\ row' = [row EXCEPT ![n] = "pending"] /\ logged' = logged + 1
      /\ valid' \in {valid, valid \cup {n}}
      /\ UNCHANGED <<enqueue_failures, sync, batch, reply, copies, refused, faults>>
  BY DEF Enqueue, server
<1> HIDE DEF n
<1>3. row[n] = "absent" /\ \A i \in Ids : row'[i] = IF i = n THEN "pending" ELSE row[i]
  BY <1>1, <1>2 DEF OutboxIInv, OutboxTypeOK, Present
<1>4. Present' = Present \cup {n} /\ Pending' = Pending \cup {n}
  BY <1>1, <1>3 DEF Present, Pending
<1>5. OutboxTypeOK'
  <2>1. row' \in [Ids -> {"absent", "pending", "sent", "error"}]
    BY <1>1, <1>2 DEF OutboxIInv, OutboxTypeOK
  <2>2. valid' \subseteq Ids
    BY <1>1, <1>2 DEF OutboxIInv, OutboxTypeOK
  <2>3. logged' \in 0..MaxRows
    <3>1. logged < MaxRows
      BY DEF Enqueue
    <3>2. QED
      BY <1>2, <3>1, OutboxAssumption DEF OutboxIInv, OutboxTypeOK
  <2>4. QED
    BY <1>2, <2>1, <2>2, <2>3 DEF OutboxIInv, OutboxTypeOK
<1>6. Gapless'
  <2>1. logged \in Nat /\ enqueue_failures \in Nat
    BY DEF OutboxIInv, OutboxTypeOK
  <2>2. QED
    BY <1>1, <1>2, <1>4, <2>1 DEF OutboxIInv, Gapless
<1>7. Judged'
  BY <1>1, <1>2, <1>4 DEF OutboxIInv, Judged
<1>8. n \notin batch
  BY <1>3 DEF OutboxIInv, InFlight, Pending
<1>9. InFlight'
  BY <1>2, <1>4 DEF OutboxIInv, InFlight, Index
<1>10. batch \ valid' = batch \ valid /\ \A i \in batch : i \in valid' <=> i \in valid
  BY <1>2, <1>8
<1>11. Reported'
  BY <1>2, <1>10 DEF OutboxIInv, Reported, Rejected, Index
<1>12. Settled'
  BY <1>2, <1>3 DEF OutboxIInv, Settled, ErrorIsRefused, SentIsStored
<1>13. QED
  BY <1>5, <1>6, <1>7, <1>9, <1>11, <1>12 DEF OutboxIInv

LEMMA EnqueueFailsIInv == ASSUME OutboxIInv, EnqueueFails PROVE OutboxIInv'
<1>1. logged' = logged + 1 /\ enqueue_failures' = enqueue_failures + 1 /\ logged < MaxRows
      /\ UNCHANGED <<row, valid, sync, batch, reply, copies, refused, faults>>
  BY DEF EnqueueFails, server
<1>2. logged \in Nat /\ enqueue_failures \in Nat /\ enqueue_failures <= logged
      /\ MaxRows \in Nat
  BY OutboxAssumption DEF OutboxIInv, OutboxTypeOK, Gapless
<1>3. logged' - enqueue_failures' = logged - enqueue_failures
      /\ enqueue_failures' <= logged' /\ logged' \in 0..MaxRows /\ enqueue_failures' \in 0..MaxRows
  BY <1>1, <1>2
<1>4. OutboxTypeOK' /\ Gapless'
  BY <1>1, <1>3 DEF OutboxIInv, OutboxTypeOK, Gapless, Present
<1>5. Judged' /\ InFlight' /\ Reported' /\ Settled'
  BY <1>1 DEF OutboxIInv, Judged, InFlight, Reported, Settled, Present, Pending, Index, Rejected,
     ErrorIsRefused, SentIsStored
<1>6. QED
  BY <1>4, <1>5 DEF OutboxIInv
-----------------------------------------------------------------------------
(* sync_outbox.                                                            *)

LEMMA SelectIInv == ASSUME OutboxIInv, Select PROVE OutboxIInv'
<1>1. batch' = OldestFirst(Pending) /\ sync' = "posting"
      /\ UNCHANGED <<row, valid, logged, enqueue_failures, reply, copies, refused, faults>>
  BY DEF Select, Selected, server
<1>2. batch' \subseteq Pending /\ Pending \subseteq Ids /\ batch' \in SUBSET Ids
  BY <1>1 DEF OldestFirst, Pending
<1>3. ASSUME NEW i \in batch' PROVE Index(batch', i) < BatchSize
  <2> DEFINE A == {j \in batch' : j < i}
             B == {j \in Pending : j < i}
  <2>1. A \subseteq B /\ A \in SUBSET Ids /\ B \in SUBSET Ids
    BY <1>2
  <2>2. Cardinality(B) < BatchSize
    BY <1>1, <1>3 DEF OldestFirst, Index
  <2> HIDE DEF A, B
  <2>3. Cardinality(A) <= Cardinality(B) /\ Cardinality(A) \in Nat /\ Cardinality(B) \in Nat
    BY <2>1, IdsFinite, FS_Subset
  <2>4. Cardinality(A) < BatchSize
    BY <2>2, <2>3, OutboxAssumption
  <2>5. QED
    BY <2>4 DEF A, Index
<1>4. InFlight'
  BY <1>1, <1>2, <1>3 DEF InFlight, Pending
<1>5. OutboxTypeOK' /\ Gapless' /\ Judged' /\ Reported' /\ Settled'
  BY <1>1, <1>2 DEF OutboxIInv, OutboxTypeOK, Gapless, Judged, Reported, Settled, Present, ErrorIsRefused,
     SentIsStored
<1>6. QED
  BY <1>4, <1>5 DEF OutboxIInv

\* What the server's answer lists: nothing but indices of refused rows, and all
\* of them when the answer has room for a whole batch.
LEMMA Listed ==
  ASSUME OutboxIInv, Answer
  PROVE  LET bad == {Index(batch, i) : i \in batch \ valid}
         IN  reply' \subseteq bad /\ bad \subseteq Nat /\ (ErrorCap >= BatchSize => reply' = bad)
<1> DEFINE bad == {Index(batch, i) : i \in batch \ valid}
<1>1. batch \in SUBSET Ids /\ \A i \in batch : Index(batch, i) < BatchSize
  BY DEF OutboxIInv, OutboxTypeOK, InFlight
<1>2. reply' \subseteq bad /\ Cardinality(reply') = Min({Cardinality(bad), ErrorCap})
  BY DEF Answer
<1>3. BatchSize \in Nat /\ ErrorCap \in Nat
  BY OutboxAssumption
<1>4. bad \subseteq 0..(BatchSize - 1)
  BY <1>1, <1>3, IndexType
<1>5. IsFiniteSet(0..(BatchSize - 1)) /\ Cardinality(0..(BatchSize - 1)) = BatchSize
  BY FS_Interval, OutboxAssumption
<1> HIDE DEF bad
<1>6. IsFiniteSet(bad) /\ Cardinality(bad) <= BatchSize /\ Cardinality(bad) \in Nat
  BY <1>4, <1>5, FS_Subset, FS_CardinalityType
<1>7. ErrorCap >= BatchSize => Cardinality(reply') = Cardinality(bad)
  <2> SUFFICES ASSUME ErrorCap >= BatchSize PROVE Cardinality(reply') = Cardinality(bad)
    OBVIOUS
  <2>1. Cardinality(bad) <= ErrorCap
    BY <1>3, <1>6
  <2>2. Min({Cardinality(bad), ErrorCap}) = Cardinality(bad)
    BY <1>3, <1>6, <2>1, MinOfTwo
  <2>3. QED
    BY <1>2, <2>2
<1>8. ErrorCap >= BatchSize => reply' = bad
  BY <1>2, <1>6, <1>7, FS_Subset
<1>9. QED
  BY <1>2, <1>4, <1>8 DEF bad

LEMMA AnswerIInv == ASSUME OutboxIInv, Answer PROVE OutboxIInv'
<1> DEFINE bad == {Index(batch, i) : i \in batch \ valid}
<1>1. /\ sync = "posting" /\ sync' = "answered"
      /\ copies' = [i \in Ids |-> IF i \in batch \cap valid THEN copies[i] + 1 ELSE copies[i]]
      /\ refused' = refused \cup (batch \ valid)
      /\ UNCHANGED <<row, valid, logged, enqueue_failures, batch, faults>>
  BY DEF Answer
<1>2. batch \in SUBSET Ids /\ batch \subseteq Present /\ copies \in [Ids -> Nat]
  BY DEF OutboxIInv, OutboxTypeOK, InFlight, Pending, Present
<1>3. reply' \subseteq bad /\ bad \subseteq Nat /\ (ErrorCap >= BatchSize => reply' = bad)
  BY Listed
<1>4. Rejected(batch, bad) = batch \ valid
  <2>1. batch \ valid \in SUBSET batch
    OBVIOUS
  <2>2. QED
    BY <1>2, <2>1, RejectedExactly
<1> HIDE DEF bad
<1>5. Rejected(batch, reply') \subseteq batch \ valid
      /\ (ErrorCap >= BatchSize => Rejected(batch, reply') = batch \ valid)
  BY <1>3, <1>4, RejectedMonotone
<1>6. \A i \in Ids : /\ copies[i] > 0 => copies'[i] > 0
                     /\ copies'[i] > 0 => copies[i] > 0 \/ i \in batch \cap valid
                     /\ i \in batch \cap valid => copies'[i] > 0
                     /\ copies'[i] \in Nat
  BY <1>1, <1>2
<1>7. OutboxTypeOK'
  BY <1>1, <1>2, <1>3, <1>6 DEF OutboxIInv, OutboxTypeOK
<1>8. Gapless' /\ InFlight'
  BY <1>1 DEF OutboxIInv, Gapless, InFlight, Present, Pending, Index
<1>9. Judged'
  BY <1>1, <1>2, <1>6 DEF OutboxIInv, Judged, Present
<1>10. Reported'
  <2>1. \A i \in batch : IF i \in valid THEN copies'[i] > 0 ELSE i \in refused'
    BY <1>1, <1>2, <1>6
  <2>2. batch' = batch /\ valid' = valid
    BY <1>1
  <2>3. QED
    BY <1>5, <2>1, <2>2 DEF Reported, Rejected, Index
<1>11. Settled'
  BY <1>1, <1>6 DEF OutboxIInv, Settled, ErrorIsRefused, SentIsStored
<1>12. QED
  BY <1>7, <1>8, <1>9, <1>10, <1>11 DEF OutboxIInv

LEMMA MarkIInv == ASSUME OutboxIInv, Mark PROVE OutboxIInv'
<1>1. /\ sync = "answered" /\ sync' = "idle" /\ batch' = {} /\ reply' = {}
      /\ row' = [i \in Ids |-> IF i \notin batch THEN row[i]
                               ELSE IF i \in Rejected(batch, reply) THEN "error" ELSE "sent"]
      /\ UNCHANGED <<valid, logged, enqueue_failures, copies, refused, faults>>
  BY DEF Mark, server
<1>2. OutboxTypeOK'
  BY <1>1 DEF OutboxIInv, OutboxTypeOK
<1>3. Present' = Present
  BY <1>1 DEF OutboxIInv, InFlight, Present, Pending
<1>4. Gapless' /\ Judged' /\ InFlight' /\ Reported'
  BY <1>1, <1>3 DEF OutboxIInv, Gapless, Judged, InFlight, Reported
<1>5. Settled'
  BY <1>1 DEF OutboxIInv, Settled, Reported, ErrorIsRefused, SentIsStored
<1>6. QED
  BY <1>2, <1>4, <1>5 DEF OutboxIInv

LEMMA AbandonIInv == ASSUME OutboxIInv, Abandon PROVE OutboxIInv'
<1>1. /\ sync' = "idle" /\ batch' = {} /\ reply' = {} /\ faults' \in 0..MaxFaults
      /\ UNCHANGED <<row, valid, logged, enqueue_failures, copies, refused>>
  BY OutboxAssumption DEF Abandon, server, OutboxIInv, OutboxTypeOK
<1>2. QED
  BY <1>1 DEF OutboxIInv, OutboxTypeOK, Gapless, Judged, InFlight, Reported, Settled, Present, Pending,
     ErrorIsRefused, SentIsStored

LEMMA OutboxStepIInv == OutboxIInv /\ [OutboxNext]_outboxVars => OutboxIInv'
<1> SUFFICES ASSUME OutboxIInv, [OutboxNext]_outboxVars PROVE OutboxIInv'
  OBVIOUS
<1>1. CASE UNCHANGED outboxVars
  BY <1>1 DEF OutboxIInv, OutboxTypeOK, Gapless, Judged, InFlight, Reported, Settled, Present, Pending,
     Index, Rejected, ErrorIsRefused, SentIsStored, outboxVars, server
<1>2. QED
  BY <1>1, EnqueueIInv, EnqueueFailsIInv, SelectIInv, AnswerIInv, MarkIInv, AbandonIInv
     DEF OutboxNext, Drained

THEOREM OutboxInductive == OutboxSpec => []OutboxIInv
  BY OutboxInitIInv, OutboxStepIInv, PTL DEF OutboxSpec

\* Whatever fails, and however many rows arrive while a batch is in flight, a row
\* is set aside only when the server refused that very row.
THEOREM OnlyRefusedSetAside == OutboxSpec => []ErrorIsRefused
<1>1. OutboxIInv => ErrorIsRefused
  BY DEF OutboxIInv, Settled
<1>2. QED
  BY <1>1, OutboxInductive, PTL

\* A row is marked sent only when the server has stored it, provided an answer
\* has room for the errors of a whole batch.
THEOREM OnlyStoredMarkedSent == ErrorCap >= BatchSize => (OutboxSpec => []SentIsStored)
<1> SUFFICES ASSUME ErrorCap >= BatchSize PROVE OutboxSpec => []SentIsStored
  OBVIOUS
<1>1. OutboxIInv => SentIsStored
  BY DEF OutboxIInv, Settled
<1>2. QED
  BY <1>1, OutboxInductive, PTL
-----------------------------------------------------------------------------
(* The queue implements Delivery.                                          *)

LEMMA InitDelivery == OutboxInit => D!DeliveryInit
  BY DEF OutboxInit, D!DeliveryInit, Present

\* Every step of the queue is a step of Delivery, or changes nothing it sees.
LEMMA StepDelivery ==
  ASSUME ErrorCap >= BatchSize, OutboxIInv, [OutboxNext]_outboxVars
  PROVE  [D!DeliveryNext]_(D!deliveryVars)
<1> DEFINE delivered == {i \in Ids : row[i] = "sent"}
           setAside == {i \in Ids : row[i] = "error"}
           kept == {i \in Ids : copies[i] > 0}
<1>1. CASE Enqueue
  <2>1. NextId \in Ids \ Present
    BY <1>1, NextIdFresh DEF Enqueue
  <2>2. /\ \A i \in Ids : row'[i] = IF i = NextId THEN "pending" ELSE row[i]
        /\ UNCHANGED <<copies, refused>>
    BY <1>1, <2>1 DEF Enqueue, server, OutboxIInv, OutboxTypeOK
  <2>3. row[NextId] = "absent"
    BY <2>1 DEF Present
  <2>4. /\ Present' = Present \cup {NextId} /\ delivered' = delivered
        /\ setAside' = setAside /\ kept' = kept
    BY <2>1, <2>2, <2>3 DEF Present
  <2>5. D!Take(NextId)
    BY <2>1, <2>2, <2>4 DEF D!Take
  <2>6. QED
    BY <2>1, <2>5 DEF D!DeliveryNext
<1>2. CASE Answer
  <2> DEFINE good == batch \cap valid
             bad == batch \ valid
  <2>1. batch \subseteq Present /\ Present \subseteq Ids /\ copies \in [Ids -> Nat]
    BY DEF OutboxIInv, OutboxTypeOK, InFlight, Pending, Present
  <2>2. /\ copies' = [i \in Ids |-> IF i \in good THEN copies[i] + 1 ELSE copies[i]]
        /\ refused' = refused \cup bad /\ row' = row
    BY <1>2 DEF Answer
  <2>3. kept' = kept \cup good
    BY <2>1, <2>2
  <2>4. good \cap (bad \cup refused) = {} /\ bad \cap kept = {}
    BY DEF OutboxIInv, Judged
  <2>5. Present' = Present /\ delivered' = delivered /\ setAside' = setAside
    BY <2>2 DEF Present
  <2> HIDE DEF good, bad, delivered, setAside, kept
  <2>6. good \in SUBSET Present /\ bad \in SUBSET Present
    BY <2>1 DEF good, bad
  <2>7. PICK g \in SUBSET Present, b \in SUBSET Present : g = good /\ b = bad
    BY <2>6
  <2>8. D!Judge(g, b)
    BY <2>2, <2>3, <2>4, <2>5, <2>6, <2>7 DEF D!Judge, delivered, setAside, kept
  <2>9. QED
    BY <2>8 DEF D!DeliveryNext
<1>3. CASE Mark
  <2> DEFINE good == batch \cap valid
             bad == batch \ valid
  <2>1. batch \subseteq Present /\ batch \subseteq Ids
    BY DEF OutboxIInv, InFlight, Pending, Present
  <2>2. Rejected(batch, reply) = bad
    BY <1>3 DEF Mark, OutboxIInv, Reported
  <2>3. /\ row' = [i \in Ids |-> IF i \in good THEN "sent" ELSE IF i \in bad THEN "error" ELSE row[i]]
        /\ UNCHANGED <<copies, refused>>
    BY <1>3, <2>2 DEF Mark, server
  <2>4. good \subseteq kept /\ bad \subseteq refused
    BY <1>3, <2>1 DEF Mark, OutboxIInv, Reported
  <2>5. /\ delivered' = delivered \cup good /\ setAside' = setAside \cup bad
        /\ Present' = Present /\ kept' = kept
    BY <2>1, <2>3 DEF OutboxIInv, InFlight, Pending, Present
  <2> HIDE DEF good, bad, delivered, setAside, kept
  <2>6. good \in SUBSET Present /\ bad \in SUBSET Present
    BY <2>1 DEF good, bad
  <2>7. PICK g \in SUBSET Present, b \in SUBSET Present : g = good /\ b = bad
    BY <2>6
  <2>8. D!Settle(g, b)
    BY <2>3, <2>4, <2>5, <2>7 DEF D!Settle, delivered, setAside, kept
  <2>9. QED
    BY <2>8 DEF D!DeliveryNext
<1>4. CASE EnqueueFails \/ Select \/ Abandon \/ Drained \/ UNCHANGED outboxVars
  <2>1. UNCHANGED <<row, copies, refused>>
    BY <1>4 DEF EnqueueFails, Select, Abandon, Drained, outboxVars, server
  <2>2. QED
    BY <2>1 DEF D!deliveryVars, Present
<1>5. QED
  BY <1>1, <1>2, <1>3, <1>4 DEF OutboxNext

\* The queue delivers at least once and sets aside only what was refused, as
\* Delivery promises, provided an answer has room for a whole batch's errors.
THEOREM QueueDelivers == ErrorCap >= BatchSize => (OutboxSpec => Delivers)
<1> SUFFICES ASSUME ErrorCap >= BatchSize PROVE OutboxSpec => Delivers
  OBVIOUS
<1>1. OutboxIInv /\ [OutboxNext]_outboxVars => [D!DeliveryNext]_(D!deliveryVars)
  BY StepDelivery
<1>2. QED
  BY <1>1, InitDelivery, OutboxInductive, PTL DEF OutboxSpec, Delivers, D!DeliverySpec
=============================================================================
