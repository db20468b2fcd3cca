------------------------------ MODULE Contacts ------------------------------
(***************************************************************************)
(* The contact lifecycle of the Raspberry Pi receiver (radio_tracker.py):  *)
(* two capture threads merge what they decode into shared dictionaries, a  *)
(* threading.Timer per contact waits out a grace period, and the timer's   *)
(* own thread finalises the contact into one row of the log.               *)
(*                                                                         *)
(* A block held under contact_lock is one step.  What the code does        *)
(* outside the lock is one step per access that another thread can come    *)
(* between, which is where the behaviours of interest are.                 *)
(*                                                                         *)
(* A contact's telemetry is abstracted to what the row's honesty depends   *)
(* on: the UAS ID, and the times at which that ID and the position were    *)
(* received.  Counts, signal and protocol names steer nothing and are left *)
(* out.                                                                    *)
(***************************************************************************)
EXTENDS Integers, Sequences, FiniteSets

CONSTANTS
  Macs,        \* transport addresses
  Uas,         \* UAS IDs an aircraft may broadcast
  Threads,     \* capture threads (BLE, Wi-Fi)
  Frames,      \* what may be heard: [thread, mac, id, pos]
  Remembered,  \* identities the cache may answer with
  Timers,      \* slots for threading.Timer objects (a bound)
  Grace,       \* PENDING_ALERT_GRACE_SECONDS, in ticks
  Cooldown,    \* ALERT_COOLDOWN, in ticks
  Stall,       \* ticks a finalisation may take (SQLite may wait 10 s per write)
  Linger,      \* ticks a capture thread may take inside register_detection
  CsvFails,    \* whether the CSV write may raise
  LastFrame,   \* no frame is heard after this tick (a bound)
  MaxFrames,   \* how many frames are heard in all (a bound)
  MaxTime,     \* the horizon (a bound)
  NONE

Keys == Macs \cup Uas
Time == 0..MaxTime
Frame == [thread : Threads, mac : Macs, id : Uas \cup {NONE}, pos : BOOLEAN]
Maybe(S) == S \cup {NONE}
Telemetry == [id : Maybe(Uas), idAt : Maybe(Time), posAt : Maybe(Time)]

ASSUME ContactsAssumption ==
  /\ Frames \subseteq Frame
  /\ Remembered \subseteq Uas
  /\ Grace \in Nat /\ Cooldown \in Nat /\ Stall \in Nat /\ Linger \in Nat
  /\ LastFrame \in Nat /\ MaxFrames \in Nat /\ MaxTime \in Nat
  /\ CsvFails \in BOOLEAN
  /\ NONE \notin Keys \cup Nat \cup Timers \cup Frame \cup Telemetry

VARIABLES
  now,
  drone_state,           \* key -> telemetry, NONE when absent
  key_to_macs,           \* key -> the addresses heard under it, {} when absent
  key_to_first_seen,
  key_to_position_at,
  transport_mac_to_key,
  pending_alert_timers,  \* key -> timer registered for it
  sent_alert_tracker,    \* key -> time of its last alert
  heard,                 \* how many frames have been heard
  capture,               \* thread -> where it is inside register_detection
  timer,                 \* timer object -> where its thread is
  rows,                  \* the rows written, oldest first
  owed,                  \* history: contacts promised a row and not yet given one
  lost                   \* history: contacts whose finaliser ended in an exception

vars == <<now, drone_state, key_to_macs, key_to_first_seen, key_to_position_at,
          transport_mac_to_key, pending_alert_timers, sent_alert_tracker,
          heard, capture, timer, rows, owed, lost>>
contact == <<drone_state, key_to_macs, key_to_first_seen, key_to_position_at,
             transport_mac_to_key>>

-----------------------------------------------------------------------------
(* Telemetry.                                                              *)

Blank == [id |-> NONE, idAt |-> NONE, posAt |-> NONE]

\* What one decoded frame says, received at time at.
Decoded(f, at) == [id    |-> f.id,
                   idAt  |-> IF f.id = NONE THEN NONE ELSE at,
                   posAt |-> IF f.pos THEN at ELSE NONE]

\* dict.update: the fields present in new replace those of old.
Update(old, new) ==
  [id    |-> IF new.id = NONE THEN old.id ELSE new.id,
   idAt  |-> IF new.id = NONE THEN old.idAt ELSE new.idAt,
   posAt |-> IF new.posAt = NONE THEN old.posAt ELSE new.posAt]

OrElse(x, default) == IF x = NONE THEN default ELSE x
Earlier(a, b) == IF a = NONE THEN b ELSE IF b = NONE \/ a < b THEN a ELSE b
LeftBehind(a, b) == a
Later(a, b) == IF a = NONE THEN b ELSE IF b = NONE \/ a > b THEN a ELSE b

-----------------------------------------------------------------------------
(* Threads.                                                                *)

IdleThread == [pc |-> "idle", frame |-> NONE, at |-> 0, key |-> NONE]
FreeTimer == [pc |-> "free", key |-> NONE, due |-> 0, since |-> 0, at |-> 0,
              stamp |-> 0, doomed |-> {}, victim |-> NONE, dropped |-> {},
              live |-> FALSE, obj |-> Blank, macs |-> "private", source |-> "decoded"]

\* The thread of a timer is running: its function has been called.
Dropping == {"dropState", "dropFirstSeen", "dropPosition", "dropMacs", "dropMapping"}
Running == {"fired", "identify", "remember", "check", "scan", "delete", "write", "mark"}
           \cup Dropping

CaptureState == [pc : {"idle", "merge", "lookup", "expire", "schedule"},
                 frame : Maybe(Frames), at : Time, key : Maybe(Keys)]
TimerState == [pc : {"free", "armed"} \cup Running, key : Maybe(Keys),
               due : Nat, since : Time, at : Time, stamp : Time,
               doomed : SUBSET Keys, victim : Maybe(Keys), dropped : SUBSET Macs,
               live : BOOLEAN, obj : Telemetry, macs : {"private", "shared", "grown"},
               source : {"decoded", "inferred"}]
Row == [key : Keys, at : Time, stamp : Time, tele : Telemetry,
        source : {"decoded", "inferred"}]

TypeOK ==
  /\ now \in Time
  /\ drone_state \in [Keys -> Maybe(Telemetry)]
  /\ key_to_macs \in [Keys -> SUBSET Macs]
  /\ key_to_first_seen \in [Keys -> Maybe(Time)]
  /\ key_to_position_at \in [Keys -> Maybe(Time)]
  /\ transport_mac_to_key \in [Macs -> Maybe(Uas)]
  /\ pending_alert_timers \in [Keys -> Maybe(Timers)]
  /\ sent_alert_tracker \in [Keys -> Maybe(Time)]
  /\ heard \in 0..MaxFrames
  /\ capture \in [Threads -> CaptureState]
  /\ timer \in [Timers -> TimerState]
  /\ rows \in Seq(Row)
  /\ owed \subseteq Keys
  /\ lost \subseteq Keys

Init ==
  /\ now = 0
  /\ drone_state = [k \in Keys |-> NONE]
  /\ key_to_macs = [k \in Keys |-> {}]
  /\ key_to_first_seen = [k \in Keys |-> NONE]
  /\ key_to_position_at = [k \in Keys |-> NONE]
  /\ transport_mac_to_key = [m \in Macs |-> NONE]
  /\ pending_alert_timers = [k \in Keys |-> NONE]
  /\ sent_alert_tracker = [k \in Keys |-> NONE]
  /\ heard = 0
  /\ capture = [t \in Threads |-> IdleThread]
  /\ timer = [i \in Timers |-> FreeTimer]
  /\ rows = <<>>
  /\ owed = {}
  /\ lost = {}

-----------------------------------------------------------------------------
(* register_detection, on a capture thread.                                *)

\* A frame that decoded to something reaches register_detection, which reads
\* the clock before it takes the lock.
Hear(t) ==
  /\ capture[t].pc = "idle"
  /\ now <= LastFrame
  /\ heard < MaxFrames
  /\ heard' = heard + 1
  /\ \E f \in Frames :
       /\ f.thread = t
       /\ capture' = [capture EXCEPT ![t] = [pc |-> "merge", frame |-> f,
                                             at |-> now, key |-> NONE]]
  /\ UNCHANGED <<now, contact, pending_alert_timers, sent_alert_tracker, timer,
                 rows, owed, lost>>

resolve_state_key(m) == OrElse(transport_mac_to_key[m], m)

\* The contact's own dictionary after state.update(decoded).
Merged(t) ==
  LET c == capture[t]
  IN  Update(OrElse(drone_state[resolve_state_key(c.frame.mac)], Blank),
             Decoded(c.frame, c.at))

\* The rest of the first locked block of register_detection, for key k whose
\* receive times were first and position after the merge.
Stamp(t, k, first, position) ==
  LET c == capture[t]
  IN  /\ key_to_first_seen' = [first EXCEPT ![k] = OrElse(@, c.at)]
      /\ key_to_position_at' = IF c.frame.pos THEN [position EXCEPT ![k] = c.at]
                                              ELSE position
      /\ capture' = [capture EXCEPT ![t].pc = "lookup", ![t].key = k]

\* The set of addresses of key k gains S; a finaliser iterating over that very
\* set will notice that it grew.
MacsGrow(ts, k, S) ==
  [i \in Timers |-> IF ts[i].macs = "shared" /\ ts[i].key = k /\ ~ (S \subseteq key_to_macs[k])
                    THEN [ts[i] EXCEPT !.macs = "grown"] ELSE ts[i]]

\* The set of addresses of key k is popped: who iterates over it has it alone.
MacsPopped(ts, k) ==
  [i \in Timers |-> IF ts[i].macs = "shared" /\ ts[i].key = k
                    THEN [ts[i] EXCEPT !.macs = "private"] ELSE ts[i]]

\* merge_state when the key does not change.
MergeInPlace(t) ==
  LET m == capture[t].frame.mac
      k == resolve_state_key(m)
  IN  /\ capture[t].pc = "merge"
      /\ Merged(t).id \in {NONE, k}
      /\ drone_state' = [drone_state EXCEPT ![k] = Merged(t)]
      /\ key_to_macs' = [key_to_macs EXCEPT ![k] = @ \cup {m}]
      /\ Stamp(t, k, key_to_first_seen, key_to_position_at)
      /\ timer' = MacsGrow(timer, k, {m})
      /\ UNCHANGED <<now, heard, transport_mac_to_key, pending_alert_timers,
                     sent_alert_tracker, rows, owed, lost>>

\* The timers once the dictionary of key k, last worth obj, has been popped: a
\* finaliser that holds it keeps the object, and nobody updates it any more.
Orphaned(k, obj) ==
  [i \in Timers |-> IF timer[i].live /\ timer[i].key = k
                    THEN [timer[i] EXCEPT !.live = FALSE, !.obj = obj]
                    ELSE timer[i]]

\* Timer.cancel: it stops a timer that waits, and is too late for one that fired.
Cancelled(ts, i) ==
  IF i # NONE /\ ts[i].pc = "armed" THEN [ts EXCEPT ![i] = FreeTimer] ELSE ts

\* A live timer is never carried across the re-key from k to u.
CarriedOver(k, u) == [pending_alert_timers EXCEPT ![k] = NONE, ![u] = pending_alert_timers[k]]
Unregistered(k, u) == [pending_alert_timers EXCEPT ![k] = NONE]

Renamed(S, k, u) == IF k \in S THEN (S \ {k}) \cup {u} ELSE S

\* merge_state when the merged UAS ID is not the key: everything moves to the ID.
MergeRekey(t) ==
  LET m == capture[t].frame.mac
      k == resolve_state_key(m)
      u == Merged(t).id
      target == Update(OrElse(drone_state[u], Blank), Merged(t))
      popped == MacsPopped(MacsGrow(Orphaned(k, Merged(t)), k, {m}), k)
  IN  /\ capture[t].pc = "merge"
      /\ u \notin {NONE, k}
      /\ drone_state' = [drone_state EXCEPT ![k] = NONE, ![u] = target]
      /\ key_to_macs' = [key_to_macs EXCEPT ![k] = {}, ![u] = @ \cup key_to_macs[k] \cup {m}]
      /\ Stamp(t, u,
               [key_to_first_seen EXCEPT ![k] = NONE, ![u] = Earlier(@, key_to_first_seen[k])],
               [key_to_position_at EXCEPT ![k] = NONE, ![u] = Later(@, key_to_position_at[k])])
      /\ transport_mac_to_key' = [transport_mac_to_key EXCEPT ![m] = u]
      /\ pending_alert_timers' = Unregistered(k, u)
      /\ timer' = Cancelled(MacsGrow(popped, u, key_to_macs[k] \cup {m}),
                            pending_alert_timers[k])
      /\ owed' = Renamed(owed, k, u)
      /\ lost' = Renamed(lost, k, u)
      /\ UNCHANGED <<now, heard, sent_alert_tracker, rows>>

\* The cooldown entry tested for presence alone.
ReadPresence(t) ==
  /\ capture[t].pc = "lookup"
  /\ capture' = [capture EXCEPT ![t].pc = "schedule"]
  /\ UNCHANGED <<now, heard, contact, pending_alert_timers, sent_alert_tracker, timer,
                 rows, owed, lost>>

\* sent_at = sent_alert_tracker.get(key), and the test of its age.
ReadSentAt(t) ==
  LET sent_at == sent_alert_tracker[capture[t].key]
      expired == sent_at # NONE /\ now - sent_at >= Cooldown
  IN  /\ capture[t].pc = "lookup"
      /\ capture' = [capture EXCEPT ![t].pc = IF expired THEN "expire" ELSE "schedule"]
      /\ UNCHANGED <<now, heard, contact, pending_alert_timers, sent_alert_tracker, timer,
                     rows, owed, lost>>

\* sent_alert_tracker.pop(key, None)
ExpireCooldown(t) ==
  /\ capture[t].pc = "expire"
  /\ sent_alert_tracker' = [sent_alert_tracker EXCEPT ![capture[t].key] = NONE]
  /\ capture' = [capture EXCEPT ![t].pc = "schedule"]
  /\ UNCHANGED <<now, heard, contact, pending_alert_timers, timer, rows, owed, lost>>

\* Second locked block: this packet's contribution to the state is enough.
Covered(t) ==
  LET k == capture[t].key
  IN  /\ capture[t].pc = "schedule"
      /\ sent_alert_tracker[k] # NONE \/ pending_alert_timers[k] # NONE
      /\ owed' = IF sent_alert_tracker[k] # NONE THEN owed \ {k} ELSE owed
      /\ capture' = [capture EXCEPT ![t] = IdleThread]
      /\ UNCHANGED <<now, heard, contact, pending_alert_timers, sent_alert_tracker, timer, rows, lost>>

\* Second locked block: a timer for this key, and its registration.
Schedule(t) ==
  LET k == capture[t].key
      i == CHOOSE j \in Timers : timer[j].pc = "free"
  IN  /\ capture[t].pc = "schedule"
      /\ sent_alert_tracker[k] = NONE
      /\ pending_alert_timers[k] = NONE
      /\ \E j \in Timers : timer[j].pc = "free"
      /\ timer' = [timer EXCEPT ![i] = [FreeTimer EXCEPT !.pc = "armed", !.key = k,
                                                         !.due = now + Grace]]
      /\ pending_alert_timers' = [pending_alert_timers EXCEPT ![k] = i]
      /\ owed' = owed \cup {k}
      /\ capture' = [capture EXCEPT ![t] = IdleThread]
      /\ UNCHANGED <<now, heard, contact, sent_alert_tracker, rows, lost>>

-----------------------------------------------------------------------------
(* finalize_pending_alert and log_and_alert, on the timer's thread.        *)

\* An exception ends the timer's thread; nothing catches it.
Die(i) == /\ timer' = [timer EXCEPT ![i] = FreeTimer]
          /\ lost' = lost \cup {timer[i].key}
          /\ UNCHANGED <<now, heard, contact, pending_alert_timers, sent_alert_tracker,
                         capture, rows, owed>>

\* Timer.run: the wait is over and the timer was not cancelled; from here on
\* cancel() changes nothing.
Fire(i) ==
  /\ timer[i].pc = "armed"
  /\ now >= timer[i].due
  /\ timer' = [timer EXCEPT ![i].pc = "fired", ![i].since = now]
  /\ UNCHANGED <<now, heard, contact, pending_alert_timers, sent_alert_tracker, capture,
                 rows, owed, lost>>

\* The locked block of finalize_pending_alert: the registration goes, and the
\* state is read as a reference to the dictionary, not a copy.
Finalize(i) ==
  LET k == timer[i].key
  IN  /\ timer[i].pc = "fired"
      /\ pending_alert_timers' = [pending_alert_timers EXCEPT ![k] = NONE]
      /\ timer' = IF drone_state[k] = NONE
                  THEN [timer EXCEPT ![i] = FreeTimer]
                  ELSE [timer EXCEPT ![i].pc = "identify", ![i].live = TRUE]
      /\ UNCHANGED <<now, heard, contact, sent_alert_tracker, capture, rows, owed, lost>>

\* The dictionary finaliser i holds, as it is now.
Held(i) == IF timer[i].live THEN drone_state[timer[i].key] ELSE timer[i].obj

\* A contact that decoded an ID: the loop over mac_set that remembers it begins.
IdentityDecoded(i) ==
  /\ timer[i].pc = "identify"
  /\ Held(i).id # NONE
  /\ timer' = [timer EXCEPT ![i].pc = "remember",
                            ![i].macs = IF key_to_macs[timer[i].key] = {} THEN "private"
                                                                          ELSE "shared"]
  /\ UNCHANGED <<now, heard, contact, pending_alert_timers, sent_alert_tracker, capture,
                 rows, owed, lost>>

\* remember_identity has returned for every address: the loop ends.
IdentityRemembered(i) ==
  /\ timer[i].pc = "remember"
  /\ timer[i].macs # "grown"
  /\ timer' = [timer EXCEPT ![i].pc = "check", ![i].macs = "private"]
  /\ UNCHANGED <<now, heard, contact, pending_alert_timers, sent_alert_tracker, capture,
                 rows, owed, lost>>

\* lookup_identity for one that did not: a hit is written into a copy.
IdentityInferred(i) ==
  /\ timer[i].pc = "identify"
  /\ Held(i).id = NONE
  /\ \E id \in Maybe(Remembered) :
       timer' = [timer EXCEPT ![i] =
                   IF id = NONE
                   THEN [@ EXCEPT !.pc = "check"]
                   ELSE [@ EXCEPT !.pc = "check", !.source = "inferred", !.live = FALSE,
                                  !.obj = [Held(i) EXCEPT !.id = id]]]
  /\ UNCHANGED <<now, heard, contact, pending_alert_timers, sent_alert_tracker, capture,
                 rows, owed, lost>>

\* heard_at: when the position was decoded, else when the contact began, else now.
HeardAt(i) ==
  LET k == timer[i].key
      position == IF Held(i).posAt = NONE THEN NONE ELSE key_to_position_at[k]
  IN  OrElse(position, OrElse(key_to_first_seen[k], now))

InCooldown(k) == sent_alert_tracker[k] # NONE /\ now - sent_alert_tracker[k] < Cooldown

\* log_and_alert up to its early return: still in cooldown, so no row.
Suppress(i) ==
  /\ timer[i].pc = "check"
  /\ InCooldown(timer[i].key)
  /\ timer' = [timer EXCEPT ![i] = FreeTimer]
  /\ owed' = owed \ {timer[i].key}
  /\ UNCHANGED <<now, heard, contact, pending_alert_timers, sent_alert_tracker, capture, rows, lost>>

\* Some other thread is about to remove the entry of key k.
Removing(i, k) ==
  \/ \E t \in Threads : capture[t].pc = "expire" /\ capture[t].key = k
  \/ \E j \in Timers \ {i} : timer[j].pc = "delete" /\ k \in timer[j].doomed

\* KeyError: the entry goes between the test for it and its value.
CheckRaises(i) ==
  /\ timer[i].pc = "check"
  /\ sent_alert_tracker[timer[i].key] # NONE
  /\ Removing(i, timer[i].key)
  /\ Die(i)

PassCooldown(i) ==
  /\ timer[i].pc = "check"
  /\ ~ InCooldown(timer[i].key)
  /\ timer' = [timer EXCEPT ![i].pc = "scan", ![i].at = now, ![i].stamp = HeardAt(i)]
  /\ UNCHANGED <<now, heard, contact, pending_alert_timers, sent_alert_tracker, capture,
                 rows, owed, lost>>

Expired(at) ==
  {k \in Keys : sent_alert_tracker[k] # NONE /\ at - sent_alert_tracker[k] >= Cooldown}

\* The list of tracker entries that have served their time.
Scan(i) ==
  /\ timer[i].pc = "scan"
  /\ timer' = [timer EXCEPT ![i].pc = IF Expired(timer[i].at) = {} THEN "write" ELSE "delete",
                            ![i].doomed = Expired(timer[i].at)]
  /\ UNCHANGED <<now, heard, contact, pending_alert_timers, sent_alert_tracker, capture,
                 rows, owed, lost>>

\* RuntimeError: set changed size during iteration.
RememberRaises(i) ==
  /\ timer[i].pc = "remember"
  /\ timer[i].macs = "grown"
  /\ Die(i)

\* Some other thread is about to add or remove an entry of sent_alert_tracker.
TrackerResizing(i) ==
  \/ \E t \in Threads : /\ capture[t].pc = "expire"
                        /\ sent_alert_tracker[capture[t].key] # NONE
  \/ \E j \in Timers \ {i} :
       \/ timer[j].pc = "mark" /\ sent_alert_tracker[timer[j].key] = NONE
       \/ /\ timer[j].pc = "delete"
          /\ \E k \in timer[j].doomed : sent_alert_tracker[k] # NONE

\* RuntimeError: dictionary changed size during iteration.
ScanRaises(i) ==
  /\ timer[i].pc = "scan"
  /\ TrackerResizing(i)
  /\ \E k \in Keys : sent_alert_tracker[k] # NONE
  /\ Die(i)

\* del sent_alert_tracker[tracked_key], outside any lock.
DeleteExpired(i) ==
  /\ timer[i].pc = "delete"
  /\ \E k \in timer[i].doomed :
       /\ sent_alert_tracker[k] # NONE
       /\ sent_alert_tracker' = [sent_alert_tracker EXCEPT ![k] = NONE]
       /\ timer' = [timer EXCEPT ![i].pc = "dropState", ![i].victim = k,
                                 ![i].doomed = @ \ {k}]
  /\ UNCHANGED <<now, heard, contact, pending_alert_timers, capture, rows, owed, lost>>

\* KeyError: somebody else removed the entry since the scan.
DeleteRaises(i) ==
  /\ timer[i].pc = "delete"
  /\ \E k \in timer[i].doomed : sent_alert_tracker[k] = NONE
  /\ Die(i)

\* drone_state.pop(tracked_key, None)
DropState(i) ==
  LET k == timer[i].victim
  IN  /\ timer[i].pc = "dropState"
      /\ drone_state' = [drone_state EXCEPT ![k] = NONE]
      /\ timer' = [Orphaned(k, drone_state[k]) EXCEPT ![i].pc = "dropFirstSeen"]
      /\ UNCHANGED <<now, heard, key_to_macs, key_to_first_seen, key_to_position_at,
                     transport_mac_to_key, pending_alert_timers, sent_alert_tracker,
                     capture, rows, owed, lost>>

\* key_to_first_seen.pop(tracked_key, None)
DropFirstSeen(i) ==
  /\ timer[i].pc = "dropFirstSeen"
  /\ key_to_first_seen' = [key_to_first_seen EXCEPT ![timer[i].victim] = NONE]
  /\ timer' = [timer EXCEPT ![i].pc = "dropPosition"]
  /\ UNCHANGED <<now, heard, drone_state, key_to_macs, key_to_position_at,
                 transport_mac_to_key, pending_alert_timers, sent_alert_tracker,
                 capture, rows, owed, lost>>

\* key_to_position_at.pop(tracked_key, None)
DropPosition(i) ==
  /\ timer[i].pc = "dropPosition"
  /\ key_to_position_at' = [key_to_position_at EXCEPT ![timer[i].victim] = NONE]
  /\ timer' = [timer EXCEPT ![i].pc = "dropMacs"]
  /\ UNCHANGED <<now, heard, drone_state, key_to_macs, key_to_first_seen,
                 transport_mac_to_key, pending_alert_timers, sent_alert_tracker,
                 capture, rows, owed, lost>>

\* Timer i once it has cleaned up after its victim: the next one, or the row.
Cleaned(ts, i) ==
  [ts EXCEPT ![i].pc = IF timer[i].doomed = {} THEN "write" ELSE "delete", ![i].victim = NONE,
             ![i].dropped = {}]

\* key_to_macs.pop(tracked_key, set()): the set the loop goes over.
DropMacs(i) ==
  LET k == timer[i].victim
      popped == MacsPopped(timer, k)
  IN  /\ timer[i].pc = "dropMacs"
      /\ key_to_macs' = [key_to_macs EXCEPT ![k] = {}]
      /\ timer' = IF key_to_macs[k] = {}
                  THEN Cleaned(popped, i)
                  ELSE [popped EXCEPT ![i].pc = "dropMapping", ![i].dropped = key_to_macs[k]]
      /\ UNCHANGED <<now, heard, drone_state, key_to_first_seen, key_to_position_at,
                     transport_mac_to_key, pending_alert_timers, sent_alert_tracker,
                     capture, rows, owed, lost>>

\* transport_mac_to_key.pop(mac, None), whatever the address leads to by now.
DropMapping(i) ==
  /\ timer[i].pc = "dropMapping"
  /\ \E m \in timer[i].dropped :
       /\ transport_mac_to_key' = [transport_mac_to_key EXCEPT ![m] = NONE]
       /\ timer' = IF timer[i].dropped = {m} THEN Cleaned(timer, i)
                   ELSE [timer EXCEPT ![i].dropped = @ \ {m}]
  /\ UNCHANGED <<now, heard, drone_state, key_to_macs, key_to_first_seen, key_to_position_at,
                 pending_alert_timers, sent_alert_tracker, capture, rows, owed, lost>>

\* The pops that follow the dictionary's, one at a time.
DropRest(i) == DropFirstSeen(i) \/ DropPosition(i) \/ DropMacs(i) \/ DropMapping(i)

\* The CSV row and the queued upload: the telemetry is read now.
Write(i) ==
  LET k == timer[i].key
  IN  /\ timer[i].pc = "write"
      /\ rows' = Append(rows, [key |-> k, at |-> timer[i].at, stamp |-> timer[i].stamp,
                               tele |-> Held(i), source |-> timer[i].source])
      /\ owed' = owed \ {k}
      /\ lost' = lost \ {k}
      /\ timer' = [timer EXCEPT ![i].pc = "mark"]
      /\ UNCHANGED <<now, heard, contact, pending_alert_timers, sent_alert_tracker, capture>>

\* The same with the contact already marked as sent.
RaisesMarked(i) ==
  /\ timer[i].pc = "write"
  /\ CsvFails
  /\ timer' = [timer EXCEPT ![i] = FreeTimer]
  /\ sent_alert_tracker' = [sent_alert_tracker EXCEPT ![timer[i].key] = timer[i].at]
  /\ UNCHANGED <<now, heard, contact, pending_alert_timers, capture, rows, owed, lost>>

\* The CSV file cannot be opened or written, before the row is queued.
WriteRaises(i) == timer[i].pc = "write" /\ CsvFails /\ Die(i)

\* sent_alert_tracker[dedup_key] = current_time, the time of the cooldown test.
MarkSent(i) ==
  /\ timer[i].pc = "mark"
  /\ sent_alert_tracker' = [sent_alert_tracker EXCEPT ![timer[i].key] = timer[i].at]
  /\ timer' = [timer EXCEPT ![i] = FreeTimer]
  /\ UNCHANGED <<now, heard, contact, pending_alert_timers, capture, rows, owed, lost>>

-----------------------------------------------------------------------------
(* Time.  A timer fires within the tick it is due; a capture thread and a  *)
(* finaliser take at most Linger and Stall ticks.                          *)

Tick ==
  /\ now < MaxTime
  /\ \A i \in Timers : /\ timer[i].pc = "armed" => now < timer[i].due
                       /\ timer[i].pc \in Running => now - timer[i].since < Stall
  /\ \A t \in Threads : capture[t].pc # "idle" => now - capture[t].at < Linger
  /\ now' = now + 1
  /\ UNCHANGED <<heard, contact, pending_alert_timers, sent_alert_tracker, capture, timer,
                 rows, owed, lost>>

\* The horizon of the model: all threads have finished, and time stands still.
Horizon ==
  /\ now = MaxTime
  /\ \A i \in Timers : timer[i].pc = "free"
  /\ \A t \in Threads : capture[t].pc = "idle"
  /\ UNCHANGED vars

Register(t) == \/ MergeInPlace(t) \/ MergeRekey(t) \/ ReadSentAt(t)
               \/ ExpireCooldown(t) \/ Covered(t) \/ Schedule(t)

Finalise(i) == \/ Fire(i) \/ Finalize(i) \/ IdentityDecoded(i) \/ IdentityRemembered(i)
               \/ RememberRaises(i) \/ IdentityInferred(i) \/ Suppress(i) \/ CheckRaises(i)
               \/ PassCooldown(i) \/ Scan(i) \/ ScanRaises(i) \/ DeleteExpired(i) \/ DeleteRaises(i)
               \/ DropState(i) \/ DropRest(i)
               \/ Write(i) \/ WriteRaises(i) \/ MarkSent(i)

Next == \/ \E t \in Threads : Hear(t) \/ Register(t)
        \/ \E i \in Timers : Finalise(i)
        \/ Tick
        \/ Horizon

Spec == Init /\ [][Next]_vars

\* Every thread that can run does, and time passes; nothing obliges an aircraft
\* to transmit.
Fairness == /\ \A t \in Threads : WF_vars(Register(t))
            /\ \A i \in Timers : WF_vars(Finalise(i))
            /\ WF_vars(Tick)

FairSpec == Spec /\ Fairness
-----------------------------------------------------------------------------
(* Properties.                                                             *)

\* A timer registered for a contact is one that will finalise that contact: it
\* waits or has just fired, was not cancelled, and has that key among its
\* arguments.  (The comment in _merge_state_locked on why a timer is never
\* carried across a re-key: a dead timer left registered suppresses its
\* aircraft for the life of the process.)
NoStrandedTimer ==
  \A k \in Keys : pending_alert_timers[k] # NONE =>
    LET i == pending_alert_timers[k]
    IN  timer[i].pc \in {"armed", "fired"} /\ timer[i].key = k

\* The converse: a timer that waits is the one registered for its contact.  The code
\* relies on it, for finalize_pending_alert pops whatever is registered under its key;
\* a timer that has lost its registration so is a second one for the next packet.
WaitingIsRegistered ==
  \A i \in Timers : timer[i].pc = "armed" => pending_alert_timers[timer[i].key] = i

\* Somebody will still write, or rightly suppress, the row of contact k.
Attended(k) ==
  \/ \E i \in Timers : timer[i].key = k /\ timer[i].pc # "mark"
  \/ \E t \in Threads : capture[t].key = k

\* A contact for which an alert was scheduled is never forgotten: until its row
\* is written, or a live cooldown covers it, some timer or capture thread is
\* still at work on it.
NoForgottenContact == \A k \in owed : Attended(k) \/ InCooldown(k)

\* A cooldown is in force only for a contact that has its row: whatever a write that
\* failed, a finaliser that overtook another or a clean-up did, the time on record is
\* that of a row of this contact, so nobody is suppressed in favour of a row that was
\* never written.
CooldownHasItsRow ==
  \A k \in Keys : sent_alert_tracker[k] # NONE =>
    \E j \in DOMAIN rows : rows[j].key = k /\ rows[j].at = sent_alert_tracker[k]

\* key_to_position_at is "when the position a contact currently carries was
\* decoded": the time on record is that of the coordinate in the dictionary.
PositionTimeMatches ==
  \A k \in Keys :
    drone_state[k] # NONE /\ drone_state[k].posAt # NONE
    => key_to_position_at[k] = drone_state[k].posAt

\* A cooldown that has run out suppresses nobody: a frame heard later than that
\* leaves a timer registered for its contact.
ExpiredNeverSuppresses ==
  [][\A t \in Threads :
       capture[t].pc = "schedule" /\ capture'[t].pc = "idle" =>
         LET k == capture[t].key
         IN  \/ pending_alert_timers'[k] # NONE
             \/ capture[t].at - sent_alert_tracker[k] < Cooldown]_vars

\* Every scheduled alert is eventually recorded or covered by a live cooldown.
AlertsAreAnswered == \A k \in Keys : k \in owed ~> k \notin owed
=============================================================================
