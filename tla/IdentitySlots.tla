---------------------------- MODULE IdentitySlots ----------------------------
(***************************************************************************)
(* The identity cache of an ESP32 board (firmware/identity_cache.c): an    *)
(* array of slots in RAM, which remembers which aircraft a transmitter     *)
(* belongs to.  One task uses it: the Bluetooth host's or the Wi-Fi        *)
(* driver's.                                                               *)
(*                                                                         *)
(* The clock is time(NULL), which runs from 1970 until SNTP sets it and    *)
(* may be stepped, either way, whenever SNTP sets it again.  The cache     *)
(* does not survive a restart: every behaviour here is one boot.           *)
(***************************************************************************)
EXTENDS Integers, FiniteSets

CONSTANTS
  Macs,          \* transmitter addresses
  Uas,           \* UAS IDs
  NA,            \* the text "N/A"
  Size,          \* IDENTITY_CACHE_SIZE
  WeakTtl,       \* IDENTITY_WEAK_TTL_SECONDS, in ticks
  StrongTtl,     \* IDENTITY_STRONG_TTL_SECONDS, in ticks
  Strong,        \* IDENTITY_STRONG_SIGHTINGS
  SightingsMax,  \* 0xFFFF
  MaxTime,       \* the horizon (a bound)
  MaxDecodes,    \* how many Basic IDs are decoded (a bound)
  MaxSteps,      \* how often the clock is stepped (a bound)
  NONE

Slots == 1..Size
Time == 0..MaxTime

ASSUME IdentitySlotsAssumption ==
  /\ IsFiniteSet(Macs)
  /\ Size \in Nat \ {0}
  /\ WeakTtl \in Nat /\ StrongTtl \in Nat /\ WeakTtl <= StrongTtl
  /\ Strong \in Nat \ {0} /\ SightingsMax \in Nat /\ Strong <= SightingsMax
  /\ MaxTime \in Nat /\ MaxDecodes \in Nat /\ MaxSteps \in Nat
  /\ NONE \notin Macs \cup Uas /\ NA \notin Uas \cup {NONE}

VARIABLES
  entries,     \* slot -> its entry; used when it has a mac
  clock,       \* time(NULL)
  now,         \* the true time since boot
  back,        \* how far the clock has been stepped back in all
  steps,
  decodes,
  heard,       \* history: mac -> UAS ID -> how often it was decoded (up to Strong), and when last
  conflicted   \* history: the macs found to have two identities

cache == <<entries, decodes, heard, conflicted>>
clocks == <<clock, now, back, steps>>
slotVars == <<cache, clocks>>

Entry == [mac : Macs \cup {NONE}, uas_id : Uas \cup {NONE}, last_decoded_at : Time,
          sightings : 0..SightingsMax, quarantined : BOOLEAN]
Cleared(m) == [mac |-> m, uas_id |-> NONE, last_decoded_at |-> 0, sightings |-> 0,
               quarantined |-> FALSE]
Unused == Cleared(NONE)

Unheard == [times |-> 0, last |-> 0]

TypeOK ==
  /\ entries \in [Slots -> Entry]
  /\ clock \in Time /\ now \in Time
  /\ back \in Nat /\ steps \in 0..MaxSteps
  /\ decodes \in 0..MaxDecodes
  /\ heard \in [Macs -> [Uas -> [times : 0..Strong, last : Time]]]
  /\ conflicted \subseteq Macs

InitSlots ==
  /\ entries = [i \in Slots |-> Unused]
  /\ clock = 0 /\ now = 0 /\ back = 0 /\ steps = 0 /\ decodes = 0
  /\ heard = [m \in Macs |-> [u \in Uas |-> Unheard]]
  /\ conflicted = {}

-----------------------------------------------------------------------------
(* slot_for.                                                               *)

Used(i) == entries[i].mac # NONE
Find(m) == {i \in Slots : entries[i].mac = m}

\* The first unused slot; or the least recently decoded one that is not quarantined, the
\* first of equals; or the first, when all are.
Free == {i \in Slots : ~ Used(i)}
AnySlot == Slots
Unquarantined == {i \in Slots : ~ entries[i].quarantined}
Oldest == {i \in Unquarantined : \A j \in Unquarantined :
             entries[i].last_decoded_at <= entries[j].last_decoded_at}
First(S) == CHOOSE i \in S : \A j \in S : i <= j
Victim == CASE Free # {} -> First(Free)
            [] Free = {} /\ Unquarantined # {} -> First(Oldest)
            [] OTHER -> 1

slot_for(m) == IF Find(m) # {} THEN First(Find(m)) ELSE Victim

\* The entry slot_for returns: found, or cleared for the address.
EntryFor(m) == IF Find(m) # {} THEN entries[slot_for(m)] ELSE Cleared(m)

-----------------------------------------------------------------------------
(* identity_remember.                                                      *)

Conflicts(e, u) == e.uas_id # NONE /\ e.uas_id # u

LatestWins(e, u) ==
  [e EXCEPT !.uas_id = u, !.last_decoded_at = clock,
            !.sightings = IF @ < SightingsMax THEN @ + 1 ELSE @]
Remembered(e, u) ==
  CASE e.quarantined -> e
    [] ~ e.quarantined /\ Conflicts(e, u) -> [e EXCEPT !.quarantined = TRUE, !.uas_id = NONE]
    [] OTHER -> [e EXCEPT !.uas_id = u, !.last_decoded_at = clock,
                          !.sightings = IF @ < SightingsMax THEN @ + 1 ELSE @]

\* "N/A" is not worth remembering or conflicting against.
identity_remember(m, u) ==
  IF u = NA THEN UNCHANGED cache
  ELSE LET i == slot_for(m)
           e == EntryFor(m)
       IN  /\ decodes < MaxDecodes /\ decodes' = decodes + 1
           /\ entries' = [entries EXCEPT ![i] = Remembered(e, u)]
           /\ heard' = [heard EXCEPT ![m][u] =
                          [times |-> IF @.times < Strong THEN @.times + 1 ELSE @.times, last |-> now]]
           /\ conflicted' = conflicted \cup {n \in {m} : Remembered(e, u).quarantined}

-----------------------------------------------------------------------------
(* identity_recall: the ID it answers, or none.                            *)

StrongForAll(e) == StrongTtl
Horizon(e) == IF e.sightings >= Strong THEN StrongTtl ELSE WeakTtl
Usable(e) == /\ ~ e.quarantined /\ e.uas_id # NONE
             /\ clock >= e.last_decoded_at
             /\ clock - e.last_decoded_at <= Horizon(e)
identity_recall(m) == {entries[i].uas_id : i \in {j \in Find(m) : Usable(entries[j])}}

-----------------------------------------------------------------------------
(* Time.                                                                   *)

Tick ==
  /\ now < MaxTime /\ clock < MaxTime
  /\ now' = now + 1 /\ clock' = clock + 1
  /\ UNCHANGED <<back, steps, cache>>

\* SNTP sets the clock.
ClockSet ==
  /\ steps < MaxSteps
  /\ steps' = steps + 1
  /\ clock' \in Time \ {clock}
  /\ back' = IF clock' < clock THEN back + (clock - clock') ELSE back
  /\ UNCHANGED <<now, cache>>

Remember(m, u) == identity_remember(m, u) /\ UNCHANGED clocks

NextSlots == (\E m \in Macs, u \in Uas \cup {NA} : Remember(m, u)) \/ Tick \/ ClockSet

SlotsSpec == InitSlots /\ [][NextSlots]_slotVars

-----------------------------------------------------------------------------
(* Properties.                                                             *)

Heard(m) == {u \in Uas : heard[m][u].times > 0}

\* As long as the slots suffice for the addresses heard, an identity is inferred only from
\* an address that never said anything else: "conflict-aware, not latest-wins".
UnambiguousUnlessFull ==
  Cardinality({m \in Macs : Heard(m) # {}}) <= Size =>
    \A m \in Macs, u \in Uas : u \in identity_recall(m) => Heard(m) = {u}

\* An address found in conflict is never named again, however many others are heard, until
\* conflicts alone have filled the cache: "forgetting a quarantine re-enables exactly the
\* mislabelling it was created to prevent".
ConflictIsRemembered ==
  Cardinality(conflicted) < Size => \A m \in conflicted : identity_recall(m) = {}

\* An inferred identity was decoded from the address itself, and truly no longer ago than
\* its horizon, plus what the clock has been stepped back; the horizon is the strong one
\* only after that many decodes.
AgeIsBounded ==
  \A m \in Macs, u \in Uas : u \in identity_recall(m) =>
    LET decoded == heard[m][u]
    IN  /\ decoded.times > 0
        /\ now - decoded.last <= back + (IF decoded.times >= Strong THEN StrongTtl ELSE WeakTtl)
=============================================================================
