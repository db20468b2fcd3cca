----------------------------- MODULE SensorProofs -----------------------------
(* Theorems about the boards: the identity cache, for any addresses, IDs,    *)
(* sizes, horizons and bounds; the two decoders, for any messages, reports   *)
(* and frames; the board that uses cache and decoder; and the wire between   *)
(* two boards, for any number of lines and faults.                           *)
EXTENDS Capture, PeerLink, FunctionTheorems, FiniteSetTheorems, SequenceTheorems, TLAPS

\* An unused slot is blank, and no two slots are of one address.
SlotsApart ==
  /\ \A i \in Slots : ~ Used(i) => entries[i] = Unused
  /\ \A i, j \in Slots : Used(i) /\ entries[i].mac = entries[j].mac => i = j

\* A used entry is in conflict, and nameless, or names an ID its address has said.
SlotsSound ==
  \A i \in Slots : Used(i) =>
    /\ Heard(entries[i].mac) # {}
    /\ IF entries[i].quarantined
       THEN entries[i].uas_id = NONE /\ entries[i].mac \in conflicted
       ELSE entries[i].uas_id \in Heard(entries[i].mac)

\* The clock's age of an entry falls short of the true one by no more than the steps back,
\* and its sightings are decodes.
AgeSound ==
  \A i \in Slots : entries[i].uas_id # NONE =>
    LET decoded == heard[entries[i].mac][entries[i].uas_id]
    IN  /\ now - decoded.last <= clock - entries[i].last_decoded_at + back
        /\ entries[i].sightings <= decoded.times \/ decoded.times = Strong

\* What makes a conflict stay known.
ConflictsKept ==
  Cardinality(conflicted) < Size =>
    \A m \in conflicted : \E i \in Slots : entries[i].mac = m /\ entries[i].quarantined

\* While the slots suffice, each address heard has one, and one without conflict tells all
\* that the address has said.
HeardMacs == {m \in Macs : Heard(m) # {}}
AllKept ==
  Cardinality(HeardMacs) <= Size =>
    \A m \in HeardMacs : \E i \in Slots :
      /\ entries[i].mac = m
      /\ entries[i].quarantined \/ Heard(m) = {entries[i].uas_id}

IInv == TypeOK /\ SlotsApart /\ SlotsSound /\ AgeSound /\ ConflictsKept /\ AllKept

-----------------------------------------------------------------------------
(* The least of some numbers, and the slot that slot_for picks.            *)

\* The library's order on finite sets is well founded, and 0..m is smaller than 0..n when
\* m is.
LEMMA Minimum ==
  ASSUME NEW S \in SUBSET Nat, S # {}
  PROVE  \E n \in S : \A m \in S : n <= m
<1> DEFINE Below(n) == 0..n
           T == {Below(n) : n \in S}
           R == StrictSubsetOrdering(Nat)
<1>1. T \subseteq FiniteSubsetsOf(Nat) /\ T # {}
  <2>1. \A n \in S : IsFiniteSet(Below(n)) /\ Below(n) \subseteq Nat
    BY FS_Interval
  <2>2. QED
    BY <2>1 DEF FiniteSubsetsOf
<1>2. PICK x \in T : \A y \in T : ~ <<y, x>> \in R
  <2>1. IsWellFoundedOn(R, FiniteSubsetsOf(Nat))
    BY FS_StrictSubsetOrderingWellFounded
  <2> HIDE DEF T, R
  <2>2. QED
    BY <2>1, <1>1, WFMin, Zenon
<1>3. PICK n \in S : x = Below(n)
  OBVIOUS
<1>4. ASSUME NEW m \in S, m < n PROVE FALSE
  <2>1. Below(m) \in T /\ Below(m) \subseteq Below(n) /\ n \in Below(n) /\ n \notin Below(m)
    BY <1>4
  <2>2. <<Below(m), x>> \in R
    BY <2>1, <1>3, <1>1 DEF StrictSubsetOrdering
  <2>3. QED
    BY <2>1, <2>2, <1>2
<1>5. QED
  BY <1>4

LEMMA FirstIsOne ==
  ASSUME NEW S \in SUBSET Slots, S # {}
  PROVE  First(S) \in S
<1>1. \E i \in S : \A j \in S : i <= j
  BY Minimum, IdentitySlotsAssumption DEF Slots
<1>2. QED
  BY <1>1 DEF First

LEMMA OldestIsSome ==
  ASSUME TypeOK, Unquarantined # {}
  PROVE  Oldest \in SUBSET Unquarantined /\ Oldest # {}
<1> DEFINE S == {entries[i].last_decoded_at : i \in Unquarantined}
<1>1. S \in SUBSET Nat /\ S # {}
  <2>1. \A i \in Slots : entries[i].last_decoded_at \in Nat
    BY IdentitySlotsAssumption DEF TypeOK, Entry, Time
  <2>2. QED
    BY <2>1 DEF Unquarantined
<1>2. PICK n \in S : \A m \in S : n <= m
  BY <1>1, Minimum
<1>3. PICK i \in Unquarantined : n = entries[i].last_decoded_at
  OBVIOUS
<1>4. i \in Oldest
  <2>1. \A j \in Unquarantined : entries[j].last_decoded_at \in S
    OBVIOUS
  <2>2. \A j \in Unquarantined : entries[i].last_decoded_at <= entries[j].last_decoded_at
    BY <2>1, <1>2, <1>3
  <2>3. QED
    BY <2>2 DEF Oldest
<1>5. QED
  BY <1>4 DEF Oldest

\* The slot of an address is its own; failing that a free one; failing that, one that is
\* not in conflict.
LEMMA SlotFor ==
  ASSUME TypeOK, SlotsApart, NEW m \in Macs
  PROVE  /\ slot_for(m) \in Slots
         /\ Find(m) # {} => slot_for(m) \in Find(m)
         /\ Find(m) = {} /\ Free # {} => slot_for(m) \in Free
         /\ Find(m) = {} /\ Unquarantined # {} => slot_for(m) \in Unquarantined
<1>1. 1 \in Slots
  BY IdentitySlotsAssumption DEF Slots
<1>2. Free \in SUBSET Slots /\ Find(m) \in SUBSET Slots /\ Unquarantined \in SUBSET Slots
  BY DEF Free, Find, Unquarantined
<1>3. Free \subseteq Unquarantined
  BY DEF Free, Unquarantined, SlotsApart, Unused, Cleared
<1>4. CASE Find(m) # {}
  BY <1>2, <1>4, FirstIsOne DEF slot_for
<1>5. CASE Find(m) = {} /\ Free # {}
  <2>1. slot_for(m) = First(Free)
    BY <1>5 DEF slot_for, Victim
  <2>2. QED
    BY <2>1, <1>2, <1>3, <1>5, FirstIsOne
<1>6. CASE Find(m) = {} /\ Free = {} /\ Unquarantined # {}
  <2>1. slot_for(m) = First(Oldest)
    BY <1>6 DEF slot_for, Victim
  <2>2. QED
    BY <2>1, <1>2, <1>6, OldestIsSome, FirstIsOne
<1>7. CASE Find(m) = {} /\ Free = {} /\ Unquarantined = {}
  <2>1. slot_for(m) = 1
    BY <1>7 DEF slot_for, Victim
  <2>2. QED
    BY <2>1, <1>1, <1>7
<1>8. QED
  BY <1>4, <1>5, <1>6, <1>7

-----------------------------------------------------------------------------
(* What identity_remember does to slot i.                                  *)

StaysInConflict(i) ==
  entries[i].quarantined /\ entries'[i] = entries[i]
FoundInConflict(i) ==
  /\ ~ entries[i].quarantined
  /\ entries'[i].quarantined /\ entries'[i].uas_id = NONE
SaysAgain(i, u) ==
  /\ ~ entries[i].quarantined /\ entries[i].uas_id = u
  /\ ~ entries'[i].quarantined /\ entries'[i].uas_id = u
  /\ entries'[i].last_decoded_at = clock
  /\ entries'[i].sightings <= entries[i].sightings + 1
NamedAnew(i, u) ==
  /\ ~ entries'[i].quarantined /\ entries'[i].uas_id = u
  /\ entries'[i].last_decoded_at = clock
  /\ entries'[i].sightings <= 1

Remembers(i, m, u) ==
  /\ \A j \in Slots \ {i} : entries'[j] = entries[j]
  /\ entries'[i] \in Entry /\ entries'[i].mac = m
  /\ IF Find(m) # {}
     THEN /\ entries[i].mac = m
          /\ \/ StaysInConflict(i) /\ conflicted' = conflicted \cup {m}
             \/ FoundInConflict(i) /\ conflicted' = conflicted \cup {m}
             \/ SaysAgain(i, u) /\ conflicted' = conflicted
     ELSE /\ NamedAnew(i, u) /\ conflicted' = conflicted
          /\ Free # {} => ~ Used(i)
          /\ Unquarantined # {} => ~ entries[i].quarantined

\* A decode by m of u: it is heard now, and was heard as often as before or once more.
Decoded(m, u) ==
  /\ heard'[m][u].last = now
  /\ heard'[m][u].times = IF heard[m][u].times < Strong THEN heard[m][u].times + 1
                                                       ELSE heard[m][u].times
  /\ \A n \in Macs, v \in Uas : n # m \/ v # u => heard'[n][v] = heard[n][v]

LEMMA EntryTypes ==
  ASSUME TypeOK, NEW m \in Macs
  PROVE  /\ \A i \in Slots : entries[i] \in Entry
         /\ Cleared(m) \in Entry
         /\ clock \in Time /\ now \in Time /\ Time \subseteq Nat /\ 0 \in Time
<1>1. Time \subseteq Nat /\ 0 \in Time /\ 0 \in 0..SightingsMax
  BY IdentitySlotsAssumption DEF Time
<1>3. Cleared(m) \in Entry
  BY <1>1 DEF Entry, Cleared
<1>4. (\A i \in Slots : entries[i] \in Entry) /\ clock \in Time /\ now \in Time
  BY DEF TypeOK
<1>5. QED
  BY <1>1, <1>3, <1>4

LEMMA RememberedEntry ==
  ASSUME TypeOK, NEW e \in Entry, NEW u \in Uas
  PROVE  /\ Remembered(e, u) \in Entry
         /\ Remembered(e, u).mac = e.mac
         /\ e.quarantined => Remembered(e, u) = e
         /\ ~ e.quarantined /\ Conflicts(e, u) =>
              Remembered(e, u).quarantined /\ Remembered(e, u).uas_id = NONE
         /\ ~ e.quarantined /\ ~ Conflicts(e, u) =>
              /\ ~ Remembered(e, u).quarantined /\ Remembered(e, u).uas_id = u
              /\ Remembered(e, u).last_decoded_at = clock
              /\ Remembered(e, u).sightings <= e.sightings + 1
<1> DEFINE more == IF e.sightings < SightingsMax THEN e.sightings + 1 ELSE e.sightings
<1>1. more \in 0..SightingsMax /\ more <= e.sightings + 1
  BY IdentitySlotsAssumption DEF Entry
<1>2. clock \in Time
  BY DEF TypeOK
<1> HIDE DEF more
<1>3. CASE e.quarantined
  BY <1>3 DEF Remembered
<1>4. CASE ~ e.quarantined /\ Conflicts(e, u)
  <2>1. Remembered(e, u) = [e EXCEPT !.quarantined = TRUE, !.uas_id = NONE]
    BY <1>4 DEF Remembered
  <2>2. QED
    BY <2>1, <1>4 DEF Entry
<1>5. CASE ~ e.quarantined /\ ~ Conflicts(e, u)
  <2>1. Remembered(e, u) = [e EXCEPT !.uas_id = u, !.last_decoded_at = clock, !.sightings = more]
    BY <1>5 DEF Remembered, more
  <2>2. Remembered(e, u) \in Entry
    BY <2>1, <1>1, <1>2 DEF Entry
  <2>3. QED
    BY <2>1, <2>2, <1>1, <1>5 DEF Entry
<1>6. QED
  BY <1>3, <1>4, <1>5

LEMMA SlotStep ==
  ASSUME IInv, NEW m \in Macs, NEW u \in Uas, identity_remember(m, u)
  PROVE  /\ \E i \in Slots : Remembers(i, m, u)
         /\ Decoded(m, u) /\ heard' \in [Macs -> [Uas -> [times : 0..Strong, last : Time]]]
         /\ decodes' \in 0..MaxDecodes
<1> DEFINE i == slot_for(m)
           e == EntryFor(m)
           r == Remembered(e, u)
<1>1. /\ decodes < MaxDecodes /\ decodes' = decodes + 1
      /\ entries' = [entries EXCEPT ![i] = r]
      /\ heard' = [heard EXCEPT ![m][u] =
                     [times |-> IF @.times < Strong THEN @.times + 1 ELSE @.times, last |-> now]]
      /\ conflicted' = conflicted \cup {n \in {m} : r.quarantined}
  BY IdentitySlotsAssumption DEF identity_remember
<1>2. TypeOK /\ SlotsApart /\ SlotsSound
  BY DEF IInv
<1>3. /\ i \in Slots /\ (Find(m) # {} => i \in Find(m))
      /\ (Find(m) = {} /\ Free # {} => i \in Free)
      /\ (Find(m) = {} /\ Unquarantined # {} => i \in Unquarantined)
  BY <1>2, SlotFor
<1>4. decodes' \in 0..MaxDecodes
  BY <1>1, <1>2, IdentitySlotsAssumption DEF TypeOK
<1>5. Decoded(m, u) /\ heard' \in [Macs -> [Uas -> [times : 0..Strong, last : Time]]]
  <2> DEFINE more == IF heard[m][u].times < Strong THEN heard[m][u].times + 1
                                                   ELSE heard[m][u].times
             new == [times |-> more, last |-> now]
  <2>1. heard \in [Macs -> [Uas -> [times : 0..Strong, last : Time]]] /\ now \in Time
    BY <1>2 DEF TypeOK
  <2>2. more \in 0..Strong
    BY <2>1, IdentitySlotsAssumption
  <2>3. heard' = [heard EXCEPT ![m] = [heard[m] EXCEPT ![u] = new]]
    BY <1>1, <2>1
  <2> HIDE DEF more
  <2>4. new \in [times : 0..Strong, last : Time]
    BY <2>1, <2>2
  <2>5. heard' \in [Macs -> [Uas -> [times : 0..Strong, last : Time]]]
    BY <2>1, <2>3, <2>4
  <2>6. /\ heard'[m][u] = new
        /\ \A n \in Macs, v \in Uas : n # m \/ v # u => heard'[n][v] = heard[n][v]
    BY <2>1, <2>3
  <2>7. QED
    BY <2>5, <2>6 DEF Decoded, more
<1>6. e \in Entry /\ e.mac = m
  <2>1. CASE Find(m) # {}
    BY <2>1, <1>2, <1>3, EntryTypes DEF EntryFor, Find
  <2>2. CASE Find(m) = {}
    <3>1. e = Cleared(m)
      BY <2>2 DEF EntryFor
    <3>2. QED
      BY <3>1, <1>2, EntryTypes DEF Cleared
  <2>3. QED
    BY <2>1, <2>2
<1>7. /\ r \in Entry /\ r.mac = m
      /\ (e.quarantined => r = e)
      /\ (~ e.quarantined /\ Conflicts(e, u) => r.quarantined /\ r.uas_id = NONE)
      /\ (~ e.quarantined /\ ~ Conflicts(e, u) =>
           ~ r.quarantined /\ r.uas_id = u /\ r.last_decoded_at = clock
             /\ r.sightings <= e.sightings + 1)
  BY <1>2, <1>6, RememberedEntry
<1> HIDE DEF r
<1>8. entries'[i] = r /\ \A j \in Slots \ {i} : entries'[j] = entries[j]
  BY <1>1, <1>2, <1>3 DEF TypeOK
<1>9. conflicted' = IF r.quarantined THEN conflicted \cup {m} ELSE conflicted
  BY <1>1
<1>10. CASE Find(m) # {}
  <2>1. e = entries[i] /\ entries[i].mac = m /\ Used(i)
    BY <1>10, <1>3, IdentitySlotsAssumption DEF EntryFor, Find, Used
  <2>2. ~ e.quarantined => e.uas_id \in Uas
    BY <2>1, <1>2, <1>3 DEF SlotsSound, Heard
  <2>3. \/ StaysInConflict(i) /\ conflicted' = conflicted \cup {m}
        \/ FoundInConflict(i) /\ conflicted' = conflicted \cup {m}
        \/ SaysAgain(i, u) /\ conflicted' = conflicted
    <3>1. CASE e.quarantined
      BY <3>1, <2>1, <1>7, <1>8, <1>9 DEF StaysInConflict
    <3>2. CASE ~ e.quarantined /\ Conflicts(e, u)
      BY <3>2, <2>1, <1>7, <1>8, <1>9 DEF FoundInConflict
    <3>3. CASE ~ e.quarantined /\ ~ Conflicts(e, u)
      <4>1. e.uas_id = u
        BY <3>3, <2>2, IdentitySlotsAssumption DEF Conflicts
      <4>2. QED
        BY <3>3, <4>1, <2>1, <1>7, <1>8, <1>9 DEF SaysAgain
    <3>4. QED
      BY <3>1, <3>2, <3>3
  <2>4. Remembers(i, m, u)
    BY <1>10, <2>1, <2>3, <1>7, <1>8 DEF Remembers
  <2>5. QED
    BY <2>4, <1>3, <1>4, <1>5
<1>11. CASE Find(m) = {}
  <2>1. e = Cleared(m)
    BY <1>11 DEF EntryFor
  <2>2. ~ e.quarantined /\ ~ Conflicts(e, u) /\ e.sightings = 0
    BY <2>1 DEF Cleared, Conflicts
  <2>3. NamedAnew(i, u) /\ conflicted' = conflicted
    BY <2>2, <1>7, <1>8, <1>9 DEF NamedAnew
  <2>4. (Free # {} => ~ Used(i)) /\ (Unquarantined # {} => ~ entries[i].quarantined)
    BY <1>3, <1>11 DEF Free, Unquarantined
  <2>5. Remembers(i, m, u)
    BY <1>11, <2>3, <2>4, <1>7, <1>8 DEF Remembers
  <2>6. QED
    BY <2>5, <1>3, <1>4, <1>5
<1>12. QED
  BY <1>10, <1>11

-----------------------------------------------------------------------------
(* The parts of the invariant, one at a time.                              *)

LEMMA HeardStep ==
  ASSUME TypeOK, NEW m \in Macs, NEW u \in Uas, Decoded(m, u)
  PROVE  /\ \A n \in Macs : n # m => Heard(n)' = Heard(n)
         /\ Heard(m)' = Heard(m) \cup {u}
         /\ HeardMacs' = HeardMacs \cup {m}
<1>1. heard[m][u].times \in Nat /\ Strong \in Nat \ {0}
  BY IdentitySlotsAssumption DEF TypeOK
<1>2. heard'[m][u].times > 0
  BY <1>1 DEF Decoded
<1>3. ASSUME NEW n \in Macs, n # m PROVE Heard(n)' = Heard(n)
  BY <1>3 DEF Heard, Decoded
<1>4. Heard(m)' = Heard(m) \cup {u}
  BY <1>2 DEF Heard, Decoded
<1>5. HeardMacs' = HeardMacs \cup {m}
  BY <1>3, <1>4 DEF HeardMacs
<1>6. QED
  BY <1>3, <1>4, <1>5

LEMMA NamedIsUsed ==
  ASSUME TypeOK, SlotsApart, NEW i \in Slots, entries[i].quarantined \/ entries[i].uas_id # NONE
  PROVE  Used(i) /\ entries[i].mac \in Macs
BY DEF TypeOK, Entry, SlotsApart, Used, Unused, Cleared

LEMMA ApartStep ==
  ASSUME IInv, NEW m \in Macs, NEW i \in Slots, NEW u \in Uas, Remembers(i, m, u)
  PROVE  SlotsApart'
<1>1. \A j \in Slots : j # i => entries'[j] = entries[j] /\ entries[j].mac # m
  BY IdentitySlotsAssumption DEF Remembers, Find, IInv, SlotsApart, Used
<1>2. entries'[i].mac = m /\ m # NONE
  BY IdentitySlotsAssumption DEF Remembers
<1>3. SlotsApart
  BY DEF IInv
<1>4. QED
  BY <1>1, <1>2, <1>3 DEF SlotsApart, Used

LEMMA SoundStep ==
  ASSUME IInv, NEW m \in Macs, NEW i \in Slots, NEW u \in Uas, Remembers(i, m, u), Decoded(m, u)
  PROVE  SlotsSound'
<1>1. TypeOK /\ SlotsSound /\ m # NONE
  BY IdentitySlotsAssumption DEF IInv
<1>2. /\ \A n \in Macs : Heard(n) \subseteq Heard(n)'
      /\ u \in Heard(m)'
  BY <1>1, HeardStep
<1>3. conflicted \subseteq conflicted'
  BY DEF Remembers
<1> SUFFICES ASSUME NEW j \in Slots, Used(j)'
             PROVE  /\ (Heard(entries[j].mac) # {})'
                    /\ IF entries'[j].quarantined
                       THEN entries'[j].uas_id = NONE /\ entries'[j].mac \in conflicted'
                       ELSE entries'[j].uas_id \in Heard(entries[j].mac)'
  BY DEF SlotsSound
<1>4. CASE j = i
  <2>1. entries'[j].mac = m
    BY <1>4 DEF Remembers
  <2>2. Heard(entries[j].mac)' = Heard(m)'
    BY <2>1 DEF Heard
  <2>3. \/ entries'[j].quarantined /\ entries'[j].uas_id = NONE /\ m \in conflicted'
        \/ ~ entries'[j].quarantined /\ entries'[j].uas_id = u
    <3>1. CASE Find(m) # {}
      <4>1. Used(i)
        BY <3>1, <1>1 DEF Remembers, Used
      <4>2. StaysInConflict(i) => entries'[i].quarantined /\ entries'[i].uas_id = NONE
        BY <4>1, <1>1 DEF StaysInConflict, SlotsSound
      <4>3. QED
        BY <3>1, <4>2, <1>4 DEF Remembers, FoundInConflict, SaysAgain
    <3>2. CASE Find(m) = {}
      BY <3>2, <1>4 DEF Remembers, NamedAnew
    <3>3. QED
      BY <3>1, <3>2
  <2>4. QED
    BY <2>1, <2>2, <2>3, <1>2
<1>5. CASE j # i
  <2>1. entries'[j] = entries[j]
    BY <1>5 DEF Remembers
  <2>2. Used(j) /\ entries[j].mac \in Macs
    BY <2>1, <1>1 DEF Used, TypeOK, Entry
  <2>3. Heard(entries[j].mac)' = {v \in Uas : heard'[entries[j].mac][v].times > 0}
    BY <2>1 DEF Heard
  <2>4. Heard(entries[j].mac) \subseteq Heard(entries[j].mac)'
    BY <2>3, <2>2, <1>2 DEF Heard
  <2>5. QED
    BY <2>1, <2>2, <2>4, <1>1, <1>3 DEF SlotsSound
<1>6. QED
  BY <1>4, <1>5

LEMMA AgeStep ==
  ASSUME IInv, NEW m \in Macs, NEW i \in Slots, NEW u \in Uas, Remembers(i, m, u), Decoded(m, u),
         UNCHANGED clocks
  PROVE  AgeSound'
<1>1. TypeOK /\ SlotsSound /\ SlotsApart /\ AgeSound /\ m # NONE
  BY IdentitySlotsAssumption DEF IInv
<1>2. now' = now /\ clock' = clock /\ back' = back
  BY DEF clocks
<1> SUFFICES ASSUME NEW j \in Slots, entries'[j].uas_id # NONE
             PROVE  LET decoded == heard'[entries'[j].mac][entries'[j].uas_id]
                    IN  /\ now' - decoded.last <= clock' - entries'[j].last_decoded_at + back'
                        /\ entries'[j].sightings <= decoded.times \/ decoded.times = Strong
  BY DEF AgeSound
<1>3. CASE j = i
  <2>1. entries'[j].mac = m
    BY <1>3 DEF Remembers
  <2>2. \/ SaysAgain(i, u) /\ entries[i].mac = m
        \/ NamedAnew(i, u)
    <3>1. CASE Find(m) # {}
      <4>1. Used(i) /\ entries[i].mac = m
        BY <3>1, <1>1 DEF Remembers, Used
      <4>2. ~ StaysInConflict(i) /\ ~ FoundInConflict(i)
        BY <4>1, <1>1, <1>3 DEF StaysInConflict, FoundInConflict, SlotsSound
      <4>3. QED
        BY <3>1, <4>1, <4>2 DEF Remembers
    <3>2. CASE Find(m) = {}
      BY <3>2 DEF Remembers
    <3>3. QED
      BY <3>1, <3>2
  <2>3. entries'[j].uas_id = u /\ entries'[j].last_decoded_at = clock
    BY <2>2, <1>3 DEF SaysAgain, NamedAnew
  <2>4. clock \in Nat /\ now \in Nat /\ back \in Nat
    BY <1>1, IdentitySlotsAssumption DEF TypeOK, Time
  <2>5. heard[m][u].times \in 0..Strong /\ Strong \in Nat \ {0}
    BY <1>1, IdentitySlotsAssumption DEF TypeOK
  <2>6. entries'[j].sightings \in Nat /\ entries[j].sightings \in Nat
    BY <1>1, <1>3, IdentitySlotsAssumption DEF Remembers, TypeOK, Entry
  <2>7. entries'[j].sightings <= heard'[m][u].times \/ heard'[m][u].times = Strong
    <3>1. CASE SaysAgain(i, u) /\ entries[i].mac = m
      <4>1. u # NONE /\ entries[j].uas_id = u /\ entries[j].mac = m
        BY <3>1, <1>3, IdentitySlotsAssumption DEF SaysAgain
      <4>2. entries[j].sightings <= heard[m][u].times \/ heard[m][u].times = Strong
        BY <4>1, <1>1 DEF AgeSound
      <4>3. entries'[j].sightings <= entries[j].sightings + 1
        BY <3>1, <1>3 DEF SaysAgain
      <4>4. heard'[m][u].times = IF heard[m][u].times < Strong THEN heard[m][u].times + 1
                                                                ELSE heard[m][u].times
        BY DEF Decoded
      <4>5. QED
        BY <4>2, <4>3, <4>4, <2>5, <2>6
    <3>2. CASE NamedAnew(i, u)
      BY <3>2, <1>3, <2>5, <2>6 DEF NamedAnew, Decoded
    <3>3. QED
      BY <2>2, <3>1, <3>2
  <2>8. heard'[m][u].last = now
    BY DEF Decoded
  <2>9. QED
    BY <2>1, <2>3, <2>4, <2>7, <2>8, <1>2
<1>4. CASE j # i
  <2>1. entries'[j] = entries[j]
    BY <1>4 DEF Remembers
  <2>2. Used(j) /\ entries[j].mac \in Macs
    BY <2>1, <1>1, NamedIsUsed
  <2>3. entries[j].mac # m
    BY <1>1, <1>4, <2>2 DEF Remembers, SlotsApart, Find
  <2>4. entries[j].uas_id \in Uas
    BY <1>1, <2>1 DEF TypeOK, Entry
  <2>5. heard'[entries[j].mac][entries[j].uas_id] = heard[entries[j].mac][entries[j].uas_id]
    BY <2>2, <2>3, <2>4 DEF Decoded
  <2>6. QED
    BY <2>1, <2>5, <1>1, <1>2 DEF AgeSound
<1>5. QED
  BY <1>3, <1>4

\* As many slots as are taken by addresses of a set, so many addresses are in the set.
LEMMA AsManySlots ==
  ASSUME SlotsApart, NEW S \in SUBSET Macs, \A i \in Slots : Used(i) /\ entries[i].mac \in S
  PROVE  Size <= Cardinality(S)
<1> DEFINE f == [i \in Slots |-> entries[i].mac]
<1>1. f \in Injection(Slots, S)
  BY DEF SlotsApart, Injection, IsInjective
<1>2. IsFiniteSet(S)
  BY FS_Subset, IdentitySlotsAssumption
<1>3. Cardinality(Slots) = Size
  BY FS_Interval, IdentitySlotsAssumption DEF Slots
<1> HIDE DEF f
<1>4. Cardinality(Slots) <= Cardinality(S)
  BY <1>1, <1>2, FS_Injection
<1>5. QED
  BY <1>3, <1>4

LEMMA ConflictsStep ==
  ASSUME IInv, NEW m \in Macs, NEW i \in Slots, NEW u \in Uas, Remembers(i, m, u)
  PROVE  ConflictsKept' /\ conflicted' \subseteq Macs
<1>1. TypeOK /\ SlotsApart /\ SlotsSound /\ ConflictsKept
  BY DEF IInv
<1>2. conflicted \subseteq Macs /\ conflicted' \subseteq Macs /\ conflicted \subseteq conflicted'
  BY <1>1 DEF Remembers, TypeOK
<1>3. IsFiniteSet(conflicted) /\ IsFiniteSet(conflicted')
  BY <1>2, FS_Subset, IdentitySlotsAssumption
<1>4. Cardinality(conflicted) <= Cardinality(conflicted')
  BY <1>2, <1>3, FS_Subset
<1> SUFFICES ASSUME Cardinality(conflicted') < Size, NEW n \in conflicted'
             PROVE  \E k \in Slots : entries'[k].mac = n /\ entries'[k].quarantined
  BY <1>2 DEF ConflictsKept
<1>5. Cardinality(conflicted) < Size
  <2>1. Cardinality(conflicted) \in Nat /\ Cardinality(conflicted') \in Nat /\ Size \in Nat
    BY <1>3, FS_CardinalityType, IdentitySlotsAssumption
  <2>2. QED
    BY <2>1, <1>4
<1>6. \A k \in Slots : k # i => entries'[k] = entries[k]
  BY DEF Remembers
<1>7. CASE n \in conflicted /\ ~ (n = m /\ Find(m) # {})
  <2>1. PICK k \in Slots : entries[k].mac = n /\ entries[k].quarantined
    BY <1>1, <1>5, <1>7 DEF ConflictsKept
  <2>2. k # i
    <3>1. CASE Find(m) # {}
      BY <3>1, <2>1, <1>7 DEF Remembers
    <3>2. CASE Find(m) = {}
      <4>1. Unquarantined # {}
        <5>1. ASSUME Unquarantined = {} PROVE FALSE
          <6>1. \A j \in Slots : Used(j) /\ entries[j].mac \in conflicted
            <7>1. \A j \in Slots : entries[j].quarantined
              BY <5>1 DEF Unquarantined
            <7>2. \A j \in Slots : Used(j)
              BY <7>1, <1>1, NamedIsUsed
            <7>3. QED
              BY <7>1, <7>2, <1>1 DEF SlotsSound
          <6>2. Size <= Cardinality(conflicted)
            BY <6>1, <1>1, <1>2, AsManySlots
          <6>3. Cardinality(conflicted) \in Nat /\ Size \in Nat
            BY <1>3, FS_CardinalityType, IdentitySlotsAssumption
          <6>4. QED
            BY <6>2, <6>3, <1>5
        <5>2. QED
          BY <5>1
      <4>2. ~ entries[i].quarantined
        BY <4>1, <3>2 DEF Remembers
      <4>3. QED
        BY <4>2, <2>1
    <3>3. QED
      BY <3>1, <3>2
  <2>3. QED
    BY <2>1, <2>2, <1>6
<1>8. CASE n = m /\ Find(m) # {}
  <2>1. CASE StaysInConflict(i) \/ FoundInConflict(i)
    BY <2>1, <1>8 DEF Remembers, StaysInConflict, FoundInConflict
  <2>2. CASE SaysAgain(i, u) /\ conflicted' = conflicted
    <3>1. PICK k \in Slots : entries[k].mac = n /\ entries[k].quarantined
      BY <1>1, <1>5, <2>2 DEF ConflictsKept
    <3>2. k # i
      BY <3>1, <2>2 DEF SaysAgain
    <3>3. QED
      BY <3>1, <3>2, <1>6
  <2>3. QED
    BY <2>1, <2>2, <1>8 DEF Remembers
<1>9. n \in conflicted \/ (n = m /\ Find(m) # {})
  BY DEF Remembers
<1>10. QED
  BY <1>7, <1>8, <1>9

LEMMA KeptStep ==
  ASSUME IInv, NEW m \in Macs, NEW i \in Slots, NEW u \in Uas, Remembers(i, m, u), Decoded(m, u)
  PROVE  AllKept'
<1>1. TypeOK /\ SlotsApart /\ SlotsSound /\ AllKept /\ m # NONE
  BY IdentitySlotsAssumption DEF IInv
<1>2. /\ \A n \in Macs : n # m => Heard(n)' = Heard(n)
      /\ Heard(m)' = Heard(m) \cup {u}
      /\ HeardMacs' = HeardMacs \cup {m}
  BY <1>1, HeardStep
<1>3. HeardMacs \in SUBSET Macs /\ IsFiniteSet(HeardMacs)
  BY FS_Subset, IdentitySlotsAssumption DEF HeardMacs
<1>4. /\ Cardinality(HeardMacs) \in Nat /\ Size \in Nat
      /\ Cardinality(HeardMacs') = IF m \in HeardMacs THEN Cardinality(HeardMacs)
                                                      ELSE Cardinality(HeardMacs) + 1
  BY <1>2, <1>3, FS_AddElement, FS_CardinalityType, IdentitySlotsAssumption
<1> SUFFICES ASSUME Cardinality(HeardMacs') <= Size, NEW n \in HeardMacs'
             PROVE  \E k \in Slots : /\ entries'[k].mac = n
                                     /\ entries'[k].quarantined \/ Heard(n)' = {entries'[k].uas_id}
  BY DEF AllKept
<1>5. \A l \in HeardMacs : \E k \in Slots :
        entries[k].mac = l /\ (entries[k].quarantined \/ Heard(l) = {entries[k].uas_id})
  BY <1>1, <1>4 DEF AllKept
<1>6. \A k \in Slots : k # i => entries'[k] = entries[k]
  BY DEF Remembers
<1>7. CASE n # m
  <2>1. n \in HeardMacs /\ Heard(n)' = Heard(n)
    BY <1>2, <1>3, <1>7
  <2>2. PICK k \in Slots : /\ entries[k].mac = n
                           /\ (entries[k].quarantined \/ Heard(n) = {entries[k].uas_id})
    BY <2>1, <1>5
  <2>3. k # i
    <3>1. CASE Find(m) # {}
      BY <3>1, <2>2, <1>7 DEF Remembers
    <3>2. CASE Find(m) = {}
      <4>1. m \notin HeardMacs
        BY <1>5, <3>2 DEF Find
      <4>2. Free # {}
        <5>1. ASSUME Free = {} PROVE FALSE
          <6>1. \A j \in Slots : Used(j) /\ entries[j].mac \in HeardMacs
            BY <5>1, <1>1 DEF Free, SlotsSound, HeardMacs, TypeOK, Entry, Used
          <6>2. Size <= Cardinality(HeardMacs)
            BY <6>1, <1>1, <1>3, AsManySlots
          <6>3. QED
            BY <6>2, <4>1, <1>4
        <5>2. QED
          BY <5>1
      <4>3. ~ Used(i)
        BY <4>2, <3>2 DEF Remembers
      <4>4. n # NONE
        BY <1>3, <2>1, IdentitySlotsAssumption
      <4>5. QED
        BY <4>3, <4>4, <2>2 DEF Used
    <3>3. QED
      BY <3>1, <3>2
  <2>4. QED
    BY <2>1, <2>2, <2>3, <1>6
<1>8. CASE n = m
  <2>1. entries'[i].mac = m
    BY DEF Remembers
  <2>2. CASE Find(m) # {} /\ SaysAgain(i, u)
    <3>1. entries[i].mac = m /\ Used(i) /\ m \in HeardMacs
      BY <2>2, <1>1 DEF Remembers, Used, SlotsSound, HeardMacs
    <3>2. PICK k \in Slots : /\ entries[k].mac = m
                             /\ (entries[k].quarantined \/ Heard(m) = {entries[k].uas_id})
      BY <3>1, <1>5
    <3>3. k = i
      BY <3>1, <3>2, <1>1 DEF SlotsApart
    <3>4. Heard(m)' = {u} /\ entries'[i].uas_id = u
      BY <3>2, <3>3, <2>2, <1>2 DEF SaysAgain
    <3>5. QED
      BY <3>4, <2>1, <1>8
  <2>3. CASE Find(m) # {} /\ ~ SaysAgain(i, u)
    <3>1. entries'[i].quarantined
      BY <2>3 DEF Remembers, StaysInConflict, FoundInConflict
    <3>2. QED
      BY <3>1, <2>1, <1>8
  <2>4. CASE Find(m) = {}
    <3>1. Heard(m) = {}
      BY <1>5, <2>4 DEF Find, HeardMacs
    <3>2. Heard(m)' = {u} /\ entries'[i].uas_id = u
      BY <3>1, <2>4, <1>2 DEF Remembers, NamedAnew
    <3>3. QED
      BY <3>2, <2>1, <1>8
  <2>5. QED
    BY <2>2, <2>3, <2>4
<1>9. QED
  BY <1>7, <1>8

-----------------------------------------------------------------------------
(* The invariant.                                                          *)

LEMMA Initially == InitSlots => IInv
<1> SUFFICES ASSUME InitSlots PROVE IInv
  OBVIOUS
<1>1. TypeOK
  BY IdentitySlotsAssumption
  DEF InitSlots, TypeOK, Entry, Unused, Cleared, Unheard, Time
<1>2. \A i \in Slots : entries[i] = Unused /\ ~ Used(i) /\ entries[i].uas_id = NONE
  BY DEF InitSlots, Unused, Cleared, Used
<1>3. \A m \in Macs : Heard(m) = {}
  BY DEF InitSlots, Heard, Unheard
<1>4. conflicted = {}
  BY DEF InitSlots
<1>5. SlotsApart /\ SlotsSound /\ AgeSound
  BY <1>2 DEF SlotsApart, SlotsSound, AgeSound
<1>6. ConflictsKept /\ AllKept
  BY <1>3, <1>4 DEF ConflictsKept, AllKept, HeardMacs
<1>7. QED
  BY <1>1, <1>5, <1>6 DEF IInv

LEMMA NothingChanges ==
  ASSUME IInv, UNCHANGED slotVars
  PROVE  IInv'
<1>1. UNCHANGED <<entries, clock, now, back, steps, decodes, heard, conflicted>>
  BY DEF slotVars, cache, clocks
<1>2. TypeOK'
  BY <1>1 DEF IInv, TypeOK
<1>3. SlotsApart'
  BY <1>1 DEF IInv, SlotsApart, Used
<1>4. SlotsSound'
  BY <1>1 DEF IInv, SlotsSound, Used, Heard
<1>5. AgeSound'
  BY <1>1 DEF IInv, AgeSound
<1>6. ConflictsKept'
  BY <1>1 DEF IInv, ConflictsKept
<1>7. AllKept'
  BY <1>1 DEF IInv, AllKept, HeardMacs, Heard
<1>8. QED
  BY <1>2, <1>3, <1>4, <1>5, <1>6, <1>7 DEF IInv

LEMMA RememberKeeps ==
  ASSUME IInv, NEW m \in Macs, NEW u \in Uas \cup {NA}, Remember(m, u)
  PROVE  IInv'
<1>1. CASE u = NA
  <2>1. UNCHANGED slotVars
    BY <1>1 DEF Remember, identity_remember, slotVars
  <2>2. QED
    BY <2>1, NothingChanges
<1>2. CASE u \in Uas
  <2>1. identity_remember(m, u) /\ UNCHANGED clocks
    BY DEF Remember
  <2>2. /\ \E i \in Slots : Remembers(i, m, u)
        /\ Decoded(m, u) /\ heard' \in [Macs -> [Uas -> [times : 0..Strong, last : Time]]]
        /\ decodes' \in 0..MaxDecodes
    BY <1>2, <2>1, SlotStep
  <2>3. PICK i \in Slots : Remembers(i, m, u)
    BY <2>2
  <2>4. conflicted' \subseteq Macs /\ ConflictsKept'
    BY <2>3, <1>2, ConflictsStep
  <2>5. entries' \in [Slots -> Entry]
    <3>1. entries \in [Slots -> Entry]
      BY DEF IInv, TypeOK
    <3>2. \A j \in Slots : entries'[j] \in Entry
      BY <2>3, <3>1 DEF Remembers
    <3>3. entries' = [entries EXCEPT ![slot_for(m)] = Remembered(EntryFor(m), u)]
      BY <1>2, <2>1, IdentitySlotsAssumption DEF identity_remember
    <3>4. DOMAIN entries' = Slots /\ entries' = [j \in DOMAIN entries' |-> entries'[j]]
      BY <3>1, <3>3
    <3>5. QED
      BY <3>2, <3>4
  <2>6. TypeOK'
    BY <2>1, <2>2, <2>4, <2>5 DEF TypeOK, IInv, clocks
  <2>7. QED
    BY <2>1, <2>2, <2>3, <2>4, <2>6, <1>2, ApartStep, SoundStep, AgeStep, KeptStep DEF IInv
<1>3. QED
  BY <1>1, <1>2

LEMMA ClockKeeps ==
  ASSUME IInv, Tick \/ ClockSet
  PROVE  IInv'
<1>1. UNCHANGED cache
  BY DEF Tick, ClockSet
<1>2. /\ clock' \in Time /\ now' \in Time /\ back' \in Nat /\ steps' \in 0..MaxSteps
      /\ now' - clock' - back' <= now - clock - back
  <2>1. /\ clock \in Nat /\ now \in Nat /\ back \in Nat /\ steps \in 0..MaxSteps
        /\ MaxTime \in Nat /\ MaxSteps \in Nat
    BY IdentitySlotsAssumption DEF IInv, TypeOK, Time
  <2>2. CASE Tick
    BY <2>1, <2>2 DEF Tick, Time
  <2>3. CASE ClockSet
    <3>1. clock' \in Nat /\ clock' \in Time /\ now' = now /\ steps' \in 0..MaxSteps
      BY <2>1, <2>3 DEF ClockSet, Time
    <3>2. back' = IF clock' < clock THEN back + (clock - clock') ELSE back
      BY <2>3 DEF ClockSet
    <3>3. now \in Time
      BY DEF IInv, TypeOK
    <3>4. ASSUME clock' < clock PROVE back' = back + (clock - clock') /\ back' \in Nat
      <4>1. back' = back + (clock - clock')
        BY <3>2, <3>4
      <4>2. back \in Nat /\ clock \in Nat /\ clock' \in Nat
        BY <2>1, <3>1
      <4>3. \A d \in Nat : d < clock => back + (clock - d) \in Nat
        BY <4>2
      <4>4. back + (clock - clock') \in Nat
        BY <4>2, <4>3, <3>4, Zenon
      <4>5. QED
        BY <4>1, <4>4, Zenon
    <3>5. ~ (clock' < clock) => back' = back /\ back' \in Nat
      BY <2>1, <3>2
    <3>6. now' - clock' - back' <= now - clock - back
      BY <2>1, <3>1, <3>4, <3>5
    <3>7. QED
      BY <3>1, <3>3, <3>4, <3>5, <3>6
  <2>4. QED
    BY <2>2, <2>3
<1>3. TypeOK'
  BY <1>1, <1>2 DEF IInv, TypeOK, cache
<1>4. AgeSound'
  <2> SUFFICES ASSUME NEW i \in Slots, entries[i].uas_id # NONE
               PROVE  LET decoded == heard[entries[i].mac][entries[i].uas_id]
                      IN  /\ now' - decoded.last <= clock' - entries[i].last_decoded_at + back'
                          /\ entries[i].sightings <= decoded.times \/ decoded.times = Strong
    BY <1>1 DEF AgeSound, cache
  <2> DEFINE decoded == heard[entries[i].mac][entries[i].uas_id]
             last == decoded.last
             at == entries[i].last_decoded_at
  <2>1. /\ now - last <= clock - at + back
        /\ entries[i].sightings <= decoded.times \/ decoded.times = Strong
    BY DEF IInv, AgeSound
  <2>2. Used(i) /\ entries[i].mac \in Macs /\ entries[i].uas_id \in Uas /\ at \in Nat
    BY NamedIsUsed, IdentitySlotsAssumption DEF IInv, TypeOK, Entry, Time
  <2>3. last \in Nat
    BY <2>2, IdentitySlotsAssumption DEF IInv, TypeOK, Time
  <2>4. /\ clock \in Nat /\ now \in Nat /\ back \in Nat
        /\ clock' \in Nat /\ now' \in Nat /\ back' \in Nat
    BY <1>2, IdentitySlotsAssumption DEF IInv, TypeOK, Time
  <2> HIDE DEF last, at
  <2>5. now' - last <= clock' - at + back'
    <3>1. now' - clock' - back' <= now - clock - back
      BY <1>2
    <3>2. now - last <= clock - at + back
      BY <2>1
    <3>3. /\ clock \in Int /\ now \in Int /\ back \in Int /\ last \in Int /\ at \in Int
          /\ clock' \in Int /\ now' \in Int /\ back' \in Int
      BY <2>2, <2>3, <2>4
    <3>4. \A n, c, b \in Int :
            n - c - b <= now - clock - back => n - last <= c - at + b
      BY <3>2, <3>3
    <3>5. QED
      BY <3>1, <3>3, <3>4, Zenon
  <2>6. QED
    BY <2>1, <2>5 DEF last, at
<1>5. SlotsApart' /\ SlotsSound'
  BY <1>1 DEF IInv, cache, SlotsApart, SlotsSound, Used, Heard
<1>6. ConflictsKept' /\ AllKept'
  BY <1>1 DEF IInv, cache, ConflictsKept, AllKept, HeardMacs, Heard
<1>7. QED
  BY <1>3, <1>4, <1>5, <1>6 DEF IInv

LEMMA Invariant == SlotsSpec => []IInv
<1>1. InitSlots => IInv
  BY Initially
<1>2. ASSUME IInv, [NextSlots]_slotVars PROVE IInv'
  <2>1. CASE \E m \in Macs, u \in Uas \cup {NA} : Remember(m, u)
    BY <1>2, <2>1, RememberKeeps
  <2>2. CASE Tick \/ ClockSet
    BY <1>2, <2>2, ClockKeeps
  <2>3. CASE UNCHANGED slotVars
    BY <1>2, <2>3, NothingChanges
  <2>4. QED
    BY <1>2, <2>1, <2>2, <2>3 DEF NextSlots
<1>3. QED
  BY <1>1, <1>2, PTL DEF SlotsSpec

-----------------------------------------------------------------------------
(* The cache.                                                              *)

\* What an address is recalled as comes from its own slot, usable.
LEMMA Recalls ==
  ASSUME TypeOK, NEW m \in Macs, NEW u \in Uas, u \in identity_recall(m)
  PROVE  \E i \in Slots : /\ entries[i].mac = m /\ Used(i) /\ entries[i].uas_id = u /\ u # NONE
                          /\ ~ entries[i].quarantined
                          /\ clock - entries[i].last_decoded_at <= Horizon(entries[i])
BY IdentitySlotsAssumption DEF identity_recall, Find, Usable, Used

\* The array keeps its shape, and a count never passes its 16 bits (identity_remember).
THEOREM SlotsTypes == SlotsSpec => []TypeOK
<1>1. IInv => TypeOK
  BY DEF IInv
<1>2. QED
  BY <1>1, Invariant, PTL

\* While there are slots for all the addresses heard, an address is recalled as the one
\* thing it said, however the decodes came and however the clock was set.
THEOREM Unambiguous == SlotsSpec => []UnambiguousUnlessFull
<1>1. ASSUME IInv PROVE UnambiguousUnlessFull
  <2> SUFFICES ASSUME Cardinality(HeardMacs) <= Size, NEW m \in Macs, NEW u \in Uas,
                      u \in identity_recall(m)
               PROVE  Heard(m) = {u}
    BY DEF UnambiguousUnlessFull, HeardMacs
  <2>1. TypeOK /\ SlotsApart /\ SlotsSound /\ AllKept
    BY <1>1 DEF IInv
  <2>2. PICK i \in Slots : /\ entries[i].mac = m /\ Used(i) /\ entries[i].uas_id = u
                           /\ ~ entries[i].quarantined
    BY <2>1, Recalls
  <2>3. m \in HeardMacs
    BY <2>1, <2>2 DEF SlotsSound, HeardMacs
  <2>4. PICK k \in Slots : /\ entries[k].mac = m
                           /\ (entries[k].quarantined \/ Heard(m) = {entries[k].uas_id})
    BY <2>1, <2>3 DEF AllKept
  <2>5. k = i
    BY <2>1, <2>2, <2>4 DEF SlotsApart
  <2>6. QED
    BY <2>2, <2>4, <2>5
<1>2. QED
  BY <1>1, Invariant, PTL

\* An address found in conflict is recalled as nothing, as long as conflicts have not
\* filled the array, whatever else is heard and forgotten.
THEOREM ConflictStays == SlotsSpec => []ConflictIsRemembered
<1>1. ASSUME IInv PROVE ConflictIsRemembered
  <2> SUFFICES ASSUME Cardinality(conflicted) < Size, NEW m \in conflicted, NEW i \in Slots,
                      entries[i].mac = m, Usable(entries[i])
               PROVE  FALSE
    BY DEF ConflictIsRemembered, identity_recall, Find
  <2>1. TypeOK /\ SlotsApart /\ ConflictsKept
    BY <1>1 DEF IInv
  <2>2. PICK k \in Slots : entries[k].mac = m /\ entries[k].quarantined
    BY <2>1 DEF ConflictsKept
  <2>3. m # NONE
    BY <2>1, IdentitySlotsAssumption DEF TypeOK
  <2>4. k = i
    BY <2>1, <2>2, <2>3 DEF SlotsApart, Used
  <2>5. QED
    BY <2>2, <2>4 DEF Usable
<1>2. QED
  BY <1>1, Invariant, PTL

\* An identity is recalled for no longer than its horizon, and by how much the clock was
\* set back; the long horizon is earned by decodes (identity_recall).
THEOREM AgeBound == SlotsSpec => []AgeIsBounded
<1>1. ASSUME IInv PROVE AgeIsBounded
  <2> SUFFICES ASSUME NEW m \in Macs, NEW u \in Uas, u \in identity_recall(m)
               PROVE  /\ heard[m][u].times > 0
                      /\ now - heard[m][u].last <=
                           back + (IF heard[m][u].times >= Strong THEN StrongTtl ELSE WeakTtl)
    BY DEF AgeIsBounded
  <2>1. TypeOK /\ SlotsSound /\ AgeSound
    BY <1>1 DEF IInv
  <2>2. PICK i \in Slots : /\ entries[i].mac = m /\ Used(i) /\ entries[i].uas_id = u /\ u # NONE
                           /\ ~ entries[i].quarantined
                           /\ clock - entries[i].last_decoded_at <= Horizon(entries[i])
    BY <2>1, Recalls
  <2>3. heard[m][u].times > 0
    BY <2>1, <2>2 DEF SlotsSound, Heard
  <2>4. /\ now - heard[m][u].last <= clock - entries[i].last_decoded_at + back
        /\ entries[i].sightings <= heard[m][u].times \/ heard[m][u].times = Strong
    BY <2>1, <2>2 DEF AgeSound
  <2>5. /\ now \in Nat /\ clock \in Nat /\ back \in Nat /\ WeakTtl \in Nat /\ StrongTtl \in Nat
        /\ WeakTtl <= StrongTtl /\ Strong \in Nat
    BY <2>1, IdentitySlotsAssumption DEF TypeOK, Time
  <2>6. entries[i].last_decoded_at \in Nat /\ entries[i].sightings \in Nat
    BY <2>1, IdentitySlotsAssumption DEF TypeOK, Entry, Time
  <2>7. heard[m][u].times \in Nat /\ heard[m][u].last \in Nat
    BY <2>1, IdentitySlotsAssumption DEF TypeOK, Time
  <2>8. Horizon(entries[i]) <= IF heard[m][u].times >= Strong THEN StrongTtl ELSE WeakTtl
    BY <2>4, <2>5, <2>6, <2>7 DEF Horizon
  <2>9. Horizon(entries[i]) \in Nat
    BY <2>5 DEF Horizon
  <2>10. QED
    BY <2>2, <2>3, <2>4, <2>5, <2>6, <2>7, <2>8, <2>9
<1>2. QED
  BY <1>1, Invariant, PTL
-----------------------------------------------------------------------------
(* The two decoders on any message of 25 bytes.                            *)

LEMMA BytesOf ==
  ASSUME NEW msg \in Message
  PROVE  /\ \A n \in 1..25 : msg[n] \in Byte
         /\ \A i \in 0..24 : At(msg, i) \in Byte
<1>1. msg \in Seq(Byte) /\ Len(msg) = 25
  BY DEF Message, ODID_MESSAGE_SIZE
<1>2. \A n \in 1..25 : msg[n] \in Byte
  BY <1>1, ElementOfSeq
<1>3. \A i \in 0..24 : i + 1 \in 1..25
  OBVIOUS
<1>4. \A i \in 0..24 : msg[i + 1] \in Byte
  BY <1>2, <1>3
<1>5. QED
  BY <1>2, <1>4 DEF At

LEMMA Piece ==
  ASSUME NEW S, NEW s \in Seq(S), NEW i \in 0..24, NEW j \in i..25, Len(s) = 25
  PROVE  \A k \in 1..(j - i) : SubSeq(s, i + 1, j)[k] = s[i + k]
  OBVIOUS

LEMMA SliceBytes ==
  ASSUME NEW msg \in Message, NEW i \in 0..24, NEW j \in i..25
  PROVE  \A k \in 1..(j - i) : Slice(msg, i, j)[k] = msg[i + k]
<1>1. msg \in Seq(Byte) /\ Len(msg) = 25
  BY DEF Message, ODID_MESSAGE_SIZE
<1>2. Slice(msg, i, j) = SubSeq(msg, i + 1, j)
  BY <1>1 DEF Slice
<1>3. \A k \in 1..(j - i) : SubSeq(msg, i + 1, j)[k] = msg[i + k]
  BY <1>1, Piece
<1>4. QED
  BY <1>2, <1>3

LEMMA SameU16 ==
  ASSUME NEW msg \in Message, NEW i \in 0..23
  PROVE  read_u16(msg, i) = unpack_H(Slice(msg, i, i + 2)) /\ read_u16(msg, i) \in Nat
<1> DEFINE s == Slice(msg, i, i + 2)
           a == msg[i + 1]
           b == msg[i + 2]
<1>1. s[1] = a /\ s[2] = b
  <2>1. \A k \in 1..2 : s[k] = msg[i + k]
    <3>1. i \in 0..24 /\ i + 2 \in i..25 /\ (i + 2) - i = 2
      OBVIOUS
    <3>2. QED
      BY <3>1, SliceBytes
  <2>2. QED
    BY <2>1
<1>2. a \in Byte /\ b \in Byte
  <2>1. i + 1 \in 1..25 /\ i + 2 \in 1..25
    OBVIOUS
  <2>2. QED
    BY <2>1, BytesOf
<1>3. read_u16(msg, i) = a + 256 * b
  <2>1. (i + 1) + 1 = i + 2
    OBVIOUS
  <2>2. QED
    BY <2>1 DEF read_u16, At
<1> HIDE DEF s, a, b
<1>4. unpack_H(s) = a + 256 * b
  BY <1>1 DEF unpack_H
<1>5. QED
  BY <1>2, <1>3, <1>4 DEF Byte, s

LEMMA SameI32 ==
  ASSUME NEW msg \in Message, NEW i \in 0..21
  PROVE  read_i32(msg, i) = unpack_i(Slice(msg, i, i + 4)) /\ read_i32(msg, i) \in Int
<1> DEFINE s == Slice(msg, i, i + 4)
           a == msg[i + 1]
           b == msg[i + 2]
           c == msg[i + 3]
           d == msg[i + 4]
<1>1. s[1] = a /\ s[2] = b /\ s[3] = c /\ s[4] = d
  <2>1. \A k \in 1..4 : s[k] = msg[i + k]
    <3>1. i \in 0..24 /\ i + 4 \in i..25 /\ (i + 4) - i = 4
      OBVIOUS
    <3>2. QED
      BY <3>1, SliceBytes
  <2>2. QED
    BY <2>1
<1>2. a \in Byte /\ b \in Byte /\ c \in Byte /\ d \in Byte
  <2>1. i + 1 \in 1..25 /\ i + 2 \in 1..25 /\ i + 3 \in 1..25 /\ i + 4 \in 1..25
    OBVIOUS
  <2>2. QED
    BY <2>1, BytesOf
<1>3. read_i32(msg, i) = a + 256 * b + 65536 * c + 16777216 * Signed(d)
  <2>1. (i + 1) + 1 = i + 2 /\ (i + 2) + 1 = i + 3 /\ (i + 3) + 1 = i + 4
    OBVIOUS
  <2>2. QED
    BY <2>1 DEF read_i32, read_u16, At
<1> HIDE DEF s, a, b, c, d
<1>4. unpack_i(s) = IF d < 128 THEN a + 256 * b + 65536 * c + 16777216 * d
                    ELSE -1 - ((255 - a) + 256 * (255 - b) + 65536 * (255 - c) + 16777216 * (255 - d))
  BY <1>1 DEF unpack_i
<1>5. QED
  BY <1>2, <1>3, <1>4 DEF Signed, Byte, s

LEMMA SameI8 ==
  ASSUME NEW b \in Byte
  PROVE  unpack_i(<<0, 0, 0, b>>) \div 16777216 = Signed(b)
<1>1. CASE b < 128
  <2>1. unpack_i(<<0, 0, 0, b>>) = 16777216 * b
    BY <1>1 DEF unpack_i, Byte
  <2>2. (16777216 * b) \div 16777216 = b
    BY DEF Byte
  <2>3. QED
    BY <1>1, <2>1, <2>2 DEF Signed
<1>2. CASE ~ (b < 128)
  <2>1. unpack_i(<<0, 0, 0, b>>) = 16777216 * (b - 256)
    BY <1>2 DEF unpack_i, Byte
  <2>2. (16777216 * (b - 256)) \div 16777216 = b - 256
    BY DEF Byte
  <2>3. QED
    BY <1>2, <2>1, <2>2 DEF Signed
<1>3. QED
  BY <1>1, <1>2

\* Half to even, in C and in Python.
LEMMA SameRound ==
  ASSUME NEW n \in Nat
  PROVE  round_to(n) = Round(n)
<1> DEFINE q == n \div 10
           r == n % 10
           distance(t) == IF 10 * t > n THEN 10 * t - n ELSE n - 10 * t
           nearest == {t \in q..(q + 1) : \A s \in q..(q + 1) : distance(t) <= distance(s)}
<1>1. q \in Nat /\ r \in 0..9 /\ n = 10 * q + r
  OBVIOUS
<1>2. Round(n) = CHOOSE t \in nearest : nearest = {t} \/ t % 2 = 0
  BY DEF Round
<1>3. round_to(n) = CASE r < 5 -> q
                      [] r = 5 -> q + (q % 2)
                      [] OTHER -> q + 1
  BY DEF round_to
<1> HIDE DEF q, r
<1>4. distance(q) = r /\ distance(q + 1) = 10 - r
  BY <1>1
<1>5. q..(q + 1) = {q, q + 1}
  BY <1>1
<1>6. /\ nearest \subseteq {q, q + 1}
      /\ q \in nearest <=> r <= 10 - r
      /\ q + 1 \in nearest <=> 10 - r <= r
  <2> HIDE DEF distance
  <2>1. r \in Int /\ r <= r /\ 10 - r <= 10 - r
    BY <1>1
  <2>2. QED
    BY <1>4, <1>5, <2>1
<1> HIDE DEF nearest
<1>7. CASE r < 5
  <2>1. nearest = {q}
    <3>1. r <= 10 - r /\ ~ (10 - r <= r)
      BY <1>1, <1>7
    <3>2. QED
      BY <1>6, <3>1
  <2>2. QED
    BY <1>2, <1>3, <1>7, <2>1
<1>8. CASE r > 5
  <2>1. nearest = {q + 1}
    <3>1. ~ (r <= 10 - r) /\ 10 - r <= r
      BY <1>1, <1>8
    <3>2. QED
      BY <1>6, <3>1
  <2>2. QED
    BY <1>1, <1>2, <1>3, <1>8, <2>1
<1>9. CASE r = 5
  <2>1. nearest = {q, q + 1}
    <3>1. r <= 10 - r /\ 10 - r <= r
      BY <1>9
    <3>2. QED
      BY <1>6, <3>1
  <2>2. q # q + 1 /\ q % 2 \in {0, 1} /\ (q % 2 = 0 <=> (q + 1) % 2 # 0)
    BY <1>1
  <2>3. \A t \in nearest : (nearest = {t} \/ t % 2 = 0) <=> t = q + (q % 2)
    BY <1>1, <2>1, <2>2
  <2>4. q + (q % 2) \in nearest
    BY <1>1, <2>1, <2>2
  <2>5. Round(n) = q + (q % 2)
    BY <1>2, <2>3, <2>4
  <2>6. QED
    BY <1>3, <1>9, <2>5
<1>10. QED
  BY <1>1, <1>7, <1>8, <1>9

LEMMA SameLocation ==
  ASSUME NEW msg \in Message
  PROVE  odid_decode_location(msg) = decode_location(msg)
<1> DEFINE flags == At(msg, 1)
           lat == read_i32(msg, 5)
           lon == read_i32(msg, 9)
           baro == read_u16(msg, 13)
           geo == read_u16(msg, 15)
           height == read_u16(msg, 17)
           absolute == IF geo # 0 THEN geo ELSE baro
           s == At(msg, 3)
           speedC == round_to(IF Flag(flags, 1) THEN 255 * 25 + s * 75 ELSE s * 25)
           speedP == Round(IF (flags \div 1) % 2 = 1 THEN 6375 + s * 75 ELSE s * 25)
           vspeedP == unpack_i(<<0, 0, 0, At(msg, 4)>>) \div 16777216
           altitudeC == CASE height # 0 -> {<<altitude_from(height), "agl">>}
                          [] height = 0 /\ geo # 0 -> {<<altitude_from(geo), "absolute">>}
                          [] height = 0 /\ geo = 0 /\ baro # 0 -> {<<altitude_from(baro), "absolute">>}
                          [] OTHER -> {}
           altitudeP == IF height # 0 THEN {<<Metres(height), "agl">>}
                        ELSE {<<Metres(a), "absolute">> : a \in {absolute} \ {0}}
           heightC == IF height = 0 THEN {}
                      ELSE {<<altitude_from(height), IF Flag(flags, 4) THEN "ground" ELSE "takeoff">>}
           heightP == {<<Metres(h), <<"takeoff", "ground">>[((flags \div 4) % 2) + 1]>> : h \in {height} \ {0}}
<1>1. /\ lat = unpack_i(Slice(msg, 5, 9)) /\ lon = unpack_i(Slice(msg, 9, 13))
      /\ baro = unpack_H(Slice(msg, 13, 15)) /\ geo = unpack_H(Slice(msg, 15, 17))
      /\ height = unpack_H(Slice(msg, 17, 19))
      /\ lat \in Int /\ lon \in Int /\ baro \in Nat /\ geo \in Nat /\ height \in Nat
  BY SameI32, SameU16
<1>2. flags \in Byte /\ s \in Byte /\ At(msg, 4) \in Byte /\ At(msg, 2) \in Byte
  BY BytesOf
<1>3. speedC = speedP
  <2>1. flags \div 1 = flags
    BY <1>2 DEF Byte
  <2>2. (IF Flag(flags, 1) THEN 255 * 25 + s * 75 ELSE s * 25)
        = (IF (flags \div 1) % 2 = 1 THEN 6375 + s * 75 ELSE s * 25)
    BY <2>1, <1>2 DEF Flag, Byte
  <2>3. (IF Flag(flags, 1) THEN 255 * 25 + s * 75 ELSE s * 25) \in Nat
    BY <1>2 DEF Byte
  <2>4. QED
    BY <2>2, <2>3, SameRound
<1>4. 5 * Signed(At(msg, 4)) = vspeedP * 5
  <2>1. vspeedP = Signed(At(msg, 4))
    BY <1>2, SameI8
  <2>2. Signed(At(msg, 4)) \in Int
    BY <1>2 DEF Signed, Byte
  <2> HIDE DEF vspeedP
  <2>3. QED
    BY <2>1, <2>2
<1>5. \A w \in {2, 4} : (flags \div w) % 2 \in {0, 1} /\ (Flag(flags, w) <=> (flags \div w) % 2 = 1)
  BY <1>2 DEF Flag, Byte
<1>6. At(msg, 2) + (IF Flag(flags, 2) THEN 180 ELSE 0) = At(msg, 2) + 180 * ((flags \div 2) % 2)
  BY <1>2, <1>5 DEF Byte
<1>7. \A a \in Nat : altitude_from(a) = Metres(a)
  BY DEF altitude_from, Metres
<1> HIDE DEF height, geo, baro, lat, lon
<1>8. altitudeC = altitudeP
  <2>1. CASE height # 0
    BY <2>1, <1>1, <1>7
  <2>2. CASE height = 0 /\ geo # 0
    <3>1. altitudeP = {<<Metres(geo), "absolute">>}
      BY <2>2
    <3>2. QED
      BY <2>2, <3>1, <1>1, <1>7
  <2>3. CASE height = 0 /\ geo = 0 /\ baro # 0
    <3>1. altitudeP = {<<Metres(baro), "absolute">>}
      BY <2>3
    <3>2. QED
      BY <2>3, <3>1, <1>1, <1>7
  <2>4. CASE height = 0 /\ geo = 0 /\ baro = 0
    BY <2>4
  <2>5. QED
    BY <2>1, <2>2, <2>3, <2>4
<1>9. heightC = heightP
  <2>1. (IF Flag(flags, 4) THEN "ground" ELSE "takeoff") = <<"takeoff", "ground">>[((flags \div 4) % 2) + 1]
    <3>1. CASE (flags \div 4) % 2 = 1
      BY <3>1, <1>5
    <3>2. CASE (flags \div 4) % 2 = 0
      BY <3>2, <1>5
    <3>3. QED
      BY <3>1, <3>2, <1>5
  <2>2. CASE height = 0
    BY <2>2
  <2>3. CASE height # 0
    <3>1. {height} \ {0} = {height}
      BY <2>3
    <3>2. heightP = {<<Metres(height), <<"takeoff", "ground">>[((flags \div 4) % 2) + 1]>>}
      BY <3>1
    <3>3. altitude_from(height) = Metres(height)
      BY <1>1, <1>7
    <3>4. QED
      BY <2>1, <2>3, <3>2, <3>3
  <2>4. QED
    BY <2>2, <2>3
<1>10. ({lat, lon} = {0}) <=> lat = 0 /\ lon = 0
  OBVIOUS
<1> HIDE DEF speedC, speedP, altitudeC, altitudeP, heightC, heightP, vspeedP
<1>11. odid_decode_location(msg) =
         IF lat = 0 /\ lon = 0 THEN {}
         ELSE {[lat |-> lat, lon |-> lon, speed |-> speedC, vspeed |-> 5 * Signed(At(msg, 4)),
                direction |-> At(msg, 2) + (IF Flag(flags, 2) THEN 180 ELSE 0),
                altitude |-> altitudeC, height |-> heightC]}
  BY DEF odid_decode_location, lat, lon, baro, geo, height, speedC, altitudeC, heightC
<1>12. decode_location(msg) =
         IF {lat, lon} = {0} THEN {}
         ELSE {[lat |-> lat, lon |-> lon, speed |-> speedP, vspeed |-> vspeedP * 5,
                direction |-> At(msg, 2) + 180 * ((flags \div 2) % 2),
                altitude |-> altitudeP, height |-> heightP]}
  BY <1>1, SMT DEF decode_location, speedP, vspeedP, altitudeP, heightP
<1>13. QED
  BY <1>3, <1>4, <1>6, <1>8, <1>9, <1>10, <1>11, <1>12

LEMMA SameSystem ==
  ASSUME NEW msg \in Message
  PROVE  odid_decode_system(msg) = decode_system(msg)
<1>1. /\ read_i32(msg, 2) = unpack_i(Slice(msg, 2, 6)) /\ read_i32(msg, 6) = unpack_i(Slice(msg, 6, 10))
      /\ read_u16(msg, 18) = unpack_H(Slice(msg, 18, 20)) /\ read_u16(msg, 18) \in Nat
  BY SameI32, SameU16
<1>2. altitude_from(read_u16(msg, 18)) = Metres(unpack_H(Slice(msg, 18, 20)))
  BY <1>1 DEF altitude_from, Metres
<1>3. \A lat, lon : ({lat, lon} = {0}) <=> lat = 0 /\ lon = 0
  OBVIOUS
<1>4. QED
  BY <1>1, <1>2, <1>3 DEF odid_decode_system, decode_system

\* A Bluetooth board, a Wi-Fi board and a Raspberry Pi read every Location and every
\* System message alike, whatever its bytes: position, speed, direction, both altitudes
\* and where the operator is.
THEOREM DecodersReadAlike ==
  Locations \subseteq Message => LocationsAgree /\ SystemsAgree
  BY SameLocation, SameSystem DEF LocationsAgree, SystemsAgree

-----------------------------------------------------------------------------
(* The bytes.  The least and the greatest of some numbers, slices, and the    *)
(* Bluetooth report: where extract_odid_message's recursion ends up.          *)

LEMMA MinIs ==
  ASSUME NEW S \in SUBSET Nat, NEW n \in S, \A m \in S : n <= m
  PROVE  Min(S) = n
<1>1. \A m \in S : m \in Nat
  OBVIOUS
<1>2. \A x \in S : (\A y \in S : x =< y) => x = n
  BY <1>1
<1>3. QED
  BY <1>2, <1>1 DEF Min

LEMMA MinOf ==
  ASSUME NEW S \in SUBSET Nat, S # {}
  PROVE  Min(S) \in S /\ \A m \in S : Min(S) <= m
<1>1. PICK n \in S : \A m \in S : n <= m
  BY Minimum
<1>2. QED
  BY <1>1, MinIs

LEMMA MaxIs ==
  ASSUME NEW S \in SUBSET Nat, NEW n \in S, \A m \in S : m <= n
  PROVE  Max(S) = n
<1>1. \A m \in S : m \in Nat
  OBVIOUS
<1>2. \A x \in S : (\A y \in S : x >= y) => x = n
  BY <1>1
<1>3. \A y \in S : n >= y
  BY <1>1
<1>4. QED
  BY <1>2, <1>3 DEF Max

\* A slice of m..m+k bytes is whole when the data hold them.
LEMMA SliceLength ==
  ASSUME NEW data \in Seq(Byte), NEW i \in Nat, NEW k \in Nat
  PROVE  Len(Slice(data, i, i + k)) = k <=> i + k <= Len(data) \/ k = 0
<1> DEFINE n == Len(data)
           end == IF i + k < n THEN i + k ELSE n
<1>1. n \in Nat
  BY LenProperties
<1>2. Slice(data, i, i + k) = SubSeq(data, i + 1, end)
  BY DEF Slice
<1>3. end \in 0..n /\ i + 1 \in 1..(i + k + 1)
  BY <1>1
<1> HIDE DEF end
<1>4. CASE i + 1 <= end + 1
  <2>1. Len(SubSeq(data, i + 1, end)) = end - i
    BY <1>3, <1>4, <1>1, SubSeqProperties
  <2>2. QED
    BY <2>1, <1>1, <1>2 DEF end
<1>5. CASE ~ (i + 1 <= end + 1)
  <2>1. SubSeq(data, i + 1, end) = <<>>
    BY <1>3, <1>5, <1>1, SubSeqEmpty
  <2>2. Len(Slice(data, i, i + k)) = 0
    <3>1. Len(<<>>) = 0
      OBVIOUS
    <3>2. Slice(data, i, i + k) = <<>>
      BY <2>1, <1>2, Zenon
    <3>3. QED
      BY <3>1, <3>2, Zenon
  <2>3. ~ (i + k <= n)
    BY <1>5, <1>1 DEF end
  <2>4. QED
    BY <2>2, <2>3
<1>6. QED
  BY <1>4, <1>5

\* Where a whole message follows a signature, and the first of those places is where
\* odid_ble_extract looks.
LEMMA SameReport ==
  ASSUME NEW data \in Seq(Byte)
  PROVE  odid_ble_extract(data) = extract_odid_message(data)
<1> DEFINE n == Len(data)
           O == Offsets(ODID_BLE_SIGNATURE, data)
           hits(start) == {i \in O : i >= start}
           msg(i) == Slice(data, i + 4, i + 4 + ODID_MESSAGE_SIZE)
           whole(start) == {i \in hits(start) : i + 29 <= n}
           ReadFrom(start) == IF whole(start) = {} THEN {} ELSE {msg(Min(whole(start)))}
           Step(g, start) ==
             IF hits(start) = {} THEN {}
             ELSE IF Len(msg(Min(hits(start)))) = ODID_MESSAGE_SIZE THEN {msg(Min(hits(start)))}
                  ELSE g[Min(hits(start)) + 1]
           read == [start \in 0..n |-> ReadFrom(start)]
<1>1. n \in Nat /\ O \in SUBSET Nat /\ \A i \in O : i + 3 <= n
  <2>1. Len(ODID_BLE_SIGNATURE) = 3
    BY DEF ODID_BLE_SIGNATURE
  <2>2. n \in Nat
    BY LenProperties
  <2>3. O \subseteq 0..(n - 3)
    BY <2>1 DEF Offsets
  <2>4. QED
    BY <2>2, <2>3
<1>2. \A i \in O : (Len(msg(i)) = ODID_MESSAGE_SIZE) <=> i + 29 <= n
  <2> SUFFICES ASSUME NEW i \in O PROVE (Len(msg(i)) = ODID_MESSAGE_SIZE) <=> i + 29 <= n
    OBVIOUS
  <2>1. i + 4 \in Nat /\ 25 \in Nat
    BY <1>1
  <2> HIDE DEF O
  <2>2. Len(Slice(data, i + 4, i + 4 + 25)) = 25 <=> i + 4 + 25 <= n \/ 25 = 0
    <3> HIDE DEF n
    <3>1. \A a \in Nat, k \in Nat : Len(Slice(data, a, a + k)) = k <=> a + k <= n \/ k = 0
      BY SliceLength, Zenon DEF n
    <3>2. QED
      BY <2>1, <3>1, Zenon
  <2>3. QED
    BY <2>2, <1>1 DEF ODID_MESSAGE_SIZE
<1> HIDE DEF O, n, msg
<1>3. \A start \in 0..n : hits(start) \in SUBSET Nat /\ whole(start) \in SUBSET Nat
  BY <1>1
\* What is read from a place on is read at the first signature, or after it.
<1>4. ASSUME NEW start \in 0..n, hits(start) # {}
      PROVE  /\ Min(hits(start)) \in O /\ Min(hits(start)) >= start
             /\ Min(hits(start)) + 1 \in 0..n
             /\ Min(hits(start)) + 29 <= n => ReadFrom(start) = {msg(Min(hits(start)))}
             /\ ~ (Min(hits(start)) + 29 <= n) => ReadFrom(start) = ReadFrom(Min(hits(start)) + 1)
  <2> DEFINE i == Min(hits(start))
  <2>1. i \in hits(start) /\ \A j \in hits(start) : i <= j
    BY <1>3, <1>4, MinOf
  <2> HIDE DEF i
  <2>2. i \in O /\ i >= start /\ i + 3 <= n /\ i \in Nat
    BY <2>1, <1>1
  <2>3. ASSUME i + 29 <= n PROVE ReadFrom(start) = {msg(i)}
    <3>1. i \in whole(start) /\ \A j \in whole(start) : i <= j
      BY <2>1, <2>3
    <3>2. Min(whole(start)) = i
      BY <3>1, <1>3, MinIs
    <3>3. QED
      BY <3>1, <3>2
  <2>4. ASSUME ~ (i + 29 <= n) PROVE whole(start) = whole(i + 1)
    <3>1. \A j \in O : j >= i + 1 => j >= start
      BY <2>2, <1>1
    <3>2. \A j \in O : j >= start /\ j + 29 <= n => j >= i + 1
      <4> SUFFICES ASSUME NEW j \in O, j >= start, j + 29 <= n PROVE j >= i + 1
        OBVIOUS
      <4>1. j \in Nat /\ i <= j /\ i # j
        BY <2>1, <2>4, <1>1
      <4>2. QED
        BY <4>1, <2>2
    <3>3. QED
      BY <3>1, <3>2
  <2>5. i + 1 \in 0..n
    BY <2>2, <1>1
  <2>6. QED
    BY <2>2, <2>3, <2>4, <2>5 DEF i
<1>5. ASSUME NEW start \in 0..n PROVE ReadFrom(start) = Step(read, start)
  <2>1. CASE hits(start) = {}
    BY <2>1
  <2>2. CASE hits(start) # {}
    <3> DEFINE i == Min(hits(start))
    <3>1. i \in O /\ i + 1 \in 0..n
      BY <2>2, <1>4
    <3>2. Len(msg(i)) = ODID_MESSAGE_SIZE <=> i + 29 <= n
      BY <3>1, <1>2
    <3>3. i + 29 <= n => ReadFrom(start) = {msg(i)}
      BY <2>2, <1>4
    <3>4. ~ (i + 29 <= n) => ReadFrom(start) = ReadFrom(i + 1)
      BY <2>2, <1>4
    <3> HIDE DEF i, ReadFrom, hits
    <3>5. read[i + 1] = ReadFrom(i + 1)
      BY <3>1
    <3> HIDE DEF read
    <3>6. Step(read, start) = IF Len(msg(i)) = ODID_MESSAGE_SIZE THEN {msg(i)} ELSE read[i + 1]
      BY <2>2 DEF i
    <3>7. QED
      BY <3>2, <3>3, <3>4, <3>5, <3>6
  <2>3. QED
    BY <2>1, <2>2
<1> DEFINE found == CHOOSE g : g = [start \in 0..n |-> Step(g, start)]
<1>6. extract_odid_message(data) = found[0]
  BY DEF extract_odid_message, n, O, msg
<1> HIDE DEF ReadFrom, hits
<1>7. read = [start \in 0..n |-> Step(read, start)]
  BY <1>5
<1>8. found = [start \in 0..n |-> Step(found, start)]
  BY <1>7
<1>9. \A start \in 0..n : found[start] = ReadFrom(start)
  <2> DEFINE Wrong == {start \in 0..n : found[start] # ReadFrom(start)}
             S == {n - start : start \in Wrong}
  <2>1. SUFFICES ASSUME Wrong # {} PROVE FALSE
    OBVIOUS
  <2> HIDE DEF found
  <2>2. S \in SUBSET Nat /\ S # {}
    BY <2>1, <1>1
  <2>3. PICK k \in S : \A m \in S : k <= m
    BY <2>2, Minimum
  <2>4. PICK start \in Wrong : k = n - start
    OBVIOUS
  <2>5. start \in 0..n /\ found[start] # ReadFrom(start)
    OBVIOUS
  <2>6. \A s \in Wrong : s <= start
    <3> SUFFICES ASSUME NEW s \in Wrong PROVE s <= start
      OBVIOUS
    <3>1. n - s \in S
      OBVIOUS
    <3>2. n - start <= n - s /\ s \in 0..n
      BY <3>1, <2>3, <2>4
    <3>3. QED
      BY <3>2, <2>5, <1>1
  <2>7. found[start] = Step(found, start)
    BY <1>8, <2>5
  <2>8. CASE hits(start) = {}
    BY <2>8, <2>7, <2>5, <1>5
  <2>9. CASE hits(start) # {}
    <3> DEFINE i == Min(hits(start))
    <3>1. i + 1 \in 0..n /\ i >= start /\ i \in O
      BY <2>9, <2>5, <1>4
    <3> HIDE DEF i
    <3>2. i + 1 > start
      <4>1. i \in Nat /\ start \in Nat
        BY <3>1, <2>5, <1>1
      <4>2. QED
        BY <4>1, <3>1
    <3>3. i + 1 \notin Wrong
      BY <3>2, <3>1, <2>5, <2>6
    <3>4. found[i + 1] = ReadFrom(i + 1)
      BY <3>1, <3>3
    <3>5. read[i + 1] = ReadFrom(i + 1)
      BY <3>1
    <3> HIDE DEF read
    <3>6. Step(found, start) = Step(read, start)
      BY <3>4, <3>5 DEF i
    <3>7. QED
      BY <3>6, <2>7, <2>5, <1>5
  <2>10. QED
    BY <2>8, <2>9
<1>10. odid_ble_extract(data) = ReadFrom(0)
  <2> DEFINE starts == {i + 4 : i \in O}
             W == {i \in starts : i + ODID_MESSAGE_SIZE <= n}
  <2>1. odid_ble_extract(data) =
          IF W = {} THEN {} ELSE {Slice(data, Min(W), Min(W) + ODID_MESSAGE_SIZE)}
    BY DEF odid_ble_extract, O, n
  <2>2. W = {i + 4 : i \in whole(0)}
    <3>1. \A i \in O : i >= 0 /\ (i + 4 + ODID_MESSAGE_SIZE <= n <=> i + 29 <= n)
      BY <1>1 DEF ODID_MESSAGE_SIZE
    <3>2. QED
      BY <3>1 DEF hits
  <2> HIDE DEF W
  <2>3. CASE whole(0) = {}
    BY <2>1, <2>2, <2>3 DEF ReadFrom
  <2>4. CASE whole(0) # {}
    <3> DEFINE i == Min(whole(0))
    <3>0. whole(0) \in SUBSET Nat
      BY <1>3, <1>1
    <3>1. i \in whole(0) /\ \A j \in whole(0) : i <= j
      BY <2>4, <3>0, MinOf
    <3> HIDE DEF i
    <3>2. i \in Nat /\ \A j \in whole(0) : j \in Nat
      BY <3>0, <3>1
    <3>3. W \in SUBSET Nat /\ i + 4 \in W /\ \A m \in W : i + 4 <= m
      BY <3>1, <3>2, <2>2
    <3>4. Min(W) = i + 4
      BY <3>3, MinIs
    <3>5. ReadFrom(0) = {msg(i)}
      BY <2>4 DEF ReadFrom, i
    <3>6. QED
      BY <3>3, <3>4, <3>5, <2>1 DEF msg
  <2>5. QED
    BY <2>3, <2>4
<1>11. 0 \in 0..n
  BY <1>1
<1> HIDE DEF found
<1>12. QED
  BY <1>6, <1>9, <1>10, <1>11, Zenon

-----------------------------------------------------------------------------
(* A fold of the library is a recursive function on the subsets of its       *)
(* sequence's domain; that it exists is what FoldDefined is for.             *)

\* Induction up to n, over the elements of a set.
LEMMA UpTo ==
  ASSUME NEW n \in Nat, NEW S, 0 \in S, \A k \in 1..n : k - 1 \in S => k \in S
  PROVE  \A k \in 0..n : k \in S
<1> DEFINE Missing == {k \in 0..n : k \notin S}
<1>1. SUFFICES ASSUME Missing # {} PROVE FALSE
  OBVIOUS
<1>2. Missing \in SUBSET Nat
  OBVIOUS
<1>3. PICK k \in Missing : \A m \in Missing : k <= m
  <2> HIDE DEF Missing
  <2>1. QED
    BY <1>1, <1>2, Minimum
<1>4. k \in 1..n /\ k - 1 \in 0..n /\ ~ (k <= k - 1)
  OBVIOUS
<1>5. k - 1 \in S
  BY <1>3, <1>4
<1>6. QED
  BY <1>4, <1>5

\* The prefixes of 1..n, and its subsets with and without their last.
LEMMA PrefixTo ==
  ASSUME NEW k \in Nat \ {0}
  PROVE  1..k # {} /\ Max(1..k) = k /\ (1..k) \ {k} = 1..(k - 1)
<1>1. 1..k \in SUBSET Nat /\ k \in 1..k /\ \A m \in 1..k : m <= k
  OBVIOUS
<1>2. Max(1..k) = k
  BY <1>1, MaxIs, Zenon
<1>3. (1..k) \ {k} = 1..(k - 1)
  OBVIOUS
<1>4. 1..k # {}
  BY <1>1
<1>5. QED
  BY <1>2, <1>3, <1>4, Zenon

LEMMA LastOf ==
  ASSUME NEW k \in Nat \ {0}, NEW s \in SUBSET (1..k)
  PROVE  /\ k \in s => s # {} /\ Max(s) = k /\ s \ {k} \in SUBSET (1..(k - 1))
         /\ k \notin s => s \in SUBSET (1..(k - 1))
         /\ s # {} => Max(s) \in 1..k
<1>1. ASSUME k \in s PROVE Max(s) = k
  <2>1. s \in SUBSET Nat /\ \A m \in s : m <= k
    OBVIOUS
  <2>2. QED
    BY <2>1, <1>1, MaxIs
<1>2. \A i \in s : i # k => i \in 1..(k - 1)
  OBVIOUS
<1>3. s # {} => Max(s) \in s
  <2>1. SUFFICES ASSUME s # {} PROVE Max(s) \in s
    OBVIOUS
  <2> DEFINE T == {k - i : i \in s}
  <2>2. T \in SUBSET Nat /\ T # {}
    <3>1. \A i \in s : i \in 1..k
      OBVIOUS
    <3>2. \A i \in s : k - i \in Nat
      BY <3>1
    <3>3. QED
      BY <3>2, <2>1
  <2>3. PICK d \in T : \A m \in T : d <= m
    BY <2>2, Minimum
  <2>4. PICK i \in s : d = k - i
    OBVIOUS
  <2>5. \A j \in s : i >= j
    <3> SUFFICES ASSUME NEW j \in s PROVE i >= j
      OBVIOUS
    <3>1. k - j \in T
      OBVIOUS
    <3>2. k - i <= k - j
      BY <3>1, <2>3, <2>4
    <3>3. i \in Int /\ j \in Int
      OBVIOUS
    <3> HIDE DEF T
    <3>4. QED
      BY <3>2, <3>3
  <2>6. QED
    BY <2>5 DEF Max
<1>4. QED
  BY <1>1, <1>2, <1>3

\* A fold over 1..n has a value: the recursive function of MapThenFoldSet exists.
IsFold(g, n, T, base, step) ==
  /\ g \in [SUBSET (1..n) -> T]
  /\ g[{}] = base
  /\ \A s \in SUBSET (1..n) : s # {} => g[s] = step[Max(s)][g[s \ {Max(s)}]]

LEMMA FoldDefined ==
  ASSUME NEW n \in Nat, NEW T, NEW base \in T, NEW step \in [1..n -> [T -> T]]
  PROVE  \E g : IsFold(g, n, T, base, step)
<1> DEFINE Folds(g, k) ==
             /\ g \in [SUBSET (1..k) -> T]
             /\ \A s \in SUBSET (1..k) :
                  g[s] = IF s = {} THEN base ELSE step[Max(s)][g[s \ {Max(s)}]]
           S == {k \in 0..n : \E g : Folds(g, k)}
<1>1. 0 \in S
  <2> DEFINE g == [s \in SUBSET (1..0) |-> base]
  <2>1. Folds(g, 0)
    <3>1. 1..0 = {}
      OBVIOUS
    <3>2. QED
      BY <3>1
  <2> HIDE DEF Folds, g
  <2>2. QED
    BY <2>1
<1>2. ASSUME NEW k \in 1..n, k - 1 \in S PROVE k \in S
  <2>1. PICK f : Folds(f, k - 1)
    BY <1>2
  <2> DEFINE g == [s \in SUBSET (1..k) |-> IF k \in s THEN step[k][f[s \ {k}]] ELSE f[s]]
  <2>2. k \in Nat \ {0} /\ k - 1 \in Nat /\ k \in 1..n
    OBVIOUS
  <2>3. ASSUME NEW s \in SUBSET (1..(k - 1))
        PROVE  s \in SUBSET (1..k) /\ g[s] = f[s] /\ f[s] \in T
    <3>1. s \in SUBSET (1..k) /\ k \notin s
      BY <2>2
    <3>2. QED
      BY <3>1, <2>1
  <2>4. ASSUME NEW s \in SUBSET (1..k)
        PROVE  /\ g[s] \in T
               /\ g[s] = IF s = {} THEN base ELSE step[Max(s)][g[s \ {Max(s)}]]
    <3>1. CASE k \in s
      <4>1. Max(s) = k /\ s \ {k} \in SUBSET (1..(k - 1)) /\ s # {}
        BY <3>1, <2>2, LastOf
      <4>2. g[s \ {k}] = f[s \ {k}] /\ f[s \ {k}] \in T
        BY <4>1, <2>3
      <4>3. g[s] = step[k][f[s \ {k}]]
        BY <3>1
      <4> HIDE DEF g
      <4>4. step[k][f[s \ {k}]] \in T
        BY <4>2, <2>2
      <4>5. QED
        BY <4>1, <4>2, <4>3, <4>4
    <3>2. CASE k \notin s
      <4>1. s \in SUBSET (1..(k - 1))
        BY <3>2, <2>2, LastOf
      <4>2. s \ {Max(s)} \in SUBSET (1..(k - 1))
        BY <4>1
      <4>3. g[s] = f[s] /\ f[s] \in T /\ g[s \ {Max(s)}] = f[s \ {Max(s)}]
        BY <4>1, <4>2, <2>3
      <4> HIDE DEF g
      <4>4. QED
        BY <4>1, <4>3, <2>1
    <3>3. QED
      BY <3>1, <3>2
  <2>5. g \in [SUBSET (1..k) -> T]
    <3>1. g = [s \in SUBSET (1..k) |-> g[s]]
      OBVIOUS
    <3> HIDE DEF g
    <3>2. QED
      BY <3>1, <2>4
  <2>6. Folds(g, k)
    <3> HIDE DEF g
    <3>1. QED
      BY <2>4, <2>5
  <2> HIDE DEF Folds, g
  <2>7. QED
    BY <2>6
<1>3. n \in S
  <2> HIDE DEF S
  <2>1. \A k \in 0..n : k \in S
    BY <1>1, <1>2, UpTo
  <2>2. QED
    BY <2>1
<1>4. PICK g : Folds(g, n)
  BY <1>3
<1>5. {} \in SUBSET (1..n)
  OBVIOUS
<1>6. IsFold(g, n, T, base, step)
  BY <1>4, <1>5 DEF IsFold
<1>7. QED
  BY <1>6

\* The fold of a text's bytes, on from none of them.
LEMMA KeepsAscii ==
  ASSUME NEW n \in Nat, NEW text \in [1..n -> 0..127]
  PROVE  Ascii(text) = text
<1> DEFINE Keep(kept, byte) == IF byte < 128 THEN Append(kept, byte) ELSE kept
           Step(g, s) == IF s = {} THEN <<>> ELSE Keep(g[s \ {Max(s)}], text[Max(s)])
           iter == CHOOSE g : g = [s \in SUBSET (1..n) |-> Step(g, s)]
           Prefix(k) == [i \in 1..k |-> text[i]]
           T == Seq(0..127)
           step == [i \in 1..n |-> [kept \in T |-> Append(kept, text[i])]]
<1>1. Ascii(text) = iter[1..n]
  BY DEF Ascii, FoldLeft, MapThenFoldSet
<1>2. step \in [1..n -> [T -> T]]
  <2>1. ASSUME NEW i \in 1..n, NEW kept \in T PROVE Append(kept, text[i]) \in T
    <3>1. text[i] \in 0..127
      OBVIOUS
    <3>2. QED
      BY <3>1, AppendProperties
  <2>2. QED
    BY <2>1
<1>3. \A i \in 1..n : text[i] < 128 /\ text[i] \in 0..127
  <2> SUFFICES ASSUME NEW i \in 1..n PROVE text[i] < 128 /\ text[i] \in 0..127
    OBVIOUS
  <2>1. text[i] \in 0..127
    OBVIOUS
  <2> DEFINE b == text[i]
  <2> HIDE DEF b
  <2>2. b \in 0..127 => b < 128
    OBVIOUS
  <2>3. QED
    BY <2>1, <2>2 DEF b
<1>4. PICK g : IsFold(g, n, T, <<>>, step)
  <2> DEFINE none == <<>>
  <2>1. none \in T
    OBVIOUS
  <2> HIDE DEF T, step, none
  <2>2. \E f : IsFold(f, n, T, none, step)
    BY <1>2, <2>1, FoldDefined
  <2>3. QED
    BY <2>2 DEF none
<1>5. ASSUME NEW s \in SUBSET (1..n) PROVE g[s] = Step(g, s)
  <2>1. CASE s = {}
    BY <2>1, <1>4 DEF IsFold
  <2>2. CASE s # {}
    <3>1. Max(s) \in 1..n
      <4>1. n # 0
        <5>1. 1..0 = {}
          OBVIOUS
        <5>2. QED
          BY <2>2, <5>1
      <4>2. QED
        BY <4>1, <2>2, LastOf
    <3>2. g[s \ {Max(s)}] \in T /\ s \ {Max(s)} \in SUBSET (1..n)
      BY <1>4 DEF IsFold
    <3>3. step[Max(s)][g[s \ {Max(s)}]] = Append(g[s \ {Max(s)}], text[Max(s)])
      BY <3>1, <3>2
    <3>4. g[s] = Append(g[s \ {Max(s)}], text[Max(s)])
      BY <3>3, <2>2, <1>4, Zenon DEF IsFold
    <3> HIDE DEF step, T
    <3>5. QED
      BY <3>4, <3>1, <2>2, <1>3
  <2>3. QED
    BY <2>1, <2>2
<1>6. g = [s \in SUBSET (1..n) |-> Step(g, s)]
  <2> HIDE DEF Step
  <2>1. g = [s \in SUBSET (1..n) |-> g[s]]
    BY <1>4 DEF IsFold
  <2>2. QED
    BY <1>5, <2>1
<1>7. iter = [s \in SUBSET (1..n) |-> Step(iter, s)]
  BY <1>6
<1>8. \A s \in SUBSET (1..n) : iter[s] = Step(iter, s)
  <2> HIDE DEF iter, Step
  <2>1. QED
    BY <1>7
<1> HIDE DEF iter
<1> DEFINE S == {k \in 0..n : iter[1..k] = Prefix(k)}
<1>9. 0 \in S
  <2>1. 1..0 = {} /\ 1..0 \in SUBSET (1..n)
    OBVIOUS
  <2>2. iter[1..0] = <<>>
    BY <2>1, <1>8
  <2>3. Prefix(0) = <<>>
    BY <2>1
  <2>4. QED
    BY <2>2, <2>3
<1>10. ASSUME NEW k \in 1..n, k - 1 \in S PROVE k \in S
  <2>1. 1..k \in SUBSET (1..n) /\ k \in Nat \ {0} /\ k \in 1..n /\ k - 1 \in Nat /\ k \in 0..n
    OBVIOUS
  <2>2. iter[1..k] = Keep(iter[1..(k - 1)], text[k])
    <3>1. iter[1..k] = Step(iter, 1..k)
      BY <2>1, <1>8
    <3>2. 1..k # {} /\ Max(1..k) = k /\ (1..k) \ {k} = 1..(k - 1)
      BY <2>1, PrefixTo
    <3> HIDE DEF Keep
    <3>3. QED
      BY <3>1, <3>2
  <2>3. iter[1..(k - 1)] = Prefix(k - 1)
    BY <1>10
  <2> HIDE DEF Prefix
  <2>4. iter[1..k] = Append(Prefix(k - 1), text[k])
    BY <2>1, <2>2, <2>3, <1>3
  <2>5. Prefix(k - 1) \in Seq(0..127) /\ Len(Prefix(k - 1)) = k - 1
    <3>1. \A i \in 1..(k - 1) : text[i] \in 0..127
      BY <2>1, <1>3
    <3>2. QED
      BY <3>1, <2>1 DEF Prefix
  <2>6. Append(Prefix(k - 1), text[k]) = Prefix(k)
    <3>1. (k - 1) + 1 = k
      BY <2>1
    <3>2. QED
      BY <2>5, <3>1, <2>1, <1>3 DEF Prefix
  <2>7. QED
    BY <2>4, <2>6, <2>1
<1>11. n \in S
  <2> HIDE DEF S
  <2>1. \A k \in 0..n : k \in S
    BY <1>9, <1>10, UpTo
  <2>2. QED
    BY <2>1
<1>12. Prefix(n) = text
  OBVIOUS
<1>13. QED
  BY <1>1, <1>11, <1>12

-----------------------------------------------------------------------------
(* Names.                                                                    *)

\* A slice that the data hold.
LEMMA PartOf ==
  ASSUME NEW s \in Seq(Byte), NEW m \in Nat \ {0}, NEW n \in Nat, m <= n + 1, n <= Len(s)
  PROVE  /\ SubSeq(s, m, n) \in Seq(Byte) /\ Len(SubSeq(s, m, n)) = n - m + 1
         /\ \A k \in 1..(n - m + 1) : SubSeq(s, m, n)[k] = s[m + k - 1]
<1>1. \A k \in m..n : k \in 1..Len(s)
  BY LenProperties
<1>2. \A k \in m..n : s[k] \in Byte
  BY <1>1, ElementOfSeq
<1>3. /\ SubSeq(s, m, n) \in Seq(Byte)
      /\ Len(SubSeq(s, m, n)) = IF m <= n THEN n - m + 1 ELSE 0
      /\ \A k \in 1..(n - m + 1) : SubSeq(s, m, n)[k] = s[m + k - 1]
  <2> HIDE DEF Byte
  <2>1. QED
    BY <1>2, SubSeqProperties
<1>4. QED
  BY <1>3

LEMMA SliceOf ==
  ASSUME NEW data \in Seq(Byte), NEW i \in Nat, NEW j \in Nat, i <= j, j <= Len(data)
  PROVE  /\ Slice(data, i, j) \in Seq(Byte) /\ Len(Slice(data, i, j)) = j - i
         /\ \A k \in 1..(j - i) : Slice(data, i, j)[k] = data[i + k]
<1>1. Slice(data, i, j) = SubSeq(data, i + 1, j)
  <2>1. Len(data) \in Nat
    BY LenProperties
  <2>2. (IF j < Len(data) THEN j ELSE Len(data)) = j
    BY <2>1
  <2>3. QED
    BY <2>2 DEF Slice
<1>2. i + 1 \in Nat \ {0} /\ i + 1 <= j + 1 /\ j - (i + 1) + 1 = j - i
  OBVIOUS
<1>3. \A k \in 1..(j - i) : (i + 1) + k - 1 = i + k
  OBVIOUS
<1> DEFINE m == i + 1
<1>4. m \in Nat \ {0} /\ m <= j + 1 /\ j - m + 1 = j - i /\ \A k \in 1..(j - i) : m + k - 1 = i + k
  BY <1>2, <1>3
<1> HIDE DEF m
<1>5. /\ SubSeq(data, m, j) \in Seq(Byte) /\ Len(SubSeq(data, m, j)) = j - m + 1
      /\ \A k \in 1..(j - m + 1) : SubSeq(data, m, j)[k] = data[m + k - 1]
  BY <1>4, PartOf
<1>6. QED
  BY <1>1, <1>4, <1>5 DEF m

\* The bytes of a name that come before its padding.
LEMMA TextOf ==
  ASSUME NEW msg \in Message, IsText(msg)
  PROVE  \E n \in Nat : UntilNul(Slice(msg, 2, 22)) \in [1..n -> {9} \cup 32..126]
<1> DEFINE field == Slice(msg, 2, 22)
           Ink == {9} \cup 32..126
           nuls == {i \in DOMAIN field : field[i] = 0}
<1>1. field \in Seq(Byte) /\ Len(field) = 20 /\ \A k \in 1..20 : field[k] = msg[2 + k]
  <2>1. msg \in Seq(Byte) /\ Len(msg) = 25
    BY DEF Message, ODID_MESSAGE_SIZE
  <2>2. 2 \in Nat /\ 22 \in Nat /\ 2 <= 22 /\ 22 <= 25 /\ 22 - 2 = 20
    OBVIOUS
  <2>3. /\ field \in Seq(Byte) /\ Len(field) = 22 - 2
        /\ \A k \in 1..(22 - 2) : field[k] = msg[2 + k]
    BY <2>1, <2>2, SliceOf
  <2> HIDE DEF field
  <2>4. QED
    BY <2>2, <2>3
<1>2. DOMAIN field = 1..20
  BY <1>1
<1>3. \A k \in 1..20 : field[k] \in {0} \cup Ink
  <2> SUFFICES ASSUME NEW k \in 1..20 PROVE field[k] \in {0} \cup Ink
    OBVIOUS
  <2>1. k + 1 \in 2..21 /\ (k + 1) + 1 = 2 + k
    OBVIOUS
  <2>2. At(msg, k + 1) \in {0, 9} \cup 32..126
    BY <2>1 DEF IsText
  <2>3. At(msg, k + 1) = msg[2 + k]
    BY <2>1 DEF At
  <2>4. field[k] \in {0, 9} \cup 32..126
    BY <2>2, <2>3, <1>1
  <2> HIDE DEF field
  <2>5. QED
    BY <2>4
<1>4. UntilNul(field) = IF nuls = {} THEN field ELSE SubSeq(field, 1, Min(nuls) - 1)
  BY DEF UntilNul
<1> HIDE DEF field
<1>5. CASE nuls = {}
  <2>1. field \in [1..20 -> Ink]
    <3>1. field = [k \in 1..20 |-> field[k]]
      BY <1>1, <1>2
    <3>2. \A k \in 1..20 : field[k] \in Ink
      BY <1>2, <1>3, <1>5
    <3> HIDE DEF Ink
    <3>3. QED
      BY <3>1, <3>2
  <2>2. QED
    BY <2>1, <1>4, <1>5 DEF field
<1>6. CASE nuls # {}
  <2> DEFINE m == Min(nuls)
  <2>1. m \in nuls /\ \A i \in nuls : m <= i
    <3>1. nuls \in SUBSET Nat
      BY <1>2
    <3> HIDE DEF nuls
    <3>2. QED
      BY <3>1, <1>6, MinOf
  <2> HIDE DEF m
  <2>2. m \in 1..20 /\ m - 1 \in Nat /\ m - 1 \in 0..20
    BY <2>1, <1>2
  <2>3. \A k \in 1..(m - 1) : field[k] \in Ink
    <3> SUFFICES ASSUME NEW k \in 1..(m - 1) PROVE field[k] \in Ink
      OBVIOUS
    <3>1. k \in 1..20 /\ ~ (m <= k)
      BY <2>2
    <3>2. k \notin nuls
      BY <3>1, <2>1
    <3>3. field[k] # 0
      BY <3>1, <3>2, <1>2
    <3>4. QED
      BY <3>1, <3>3, <1>3
  <2> DEFINE text == SubSeq(field, 1, m - 1)
  <2>4. text = [k \in 1..(m - 1) |-> field[k]]
    <3>1. Len(text) = m - 1 /\ text \in Seq(Byte) /\ \A k \in 1..(m - 1) : text[k] = field[k]
      <4>1. 1 \in Nat \ {0} /\ 1 <= (m - 1) + 1 /\ m - 1 <= Len(field) /\ (m - 1) - 1 + 1 = m - 1
        BY <1>1, <2>2
      <4>2. /\ text \in Seq(Byte) /\ Len(text) = (m - 1) - 1 + 1
            /\ \A k \in 1..((m - 1) - 1 + 1) : text[k] = field[1 + k - 1]
        BY <4>1, <1>1, <2>2, PartOf
      <4>3. \A k \in 1..(m - 1) : 1 + k - 1 = k
        BY <2>2
      <4> HIDE DEF text
      <4>4. QED
        BY <4>1, <4>2, <4>3
    <3> HIDE DEF text
    <3>2. QED
      BY <3>1
  <2> HIDE DEF text, Ink
  <2>5. text \in [1..(m - 1) -> Ink]
    BY <2>3, <2>4
  <2>6. UntilNul(field) = text
    BY <1>4, <1>6 DEF m, text
  <2>7. QED
    BY <2>2, <2>5, <2>6 DEF Ink, field
<1>7. QED
  BY <1>5, <1>6 DEF field

LEMMA SameName ==
  ASSUME NEW msg \in Message, Legible(msg)
  PROVE  odid_decode_basic_id(msg) = Named(decode_basic_id(msg))
<1>1. PICK n \in Nat : UntilNul(Slice(msg, 2, 22)) \in [1..n -> {9} \cup 32..126]
  BY TextOf DEF Legible
<1> DEFINE text == UntilNul(Slice(msg, 2, 22))
           uas_id == Strip(text, {9, 32})
           id == [uas_id |-> uas_id, ua_type |-> At(msg, 1) % 16]
<1> HIDE DEF text
<1>2. text \in [1..n -> {9} \cup 32..126]
  BY <1>1 DEF text
<1>3. \A k \in 1..n : text[k] \in {9} \cup 32..126
  BY <1>2
<1>4. Ascii(text) = text
  <2>1. \A k \in 1..n : text[k] \in 0..127
    BY <1>3
  <2>2. text \in [1..n -> 0..127]
    BY <1>2, <2>1
  <2>3. QED
    BY <2>2, KeepsAscii
<1>5. Strip(text, Whitespace) = uas_id
  <2>1. \A b \in {9} \cup 32..126 : b \notin Whitespace <=> b \notin {9, 32}
    BY DEF Whitespace
  <2>2. {i \in DOMAIN text : text[i] \notin Whitespace} = {i \in DOMAIN text : text[i] \notin {9, 32}}
    BY <1>2, <1>3, <2>1
  <2>3. QED
    BY <2>2 DEF Strip
<1>6. odid_decode_basic_id(msg) = IF uas_id = <<>> \/ HasControl(uas_id) THEN {} ELSE {id}
  BY DEF odid_decode_basic_id, text
<1>7. decode_basic_id(msg) =
        IF HasControl(uas_id) THEN {}
        ELSE {[uas_id |-> IF uas_id = <<>> THEN NotAvailable ELSE uas_id, ua_type |-> At(msg, 1) % 16]}
  <2>1. Strip(Ascii(UntilNul(Slice(msg, 2, 22))), Whitespace) = uas_id
    BY <1>4, <1>5 DEF text
  <2> HIDE DEF uas_id
  <2>2. QED
    BY <2>1 DEF decode_basic_id
<1>8. ~ HasControl(<<>>)
  BY DEF HasControl
<1> HIDE DEF uas_id
<1>9. CASE HasControl(uas_id)
  BY <1>6, <1>7, <1>9 DEF Named
<1>10. CASE uas_id = <<>>
  <2>1. decode_basic_id(msg) = {[uas_id |-> NotAvailable, ua_type |-> At(msg, 1) % 16]}
    BY <1>7, <1>8, <1>10
  <2>2. QED
    BY <1>6, <1>10, <2>1 DEF Named
<1>11. CASE ~ HasControl(uas_id) /\ uas_id # <<>>
  <2>1. odid_decode_basic_id(msg) = {id} /\ decode_basic_id(msg) = {id}
    BY <1>6, <1>7, <1>11
  <2>2. id.uas_id # NotAvailable
    BY <2>1 DEF Legible
  <2> HIDE DEF id
  <2>3. QED
    BY <2>1, <2>2 DEF Named
<1>12. QED
  BY <1>9, <1>10, <1>11

-----------------------------------------------------------------------------
(* The loops over the messages of a frame, unrolled and compared.            *)

LEMMA OrIn ==
  ASSUME NEW X, NEW new \in SUBSET X, NEW old \in SUBSET X
  PROVE  Or(new, old) \in SUBSET X
  BY DEF Or

\* on_frame's loop over the messages, one at a time.
LEMMA ContactSteps ==
  ASSUME NEW n \in Nat, NEW messages, DOMAIN messages = 1..n
  PROVE  \E f : /\ f[0] = Nothing
                /\ f[n] = Contact(messages)
                /\ \A k \in 1..n : f[k] = Merge(f[k - 1], messages[k])
<1> DEFINE Step(g, s) == IF s = {} THEN Nothing ELSE Merge(g[s \ {Max(s)}], messages[Max(s)])
           iter == CHOOSE g : g = [s \in SUBSET (1..n) |-> Step(g, s)]
           Ids(k) == {[uas_id |-> i.uas_id, ua_type |-> Label(i.ua_type)] : i \in odid_decode_basic_id(messages[k])}
           Positions(k) == {<<l.lat, l.lon, l.speed>> : l \in odid_decode_location(messages[k])}
           Altitudes(k) == UNION {l.altitude : l \in odid_decode_location(messages[k])}
           Heights(k) == UNION {l.height : l \in odid_decode_location(messages[k])}
           I == UNION {Ids(k) : k \in 1..n}
           P == UNION {Positions(k) : k \in 1..n}
           A == UNION {Altitudes(k) : k \in 1..n}
           H == UNION {Heights(k) : k \in 1..n}
           T == [id : SUBSET I, position : SUBSET P, altitude : SUBSET A, height : SUBSET H]
           step == [k \in 1..n |-> [contact \in T |-> Merge(contact, messages[k])]]
<1>1. Contact(messages) = iter[1..n]
  BY DEF Contact, FoldLeft, MapThenFoldSet
<1>2. ASSUME NEW k \in 1..n, NEW contact \in T PROVE Merge(contact, messages[k]) \in T
  <2>1. Ids(k) \in SUBSET I /\ Positions(k) \in SUBSET P /\ Altitudes(k) \in SUBSET A /\ Heights(k) \in SUBSET H
    <3> HIDE DEF Ids, Positions, Altitudes, Heights
    <3>1. QED
      OBVIOUS
  <2>2. Merge(contact, messages[k]) =
          CASE odid_message_type(messages[k]) = 0 -> [contact EXCEPT !.id = Or(Ids(k), @)]
            [] odid_message_type(messages[k]) = 1 ->
                 [contact EXCEPT !.position = Or(Positions(k), @), !.altitude = Or(Altitudes(k), @),
                                 !.height = Or(Heights(k), @)]
            [] OTHER -> contact
    BY DEF Merge
  <2> HIDE DEF Ids, Positions, Altitudes, Heights, I, P, A, H
  <2>3. /\ contact.id \in SUBSET I /\ contact.position \in SUBSET P
        /\ contact.altitude \in SUBSET A /\ contact.height \in SUBSET H
    OBVIOUS
  <2>4. /\ Or(Ids(k), contact.id) \in SUBSET I /\ Or(Positions(k), contact.position) \in SUBSET P
        /\ Or(Altitudes(k), contact.altitude) \in SUBSET A /\ Or(Heights(k), contact.height) \in SUBSET H
    BY <2>1, <2>3, OrIn
  <2>5. QED
    BY <2>2, <2>4
<1> HIDE DEF I, P, A, H
<1>3. step \in [1..n -> [T -> T]]
  <2> HIDE DEF T
  <2>1. QED
    BY <1>2
<1>4. Nothing \in T
  BY DEF Nothing
<1> HIDE DEF T
<1>5. PICK g : IsFold(g, n, T, Nothing, step)
  <2> HIDE DEF step
  <2>1. QED
    BY <1>3, <1>4, FoldDefined
<1>6. ASSUME NEW s \in SUBSET (1..n) PROVE g[s] = Step(g, s)
  <2>1. CASE s = {}
    BY <2>1, <1>5 DEF IsFold
  <2>2. CASE s # {}
    <3>1. n # 0
      <4>1. 1..0 = {}
        OBVIOUS
      <4>2. QED
        BY <2>2, <4>1
    <3>2. Max(s) \in 1..n
      BY <3>1, <2>2, LastOf
    <3>3. g[s \ {Max(s)}] \in T /\ s \ {Max(s)} \in SUBSET (1..n)
      BY <1>5 DEF IsFold
    <3>4. step[Max(s)][g[s \ {Max(s)}]] = Merge(g[s \ {Max(s)}], messages[Max(s)])
      BY <3>2, <3>3
    <3>5. g[s] = step[Max(s)][g[s \ {Max(s)}]]
      BY <2>2, <1>5, Zenon DEF IsFold
    <3> HIDE DEF step
    <3>6. QED
      BY <3>4, <3>5, <2>2
  <2>3. QED
    BY <2>1, <2>2
<1>7. g = [s \in SUBSET (1..n) |-> Step(g, s)]
  <2> HIDE DEF Step
  <2>1. g = [s \in SUBSET (1..n) |-> g[s]]
    BY <1>5 DEF IsFold
  <2>2. QED
    BY <1>6, <2>1
<1>8. iter = [s \in SUBSET (1..n) |-> Step(iter, s)]
  BY <1>7
<1> HIDE DEF iter
<1>9. \A s \in SUBSET (1..n) : iter[s] = Step(iter, s)
  <2> HIDE DEF Step
  <2>1. QED
    BY <1>8
<1> DEFINE f == [k \in 0..n |-> iter[1..k]]
<1>10. f[0] = Nothing
  <2>1. 1..0 = {} /\ 0 \in 0..n
    OBVIOUS
  <2>2. QED
    BY <2>1, <1>9
<1>11. ASSUME NEW k \in 1..n PROVE f[k] = Merge(f[k - 1], messages[k])
  <2>1. 1..k \in SUBSET (1..n) /\ k \in Nat \ {0} /\ k \in 0..n /\ k - 1 \in 0..n
    OBVIOUS
  <2>2. 1..k # {} /\ Max(1..k) = k /\ (1..k) \ {k} = 1..(k - 1)
    BY <2>1, PrefixTo
  <2>3. iter[1..k] = Merge(iter[1..(k - 1)], messages[k])
    BY <2>1, <2>2, <1>9
  <2>4. QED
    BY <2>1, <2>3
<1>12. f[n] = Contact(messages)
  <2>1. n \in 0..n
    OBVIOUS
  <2>2. QED
    BY <2>1, <1>1
<1> HIDE DEF f
<1>13. QED
  BY <1>10, <1>11, <1>12

\* decode_odid_payload's loop over them.
Fields == [id |-> {}, location |-> {}]
LEMMA FieldSteps ==
  ASSUME NEW n \in Nat, NEW messages, DOMAIN messages = 1..n
  PROVE  \E I, L, f :
           /\ f[0] = Fields
           /\ f[n] = FoldLeft(Update, Fields, messages)
           /\ \A k \in 0..n : f[k] \in [id : SUBSET I, location : SUBSET L]
           /\ \A k \in 1..n : f[k] = Update(f[k - 1], messages[k])
<1> DEFINE Step(g, s) == IF s = {} THEN Fields ELSE Update(g[s \ {Max(s)}], messages[Max(s)])
           iter == CHOOSE g : g = [s \in SUBSET (1..n) |-> Step(g, s)]
           I == UNION {decode_basic_id(messages[k]) : k \in 1..n}
           L == UNION {decode_location(messages[k]) : k \in 1..n}
           T == [id : SUBSET I, location : SUBSET L]
           step == [k \in 1..n |-> [fields \in T |-> Update(fields, messages[k])]]
<1>1. FoldLeft(Update, Fields, messages) = iter[1..n]
  BY DEF FoldLeft, MapThenFoldSet
<1>2. ASSUME NEW k \in 1..n, NEW fields \in T PROVE Update(fields, messages[k]) \in T
  <2> DEFINE msg == messages[k]
  <2>1. decode_basic_id(msg) \in SUBSET I /\ decode_location(msg) \in SUBSET L
    OBVIOUS
  <2> HIDE DEF I, L, msg
  <2>2. fields.id \in SUBSET I /\ fields.location \in SUBSET L
    OBVIOUS
  <2>3. Or(decode_basic_id(msg), fields.id) \in SUBSET I /\ Or(decode_location(msg), fields.location) \in SUBSET L
    BY <2>1, <2>2, OrIn
  <2>4. Update(fields, msg) \in T
    BY <2>3 DEF Update
  <2>5. QED
    BY <2>4 DEF msg
<1> HIDE DEF I, L
<1>3. step \in [1..n -> [T -> T]]
  <2> HIDE DEF T
  <2>1. QED
    BY <1>2
<1>4. Fields \in T
  BY DEF Fields
<1>5. PICK g : IsFold(g, n, T, Fields, step)
  <2> HIDE DEF step, T
  <2>1. QED
    BY <1>3, <1>4, FoldDefined
<1>6. ASSUME NEW s \in SUBSET (1..n) PROVE g[s] = Step(g, s)
  <2> HIDE DEF T
  <2>1. CASE s = {}
    BY <2>1, <1>5 DEF IsFold
  <2>2. CASE s # {}
    <3>1. n # 0
      <4>1. 1..0 = {}
        OBVIOUS
      <4>2. QED
        BY <2>2, <4>1
    <3>2. Max(s) \in 1..n
      BY <3>1, <2>2, LastOf
    <3>3. g[s \ {Max(s)}] \in T /\ s \ {Max(s)} \in SUBSET (1..n)
      BY <1>5 DEF IsFold
    <3>4. step[Max(s)][g[s \ {Max(s)}]] = Update(g[s \ {Max(s)}], messages[Max(s)])
      BY <3>2, <3>3
    <3>5. g[s] = step[Max(s)][g[s \ {Max(s)}]]
      BY <2>2, <1>5, Zenon DEF IsFold
    <3> HIDE DEF step
    <3>6. QED
      BY <3>4, <3>5, <2>2
  <2>3. QED
    BY <2>1, <2>2
<1>7. g = [s \in SUBSET (1..n) |-> Step(g, s)]
  <2> HIDE DEF Step
  <2>1. g = [s \in SUBSET (1..n) |-> g[s]]
    BY <1>5 DEF IsFold
  <2>2. QED
    BY <1>6, <2>1
<1>8. iter = [s \in SUBSET (1..n) |-> Step(iter, s)]
  BY <1>7
<1> HIDE DEF iter
<1>9. \A s \in SUBSET (1..n) : iter[s] = Step(iter, s)
  <2> HIDE DEF Step
  <2>1. QED
    BY <1>8
<1> DEFINE f == [k \in 0..n |-> iter[1..k]]
<1>10. f[0] = Fields
  <2>1. 1..0 = {} /\ 0 \in 0..n
    OBVIOUS
  <2>2. QED
    BY <2>1, <1>9
<1>11. ASSUME NEW k \in 1..n PROVE f[k] = Update(f[k - 1], messages[k])
  <2>1. 1..k \in SUBSET (1..n) /\ k \in Nat \ {0} /\ k \in 0..n /\ k - 1 \in 0..n
    OBVIOUS
  <2>2. 1..k # {} /\ Max(1..k) = k /\ (1..k) \ {k} = 1..(k - 1)
    BY <2>1, PrefixTo
  <2>3. iter[1..k] = Update(iter[1..(k - 1)], messages[k])
    BY <2>1, <2>2, <1>9
  <2>4. QED
    BY <2>1, <2>3
<1>12. f[n] = FoldLeft(Update, Fields, messages)
  <2>1. n \in 0..n
    OBVIOUS
  <2>2. QED
    BY <2>1, <1>1
<1> DEFINE S == {k \in 0..n : f[k] \in T}
<1> HIDE DEF f, T
<1>13. 0 \in S
  BY <1>4, <1>10
<1>14. ASSUME NEW k \in 1..n, k - 1 \in S PROVE k \in S
  BY <1>2, <1>11, <1>14
<1>15. \A k \in 0..n : k \in S
  <2> HIDE DEF S
  <2>1. QED
    BY <1>13, <1>14, UpTo
<1>16. \A k \in 0..n : f[k] \in [id : SUBSET I, location : SUBSET L]
  BY <1>15 DEF T
<1> DEFINE Steps(J, M, h) ==
             /\ h[0] = Fields
             /\ h[n] = FoldLeft(Update, Fields, messages)
             /\ \A k \in 0..n : h[k] \in [id : SUBSET J, location : SUBSET M]
             /\ \A k \in 1..n : h[k] = Update(h[k - 1], messages[k])
<1>17. Steps(I, L, f)
  BY <1>10, <1>11, <1>12, <1>16
<1>18. \E J, M, h : Steps(J, M, h)
  <2> HIDE DEF Steps
  <2>1. QED
    BY <1>17
<1>19. QED
  BY <1>18

LEMMA SameLabel ==
  ASSUME NEW t \in 0..15, t # 13
  PROVE  Label(t) = FullLabel(t)
<1>1. LabelLength[t + 1] \in 0..23
  BY DEF LabelLength
<1>2. \A l \in 0..23 : Min({l, 23}) = l
  <2> SUFFICES ASSUME NEW l \in 0..23 PROVE Min({l, 23}) = l
    OBVIOUS
  <2>1. {l, 23} \in SUBSET Nat /\ l \in {l, 23} /\ \A m \in {l, 23} : l <= m
    OBVIOUS
  <2>2. QED
    BY <2>1, MinIs
<1>3. Min({LabelLength[t + 1], 23}) = LabelLength[t + 1]
  BY <1>1, <1>2
<1>4. QED
  BY <1>3 DEF Label, FullLabel

\* What the two take from a message.
LabelledIds(msg) ==
  {[uas_id |-> i.uas_id, ua_type |-> Label(i.ua_type)] : i \in odid_decode_basic_id(msg)}
PositionsOf(locations) == {<<l.lat, l.lon, l.speed>> : l \in locations}
AltitudesOf(locations) == UNION {l.altitude : l \in locations}
HeightsOf(locations) == UNION {l.height : l \in locations}

\* What a name is in the contact, in C and in Python.
LEMMA SameIds ==
  ASSUME NEW msg \in Message, Readable(msg), odid_message_type(msg) = 0
  PROVE  LabelledIds(msg) =
           {[uas_id |-> i.uas_id, ua_type |-> FullLabel(i.ua_type)] : i \in Named(decode_basic_id(msg))}
<1>1. Legible(msg) /\ At(msg, 1) % 16 # 13
  BY DEF Readable
<1>2. odid_decode_basic_id(msg) = Named(decode_basic_id(msg))
  BY <1>1, SameName
<1>3. At(msg, 1) \in Byte
  BY BytesOf
<1>4. At(msg, 1) % 16 \in 0..15
  BY <1>3 DEF Byte
<1>5. \A i \in odid_decode_basic_id(msg) : i.ua_type = At(msg, 1) % 16
  BY DEF odid_decode_basic_id
<1>6. \A i \in odid_decode_basic_id(msg) : Label(i.ua_type) = FullLabel(i.ua_type)
  BY <1>1, <1>4, <1>5, SameLabel
<1>7. QED
  BY <1>2, <1>6 DEF LabelledIds

\* What a message of each type changes, in C and in Python.
LEMMA MergeOf ==
  ASSUME NEW contact, NEW msg
  PROVE  /\ odid_message_type(msg) = 0 => Merge(contact, msg) = [contact EXCEPT !.id = Or(LabelledIds(msg), contact.id)]
         /\ odid_message_type(msg) = 1 =>
              Merge(contact, msg) =
                [contact EXCEPT !.position = Or(PositionsOf(odid_decode_location(msg)), contact.position),
                                !.altitude = Or(AltitudesOf(odid_decode_location(msg)), contact.altitude),
                                !.height = Or(HeightsOf(odid_decode_location(msg)), contact.height)]
         /\ odid_message_type(msg) \notin {0, 1} => Merge(contact, msg) = contact
<1> DEFINE t == odid_message_type(msg)
           merge0 == [contact EXCEPT !.id = Or(LabelledIds(msg), contact.id)]
           merge1 == [contact EXCEPT !.position = Or(PositionsOf(odid_decode_location(msg)), contact.position),
                                     !.altitude = Or(AltitudesOf(odid_decode_location(msg)), contact.altitude),
                                     !.height = Or(HeightsOf(odid_decode_location(msg)), contact.height)]
<1>1. Merge(contact, msg) = CASE t = 0 -> merge0 [] t = 1 -> merge1 [] OTHER -> contact
  BY DEF Merge, LabelledIds, PositionsOf, AltitudesOf, HeightsOf
<1> HIDE DEF t, merge0, merge1
<1>2. /\ t = 0 => Merge(contact, msg) = merge0
      /\ t = 1 => Merge(contact, msg) = merge1
      /\ t \notin {0, 1} => Merge(contact, msg) = contact
  BY <1>1
<1>3. QED
  BY <1>2 DEF t, merge0, merge1

LEMMA UpdateOf ==
  ASSUME NEW fields, NEW msg, Len(msg) = ODID_MESSAGE_SIZE
  PROVE  /\ odid_message_type(msg) = 0 => Update(fields, msg) = [fields EXCEPT !.id = Or(decode_basic_id(msg), fields.id)]
         /\ odid_message_type(msg) = 1 =>
              Update(fields, msg) = [fields EXCEPT !.location = Or(decode_location(msg), fields.location)]
         /\ odid_message_type(msg) \notin {0, 1} => Update(fields, msg) = fields
<1> DEFINE t == odid_message_type(msg)
           update0 == [fields EXCEPT !.id = Or(decode_basic_id(msg), fields.id)]
           update1 == [fields EXCEPT !.location = Or(decode_location(msg), fields.location)]
           whole == Len(msg) = ODID_MESSAGE_SIZE
<1>1. Update(fields, msg) = CASE ~ whole -> fields [] whole /\ t = 0 -> update0
                              [] whole /\ t = 1 -> update1 [] OTHER -> fields
  BY DEF Update
<1>2. whole
  OBVIOUS
<1> HIDE DEF t, update0, update1, whole
<1>3. /\ t = 0 => Update(fields, msg) = update0
      /\ t = 1 => Update(fields, msg) = update1
      /\ t \notin {0, 1} => Update(fields, msg) = fields
  BY <1>1, <1>2
<1>4. QED
  BY <1>3 DEF t, update0, update1

\* The loops agree when no message repeats what another said.
LEMMA LoopsAgree ==
  ASSUME NEW n \in Nat, NEW messages \in [1..n -> Message],
         \A k \in 1..n : Readable(messages[k]),
         \A i, j \in 1..n : odid_message_type(messages[i]) \in {0, 1}
                            /\ odid_message_type(messages[i]) = odid_message_type(messages[j]) => i = j
  PROVE  Contact(messages) = Shared(FoldLeft(Update, Fields, messages))
<1> DEFINE type(k) == odid_message_type(messages[k])
           Ids(ids) == {[uas_id |-> i.uas_id, ua_type |-> FullLabel(i.ua_type)] : i \in Named(ids)}
<1>1. DOMAIN messages = 1..n /\ \A k \in 1..n : messages[k] \in Message /\ Len(messages[k]) = ODID_MESSAGE_SIZE
  BY DEF Message
<1>2. PICK c : /\ c[0] = Nothing
               /\ c[n] = Contact(messages)
               /\ \A k \in 1..n : c[k] = Merge(c[k - 1], messages[k])
  BY <1>1, ContactSteps
<1>3. PICK I, L, p : /\ p[0] = Fields
                     /\ p[n] = FoldLeft(Update, Fields, messages)
                     /\ \A k \in 0..n : p[k] \in [id : SUBSET I, location : SUBSET L]
                     /\ \A k \in 1..n : p[k] = Update(p[k - 1], messages[k])
  BY <1>1, FieldSteps
<1>4. \A f : Shared(f) = [id |-> Ids(f.id), position |-> PositionsOf(f.location),
                          altitude |-> AltitudesOf(f.location), height |-> HeightsOf(f.location)]
  BY DEF Shared, PositionsOf, AltitudesOf, HeightsOf
<1>5. Ids({}) = {} /\ PositionsOf({}) = {} /\ AltitudesOf({}) = {} /\ HeightsOf({}) = {}
  BY DEF Named, PositionsOf, AltitudesOf, HeightsOf
<1> DEFINE S == {k \in 0..n : /\ c[k] = Shared(p[k])
                              /\ (\A i \in 1..k : type(i) # 0) => p[k].id = {}
                              /\ (\A i \in 1..k : type(i) # 1) => p[k].location = {}}
<1>6. 0 \in S
  <2> HIDE DEF Ids
  <2>1. p[0].id = {} /\ p[0].location = {}
    BY <1>3 DEF Fields
  <2>2. Shared(p[0]) = Nothing
    BY <1>4, <1>5, <2>1 DEF Nothing
  <2>3. QED
    BY <1>2, <2>1, <2>2
<1>7. ASSUME NEW k \in 1..n, k - 1 \in S PROVE k \in S
  <2> DEFINE msg == messages[k]
             q == p[k - 1]
             b == c[k - 1]
  <2>1. msg \in Message /\ Len(msg) = ODID_MESSAGE_SIZE /\ Readable(msg) /\ k - 1 \in 0..n /\ k \in 0..n
    BY <1>1
  <2>2. c[k] = Merge(b, msg) /\ p[k] = Update(q, msg) /\ q \in [id : SUBSET I, location : SUBSET L]
    BY <1>2, <1>3, <2>1
  <2>3. b = [id |-> Ids(q.id), position |-> PositionsOf(q.location),
             altitude |-> AltitudesOf(q.location), height |-> HeightsOf(q.location)]
    BY <1>4, <1>7
  <2>4. \A i \in 1..(k - 1) : i \in 1..n /\ i # k /\ i \in 1..k
    BY <2>1
  <2>5. type(k) = odid_message_type(msg)
    OBVIOUS
  <2>6. type(k) = 0 => q.id = {}
    <3>1. ASSUME type(k) = 0, NEW i \in 1..(k - 1) PROVE type(i) # 0
      BY <2>4, <3>1
    <3>2. QED
      BY <1>7, <3>1
  <2>7. type(k) = 1 => q.location = {}
    <3>1. ASSUME type(k) = 1, NEW i \in 1..(k - 1) PROVE type(i) # 1
      BY <2>4, <3>1
    <3>2. QED
      BY <1>7, <3>1
  <2>8. (\A i \in 1..(k - 1) : type(i) # 0) => q.id = {}
    BY <1>7
  <2>9. (\A i \in 1..(k - 1) : type(i) # 1) => q.location = {}
    BY <1>7
  <2>10. \A X : Or(X, {}) = X
    BY DEF Or
  <2> HIDE DEF msg, q, b, Ids
  <2>11. ASSUME type(k) = 0 PROVE k \in S
    <3>1. p[k] = [q EXCEPT !.id = decode_basic_id(msg)]
      <4>1. Update(q, msg) = [q EXCEPT !.id = Or(decode_basic_id(msg), q.id)]
        BY <2>1, <2>5, <2>11, UpdateOf
      <4>2. Or(decode_basic_id(msg), q.id) = decode_basic_id(msg)
        BY <2>6, <2>10, <2>11
      <4>3. QED
        BY <4>1, <4>2, <2>2
    <3>2. p[k].id = decode_basic_id(msg) /\ p[k].location = q.location
      BY <3>1, <2>2
    <3>3. b.id = {}
      BY <2>3, <2>6, <2>11, <1>5
    <3>4. c[k] = [b EXCEPT !.id = Ids(decode_basic_id(msg))]
      <4>1. LabelledIds(msg) = Ids(decode_basic_id(msg))
        BY <2>1, <2>5, <2>11, SameIds DEF Ids
      <4>2. Merge(b, msg) = [b EXCEPT !.id = Or(LabelledIds(msg), b.id)]
        BY <2>5, <2>11, MergeOf
      <4>3. Or(LabelledIds(msg), b.id) = LabelledIds(msg)
        BY <3>3, <2>10
      <4>4. QED
        BY <4>1, <4>2, <4>3, <2>2
    <3>5. c[k] = Shared(p[k])
      BY <3>2, <3>4, <2>3, <1>4
    <3>6. \E i \in 1..k : type(i) = 0
      BY <2>11, <2>1
    <3>7. (\A i \in 1..k : type(i) # 1) => p[k].location = {}
      BY <2>4, <2>9, <3>2
    <3> HIDE DEF type
    <3>8. QED
      BY <3>5, <3>6, <3>7, <2>1
  <2>12. ASSUME type(k) = 1 PROVE k \in S
    <3> DEFINE D == decode_location(msg)
    <3>1. p[k] = [q EXCEPT !.location = D]
      <4>1. Update(q, msg) = [q EXCEPT !.location = Or(D, q.location)]
        BY <2>1, <2>5, <2>12, UpdateOf
      <4>2. Or(D, q.location) = D
        BY <2>7, <2>10, <2>12
      <4> HIDE DEF D
      <4>3. QED
        BY <4>1, <4>2, <2>2
    <3>2. p[k].id = q.id /\ p[k].location = D
      BY <3>1, <2>2
    <3>3. b.position = {} /\ b.altitude = {} /\ b.height = {}
      BY <2>3, <2>7, <2>12, <1>5
    <3>4. odid_decode_location(msg) = D
      BY <2>1, SameLocation
    <3> HIDE DEF D
    <3>5. c[k] = [b EXCEPT !.position = PositionsOf(D), !.altitude = AltitudesOf(D), !.height = HeightsOf(D)]
      <4>1. Merge(b, msg) = [b EXCEPT !.position = Or(PositionsOf(D), b.position),
                                      !.altitude = Or(AltitudesOf(D), b.altitude),
                                      !.height = Or(HeightsOf(D), b.height)]
        BY <2>5, <2>12, <3>4, MergeOf
      <4>2. /\ Or(PositionsOf(D), b.position) = PositionsOf(D)
            /\ Or(AltitudesOf(D), b.altitude) = AltitudesOf(D)
            /\ Or(HeightsOf(D), b.height) = HeightsOf(D)
        BY <3>3, <2>10
      <4>3. QED
        BY <4>1, <4>2, <2>2
    <3>6. c[k] = Shared(p[k])
      BY <3>2, <3>5, <2>3, <1>4
    <3>7. \E i \in 1..k : type(i) = 1
      BY <2>12, <2>1
    <3>8. (\A i \in 1..k : type(i) # 0) => p[k].id = {}
      BY <2>4, <2>8, <3>2
    <3> HIDE DEF type
    <3>9. QED
      BY <3>6, <3>7, <3>8, <2>1
  <2>13. ASSUME type(k) \notin {0, 1} PROVE k \in S
    <3>1. c[k] = b /\ p[k] = q
      BY <2>1, <2>2, <2>5, <2>13, MergeOf, UpdateOf
    <3>2. c[k] = Shared(p[k])
      BY <3>1, <2>3, <1>4
    <3>3. (\A i \in 1..k : type(i) # 0) => p[k].id = {}
      BY <2>4, <2>8, <3>1
    <3>4. (\A i \in 1..k : type(i) # 1) => p[k].location = {}
      BY <2>4, <2>9, <3>1
    <3> HIDE DEF type
    <3>5. QED
      BY <3>2, <3>3, <3>4, <2>1
  <2>14. QED
    BY <2>11, <2>12, <2>13
<1>8. \A k \in 0..n : k \in S
  <2> HIDE DEF S
  <2>1. QED
    BY <1>6, <1>7, UpTo
<1>9. c[n] = Shared(p[n])
  BY <1>8
<1>10. QED
  BY <1>2, <1>3, <1>9

-----------------------------------------------------------------------------
(* Payloads and frames.                                                      *)

\* Where nothing is said, or nothing that either takes up.
LEMMA NothingSaid ==
  /\ Contact(<<>>) = Nothing
  /\ FoldLeft(Update, Fields, <<>>) = Fields
  /\ Shared(Fields) = Nothing
<1>1. 0 \in Nat /\ DOMAIN <<>> = 1..0
  OBVIOUS
<1>2. Contact(<<>>) = Nothing
  <2>1. \E f : /\ f[0] = Nothing
               /\ f[0] = Contact(<<>>)
               /\ \A k \in 1..0 : f[k] = Merge(f[k - 1], <<>>[k])
    BY <1>1, ContactSteps
  <2>2. QED
    BY <2>1
<1>3. FoldLeft(Update, Fields, <<>>) = Fields
  <2>1. \E I, L, f :
           /\ f[0] = Fields
           /\ f[0] = FoldLeft(Update, Fields, <<>>)
           /\ \A k \in 0..0 : f[k] \in [id : SUBSET I, location : SUBSET L]
           /\ \A k \in 1..0 : f[k] = Update(f[k - 1], <<>>[k])
    BY <1>1, FieldSteps
  <2>2. QED
    BY <2>1
<1>4. Shared(Fields) = Nothing
  BY DEF Shared, Fields, Nothing, Named
<1>5. QED
  BY <1>2, <1>3, <1>4

LEMMA OnlyOf ==
  ASSUME NEW msg, Len(msg) = ODID_MESSAGE_SIZE, odid_message_type(msg) \notin {0, 1}
  PROVE  Contact(<<msg>>) = Nothing
<1>1. PICK f : /\ f[0] = Nothing
               /\ f[1] = Contact(<<msg>>)
               /\ \A k \in 1..1 : f[k] = Merge(f[k - 1], <<msg>>[k])
  <2>1. 1 \in Nat /\ DOMAIN <<msg>> = 1..1
    OBVIOUS
  <2>2. QED
    BY <2>1, ContactSteps
<1>2. f[1] = Merge(f[0], msg)
  <2>1. 1 \in 1..1 /\ 1 - 1 = 0 /\ <<msg>>[1] = msg
    OBVIOUS
  <2>2. QED
    BY <1>1, <2>1
<1>3. QED
  BY <1>1, <1>2, MergeOf

LEMMA ShortIsIgnored ==
  ASSUME NEW msg, Len(msg) # ODID_MESSAGE_SIZE
  PROVE  FoldLeft(Update, Fields, <<msg>>) = Fields
<1>1. PICK I, L, f :
           /\ f[0] = Fields
           /\ f[1] = FoldLeft(Update, Fields, <<msg>>)
           /\ \A k \in 0..1 : f[k] \in [id : SUBSET I, location : SUBSET L]
           /\ \A k \in 1..1 : f[k] = Update(f[k - 1], <<msg>>[k])
  <2>1. 1 \in Nat /\ DOMAIN <<msg>> = 1..1
    OBVIOUS
  <2>2. QED
    BY <2>1, FieldSteps
<1>2. f[1] = Update(f[0], msg)
  <2>1. 1 \in 1..1 /\ 1 - 1 = 0 /\ <<msg>>[1] = msg
    OBVIOUS
  <2>2. QED
    BY <1>1, <2>1
<1>3. Update(f[0], msg) = f[0]
  BY DEF Update
<1>4. QED
  BY <1>1, <1>2, <1>3

LEMMA AtMostOne ==
  ASSUME NEW n \in Nat, NEW S \in SUBSET (1..n), Cardinality(S) <= 1, NEW i \in S, NEW j \in S
  PROVE  i = j
<1>1. SUFFICES ASSUME i # j PROVE FALSE
  OBVIOUS
<1>2. IsFiniteSet(1..n)
  BY FS_Interval
<1>3. IsFiniteSet(S)
  BY <1>2, FS_Subset
<1>4. IsFiniteSet({i}) /\ Cardinality({i}) = 1
  BY FS_Singleton
<1>5. Cardinality({i} \cup {j}) = 1 + 1
  BY <1>1, <1>4, FS_AddElement
<1>6. {i} \cup {j} \in SUBSET S
  OBVIOUS
<1>7. Cardinality({i} \cup {j}) <= Cardinality(S) /\ Cardinality(S) \in Nat
  BY <1>3, <1>6, FS_Subset, FS_CardinalityType
<1>8. QED
  BY <1>5, <1>7

\* Whatever follows a counter, the two find the same messages in it.
ReadablePayload(payload) ==
  /\ \A k \in DOMAIN Messages(payload) : Readable(Messages(payload)[k])
  /\ \A type \in {0, 1} :
       Cardinality({i \in DOMAIN Messages(payload) : odid_message_type(Messages(payload)[i]) = type}) <= 1

LEMMA ReadableLoops ==
  ASSUME NEW data, ReadablePayload(data), NEW n \in Nat, Messages(data) \in [1..n -> Message]
  PROVE  Contact(Messages(data)) = Shared(FoldLeft(Update, Fields, Messages(data)))
<1> DEFINE messages == Messages(data)
           type(k) == odid_message_type(messages[k])
           Of(t) == {i \in 1..n : type(i) = t}
<1>1. DOMAIN messages = 1..n
  OBVIOUS
<1> HIDE DEF messages
<1>2. \A k \in 1..n : Readable(messages[k])
  BY <1>1 DEF ReadablePayload, messages
<1>3. ASSUME NEW i \in 1..n, NEW j \in 1..n, type(i) \in {0, 1}, type(i) = type(j)
      PROVE  i = j
  <2>1. \A t \in {0, 1} : Cardinality({k \in DOMAIN messages : odid_message_type(messages[k]) = t}) <= 1
    BY DEF ReadablePayload, messages
  <2>2. Cardinality(Of(type(i))) <= 1
    BY <2>1, <1>1, <1>3
  <2>3. i \in Of(type(i)) /\ j \in Of(type(i)) /\ Of(type(i)) \in SUBSET (1..n)
    BY <1>3
  <2> HIDE DEF Of
  <2>4. QED
    BY <2>2, <2>3, AtMostOne
<1>4. messages \in [1..n -> Message]
  BY DEF messages
<1>5. QED
  BY <1>2, <1>3, <1>4, LoopsAgree DEF messages

LEMMA Rest ==
  ASSUME NEW data \in Seq(Byte), NEW i \in Nat, i <= Len(data)
  PROVE  /\ From(data, i) \in Seq(Byte) /\ Len(From(data, i)) = Len(data) - i
         /\ \A k \in 1..(Len(data) - i) : From(data, i)[k] = data[i + k]
<1> DEFINE n == Len(data)
           m == i + 1
<1>1. n \in Nat
  BY LenProperties
<1>2. m \in Nat \ {0} /\ m <= n + 1 /\ n <= Len(data) /\ n - m + 1 = n - i /\ \A k \in 1..(n - i) : m + k - 1 = i + k
  BY <1>1
<1>3. From(data, i) = SubSeq(data, m, n)
  BY DEF From
<1> HIDE DEF m, n
<1>4. /\ SubSeq(data, m, n) \in Seq(Byte) /\ Len(SubSeq(data, m, n)) = n - m + 1
      /\ \A k \in 1..(n - m + 1) : SubSeq(data, m, n)[k] = data[m + k - 1]
  BY <1>1, <1>2, PartOf
<1>5. QED
  BY <1>2, <1>3, <1>4 DEF n

\* A byte string is its bytes.
LEMMA SameBytes ==
  ASSUME NEW a \in Seq(Byte), NEW b \in Seq(Byte), Len(a) = Len(b), \A k \in 1..Len(a) : a[k] = b[k]
  PROVE  a = b
  BY SeqEqual

LEMMA SamePack ==
  ASSUME NEW data \in Seq(Byte), IsPack(data)
  PROVE  /\ Messages(data) \in [1..At(data, 2) -> Message]
         /\ At(data, 2) \in Nat
         /\ decode_message_pack(data) = Messages(data)
<1> DEFINE n == Len(data)
           c == At(data, 2)
           rest == From(data, 3)
           C(i) == Slice(data, 3 + (i - 1) * ODID_MESSAGE_SIZE, 3 + i * ODID_MESSAGE_SIZE)
           P(i) == Slice(rest, (i - 1) * 25, i * 25)
<1>1. /\ n \in Nat /\ n >= 3 /\ c \in 1..9 /\ n >= 3 + c * 25
      /\ odid_message_type(data) = 15 /\ At(data, 1) = 25
  BY LenProperties DEF IsPack, ODID_MESSAGE_SIZE, ODID_PACK_MAX_MESSAGES
<1>2. rest \in Seq(Byte) /\ Len(rest) = n - 3 /\ \A k \in 1..(n - 3) : rest[k] = data[3 + k]
  <2>1. 3 \in Nat /\ 3 <= Len(data)
    BY <1>1
  <2>2. QED
    BY <2>1, Rest
<1> HIDE DEF n, c, rest
<1>3. ASSUME NEW i \in 1..c
      PROVE  C(i) \in Message /\ C(i) = P(i)
  <2> DEFINE a == (i - 1) * 25
  <2>1. /\ a \in Nat /\ a + 25 \in Nat /\ i * 25 = a + 25 /\ 3 + a \in Nat /\ 3 + a + 25 \in Nat
        /\ 3 + a <= 3 + a + 25 /\ (3 + a + 25) - (3 + a) = 25 /\ (a + 25) - a = 25 /\ a <= a + 25
        /\ 3 + i * 25 = 3 + a + 25 /\ 3 + a + 25 <= n /\ a + 25 <= n - 3
    <3>1. i \in 1..9 /\ c \in 1..9 /\ i <= c
      BY <1>1
    <3>2. i * 25 <= c * 25
      BY <3>1
    <3>3. QED
      BY <3>1, <3>2, <1>1
  <2> HIDE DEF a
  <2>2. C(i) = Slice(data, 3 + a, 3 + a + 25)
    BY <2>1 DEF ODID_MESSAGE_SIZE, a
  <2>3. P(i) = Slice(rest, a, a + 25)
    BY <2>1 DEF a
  <2> HIDE DEF C, P
  <2>4. C(i) \in Seq(Byte) /\ Len(C(i)) = 25 /\ \A k \in 1..25 : C(i)[k] = data[3 + a + k]
    <3> DEFINE x == 3 + a
               y == 3 + a + 25
    <3>1. x \in Nat /\ y \in Nat /\ x <= y /\ y <= Len(data) /\ y - x = 25
      BY <2>1 DEF n
    <3>2. C(i) = Slice(data, x, y)
      BY <2>2
    <3> HIDE DEF x, y
    <3>3. /\ Slice(data, x, y) \in Seq(Byte) /\ Len(Slice(data, x, y)) = y - x
          /\ \A k \in 1..(y - x) : Slice(data, x, y)[k] = data[x + k]
      BY <3>1, SliceOf
    <3>4. QED
      BY <3>1, <3>2, <3>3 DEF x
  <2>5. P(i) \in Seq(Byte) /\ Len(P(i)) = 25 /\ \A k \in 1..25 : P(i)[k] = rest[a + k]
    <3> DEFINE y == a + 25
    <3>1. y \in Nat /\ a <= y /\ y <= Len(rest) /\ y - a = 25
      BY <2>1, <1>2
    <3>2. P(i) = Slice(rest, a, y)
      BY <2>3
    <3> HIDE DEF y
    <3>3. /\ Slice(rest, a, y) \in Seq(Byte) /\ Len(Slice(rest, a, y)) = y - a
          /\ \A k \in 1..(y - a) : Slice(rest, a, y)[k] = rest[a + k]
      BY <3>1, <2>1, <1>2, SliceOf
    <3>4. QED
      BY <3>1, <3>2, <3>3
  <2>6. \A k \in 1..25 : a + k \in 1..(n - 3) /\ 3 + (a + k) = 3 + a + k
    BY <2>1, <1>1
  <2>7. \A k \in 1..25 : C(i)[k] = P(i)[k]
    BY <2>4, <2>5, <2>6, <1>2
  <2>8. C(i) = P(i)
    BY <2>4, <2>5, <2>7, SameBytes
  <2>9. QED
    BY <2>4, <2>8 DEF Message, ODID_MESSAGE_SIZE
<1>4. odid_pack_split(data) = [i \in 1..c |-> C(i)]
  BY DEF odid_pack_split, c
<1>5. 1 \in 1..c
  BY <1>1
<1>6. odid_pack_split(data) # <<>>
  <2> HIDE DEF C
  <2>1. DOMAIN [i \in 1..c |-> C(i)] = 1..c /\ DOMAIN <<>> = {}
    OBVIOUS
  <2>2. QED
    BY <2>1, <1>4, <1>5
<1>7. Messages(data) = [i \in 1..c |-> C(i)]
  BY <1>4, <1>6 DEF Messages
<1>8. decode_message_pack(data) = [i \in 1..c |-> P(i)]
  <2>1. ~ (At(data, 0) < 240)
    <3>1. data[1] \in Byte
      <4>1. 1 \in 1..Len(data)
        BY <1>1 DEF n
      <4>2. QED
        BY <4>1, ElementOfSeq
    <3>2. data[1] \div 16 = 15
      BY <1>1 DEF odid_message_type, At
    <3> DEFINE b == data[1]
    <3> HIDE DEF b
    <3>3. b \in 0..255 /\ b \div 16 = 15 => ~ (b < 240)
      BY Z3
    <3>4. QED
      BY <3>1, <3>2, <3>3 DEF b, At, Byte
  <2>2. ~ (Len(data) < 3) /\ ~ (c = 0) /\ ~ (c > 9) /\ ~ (Len(rest) < c * 25)
    BY <1>1, <1>2 DEF n
  <2> HIDE DEF P
  <2>3. decode_message_pack(data) =
          IF \/ Len(data) < 3 \/ At(data, 0) < 240
             \/ At(data, 1) # 25 \/ c = 0 \/ c > 9
             \/ Len(rest) < c * 25
          THEN <<>>
          ELSE [i \in 1..c |-> P(i)]
    BY DEF decode_message_pack, c, rest, P
  <2>4. QED
    BY <2>1, <2>2, <2>3, <1>1
<1> HIDE DEF C, P
<1>9. \A i \in 1..c : C(i) \in Message /\ C(i) = P(i)
  BY <1>3
<1>10. QED
  BY <1>1, <1>7, <1>8, <1>9 DEF c

LEMMA SamePayload ==
  ASSUME NEW data \in Seq(Byte), data # <<>>, ReadablePayload(data)
  PROVE  Contact(Messages(data)) = Shared(decode_odid_payload(data))
<1> DEFINE n == Len(data)
           only == Slice(data, 0, ODID_MESSAGE_SIZE)
           list == CASE data = <<>> -> <<>>
                     [] data # <<>> /\ odid_message_type(data) = 15 -> decode_message_pack(data)
                     [] OTHER -> <<only>>
<1>1. decode_odid_payload(data) = FoldLeft(Update, Fields, list)
  BY DEF decode_odid_payload, Fields
<1>2. n \in Nat
  BY LenProperties
<1>3. n # 0
  <2>1. data = [k \in 1..Len(data) |-> data[k]]
    BY LenProperties
  <2>2. ASSUME Len(data) = 0 PROVE FALSE
    BY <2>2, EmptySeq
  <2>3. QED
    BY <2>2
<1>4. n >= 25 => only \in Message /\ (odid_message_type(only) = odid_message_type(data))
  <2> SUFFICES ASSUME n >= 25 PROVE only \in Message /\ odid_message_type(only) = odid_message_type(data)
    OBVIOUS
  <2>1. 0 \in Nat /\ 25 \in Nat /\ 0 <= 25 /\ 25 <= Len(data) /\ 25 - 0 = 25
    BY <1>2
  <2>2. /\ Slice(data, 0, 25) \in Seq(Byte) /\ Len(Slice(data, 0, 25)) = 25 - 0
        /\ \A k \in 1..(25 - 0) : Slice(data, 0, 25)[k] = data[0 + k]
    BY <2>1, SliceOf
  <2>3. 1 \in 1..(25 - 0) /\ 0 + 1 = 1
    OBVIOUS
  <2>4. Slice(data, 0, 25)[1] = data[1]
    BY <2>2, <2>3
  <2>5. QED
    BY <2>1, <2>2, <2>3, <2>4 DEF Message, ODID_MESSAGE_SIZE, odid_message_type, At
<1>5. n < 25 => Len(only) # ODID_MESSAGE_SIZE
  <2>1. 0 \in Nat /\ 25 \in Nat /\ 0 + 25 = 25
    OBVIOUS
  <2>2. Len(Slice(data, 0, 0 + 25)) = 25 <=> 0 + 25 <= Len(data) \/ 25 = 0
    BY <2>1, SliceLength
  <2>3. QED
    BY <1>2, <2>1, <2>2 DEF ODID_MESSAGE_SIZE
<1> HIDE DEF n, only
<1>6. ~ IsPack(data) => Messages(data) = IF n >= 25 THEN <<only>> ELSE <<>>
  BY DEF Messages, odid_pack_split, n, only, ODID_MESSAGE_SIZE
<1>7. CASE IsPack(data)
  <2>1. odid_message_type(data) = 15
    BY <1>7 DEF IsPack
  <2>2. list = Messages(data)
    BY <1>7, <2>1, SamePack
  <2>3. At(data, 2) \in Nat /\ Messages(data) \in [1..At(data, 2) -> Message]
    BY <1>7, SamePack
  <2> HIDE DEF list
  <2>4. Contact(Messages(data)) = Shared(FoldLeft(Update, Fields, Messages(data)))
    BY <2>3, ReadableLoops
  <2>5. QED
    BY <1>1, <2>2, <2>4
<1>8. CASE ~ IsPack(data) /\ odid_message_type(data) = 15
  <2>1. decode_message_pack(data) = <<>>
    <3>1. \/ Len(data) < 3 \/ At(data, 0) < 240
          \/ At(data, 1) # 25 \/ At(data, 2) = 0 \/ At(data, 2) > 9
          \/ Len(From(data, 3)) < At(data, 2) * 25
      <4>1. SUFFICES ASSUME ~ (Len(data) < 3), At(data, 1) = 25, At(data, 2) # 0, ~ (At(data, 2) > 9),
                            ~ (Len(From(data, 3)) < At(data, 2) * 25)
                     PROVE  FALSE
        OBVIOUS
      <4>2. n >= 3 /\ 3 \in Nat /\ 3 <= Len(data) /\ 3 \in 1..Len(data)
        BY <4>1, <1>2 DEF n
      <4>3. Len(From(data, 3)) = n - 3
        BY <4>2, Rest DEF n
      <4>4. At(data, 2) \in Byte
        <5>1. data[3] \in Byte
          BY <4>2, ElementOfSeq
        <5>2. QED
          BY <5>1 DEF At
      <4>5. At(data, 2) \in 1..9 /\ n >= 3 + At(data, 2) * 25
        <5> DEFINE c == At(data, 2)
                   r == Len(From(data, 3))
        <5>1. c \in 0..255 /\ c # 0 /\ ~ (c > 9) /\ ~ (r < c * 25) /\ r = n - 3
          BY <4>1, <4>3, <4>4 DEF Byte
        <5> HIDE DEF c, r
        <5>2. c \in 1..9
          BY <5>1
        <5>3. n >= 3 + c * 25
          BY <5>1, <1>2
        <5>4. QED
          BY <5>2, <5>3 DEF c
      <4>6. IsPack(data)
        BY <1>8, <4>1, <4>2, <4>5 DEF IsPack, n, ODID_MESSAGE_SIZE, ODID_PACK_MAX_MESSAGES
      <4>7. QED
        BY <4>6, <1>8
    <3>2. QED
      BY <3>1 DEF decode_message_pack
  <2>2. list = <<>>
    BY <2>1, <1>8
  <2>3. Contact(Messages(data)) = Nothing
    <3>1. CASE n >= 25
      <4>1. Messages(data) = <<only>> /\ Len(only) = ODID_MESSAGE_SIZE /\ odid_message_type(only) = 15
        BY <3>1, <1>4, <1>6, <1>8 DEF Message
      <4>2. QED
        BY <4>1, OnlyOf
    <3>2. CASE ~ (n >= 25)
      BY <3>2, <1>6, <1>8, NothingSaid
    <3>3. QED
      BY <3>1, <3>2
  <2> HIDE DEF list
  <2>4. QED
    BY <1>1, <2>2, <2>3, NothingSaid
<1>9. CASE odid_message_type(data) # 15 /\ n >= 25
  <2>1. ~ IsPack(data)
    BY <1>9 DEF IsPack
  <2>2. list = <<only>>
    BY <1>9
  <2>3. Messages(data) = <<only>> /\ only \in Message
    BY <1>4, <1>6, <1>9, <2>1
  <2> HIDE DEF list
  <2>4. Messages(data) \in [1..1 -> Message] /\ 1 \in Nat
    <3>1. <<only>> = [k \in 1..1 |-> only]
      OBVIOUS
    <3>2. [k \in 1..1 |-> only] \in [1..1 -> Message]
      BY <2>3
    <3>3. QED
      BY <2>3, <3>1, <3>2
  <2>5. Contact(Messages(data)) = Shared(FoldLeft(Update, Fields, Messages(data)))
    BY <2>4, ReadableLoops
  <2>6. QED
    BY <1>1, <2>2, <2>3, <2>5
<1>10. CASE odid_message_type(data) # 15 /\ n < 25
  <2>1. ~ IsPack(data)
    BY <1>10 DEF IsPack
  <2>2. list = <<only>>
    BY <1>10
  <2>3. Messages(data) = <<>>
    BY <1>2, <1>6, <1>10, <2>1
  <2> HIDE DEF list
  <2>4. FoldLeft(Update, Fields, <<only>>) = Fields
    BY <1>5, <1>10, ShortIsIgnored
  <2>5. QED
    BY <1>1, <2>2, <2>3, <2>4, NothingSaid
<1>11. QED
  BY <1>2, <1>7, <1>8, <1>9, <1>10

\* The two look for the payload in the same place, and what only the Pi looks at is empty.
LEMMA FoundAfter ==
  ASSUME NEW frame \in Seq(Byte), NEW start \in Nat
  PROVE  /\ start >= Len(frame) => After(frame, start) = {} /\ From(frame, start) = <<>>
         /\ start < Len(frame) => /\ After(frame, start) = {From(frame, start)}
                                  /\ From(frame, start) \in Seq(Byte) /\ From(frame, start) # <<>>
<1>1. Len(frame) \in Nat
  BY LenProperties
<1>2. ASSUME start >= Len(frame) PROVE After(frame, start) = {} /\ From(frame, start) = <<>>
  <2>1. start + 1 \in Int /\ Len(frame) < start + 1
    BY <1>1, <1>2
  <2>2. SubSeq(frame, start + 1, Len(frame)) = <<>>
    BY <1>1, <2>1, SubSeqEmpty
  <2>3. QED
    BY <1>2, <2>2 DEF After, From
<1>3. ASSUME start < Len(frame)
      PROVE  /\ After(frame, start) = {From(frame, start)}
             /\ From(frame, start) \in Seq(Byte) /\ From(frame, start) # <<>>
  <2>1. start <= Len(frame) /\ ~ (start >= Len(frame))
    BY <1>1, <1>3
  <2>2. From(frame, start) \in Seq(Byte) /\ Len(From(frame, start)) = Len(frame) - start
    BY <2>1, Rest
  <2>3. Len(From(frame, start)) # 0 /\ Len(<<>>) = 0
    BY <2>2, <1>1, <1>3
  <2>4. From(frame, start) # <<>>
    BY <2>3
  <2>5. QED
    BY <2>1, <2>2, <2>4 DEF After
<1>4. QED
  BY <1>2, <1>3

LEMMA SamePlace ==
  ASSUME NEW frame \in Seq(Byte)
  PROVE  \/ /\ extract_rid_payload(frame) = wifi_rid_payload(frame)
            /\ \A data \in wifi_rid_payload(frame) : data \in Seq(Byte) /\ data # <<>>
         \/ wifi_rid_payload(frame) = {} /\ extract_rid_payload(frame) = {<<>>}
<1> DEFINE beacon == Offsets(WIFI_RID_BEACON_SIGNATURE, frame)
           nan == Offsets(WIFI_RID_NAN_SERVICE_ID, frame)
           after == Min(nan) + 6
<1>1. Len(frame) \in Nat
  BY LenProperties
<1>2. beacon \in SUBSET Nat /\ nan \in SUBSET Nat
  BY DEF Offsets
<1>3. wifi_rid_payload(frame) =
        CASE beacon # {} -> After(frame, Min(beacon) + 4 + 1)
          [] beacon = {} /\ nan # {} -> After(frame, Min(nan) + 6 + 4 + 1)
          [] OTHER -> {}
  BY DEF wifi_rid_payload
<1>4. extract_rid_payload(frame) =
        CASE beacon # {} -> {From(frame, Min(beacon) + 4 + 1)}
          [] beacon = {} /\ nan # {} -> IF Len(frame) > after + 4 THEN {From(frame, after + 4 + 1)} ELSE {}
          [] OTHER -> {}
  BY DEF extract_rid_payload
<1> HIDE DEF beacon, nan
<1>5. CASE beacon # {}
  <2> DEFINE start == Min(beacon) + 4 + 1
  <2>1. start \in Nat
    <3>1. Min(beacon) \in Nat
      BY <1>2, <1>5, MinOf
    <3>2. QED
      BY <3>1
  <2>2. wifi_rid_payload(frame) = After(frame, start) /\ extract_rid_payload(frame) = {From(frame, start)}
    BY <1>3, <1>4, <1>5
  <2> HIDE DEF start
  <2>3. start >= Len(frame) \/ start < Len(frame)
    BY <2>1, <1>1
  <2>4. QED
    BY <2>1, <2>2, <2>3, FoundAfter
<1>6. CASE beacon = {} /\ nan # {}
  <2> DEFINE start == after + 4 + 1
  <2>1. start \in Nat /\ Min(nan) + 6 + 4 + 1 = start /\ (Len(frame) > after + 4 <=> start <= Len(frame))
    <3>1. Min(nan) \in Nat
      BY <1>2, <1>6, MinOf
    <3>2. QED
      BY <3>1, <1>1
  <2>2. /\ wifi_rid_payload(frame) = After(frame, start)
        /\ extract_rid_payload(frame) = IF start <= Len(frame) THEN {From(frame, start)} ELSE {}
    BY <1>3, <1>4, <1>6, <2>1
  <2> HIDE DEF start
  <2>3. start >= Len(frame) \/ start < Len(frame)
    BY <2>1, <1>1
  <2>4. start < Len(frame) => start <= Len(frame)
    BY <2>1, <1>1
  <2>5. QED
    BY <2>1, <2>2, <2>3, <2>4, FoundAfter
<1>7. CASE beacon = {} /\ nan = {}
  BY <1>3, <1>4, <1>7
<1>8. QED
  BY <1>5, <1>6, <1>7

LEMMA SameFrame ==
  ASSUME NEW frame \in Seq(Byte), SaysOnce(frame),
         \A payload \in wifi_rid_payload(frame) :
           \A k \in DOMAIN Messages(payload) : Readable(Messages(payload)[k])
  PROVE  FrameContact(frame) = FrameFields(frame)
<1>1. \A payload \in wifi_rid_payload(frame) : ReadablePayload(payload)
  BY DEF SaysOnce, ReadablePayload
<1>2. CASE /\ extract_rid_payload(frame) = wifi_rid_payload(frame)
           /\ \A data \in wifi_rid_payload(frame) : data \in Seq(Byte) /\ data # <<>>
  <2>1. \A data \in wifi_rid_payload(frame) : Contact(Messages(data)) = Shared(decode_odid_payload(data))
    BY <1>1, <1>2, SamePayload
  <2>2. QED
    BY <1>2, <2>1 DEF FrameContact, FrameFields
<1>3. CASE wifi_rid_payload(frame) = {} /\ extract_rid_payload(frame) = {<<>>}
  <2>1. decode_odid_payload(<<>>) = FoldLeft(Update, Fields, <<>>)
    BY DEF decode_odid_payload, Fields
  <2>2. Shared(decode_odid_payload(<<>>)) = Nothing
    BY <2>1, NothingSaid
  <2>3. QED
    BY <1>3, <2>2 DEF FrameContact, FrameFields
<1>4. QED
  BY <1>2, <1>3, SamePlace

\* A Bluetooth board, a Wi-Fi board and a Raspberry Pi take the same bytes to say the same
\* thing: the numbers of every message, every name in text, the message of every report
\* and the contact of every frame that does not contradict itself, cut short or not.
THEOREM BoardsAndPiAgree == ReadableInputs => (Spec => []DecodersAgree)
<1> SUFFICES ASSUME ReadableInputs PROVE Spec => []DecodersAgree
  OBVIOUS
<1>1. LocationsAgree /\ SystemsAgree
  BY SameLocation, SameSystem DEF LocationsAgree, SystemsAgree, ReadableInputs
<1>2. TextsAgree
  BY SameName DEF TextsAgree, ReadableInputs
<1>3. ReportsAgree
  BY SameReport DEF ReportsAgree, ReadableInputs
<1>4. FramesAgree
  BY SameFrame DEF FramesAgree, ReadableInputs
<1>5. DecodersAgree
  BY <1>1, <1>2, <1>3, <1>4 DEF DecodersAgree, MessagesAgree, BytesAgree
<1>6. QED
  BY <1>5, PTL

-----------------------------------------------------------------------------
(* What a board hears is what was sent: a report or a beacon is taken apart  *)
(* into the messages it was put together from, whatever their bytes.         *)

LEMMA Joined ==
  ASSUME NEW a \in Seq(Byte), NEW b \in Seq(Byte)
  PROVE  /\ a \o b \in Seq(Byte) /\ Len(a \o b) = Len(a) + Len(b)
         /\ \A k \in 1..Len(a) : (a \o b)[k] = a[k]
         /\ \A k \in 1..Len(b) : (a \o b)[Len(a) + k] = b[k]
<1> HIDE DEF Byte
<1>1. a \o b \in Seq(Byte) /\ Len(a \o b) = Len(a) + Len(b)
  BY ConcatProperties
<1>2. \A k \in 1..Len(a) + Len(b) : (a \o b)[k] = IF k <= Len(a) THEN a[k] ELSE b[k - Len(a)]
  BY ConcatProperties
<1>3. Len(a) \in Nat /\ Len(b) \in Nat
  BY LenProperties
<1>4. ASSUME NEW k \in 1..Len(a) PROVE (a \o b)[k] = a[k]
  <2>1. k \in 1..Len(a) + Len(b) /\ k <= Len(a)
    BY <1>3
  <2>2. QED
    BY <1>2, <2>1
<1>5. ASSUME NEW k \in 1..Len(b) PROVE (a \o b)[Len(a) + k] = b[k]
  <2> DEFINE i == Len(a) + k
  <2>1. i \in 1..Len(a) + Len(b) /\ ~ (i <= Len(a)) /\ i - Len(a) = k
    BY <1>3
  <2> HIDE DEF i
  <2>2. (a \o b)[i] = b[k]
    BY <1>2, <2>1
  <2>3. QED
    BY <2>2 DEF i
<1>6. QED
  BY <1>1, <1>4, <1>5

\* c is a followed by b, of lengths p and q.
IsJoin(c, a, b, p, q) ==
  /\ c \in Seq(Byte) /\ Len(c) = p + q
  /\ \A k \in 1..p : c[k] = a[k]
  /\ \A k \in 1..q : c[p + k] = b[k]

LEMMA JoinedAt ==
  ASSUME NEW a \in Seq(Byte), NEW b \in Seq(Byte), NEW p, NEW q, Len(a) = p, Len(b) = q
  PROVE  IsJoin(a \o b, a, b, p, q)
  BY Joined DEF IsJoin

\* A report is its message, whatever the message's bytes.
LEMMA ReportedWhole ==
  ASSUME NEW msg \in Message
  PROVE  odid_ble_extract(Advertisement(msg)) = {msg}
<1> DEFINE flags == <<2, 1, 6, 30, 22>>
           open == flags \o ODID_BLE_SIGNATURE
           head == open \o <<0>>
           data == Advertisement(msg)
           starts == {i + 4 : i \in Offsets(ODID_BLE_SIGNATURE, data)}
           whole == {i \in starts : i + ODID_MESSAGE_SIZE <= Len(data)}
<1>1. data = head \o msg
  BY DEF Advertisement
<1>5. odid_ble_extract(data) =
        IF whole = {} THEN {} ELSE {Slice(data, Min(whole), Min(whole) + ODID_MESSAGE_SIZE)}
  BY DEF odid_ble_extract
<1> HIDE DEF data
<1>a. /\ flags \in Seq(Byte) /\ Len(flags) = 5
      /\ flags[1] = 2 /\ flags[2] = 1 /\ flags[3] = 6 /\ flags[4] = 30 /\ flags[5] = 22
      /\ <<0>> \in Seq(Byte) /\ Len(<<0>>) = 1
  BY DEF Byte
<1>b. /\ ODID_BLE_SIGNATURE \in Seq(Byte) /\ Len(ODID_BLE_SIGNATURE) = 3
      /\ ODID_BLE_SIGNATURE[1] = 250 /\ ODID_BLE_SIGNATURE[2] = 255 /\ ODID_BLE_SIGNATURE[3] = 13
  BY DEF ODID_BLE_SIGNATURE, Byte
<1> HIDE DEF flags
<1>c. /\ open \in Seq(Byte) /\ Len(open) = 8
      /\ \A k \in 1..5 : open[k] = flags[k]
      /\ \A k \in 1..3 : open[5 + k] = ODID_BLE_SIGNATURE[k]
  <2>1. IsJoin(open, flags, ODID_BLE_SIGNATURE, 5, 3)
    <3>1. flags \in Seq(Byte) /\ Len(flags) = 5
      BY <1>a
    <3>2. ODID_BLE_SIGNATURE \in Seq(Byte) /\ Len(ODID_BLE_SIGNATURE) = 3
      BY <1>b
    <3>3. QED
      BY <3>1, <3>2, JoinedAt
  <2> HIDE DEF open
  <2>2. QED
    BY <2>1 DEF IsJoin
<1> HIDE DEF open
<1>2. /\ head \in Seq(Byte) /\ Len(head) = 9
      /\ \A k \in 1..8 : head[k] = open[k]
  <2> DEFINE zero == <<0>>
  <2>1. zero \in Seq(Byte) /\ Len(zero) = 1
    BY <1>a
  <2>2. head = open \o zero
    OBVIOUS
  <2> HIDE DEF head, zero
  <2>3. IsJoin(head, open, zero, 8, 1)
    BY <2>1, <2>2, <1>c, JoinedAt
  <2>4. QED
    BY <2>3 DEF IsJoin
<1> HIDE DEF head
<1>3. msg \in Seq(Byte) /\ Len(msg) = 25
  BY DEF Message, ODID_MESSAGE_SIZE
<1>4. /\ data \in Seq(Byte) /\ Len(data) = 34
      /\ \A k \in 1..9 : data[k] = head[k]
      /\ \A k \in 1..25 : data[9 + k] = msg[k]
  <2>1. IsJoin(data, head, msg, 9, 25)
    BY <1>1, <1>2, <1>3, JoinedAt
  <2>2. QED
    BY <2>1 DEF IsJoin
<1>6. data[1] = 2 /\ data[2] = 1 /\ data[3] = 6 /\ data[4] = 30 /\ data[5] = 22 /\ data[6] = 250 /\ data[7] = 255 /\ data[8] = 13
  <2>1. /\ data[1] = open[1] /\ data[2] = open[2] /\ data[3] = open[3] /\ data[4] = open[4]
        /\ data[5] = open[5] /\ data[6] = open[6] /\ data[7] = open[7] /\ data[8] = open[8]
    BY <1>2, <1>4
  <2>2. /\ open[1] = 2 /\ open[2] = 1 /\ open[3] = 6 /\ open[4] = 30 /\ open[5] = 22
    BY <1>a, <1>c
  <2>3. open[5 + 1] = 250 /\ open[5 + 2] = 255 /\ open[5 + 3] = 13
    BY <1>b, <1>c
  <2>4. QED
    BY <2>1, <2>2, <2>3
<1>7. \A i \in 0..31 : Slice(data, i, i + 3) = ODID_BLE_SIGNATURE => data[i + 1] = 250
  <2> SUFFICES ASSUME NEW i \in 0..31, Slice(data, i, i + 3) = ODID_BLE_SIGNATURE PROVE data[i + 1] = 250
    OBVIOUS
  <2> DEFINE j == i + 3
  <2>1. i \in Nat /\ j \in Nat /\ i <= j /\ j <= 34 /\ j - i = 3
    OBVIOUS
  <2>1a. j <= Len(data)
    BY <2>1, <1>4
  <2>2. Slice(data, i, j) = ODID_BLE_SIGNATURE
    OBVIOUS
  <2> HIDE DEF j
  <2>3. \A k \in 1..(j - i) : Slice(data, i, j)[k] = data[i + k]
    BY <2>1, <2>1a, <1>4, SliceOf
  <2>4. Slice(data, i, j)[1] = data[i + 1]
    BY <2>1, <2>3
  <2>5. ODID_BLE_SIGNATURE[1] = 250
    BY DEF ODID_BLE_SIGNATURE
  <2>6. QED
    BY <2>2, <2>4, <2>5
<1>8. Slice(data, 5, 8) = ODID_BLE_SIGNATURE
  <2>1. 5 \in Nat /\ 8 \in Nat /\ 5 <= 8 /\ 8 <= Len(data) /\ 8 - 5 = 3
    BY <1>4
  <2>2. /\ Slice(data, 5, 8) \in Seq(Byte) /\ Len(Slice(data, 5, 8)) = 8 - 5
        /\ \A k \in 1..(8 - 5) : Slice(data, 5, 8)[k] = data[5 + k]
    BY <2>1, <1>4, SliceOf
  <2>3. ODID_BLE_SIGNATURE \in Seq(Byte) /\ Len(ODID_BLE_SIGNATURE) = 3
    BY DEF ODID_BLE_SIGNATURE, Byte
  <2>4. \A k \in 1..3 : Slice(data, 5, 8)[k] = ODID_BLE_SIGNATURE[k]
    <3>1. Slice(data, 5, 8)[1] = 250 /\ Slice(data, 5, 8)[2] = 255 /\ Slice(data, 5, 8)[3] = 13
      BY <2>1, <2>2, <1>6
    <3> DEFINE s == Slice(data, 5, 8)
    <3> HIDE DEF s
    <3>2. \A k \in 1..3 : s[k] = ODID_BLE_SIGNATURE[k]
      BY <3>1 DEF ODID_BLE_SIGNATURE, s
    <3>3. QED
      BY <3>2 DEF s
  <2>5. QED
    BY <2>1, <2>2, <2>3, <2>4, SameBytes
<1>9. whole = {9}
  <2> DEFINE O == Offsets(ODID_BLE_SIGNATURE, data)
  <2>1. Len(ODID_BLE_SIGNATURE) = 3
    BY DEF ODID_BLE_SIGNATURE
  <2>2. O = {i \in 0..31 : Slice(data, i, i + 3) = ODID_BLE_SIGNATURE}
    BY <2>1, <1>4 DEF Offsets
  <2> HIDE DEF O
  <2>3. 5 \in O
    BY <2>2, <1>8
  <2>4. \A i \in O : i \in 0..31 /\ data[i + 1] = 250
    BY <2>2, <1>7
  <2>5. \A i \in O : i \notin {0, 1, 2, 3, 4}
    BY <2>4, <1>6
  <2>6. \A i \in O : i >= 5
    BY <2>4, <2>5
  <2>7. \A i \in O : i + 4 + 25 <= 34 <=> i = 5
    BY <2>4, <2>6
  <2>8. whole = {i + 4 : i \in {j \in O : j + 4 + 25 <= 34}}
    BY <1>4 DEF O, ODID_MESSAGE_SIZE
  <2>9. {j \in O : j + 4 + 25 <= 34} = {5}
    BY <2>3, <2>7
  <2>10. QED
    BY <2>8, <2>9
<1> HIDE DEF whole
<1>10. Min(whole) = 9
  <2>1. {9} \in SUBSET Nat /\ 9 \in {9} /\ \A m \in {9} : 9 <= m
    OBVIOUS
  <2>2. Min({9}) = 9
    BY <2>1, MinIs
  <2>3. QED
    BY <2>2, <1>9
<1>11. Slice(data, 9, 34) = msg
  <2>1. 9 \in Nat /\ 34 \in Nat /\ 9 <= 34 /\ 34 <= Len(data) /\ 34 - 9 = 25
    BY <1>4
  <2>2. /\ Slice(data, 9, 34) \in Seq(Byte) /\ Len(Slice(data, 9, 34)) = 34 - 9
        /\ \A k \in 1..(34 - 9) : Slice(data, 9, 34)[k] = data[9 + k]
    BY <2>1, <1>4, SliceOf
  <2>3. \A k \in 1..25 : Slice(data, 9, 34)[k] = msg[k]
    BY <2>1, <2>2, <1>4
  <2> DEFINE part == Slice(data, 9, 34)
  <2> HIDE DEF part
  <2>4. part \in Seq(Byte) /\ Len(part) = 25 /\ \A k \in 1..25 : part[k] = msg[k]
    BY <2>1, <2>2, <2>3 DEF part
  <2>5. part = msg
    BY <2>4, <1>3, SameBytes
  <2>6. QED
    BY <2>5 DEF part
<1>12. odid_ble_extract(data) = {Slice(data, 9, 9 + 25)}
  BY <1>5, <1>9, <1>10 DEF ODID_MESSAGE_SIZE
<1>13. QED
  BY <1>11, <1>12 DEF data

\* part is the n bytes of data from offset i.
IsPart(part, data, i, n) ==
  part \in Seq(Byte) /\ Len(part) = n /\ \A k \in 1..n : part[k] = data[i + k]

LEMMA PartAt ==
  ASSUME NEW data \in Seq(Byte), NEW i \in Nat, NEW n \in Nat, i + n <= Len(data)
  PROVE  IsPart(Slice(data, i, i + n), data, i, n)
<1> DEFINE j == i + n
<1>1. j \in Nat /\ i <= j /\ j <= Len(data) /\ j - i = n
  OBVIOUS
<1> HIDE DEF j
<1>2. IsPart(Slice(data, i, j), data, i, j - i)
  BY <1>1, SliceOf DEF IsPart
<1>3. QED
  BY <1>1, <1>2 DEF j

LEMMA RestAt ==
  ASSUME NEW data \in Seq(Byte), NEW i \in Nat, i <= Len(data)
  PROVE  IsPart(From(data, i), data, i, Len(data) - i)
  BY Rest DEF IsPart

\* A frame's messages, one after the other.
Body(messages) == FoldLeft(LAMBDA s, msg : s \o msg, <<>>, messages)

LEMMA BodySteps ==
  ASSUME NEW n \in Nat, NEW messages \in [1..n -> Seq(Byte)]
  PROVE  \E f : /\ f[0] = <<>>
                /\ f[n] = Body(messages)
                /\ \A k \in 1..n : f[k] = f[k - 1] \o messages[k]
<1> DEFINE T == Seq(Byte)
           Step(g, s) == IF s = {} THEN <<>> ELSE g[s \ {Max(s)}] \o messages[Max(s)]
           iter == CHOOSE g : g = [s \in SUBSET (1..n) |-> Step(g, s)]
           step == [k \in 1..n |-> [s \in T |-> s \o messages[k]]]
<1>1. Body(messages) = iter[1..n]
  <2>1. DOMAIN messages = 1..n
    OBVIOUS
  <2>2. QED
    BY <2>1 DEF Body, FoldLeft, MapThenFoldSet
<1>2. ASSUME NEW k \in 1..n, NEW s \in T PROVE s \o messages[k] \in T
  <2>1. messages[k] \in Seq(Byte)
    OBVIOUS
  <2>2. QED
    BY <2>1, ConcatProperties
<1> HIDE DEF T
<1>3. step \in [1..n -> [T -> T]]
  BY <1>2
<1>4. <<>> \in T
  BY EmptySeq DEF T
<1>5. PICK g : IsFold(g, n, T, <<>>, step)
  <2> HIDE DEF step
  <2>1. QED
    BY <1>3, <1>4, FoldDefined
<1>6. ASSUME NEW s \in SUBSET (1..n) PROVE g[s] = Step(g, s)
  <2>1. CASE s = {}
    BY <2>1, <1>5 DEF IsFold
  <2>2. CASE s # {}
    <3>1. n # 0
      <4>1. 1..0 = {}
        OBVIOUS
      <4>2. QED
        BY <2>2, <4>1
    <3>2. Max(s) \in 1..n
      BY <3>1, <2>2, LastOf
    <3>3. g[s \ {Max(s)}] \in T /\ s \ {Max(s)} \in SUBSET (1..n)
      BY <1>5 DEF IsFold
    <3>4. step[Max(s)][g[s \ {Max(s)}]] = g[s \ {Max(s)}] \o messages[Max(s)]
      BY <3>2, <3>3
    <3>5. g[s] = step[Max(s)][g[s \ {Max(s)}]]
      BY <2>2, <1>5, Zenon DEF IsFold
    <3> HIDE DEF step
    <3>6. QED
      BY <3>4, <3>5, <2>2
  <2>3. QED
    BY <2>1, <2>2
<1>7. g = [s \in SUBSET (1..n) |-> Step(g, s)]
  <2> HIDE DEF Step
  <2>1. g = [s \in SUBSET (1..n) |-> g[s]]
    BY <1>5 DEF IsFold
  <2>2. QED
    BY <1>6, <2>1
<1>8. iter = [s \in SUBSET (1..n) |-> Step(iter, s)]
  BY <1>7
<1> HIDE DEF iter
<1>9. \A s \in SUBSET (1..n) : iter[s] = Step(iter, s)
  <2> HIDE DEF Step
  <2>1. QED
    BY <1>8
<1> DEFINE f == [k \in 0..n |-> iter[1..k]]
<1>10. f[0] = <<>>
  <2>1. 1..0 = {} /\ 0 \in 0..n
    OBVIOUS
  <2>2. QED
    BY <2>1, <1>9
<1>11. ASSUME NEW k \in 1..n PROVE f[k] = f[k - 1] \o messages[k]
  <2>1. 1..k \in SUBSET (1..n) /\ k \in Nat \ {0} /\ k \in 0..n /\ k - 1 \in 0..n
    OBVIOUS
  <2>2. 1..k # {} /\ Max(1..k) = k /\ (1..k) \ {k} = 1..(k - 1)
    BY <2>1, PrefixTo
  <2>3. iter[1..k] = iter[1..(k - 1)] \o messages[k]
    BY <2>1, <2>2, <1>9
  <2>4. QED
    BY <2>1, <2>3
<1>12. f[n] = Body(messages)
  <2>1. n \in 0..n
    OBVIOUS
  <2>2. QED
    BY <2>1, <1>1
<1>13. QED
  BY <1>10, <1>11, <1>12

\* The bytes of n messages.
IsBody(body, n, messages) ==
  /\ body \in Seq(Byte) /\ Len(body) = 25 * n
  /\ \A j \in 1..n : \A k \in 1..25 : body[25 * (j - 1) + k] = messages[j][k]

LEMMA BodyIs ==
  ASSUME NEW n \in 1..2, NEW messages \in [1..n -> Message]
  PROVE  IsBody(Body(messages), n, messages)
<1>1. \A j \in 1..n : messages[j] \in Seq(Byte) /\ Len(messages[j]) = 25
  BY DEF Message, ODID_MESSAGE_SIZE
<1>2. PICK f : /\ f[0] = <<>>
               /\ f[n] = Body(messages)
               /\ \A k \in 1..n : f[k] = f[k - 1] \o messages[k]
  <2>1. n \in Nat /\ messages \in [1..n -> Seq(Byte)]
    BY <1>1
  <2>2. QED
    BY <2>1, BodySteps
<1>3. f[0] \in Seq(Byte) /\ Len(f[0]) = 0
  BY <1>2, EmptySeq
<1>4. /\ f[1] \in Seq(Byte) /\ Len(f[1]) = 25
      /\ \A k \in 1..25 : f[1][k] = messages[1][k]
  <2>1. 1 \in 1..n /\ 1 - 1 = 0
    OBVIOUS
  <2>2. f[1] = f[0] \o messages[1] /\ messages[1] \in Seq(Byte) /\ Len(messages[1]) = 25
    BY <2>1, <1>1, <1>2
  <2>3. IsJoin(f[0] \o messages[1], f[0], messages[1], 0, 25)
    BY <2>2, <1>3, JoinedAt
  <2>4. IsJoin(f[1], f[0], messages[1], 0, 25)
    BY <2>2, <2>3
  <2>5. QED
    BY <2>4 DEF IsJoin
<1>5. CASE n = 1
  <2>1. Body(messages) = f[1]
    BY <1>2, <1>5
  <2> DEFINE body == Body(messages)
  <2>2. body = f[1]
    BY <2>1
  <2> HIDE DEF body
  <2>3. body \in Seq(Byte) /\ Len(body) = 25 /\ \A k \in 1..25 : body[k] = messages[1][k]
    BY <2>2, <1>4
  <2>4. \A j \in 1..1 : \A k \in 1..25 : body[25 * (j - 1) + k] = messages[j][k]
    <3>1. SUFFICES ASSUME NEW j \in 1..1, NEW k \in 1..25
                   PROVE  body[25 * (j - 1) + k] = messages[j][k]
      OBVIOUS
    <3>2. j = 1 /\ 25 * (j - 1) + k = k
      OBVIOUS
    <3>3. QED
      BY <3>2, <2>3
  <2>5. QED
    BY <2>3, <2>4, <1>5 DEF IsBody, body
<1>6. CASE n = 2
  <2>1. 2 \in 1..n /\ 2 - 1 = 1
    BY <1>6
  <2>2. /\ f[2] = f[1] \o messages[2] /\ messages[2] \in Seq(Byte) /\ Len(messages[2]) = 25
        /\ Body(messages) = f[2]
    BY <2>1, <1>1, <1>2, <1>6
  <2> DEFINE body == Body(messages)
             two == messages[2]
             one == f[1]
  <2>3. body = one \o two /\ two \in Seq(Byte) /\ Len(two) = 25 /\ one \in Seq(Byte) /\ Len(one) = 25
    BY <2>2, <1>4
  <2> HIDE DEF body, one, two
  <2>4. IsJoin(body, one, two, 25, 25)
    BY <2>3, JoinedAt
  <2>5. /\ body \in Seq(Byte) /\ Len(body) = 50
        /\ \A k \in 1..25 : body[k] = one[k]
        /\ \A k \in 1..25 : body[25 + k] = two[k]
    BY <2>4 DEF IsJoin
  <2>6. \A k \in 1..25 : body[k] = messages[1][k] /\ body[25 + k] = messages[2][k]
    BY <2>5, <1>4 DEF one, two
  <2>7. \A j \in 1..2 : \A k \in 1..25 : body[25 * (j - 1) + k] = messages[j][k]
    <3>1. SUFFICES ASSUME NEW j \in 1..2, NEW k \in 1..25
                   PROVE  body[25 * (j - 1) + k] = messages[j][k]
      OBVIOUS
    <3>2. CASE j = 1
      <4>1. 25 * (j - 1) + k = k
        BY <3>2
      <4>2. QED
        BY <4>1, <3>2, <2>6
    <3>3. CASE j = 2
      <4>1. 25 * (j - 1) + k = 25 + k
        BY <3>3
      <4>2. QED
        BY <4>1, <3>3, <2>6
    <3>4. QED
      BY <3>2, <3>3
  <2>8. QED
    BY <2>5, <2>7, <1>6 DEF IsBody, body
<1>7. QED
  BY <1>5, <1>6

\* A pack of one or two messages is read as those messages.
IsPackOf(data, n, messages) ==
  /\ data \in Seq(Byte) /\ Len(data) = 3 + 25 * n
  /\ data[1] = 240 /\ data[2] = 25 /\ data[3] = n
  /\ \A k \in 1..25 * n : data[3 + k] = Body(messages)[k]

LEMMA PackWhole ==
  ASSUME NEW n \in 1..2, NEW messages \in [1..n -> Message], NEW data, IsPackOf(data, n, messages)
  PROVE  Messages(data) = messages
<1> DEFINE C(j) == Slice(data, 3 + (j - 1) * ODID_MESSAGE_SIZE, 3 + j * ODID_MESSAGE_SIZE)
<1>1. At(data, 0) = 240 /\ At(data, 1) = 25 /\ At(data, 2) = n
  BY DEF At, IsPackOf
<1>2. IsPack(data)
  <2>1. 240 \div 16 = 15
    BY Z3
  <2>2. odid_message_type(data) = 15
    BY <2>1, <1>1 DEF odid_message_type
  <2>3. Len(data) >= 3 /\ Len(data) >= 3 + n * 25 /\ n \in 1..9
    BY DEF IsPackOf
  <2>4. Len(data) >= 3 + At(data, 2) * At(data, 1)
    BY <2>3, <1>1
  <2>5. QED
    BY <2>2, <2>3, <2>4, <1>1 DEF IsPack, ODID_MESSAGE_SIZE, ODID_PACK_MAX_MESSAGES
<1>3. ASSUME NEW j \in 1..n PROVE C(j) = messages[j]
  <2> DEFINE a == 3 + (j - 1) * 25
             part == Slice(data, a, a + 25)
  <2>1. /\ a \in Nat /\ a + 25 = 3 + j * 25 /\ a + 25 <= 3 + 25 * n
        /\ \A k \in 1..25 : a + k = 3 + (25 * (j - 1) + k) /\ 25 * (j - 1) + k \in 1..25 * n
    <3>1. j = 1 \/ j = 2
      OBVIOUS
    <3>2. QED
      BY <3>1
  <2>2. C(j) = part
    BY <2>1 DEF ODID_MESSAGE_SIZE
  <2> HIDE DEF a, C
  <2>3. data \in Seq(Byte) /\ a + 25 <= Len(data) /\ 25 \in Nat
    BY <2>1 DEF IsPackOf
  <2>4. IsPart(part, data, a, 25)
    BY <2>1, <2>3, PartAt
  <2> HIDE DEF part
  <2>5. IsBody(Body(messages), n, messages)
    BY BodyIs
  <2>6. \A k \in 1..25 : part[k] = messages[j][k]
    <3>1. SUFFICES ASSUME NEW k \in 1..25 PROVE part[k] = messages[j][k]
      OBVIOUS
    <3>2. part[k] = data[a + k]
      BY <2>4 DEF IsPart
    <3> DEFINE q == 25 * (j - 1) + k
    <3>3. a + k = 3 + q /\ q \in 1..25 * n
      BY <2>1
    <3>4. Body(messages)[q] = messages[j][k]
      BY <2>5 DEF IsBody
    <3> HIDE DEF q
    <3>5. data[3 + q] = Body(messages)[q]
      BY <3>3 DEF IsPackOf
    <3>6. QED
      BY <3>2, <3>3, <3>4, <3>5
  <2>7. messages[j] \in Seq(Byte) /\ Len(messages[j]) = 25
    <3>1. messages[j] \in Message
      OBVIOUS
    <3>2. QED
      BY <3>1 DEF Message, ODID_MESSAGE_SIZE
  <2>8. part \in Seq(Byte) /\ Len(part) = 25
    BY <2>4 DEF IsPart
  <2>9. part = messages[j]
    BY <2>6, <2>7, <2>8, SameBytes
  <2>10. QED
    BY <2>2, <2>9
<1>4. odid_pack_split(data) = [j \in 1..n |-> C(j)]
  BY <1>1, <1>2 DEF odid_pack_split
<1> HIDE DEF C
<1>5. [j \in 1..n |-> C(j)] = messages
  BY <1>3
<1>6. odid_pack_split(data) = messages
  BY <1>4, <1>5
<1>7. messages # <<>>
  <2>1. DOMAIN messages = 1..n /\ DOMAIN <<>> = {} /\ 1 \in 1..n
    OBVIOUS
  <2>2. QED
    BY <2>1
<1>8. QED
  BY <1>6, <1>7 DEF Messages

\* The bytes of a beacon.
IsBeacon(frame, mac, n, messages) ==
  /\ frame \in Seq(Byte) /\ Len(frame) = 26 + 25 * n
  /\ \A k \in 1..10 : frame[k] = 255
  /\ \A k \in 1..6 : frame[10 + k] = mac[k]
  /\ frame[17] = 221 /\ frame[18] = 30
  /\ \A k \in 1..4 : frame[18 + k] = WIFI_RID_BEACON_SIGNATURE[k]
  /\ frame[24] = 240 /\ frame[25] = 25 /\ frame[26] = n
  /\ \A k \in 1..25 * n : frame[26 + k] = Body(messages)[k]

LEMMA BeaconBytes ==
  ASSUME NEW mac \in Seq(Byte), Len(mac) = 6,
         NEW n \in 1..2, NEW messages \in [1..n -> Message], Len(messages) = n
  PROVE  IsBeacon(Beacon(mac, messages), mac, n, messages)
<1> DEFINE pad == [i \in 1..10 |-> 255]
           tag == <<221, 30>>
           count == <<0>>
           top == <<240, ODID_MESSAGE_SIZE, Len(messages)>>
           a == pad \o mac
           b == a \o tag
           c == b \o WIFI_RID_BEACON_SIGNATURE
           d == c \o count
           e == d \o top
           body == Body(messages)
           beacon == Beacon(mac, messages)
<1>1. beacon = e \o body
  BY DEF Beacon, Body
<1>2. pad \in Seq(Byte) /\ Len(pad) = 10
  <2>1. pad \in [1..10 -> Byte] /\ 10 \in Nat
    BY DEF Byte
  <2>2. QED
    BY <2>1, SeqDef, LenProperties
<1>2a. \A k \in 1..10 : pad[k] = 255
  OBVIOUS
<1>3. tag \in Seq(Byte) /\ Len(tag) = 2
  BY DEF Byte
<1>3a. tag[1] = 221 /\ tag[2] = 30
  OBVIOUS
<1>4. count \in Seq(Byte) /\ Len(count) = 1
  BY DEF Byte
<1>5. top \in Seq(Byte) /\ Len(top) = 3
  BY DEF Byte, ODID_MESSAGE_SIZE
<1>5a. top[1] = 240 /\ top[2] = 25 /\ top[3] = n
  BY DEF ODID_MESSAGE_SIZE
<1>6. WIFI_RID_BEACON_SIGNATURE \in Seq(Byte) /\ Len(WIFI_RID_BEACON_SIGNATURE) = 4
  BY DEF WIFI_RID_BEACON_SIGNATURE, Byte
<1>7. body \in Seq(Byte) /\ Len(body) = 25 * n
  BY BodyIs DEF IsBody
<1> HIDE DEF beacon, body
<1> HIDE DEF pad, tag, count, top
<1>8. IsJoin(a, pad, mac, 10, 6)
  BY <1>2, JoinedAt
<1>9. a \in Seq(Byte) /\ Len(a) = 16
  BY <1>8 DEF IsJoin
<1> HIDE DEF a
<1>10. IsJoin(b, a, tag, 16, 2)
  BY <1>3, <1>9, JoinedAt
<1>11. b \in Seq(Byte) /\ Len(b) = 18
  BY <1>10 DEF IsJoin
<1> HIDE DEF b
<1>12. IsJoin(c, b, WIFI_RID_BEACON_SIGNATURE, 18, 4)
  BY <1>6, <1>11, JoinedAt
<1>13. c \in Seq(Byte) /\ Len(c) = 22
  BY <1>12 DEF IsJoin
<1> HIDE DEF c
<1>14. IsJoin(d, c, count, 22, 1)
  BY <1>4, <1>13, JoinedAt
<1>15. d \in Seq(Byte) /\ Len(d) = 23
  BY <1>14 DEF IsJoin
<1> HIDE DEF d
<1>16. IsJoin(e, d, top, 23, 3)
  BY <1>5, <1>15, JoinedAt
<1>17. e \in Seq(Byte) /\ Len(e) = 26
  BY <1>16 DEF IsJoin
<1> HIDE DEF e
<1>18. IsJoin(beacon, e, body, 26, 25 * n)
  BY <1>1, <1>7, <1>17, JoinedAt
<1>19. /\ beacon \in Seq(Byte) /\ Len(beacon) = 26 + 25 * n
       /\ \A k \in 1..26 : beacon[k] = e[k]
       /\ \A k \in 1..25 * n : beacon[26 + k] = body[k]
  BY <1>18 DEF IsJoin
<1>20. /\ \A k \in 1..23 : e[k] = d[k]
       /\ \A k \in 1..3 : e[23 + k] = top[k]
  BY <1>16 DEF IsJoin
<1>21. \A k \in 1..22 : d[k] = c[k]
  BY <1>14 DEF IsJoin
<1>22. /\ \A k \in 1..18 : c[k] = b[k]
       /\ \A k \in 1..4 : c[18 + k] = WIFI_RID_BEACON_SIGNATURE[k]
  BY <1>12 DEF IsJoin
<1>23. /\ \A k \in 1..16 : b[k] = a[k]
       /\ \A k \in 1..2 : b[16 + k] = tag[k]
  BY <1>10 DEF IsJoin
<1>24. /\ \A k \in 1..10 : a[k] = pad[k]
       /\ \A k \in 1..6 : a[10 + k] = mac[k]
  BY <1>8 DEF IsJoin
<1>25. \A k \in 1..22 : beacon[k] = c[k]
  <2>1. \A k \in 1..22 : k \in 1..26 /\ k \in 1..23
    OBVIOUS
  <2>2. QED
    BY <2>1, <1>19, <1>20, <1>21
<1>26. \A k \in 1..18 : beacon[k] = b[k]
  <2>1. \A k \in 1..18 : k \in 1..22
    OBVIOUS
  <2>2. QED
    BY <2>1, <1>22, <1>25
<1>27. \A k \in 1..16 : beacon[k] = a[k]
  <2>1. \A k \in 1..16 : k \in 1..18
    OBVIOUS
  <2>2. QED
    BY <2>1, <1>23, <1>26
<1>28. \A k \in 1..10 : beacon[k] = 255
  <2>1. \A k \in 1..10 : k \in 1..16
    OBVIOUS
  <2>2. QED
    BY <2>1, <1>2a, <1>24, <1>27
<1>29. \A k \in 1..6 : beacon[10 + k] = mac[k]
  <2>1. \A k \in 1..6 : 10 + k \in 1..16
    OBVIOUS
  <2>2. QED
    BY <2>1, <1>24, <1>27
<1>30. beacon[17] = 221 /\ beacon[18] = 30
  <2>1. b[16 + 1] = tag[1] /\ b[16 + 2] = tag[2]
    BY <1>23
  <2>2. QED
    BY <2>1, <1>3a, <1>26
<1>31. \A k \in 1..4 : beacon[18 + k] = WIFI_RID_BEACON_SIGNATURE[k]
  <2>1. \A k \in 1..4 : 18 + k \in 1..22
    OBVIOUS
  <2>2. QED
    BY <2>1, <1>22, <1>25
<1>32. beacon[24] = 240 /\ beacon[25] = 25 /\ beacon[26] = n
  <2>1. e[23 + 1] = top[1] /\ e[23 + 2] = top[2] /\ e[23 + 3] = top[3]
    BY <1>20
  <2>2. beacon[24] = e[24] /\ beacon[25] = e[25] /\ beacon[26] = e[26]
    BY <1>19
  <2>3. e[24] = top[1] /\ e[25] = top[2] /\ e[26] = top[3]
    BY <2>1
  <2>4. QED
    BY <2>2, <2>3, <1>5a
<1>33. QED
  BY <1>19, <1>28, <1>29, <1>30, <1>31, <1>32 DEF IsBeacon, beacon, body

LEMMA FramedWhole ==
  ASSUME NEW mac \in Seq(Byte), Len(mac) = 6, Offsets(WIFI_RID_BEACON_SIGNATURE, mac) = {},
         NEW n \in 1..2, NEW messages \in [1..n -> Message], Len(messages) = n
  PROVE  FrameContact(Beacon(mac, messages)) = {Contact(messages)} \ {Nothing}
<1> DEFINE sign == WIFI_RID_BEACON_SIGNATURE
           frame == Beacon(mac, messages)
           O == Offsets(sign, frame)
           payload == From(frame, 23)
<1>0. IsBeacon(frame, mac, n, messages)
  BY BeaconBytes
<1>1. /\ \A k \in 1..10 : frame[k] = 255
      /\ \A k \in 1..6 : frame[10 + k] = mac[k]
      /\ frame[17] = 221 /\ frame[18] = 30
      /\ \A k \in 1..4 : frame[18 + k] = sign[k]
      /\ frame[24] = 240 /\ frame[25] = 25 /\ frame[26] = n
      /\ \A k \in 1..25 * n : frame[26 + k] = Body(messages)[k]
  BY <1>0 DEF IsBeacon
<1>1a. frame \in Seq(Byte) /\ Len(frame) = 26 + 25 * n
  BY <1>0 DEF IsBeacon
<1>2. sign \in Seq(Byte) /\ Len(sign) = 4
  BY DEF WIFI_RID_BEACON_SIGNATURE, Byte
<1>2a. sign[1] = 250 /\ sign[2] = 11 /\ sign[3] = 188 /\ sign[4] = 13
  BY DEF WIFI_RID_BEACON_SIGNATURE
<1>3. wifi_rid_payload(frame) =
        CASE O # {} -> After(frame, Min(O) + 4 + 1)
          [] O = {} /\ Offsets(WIFI_RID_NAN_SERVICE_ID, frame) # {} ->
               After(frame, Min(Offsets(WIFI_RID_NAN_SERVICE_ID, frame)) + 6 + 4 + 1)
          [] OTHER -> {}
  BY DEF wifi_rid_payload
<1>4. FrameContact(frame) = {Contact(Messages(p)) : p \in wifi_rid_payload(frame)} \ {Nothing}
  BY DEF FrameContact
<1>5. Offsets(sign, mac) = {i \in 0..2 : Slice(mac, i, i + 4) = sign}
  BY <1>2 DEF Offsets
<1>6. O = {i \in 0..(22 + 25 * n) : Slice(frame, i, i + 4) = sign}
  <2>1. Len(frame) - Len(sign) = 22 + 25 * n
    BY <1>1a, <1>2
  <2>2. QED
    BY <2>1, <1>2 DEF Offsets
<1>7. Offsets(sign, mac) = {}
  OBVIOUS
<1> HIDE DEF frame, sign, O
<1>8. ASSUME NEW i \in 0..18
      PROVE  IsPart(Slice(frame, i, i + 4), frame, i, 4)
  <2>1. i \in Nat /\ 4 \in Nat /\ i + 4 <= Len(frame)
    BY <1>1a
  <2>2. QED
    BY <2>1, <1>1a, PartAt
<1>9. 18 \in O
  <2> DEFINE part == Slice(frame, 18, 18 + 4)
  <2>1. 18 \in 0..18 /\ 18 \in 0..(22 + 25 * n)
    OBVIOUS
  <2>2. IsPart(part, frame, 18, 4)
    BY <2>1, <1>8
  <2>a. part = Slice(frame, 18, 18 + 4)
    OBVIOUS
  <2> HIDE DEF part
  <2>4. \A k \in 1..4 : part[k] = sign[k]
    <3>1. SUFFICES ASSUME NEW k \in 1..4 PROVE part[k] = sign[k]
      OBVIOUS
    <3>2. part[k] = frame[18 + k]
      BY <2>2 DEF IsPart
    <3>3. frame[18 + k] = sign[k]
      BY <1>1
    <3>4. QED
      BY <3>2, <3>3
  <2>b. part \in Seq(Byte) /\ Len(part) = 4
    BY <2>2 DEF IsPart
  <2>5. part = sign
    BY <2>b, <2>4, <1>2, SameBytes
  <2>6. QED
    BY <2>1, <2>5, <2>a, <1>6
<1>10. ASSUME NEW i \in O, i < 18 PROVE FALSE
  <2>1. i \in 0..17 /\ i \in 0..18 /\ Slice(frame, i, i + 4) = sign
    BY <1>6, <1>10
  <2>2. frame[i + 1] = 250 /\ frame[i + 2] = 11 /\ frame[i + 3] = 188 /\ frame[i + 4] = 13
    <3>1. IsPart(sign, frame, i, 4)
      BY <2>1, <1>8
    <3>2. sign[1] = frame[i + 1] /\ sign[2] = frame[i + 2] /\ sign[3] = frame[i + 3] /\ sign[4] = frame[i + 4]
      BY <3>1 DEF IsPart
    <3>3. QED
      BY <3>2, <1>2a
  <2>3. CASE i \in 0..9
    <3>1. i + 1 \in 1..10
      BY <2>3
    <3>a. \A k \in 1..10 : frame[k] = 255
      BY <1>1
    <3>2. frame[i + 1] = 255
      BY <3>1, <3>a
    <3>3. QED
      BY <3>2, <2>2
  <2>4. CASE i \in 10..12
    <3> DEFINE a == i - 10
    <3>1. a \in Nat /\ a \in 0..2 /\ 4 \in Nat /\ a + 4 <= Len(mac)
      BY <2>4
    <3>2. \A k \in 1..4 : a + k \in 1..6 /\ 10 + (a + k) = i + k
      BY <2>4
    <3> HIDE DEF a
    <3> DEFINE part == Slice(mac, a, a + 4)
    <3>3. IsPart(part, mac, a, 4)
      BY <3>1, PartAt
    <3>4. part = Slice(mac, a, a + 4)
      OBVIOUS
    <3> HIDE DEF part
    <3>5. \A k \in 1..4 : part[k] = frame[i + k]
      <4>1. SUFFICES ASSUME NEW k \in 1..4 PROVE part[k] = frame[i + k]
        OBVIOUS
      <4>2. part[k] = mac[a + k]
        BY <3>3 DEF IsPart
      <4>3. frame[10 + (a + k)] = mac[a + k]
        BY <3>2, <1>1
      <4>4. QED
        BY <3>2, <4>2, <4>3
    <3>6. \A k \in 1..4 : part[k] = sign[k]
      <4>1. \A k \in 1..4 : k = 1 \/ k = 2 \/ k = 3 \/ k = 4
        OBVIOUS
      <4>2. QED
        BY <4>1, <3>5, <2>2, <1>2a
    <3>7. part \in Seq(Byte) /\ Len(part) = 4
      BY <3>3 DEF IsPart
    <3>8. part = sign
      BY <3>6, <3>7, <1>2, SameBytes
    <3>9. a \in Offsets(sign, mac)
      BY <3>1, <3>4, <3>8, <1>5
    <3>10. QED
      BY <3>9, <1>7
  <2>5. CASE i \in {13, 14, 15, 16}
    <3>1. i + 4 = 17 \/ i + 3 = 17 \/ i + 2 = 17 \/ i + 1 = 17
      BY <2>5
    <3>2. frame[17] = 221
      BY <1>1
    <3>3. QED
      BY <3>1, <3>2, <2>2
  <2>6. CASE i = 17
    <3>1. i + 1 = 18
      BY <2>6
    <3>2. frame[18] = 30
      BY <1>1
    <3>3. QED
      BY <3>1, <3>2, <2>2
  <2>7. i \in 0..9 \/ i \in 10..12 \/ i \in {13, 14, 15, 16} \/ i = 17
    BY <2>1
  <2>8. QED
    BY <2>3, <2>4, <2>5, <2>6, <2>7
<1>11. Min(O) = 18
  <2>1. O \in SUBSET Nat
    BY <1>6
  <2>2. \A i \in O : 18 <= i
    BY <2>1, <1>10
  <2>3. QED
    BY <2>1, <2>2, <1>9, MinIs
<1>12. wifi_rid_payload(frame) = {payload}
  <2>1. wifi_rid_payload(frame) = After(frame, Min(O) + 4 + 1)
    BY <1>3, <1>9
  <2>2. Min(O) + 4 + 1 = 23
    BY <1>11
  <2>3. ~ (23 >= Len(frame))
    BY <1>1a
  <2>4. After(frame, 23) = {payload}
    BY <2>3 DEF After
  <2>5. QED
    BY <2>1, <2>2, <2>4
<1>13. IsPart(payload, frame, 23, 3 + 25 * n)
  <2>1. 23 \in Nat /\ 23 <= Len(frame) /\ Len(frame) - 23 = 3 + 25 * n
    BY <1>1a
  <2>2. IsPart(payload, frame, 23, Len(frame) - 23)
    BY <2>1, <1>1a, RestAt
  <2>3. QED
    BY <2>1, <2>2
<1> HIDE DEF payload
<1>14. Messages(payload) = messages
  <2>2. \A k \in 1..3 + 25 * n : payload[k] = frame[23 + k]
    BY <1>13 DEF IsPart
  <2>3. payload[1] = 240 /\ payload[2] = 25 /\ payload[3] = n
    <3>1. 1 \in 1..3 + 25 * n /\ 2 \in 1..3 + 25 * n /\ 3 \in 1..3 + 25 * n
      OBVIOUS
    <3>2. payload[1] = frame[23 + 1] /\ payload[2] = frame[23 + 2] /\ payload[3] = frame[23 + 3]
      BY <3>1, <2>2
    <3>3. QED
      BY <3>2, <1>1
  <2>4. \A k \in 1..25 * n : payload[3 + k] = Body(messages)[k]
    <3>1. \A k \in 1..25 * n : 3 + k \in 1..3 + 25 * n /\ 23 + (3 + k) = 26 + k
      OBVIOUS
    <3>2. \A k \in 1..25 * n : payload[3 + k] = frame[26 + k]
      BY <3>1, <2>2
    <3>3. QED
      BY <3>2, <1>1
  <2>5. IsPackOf(payload, n, messages)
    BY <2>3, <2>4, <1>13 DEF IsPart, IsPackOf
  <2>6. QED
    BY <2>5, PackWhole
<1>15. QED
  BY <1>4, <1>12, <1>14 DEF frame

\* What a message adds to the ID of a contact.
IdOf(msg) ==
  IF odid_message_type(msg) = 0
  THEN {[uas_id |-> i.uas_id, ua_type |-> Label(i.ua_type)] : i \in odid_decode_basic_id(msg)}
  ELSE {}

LEMMA MergedId ==
  ASSUME NEW contact, "id" \in DOMAIN contact, NEW msg
  PROVE  "id" \in DOMAIN Merge(contact, msg) /\ Merge(contact, msg).id = Or(IdOf(msg), contact.id)
<1> DEFINE id == {[uas_id |-> i.uas_id, ua_type |-> Label(i.ua_type)] : i \in odid_decode_basic_id(msg)}
           location == odid_decode_location(msg)
           position == {<<l.lat, l.lon, l.speed>> : l \in location}
           altitude == UNION {l.altitude : l \in location}
           height == UNION {l.height : l \in location}
<1>1. Merge(contact, msg) =
        CASE odid_message_type(msg) = 0 -> [contact EXCEPT !.id = Or(id, @)]
          [] odid_message_type(msg) = 1 ->
               [contact EXCEPT !.position = Or(position, @), !.altitude = Or(altitude, @),
                               !.height = Or(height, @)]
          [] OTHER -> contact
  BY DEF Merge
<1> HIDE DEF position, altitude, height
<1>2. CASE odid_message_type(msg) = 0
  <2>1. IdOf(msg) = id
    BY <1>2 DEF IdOf
  <2> HIDE DEF id
  <2>2. Merge(contact, msg) = [contact EXCEPT !.id = Or(id, @)]
    BY <1>1, <1>2
  <2>3. QED
    BY <2>1, <2>2
<1>3. CASE odid_message_type(msg) # 0
  <2>1. IdOf(msg) = {}
    BY <1>3 DEF IdOf
  <2>2. Or({}, contact.id) = contact.id
    BY DEF Or
  <2> HIDE DEF id
  <2>3. "id" \in DOMAIN Merge(contact, msg) /\ Merge(contact, msg).id = contact.id
    BY <1>1, <1>3
  <2>4. QED
    BY <2>1, <2>2, <2>3
<1>4. QED
  BY <1>2, <1>3

LEMMA SentSays ==
  ASSUME Spelled, NEW msg \in Sent
  PROVE  /\ msg \in Message
         /\ \A u \in Uas \cup {NA} :
              msg = Basic[u] => IdOf(msg) # {} /\ \A id \in IdOf(msg) : id.uas_id = Text[u]
         /\ (\A u \in Uas \cup {NA} : msg # Basic[u]) => IdOf(msg) = {}
<1>1. msg \in Message
  BY DEF Spelled, Sent
<1>2. ASSUME NEW u \in Uas \cup {NA}, msg = Basic[u]
      PROVE  IdOf(msg) # {} /\ \A id \in IdOf(msg) : id.uas_id = Text[u]
  <2> DEFINE ids == odid_decode_basic_id(msg)
  <2>1. odid_message_type(msg) = 0 /\ {id.uas_id : id \in ids} = {Text[u]}
    BY <1>2 DEF Spelled
  <2>2. IdOf(msg) = {[uas_id |-> i.uas_id, ua_type |-> Label(i.ua_type)] : i \in ids}
    BY <2>1 DEF IdOf
  <2> HIDE DEF ids
  <2>3. \A i \in ids : i.uas_id = Text[u]
    BY <2>1
  <2>4. ids # {}
    BY <2>1
  <2>5. IdOf(msg) # {}
    BY <2>2, <2>4
  <2>6. \A id \in IdOf(msg) : id.uas_id = Text[u]
    BY <2>2, <2>3
  <2>7. QED
    BY <2>5, <2>6
<1>3. ASSUME \A u \in Uas \cup {NA} : msg # Basic[u] PROVE IdOf(msg) = {}
  <2>1. msg \in Others
    BY <1>3 DEF Sent
  <2>2. odid_message_type(msg) = 0 => odid_decode_basic_id(msg) = {}
    BY <2>1 DEF Spelled
  <2>3. QED
    BY <2>2 DEF IdOf
<1>4. QED
  BY <1>1, <1>2, <1>3

\* A contact has the name of one of its messages, and one if any of them has.
LEMMA NamedByMessage ==
  ASSUME Spelled, NEW n \in Nat, NEW messages \in [1..n -> Sent]
  PROVE  /\ \A u \in NamesOf(Contact(messages)) : \E j \in 1..n : messages[j] = Basic[u]
         /\ Contact(messages).id = {} =>
              \A u \in Uas \cup {NA} : \A j \in 1..n : messages[j] # Basic[u]
<1>1. PICK f : /\ f[0] = Nothing
               /\ f[n] = Contact(messages)
               /\ \A k \in 1..n : f[k] = Merge(f[k - 1], messages[k])
  <2>1. DOMAIN messages = 1..n
    OBVIOUS
  <2>2. QED
    BY <2>1, ContactSteps
<1> DEFINE Said(k) ==
             \A id \in f[k].id : \E j \in 1..k : \E u \in Uas \cup {NA} :
               messages[j] = Basic[u] /\ id.uas_id = Text[u]
           Silent(k) ==
             f[k].id = {} => \A u \in Uas \cup {NA} : \A j \in 1..k : messages[j] # Basic[u]
           S == {k \in 0..n : "id" \in DOMAIN f[k] /\ Said(k) /\ Silent(k)}
<1>2. 0 \in S
  <2>1. f[0].id = {} /\ "id" \in DOMAIN f[0]
    BY <1>1 DEF Nothing
  <2>2. 1..0 = {} /\ 0 \in 0..n
    OBVIOUS
  <2>3. QED
    BY <2>1, <2>2
<1>3. ASSUME NEW k \in 1..n, k - 1 \in S PROVE k \in S
  <2>1. k \in 0..n /\ 1..k = (1..(k - 1)) \cup {k} /\ k \in 1..k
    OBVIOUS
  <2>2. "id" \in DOMAIN f[k - 1] /\ Said(k - 1) /\ Silent(k - 1)
    BY <1>3
  <2>3. "id" \in DOMAIN f[k] /\ f[k].id = Or(IdOf(messages[k]), f[k - 1].id)
    BY <2>2, <1>1, MergedId
  <2>4. messages[k] \in Sent
    OBVIOUS
  <2> DEFINE msg == messages[k]
             new == IdOf(msg)
             old == f[k - 1].id
  <2> HIDE DEF S
  <2>5. /\ \A u \in Uas \cup {NA} : msg = Basic[u] => new # {} /\ \A id \in new : id.uas_id = Text[u]
        /\ (\A u \in Uas \cup {NA} : msg # Basic[u]) => new = {}
    BY <2>4, SentSays
  <2>6. f[k].id = Or(new, old)
    BY <2>3
  <2>7. CASE new = {}
    <3>1. f[k].id = old
      BY <2>6, <2>7 DEF Or
    <3>2. \A u \in Uas \cup {NA} : msg # Basic[u]
      BY <2>5, <2>7
    <3> HIDE DEF new, old
    <3>3. Said(k)
      BY <3>1, <2>1, <2>2 DEF old
    <3>4. Silent(k)
      BY <3>1, <3>2, <2>1, <2>2 DEF old
    <3>5. QED
      BY <3>3, <3>4, <2>1, <2>3 DEF S
  <2>8. CASE new # {}
    <3>1. f[k].id = new
      BY <2>6, <2>8 DEF Or
    <3>2. PICK u \in Uas \cup {NA} : msg = Basic[u]
      BY <2>5, <2>8
    <3>3. \A id \in new : id.uas_id = Text[u]
      BY <3>2, <2>5
    <3> HIDE DEF new, old
    <3>4. Said(k)
      BY <3>1, <3>2, <3>3, <2>1
    <3>5. Silent(k)
      BY <3>1, <2>8
    <3>6. QED
      BY <3>4, <3>5, <2>1, <2>3 DEF S
  <2>9. QED
    BY <2>7, <2>8
<1>4. n \in S
  <2> HIDE DEF S
  <2>1. \A k \in 0..n : k \in S
    BY <1>2, <1>3, UpTo
  <2>2. QED
    BY <2>1
<1>5. Said(n) /\ Silent(n)
  BY <1>4
<1>6. ASSUME NEW u \in NamesOf(Contact(messages))
      PROVE  \E j \in 1..n : messages[j] = Basic[u]
  <2>1. PICK id \in f[n].id : id.uas_id = Text[u]
    BY <1>1, <1>6 DEF NamesOf
  <2>2. PICK j \in 1..n, v \in Uas \cup {NA} : messages[j] = Basic[v] /\ id.uas_id = Text[v]
    BY <1>5, <2>1
  <2>3. u \in Uas \cup {NA}
    BY DEF NamesOf
  <2>4. u = v
    BY <2>1, <2>2, <2>3 DEF Spelled
  <2>5. QED
    BY <2>2, <2>4
<1>7. QED
  BY <1>1, <1>5, <1>6

\* The decoder finds the names that are carried, and no others.
NamesDecoded ==
  \A h \in Advertised \cup Framed :
    NamesOf(h.contact) \subseteq h.carried /\ (h.contact.id = {} => h.carried = {})

LEMMA EveryNameDecoded == Spelled => NamesDecoded
<1> SUFFICES ASSUME Spelled PROVE NamesDecoded
  OBVIOUS
<1>1. ASSUME NEW h, NEW n \in Nat, NEW messages \in [1..n -> Sent],
             h.carried = Carried(messages), h.contact = Contact(messages)
      PROVE  NamesOf(h.contact) \subseteq h.carried /\ (h.contact.id = {} => h.carried = {})
  <2>1. DOMAIN messages = 1..n
    OBVIOUS
  <2>2. /\ \A u \in NamesOf(Contact(messages)) : \E j \in 1..n : messages[j] = Basic[u]
        /\ Contact(messages).id = {} =>
             \A u \in Uas \cup {NA} : \A j \in 1..n : messages[j] # Basic[u]
    BY NamedByMessage
  <2>3. \A u \in NamesOf(Contact(messages)) : u \in Uas \cup {NA}
    BY DEF NamesOf
  <2>4. QED
    BY <1>1, <2>1, <2>2, <2>3 DEF Carried
<1>2. ASSUME NEW h \in Advertised
      PROVE  NamesOf(h.contact) \subseteq h.carried /\ (h.contact.id = {} => h.carried = {})
  <2> DEFINE Of(mac, msg) ==
               {[mac |-> mac, carried |-> Carried(<<msg>>), contact |-> Contact(<<message>>)] :
                  message \in odid_ble_extract(Advertisement(msg))}
  <2>0. Advertised = UNION {Of(mac, msg) : mac \in Macs, msg \in Sent}
    BY DEF Advertised
  <2> HIDE DEF Of
  <2>1. PICK mac \in Macs, msg \in Sent : h \in Of(mac, msg)
    BY <2>0
  <2>2. msg \in Message
    BY SentSays
  <2>3. odid_ble_extract(Advertisement(msg)) = {msg}
    BY <2>2, ReportedWhole
  <2>4. h = [mac |-> mac, carried |-> Carried(<<msg>>), contact |-> Contact(<<msg>>)]
    BY <2>1, <2>3 DEF Of
  <2>5. h.carried = Carried(<<msg>>) /\ h.contact = Contact(<<msg>>)
    BY <2>4
  <2>6. <<msg>> \in [1..1 -> Sent] /\ 1 \in Nat
    OBVIOUS
  <2>7. QED
    BY <2>5, <2>6, <1>1
<1>3. ASSUME NEW h \in Framed
      PROVE  NamesOf(h.contact) \subseteq h.carried /\ (h.contact.id = {} => h.carried = {})
  <2>1. PICK mac \in Macs, messages \in {<<msg>> : msg \in Sent} \cup (Sent \X Sent) :
          h \in {[mac |-> m, carried |-> Carried(messages), contact |-> contact] :
                   m \in {k \in Macs : Address[k] \in wifi_rid_transmitter(Beacon(Address[mac], messages))},
                   contact \in FrameContact(Beacon(Address[mac], messages))}
    BY DEF Framed
  <2>2. \E n \in 1..2 : messages \in [1..n -> Sent] /\ Len(messages) = n
    <3>1. CASE messages \in {<<msg>> : msg \in Sent}
      <4>1. messages \in [1..1 -> Sent] /\ Len(messages) = 1
        BY <3>1
      <4>2. QED
        BY <4>1
    <3>2. CASE messages \in Sent \X Sent
      <4>1. messages \in [1..2 -> Sent] /\ Len(messages) = 2
        BY <3>2
      <4>2. QED
        BY <4>1
    <3>3. QED
      BY <3>1, <3>2
  <2>3. PICK n \in 1..2 : messages \in [1..n -> Sent] /\ Len(messages) = n
    BY <2>2
  <2>4. messages \in [1..n -> Message]
    BY <2>3, SentSays
  <2>5. FrameContact(Beacon(Address[mac], messages)) = {Contact(messages)} \ {Nothing}
    BY <2>3, <2>4, FramedWhole DEF Spelled
  <2>6. h.carried = Carried(messages) /\ h.contact = Contact(messages)
    BY <2>1, <2>5
  <2>7. n \in Nat
    OBVIOUS
  <2>8. QED
    BY <2>3, <2>6, <2>7, <1>1
<1>4. QED
  BY <1>2, <1>3 DEF NamesDecoded

-----------------------------------------------------------------------------
(* The board uses the cache as IdentitySlots says, so what is proved of the  *)
(* cache holds of the board.                                                 *)

LEMMA HeardFromAddress == ASSUME NEW h \in Heardable PROVE h.mac \in Macs
<1>1. CASE role = "ble"
  <2> DEFINE Of(mac, msg) ==
               {[mac |-> mac, carried |-> Carried(<<msg>>), contact |-> Contact(<<message>>)] :
                  message \in odid_ble_extract(Advertisement(msg))}
  <2>1. Heardable = UNION {Of(mac, msg) : mac \in Macs, msg \in Sent}
    BY <1>1 DEF Heardable, Advertised
  <2>2. ASSUME NEW mac \in Macs, NEW msg \in Sent, NEW g \in Of(mac, msg)
        PROVE  g.mac \in Macs
    <3>1. PICK message \in odid_ble_extract(Advertisement(msg)) :
            g = [mac |-> mac, carried |-> Carried(<<msg>>), contact |-> Contact(<<message>>)]
      OBVIOUS
    <3>2. QED
      BY <3>1
  <2> HIDE DEF Of
  <2>3. QED
    BY <2>1, <2>2
<1>2. CASE role # "ble"
  <2> DEFINE Frame(mac, messages) == Beacon(Address[mac], messages)
             Of(mac, messages) ==
               {[mac |-> m, carried |-> Carried(messages), contact |-> contact] :
                  m \in {n \in Macs : Address[n] \in wifi_rid_transmitter(Frame(mac, messages))},
                  contact \in FrameContact(Frame(mac, messages))}
             Packs == {<<msg>> : msg \in Sent} \cup (Sent \X Sent)
  <2>1. Heardable = UNION {Of(mac, messages) : mac \in Macs, messages \in Packs}
    BY <1>2 DEF Heardable, Framed
  <2> HIDE DEF Frame, Packs
  <2>2. \A mac \in Macs, messages \in Packs : \A g \in Of(mac, messages) : g.mac \in Macs
    OBVIOUS
  <2> HIDE DEF Of
  <2>3. QED
    BY <2>1, <2>2
<1>3. QED
  BY <1>1, <1>2

LEMMA HearRemembers ==
  ASSUME NEW h \in Heardable, Hear(h)
  PROVE  \E m \in Macs, u \in Uas \cup {NA} : Remember(m, u)
<1>1. PICK u \in NamesOf(h.contact) : identity_remember(h.mac, u)
  BY DEF Hear
<1>2. h.mac \in Macs /\ u \in Uas \cup {NA}
  BY HeardFromAddress DEF NamesOf
<1>3. UNCHANGED clocks
  BY DEF Hear
<1>4. Remember(h.mac, u)
  BY <1>1, <1>3 DEF Remember
<1>5. QED
  BY <1>2, <1>4

\* Whatever the radio hears, on either board, does to the cache what one call of
\* identity_remember does, or nothing: gap_callback and on_frame have no other way in.
THEOREM BoardImplementsSlots == Spec => SlotsSpec
<1>1. Init => InitSlots
  BY DEF Init
<1>2. [Next]_vars => [NextSlots]_slotVars
  BY HearRemembers DEF Next, NextSlots, vars
<1>3. QED
  BY <1>1, <1>2, PTL DEF Spec, SlotsSpec

\* So what the board infers is unambiguous, forgets no conflict and is not too old.
THEOREM BoardInfersSoundly ==
  Spec => [](UnambiguousUnlessFull /\ ConflictIsRemembered /\ AgeIsBounded)
  BY BoardImplementsSlots, Unambiguous, ConflictStays, AgeBound, PTL

\* Nothing is queued as a name but one that the same report or frame carried, or one
\* decoded from the same address before, and that is marked (report_detection, on_frame).
THEOREM QueuesWhatItHeard == Spelled => (Spec => []SaysWhatItHeard)
<1> SUFFICES ASSUME Spelled PROVE Spec => []SaysWhatItHeard
  OBVIOUS
<1>0. NamesDecoded
  BY EveryNameDecoded
<1>1. ASSUME IInv PROVE SaysWhatItHeard
  <2> SUFFICES ASSUME NEW h \in Heardable, NEW u \in Queued(h).uas_id
               PROVE  IF Queued(h).inferred THEN h.carried = {} /\ u \in Heard(h.mac)
                                            ELSE u \in h.carried
    BY DEF SaysWhatItHeard
  <2>1. NamesOf(h.contact) \subseteq h.carried /\ (h.contact.id = {} => h.carried = {})
    BY <1>0 DEF NamesDecoded, Heardable
  <2>2. CASE h.contact.id # {}
    BY <2>1, <2>2 DEF Queued
  <2>3. CASE h.contact.id = {}
    <3>1. u \in identity_recall(h.mac) /\ Queued(h).inferred
      BY <2>3 DEF Queued
    <3>2. TypeOK /\ SlotsSound /\ h.mac \in Macs
      BY <1>1, HeardFromAddress DEF IInv
    <3>3. PICK i \in Slots : entries[i].mac = h.mac /\ Usable(entries[i]) /\ u = entries[i].uas_id
      BY <3>1 DEF identity_recall, Find
    <3>4. u \in Heard(h.mac)
      BY <3>2, <3>3, IdentitySlotsAssumption DEF Usable, SlotsSound, Used
    <3>5. QED
      BY <2>1, <2>3, <3>1, <3>4
  <2>4. QED
    BY <2>2, <2>3
<1>2. QED
  BY <1>1, Invariant, BoardImplementsSlots, PTL

-----------------------------------------------------------------------------
(* The wire between the boards.                                            *)

LinkTypes == /\ sent \in Nat /\ good \in Nat /\ damage \in Nat
             /\ wire \in Seq(Bytes) /\ line \in Seq(Bytes) /\ Len(line) <= LineRoom

\* What is on the wire is as the sensor wrote it: whole lines, but for the first, of which
\* some has been read.
AsWritten ==
  \A i \in 1..Len(wire) :
    /\ wire[i] \in Heads \cup Jsons \cup {NL}
    /\ i = Len(wire) => wire[i] = NL
    /\ i < Len(wire) => /\ wire[i] \in Heads => /\ wire[i + 1] \in Jsons
                                                /\ wire[i + 1].n = wire[i].n
                                                /\ wire[i + 1].json = wire[i].kind
                        /\ wire[i] \in Jsons => wire[i + 1] = NL
                        /\ wire[i] = NL => wire[i + 1] \in Heads

\* What master_task has read of the current line is what the wire had before the rest.
InStep ==
  IF wire = <<>> THEN line = <<>>
  ELSE /\ wire[1] \in Heads => line = <<>>
       /\ wire[1] \in Jsons =>
            \E head \in Heads : /\ line = <<head>>
                                /\ head.n = wire[1].n /\ head.kind = wire[1].json
       /\ wire[1] = NL =>
            \E head \in Heads, json \in Jsons : /\ line = <<head, json>>
                                                /\ head.n = json.n /\ head.kind = json.json

\* A line sent is accepted, still to come, or lost to a fault; while the master is out of
\* step, so is the one that it is reading.
Astray == IF InStep THEN 0 ELSE 1
LinesAccounted == sent + Astray <= good + Cardinality(Newlines) + 2 * damage

LinkIInv == LinkTypes /\ AsWritten /\ LinesAccounted

LEMMA BytesApart ==
  /\ \A head \in Heads : head \notin Jsons /\ head # NL
  /\ \A json \in Jsons : json # NL
<1>1. ASSUME NEW head \in Heads, NEW json \in Jsons PROVE head # json
  <2>1. DOMAIN head = {"n", "kind"} /\ DOMAIN json = {"n", "json"}
    BY DEF Heads, Jsons
  <2>2. "kind" \in DOMAIN head /\ "kind" \notin DOMAIN json
    BY <2>1
  <2>3. QED
    BY <2>2
<1>2. QED
  BY <1>1, PeerLinkAssumption

LEMMA NewlinesFinite ==
  ASSUME wire \in Seq(Bytes)
  PROVE  IsFiniteSet(Newlines) /\ Cardinality(Newlines) \in Nat /\ Newlines \subseteq 1..Len(wire)
<1>1. Len(wire) \in Nat /\ DOMAIN wire = 1..Len(wire)
  OBVIOUS
<1>2. Newlines \subseteq 1..Len(wire)
  BY <1>1 DEF Newlines
<1>3. IsFiniteSet(1..Len(wire))
  BY <1>1, FS_Interval
<1>4. QED
  BY <1>2, <1>3, FS_Subset, FS_CardinalityType

\* Taking a byte from the wire leaves the rest as it was written, with a newline less if
\* that was one.
LEMMA TakenByte ==
  ASSUME wire \in Seq(Bytes), AsWritten, TakeByte
  PROVE  /\ Len(wire) \in Nat \ {0} /\ Head(wire) = wire[1]
         /\ wire' \in Seq(Bytes) /\ Len(wire') = Len(wire) - 1
         /\ \A i \in 1..Len(wire') : wire'[i] = wire[i + 1]
         /\ AsWritten'
         /\ Cardinality(Newlines') \in Nat
         /\ Cardinality(Newlines) = Cardinality(Newlines') + (IF wire[1] = NL THEN 1 ELSE 0)
<1>1. wire # <<>> /\ wire' = Tail(wire)
  BY DEF TakeByte
<1>2. /\ Len(wire) \in Nat \ {0} /\ Head(wire) = wire[1]
      /\ wire' \in Seq(Bytes) /\ Len(wire') = Len(wire) - 1
      /\ \A i \in 1..Len(wire') : wire'[i] = wire[i + 1]
  BY <1>1
<1>3. AsWritten'
  <2>1. ASSUME NEW i \in 1..Len(wire')
        PROVE  /\ i + 1 \in 1..Len(wire) /\ wire'[i] = wire[i + 1]
               /\ i = Len(wire') => i + 1 = Len(wire)
               /\ i < Len(wire') => i + 1 < Len(wire) /\ wire'[i + 1] = wire[(i + 1) + 1]
    <3>1. i \in Nat /\ 1 <= i /\ i <= Len(wire) - 1 /\ Len(wire') = Len(wire) - 1
      BY <1>2
    <3>2. i < Len(wire') => i + 1 \in 1..Len(wire')
      BY <1>2, <3>1
    <3>3. QED
      BY <1>2, <3>1, <3>2
  <2>2. QED
    BY <2>1 DEF AsWritten
<1>4. DOMAIN wire = 1..Len(wire) /\ DOMAIN wire' = 1..Len(wire')
  BY <1>2
<1>5. IsFiniteSet(Newlines) /\ IsFiniteSet(Newlines') /\ Cardinality(Newlines') \in Nat
  <2>1. IsFiniteSet(1..Len(wire'))
    BY <1>2, FS_Interval
  <2>2. Newlines' \subseteq 1..Len(wire')
    BY <1>4 DEF Newlines
  <2>3. QED
    BY <2>1, <2>2, NewlinesFinite, FS_Subset, FS_CardinalityType
<1>6. Cardinality(Newlines') = Cardinality(Newlines \ {1})
  <2> DEFINE f == [i \in Newlines' |-> i + 1]
  <2>1. \A i \in Newlines' : i \in 1..Len(wire') /\ i + 1 \in Newlines \ {1}
    BY <1>2, <1>4 DEF Newlines
  <2>2. \A j \in Newlines \ {1} : j - 1 \in Newlines' /\ j = (j - 1) + 1
    BY <1>2, <1>4 DEF Newlines
  <2>3. f \in [Newlines' -> Newlines \ {1}]
    BY <2>1
  <2>4. \A i, j \in Newlines' : f[i] = f[j] => i = j
    BY <2>1
  <2>5. \A j \in Newlines \ {1} : \E i \in Newlines' : f[i] = j
    BY <2>2
  <2> HIDE DEF f
  <2>6. f \in Bijection(Newlines', Newlines \ {1})
    BY <2>3, <2>4, <2>5, Fun_IsBij
  <2>7. ExistsBijection(Newlines', Newlines \ {1})
    BY <2>6 DEF ExistsBijection
  <2>8. QED
    BY <1>5, <2>7, FS_Bijection
<1>7. 1 \in Newlines <=> wire[1] = NL
  BY <1>2, <1>4 DEF Newlines
<1>8. Cardinality(Newlines) \in Nat
  BY <1>5, FS_CardinalityType
<1>9. Cardinality(Newlines \ {1}) = IF 1 \in Newlines THEN Cardinality(Newlines) - 1 ELSE Cardinality(Newlines)
  BY <1>5, FS_RemoveElement
<1>10. QED
  BY <1>2, <1>3, <1>5, <1>6, <1>7, <1>8, <1>9

\* The line is in the buffer as it was read.
LEMMA ReadInStep ==
  ASSUME LinkTypes, AsWritten, InStep, Arrive
  PROVE  /\ InStep' /\ good' = good + (IF wire[1] = NL THEN 1 ELSE 0)
         /\ line' \in Seq(Bytes) /\ Len(line') <= LineRoom
<1>1. /\ Len(wire) \in Nat \ {0} /\ Head(wire) = wire[1] /\ Len(wire') = Len(wire) - 1
      /\ \A i \in 1..Len(wire') : wire'[i] = wire[i + 1]
      /\ wire # <<>> /\ wire' \in Seq(Bytes) /\ Read(wire[1])
  BY TakenByte DEF Arrive, LinkTypes, TakeByte
<1>2. /\ wire[1] \in Heads \cup Jsons \cup {NL}
      /\ wire[1] # NL => Len(wire) # 1
      /\ Len(wire) # 1 => /\ wire[1] \in Heads => /\ wire[2] \in Jsons /\ wire[2].n = wire[1].n
                                                  /\ wire[2].json = wire[1].kind
                          /\ wire[1] \in Jsons => wire[2] = NL
                          /\ wire[1] = NL => wire[2] \in Heads
  <2>1. 1 \in 1..Len(wire) /\ (Len(wire) # 1 => 1 < Len(wire)) /\ 1 + 1 = 2
    BY <1>1
  <2>2. QED
    BY <2>1 DEF AsWritten
<1>3. Len(wire) # 1 => wire' # <<>> /\ wire'[1] = wire[2]
  <2>1. Len(wire) # 1 => Len(wire') # 0 /\ 1 \in 1..Len(wire')
    BY <1>1
  <2>2. 1 + 1 = 2
    OBVIOUS
  <2>3. QED
    BY <1>1, <2>1, <2>2
<1>4. Len(wire) = 1 => wire' = <<>>
  BY <1>1
<1>5. LineRoom \in Nat /\ LineRoom >= 2
  BY PeerLinkAssumption
<1>6. CASE wire[1] \in Heads
  <2>1. line = <<>> /\ wire[1] # NL /\ wire'[1] \in Jsons /\ wire' # <<>>
        /\ wire'[1].n = wire[1].n /\ wire'[1].json = wire[1].kind
    BY <1>1, <1>2, <1>3, <1>6, BytesApart DEF InStep
  <2>2. Room /\ line' = <<wire[1]>> /\ good' = good
    BY <1>1, <1>5, <2>1 DEF Read, Room
  <2>3. line' \in Seq(Bytes) /\ Len(line') <= LineRoom
    BY <1>5, <1>6, <2>2 DEF Bytes
  <2>4. wire'[1] \notin Heads /\ wire'[1] # NL
    BY <2>1, BytesApart
  <2>5. InStep'
    BY <1>6, <2>1, <2>2, <2>4 DEF InStep
  <2>6. QED
    BY <2>1, <2>2, <2>3, <2>5 DEF LinkTypes
<1>7. CASE wire[1] \in Jsons
  <2>1. PICK head \in Heads : line = <<head>> /\ head.n = wire[1].n /\ head.kind = wire[1].json
    BY <1>1, <1>7 DEF InStep
  <2>2. wire[1] # NL /\ wire[1] \notin Heads /\ wire'[1] = NL /\ wire' # <<>>
    BY <1>2, <1>3, <1>7, BytesApart
  <2>3. Room /\ line' = <<head, wire[1]>> /\ good' = good
    BY <1>1, <1>5, <2>1, <2>2 DEF Read, Room
  <2>4. line' \in Seq(Bytes) /\ Len(line') <= LineRoom
    BY <1>5, <1>7, <2>3 DEF Bytes
  <2>5. NL \notin Heads /\ NL \notin Jsons
    BY BytesApart
  <2>6. InStep'
    BY <1>7, <2>1, <2>2, <2>3, <2>5 DEF InStep
  <2>7. QED
    BY <2>2, <2>3, <2>4, <2>6 DEF LinkTypes
<1>8. CASE wire[1] = NL
  <2>1. PICK head \in Heads, json \in Jsons : /\ line = <<head, json>>
                                              /\ head.n = json.n /\ head.kind = json.json
    BY <1>1, <1>8 DEF InStep
  <2>2. Whole(head, json) /\ line # <<>>
    BY <2>1 DEF Whole
  <2>3. \A h \in Heads, j \in Jsons : Whole(h, j) => h = head /\ j = json
    BY <2>1 DEF Whole
  <2>4. handle_line /\ line' = <<>>
    BY <1>1, <1>8, <2>2 DEF Read, StartsAfresh
  <2>5. \E h \in Heads, j \in Jsons : Accepted(h, j)
    BY <2>2, <2>4 DEF handle_line, Rejected
  <2>6. good' = good + 1
    BY <2>1, <2>3, <2>5 DEF Accepted
  <2>7. wire' = <<>> \/ (wire' # <<>> /\ wire'[1] \in Heads /\ wire'[1] \notin Jsons /\ wire'[1] # NL)
    BY <1>2, <1>3, <1>4, <1>8, BytesApart
  <2>8. InStep'
    BY <2>4, <2>7 DEF InStep
  <2>9. line' \in Seq(Bytes) /\ Len(line') <= LineRoom
    BY <1>5, <2>4
  <2>10. QED
    BY <1>8, <2>6, <2>8, <2>9
<1>9. QED
  BY <1>2, <1>6, <1>7, <1>8

\* Whatever is read, the buffer keeps its size and no accepted line is forgotten; a newline
\* empties the buffer.
LEMMA ReadKeeps ==
  ASSUME LinkTypes, NEW byte \in Bytes, Read(byte)
  PROVE  /\ line' \in Seq(Bytes) /\ Len(line') <= LineRoom
         /\ good' \in {good, good + 1} /\ sent' = sent
         /\ byte = NL => line' = <<>>
<1>1. LineRoom \in Nat
  BY PeerLinkAssumption
<1>2. sent' = sent
  BY DEF Read
<1>3. CASE byte = NL /\ line # <<>>
  <2>1. handle_line /\ line' = <<>>
    BY <1>3 DEF Read, StartsAfresh
  <2>2. good' \in {good, good + 1}
    BY <2>1 DEF handle_line, Rejected, Accepted
  <2>3. QED
    BY <1>1, <1>2, <2>1, <2>2
<1>4. CASE byte = NL /\ line = <<>>
  BY <1>1, <1>2, <1>4 DEF Read, master
<1>5. CASE byte # NL /\ Room
  <2>1. line' = Append(line, byte) /\ good' = good /\ Len(line) < LineRoom
    BY <1>5 DEF Read, Room
  <2>2. QED
    BY <1>1, <1>2, <1>5, <2>1 DEF LinkTypes
<1>6. CASE byte # NL /\ ~ Room
  <2>1. line' = <<>> /\ good' = good
    BY <1>6 DEF Read
  <2>2. QED
    BY <1>1, <1>2, <1>6, <2>1
<1>7. QED
  BY <1>3, <1>4, <1>5, <1>6

LEMMA ArriveIInv == ASSUME LinkIInv, Arrive PROVE LinkIInv'
<1> DEFINE lost == IF wire[1] = NL THEN 1 ELSE 0
<1>1. /\ LinkTypes /\ AsWritten /\ TakeByte /\ Read(wire[1]) /\ damage' = damage
      /\ wire' \in Seq(Bytes) /\ AsWritten' /\ Cardinality(Newlines') \in Nat
      /\ Cardinality(Newlines) = Cardinality(Newlines') + lost
      /\ wire # <<>> /\ wire[1] \in Bytes
  BY TakenByte DEF Arrive, LinkIInv, LinkTypes, TakeByte
<1>2. line' \in Seq(Bytes) /\ Len(line') <= LineRoom /\ good' \in {good, good + 1} /\ sent' = sent
  BY <1>1, ReadKeeps
<1>3. LinkTypes'
  BY <1>1, <1>2 DEF LinkTypes
<1>4. LinesAccounted'
  <2>1. CASE InStep
    <3>1. Astray = 0 /\ Astray' = 0 /\ good' = good + lost
      BY <1>1, <2>1, ReadInStep DEF Astray
    <3>2. QED
      BY <1>1, <1>2, <3>1 DEF LinkIInv, LinesAccounted, LinkTypes
  <2>2. CASE ~ InStep /\ wire[1] # NL
    <3>1. Astray = 1 /\ Astray' \in {0, 1}
      BY <2>2 DEF Astray
    <3>2. QED
      BY <1>1, <1>2, <2>2, <3>1 DEF LinkIInv, LinesAccounted, LinkTypes
  <2>3. CASE ~ InStep /\ wire[1] = NL
    <3>1. line' = <<>>
      BY <1>1, <2>3, ReadKeeps
    <3>2. wire' = <<>> \/ (wire' # <<>> /\ wire'[1] \in Heads)
      <4>1. CASE Len(wire) = 1
        BY <1>1, <4>1, TakenByte DEF LinkTypes
      <4>2. CASE Len(wire) # 1
        <5>1. 1 \in 1..Len(wire) /\ 1 < Len(wire) /\ 1 \in 1..Len(wire') /\ 1 + 1 = 2
          BY <1>1, <4>2, TakenByte DEF LinkTypes
        <5>2. wire[2] \in Heads
          BY <1>1, <2>3, <5>1 DEF AsWritten
        <5>3. wire'[1] = wire[2] /\ wire' # <<>>
          BY <1>1, <5>1, TakenByte DEF LinkTypes
        <5>4. QED
          BY <5>2, <5>3
      <4>3. QED
        BY <4>1, <4>2
    <3>3. InStep'
      BY <3>1, <3>2, BytesApart DEF InStep
    <3>4. Astray = 1 /\ Astray' = 0
      BY <2>3, <3>3 DEF Astray
    <3>5. QED
      BY <1>1, <1>2, <2>3, <3>4 DEF LinkIInv, LinesAccounted, LinkTypes
  <2>4. QED
    BY <2>1, <2>2, <2>3
<1>5. QED
  BY <1>1, <1>3, <1>4 DEF LinkIInv

LEMMA FaultCosts ==
  ASSUME NEW s \in Nat, NEW g \in Nat, NEW n \in Nat, NEW d \in Nat, NEW m,
         NEW one \in {0, 1}, NEW before \in {0, 1}, NEW after \in {0, 1},
         m = n + one, s + before <= g + m + 2 * d
  PROVE  s + after <= g + n + 2 * (d + 1)
  BY Z3

\* A fault costs the line it hits and the one that it may join to it.
LEMMA DamageIInv == ASSUME LinkIInv, Garbled \/ Lost PROVE LinkIInv'
<1> DEFINE lost == IF wire[1] = NL THEN 1 ELSE 0
<1>1. /\ LinkTypes /\ AsWritten /\ TakeByte /\ damage' = damage + 1
      /\ wire' \in Seq(Bytes) /\ AsWritten' /\ Cardinality(Newlines') \in Nat
      /\ Cardinality(Newlines) = Cardinality(Newlines') + lost
      /\ wire # <<>> /\ Head(wire) \in Bytes
  BY TakenByte DEF Garbled, Lost, LinkIInv, LinkTypes, TakeByte
<1>2. line' \in Seq(Bytes) /\ Len(line') <= LineRoom /\ good' \in {good, good + 1} /\ sent' = sent
  <2>1. CASE Lost
    BY <2>1 DEF Lost, master, LinkIInv, LinkTypes
  <2>2. CASE Garbled
    <3>1. PICK byte \in Garbles(Head(wire)) : Read(byte)
      BY <2>2 DEF Garbled
    <3>2. byte \in Bytes
      BY <3>1 DEF Garbles, Bytes
    <3>3. QED
      BY <1>1, <3>1, <3>2, ReadKeeps
  <2>3. QED
    BY <2>1, <2>2
<1>3. LinkTypes'
  BY <1>1, <1>2 DEF LinkTypes
<1>4. lost \in {0, 1}
  OBVIOUS
<1> HIDE DEF lost
<1>5. LinesAccounted'
  <2>1. Astray \in {0, 1} /\ Astray' \in {0, 1}
    BY DEF Astray
  <2> DEFINE before == Cardinality(Newlines)
             after == Cardinality(Newlines)'
  <2>2. /\ before = after + lost /\ after \in Nat
        /\ sent + Astray <= good + before + 2 * damage
    BY <1>1 DEF LinkIInv, LinesAccounted
  <2>3. sent \in Nat /\ good \in Nat /\ damage \in Nat
    BY <1>1 DEF LinkTypes
  <2> HIDE DEF before, after
  <2>4. sent + Astray' <= good + after + 2 * (damage + 1)
    BY <1>4, <2>1, <2>2, <2>3, FaultCosts
  <2>5. sent + Astray' <= good' + after + 2 * damage'
    <3>1. CASE good' = good
      BY <1>1, <2>4, <3>1
    <3>2. CASE good' = good + 1
      <4>1. sent + Astray' \in Int /\ good + after + 2 * (damage + 1) \in Int
        BY <2>1, <2>2, <2>3
      <4>2. good' + after + 2 * damage' = good + after + 2 * (damage + 1) + 1
        BY <1>1, <2>2, <2>3, <3>2
      <4>3. QED
        BY <2>4, <4>1, <4>2
    <3>3. QED
      BY <1>2, <3>1, <3>2
  <2>6. QED
    BY <1>2, <2>5 DEF LinesAccounted, after
<1>6. QED
  BY <1>1, <1>3, <1>5 DEF LinkIInv

LEMMA LineCosts ==
  ASSUME NEW s \in Nat, NEW g \in Nat, NEW n \in Nat, NEW d \in Nat, NEW m,
         NEW before \in {0, 1}, NEW after \in {0, 1}, after <= before,
         m = n + 1, s + before <= g + n + 2 * d
  PROVE  (s + 1) + after <= g + m + 2 * d
  BY Z3

LEMMA SendLineIInv == ASSUME LinkIInv, NEW kind \in Kinds, SendLine(kind) PROVE LinkIInv'
<1> DEFINE head == [n |-> sent + 1, kind |-> kind]
           json == [n |-> sent + 1, json |-> kind]
           len == Len(wire)
<1>1. /\ LinkTypes /\ AsWritten /\ sent < MaxLines /\ sent' = sent + 1
      /\ wire' = wire \o <<head, json, NL>>
      /\ line' = line /\ good' = good /\ damage' = damage
  BY DEF SendLine, master, LinkIInv
<1>2. /\ head \in Heads /\ json \in Jsons /\ json.n = head.n /\ json.json = head.kind
      /\ head \in Bytes /\ json \in Bytes /\ NL \in Bytes
  <2>1. sent + 1 \in 1..MaxLines
    BY <1>1, PeerLinkAssumption DEF LinkTypes
  <2>2. QED
    BY <2>1 DEF Heads, Jsons, Bytes
<1> HIDE DEF head, json
<1>3. /\ len \in Nat /\ Len(wire') = len + 3 /\ wire' \in Seq(Bytes) /\ wire' # <<>>
      /\ \A i \in 1..len : wire'[i] = wire[i]
      /\ wire'[len + 1] = head /\ wire'[len + 2] = json /\ wire'[len + 3] = NL
  BY <1>1, <1>2 DEF LinkTypes
<1> HIDE DEF len
<1>4. AsWritten'
  <2> SUFFICES ASSUME NEW i \in 1..(len + 3)
               PROVE  /\ wire'[i] \in Heads \cup Jsons \cup {NL}
                      /\ i = len + 3 => wire'[i] = NL
                      /\ i < len + 3 =>
                           /\ wire'[i] \in Heads => /\ wire'[i + 1] \in Jsons
                                                    /\ wire'[i + 1].n = wire'[i].n
                                                    /\ wire'[i + 1].json = wire'[i].kind
                           /\ wire'[i] \in Jsons => wire'[i + 1] = NL
                           /\ wire'[i] = NL => wire'[i + 1] \in Heads
    BY <1>3 DEF AsWritten
  <2>1. CASE i \in 1..len /\ i # len
    <3>1. i + 1 \in 1..len /\ i < len
      BY <1>3, <2>1
    <3>2. wire'[i] = wire[i] /\ wire'[i + 1] = wire[i + 1] /\ i # len + 3
      BY <1>3, <2>1, <3>1
    <3>3. QED
      BY <1>1, <2>1, <3>1, <3>2 DEF AsWritten, len
  <2>2. CASE i = len
    <3>1. i \in 1..len /\ i < len + 3 /\ i # len + 3
      BY <1>3, <2>2
    <3>2. wire'[i] = NL
      BY <1>1, <1>3, <2>2, <3>1 DEF AsWritten, len
    <3>3. QED
      BY <1>2, <1>3, <2>2, <3>1, <3>2, BytesApart
  <2>3. CASE i = len + 1
    <3>1. i + 1 = len + 2 /\ i # len + 3
      BY <1>3, <2>3
    <3>2. QED
      BY <1>2, <1>3, <2>3, <3>1, BytesApart
  <2>4. CASE i = len + 2
    <3>1. i + 1 = len + 3 /\ i # len + 3
      BY <1>3, <2>4
    <3>2. QED
      BY <1>2, <1>3, <2>4, <3>1, BytesApart
  <2>5. CASE i = len + 3
    <3>1. ~ (i < len + 3)
      BY <1>3, <2>5
    <3>2. QED
      BY <1>3, <2>5, <3>1
  <2>6. i \in 1..len \/ i = len + 1 \/ i = len + 2 \/ i = len + 3
    BY <1>3
  <2>7. QED
    BY <2>1, <2>2, <2>3, <2>4, <2>5, <2>6
<1>5. Cardinality(Newlines') = Cardinality(Newlines) + 1 /\ Cardinality(Newlines) \in Nat
  <2>1. DOMAIN wire = 1..len /\ DOMAIN wire' = 1..(len + 3)
    BY <1>1, <1>3 DEF LinkTypes, len
  <2>2. head # NL /\ json # NL
    BY <1>2, BytesApart
  <2>3. Newlines' = Newlines \cup {len + 3}
    <3>1. \A i \in 1..(len + 3) : i \in 1..len \/ i = len + 1 \/ i = len + 2 \/ i = len + 3
      BY <1>3
    <3>2. 1..len \subseteq 1..(len + 3) /\ len + 3 \in 1..(len + 3)
      BY <1>3
    <3>3. QED
      BY <1>3, <2>1, <2>2, <3>1, <3>2 DEF Newlines
  <2>4. len + 3 \notin Newlines
    BY <1>3, <2>1 DEF Newlines
  <2>5. IsFiniteSet(Newlines) /\ Cardinality(Newlines) \in Nat
    BY <1>1, NewlinesFinite DEF LinkTypes
  <2>6. QED
    BY <2>3, <2>4, <2>5, FS_AddElement
<1>6. InStep => InStep'
  <2>1. CASE wire = <<>>
    <3>1. wire'[1] = head
      BY <1>3, <2>1 DEF len
    <3>2. QED
      BY <1>1, <1>2, <1>3, <2>1, <3>1, BytesApart DEF InStep
  <2>2. CASE wire # <<>>
    <3>1. wire'[1] = wire[1]
      BY <1>1, <1>3, <2>2 DEF LinkTypes, len
    <3>2. QED
      BY <1>1, <1>3, <2>2, <3>1 DEF InStep
  <2>3. QED
    BY <2>1, <2>2
<1>7. LinkTypes'
  BY <1>1, <1>3 DEF LinkTypes
<1>8. LinesAccounted'
  <2>1. Astray \in {0, 1} /\ Astray' \in {0, 1} /\ Astray' <= Astray
    BY <1>6 DEF Astray
  <2> DEFINE before == Cardinality(Newlines)
             after == Cardinality(Newlines)'
  <2>2. /\ after = before + 1 /\ before \in Nat
        /\ sent + Astray <= good + before + 2 * damage
    BY <1>5 DEF LinkIInv, LinesAccounted
  <2>3. sent \in Nat /\ good \in Nat /\ damage \in Nat
    BY <1>1 DEF LinkTypes
  <2> HIDE DEF before, after
  <2>4. (sent + 1) + Astray' <= good + after + 2 * damage
    BY <2>1, <2>2, <2>3, LineCosts
  <2>5. QED
    BY <1>1, <2>4 DEF LinesAccounted, after
<1>9. QED
  BY <1>4, <1>7, <1>8 DEF LinkIInv

LEMMA ElsewhereIInv ==
  ASSUME LinkIInv, UNCHANGED <<sent, wire, line, good, damage>> PROVE LinkIInv'
  BY DEF LinkIInv, LinkTypes, AsWritten, LinesAccounted, Astray, InStep, Newlines

LEMMA LinkInitIInv == LinkInit => LinkIInv
<1> SUFFICES ASSUME LinkInit PROVE LinkIInv
  OBVIOUS
<1>1. sent = 0 /\ wire = <<>> /\ line = <<>> /\ good = 0 /\ damage = 0 /\ LineRoom \in Nat
  BY PeerLinkAssumption DEF LinkInit
<1>2. Newlines = {}
  BY <1>1 DEF Newlines
<1>3. Cardinality(Newlines) = 0
  BY <1>2, FS_EmptySet
<1>4. InStep
  BY <1>1 DEF InStep
<1>5. QED
  BY <1>1, <1>3, <1>4 DEF LinkIInv, LinkTypes, AsWritten, LinesAccounted, Astray

LEMMA LinkStepIInv == LinkIInv /\ [LinkNext]_linkVars => LinkIInv'
<1> SUFFICES ASSUME LinkIInv, [LinkNext]_linkVars PROVE LinkIInv'
  OBVIOUS
<1>1. CASE StatusInterval \/ Forward \/ reporting_task \/ NetworkUp \/ PostFails \/ NetworkDown
           \/ UNCHANGED linkVars
  <2>1. UNCHANGED <<sent, wire, line, good, damage>>
    BY <1>1 DEF StatusInterval, Forward, reporting_task, NetworkUp, PostFails, NetworkDown,
       OwnReports, NothingToFlush, Flush, Posted, Unreachable, Beat, Post, linkVars, sensor, master
  <2>2. QED
    BY <2>1, ElsewhereIInv
<1>2. QED
  BY <1>1, SendLineIInv, ArriveIInv, DamageIInv DEF LinkNext, master_task

\* handle_line costs the sensor no more than two lines for a byte lost or garbled, however
\* many are on the wire and whatever the master does meanwhile: the rest of what was sent is
\* accepted for what it is or has yet to come.
THEOREM DamageNeverSpreads == LinkSpec => []DamageIsBounded
<1>1. LinkSpec => []LinkIInv
  BY LinkInitIInv, LinkStepIInv, PTL DEF LinkSpec
<1>2. LinkIInv => DamageIsBounded
  <2> SUFFICES ASSUME LinkIInv PROVE sent <= good + LinesUnderWay + 2 * damage
    BY DEF DamageIsBounded
  <2>1. Cardinality(Newlines) \in Nat /\ Astray \in {0, 1}
    BY NewlinesFinite DEF LinkIInv, LinkTypes, Astray
  <2>2. LinesUnderWay \in {Cardinality(Newlines), Cardinality(Newlines) + 1}
    BY <2>1 DEF LinesUnderWay
  <2>3. QED
    BY <2>1, <2>2 DEF LinkIInv, LinkTypes, LinesAccounted
<1>3. QED
  BY <1>1, <1>2, PTL

-----------------------------------------------------------------------------
(* Contacts between the boards: where a contact can be, from the wire to the *)
(* server, and that it is in one place and behind all older ones.            *)

\* Every member of A is below every member of B.
Under(A, B) == \A a \in A, b \in B : a < b

\* What is nearer to the server is older: contacts stored, in a request, counted, behind
\* those, in hand, in the line being read and on the wire, none newer than n.
Sequel(A, B, C, D, E, F, G, n) ==
  /\ A \subseteq 1..n /\ B \subseteq 1..n /\ C \subseteq 1..n /\ D \subseteq 1..n
  /\ E \subseteq 1..n /\ F \subseteq 1..n /\ G \subseteq 1..n
  /\ Under(A, B) /\ Under(A, C) /\ Under(A, D) /\ Under(A, E) /\ Under(A, F) /\ Under(A, G)
  /\ Under(B, C) /\ Under(B, D) /\ Under(B, E) /\ Under(B, F) /\ Under(B, G)
  /\ Under(C, D) /\ Under(C, E) /\ Under(C, F) /\ Under(C, G)
  /\ Under(D, E) /\ Under(D, F) /\ Under(D, G)
  /\ Under(E, F) /\ Under(E, G)
  /\ Under(F, G)

\* A contact goes from one place to the next.
LEMMA SequelStored ==
  ASSUME NEW A, NEW B, NEW C, NEW D, NEW E, NEW F, NEW G, NEW n, Sequel(A, B, C, D, E, F, G, n),
         NEW a, a \subseteq A \cup B
  PROVE  Sequel(a, {}, C, D, E, F, G, n)
  BY DEF Sequel, Under

LEMMA SequelPosted ==
  ASSUME NEW A, NEW C, NEW D, NEW E, NEW F, NEW G, NEW n, Sequel(A, {}, C, D, E, F, G, n),
         NEW b, b \subseteq C \cup D
  PROVE  Sequel(A, b, {}, {}, E, F, G, n)
  BY DEF Sequel, Under

LEMMA SequelCounted ==
  ASSUME NEW A, NEW B, NEW C, NEW D, NEW E, NEW F, NEW G, NEW n, Sequel(A, B, C, D, E, F, G, n),
         NEW c, c \subseteq C \cup E
  PROVE  Sequel(A, B, c, {}, {}, F, G, n)
  BY DEF Sequel, Under

LEMMA SequelLeft ==
  ASSUME NEW A, NEW B, NEW C, NEW D, NEW E, NEW F, NEW G, NEW n, Sequel(A, B, C, D, E, F, G, n)
  PROVE  Sequel(A, B, C, E, {}, F, G, n)
  BY DEF Sequel, Under

LEMMA SequelTaken ==
  ASSUME NEW A, NEW B, NEW C, NEW D, NEW F, NEW G, NEW n, Sequel(A, B, C, D, {}, F, G, n),
         NEW e, e \subseteq F, NEW g, g \subseteq G
  PROVE  Sequel(A, B, C, D, e, {}, g, n)
  BY DEF Sequel, Under

LEMMA SequelRead ==
  ASSUME NEW A, NEW B, NEW C, NEW D, NEW E, NEW F, NEW G, NEW n, Sequel(A, B, C, D, E, F, G, n),
         NEW f, NEW g, NEW x, f \subseteq F \cup x, x \subseteq G, g \subseteq G, Under(x, g)
  PROVE  Sequel(A, B, C, D, E, f, g, n)
  BY DEF Sequel, Under

LEMMA SequelSent ==
  ASSUME NEW A, NEW B, NEW C, NEW D, NEW E, NEW F, NEW G, NEW n \in Nat,
         Sequel(A, B, C, D, E, F, G, n), NEW g, g \subseteq G \cup {n + 1}
  PROVE  Sequel(A, B, C, D, E, F, g, n + 1)
<1>1. \A S \in {A, B, C, D, E, F, G} : S \subseteq 1..(n + 1) /\ Under(S, {n + 1})
  BY DEF Sequel, Under
<1>2. g \subseteq 1..(n + 1)
  BY <1>1
<1>3. \A S \in {A, B, C, D, E, F} : Under(S, G) => Under(S, g)
  BY <1>1 DEF Under
<1>4. QED
  BY <1>1, <1>2, <1>3 DEF Sequel

Rising(s) == \A i, j \in DOMAIN s : i < j => s[i] < s[j]

LEMMA RisingJoined ==
  ASSUME NEW n \in Nat, NEW s \in Seq(1..n), NEW t \in Seq(1..n), Rising(s), Rising(t),
         Under(Range(s), Range(t))
  PROVE  /\ s \o t \in Seq(1..n) /\ Rising(s \o t)
         /\ Range(s \o t) \subseteq Range(s) \cup Range(t)
<1> DEFINE p == Len(s)
           q == Len(t)
           u == s \o t
<1>1. p \in Nat /\ q \in Nat /\ DOMAIN s = 1..p /\ DOMAIN t = 1..q
  OBVIOUS
<1>2. u \in Seq(1..n) /\ Len(u) = p + q /\ DOMAIN u = 1..(p + q)
  OBVIOUS
<1>3. \A i \in 1..(p + q) : u[i] = IF i <= p THEN s[i] ELSE t[i - p]
  OBVIOUS
<1> HIDE DEF p, q, u
<1>4. \A i \in 1..p : s[i] \in Range(s)
  BY <1>1 DEF Range
<1>5. \A i \in 1..q : t[i] \in Range(t)
  BY <1>1 DEF Range
<1>6. ASSUME NEW i \in 1..(p + q), NEW j \in 1..(p + q), i < j PROVE u[i] < u[j]
  <2>1. CASE j <= p
    <3>1. i <= p /\ i \in 1..p /\ j \in 1..p
      BY <1>1, <1>6, <2>1
    <3>2. u[i] = s[i] /\ u[j] = s[j]
      BY <1>3, <2>1, <3>1
    <3>3. s[i] < s[j]
      BY <1>1, <1>6, <3>1 DEF Rising
    <3>4. QED
      BY <3>2, <3>3
  <2>2. CASE ~ (j <= p) /\ i <= p
    <3>1. i \in 1..p /\ j - p \in 1..q
      BY <1>1, <2>2
    <3>2. u[i] = s[i] /\ u[j] = t[j - p]
      BY <1>3, <2>2
    <3>3. s[i] < t[j - p]
      BY <1>4, <1>5, <3>1 DEF Under
    <3>4. QED
      BY <3>2, <3>3
  <2>3. CASE ~ (j <= p) /\ ~ (i <= p)
    <3>1. i - p \in 1..q /\ j - p \in 1..q /\ i - p < j - p
      BY <1>1, <1>6, <2>3
    <3>2. u[i] = t[i - p] /\ u[j] = t[j - p]
      BY <1>3, <2>3
    <3>3. t[i - p] < t[j - p]
      BY <1>1, <3>1 DEF Rising
    <3>4. QED
      BY <3>2, <3>3
  <2>4. QED
    BY <2>1, <2>2, <2>3
<1>7. ASSUME NEW i \in 1..(p + q) PROVE u[i] \in Range(s) \cup Range(t)
  <2>1. CASE i <= p
    <3>1. i \in 1..p /\ u[i] = s[i]
      BY <1>1, <1>3, <2>1
    <3>2. QED
      BY <3>1, <1>4
  <2>2. CASE ~ (i <= p)
    <3>1. i - p \in 1..q /\ u[i] = t[i - p]
      BY <1>1, <1>3, <2>2
    <3>2. QED
      BY <3>1, <1>5
  <2>3. QED
    BY <2>1, <2>2
<1>8. Rising(u)
  BY <1>2, <1>6 DEF Rising
<1>9. Range(u) \subseteq Range(s) \cup Range(t)
  BY <1>2, <1>7 DEF Range
<1>10. QED
  BY <1>2, <1>8, <1>9 DEF u

LEMMA RisingOne ==
  ASSUME NEW n \in Nat, NEW x \in 1..n
  PROVE  <<x>> \in Seq(1..n) /\ Rising(<<x>>) /\ Range(<<x>>) = {x}
<1>1. <<x>> \in Seq(1..n) /\ DOMAIN <<x>> = {1} /\ <<x>>[1] = x
  OBVIOUS
<1> DEFINE s == <<x>>
<1>2. s \in Seq(1..n) /\ DOMAIN s = {1} /\ s[1] = x
  BY <1>1
<1> HIDE DEF s
<1>3. Rising(s)
  BY <1>2 DEF Rising
<1>4. Range(s) = {x}
  BY <1>2 DEF Range
<1>5. QED
  BY <1>2, <1>3, <1>4 DEF s

LEMMA RisingNone == Rising(<<>>) /\ Range(<<>>) = {} /\ \A n : <<>> \in Seq(1..n)
  BY DEF Rising, Range

\* The numbers of the contacts in what is on the wire or read from it.
One(byte) == IF byte \in Jsons THEN {byte.n} ELSE {}
Numbered(s) == UNION {One(s[i]) : i \in DOMAIN s}
RisingLines(s) == \A i, j \in DOMAIN s : i < j => Under(One(s[i]), One(s[j]))

Pending(n) == {n} \ {0}

\* Every contact is in one place at most, and the places are in the order written.
LinkOrder ==
  Sequel(Range(received), Range(InRequest), Range(peer_batch.counted),
         Pending(peer_batch.behind.n), Pending(forwarding), Numbered(line), Numbered(wire), sent)
LinkRising ==
  Rising(received) /\ Rising(InRequest) /\ Rising(peer_batch.counted) /\ RisingLines(wire)

\* Between its requests reporting_task holds nothing; a text behind the batch is a contact's.
LinkIdle ==
  /\ ~ ReportingAt("post") => reporting.batch = NoBatch
  /\ peer_batch.behind.n = 0 => peer_batch.behind = NoText

\* Lines accepted are lines sent, and no longer to come.
LinkCounts ==
  /\ damage <= faults
  /\ good <= sent
  /\ \A n \in Numbered(line) \cup Numbered(wire) : good < n

LinkOrderIInv == LinkTypeOK /\ LinkOrder /\ LinkRising /\ LinkIdle /\ LinkCounts

LEMMA NumberedNone == Numbered(<<>>) = {} /\ RisingLines(<<>>)
  BY DEF Numbered, RisingLines

\* The first byte of s and the rest.
Split(s, t) ==
  /\ One(s[1]) \subseteq Numbered(s) /\ Numbered(t) \subseteq Numbered(s)
  /\ Under(One(s[1]), Numbered(t)) /\ RisingLines(t)

LEMMA NumberedTail ==
  ASSUME NEW s \in Seq(Bytes), s # <<>>, RisingLines(s)
  PROVE  Split(s, Tail(s))
<1> DEFINE t == Tail(s)
           p == Len(t)
<1>1. p \in Nat /\ DOMAIN t = 1..p /\ DOMAIN s = 1..(p + 1)
  OBVIOUS
<1>2. \A i \in 1..p : t[i] = s[i + 1]
  OBVIOUS
<1> HIDE DEF t, p
<1>3. 1 \in DOMAIN s /\ \A i \in DOMAIN t : i + 1 \in DOMAIN s /\ 1 < i + 1 /\ t[i] = s[i + 1]
  BY <1>1, <1>2
<1>4. One(s[1]) \subseteq Numbered(s)
  BY <1>3 DEF Numbered
<1>5. Numbered(t) \subseteq Numbered(s)
  <2> SUFFICES ASSUME NEW i \in DOMAIN t PROVE One(t[i]) \subseteq Numbered(s)
    BY DEF Numbered
  <2>1. i + 1 \in DOMAIN s /\ t[i] = s[i + 1]
    BY <1>3
  <2>2. QED
    BY <2>1 DEF Numbered
<1>6. Under(One(s[1]), Numbered(t))
  <2> SUFFICES ASSUME NEW i \in DOMAIN t, NEW a \in One(s[1]), NEW b \in One(t[i]) PROVE a < b
    BY DEF Under, Numbered
  <2>1. i + 1 \in DOMAIN s /\ 1 < i + 1 /\ t[i] = s[i + 1] /\ 1 \in DOMAIN s
    BY <1>3
  <2>2. Under(One(s[1]), One(s[i + 1]))
    BY <2>1 DEF RisingLines
  <2>3. QED
    BY <2>1, <2>2 DEF Under
<1>7. RisingLines(t)
  <2> SUFFICES ASSUME NEW i \in DOMAIN t, NEW j \in DOMAIN t, i < j
               PROVE  Under(One(t[i]), One(t[j]))
    BY DEF RisingLines
  <2>1. i + 1 \in DOMAIN s /\ j + 1 \in DOMAIN s /\ t[i] = s[i + 1] /\ t[j] = s[j + 1]
    BY <1>3
  <2>2. i + 1 < j + 1
    BY <1>1
  <2>3. QED
    BY <2>1, <2>2 DEF RisingLines
<1>8. QED
  BY <1>4, <1>5, <1>6, <1>7 DEF Split, t

LEMMA NumberedAppend ==
  ASSUME NEW s \in Seq(Bytes), NEW byte \in Bytes
  PROVE  Numbered(Append(s, byte)) \subseteq Numbered(s) \cup One(byte)
<1> DEFINE t == Append(s, byte)
           p == Len(s)
<1>1. p \in Nat /\ DOMAIN s = 1..p /\ DOMAIN t = 1..(p + 1)
  OBVIOUS
<1>2. \A i \in 1..(p + 1) : t[i] = IF i = p + 1 THEN byte ELSE s[i]
  OBVIOUS
<1> HIDE DEF t, p
<1>3. ASSUME NEW i \in DOMAIN t PROVE One(t[i]) \subseteq Numbered(s) \cup One(byte)
  <2>1. CASE i = p + 1
    BY <1>1, <1>2, <2>1
  <2>2. CASE i # p + 1
    <3>1. i \in DOMAIN s /\ t[i] = s[i]
      BY <1>1, <1>2, <2>2
    <3>2. QED
      BY <3>1 DEF Numbered
  <2>3. QED
    BY <2>1, <2>2
<1>4. Numbered(t) \subseteq Numbered(s) \cup One(byte)
  BY <1>3 DEF Numbered
<1>5. QED
  BY <1>4 DEF t

\* A line more on the wire.
Lengthened(s, t, n) == Numbered(t) \subseteq Numbered(s) \cup {n + 1} /\ RisingLines(t)

LEMMA NumberedSent ==
  ASSUME NEW s \in Seq(Bytes), RisingLines(s), NEW n \in Nat, Numbered(s) \subseteq 1..n,
         NEW head \in Heads, NEW json \in Jsons, json.n = n + 1
  PROVE  Lengthened(s, s \o <<head, json, NL>>, n)
<1> DEFINE t == s \o <<head, json, NL>>
           p == Len(s)
<1>0. NL \in Bytes /\ head \in Bytes /\ json \in Bytes
  BY DEF Bytes
<1>1. p \in Nat /\ DOMAIN s = 1..p
  OBVIOUS
<1>2. Len(t) = p + 3 /\ DOMAIN t = 1..(p + 3)
  BY <1>0
<1>3. /\ \A i \in 1..p : t[i] = s[i]
      /\ t[p + 1] = head /\ t[p + 2] = json /\ t[p + 3] = NL
  BY <1>0
<1>4. One(head) = {} /\ One(json) = {n + 1} /\ One(NL) = {}
  BY BytesApart DEF One
<1> HIDE DEF t, p
<1>5. ASSUME NEW i \in DOMAIN t
      PROVE  /\ i \in DOMAIN s => t[i] = s[i] /\ One(t[i]) \subseteq 1..n
             /\ i \notin DOMAIN s => /\ \A j \in DOMAIN s : j < i
                                     /\ One(t[i]) = IF i = p + 2 THEN {n + 1} ELSE {}
  <2>1. CASE i \in 1..p
    <3>1. t[i] = s[i] /\ i \in DOMAIN s
      BY <1>1, <1>3, <2>1
    <3>2. One(t[i]) \subseteq 1..n
      BY <3>1 DEF Numbered
    <3>3. QED
      BY <3>1, <3>2
  <2>2. CASE i \notin 1..p
    <3>1. i \in {p + 1, p + 2, p + 3} /\ \A j \in 1..p : j < i
      BY <1>1, <1>2, <2>2
    <3>2. p + 1 # p + 2 /\ p + 3 # p + 2
      BY <1>1
    <3>3. One(t[i]) = IF i = p + 2 THEN {n + 1} ELSE {}
      BY <1>3, <1>4, <3>1, <3>2
    <3>4. QED
      BY <1>1, <2>2, <3>1, <3>3
  <2>3. QED
    BY <2>1, <2>2
<1>6. Numbered(t) \subseteq Numbered(s) \cup {n + 1}
  <2> SUFFICES ASSUME NEW i \in DOMAIN t PROVE One(t[i]) \subseteq Numbered(s) \cup {n + 1}
    BY DEF Numbered
  <2>1. CASE i \in DOMAIN s
    BY <1>5, <2>1 DEF Numbered
  <2>2. CASE i \notin DOMAIN s
    BY <1>5, <2>2
  <2>3. QED
    BY <2>1, <2>2
<1>7. RisingLines(t)
  <2> SUFFICES ASSUME NEW i \in DOMAIN t, NEW j \in DOMAIN t, i < j,
                      NEW a \in One(t[i]), NEW b \in One(t[j])
               PROVE  a < b
    BY DEF RisingLines, Under
  <2>1. i \in Nat /\ j \in Nat
    BY <1>1, <1>2
  <2>2. CASE i \in DOMAIN s /\ j \in DOMAIN s
    BY <1>5, <2>2 DEF RisingLines, Under
  <2>3. CASE i \in DOMAIN s /\ j \notin DOMAIN s
    <3>1. a \in 1..n /\ b = n + 1
      BY <1>5, <2>3
    <3>2. QED
      BY <3>1
  <2>4. CASE i \notin DOMAIN s
    <3>1. j \notin DOMAIN s
      BY <1>5, <2>1, <2>4
    <3>2. i = p + 2 /\ j = p + 2
      BY <1>5, <2>4, <3>1
    <3>3. QED
      BY <2>1, <3>2
  <2>5. QED
    BY <2>2, <2>3, <2>4
<1>8. QED
  BY <1>6, <1>7 DEF Lengthened, t

\* The master's variables, as they are typed.
MasterTypes ==
  /\ line \in Seq(Bytes \ {NL}) /\ Len(line) <= LineRoom
  /\ forwarding \in 0..MaxLines /\ silence \in 0..Missed /\ errors \in Nat

LEMMA NumberOf == ASSUME NEW byte \in Bytes, NEW n \in One(byte) PROVE n \in 1..MaxLines
  BY DEF One, Jsons

LEMMA LineNumber ==
  ASSUME NEW head \in Heads, NEW json \in Jsons, line = <<head, json>>
  PROVE  json.n \in Numbered(line)
<1>1. 2 \in DOMAIN line /\ line[2] = json
  OBVIOUS
<1>2. json.n \in One(line[2])
  BY <1>1 DEF One
<1>3. QED
  BY <1>1, <1>2 DEF Numbered

\* A byte that is read is in the buffer afterwards, or the line is over: dropped, or its
\* contact is in hand.
Buffered(byte) ==
  forwarding' = 0 /\ good' = good /\ Numbered(line') \subseteq Numbered(line) \cup One(byte)
Handled ==
  \E n \in Numbered(line) : line' = <<>> /\ forwarding' \in {0, n} /\ good' \in {good, good + 1}

LEMMA ReadMoves ==
  ASSUME LinkTypeOK, NEW byte \in Bytes, Read(byte)
  PROVE  MasterTypes' /\ (Buffered(byte) \/ Handled)
<1>1. LineRoom \in Nat /\ Missed \in Nat /\ MaxLines \in Nat
  BY PeerLinkAssumption
<1>2. MasterTypes /\ forwarding = 0
  BY DEF LinkTypeOK, Read, MasterTypes
<1>3. CASE byte = NL /\ line # <<>>
  <2>1. handle_line /\ line' = <<>>
    BY <1>3 DEF Read, StartsAfresh
  <2>2. line' \in Seq(Bytes \ {NL}) /\ Len(line') <= LineRoom
    BY <1>1, <2>1
  <2>3. CASE Rejected
    <3>1. errors' = errors + 1 /\ good' = good /\ silence' = silence /\ forwarding' = forwarding
      BY <2>3 DEF Rejected
    <3>2. MasterTypes'
      BY <1>2, <2>2, <3>1 DEF MasterTypes
    <3>3. QED
      BY <1>2, <2>1, <3>1, <3>2, NumberedNone DEF Buffered
  <2>4. CASE \E head \in Heads, json \in Jsons : Accepted(head, json)
    <3>1. PICK head \in Heads, json \in Jsons : Accepted(head, json)
      BY <2>4
    <3>2. /\ line = <<head, json>> /\ silence' = 0
          /\ forwarding' \in {0, json.n} /\ errors' \in {errors, errors + 1}
          /\ good' \in {good, good + 1}
      BY <3>1 DEF Accepted, Whole
    <3>3. json.n \in Numbered(line) /\ json.n \in 1..MaxLines
      BY <3>2, LineNumber DEF Jsons
    <3>4. forwarding' \in 0..MaxLines /\ silence' \in 0..Missed /\ errors' \in Nat
      BY <1>1, <1>2, <3>2, <3>3 DEF MasterTypes
    <3>5. MasterTypes'
      BY <2>2, <3>4 DEF MasterTypes
    <3>6. QED
      BY <2>1, <3>2, <3>3, <3>5 DEF Handled
  <2>5. QED
    BY <2>1, <2>3, <2>4 DEF handle_line
<1>4. CASE byte = NL /\ line = <<>>
  <2>1. UNCHANGED master
    BY <1>4 DEF Read
  <2>2. QED
    BY <1>2, <2>1 DEF master, MasterTypes, Buffered
<1>5. CASE byte # NL /\ Room
  <2>1. /\ line' = Append(line, byte) /\ Len(line) < LineRoom
        /\ UNCHANGED <<forwarding, silence, errors, good>>
    BY <1>5 DEF Read, Room
  <2>2. line \in Seq(Bytes) /\ line \in Seq(Bytes \ {NL}) /\ Len(line) \in Nat
    BY <1>2 DEF MasterTypes
  <2>3. line' \in Seq(Bytes \ {NL}) /\ Len(line') <= LineRoom
    BY <1>1, <1>5, <2>1, <2>2
  <2>4. MasterTypes'
    BY <1>2, <2>1, <2>3 DEF MasterTypes
  <2>5. QED
    BY <1>2, <2>1, <2>2, <2>4, NumberedAppend DEF Buffered
<1>6. CASE byte # NL /\ ~ Room
  <2>1. line' = <<>> /\ errors' = errors + 1 /\ UNCHANGED <<forwarding, silence, good>>
    BY <1>6 DEF Read
  <2>2. line' \in Seq(Bytes \ {NL}) /\ Len(line') <= LineRoom
    BY <1>1, <2>1
  <2>3. MasterTypes'
    BY <1>2, <2>1, <2>2 DEF MasterTypes
  <2>4. QED
    BY <1>2, <2>1, <2>3, NumberedNone DEF Buffered
<1>7. QED
  BY <1>3, <1>4, <1>5, <1>6


LEMMA WireTaken ==
  ASSUME LinkTypeOK, RisingLines(wire), TakeByte
  PROVE  wire' \in Seq(Bytes) /\ Head(wire) \in Bytes /\ Head(wire) = wire[1] /\ Split(wire, wire')
<1>1. wire \in Seq(Bytes) /\ wire # <<>> /\ wire' = Tail(wire)
  BY DEF LinkTypeOK, TakeByte
<1>2. wire' \in Seq(Bytes) /\ Head(wire) = wire[1] /\ wire[1] \in Bytes
  BY <1>1
<1>3. QED
  BY <1>1, <1>2, NumberedTail

\* Nothing behind the master is touched by what arrives.
BehindKept == UNCHANGED <<received, peer_batch, reporting, sent, ready, told, overflowed>>

LEMMA TakenOrder ==
  ASSUME LinkOrderIInv, TakeByte, BehindKept, MasterTypes',
         faults' \in 0..MaxFaults, damage' \in 0..MaxFaults, damage' <= faults',
         \/ UNCHANGED <<line, forwarding, good>>
         \/ forwarding = 0 /\ \E byte : One(byte) \subseteq One(wire[1]) /\ Buffered(byte)
         \/ forwarding = 0 /\ Handled
  PROVE  LinkOrderIInv'
<1> DEFINE x == One(wire[1])
           F == Numbered(line)
           G == Numbered(wire)
<1>1. /\ LinkTypeOK /\ LinkOrder /\ LinkRising /\ LinkIdle /\ LinkCounts
      /\ wire' \in Seq(Bytes) /\ Split(wire, wire')
  BY WireTaken DEF LinkOrderIInv, LinkRising
<1>2. /\ x \subseteq G /\ G' \subseteq G /\ Under(x, G') /\ RisingLines(wire')
  BY <1>1 DEF Split
<1> HIDE DEF x, F, G
<1>3. /\ received' = received /\ InRequest' = InRequest /\ peer_batch' = peer_batch /\ sent' = sent
      /\ reporting' = reporting
  BY DEF BehindKept, InRequest
<1>4. LinkRising' /\ LinkIdle'
  BY <1>1, <1>2, <1>3 DEF LinkRising, LinkIdle, ReportingAt
<1>5. good \in 0..MaxLines /\ sent \in 0..MaxLines /\ MaxLines \in Nat
  BY <1>1, PeerLinkAssumption DEF LinkTypeOK
<1>6. \A n \in F \cup G : n \in 1..sent /\ good < n
  BY <1>1 DEF LinkOrder, LinkCounts, Sequel, F, G
<1>7. LinkOrder' /\ good' <= sent /\ (\A n \in F' \cup G' : good' < n) /\ good' \in 0..MaxLines
  <2>1. CASE UNCHANGED <<line, forwarding, good>>
    <3>1. F' = F /\ good' = good
      BY <2>1 DEF F
    <3>2. F \subseteq F \cup x
      OBVIOUS
    <3>3. LinkOrder'
      BY <1>1, <1>2, <1>3, <2>1, <3>1, <3>2, SequelRead DEF LinkOrder, F, G
    <3>4. QED
      BY <1>1, <1>2, <1>5, <1>6, <3>1, <3>3 DEF LinkCounts
  <2>2. CASE forwarding = 0 /\ \E byte : One(byte) \subseteq One(wire[1]) /\ Buffered(byte)
    <3>1. F' \subseteq F \cup x /\ forwarding' = forwarding /\ good' = good
      BY <2>2 DEF Buffered, F, x
    <3>2. LinkOrder'
      BY <1>1, <1>2, <1>3, <3>1, SequelRead DEF LinkOrder, F, G
    <3>3. \A n \in F' \cup G' : n \in F \cup G
      BY <1>2, <3>1
    <3>4. QED
      BY <1>1, <1>5, <1>6, <3>1, <3>2, <3>3 DEF LinkCounts
  <2>3. CASE forwarding = 0 /\ Handled
    <3>1. PICK n \in F : line' = <<>> /\ forwarding' \in {0, n} /\ good' \in {good, good + 1}
      BY <2>3 DEF Handled, F
    <3>2. F' = {} /\ Pending(forwarding) = {} /\ Pending(forwarding') \subseteq F
      BY <2>3, <3>1, NumberedNone DEF F, Pending
    <3>3. LinkOrder'
      BY <1>1, <1>2, <1>3, <3>2, SequelTaken DEF LinkOrder, F, G
    <3>4. n \in 1..sent /\ good < n
      BY <1>6
    <3>5. \A a \in G' : a \in 1..sent /\ n < a
      BY <1>1, <1>2, <1>6 DEF LinkOrder, Sequel, Under, F, G
    <3>6. good' <= n /\ good' \in 0..MaxLines
      BY <1>5, <3>1, <3>4
    <3>7. good' <= sent
      BY <1>5, <3>4, <3>6
    <3>8. \A a \in G' : good' < a
      BY <1>5, <3>4, <3>5, <3>6
    <3>9. QED
      BY <3>2, <3>3, <3>6, <3>7, <3>8
  <2>4. QED
    BY <2>1, <2>2, <2>3
<1>8. LinkCounts'
  BY <1>3, <1>7 DEF LinkCounts, F, G
<1>9. LinkTypeOK'
  BY <1>1, <1>7 DEF LinkTypeOK, MasterTypes, BehindKept
<1>10. QED
  BY <1>4, <1>7, <1>8, <1>9 DEF LinkOrderIInv

LEMMA LinkOrderInit == LinkInit => LinkOrderIInv
<1> SUFFICES ASSUME LinkInit PROVE LinkOrderIInv
  OBVIOUS
<1>1. /\ sent = 0 /\ wire = <<>> /\ line = <<>> /\ forwarding = 0 /\ received = <<>>
      /\ peer_batch = NoBatch /\ reporting = [pc |-> "reports", batch |-> NoBatch]
      /\ good = 0 /\ faults = 0 /\ damage = 0
  BY DEF LinkInit
<1>2. LineRoom \in Nat /\ Missed \in Nat /\ MaxLines \in Nat /\ BatchRoom \in Nat /\ MaxFaults \in Nat
  BY PeerLinkAssumption
<1>3. NoBatch \in Batch /\ NoBatch.counted = <<>> /\ NoBatch.behind = NoText /\ NoText.n = 0
  BY <1>2 DEF NoBatch, Batch, NoText, Uncounted
<1>4. LinkTypeOK
  <2>1. /\ sent \in 0..MaxLines /\ forwarding \in 0..MaxLines /\ good \in 0..MaxLines
        /\ faults \in 0..MaxFaults /\ damage \in 0..MaxFaults
    BY <1>1, <1>2
  <2>2. silence \in 0..Missed /\ errors \in Nat /\ told \in {"nothing", "alive", "down"}
    BY <1>2 DEF LinkInit
  <2>3. ready \in BOOLEAN /\ overflowed \in BOOLEAN
    BY Zenon DEF LinkInit
  <2>4. /\ wire \in Seq(Bytes) /\ line \in Seq(Bytes \ {NL}) /\ Len(line) <= LineRoom
        /\ received \in Seq(1..MaxLines)
    BY <1>1, <1>2, PeerLinkAssumption
  <2>5. /\ peer_batch \in Batch /\ Len(peer_batch.counted) <= BatchRoom
        /\ reporting \in [pc : {"reports", "flush", "post", "beat"}, batch : Batch]
    BY <1>1, <1>2, <1>3
  <2>6. QED
    BY <2>1, <2>2, <2>3, <2>4, <2>5 DEF LinkTypeOK
<1>5. InRequest = <<>>
  BY <1>1, <1>3 DEF InRequest
<1>6. Range(received) = {} /\ Range(InRequest) = {} /\ Range(peer_batch.counted) = {}
  BY <1>1, <1>3, <1>5, RisingNone
<1>7. /\ Numbered(line) = {} /\ Numbered(wire) = {}
      /\ Pending(peer_batch.behind.n) = {} /\ Pending(forwarding) = {}
  BY <1>1, <1>3, NumberedNone DEF Pending
<1>8. LinkOrder
  BY <1>6, <1>7 DEF LinkOrder, Sequel, Under
<1>9. LinkRising
  BY <1>1, <1>3, <1>5, RisingNone, NumberedNone DEF LinkRising
<1>10. LinkIdle /\ LinkCounts
  BY <1>1, <1>3, <1>7 DEF LinkIdle, LinkCounts
<1>11. QED
  BY <1>4, <1>8, <1>9, <1>10 DEF LinkOrderIInv

LEMMA SendLineOrder == ASSUME LinkOrderIInv, NEW kind \in Kinds, SendLine(kind) PROVE LinkOrderIInv'
<1> DEFINE head == [n |-> sent + 1, kind |-> kind]
           json == [n |-> sent + 1, json |-> kind]
<1>1. /\ sent < MaxLines /\ sent' = sent + 1 /\ wire' = wire \o <<head, json, NL>>
      /\ UNCHANGED <<master, peer_batch, uplink, overflowed, faults, damage>>
  BY DEF SendLine
<1>2. LinkTypeOK /\ LinkOrder /\ LinkRising /\ LinkIdle /\ LinkCounts
  BY DEF LinkOrderIInv
<1>3. sent \in Nat /\ MaxLines \in Nat /\ sent + 1 \in 1..MaxLines /\ wire \in Seq(Bytes) /\ good \in Nat
  BY <1>1, <1>2, PeerLinkAssumption DEF LinkTypeOK
<1>4. head \in Heads /\ json \in Jsons /\ json.n = sent + 1
  BY <1>3 DEF Heads, Jsons
<1> HIDE DEF head, json
<1>5. Numbered(wire) \subseteq 1..sent /\ RisingLines(wire)
  BY <1>2 DEF LinkOrder, Sequel, LinkRising
<1>6. Lengthened(wire, wire', sent)
  BY <1>1, <1>3, <1>4, <1>5, NumberedSent
<1>7. wire' \in Seq(Bytes)
  <2>1. <<head, json, NL>> \in Seq(Bytes)
    BY <1>4 DEF Bytes
  <2>2. QED
    BY <1>1, <1>3, <2>1
<1>8. /\ line' = line /\ forwarding' = forwarding /\ good' = good /\ peer_batch' = peer_batch
      /\ reporting' = reporting /\ received' = received /\ InRequest' = InRequest
      /\ faults' = faults /\ damage' = damage
  BY <1>1 DEF master, uplink, InRequest
<1>9. LinkTypeOK'
  BY <1>1, <1>2, <1>3, <1>7 DEF LinkTypeOK, master, uplink
<1>10. LinkOrder'
  BY <1>1, <1>2, <1>3, <1>6, <1>8, SequelSent DEF LinkOrder, Lengthened
<1>11. LinkRising' /\ LinkIdle'
  BY <1>2, <1>6, <1>8 DEF LinkRising, LinkIdle, Lengthened, ReportingAt
<1>12. LinkCounts'
  <2>1. Numbered(line') \cup Numbered(wire') \subseteq Numbered(line) \cup Numbered(wire) \cup {sent + 1}
    BY <1>6, <1>8 DEF Lengthened
  <2>2. good <= sent /\ good < sent + 1 /\ good <= sent + 1
    BY <1>2, <1>3 DEF LinkCounts
  <2>3. QED
    BY <1>1, <1>2, <1>8, <2>1, <2>2 DEF LinkCounts
<1>13. QED
  BY <1>9, <1>10, <1>11, <1>12 DEF LinkOrderIInv

\* Steps that move no contact.
LEMMA IdleOrder ==
  ASSUME LinkOrderIInv, LinkTypeOK', reporting'.batch = reporting.batch,
         ReportingAt("post") => ReportingAt("post")',
         UNCHANGED <<sensor, line, forwarding, good, peer_batch, received>>,
         faults' \in {faults, faults + 1}
  PROVE  LinkOrderIInv'
<1>1. /\ LinkTypeOK /\ LinkOrder /\ LinkRising /\ LinkIdle /\ LinkCounts
      /\ InRequest' = InRequest /\ sent' = sent /\ wire' = wire /\ damage' = damage
  BY DEF LinkOrderIInv, InRequest, sensor
<1>2. damage <= faults' /\ damage' <= faults'
  BY <1>1 DEF LinkTypeOK, LinkCounts
<1>3. LinkOrder' /\ LinkRising' /\ LinkCounts'
  BY <1>1, <1>2 DEF LinkOrder, LinkRising, LinkCounts
<1>4. LinkIdle'
  BY <1>1 DEF LinkIdle
<1>5. QED
  BY <1>3, <1>4 DEF LinkOrderIInv

LEMMA IdleSteps ==
  ASSUME LinkOrderIInv,
         StatusInterval \/ OwnReports \/ NothingToFlush \/ Beat \/ NetworkUp \/ NetworkDown
  PROVE  LinkOrderIInv'
<1>1. LinkTypeOK /\ Missed \in Nat /\ MaxFaults \in Nat
  BY PeerLinkAssumption DEF LinkOrderIInv
<1>2. CASE StatusInterval
  <2>1. silence' \in 0..Missed
    BY <1>1, <1>2 DEF StatusInterval, LinkTypeOK
  <2>2. LinkTypeOK'
    BY <1>1, <1>2, <2>1 DEF StatusInterval, LinkTypeOK, sensor, uplink
  <2>3. QED
    BY <1>2, <2>2, IdleOrder DEF StatusInterval, uplink, ReportingAt
<1>3. CASE OwnReports \/ NothingToFlush \/ Beat
  <2>1. \E pc \in {"reports", "flush", "beat"} : reporting' = [reporting EXCEPT !.pc = pc]
    BY <1>3 DEF OwnReports, NothingToFlush, Beat, ReportingTo
  <2>2. ~ ReportingAt("post")
    BY <1>3 DEF OwnReports, NothingToFlush, Beat, ReportingAt
  <2>3. reporting'.batch = reporting.batch
        /\ reporting' \in [pc : {"reports", "flush", "post", "beat"}, batch : Batch]
    BY <1>1, <2>1 DEF LinkTypeOK
  <2>4. told' \in {"nothing", "alive", "down"}
    BY <1>1, <1>3 DEF OwnReports, NothingToFlush, Beat, uplink_peer_heartbeat, LinkTypeOK
  <2>5. UNCHANGED <<sensor, master, peer_batch, ready, received, overflowed, faults>>
    BY <1>3 DEF OwnReports, NothingToFlush, Beat
  <2>6. LinkTypeOK'
    BY <1>1, <2>3, <2>4, <2>5 DEF LinkTypeOK, sensor, master
  <2>7. QED
    BY <2>2, <2>3, <2>5, <2>6, IdleOrder DEF master
<1>4. CASE NetworkUp \/ NetworkDown
  <2>1. UNCHANGED <<sensor, master, peer_batch, reporting, received, told, overflowed>>
        /\ ready' \in BOOLEAN
    BY <1>4 DEF NetworkUp, NetworkDown
  <2>2. faults' \in {faults, faults + 1} /\ faults' \in 0..MaxFaults
    <3>1. faults \in 0..MaxFaults
      BY <1>1 DEF LinkTypeOK
    <3>2. faults' = faults \/ (faults < MaxFaults /\ faults' = faults + 1)
      BY <1>4 DEF NetworkUp, NetworkDown, Fault
    <3>3. QED
      BY <1>1, <3>1, <3>2
  <2>3. LinkTypeOK'
    BY <1>1, <2>1, <2>2 DEF LinkTypeOK, sensor, master
  <2>4. QED
    BY <2>1, <2>2, <2>3, IdleOrder DEF master, ReportingAt
<1>5. QED
  BY <1>2, <1>3, <1>4

\* What arrives, garbled or not, and what is lost.
LEMMA ArriveOrder == ASSUME LinkOrderIInv, Arrive \/ Garbled \/ Lost PROVE LinkOrderIInv'
<1>1. LinkTypeOK /\ RisingLines(wire) /\ LinkCounts /\ TakeByte /\ MaxFaults \in Nat
  BY PeerLinkAssumption DEF LinkOrderIInv, LinkRising, Arrive, Garbled, Lost
<1>2. Head(wire) \in Bytes /\ Head(wire) = wire[1]
  BY <1>1, WireTaken
<1>3. faults \in 0..MaxFaults /\ damage \in 0..MaxFaults /\ damage <= faults
  BY <1>1 DEF LinkTypeOK, LinkCounts
<1>4. faults' \in 0..MaxFaults /\ damage' \in 0..MaxFaults /\ damage' <= faults'
  <2>1. \/ faults' = faults /\ damage' = damage
        \/ faults < MaxFaults /\ faults' = faults + 1 /\ damage' = damage + 1
    BY DEF Arrive, Garbled, Lost, Fault
  <2>2. QED
    BY <1>1, <1>3, <2>1
<1>5. ASSUME NEW byte \in Bytes, One(byte) \subseteq One(wire[1]), Read(byte),
             UNCHANGED reporting /\ UNCHANGED received /\ UNCHANGED ready /\ UNCHANGED told
      PROVE  LinkOrderIInv'
  <2>1. MasterTypes' /\ (Buffered(byte) \/ Handled)
    BY <1>1, <1>5, ReadMoves
  <2>2. BehindKept /\ forwarding = 0
    BY <1>5 DEF Read, BehindKept
  <2>3. QED
    BY <1>1, <1>4, <1>5, <2>1, <2>2, TakenOrder
<1>6. CASE Arrive
  <2>1. Read(wire[1]) /\ wire[1] \in Bytes
    BY <1>2, <1>6 DEF Arrive
  <2>2. UNCHANGED uplink
    BY <2>1 DEF Read
  <2>3. QED
    BY <1>5, <2>1, <2>2 DEF uplink
<1>7. CASE Garbled
  <2>1. PICK byte \in Garbles(wire[1]) : Read(byte)
    BY <1>2, <1>7 DEF Garbled
  <2>2. byte \in {NOISE, NL} \cup Heads
    BY <2>1 DEF Garbles
  <2>3. byte \in Bytes /\ byte \notin Jsons
    BY <2>2, BytesApart, PeerLinkAssumption DEF Bytes
  <2>4. One(byte) = {}
    BY <2>3 DEF One
  <2>5. UNCHANGED uplink
    BY <2>1 DEF Read
  <2>6. QED
    BY <1>5, <2>1, <2>3, <2>4, <2>5 DEF uplink
<1>8. CASE Lost
  <2>1. UNCHANGED <<sent, master, peer_batch, uplink, overflowed>>
    BY <1>8 DEF Lost
  <2>2. BehindKept /\ UNCHANGED <<line, forwarding, good>> /\ MasterTypes'
    BY <1>1, <2>1 DEF BehindKept, uplink, master, MasterTypes, LinkTypeOK
  <2>3. QED
    BY <1>1, <1>4, <2>2, TakenOrder
<1>9. QED
  BY <1>6, <1>7, <1>8


LEMMA FlushOrder == ASSUME LinkOrderIInv, Flush PROVE LinkOrderIInv'
<1> DEFINE c == peer_batch.counted
           b == peer_batch.behind
           text == IF b = NoText THEN <<>> ELSE <<b.n>>
<1>1. /\ ReportingAt("flush") /\ reporting' = [pc |-> "post", batch |-> peer_batch]
      /\ peer_batch' = NoBatch
      /\ UNCHANGED <<sensor, master, ready, received, told, overflowed, faults>>
  BY DEF Flush, Reset
<1>2. LinkTypeOK /\ LinkOrder /\ LinkRising /\ LinkIdle /\ LinkCounts
  BY DEF LinkOrderIInv
<1>3. MaxLines \in Nat /\ BatchRoom \in Nat
  BY PeerLinkAssumption
<1>4. NoBatch \in Batch /\ NoBatch.counted = <<>> /\ NoBatch.behind = NoText /\ NoText.n = 0
  BY <1>3 DEF NoBatch, Batch, NoText, Uncounted
<1>5. InRequest = <<>>
  <2>1. reporting.batch = NoBatch
    BY <1>1, <1>2 DEF LinkIdle, ReportingAt
  <2>2. QED
    BY <1>4, <2>1 DEF InRequest
<1>6. InRequest' = c \o text
  <2>1. reporting'.batch = peer_batch
    BY <1>1
  <2>2. QED
    BY <2>1 DEF InRequest
<1>7. /\ peer_batch \in Batch /\ c \in Seq(1..MaxLines) /\ b.n \in 0..MaxLines
      /\ b.n = 0 => b = NoText
  BY <1>2 DEF LinkTypeOK, Batch, Uncounted, LinkIdle
<1>8. text \in Seq(1..MaxLines) /\ Rising(text) /\ Range(text) \subseteq Pending(b.n)
  <2>1. CASE b = NoText
    BY <2>1, RisingNone
  <2>2. CASE b # NoText
    <3>1. b.n \in 1..MaxLines /\ text = <<b.n>>
      BY <1>3, <1>7, <2>2
    <3>2. text \in Seq(1..MaxLines) /\ Rising(text) /\ Range(text) = {b.n}
      BY <1>3, <3>1, RisingOne
    <3>3. b.n # 0
      BY <1>3, <3>1
    <3>4. QED
      BY <3>2, <3>3 DEF Pending
  <2>3. QED
    BY <2>1, <2>2
<1>9. Rising(c) /\ Under(Range(c), Pending(b.n))
  BY <1>2 DEF LinkRising, LinkOrder, Sequel
<1> HIDE DEF c, text
<1>10. Under(Range(c), Range(text))
  BY <1>8, <1>9 DEF Under
<1>11. Rising(c \o text) /\ Range(c \o text) \subseteq Range(c) \cup Range(text)
  BY <1>3, <1>7, <1>8, <1>9, <1>10, RisingJoined
<1>12. /\ sent' = sent /\ wire' = wire /\ line' = line /\ forwarding' = forwarding /\ good' = good
       /\ received' = received /\ faults' = faults /\ damage' = damage
  BY <1>1 DEF sensor, master
<1>13. LinkOrder'
  <2>1. Range(InRequest) = {} /\ Range(peer_batch'.counted) = {} /\ Pending(peer_batch'.behind.n) = {}
    BY <1>1, <1>4, <1>5, RisingNone DEF Pending
  <2>2. Range(InRequest') \subseteq Range(c) \cup Pending(b.n)
    BY <1>6, <1>8, <1>11
  <2>3. Sequel(Range(received), {}, Range(c), Pending(b.n), Pending(forwarding),
               Numbered(line), Numbered(wire), sent)
    BY <1>2, <2>1 DEF LinkOrder, c
  <2>4. Sequel(Range(received), Range(InRequest'), {}, {}, Pending(forwarding),
               Numbered(line), Numbered(wire), sent)
    BY <2>2, <2>3, SequelPosted
  <2>5. QED
    BY <1>12, <2>1, <2>4 DEF LinkOrder
<1>14. LinkRising'
  BY <1>1, <1>2, <1>4, <1>6, <1>11, <1>12, RisingNone DEF LinkRising
<1>15. LinkIdle' /\ LinkCounts'
  BY <1>1, <1>2, <1>4, <1>12 DEF LinkIdle, LinkCounts, ReportingAt
<1>16. LinkTypeOK'
  <2>1. reporting' \in [pc : {"reports", "flush", "post", "beat"}, batch : Batch]
    BY <1>1, <1>7
  <2>2. peer_batch' \in Batch /\ Len(peer_batch'.counted) <= BatchRoom
    BY <1>1, <1>3, <1>4
  <2>3. QED
    BY <1>1, <1>2, <2>1, <2>2 DEF LinkTypeOK, sensor, master
<1>17. QED
  BY <1>13, <1>14, <1>15, <1>16 DEF LinkOrderIInv

LEMMA InRequestType ==
  ASSUME LinkTypeOK, LinkOrder PROVE InRequest \in Seq(1..MaxLines)
<1> DEFINE B == reporting.batch
<1>0. MaxLines \in Nat /\ sent \in 0..MaxLines /\ Range(InRequest) \subseteq 1..sent
  BY PeerLinkAssumption DEF LinkTypeOK, LinkOrder, Sequel
<1>1. B \in Batch
  BY DEF LinkTypeOK
<1>2. B.counted \in Seq(1..MaxLines)
  BY <1>1 DEF Batch
<1>3. CASE B.behind = NoText
  <2>1. InRequest = B.counted \o <<>>
    BY <1>3 DEF InRequest
  <2>2. QED
    BY <1>2, <2>1
<1>4. CASE B.behind # NoText
  <2>1. InRequest = B.counted \o <<B.behind.n>>
    BY <1>4 DEF InRequest
  <2>2. B.behind.n \in 0..MaxLines
    BY <1>1 DEF Batch, Uncounted
  <2>3. B.behind.n \in Range(InRequest)
    <3>1. B.counted \in Seq(Nat) /\ <<B.behind.n>> \in Seq(Nat) /\ Len(B.counted) \in Nat
      BY <1>0, <1>2, <2>2
    <3>2. /\ Len(B.counted) + 1 \in DOMAIN (B.counted \o <<B.behind.n>>)
          /\ (B.counted \o <<B.behind.n>>)[Len(B.counted) + 1] = B.behind.n
      BY <3>1
    <3>3. QED
      BY <2>1, <3>2 DEF Range
  <2>4. B.behind.n \in 1..MaxLines
    BY <1>0, <2>2, <2>3
  <2>5. <<B.behind.n>> \in Seq(1..MaxLines)
    BY <2>4
  <2>6. QED
    BY <1>2, <2>1, <2>5
<1>5. QED
  BY <1>3, <1>4

LEMMA PostOrder == ASSUME LinkOrderIInv, Posted \/ Unreachable \/ PostFails PROVE LinkOrderIInv'
<1>1. PICK stored \in BOOLEAN : Post(stored)
  BY DEF Posted, Unreachable, PostFails
<1>2. /\ reporting' = [pc |-> "beat", batch |-> NoBatch]
      /\ received' \in {received, received \o InRequest}
      /\ UNCHANGED <<sensor, master, peer_batch, ready, told, overflowed>>
  BY <1>1 DEF Post
<1>3. LinkTypeOK /\ LinkOrder /\ LinkRising /\ LinkIdle /\ LinkCounts
  BY DEF LinkOrderIInv
<1>4. MaxLines \in Nat /\ MaxFaults \in Nat
  BY PeerLinkAssumption
<1>5. faults' \in {faults, faults + 1} /\ faults' \in 0..MaxFaults
  <2>1. faults' = faults \/ (faults < MaxFaults /\ faults' = faults + 1)
    BY DEF Posted, Unreachable, PostFails, Fault
  <2>2. faults \in 0..MaxFaults
    BY <1>3 DEF LinkTypeOK
  <2>3. QED
    BY <1>4, <2>1, <2>2
<1>6. NoBatch \in Batch /\ NoBatch.counted = <<>> /\ NoBatch.behind = NoText
  BY <1>4 DEF NoBatch, Batch, NoText, Uncounted
<1>7. InRequest' = <<>>
  <2>1. reporting'.batch = NoBatch
    BY <1>2
  <2>2. QED
    BY <1>6, <2>1 DEF InRequest
<1>8. received \in Seq(1..MaxLines) /\ Rising(received) /\ Rising(InRequest)
      /\ Under(Range(received), Range(InRequest)) /\ Range(InRequest) \subseteq 1..sent
      /\ sent \in 0..MaxLines
  BY <1>3 DEF LinkTypeOK, LinkRising, LinkOrder, Sequel
<1>9. InRequest \in Seq(1..MaxLines)
  BY <1>3, InRequestType
<1>10. /\ received' \in Seq(1..MaxLines) /\ Rising(received')
       /\ Range(received') \subseteq Range(received) \cup Range(InRequest)
  <2>1. CASE received' = received
    BY <1>8, <2>1
  <2>2. CASE received' = received \o InRequest
    BY <1>4, <1>8, <1>9, <2>2, RisingJoined
  <2>3. QED
    BY <1>2, <2>1, <2>2
<1>11. /\ sent' = sent /\ wire' = wire /\ line' = line /\ forwarding' = forwarding /\ good' = good
       /\ peer_batch' = peer_batch /\ damage' = damage
  BY <1>2 DEF sensor, master
<1>12. LinkOrder'
  <2>1. Range(InRequest') = {}
    BY <1>7, RisingNone
  <2>2. Sequel(Range(received), Range(InRequest), Range(peer_batch.counted),
               Pending(peer_batch.behind.n), Pending(forwarding), Numbered(line), Numbered(wire), sent)
    BY <1>3 DEF LinkOrder
  <2>3. Sequel(Range(received'), {}, Range(peer_batch.counted),
               Pending(peer_batch.behind.n), Pending(forwarding), Numbered(line), Numbered(wire), sent)
    BY <1>10, <2>2, SequelStored
  <2>4. QED
    BY <1>11, <2>1, <2>3 DEF LinkOrder
<1>13. LinkRising'
  BY <1>3, <1>7, <1>10, <1>11, RisingNone DEF LinkRising
<1>14. LinkIdle' /\ LinkCounts'
  <2>1. damage' <= faults'
    BY <1>3, <1>5, <1>11 DEF LinkTypeOK, LinkCounts
  <2>2. reporting'.batch = NoBatch
    BY <1>2
  <2>3. QED
    BY <1>3, <1>11, <2>1, <2>2 DEF LinkIdle, LinkCounts
<1>15. LinkTypeOK'
  <2>1. reporting' \in [pc : {"reports", "flush", "post", "beat"}, batch : Batch]
    BY <1>2, <1>6
  <2>2. QED
    BY <1>2, <1>3, <1>5, <1>10, <2>1 DEF LinkTypeOK, sensor, master
<1>16. QED
  BY <1>12, <1>13, <1>14, <1>15 DEF LinkOrderIInv

LEMMA ForwardOrder == ASSUME LinkOrderIInv, Forward PROVE LinkOrderIInv'
<1> DEFINE c == peer_batch.counted
<1>1. /\ forwarding # 0 /\ forwarding' = 0
      /\ UNCHANGED <<sensor, line, silence, errors, good, uplink, faults>>
  BY DEF Forward
<1>2. LinkTypeOK /\ LinkOrder /\ LinkRising /\ LinkIdle /\ LinkCounts
  BY DEF LinkOrderIInv
<1>3. MaxLines \in Nat /\ BatchRoom \in Nat
  BY PeerLinkAssumption
<1>4. /\ forwarding \in 1..MaxLines /\ Pending(forwarding) = {forwarding} /\ Pending(0) = {}
      /\ c \in Seq(1..MaxLines) /\ peer_batch \in Batch
  BY <1>1, <1>2, <1>3 DEF LinkTypeOK, Batch, Pending
<1>5. /\ sent' = sent /\ wire' = wire /\ line' = line /\ good' = good /\ received' = received
      /\ reporting' = reporting /\ InRequest' = InRequest /\ faults' = faults /\ damage' = damage
      /\ silence' = silence /\ errors' = errors /\ ready' = ready /\ told' = told
  BY <1>1 DEF sensor, uplink, InRequest
<1>6. LinkCounts'
  BY <1>2, <1>5 DEF LinkCounts
<1>7. CASE Len(c) < BatchRoom
  <2>1. peer_batch' = [counted |-> Append(c, forwarding), behind |-> NoText] /\ overflowed' = overflowed
    BY <1>7 DEF Forward, Newest
  <2>2. Append(c, forwarding) = c \o <<forwarding>> /\ Len(Append(c, forwarding)) <= BatchRoom
    BY <1>3, <1>4, <1>7
  <2>3. /\ <<forwarding>> \in Seq(1..MaxLines) /\ Rising(<<forwarding>>)
        /\ Range(<<forwarding>>) = {forwarding}
    BY <1>3, <1>4, RisingOne
  <2>4. Rising(c) /\ Under(Range(c), {forwarding})
    BY <1>2, <1>4 DEF LinkRising, LinkOrder, Sequel
  <2> HIDE DEF c
  <2>5. /\ Append(c, forwarding) \in Seq(1..MaxLines) /\ Rising(Append(c, forwarding))
        /\ Range(Append(c, forwarding)) \subseteq Range(c) \cup {forwarding}
    <3> DEFINE t == <<forwarding>>
    <3>1. t \in Seq(1..MaxLines) /\ Rising(t) /\ Range(t) = {forwarding}
      BY <2>3
    <3> HIDE DEF t
    <3>2. c \in Seq(1..MaxLines) /\ Rising(c) /\ Under(Range(c), Range(t))
      BY <1>4, <2>4, <3>1
    <3>3. /\ c \o t \in Seq(1..MaxLines) /\ Rising(c \o t)
          /\ Range(c \o t) \subseteq Range(c) \cup Range(t)
      BY <1>3, <3>1, <3>2, RisingJoined
    <3>4. Append(c, forwarding) = c \o t
      BY <2>2 DEF t
    <3>5. QED
      BY <3>1, <3>3, <3>4
  <2>6. peer_batch'.counted = Append(c, forwarding) /\ peer_batch'.behind = NoText /\ NoText.n = 0
    BY <2>1 DEF NoText
  <2>7. Pending(peer_batch'.behind.n) = {} /\ Pending(forwarding') = {}
    BY <1>1, <1>4, <2>6
  <2>8. LinkOrder'
    <3>1. Sequel(Range(received), Range(InRequest), Range(c), Pending(peer_batch.behind.n),
                 {forwarding}, Numbered(line), Numbered(wire), sent)
      BY <1>2, <1>4 DEF LinkOrder, c
    <3>2. Sequel(Range(received), Range(InRequest), Range(peer_batch'.counted), {},
                 {}, Numbered(line), Numbered(wire), sent)
      BY <2>5, <2>6, <3>1, SequelCounted
    <3>3. QED
      BY <1>5, <2>7, <3>2 DEF LinkOrder
  <2>9. LinkRising' /\ LinkIdle'
    BY <1>2, <1>5, <2>5, <2>6 DEF LinkRising, LinkIdle, ReportingAt
  <2>10. NoText \in Uncounted
    BY <1>3 DEF NoText, Uncounted
  <2>11. peer_batch' \in Batch
    BY <2>1, <2>5, <2>10 DEF Batch
  <2>12. forwarding' \in 0..MaxLines
    BY <1>1, <1>3
  <2>13. LinkTypeOK'
    BY <1>2, <1>5, <2>1, <2>2, <2>6, <2>11, <2>12 DEF LinkTypeOK
  <2>14. QED
    BY <1>6, <2>8, <2>9, <2>13 DEF LinkOrderIInv
<1>8. CASE ~ (Len(c) < BatchRoom)
  <2>1. Behind /\ overflowed' = TRUE
    BY <1>8 DEF Forward
  <2>2. PICK half \in BOOLEAN :
          peer_batch' = [peer_batch EXCEPT !.behind = [n |-> forwarding, half |-> half]]
    BY <2>1 DEF Behind
  <2>3. /\ peer_batch'.counted = c /\ peer_batch'.behind = [n |-> forwarding, half |-> half]
        /\ peer_batch'.behind.n = forwarding
    BY <1>4, <2>2 DEF Batch
  <2>4. [n |-> forwarding, half |-> half] \in Uncounted
    BY <1>3, <1>4 DEF Uncounted
  <2>5. peer_batch' \in Batch
    BY <1>4, <2>2, <2>4 DEF Batch
  <2>6. Pending(peer_batch'.behind.n) = Pending(forwarding) /\ Pending(forwarding') = {}
    BY <1>1, <1>4, <2>3
  <2>7. LinkOrder'
    BY <1>2, <1>5, <2>3, <2>6, SequelLeft DEF LinkOrder
  <2>8. LinkRising' /\ LinkIdle'
    BY <1>1, <1>2, <1>5, <2>3 DEF LinkRising, LinkIdle, ReportingAt
  <2>9. forwarding' \in 0..MaxLines /\ Len(peer_batch'.counted) <= BatchRoom
    BY <1>1, <1>2, <1>3, <2>3 DEF LinkTypeOK
  <2>10. LinkTypeOK'
    BY <1>2, <1>5, <2>1, <2>5, <2>9 DEF LinkTypeOK
  <2>11. QED
    BY <1>6, <2>7, <2>8, <2>10 DEF LinkOrderIInv
<1>9. QED
  BY <1>7, <1>8

LEMMA LinkOrderStep == LinkOrderIInv /\ [LinkNext]_linkVars => LinkOrderIInv'
<1> SUFFICES ASSUME LinkOrderIInv, [LinkNext]_linkVars PROVE LinkOrderIInv'
  OBVIOUS
<1>1. CASE UNCHANGED linkVars
  BY <1>1 DEF linkVars, sensor, master, uplink, LinkOrderIInv, LinkTypeOK, LinkOrder, LinkRising,
     LinkIdle, LinkCounts, InRequest, ReportingAt
<1>2. CASE \E kind \in Kinds : SendLine(kind)
  BY <1>2, SendLineOrder
<1>3. CASE StatusInterval \/ OwnReports \/ NothingToFlush \/ Beat \/ NetworkUp \/ NetworkDown
  BY <1>3, IdleSteps
<1>4. CASE Arrive \/ Garbled \/ Lost
  BY <1>4, ArriveOrder
<1>5. CASE Forward
  BY <1>5, ForwardOrder
<1>6. CASE Flush
  BY <1>6, FlushOrder
<1>7. CASE Posted \/ Unreachable \/ PostFails
  BY <1>7, PostOrder
<1>8. QED
  BY <1>1, <1>2, <1>3, <1>4, <1>5, <1>6, <1>7 DEF LinkNext, master_task, reporting_task

\* The variables of the sensor link keep their types: neither the buffer of the line nor the
\* batch outgrows its array.
THEOREM LinkTyped == LinkSpec => []LinkTypeOK
<1>1. LinkSpec => []LinkOrderIInv
  BY LinkOrderInit, LinkOrderStep, PTL DEF LinkSpec
<1>2. LinkOrderIInv => LinkTypeOK
  BY DEF LinkOrderIInv
<1>3. QED
  BY <1>1, <1>2, PTL

\* uplink_forward_peer_contact and flush_peer_batch: what the server has of the sensor, what
\* the request carries and what waits behind it are each contact once at most, in the order
\* in which the sensor wrote them, whatever the wire does and however many requests fail
\* after they got through.
THEOREM ForwardedInOrderOnce ==
  LinkSpec => []Rising(received \o InRequest \o peer_batch.counted)
<1>1. LinkSpec => []LinkOrderIInv
  BY LinkOrderInit, LinkOrderStep, PTL DEF LinkSpec
<1>2. LinkOrderIInv => Rising(received \o InRequest \o peer_batch.counted)
  <2> SUFFICES ASSUME LinkOrderIInv PROVE Rising(received \o InRequest \o peer_batch.counted)
    OBVIOUS
  <2> DEFINE s == received
             t == InRequest
             u == peer_batch.counted
             N == MaxLines
  <2>1. LinkTypeOK /\ LinkOrder /\ LinkRising /\ N \in Nat
    BY PeerLinkAssumption DEF LinkOrderIInv
  <2>2. s \in Seq(1..N) /\ t \in Seq(1..N) /\ u \in Seq(1..N)
    BY <2>1, InRequestType DEF LinkTypeOK, Batch
  <2>3. Rising(s) /\ Rising(t) /\ Rising(u)
    BY <2>1 DEF LinkRising
  <2>4. Under(Range(s), Range(t)) /\ Under(Range(s), Range(u)) /\ Under(Range(t), Range(u))
    BY <2>1 DEF LinkOrder, Sequel
  <2> HIDE DEF s, t, u, N
  <2>5. s \o t \in Seq(1..N) /\ Rising(s \o t) /\ Range(s \o t) \subseteq Range(s) \cup Range(t)
    BY <2>1, <2>2, <2>3, <2>4, RisingJoined
  <2>6. Under(Range(s \o t), Range(u))
    BY <2>4, <2>5 DEF Under
  <2> DEFINE v == s \o t
  <2>7. v \in Seq(1..N) /\ Rising(v) /\ Under(Range(v), Range(u))
    BY <2>5, <2>6
  <2> HIDE DEF v
  <2>8. Rising(v \o u)
    BY <2>1, <2>2, <2>3, <2>7, RisingJoined
  <2>9. QED
    BY <2>8 DEF s, t, u, v
<1>3. QED
  BY <1>1, <1>2, PTL
=============================================================================
