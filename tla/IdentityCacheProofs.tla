------------------------- MODULE IdentityCacheProofs -------------------------
(* Theorems about IdentityCache, for any addresses, IDs, threads, horizons   *)
(* and bounds.                                                               *)
EXTENDS IdentityCache, TLAPS

\* A finaliser in its loop has an ID and an address in hand, and the row it has
\* read is still there, for the same ID: no write changes a row's uas_id.
InHand ==
  \A f \in Finalisers :
    LET c == finaliser[f]
    IN  /\ c.pc # "idle" => c.id \in Uas
        /\ c.pc = "write" => c.mac \in Macs
        /\ c.pc = "write" /\ c.existing # NONE =>
             mac_identity[c.mac] # NONE /\ mac_identity[c.mac].uas_id = c.existing.uas_id

\* Whoever tried to record an ID for address m named that of the row, or had looked
\* before there was one; and who came first made the row.
Unchallenged(m) ==
  /\ tried[m] # <<>> /\ tried[m][1].id = mac_identity[m].uas_id
  /\ ~ mac_identity[m].quarantined =>
       \A i \in DOMAIN tried[m] : tried[m][i].blind \/ tried[m][i].id = mac_identity[m].uas_id

\* A row that is not quarantined stands for what was recorded for its address, as often
\* as sightings says.
RowSound(m) ==
  IF mac_identity[m] = NONE
  THEN record[m] = <<>> /\ tried[m] = <<>>
  ELSE /\ Unchallenged(m)
       /\ ~ mac_identity[m].quarantined => Len(record[m]) = mac_identity[m].sightings

IInv == TypeOK /\ InHand /\ \A m \in Macs : RowSound(m)

LEMMA IdleType == MaxTime \in Nat => Idle \in Finaliser
  BY DEF Idle, Finaliser, Time

\* A finaliser about to try the addresses in S for ID u.
LEMMA NextType ==
  ASSUME NEW S \in SUBSET Macs, NEW u \in Uas
  PROVE  LET r == [Idle EXCEPT !.pc = "next", !.macs = S, !.id = u]
         IN  r \in Finaliser /\ r.pc = "next" /\ r.id \in Uas
<1>1. Idle \in Finaliser
  BY IdleType, IdentityAssumption
<1>2. QED
  BY <1>1 DEF Finaliser

\* What a contact that tried to record its ID leaves in the history.
Trial(u, b) == [id |-> u, blind |-> b]

\* Appending to a history keeps what it holds and adds one entry at its end.
LEMMA AppendEntry ==
  ASSUME NEW S, NEW s \in Seq(S), NEW x \in S
  PROVE  /\ Append(s, x) \in Seq(S) /\ Len(Append(s, x)) = Len(s) + 1 /\ Append(s, x) # <<>>
         /\ DOMAIN s = 1..Len(s) /\ DOMAIN Append(s, x) = 1..(Len(s) + 1) /\ Len(s) \in Nat
         /\ \A i \in 1..(Len(s) + 1) : Append(s, x)[i] = IF i <= Len(s) THEN s[i] ELSE x
  OBVIOUS

\* One more contact has tried to record ID u for address m, and the row, if it was there, has
\* kept its ID.
LEMMA StaysUnchallenged ==
  ASSUME IInv, NEW m \in Macs, NEW u \in Uas, NEW b \in BOOLEAN,
         tried'[m] = Append(tried[m], Trial(u, b)),
         mac_identity'[m] # NONE,
         IF mac_identity[m] = NONE
         THEN mac_identity'[m].uas_id = u
         ELSE /\ mac_identity'[m].uas_id = mac_identity[m].uas_id
              /\ ~ mac_identity'[m].quarantined =>
                   ~ mac_identity[m].quarantined /\ (b \/ u = mac_identity[m].uas_id)
  PROVE  Unchallenged(m)'
<1> DEFINE s == tried[m]
           x == Trial(u, b)
<1>1. s \in Seq([id : Uas, blind : BOOLEAN]) /\ x \in [id : Uas, blind : BOOLEAN]
  BY DEF IInv, TypeOK, Trial
<1>2. x.id = u /\ x.blind = b
  BY DEF Trial
<1>3. tried'[m] = Append(s, x)
  OBVIOUS
<1> HIDE DEF s, x
<1>4. /\ tried'[m] # <<>> /\ DOMAIN s = 1..Len(s) /\ Len(s) \in Nat
      /\ DOMAIN tried'[m] = 1..(Len(s) + 1)
      /\ \A i \in 1..(Len(s) + 1) : tried'[m][i] = IF i <= Len(s) THEN s[i] ELSE x
  BY <1>1, <1>3, AppendEntry
<1>5. CASE mac_identity[m] = NONE
  <2>1. s = <<>>
    BY <1>5 DEF IInv, RowSound, s
  <2>2. Len(s) = 0
    BY <2>1
  <2>3. tried'[m][1] = x /\ DOMAIN tried'[m] = {1}
    BY <1>4, <2>2
  <2>4. QED
    BY <1>2, <1>4, <1>5, <2>3 DEF Unchallenged
<1>6. CASE mac_identity[m] # NONE
  <2>1. /\ s # <<>> /\ s[1].id = mac_identity[m].uas_id
        /\ ~ mac_identity[m].quarantined =>
             \A i \in DOMAIN s : s[i].blind \/ s[i].id = mac_identity[m].uas_id
    BY <1>6 DEF IInv, RowSound, Unchallenged, s
  <2>2. Len(s) >= 1
    BY <1>1, <1>4, <2>1
  <2>3. tried'[m][1].id = mac_identity'[m].uas_id
    BY <1>4, <1>6, <2>1, <2>2
  <2>4. ASSUME ~ mac_identity'[m].quarantined, NEW i \in DOMAIN tried'[m]
        PROVE  tried'[m][i].blind \/ tried'[m][i].id = mac_identity'[m].uas_id
    <3>1. CASE i <= Len(s)
      <4>1. tried'[m][i] = s[i] /\ i \in DOMAIN s
        BY <1>4, <2>4, <3>1
      <4>2. QED
        BY <1>6, <2>1, <2>4, <4>1
    <3>2. CASE ~ (i <= Len(s))
      <4>1. tried'[m][i] = x
        BY <1>4, <2>4, <3>2
      <4>2. QED
        BY <1>2, <1>6, <2>4, <4>1
    <3>3. QED
      BY <3>1, <3>2
  <2>5. QED
    BY <1>4, <2>3, <2>4 DEF Unchallenged
<1>7. QED
  BY <1>5, <1>6

LEMMA InitIInv == Init => IInv
<1> SUFFICES ASSUME Init PROVE IInv
  OBVIOUS
<1>1. TypeOK
  BY IdentityAssumption, IdleType DEF Init, TypeOK, Time
<1>2. InHand /\ \A m \in Macs : RowSound(m)
  BY DEF Init, InHand, Idle, RowSound
<1>3. QED
  BY <1>1, <1>2 DEF IInv
-----------------------------------------------------------------------------
\* A step that changes no row and no record, and after which the loops are well
\* formed and hold nothing they did not hold, keeps the invariant.
LEMMA LoopStep ==
  ASSUME IInv, UNCHANGED <<mac_identity, record, tried>>,
         now' \in Time, contacts' \in 0..MaxContacts, faults' \in 0..MaxFaults,
         finaliser' \in [Finalisers -> Finaliser],
         \A f \in Finalisers : \/ finaliser'[f] = finaliser[f]
                               \/ finaliser'[f].pc = "idle"
                               \/ finaliser'[f].pc = "next" /\ finaliser'[f].id \in Uas
                               \/ /\ finaliser'[f].pc = "write" /\ finaliser'[f].id \in Uas
                                  /\ finaliser'[f].mac \in Macs
                                  /\ finaliser'[f].existing = mac_identity[finaliser'[f].mac]
  PROVE  IInv'
<1>1. TypeOK'
  BY DEF IInv, TypeOK
<1>2. InHand'
  BY DEF IInv, InHand
<1>3. ASSUME NEW m \in Macs PROVE RowSound(m)'
  BY DEF IInv, RowSound, Unchallenged
<1>4. QED
  BY <1>1, <1>2, <1>3 DEF IInv

LEMMA AdvancedType ==
  ASSUME IInv, NEW f \in Finalisers, finaliser[f].pc = "write"
  PROVE  /\ Advanced(f) \in [Finalisers -> Finaliser]
         /\ \A g \in Finalisers \ {f} : Advanced(f)[g] = finaliser[g]
         /\ \/ Advanced(f)[f].pc = "idle"
            \/ Advanced(f)[f].pc = "next" /\ Advanced(f)[f].id \in Uas
<1> DEFINE left == finaliser[f].macs \ {finaliser[f].mac}
           r == IF left = {} THEN Idle
                ELSE [Idle EXCEPT !.pc = "next", !.macs = left, !.id = finaliser[f].id]
<1>1. finaliser \in [Finalisers -> Finaliser] /\ left \in SUBSET Macs /\ finaliser[f].id \in Uas
  BY DEF IInv, TypeOK, InHand, Finaliser
<1>2. r \in Finaliser /\ (r.pc = "idle" \/ (r.pc = "next" /\ r.id \in Uas))
  <2>1. CASE left = {}
    <3>1. Idle \in Finaliser /\ Idle.pc = "idle"
      BY IdleType, IdentityAssumption DEF Idle
    <3>2. QED
      BY <2>1, <3>1
  <2>2. CASE left # {}
    BY <1>1, <2>2, NextType
  <2>3. QED
    BY <2>1, <2>2
<1>3. Advanced(f) = [finaliser EXCEPT ![f] = r]
  BY DEF Advanced
<1> HIDE DEF r
<1>4. QED
  BY <1>1, <1>2, <1>3

LEMMA BeginIInv == ASSUME IInv, NEW f \in Finalisers, Begin(f) PROVE IInv'
<1>1. PICK S \in SUBSET Macs, u \in Uas :
        finaliser' = [finaliser EXCEPT ![f] = [Idle EXCEPT !.pc = "next", !.macs = S, !.id = u]]
  BY DEF Begin
<1> DEFINE r == [Idle EXCEPT !.pc = "next", !.macs = S, !.id = u]
<1>2. r \in Finaliser /\ r.pc = "next" /\ r.id \in Uas
  BY NextType
<1> HIDE DEF r
<1>3. finaliser' \in [Finalisers -> Finaliser]
  BY <1>1, <1>2 DEF IInv, TypeOK, r
<1>4. \A g \in Finalisers : g = f \/ finaliser'[g] = finaliser[g]
  BY <1>1 DEF IInv, TypeOK
<1>5. finaliser'[f] = r
  BY <1>1 DEF IInv, TypeOK, r
<1>6. contacts' \in 0..MaxContacts /\ now' \in Time /\ faults' \in 0..MaxFaults
      /\ UNCHANGED <<mac_identity, record, tried>>
  BY IdentityAssumption DEF IInv, TypeOK, Begin
<1>7. QED
  BY <1>2, <1>3, <1>4, <1>5, <1>6, LoopStep

LEMMA SelectIInv == ASSUME IInv, NEW f \in Finalisers, Select(f) PROVE IInv'
<1>1. PICK m \in finaliser[f].macs :
        finaliser' = [finaliser EXCEPT ![f].pc = "write", ![f].mac = m,
                                       ![f].existing = mac_identity[m], ![f].at = now]
  BY DEF Select
<1>2. finaliser[f] \in Finaliser /\ finaliser[f].id \in Uas /\ m \in Macs
  BY DEF IInv, TypeOK, InHand, Finaliser, Select
<1> DEFINE r == [finaliser[f] EXCEPT !.pc = "write", !.mac = m,
                                     !.existing = mac_identity[m], !.at = now]
<1>3. /\ r \in Finaliser /\ r.pc = "write" /\ r.id \in Uas /\ r.mac = m
      /\ r.existing = mac_identity[m]
  BY <1>2 DEF IInv, TypeOK, Finaliser
<1>4. finaliser' = [finaliser EXCEPT ![f] = r]
  BY <1>1, <1>2 DEF IInv, TypeOK, Finaliser
<1> HIDE DEF r
<1>5. finaliser' \in [Finalisers -> Finaliser]
  BY <1>3, <1>4 DEF IInv, TypeOK
<1>6. \A g \in Finalisers : finaliser'[g] = IF g = f THEN r ELSE finaliser[g]
  BY <1>4 DEF IInv, TypeOK
<1>7. now' \in Time /\ contacts' \in 0..MaxContacts /\ faults' \in 0..MaxFaults
      /\ UNCHANGED <<mac_identity, record, tried>>
  BY DEF IInv, TypeOK, Select
<1>8. QED
  BY <1>2, <1>3, <1>5, <1>6, <1>7, LoopStep

LEMMA WriteFailsIInv == ASSUME IInv, NEW f \in Finalisers, WriteFails(f) PROVE IInv'
<1>1. now' \in Time /\ contacts' \in 0..MaxContacts /\ faults' \in 0..MaxFaults
      /\ UNCHANGED <<mac_identity, record, tried>> /\ finaliser' = Advanced(f)
  BY IdentityAssumption DEF IInv, TypeOK, WriteFails
<1>2. QED
  BY <1>1, AdvancedType, LoopStep DEF WriteFails

LEMMA RestartIInv == ASSUME IInv, Restart PROVE IInv'
<1>1. now' \in Time /\ contacts' \in 0..MaxContacts /\ faults' \in 0..MaxFaults
      /\ UNCHANGED <<mac_identity, record, tried>> /\ finaliser' = [f \in Finalisers |-> Idle]
  BY IdentityAssumption DEF IInv, TypeOK, Restart
<1>2. finaliser' \in [Finalisers -> Finaliser] /\ \A f \in Finalisers : finaliser'[f].pc = "idle"
  BY <1>1, IdleType, IdentityAssumption DEF Idle
<1>3. QED
  BY <1>1, <1>2, LoopStep

LEMMA TickIInv == ASSUME IInv, Tick PROVE IInv'
<1>1. now' \in Time /\ contacts' \in 0..MaxContacts /\ faults' \in 0..MaxFaults
      /\ UNCHANGED <<mac_identity, record, tried, finaliser>>
  BY IdentityAssumption DEF IInv, TypeOK, Tick, Time
<1>2. QED
  BY <1>1, LoopStep DEF IInv, TypeOK
-----------------------------------------------------------------------------
\* The row that is written is a row, has the ID of the row that was read, and is
\* unquarantined only when the row it replaces was and the ID agrees.
LEMMA WrittenRow ==
  ASSUME IInv, NEW f \in Finalisers, finaliser[f].pc = "write",
         ~ (finaliser[f].existing = NONE /\ mac_identity[finaliser[f].mac] # NONE)
  PROVE  LET c == finaliser[f]
             old == mac_identity[c.mac]
             new == Written(old, c.existing, c.id, c.at)
         IN  /\ new \in Row /\ new # NONE
             /\ old # NONE => new.uas_id = old.uas_id
             /\ old = NONE => new.uas_id = c.id /\ new.sightings = 1
             /\ old # NONE /\ ~ new.quarantined =>
                  /\ ~ old.quarantined /\ c.id = old.uas_id
                  /\ new.sightings = old.sightings + 1
<1> DEFINE c == finaliser[f]
           old == mac_identity[c.mac]
           new == Written(old, c.existing, c.id, c.at)
<1>1. c.id \in Uas /\ c.mac \in Macs /\ c.at \in Time /\ old \in Row \cup {NONE}
      /\ c.existing \in Row \cup {NONE}
  BY DEF IInv, TypeOK, InHand, Finaliser
<1>2. c.existing # NONE => old # NONE /\ old.uas_id = c.existing.uas_id
  BY DEF IInv, InHand
<1>3. CASE c.existing = NONE
  <2>1. new = Fresh(c.id, c.at) /\ old = NONE
    BY <1>3 DEF Written
  <2>2. Fresh(c.id, c.at) \in Row
    BY <1>1 DEF Fresh, Row
  <2>3. QED
    <3>1. new \in Row /\ new # NONE
      BY <2>1, <2>2, IdentityAssumption
    <3>2. new.uas_id = c.id /\ new.sightings = 1
      BY <2>1 DEF Fresh
    <3>3. QED
      BY <2>1, <3>1, <3>2
<1>4. CASE c.existing # NONE
  <2>1. old \in Row /\ old.uas_id = c.existing.uas_id
    BY <1>1, <1>2, <1>4
  <2>2. CASE c.existing.uas_id = c.id
    <3>1. new = [old EXCEPT !.last_decoded_at = c.at, !.sightings = @ + 1]
      BY <1>4, <2>2 DEF Written
    <3>2. QED
      <4> DEFINE sum == [uas_id |-> old.uas_id, last_decoded_at |-> c.at,
                         sightings |-> old.sightings + 1, quarantined |-> old.quarantined]
      <4>0. sum \in Row
        BY <1>1, <2>1 DEF Row
      <4>1. new \in Row
        <5>1. new = sum
          BY <2>1, <3>1 DEF Row
        <5>2. QED
          BY <4>0, <5>1
      <4>2. new.uas_id = old.uas_id /\ new.quarantined = old.quarantined
            /\ new.sightings = old.sightings + 1
        BY <2>1, <3>1 DEF Row
      <4>3. QED
        BY <2>1, <2>2, <4>1, <4>2, IdentityAssumption
  <2>3. CASE c.existing.uas_id # c.id
    <3>1. new = [old EXCEPT !.quarantined = TRUE, !.last_decoded_at = c.at]
      BY <1>4, <2>3 DEF Written
    <3>2. QED
      BY <1>1, <2>1, <3>1, IdentityAssumption DEF Row
  <2>4. QED
    BY <2>2, <2>3
<1>5. QED
  BY <1>3, <1>4

LEMMA WriteIInv == ASSUME IInv, NEW f \in Finalisers, Write(f) PROVE IInv'
<1> DEFINE c == finaliser[f]
           m == c.mac
           old == mac_identity[m]
           new == Written(old, c.existing, c.id, c.at)
           lost == c.existing = NONE /\ old # NONE
           blind == c.existing = NONE
<1>1. c.pc = "write" /\ m \in Macs /\ c.id \in Uas /\ finaliser' = Advanced(f)
      /\ UNCHANGED <<now, contacts, faults>>
  BY DEF IInv, InHand, Write
<1>2. tried' = [tried EXCEPT ![m] = Append(@, Trial(c.id, blind))]
  BY DEF Write, Trial
<1>3. record[m] \in Seq(Uas) /\ tried[m] \in Seq([id : Uas, blind : BOOLEAN])
      /\ Trial(c.id, blind) \in [id : Uas, blind : BOOLEAN]
  BY <1>1 DEF IInv, TypeOK, Trial
<1>4. /\ tried'[m] = Append(tried[m], Trial(c.id, blind))
      /\ \A n \in Macs \ {m} : tried'[n] = tried[n]
      /\ tried' \in [Macs -> Seq([id : Uas, blind : BOOLEAN])]
  BY <1>1, <1>2, <1>3, AppendEntry DEF IInv, TypeOK
<1>5. lost => UNCHANGED <<mac_identity, record>>
  BY DEF Write
<1>6. ~ lost => /\ mac_identity' = [mac_identity EXCEPT ![m] = new]
                /\ record' = [record EXCEPT ![m] = Append(@, c.id)]
  BY DEF Write
<1>7. ~ lost =>
        /\ new \in Row /\ new # NONE
        /\ old # NONE => new.uas_id = old.uas_id
        /\ old = NONE => new.uas_id = c.id /\ new.sightings = 1
        /\ old # NONE /\ ~ new.quarantined =>
             /\ ~ old.quarantined /\ c.id = old.uas_id
             /\ new.sightings = old.sightings + 1
  BY <1>1, WrittenRow
<1>8. lost => blind
  OBVIOUS
<1> HIDE DEF new, lost, blind
<1>9. TypeOK'
  <2>1. CASE lost
    BY <1>1, <1>4, <1>5, <2>1, AdvancedType DEF IInv, TypeOK
  <2>2. CASE ~ lost
    <3>1. mac_identity' \in [Macs -> Row \cup {NONE}]
      <4>1. mac_identity \in [Macs -> Row \cup {NONE}] /\ new \in Row
        BY <1>7, <2>2 DEF IInv, TypeOK
      <4>2. QED
        BY <1>6, <2>2, <4>1
    <3>2. record' \in [Macs -> Seq(Uas)]
      <4>1. Append(record[m], c.id) \in Seq(Uas)
        BY <1>1, <1>3, AppendEntry
      <4>2. record \in [Macs -> Seq(Uas)] /\ m \in Macs
        BY <1>1 DEF IInv, TypeOK
      <4>3. QED
        BY <1>6, <2>2, <4>1, <4>2
    <3>3. finaliser' \in [Finalisers -> Finaliser]
      BY <1>1, AdvancedType
    <3>4. now' \in Time /\ contacts' \in 0..MaxContacts /\ faults' \in 0..MaxFaults
      BY <1>1 DEF IInv, TypeOK
    <3>5. QED
      BY <1>4, <3>1, <3>2, <3>3, <3>4 DEF TypeOK
  <2>3. QED
    BY <2>1, <2>2
<1>10. InHand'
  <2>1. \A n \in Macs : mac_identity[n] # NONE =>
          mac_identity'[n] # NONE /\ mac_identity'[n].uas_id = mac_identity[n].uas_id
    BY <1>1, <1>5, <1>6, <1>7 DEF IInv, TypeOK
  <2>2. QED
    BY <1>1, <2>1, AdvancedType DEF IInv, InHand
<1>11. ASSUME NEW n \in Macs \ {m} PROVE RowSound(n)'
  <2>1. mac_identity'[n] = mac_identity[n] /\ record'[n] = record[n] /\ tried'[n] = tried[n]
    BY <1>1, <1>4, <1>5, <1>6 DEF IInv, TypeOK
  <2>2. QED
    BY <2>1 DEF IInv, RowSound, Unchallenged
<1>12. ASSUME NEW n \in Macs, n = m PROVE RowSound(n)'
  <2>1. /\ tried'[n] = Append(tried[n], Trial(c.id, blind)) /\ blind \in BOOLEAN
        /\ mac_identity[n] = old /\ RowSound(n)
    BY <1>4, <1>12 DEF IInv, blind
  <2>2. CASE lost
    <3>1. old # NONE /\ mac_identity'[n] = old /\ record'[n] = record[n]
      BY <1>5, <1>12, <2>2 DEF lost
    <3>2. Unchallenged(n)'
      BY <1>1, <1>8, <2>1, <2>2, <3>1, StaysUnchallenged
    <3>3. ~ old.quarantined => Len(record[n]) = old.sightings
      BY <2>1, <3>1 DEF RowSound
    <3>4. QED
      BY <3>1, <3>2, <3>3 DEF RowSound
  <2>3. CASE ~ lost
    <3>1. mac_identity'[n] = new /\ record'[n] = Append(record[n], c.id) /\ new # NONE
      BY <1>1, <1>6, <1>7, <1>12, <2>3 DEF IInv, TypeOK
    <3>2. Unchallenged(n)'
      <4>1. IF mac_identity[n] = NONE
            THEN mac_identity'[n].uas_id = c.id
            ELSE /\ mac_identity'[n].uas_id = mac_identity[n].uas_id
                 /\ ~ mac_identity'[n].quarantined =>
                      ~ mac_identity[n].quarantined /\ (blind \/ c.id = mac_identity[n].uas_id)
        BY <1>7, <2>1, <2>3, <3>1
      <4>2. QED
        BY <1>1, <2>1, <3>1, <4>1, StaysUnchallenged
    <3>3. Len(record'[n]) = Len(record[n]) + 1 /\ (record[n] = <<>> => Len(record[n]) = 0)
      BY <1>1, <1>3, <1>12, <3>1
    <3>4. /\ old = NONE => record[n] = <<>>
          /\ old # NONE /\ ~ old.quarantined => Len(record[n]) = old.sightings
      BY <2>1 DEF RowSound
    <3>5. ~ new.quarantined => Len(record'[n]) = new.sightings
      BY <1>7, <2>3, <3>3, <3>4
    <3>6. QED
      BY <3>1, <3>2, <3>5 DEF RowSound
  <2>4. QED
    BY <2>2, <2>3
<1>13. QED
  BY <1>9, <1>10, <1>11, <1>12 DEF IInv

LEMMA StepIInv == IInv /\ [Next]_vars => IInv'
<1> SUFFICES ASSUME IInv, [Next]_vars PROVE IInv'
  OBVIOUS
<1>1. CASE UNCHANGED vars
  BY <1>1 DEF IInv, TypeOK, InHand, RowSound, Unchallenged, vars
<1>2. ASSUME NEW f \in Finalisers, Begin(f) \/ Select(f) \/ Write(f) \/ WriteFails(f)
      PROVE  IInv'
  BY <1>2, BeginIInv, SelectIInv, WriteIInv, WriteFailsIInv
<1>3. QED
  BY <1>1, <1>2, RestartIInv, TickIInv DEF Next, Horizon

\* What the rows of mac_identity say of what contacts tried to record.
THEOREM Inductive == Spec => []IInv
  BY InitIInv, StepIInv, PTL DEF Spec

\* Whatever the finalisers' interleaving, the failed writes and the restarts, the cache
\* answers for an address with the ID it was first recorded with, and only while no contact
\* that found the row has tried to record another: the conflicts that are forgotten are
\* those of contacts that looked before there was a row.
THEOREM InferenceIsUnchallenged == Spec => []InferredIsUnchallenged
<1>1. IInv => InferredIsUnchallenged
  BY DEF IInv, RowSound, Unchallenged, InferredIsUnchallenged, Answering, Unquarantined, Questions
<1>2. QED
  BY <1>1, Inductive, PTL

\* An inference older than the weak horizon rests on as many recorded contacts
\* as the strong one asks for.
THEOREM OldInferenceIsStrong == Spec => []OldAnswersAreStrong
<1> DEFINE Old == OldAnswersAreStrong
<1>1. ASSUME IInv PROVE Old
  <2> SUFFICES ASSUME NEW S \in Questions, NEW m \in Answering(S),
                      now - mac_identity[m].last_decoded_at > WeakTtl
               PROVE  Len(record[m]) >= Strong
    BY DEF OldAnswersAreStrong
  <2>1. m \in Macs /\ mac_identity[m] # NONE /\ ~ mac_identity[m].quarantined /\ Usable(m)
    BY DEF Answering, Unquarantined, Questions
  <2>2. mac_identity[m].last_decoded_at \in Nat /\ now \in Nat /\ WeakTtl \in Nat
    BY <1>1, <2>1, IdentityAssumption DEF IInv, TypeOK, Row, Time
  <2>3. mac_identity[m].sightings >= Strong
    BY <2>1, <2>2 DEF Usable, Ttl
  <2>4. QED
    BY <1>1, <2>1, <2>3 DEF IInv, RowSound
<1>2. QED
  BY <1>1, Inductive, PTL
=============================================================================
