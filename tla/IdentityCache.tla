---------------------------- MODULE IdentityCache ----------------------------
(***************************************************************************)
(* The identity cache of the Raspberry Pi receiver: the mac_identity table *)
(* of radio_tracker.py, written by remember_identity and read by           *)
(* lookup_identity, both on the threads of contact timers.                 *)
(*                                                                         *)
(* Finalisers of several contacts run at once, and remember_identity is a  *)
(* SELECT followed by a write in a transaction of its own, so another      *)
(* finaliser's write may come between the two.  The table survives the     *)
(* process.                                                                *)
(***************************************************************************)
EXTENDS Integers, Sequences

CONSTANTS
  Macs,         \* transport addresses
  Uas,          \* UAS IDs
  Finalisers,   \* timer threads that may be finalising at once (a bound)
  WeakTtl,      \* IDENTITY_WEAK_TTL_SECONDS, in ticks
  StrongTtl,    \* IDENTITY_STRONG_TTL_SECONDS, in ticks
  Strong,       \* IDENTITY_STRONG_SIGHTINGS
  MaxContacts,  \* how many contacts are finalised in all (a bound)
  MaxFaults,    \* failed writes and restarts (a bound)
  MaxTime,      \* the horizon (a bound)
  NONE

Time == 0..MaxTime

Row == [uas_id : Uas, last_decoded_at : Time, sightings : Nat \ {0},
        quarantined : BOOLEAN]

ASSUME IdentityAssumption ==
  /\ WeakTtl \in Nat /\ StrongTtl \in Nat /\ Strong \in Nat \ {0}
  /\ MaxContacts \in Nat /\ MaxFaults \in Nat /\ MaxTime \in Nat
  /\ NONE \notin Macs \cup Uas \cup Row

VARIABLES
  now,
  mac_identity,  \* mac -> its row, NONE when there is none
  finaliser,     \* timer thread -> where it is in its loop over the addresses
  contacts,      \* how many contacts have been finalised
  faults,
  record,        \* history: mac -> the IDs recorded for it, oldest first
  tried          \* history: mac -> the IDs whose write was tried, lost to another or not,
                 \* and whether the SELECT before it had found no row

vars == <<now, mac_identity, finaliser, contacts, faults, record, tried>>

Idle == [pc |-> "idle", macs |-> {}, mac |-> NONE, id |-> NONE, existing |-> NONE, at |-> 0]
Finaliser == [pc : {"idle", "next", "write"}, macs : SUBSET Macs, mac : Macs \cup {NONE},
              id : Uas \cup {NONE}, existing : Row \cup {NONE}, at : Time]

TypeOK ==
  /\ now \in Time
  /\ mac_identity \in [Macs -> Row \cup {NONE}]
  /\ finaliser \in [Finalisers -> Finaliser]
  /\ contacts \in 0..MaxContacts
  /\ faults \in 0..MaxFaults
  /\ record \in [Macs -> Seq(Uas)]
  /\ tried \in [Macs -> Seq([id : Uas, blind : BOOLEAN])]

Init ==
  /\ now = 0
  /\ mac_identity = [m \in Macs |-> NONE]
  /\ finaliser = [f \in Finalisers |-> Idle]
  /\ contacts = 0
  /\ faults = 0
  /\ record = [m \in Macs |-> <<>>]
  /\ tried = [m \in Macs |-> <<>>]

-----------------------------------------------------------------------------
(* remember_identity, once for each address of a finalised contact.        *)

\* A contact that decoded an ID reaches its finalisation.
Begin(f) ==
  /\ finaliser[f].pc = "idle"
  /\ contacts < MaxContacts
  /\ contacts' = contacts + 1
  /\ \E S \in SUBSET Macs \ {{}}, u \in Uas :
       finaliser' = [finaliser EXCEPT ![f] = [Idle EXCEPT !.pc = "next", !.macs = S, !.id = u]]
  /\ UNCHANGED <<now, mac_identity, faults, record, tried>>

\* existing = SELECT ..., and the clock is read.
Select(f) ==
  /\ finaliser[f].pc = "next"
  /\ \E m \in finaliser[f].macs :
       finaliser' = [finaliser EXCEPT ![f].pc = "write", ![f].mac = m,
                                      ![f].existing = mac_identity[m], ![f].at = now]
  /\ UNCHANGED <<now, mac_identity, contacts, faults, record, tried>>

\* The loop goes on to the next address, or ends.
Advanced(f) ==
  LET left == finaliser[f].macs \ {finaliser[f].mac}
  IN  [finaliser EXCEPT ![f] = IF left = {} THEN Idle
                               ELSE [Idle EXCEPT !.pc = "next", !.macs = left,
                                                 !.id = finaliser[f].id]]

\* The row of an address seen for the first time.
Fresh(u, at) == [uas_id |-> u, last_decoded_at |-> at, sightings |-> 1, quarantined |-> FALSE]

\* The row a finaliser writes for ID u, given the one it has read.
Overwritten(current, existing, u, at) ==
  IF existing = NONE \/ existing.uas_id # u
  THEN Fresh(u, at)
  ELSE [current EXCEPT !.last_decoded_at = at, !.sightings = @ + 1]
Written(current, existing, u, at) ==
  IF existing = NONE THEN Fresh(u, at)
  ELSE IF existing.uas_id = u
       THEN [current EXCEPT !.last_decoded_at = at, !.sightings = @ + 1]
       ELSE [current EXCEPT !.quarantined = TRUE, !.last_decoded_at = at]

\* INSERT or UPDATE, and commit.  An INSERT that finds the row there raises and
\* is caught, like any other failure: nothing is written.
Write(f) ==
  LET c == finaliser[f]
      m == c.mac
  IN  /\ c.pc = "write"
      /\ IF c.existing = NONE /\ mac_identity[m] # NONE
         THEN UNCHANGED <<mac_identity, record>>
         ELSE /\ mac_identity' = [mac_identity EXCEPT ![m] = Written(@, c.existing, c.id, c.at)]
              /\ record' = [record EXCEPT ![m] = Append(@, c.id)]
      /\ tried' = [tried EXCEPT ![m] = Append(@, [id |-> c.id, blind |-> c.existing = NONE])]
      /\ finaliser' = Advanced(f)
      /\ UNCHANGED <<now, contacts, faults>>

\* The database stayed locked for SQLITE_BUSY_TIMEOUT: caught, and the next
\* address is tried.
WriteFails(f) ==
  /\ finaliser[f].pc = "write"
  /\ faults < MaxFaults
  /\ faults' = faults + 1
  /\ finaliser' = Advanced(f)
  /\ UNCHANGED <<now, mac_identity, contacts, record, tried>>

\* The process restarts: timer threads are daemons, committed rows stay.
Restart ==
  /\ faults < MaxFaults
  /\ faults' = faults + 1
  /\ finaliser' = [f \in Finalisers |-> Idle]
  /\ \E f \in Finalisers : finaliser[f].pc # "idle"
  /\ UNCHANGED <<now, mac_identity, contacts, record, tried>>

\* A tick is far longer than the SQLITE_BUSY_TIMEOUT a write may wait.
Tick ==
  /\ now < MaxTime
  /\ \A f \in Finalisers : finaliser[f].pc = "write" => finaliser[f].at = now
  /\ now' = now + 1
  /\ UNCHANGED <<mac_identity, finaliser, contacts, faults, record, tried>>

\* The horizon of the model: every finaliser is done and time stands still.
Horizon ==
  /\ now = MaxTime /\ contacts = MaxContacts
  /\ \A f \in Finalisers : finaliser[f].pc = "idle"
  /\ UNCHANGED vars

Next == \/ \E f \in Finalisers : Begin(f) \/ Select(f) \/ Write(f) \/ WriteFails(f)
        \/ Restart
        \/ Tick
        \/ Horizon

Spec == Init /\ [][Next]_vars

-----------------------------------------------------------------------------
(* lookup_identity, which is one SELECT: what it answers in this state.    *)

Unquarantined(m) == mac_identity[m] # NONE /\ ~ mac_identity[m].quarantined

OneSightingIsStrong(m) == StrongTtl
Ttl(m) == IF mac_identity[m].sightings >= Strong THEN StrongTtl ELSE WeakTtl
Usable(m) == now - mac_identity[m].last_decoded_at <= Ttl(m)

\* The addresses whose row lookup_identity may return: the rows are tried from
\* the most recently decoded to the least, equal times in any order.
Answering(S) ==
  {m \in S : /\ Unquarantined(m) /\ Usable(m)
             /\ \A n \in S : Unquarantined(n) /\ Usable(n) =>
                  mac_identity[n].last_decoded_at <= mac_identity[m].last_decoded_at}

-----------------------------------------------------------------------------
(* Properties.                                                             *)

Questions == SUBSET Macs \ {{}}

\* An identity is inferred only from an address that was first recorded with it and that
\* no contact has contradicted since, whose write was not refused by a locked database or
\* cut short by a restart; but for the contacts that looked the address up before it had
\* a row, whose INSERT came too late.  So a conflict can be lost to the first row of an
\* address and to no other, however reads, writes, failures and restarts interleave.
InferredIsUnchallenged ==
  \A S \in Questions : \A m \in Answering(S) :
    /\ tried[m] # <<>> /\ tried[m][1].id = mac_identity[m].uas_id
    /\ \A i \in DOMAIN tried[m] : tried[m][i].blind \/ tried[m][i].id = mac_identity[m].uas_id

\* An inference older than the weak horizon rests on as many contacts as the
\* strong one asks for, each recorded for that very address: a lost race, a
\* failed write or a restart never counts a sighting twice.
OldAnswersAreStrong ==
  \A S \in Questions : \A m \in Answering(S) :
    now - mac_identity[m].last_decoded_at > WeakTtl => Len(record[m]) >= Strong

\* The address has been decoded consistently: its last contacts, as many as
\* make an association strong, all recorded one ID.
Consistent(m) ==
  /\ Len(record[m]) >= Strong
  /\ \A i \in (Len(record[m]) - Strong + 1)..Len(record[m]) :
       record[m][i] = record[m][Len(record[m])]

\* "A MAC that has reported two different UAS IDs is not evidence of anything": what the
\* docstring of remember_identity promises of every contact whose write went through or
\* was refused in favour of another.  Two finalisers that look up a new address at once
\* refute it: the second INSERT, of another ID, is caught and forgotten.
InferredIsUnambiguous ==
  \A S \in Questions : \A m \in Answering(S) :
    \A i \in DOMAIN tried[m] : tried[m][i].id = mac_identity[m].uas_id

\* "Quarantined instead, and never used for inference again until it is decoded
\* consistently" (the docstring of remember_identity).
QuarantineLifts ==
  \A m \in Macs : mac_identity[m] # NONE /\ Consistent(m) => ~ mac_identity[m].quarantined
=============================================================================
