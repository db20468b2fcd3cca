------------------------- MODULE ContactsDepartures -------------------------
(***************************************************************************)
(* What comments, docstrings and tests of the receiver say of the contact  *)
(* lifecycle and its code does not do.  TLC finds a counterexample to each *)
(* property below in the instance of the configuration that names it.      *)
(***************************************************************************)
EXTENDS MCContacts

\* The receive time is always on record when a row is stamped, so the stamp
\* falls back to the clock only outside the capture path.
ReceiveTimeOnRecord ==
  \A i \in Timers : timer[i].pc = "check" => key_to_first_seen[timer[i].key] # NONE

\* No exception ends a finaliser ("a lock contention here raised inside a timer
\* thread, where nothing was watching, and the detection was simply gone").
NothingLost == lost = {}

\* The same of the contacts whose finaliser ran to its end: only an exception
\* could lose one.
ForgottenOnlyByException == \A k \in owed \ lost : Attended(k) \/ InCooldown(k)

\* "A contact is logged once per cooldown": two rows of the same contact are at
\* least a cooldown apart.
OncePerCooldown ==
  \A i, j \in DOMAIN rows :
    i < j /\ rows[i].key = rows[j].key => rows[j].at - rows[i].at >= Cooldown

\* Every address listed for a contact leads back to that contact, so later packets
\* from any of them land on the same entry.
AddressesAgree == \A k \in Keys : \A m \in key_to_macs[k] : resolve_state_key(m) = k

\* Every row is about its own pass: what it is stamped with was heard after the
\* contact's previous row was written.
RowOfItsOwnPass ==
  \A i, j \in DOMAIN rows :
    i < j /\ rows[i].key = rows[j].key => rows[j].stamp > rows[i].stamp

\* An ID reported as decoded was decoded on this pass, not on an earlier one.
DecodedOnThisPass ==
  \A i, j \in DOMAIN rows :
    /\ i < j /\ rows[i].key = rows[j].key
    /\ rows[j].source = "decoded" /\ NONE \notin {rows[i].tele.idAt, rows[j].tele.idAt}
    => rows[j].tele.idAt > rows[i].tele.idAt
=============================================================================
