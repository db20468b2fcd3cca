-------------------------- MODULE CaptureDepartures --------------------------
(* What comments of the firmware say of capture, and the code does not do.    *)
EXTENDS MCCapture

\* odid_decode.c on a name with a control byte: "The Python decoder rejects it and this
\* must agree, or the same frame becomes an aircraft on one implementation and nothing on
\* the other."  Python strips newlines and the like from the ends of a name before it
\* looks, and drops the bytes that are not ASCII.
NamesAgree == role = "ble" => RejectionsAgree

\* odid_decode.c on packs: "two implementations that disagree about what counts as valid".
\* When a pack says twice who or where, Python's later message replaces all that the
\* earlier one said, and the C keeps what the later one leaves out.
PacksMeanTheSame == role = "wifi" => PacksAgree

\* odid_decode.h: "the airframe class as a name, matching odid_decode.py's
\* ODID_UA_TYPE_LABELS exactly".  The fields that carry it hold 23 characters.
LabelsAgree == \A ua_type \in 0..15 : role = "wifi" => Label(ua_type) = FullLabel(ua_type)

\* identity_cache.c: "Evicts the least recently decoded entry when full."  A clock that was
\* stepped back makes what was decoded since look older.
LastDecode(i) == heard[entries[i].mac][entries[i].uas_id].last
AlwaysEvictsOldest ==
  [][\A i \in Slots : Used(i) /\ entries'[i].mac # entries[i].mac /\ Unquarantined # {} =>
       \A j \in Unquarantined : LastDecode(i) <= LastDecode(j)]_slotVars
=============================================================================
