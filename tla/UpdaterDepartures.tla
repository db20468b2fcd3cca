------------------------- MODULE UpdaterDepartures -------------------------
(***************************************************************************)
(* What the comments of update.sh say of it and the script does not do.    *)
(* TLC finds a counterexample to each property below in the instance of    *)
(* the configuration that names it.                                        *)
(***************************************************************************)
EXTENDS MCUpdater

\* "Only trust a status file this build wrote": a run that ends in a verdict read
\* from the status file has read one that the new build wrote.
OwnStatus ==
  [][VerifiedHealthy \/ (Faulty /\ VerifyFails) => status.by = updater.latest]_vars

\* A release that works here is never recorded as one that does not.
WorkingNotRejected == \A r \in rejected : nature[r] # "good"

\* "Puts it back if that goes badly": whatever interrupts a run, the receiver ends
\* up on a release that was verified here, or at least works, again and again.
PutBack == []<>(head \in accepted \/ nature[head] = "good")

\* Between runs the receiver runs the code that is checked out.
RunsTheCheckout ==
  updater.pc = "idle" /\ process.up /\ status.by = process.build => process.build = head

\* "rolls code *and* unit back if it does not", "staying on $CURRENT_DESC": a run that
\* was not cut short leaves a verified release and its unit behind.  Where the
\* checkout back fails the script logs a warning and leaves the other release there.
RollsBack ==
  updater.pc = "idle" /\ "interrupted" \notin astray =>
    unit = UnitOf[head] /\ head \in accepted \ rejected
=============================================================================
