-------------------------- MODULE ClaimDepartures --------------------------
(***************************************************************************)
(* What migrate_state.py says of itself and does not do.  TLC finds a      *)
(* counterexample in the instance of ClaimInterrupted.cfg.                 *)
(***************************************************************************)
EXTENDS Claim

\* "It is written to be interruptible", "an interrupted migration has to be
\* finishable": whatever stopped an earlier run, a run that says that the state is in
\* the state directory has left no original behind.
InterruptedIsFinished ==
  [][Finish /\ migration.ok =>
       disk["install"].creds = ABSENT /\ disk["install"].queue = ABSENT]_vars
=============================================================================
