------------------------ MODULE ReportingDepartures ------------------------
(***************************************************************************)
(* What comments of the firmware say of reporting and the code does not    *)
(* do.  TLC refutes each statement in the instance of                      *)
(* ReportingDepartures.cfg.                                                *)
(***************************************************************************)
EXTENDS Reporting

\* uplink.h: "Reporting before the clock is set would stamp detections with 1970, which the
\* server rejects".  What the sensor hears before the clock is set is stamped as it arrives
\* and posted when the board is ready.
RelayedWhenHeard ==
  [][Forwarded => \A i \in DOMAIN task.forward : task.forward[i]]_vars

\* uplink_ready: "every caller already treats 'not ready' as 'keep capturing, deliver
\* later'".  reporting_task takes the contacts off the queue, and they are not delivered.
DeliveredLater == [][At("taking") /\ ~ uplink_ready => ~ Adds("report")']_vars

\* uplink_report_batch: "leave the rest to the caller's next pass".  The caller takes a new
\* batch.
RestIsLeft == [][At("post") /\ count'.sent > count.sent => ~ Adds("report")']_vars

\* uplink_report_batch: "count it so the shortfall is never silent".  failed_count is added to
\* by two tasks without a lock: an addition that falls between the other's read and write of
\* it is lost, and the log shows fewer failures than there were.
AllCounted == count.failed = tally.failed
=============================================================================
