------------------------ MODULE PeerLinkDepartures -------------------------
(***************************************************************************)
(* What a comment of uplink.c says and the firmware does not do.  TLC      *)
(* finds a counterexample in the instance of PeerLinkHalf.cfg.             *)
(***************************************************************************)
EXTENDS PeerLink

\* uplink_forward_peer_contact, where the batch is full: "Dropped rather than truncated:
\* half a contact is worse than none."  The text of a request holds whole contacts only.
NeverHalf == ReportingAt("post") => ~ reporting.batch.behind.half
=============================================================================
