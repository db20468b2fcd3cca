----------------------- MODULE BoardSetupDepartures ------------------------
(***************************************************************************)
(* What comments of the firmware say of resetwifi and the code does not    *)
(* do.  TLC refutes each statement in the instance of                      *)
(* BoardSetupDepartures.cfg.                                               *)
(***************************************************************************)
EXTENDS BoardSetup

\* wifi_reset_console.c: "One command, matched on a whole line, so stray bytes or a
\* terminal's keep-alive never trip it."  Thirty-two bytes before the command fill the
\* line, are dropped, and leave the command.
StrayBytesIgnored == 0 \notin Before => console = "none" \/ console = "listening"

\* app_main: "starting the console first means resetwifi is reachable even on a board ...
\* that is provisioned but cannot find its old network".  Before the driver is initialised
\* nothing is reset, and the board restarts onto that network.
ReachableFromTheStart == console = "not_restored" => WifiRuns
=============================================================================
