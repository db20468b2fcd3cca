------------------------ MODULE TimeSliceDepartures ------------------------
(***************************************************************************)
(* What the comments of uplink.h say and the firmware does not do.  TLC    *)
(* finds a counterexample in the instance of TimeSliceHeld.cfg.            *)
(***************************************************************************)
EXTENDS TimeSlice

\* "Held, the station stays off the air until released": while the board listens on the
\* Remote ID channel its station is neither connected nor connecting.
HeldIsOffTheAir == station_held /\ At("listening") => station = "idle"
=============================================================================
