\* The instance of Reporting.cfg.  TLC stops at the first statement it refutes.
SPECIFICATION Spec
CONSTANTS
  Depth = 1
  BatchMax = 2
  AlwaysFit = 1
  PeerFit = 1
  Wrap = 3
  Epoch = 10
  MaxContacts = 2
  MaxPeer = 2
  MaxTime = 1
  MaxFaults = 1
INVARIANT AllCounted
PROPERTIES RelayedWhenHeard DeliveredLater RestIsLeft
CHECK_DEADLOCK FALSE
