\* The Bluetooth board: a queue of 1, requests of 2, one of which may be crowded out, one of
\* the sensor's contacts to a batch of it, a counter of advertisements that starts again
\* after 3, one failure of any kind.
SPECIFICATION FairSpec
CONSTANTS
  Depth = 1
  BatchMax = 2
  AlwaysFit = 1
  PeerFit = 1
  Wrap = 3
  Epoch = 10
  MaxContacts = 2
  MaxPeer = 2
  MaxTime = 1
  MaxFaults = 1
INVARIANTS
  StampIsWhenHeard
  Accounted
PROPERTIES
  StreamIsTold
  FirstIsStored
