SPECIFICATION FairSpec
CONSTANTS
  Depth = 3
  BatchMax = 2
  MaxContacts = 4
  MaxFaults = 2
INVARIANTS
  Accounted
  InOrderOnce
PROPERTIES
  NoBootLoop
  QueuedIsStored
  ComesBack
