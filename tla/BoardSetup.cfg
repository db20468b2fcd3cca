\* A board of either role, new, set up or from elsewhere; two networks, two resets by hand,
\* two claims, one move, two failures of any kind at any step.
SPECIFICATION FairSpec
CONSTANTS
  Networks = {"home", "away"}
  Before = {0, 3}
  MaxCommands = 2
  MaxKeys = 2
  MaxMoves = 1
  MaxFaults = 2
  NONE = NONE
INVARIANTS
  RadioFitsRole
  KeyIsKept
  OldNetworkForgotten
PROPERTIES
  KeyArrives
CHECK_DEADLOCK FALSE
