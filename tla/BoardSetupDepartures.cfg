\* The instance of BoardSetup.cfg, with 32 bytes before the command.
SPECIFICATION Spec
CONSTANTS
  Networks = {"home", "away"}
  Before = {32}
  MaxCommands = 1
  MaxKeys = 2
  MaxMoves = 1
  MaxFaults = 1
  NONE = NONE
INVARIANTS StrayBytesIgnored ReachableFromTheStart
CHECK_DEADLOCK FALSE
