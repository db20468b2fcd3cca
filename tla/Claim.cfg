SPECIFICATION FairSpec
CONSTANTS
  Ids = {a, b, c, d, e, f}
  MaxMigrations = 2
  MaxFaults = 1
  ABSENT = ABSENT
  TORN = TORN
  NONE = NONE
INVARIANTS
  StaysItself
  IdentityOnDisk
PROPERTIES
  SuccessMeansMoved
  ClaimedReports
