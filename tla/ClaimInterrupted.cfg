SPECIFICATION Spec
CONSTANTS
  Ids = {a, b, c, d, e, f}
  MaxMigrations = 2
  MaxFaults = 1
  ABSENT = ABSENT
  TORN = TORN
  NONE = NONE
PROPERTY InterruptedIsFinished
