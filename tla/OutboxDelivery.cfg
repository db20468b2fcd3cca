SPECIFICATION OutboxFairSpec
CONSTANTS
  MaxRows = 4
  BatchSize = 2
  ErrorCap = 2
  MaxFaults = 2
PROPERTIES
  Delivers
  EveryRowIsSettled
