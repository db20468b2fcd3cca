SPECIFICATION LinkFairSpec
CONSTANTS
  LineRoom = 3
  BatchRoom = 2
  Missed = 2
  MaxLines = 3
  MaxOnWire = 4
  MaxFaults = 2
  NOISE = NOISE
  NL = NL
INVARIANTS
  DamageIsBounded
PROPERTIES
  BatchIsStored
  LinkIsTold
