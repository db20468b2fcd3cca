SPECIFICATION Spec
CONSTANTS
  Depth = 3
  BatchMax = 2
  MaxContacts = 4
  MaxFaults = 2
INVARIANT HeldIsOffTheAir
