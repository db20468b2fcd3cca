SPECIFICATION Spec
CONSTANTS
  m1 = m1
  m2 = m2
  m3 = m3
  u1 = u1
  u2 = u2
  Macs = {m1, m2, m3}
  Uas = {u1, u2}
  NA = NA
  Address <- MCAddress
  Text <- MCText
  Basic <- MCBasic
  Others <- MCOthers
  Locations <- MCLocations
  Names <- MCNames
  Reports <- MCReports
  Frames <- MCFrames
  Size = 2
  WeakTtl = 1
  StrongTtl = 2
  Strong = 2
  SightingsMax = 2
  MaxTime = 3
  MaxDecodes = 5
  MaxSteps = 1
  NONE = NONE
SYMMETRY Symmetry
INVARIANTS
  UnambiguousUnlessFull
  ConflictIsRemembered
  AgeIsBounded
  SaysWhatItHeard
  DecodersAgree
