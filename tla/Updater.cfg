SPECIFICATION FairSpec
CONSTANTS
  Releases <- ThreeReleases
  Initial <- v1
  Signed <- ThreeReleases
  Demanding <- JustV2
  UnitOf <- NewUnit
  Requirements <- NewRequirements
  Natures = {"good", "faulty", "mute", "dies", "refuses"}
  MaxFaults = 1
  NONE = NONE
INVARIANTS
  DiskAgrees
  RejectedDoesNotRun
PROPERTIES
  RestartsCease
  WantedArrives
CHECK_DEADLOCK FALSE
