CONSTANTS
  ble = ble  wifi = wifi  m1 = m1  m2 = m2  u1 = u1  u2 = u2  NONE = NONE
  Macs = {m1}
  Uas = {u1}
  Threads = {ble}
  Remembered = {u1}
  Frames <- OneTransport
  Timers = {1,2,3}
  Grace = 2  Cooldown = 5  Stall = 1  Linger = 0
  CsvFails = FALSE
  LastFrame = 7  MaxFrames = 3  MaxTime = 10
SPECIFICATION FairSpec
INVARIANTS
  NoForgottenContact
  PositionTimeMatches
PROPERTIES
  ExpiredNeverSuppresses
  AlertsAreAnswered
