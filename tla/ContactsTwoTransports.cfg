CONSTANTS
  ble = ble  wifi = wifi  m1 = m1  m2 = m2  u1 = u1  u2 = u2  NONE = NONE
  Macs = {m1,m2}
  Uas = {u1}
  Threads = {ble,wifi}
  Remembered = {u1}
  Frames <- TwoTransportsNamed
  Timers = {1,2,3}
  Grace = 1  Cooldown = 2  Stall = 1  Linger = 0
  CsvFails = TRUE
  LastFrame = 3  MaxFrames = 3  MaxTime = 4
SPECIFICATION Spec
INVARIANTS
  NoStrandedTimer
  CooldownHasItsRow
