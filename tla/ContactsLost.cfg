CONSTANTS
  ble = ble  wifi = wifi  m1 = m1  m2 = m2  u1 = u1  u2 = u2  NONE = NONE
  Macs = {m1,m2}
  Uas = {u1}
  Threads = {ble,wifi}
  Remembered = {u1}
  Frames <- TwoTransports
  Timers = {1,2,3}
  Grace = 1  Cooldown = 2  Stall = 0  Linger = 0
  CsvFails = FALSE
  LastFrame = 3  MaxFrames = 2  MaxTime = 4
SPECIFICATION Spec
INVARIANTS
  NothingLost
