CONSTANTS
  ble = ble  wifi = wifi  m1 = m1  m2 = m2  u1 = u1  u2 = u2  NONE = NONE
  Macs = {m1}
  Uas = {u1}
  Threads = {ble}
  Remembered = {u1}
  Frames <- OneTransport
  Timers = {1,2,3}
  Grace = 1  Cooldown = 2  Stall = 0  Linger = 0
  CsvFails = FALSE
  LastFrame = 3  MaxFrames = 3  MaxTime = 4
SPECIFICATION Spec
INVARIANTS
  ReceiveTimeOnRecord
  RowOfItsOwnPass
  DecodedOnThisPass
