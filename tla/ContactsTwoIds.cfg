CONSTANTS
  ble = ble  wifi = wifi  m1 = m1  m2 = m2  u1 = u1  u2 = u2  NONE = NONE
  Macs = {m1,m2}
  Uas = {u1,u2}
  Threads = {ble,wifi}
  Remembered = {u1,u2}
  Frames <- TwoIds
  Timers = {1,2,3}
  Grace = 1  Cooldown = 2  Stall = 0  Linger = 0
  CsvFails = FALSE
  LastFrame = 2  MaxFrames = 4  MaxTime = 4
SPECIFICATION Spec
INVARIANTS
  AddressesAgree
  ForgottenOnlyByException
  WaitingIsRegistered
  OncePerCooldown
