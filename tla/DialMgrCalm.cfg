SPECIFICATION CalmSpec
CONSTANTS
  mms = mms
  mail = mail
  i1 = i1
  i2 = i2
  Clients = {mms, mail}
  Infos = {i1, i2}
  Mode <- Mode2
  Info <- InfoDiffers
  Waiters = {mms}
  HangsUp = {mms, mail}
  Faults = {"open", "script", "busy", "fail", "renego"}
  RepeatDialTimes = 2
  AutoDisconn = FALSE
  MaxPosted = 4
  QUEUE_SIZE = 3
  NULL = NULL
INVARIANTS
  ConnectedIsReal
  DeviceHeld
  RetryWaits
