SPECIFICATION Spec
CONSTANTS
  mms = mms
  mail = mail
  i1 = i1
  i2 = i2
  Clients = {mms, mail}
  Infos = {i1, i2}
  Mode <- Mode2
  Info <- InfoDiffers
  Waiters = {mms}
  HangsUp = {mms, mail}
  Faults = {"open", "explain", "script", "busy", "fail", "ppp", "renego", "closed", "line"}
  RepeatDialTimes = 2
  AutoDisconn = TRUE
  MaxPosted = 3
  QUEUE_SIZE = 3
  NULL = NULL
INVARIANTS
  TypeOK
  WaitersHaveADial
  ManagerBacked
CHECK_DEADLOCK FALSE
