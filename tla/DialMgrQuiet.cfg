SPECIFICATION FairSpec
CONSTANTS
  mms = mms
  mail = mail
  i1 = i1
  i2 = i2
  Clients = {mms, mail}
  Infos = {i1, i2}
  Mode <- Mode2
  Info <- InfoSame
  Waiters = {mms}
  HangsUp = {}
  Faults = {"open", "script", "busy", "fail", "ppp", "renego", "closed"}
  RepeatDialTimes = 2
  AutoDisconn = FALSE
  MaxPosted = 4
  QUEUE_SIZE = 3
  NULL = NULL
INVARIANTS
  ClientInformed
PROPERTIES
  ClientTold
  DialEnds
