SPECIFICATION FairSpec
CONSTANTS
  t1 = t1
  t2 = t2
  w1 = w1
  w2 = w2
  Threads = {t1}
  Windows = {}
  Owner <- NoOwner
  Events = {1}
  Elapses = {0, 2}
  MAX_TIMERS = 2
  MAX_THREAD_TIMERS = 3
  MinTimeout = 1
  MAX_LONG = 3
  KeyTimeouts = {1}
  Calls = {"thread", "kill", "quit", "key"}
  MaxLag = 1
  MaxSleep = 2
  NULL = NULL
PROPERTIES
  DueServed
  TimerFires
CHECK_DEADLOCK FALSE
