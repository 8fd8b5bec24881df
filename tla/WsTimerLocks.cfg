SPECIFICATION Spec
CONSTANTS
  t1 = t1
  t2 = t2
  w1 = w1
  w2 = w2
  Threads = {t1}
  Windows = {w1}
  Owner <- Owner1
  Events = {1}
  Elapses = {1}
  MAX_TIMERS = 2
  MAX_THREAD_TIMERS = 2
  MinTimeout = 1
  MAX_LONG = 3
  KeyTimeouts = {}
  Calls = {"window"}
  MaxLag = 1
  MaxSleep = 2
  NULL = NULL
INVARIANTS
  TaskGetsThrough
CHECK_DEADLOCK FALSE
