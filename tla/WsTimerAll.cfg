SPECIFICATION Spec
CONSTANTS
  t1 = t1
  t2 = t2
  w1 = w1
  w2 = w2
  Threads = {t1, t2}
  Windows = {w1}
  Owner <- Owner1
  Events = {1, 2}
  Elapses = {0, 3}
  MAX_TIMERS = 2
  MAX_THREAD_TIMERS = 2
  MinTimeout = 2
  MAX_LONG = 9
  KeyTimeouts = {}
  Calls = {"window", "kill", "destroy", "quit"}
  MaxLag = 1
  MaxSleep = 3
  NULL = NULL
INVARIANTS
  SlotsMatchTimers
  DueIsPending
  NeverOversleeps
PROPERTIES
  NotEarly
CHECK_DEADLOCK FALSE
