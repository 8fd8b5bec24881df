SPECIFICATION FairSpec
CONSTANTS
  t1 = t1
  t2 = t2
  root = root
  popup = popup
  c1 = c1
  c2 = c2
  Threads = {t1, t2}
  Windows = {root, popup, c1, c2}
  Root = root
  Owner <- OwnerA
  Children <- TreeA
  rcWindow <- WindowA
  rcClient <- ClientA
  Clip = {root}
  Shown = {popup, c2}
  Validated = {c1}
  Rects <- RectsA
  Calls = {"invalidate", "screen", "validate", "update", "remote", "hide"}
  MaxCalls = 3
  MaxDepth = 3
  MaxSteps = 30
INVARIANTS
  QueueMatchesFlags
  NothingLost
  WaitHasPainter
PROPERTIES
  NobodyWaits
CHECK_DEADLOCK FALSE
