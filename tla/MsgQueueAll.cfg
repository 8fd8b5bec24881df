SPECIFICATION Spec
CONSTANTS
  t1 = t1
  t2 = t2
  t3 = t3
  w1 = w1
  w2 = w2
  w3 = w3
  Threads = {t1, t2}
  Windows = {w1, w2}
  Owner <- Owner2
  Nodes = {n1, n2, n3}
  Calls = {"send", "notify", "peek", "post", "postthread", "modal", "destroy", "quit"}
  MaxLoops = 2
  NULL = NULL
SYMMETRY NodesAndPairs
CHECK_DEADLOCK FALSE
INVARIANTS
  TypeOK
  NoLostWakeup
  FlagsMatchQueues
  QueuedForLiveWindow
  HeldOnce
PROPERTIES
  ExitLeavesNoSender
