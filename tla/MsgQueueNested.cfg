SPECIFICATION Spec
CONSTANTS
  t1 = t1
  t2 = t2
  t3 = t3
  w1 = w1
  w2 = w2
  w3 = w3
  Threads = {t1, t2, t3}
  Windows = {w1, w2, w3}
  Owner <- Owner3
  Nodes = {n1, n2, n3}
  Calls = {"send", "notify", "peek"}
  MaxLoops = 1
  NULL = NULL
SYMMETRY NodesAndPairs
CHECK_DEADLOCK FALSE
INVARIANTS
  RepliesMatchWaits
  OneWakeup
  NoSendDeadlock
PROPERTIES
  ImplementsRpc
