SPECIFICATION FairSpec
CONSTANTS
  t1 = t1
  t2 = t2
  t3 = t3
  w1 = w1
  w2 = w2
  w3 = w3
  Threads = {t1, t2}
  Windows = {w1, w2}
  Owner <- Owner2
  Nodes = {n1, n2, n3}
  Calls = {"send", "post", "destroy"}
  MaxLoops = 1
  NULL = NULL
CHECK_DEADLOCK FALSE
PROPERTIES
  SendReturns
  PostDelivered
