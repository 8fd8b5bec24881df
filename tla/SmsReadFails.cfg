SPECIFICATION Spec
CONSTANTS
  m1 = m1
  m2 = m2
  m3 = m3
  m4 = m4
  m5 = m5
  card1 = card1
  card2 = card2
  f1 = f1
  f2 = f2
  f3 = f3
  Incoming = {m1, m2, m3, m4, m5}
  Datagram <- DatagramA
  SeqNo <- SeqNoA
  Frags <- FragsA
  Direct = {m5}
  Indexes = {i1, i2, i3}
  QUEUE_LEN = 2
  Files = {f1, f2, f3}
  Segs <- SegsA
  Port = {f2, f3}
  NoCentre = {f3}
  Refusals = {}
  Failures = {"read"}
  NULL = NULL
  Unsent = {f1}
  MaxEvents = 4
INVARIANTS
  NothingDeletedUnread
CHECK_DEADLOCK FALSE
