SPECIFICATION MCSpec
CONSTANTS
  u1 = u1
  u2 = u2
  c1 = c1
  c2 = c2
  People = {u1, u2}
  Events = {n1, n2}
  Conns = {c1, c2}
  Owner <- MCOwner
  ChanCap = 1
INVARIANTS
  NeverSendOnClosed
  NoticeIsStored
PROPERTIES
  HubSettles
CHECK_DEADLOCK FALSE
