SPECIFICATION EventsSpec
CONSTANTS
  t1 = t1
  t2 = t2
  p1 = p1
  n1 = n1
  a1 = a1
  Call = {t1, t2, p1, n1, a1}
  Nobody = nobody
  KindOf <- MCKindOf
  Status <- MCStatus
  Backlog = "backlog"
  Ready = "ready_for_dev"
  HumanStatus <- MCHumanStatus
  Legal <- MCLegal
  NoHash = nohash
  MaxFaults = 1
INVARIANTS ChainUncontended StatusIsTold
PROPERTIES EveryCallEnds
CHECK_DEADLOCK FALSE
