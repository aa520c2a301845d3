SPECIFICATION Spec
CONSTANTS
  Members = {m1, m2}
  Requests = {q1, q2}
  PaidQuota = 3
  FreeQuota = 1
  MaxMonths = 1
  MaxSent = 4
  FirstDay = 2
  LastDay <- MCLastDay
  Environments <- MCMenu
CHECK_DEADLOCK FALSE
INVARIANT
  EveryMessageLogged
