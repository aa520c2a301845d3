SPECIFICATION FairSpec
CONSTANTS
  Members = {m1, m2}
  Requests = {q1, q2}
  PaidQuota = 3
  FreeQuota = 1
  MaxMonths = 1
  MaxSent = 4
  FirstDay = 2
  LastDay <- MCLastDay
  Environments <- MCEnvironments
CHECK_DEADLOCK FALSE
INVARIANTS
  QuotaHeld
  ConsentRespected
  AuditComplete
  RemindOnce
PROPERTY
  EveryRequestEnds
