SPECIFICATION Spec
CONSTANTS
  d1 = d1
  d2 = d2
  Workers = {w1, w2}
  Days = {d1, d2}
  Requests = {q1, q2}
  Periods <- MCPeriods
  MaxShifts = 1
  MaxApprovals = 2
  MaxPayouts = 3
  Capacity = 1
  Environments = {{"lapse", "crash", "any_period"}, {"leave", "reactivate", "lost_answer"}, {"overlap"}}
SYMMETRY Symmetry
CHECK_DEADLOCK FALSE
INVARIANTS
  StableReference
  PaidIsSent
  HourPaidOnce
