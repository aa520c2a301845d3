SPECIFICATION Spec
CONSTANTS
  Requests = {q1}
  Members = {m1}
  MaxRuns = 2
  MaxAttempts = 1
  Environments = {{}}
CHECK_DEADLOCK FALSE
INVARIANTS FundsPaidOnce
