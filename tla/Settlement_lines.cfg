\* Two lines of one run and a retry, one request at a time; requests die, or the client raises.
SPECIFICATION FairSpec
CONSTANTS
  Requests = {q1}
  Members = {m1, m2}
  MaxRuns = 1
  MaxAttempts = 2
  Environments = {{"crash"}, {"client_error"}}
CHECK_DEADLOCK FALSE
PROPERTY
  PayoutConcludes
