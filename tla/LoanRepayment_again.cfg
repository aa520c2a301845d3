\* Two starts overlap; nothing fails.
SPECIFICATION Spec
CONSTANTS
  Requests = {r1, r2}
  NoRequest = free
  MaxAttempts = 2
  Faults = {}
PROPERTY
  AttemptsOnlyOwed
CHECK_DEADLOCK FALSE
