SPECIFICATION Spec
CONSTANTS
  Requests = {q1}
  Members = {m1}
  MaxRuns = 1
  MaxAttempts = 1
  Environments = {{"ledger_only"}}
CHECK_DEADLOCK FALSE
INVARIANTS ProcessingIsOpen
