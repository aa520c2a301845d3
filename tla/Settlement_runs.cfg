\* Two runs of one sale, two requests; crashes, with and without overlap, or all that overlapping requests meet.
SPECIFICATION Spec
CONSTANTS
  Requests = {q1, q2}
  Members = {m1}
  MaxRuns = 2
  MaxAttempts = 2
  Environments = {{"crash", "ledger_only"}, {"overlap", "crash"},
                  {"overlap", "lost_answer", "client_error", "ledger_only"}}
CHECK_DEADLOCK FALSE
SYMMETRY Symmetry
INVARIANTS
  PaidIsBacked
  OneActiveRun
  LinePaidOnce
