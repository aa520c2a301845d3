\* A cancel and a disbursement overlap.
SPECIFICATION Spec
CONSTANTS
  r1 = r1
  r2 = r2
  Requests = {r1, r2}
  MaxAttempts = 1
  Faults = {}
CHECK_DEADLOCK FALSE
SYMMETRY Symmetry
INVARIANTS
  CancelledHasNoPayout
