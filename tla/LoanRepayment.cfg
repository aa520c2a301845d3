\* Two requests about one loan, two attempts, every fault.
SPECIFICATION Spec
CONSTANTS
  Requests = {r1, r2}
  NoRequest = free
  MaxAttempts = 2
  Faults = {"crash", "lost_answer", "legacy"}
SYMMETRY RequestSymmetry
CHECK_DEADLOCK FALSE
INVARIANTS
  ClosedTogether
  OneCollection
PROPERTY
  KeepsLedger
