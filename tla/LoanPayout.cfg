\* Two requests, two attempts, crashes and lost answers.
SPECIFICATION Spec
CONSTANTS
  r1 = r1
  r2 = r2
  Requests = {r1, r2}
  MaxAttempts = 2
  Faults = {"crash", "lost_answer"}
CHECK_DEADLOCK FALSE
SYMMETRY Symmetry
INVARIANTS
  OnlyLatestOpen
  OneAnsweredTransfer
PROPERTIES
  CancelChecksPayout
  KeepsLedger
