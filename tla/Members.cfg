SPECIFICATION MembersSpec
CONSTANTS
  Farmers = {f1, f2, f3, f4}
  Handlers = {q1, q2}
  Scored = {f1}
  MaxRows = 4
  MaxScored = 2
  Capacity = 2
  FreeCapacity = 1
  MaxAccounts = 5
  MaxClears = 1
  Environments <- MCEnvironments
SYMMETRY Symmetry
CHECK_DEADLOCK FALSE
INVARIANTS
  OneAccount
  WithinCap
  PaidIsCounted
PROPERTY
  GoodDeedsCount
