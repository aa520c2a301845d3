\* One phone session at a time; every fault.
SPECIFICATION FairSpec
CONSTANTS
  Requests = {r1}
  NoRequest = free
  MaxAttempts = 2
  Faults = {"crash", "lost_answer", "legacy"}
CHECK_DEADLOCK FALSE
PROPERTY
  OpenAttemptCloses
