\* Later polls ask for a reference the provider does not know by that type.
SPECIFICATION FairSpec
CONSTANTS
  Requests = {r1}
  MaxAttempts = 1
  Faults = {"unknown_id"}
CHECK_DEADLOCK FALSE
PROPERTIES
  SentPayoutSettles
