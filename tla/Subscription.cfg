\* One request at a time besides payments, time, and two new links and a legacy one.
SPECIFICATION Spec
CONSTANTS
  Requests = {q1}
  Links = {l1, l2, old}
  LegacyLinks = {old}
  PaidPlans = {"growth", "solo"}
  TrialPlan = "growth"
  PeriodDays = 3
  GraceDays = 2
  TrialDays = 2
  MaxTime = 8
CHECK_DEADLOCK FALSE
SYMMETRY Symmetry
INVARIANTS
  PaidAccess
  NoFreeAccess
PROPERTIES
  ExtensionIsPaid
  EarlyRenewalKeepsDays
