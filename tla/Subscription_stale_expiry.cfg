SPECIFICATION Spec
CONSTANTS
  Requests = {q1}
  Links = {l1}
  LegacyLinks = {}
  PaidPlans = {"growth", "solo"}
  TrialPlan = "growth"
  PeriodDays = 3
  GraceDays = 2
  TrialDays = 2
  MaxTime = 6
CHECK_DEADLOCK FALSE
SYMMETRY Symmetry
INVARIANTS ExpiredIsLapsed
