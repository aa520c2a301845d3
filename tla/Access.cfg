CONSTANTS
  Users = {ama, kofi, esi}
  Coops = {home, branch}
  Orgs = {union}
  Checkouts = {checkout1}
  Requests = {r1, r2}
  Tokens = {t1, t2, t3}
  Changes <- MCChanges
  Nothing = Nothing
  Environments <- MCEnvironments
SPECIFICATION Spec
SYMMETRY Symmetry
INVARIANTS
  AdminKept
  PaidOpensOne
  DeactivationEndsSessions
PROPERTY
  ReplayNeedsSuccessor
