\* A person with two memberships and two phones, one shared session id, two
\* payments and two handlers; each environment joins a few kinds of events.
SPECIFICATION Spec
CONSTANTS
  f1 = f1
  m1 = m1
  m2 = m2
  p1 = p1
  p2 = p2
  Farmers = {f1}
  Members = {m1, m2}
  Phones = {p1, p2}
  Sessions = {s1}
  Payments = {t1, t2}
  Requests = {r1, r2}
  Environments = {
    {"pay", "again", "late"},
    {"pay", "overlap", "late", "crash", "lost_answer"},
    {"pay", "overlap", "late", "crash"},
    {"pay", "overlap", "late", "audit"},
    {"pay", "hook", "overlap"},
    {"pay", "leave", "relink", "late"},
    {"loan", "hook", "overlap"},
    {"loan", "hook", "overlap", "lapse"},
    {"other", "hook", "overlap", "consent"}}
  FarmerOf <- MCFarmerOf
  FirstPhone <- MCFirstPhone
SYMMETRY Symmetry
CHECK_DEADLOCK FALSE
INVARIANTS
  OwnPayments
  OneOpenRequest
  OneCallPerPayment
  FeeOnce
PROPERTY
  KeepsLedger
