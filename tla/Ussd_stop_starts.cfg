\* The menu is open while the staff changes the consent.
SPECIFICATION Spec
CONSTANTS
  f1 = f1
  m1 = m1
  m2 = m1
  p1 = p1
  p2 = p1
  Farmers = {f1}
  Members = {m1}
  Phones = {p1}
  Sessions = {s1}
  Payments = {t1}
  Requests = {r1}
  Environments = {{"other", "consent"}}
  FarmerOf <- MCFarmerOf
  FirstPhone <- MCFirstPhone
CHECK_DEADLOCK FALSE
PROPERTY StopStops
