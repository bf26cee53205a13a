SPECIFICATION SignedInSpec
CONSTANTS
  a1 = a1
  a2 = a2
  e1 = e1
  e2 = e2
  t1 = t1
  k1 = k1
  k2 = k2
  Accounts = {a1, a2, a3}
  Emails = {e1, e2}
  Tokens = {t1, t2}
  Keys = {k1, k2, k3, k4, k5}
  Grants = {g1}
  Demos = {d1}
  Requests = {r1, r2}
  Days = {1, 2}
  None = None
  Gone = Gone
  DayLimit = 2
  KeyLimit = 2
  AuthLimit = 1
  BatchLimit = 1
  RequestCap = 3
SYMMETRY Symmetry
CHECK_DEADLOCK FALSE
INVARIANTS QuotaHolds CredentialsEndWithAccount 
