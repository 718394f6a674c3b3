SPECIFICATION Spec
CONSTANTS
  sup = sup
  adm = adm
  rdr = rdr
  e1 = e1
  e2 = e2
  e3 = e3
  b1 = b1
  b2 = b2
  sub = sub
  None = None
  Accounts = {sup, adm, rdr}
  Browsers = {b1, b2}
  Emails = {e1, e2, e3}
  Subjects = {sub}
  Initial <- Rows
  MaxRequests = 4
SYMMETRY Alike
INVARIANTS AcceptedSessionIsCurrent VerifiedWasConfirmed HasAWayIn
CHECK_DEADLOCK FALSE
