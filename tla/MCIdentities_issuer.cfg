SPECIFICATION Spec
INVARIANT LicenceAccepted
CHECK_DEADLOCK FALSE
CONSTANTS
  Requests = {r1}
  Phones = {}
  Emails = {e1, e2}
  Issuers = {i1}
  NoValue = noValue
  NumUsers = 2
  NumFlows = 0
  NumStates = 1
  MaxOTP = 1
  Reusable = TRUE
  MaxMishaps = 0
