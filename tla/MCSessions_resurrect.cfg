SPECIFICATION Spec
PROPERTY InvalidatedStays
CHECK_DEADLOCK FALSE
CONSTANTS
  Logins = {l1}
  NumTokens = 4
  Requests = {r1, r2}
  SessionTTL = 1
  AccessTTL = 1
  RefreshTTL = 2
  CodeTTL = 1
  HandlerTime = 1
  MaxTime = 2
  StoreFails = FALSE
  NoLogin = none
