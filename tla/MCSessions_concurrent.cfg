SPECIFICATION Spec
INVARIANT TypeOK
INVARIANT CodeBuysOneFamily
INVARIANT SuccessorsBounded
PROPERTY SweptStays
SYMMETRY Symmetry
CHECK_DEADLOCK FALSE
CONSTANTS
  Logins = {l1}
  NumTokens = 8
  Requests = {r1, r2}
  SessionTTL = 1
  AccessTTL = 0
  RefreshTTL = 0
  CodeTTL = 0
  HandlerTime = 0
  MaxTime = 2
  StoreFails = FALSE
  NoLogin = none
