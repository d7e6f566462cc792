SPECIFICATION Spec
PROPERTY MissIsSoft
CHECK_DEADLOCK FALSE
CONSTANTS
  NumTxns = 1
  Sessions = {s1}
  NoSession = none
  Requests = {r1}
  StaleAfter = 0
  MaxTime = 1
  MaxRejections = 1
  MaxMishaps = 1
  Miss = "status"
  LoginRisks = {"low"}
