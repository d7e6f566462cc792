SPECIFICATION Spec
INVARIANT TypeOK
INVARIANT DecisionsGrounded
INVARIANT PromotedByProof
PROPERTY DecidedStays
SYMMETRY Symmetry
CHECK_DEADLOCK FALSE
CONSTANTS
  NumTxns = 2
  Sessions = {s1}
  NoSession = none
  Requests = {r1, r2}
  StaleAfter = 0
  MaxTime = 1
  MaxRejections = 1
  MaxMishaps = 1
  Miss = "body"
  LoginRisks = {"high"}
