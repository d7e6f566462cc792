SPECIFICATION Spec
PROPERTY DenialHonoured
CHECK_DEADLOCK FALSE
CONSTANTS
  u1 = u1
  Requests = {r1}
  Users = {u1}
  NoUser = none
  Txns = {t1}
  NoTxn = none
  NumFlows = 2
  NumChallenges = 2
  MaxRank = 2
  SmsRank = 1
  FlowDefs <- FlowsResumed
  FlowTTL = 1
  Freshness = 0
  LedgerTTL = 1
  MaxTime = 2
  MaxMishaps = 1
  AcrValues <- Levels
  Advised <- AdvisedHigh
