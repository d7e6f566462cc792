SPECIFICATION FairSpec
PROPERTY EveryRequestAnswered
PROPERTY LeftoversGo
PROPERTY OutcomesRecorded
CHECK_DEADLOCK FALSE
CONSTANTS
  r1 = r1
  r2 = r2
  l1 = l1
  n1 = n1
  s1 = s1
  t1 = t1
  u1 = u1
  c1 = c1
  none = none
  c2 = c2
  Users <- OneUser
  Challenges = {c1}
  Requests = {r1}
  NumAuthenticators = 1
  UserOf <- BothOfUser
  MethodOf <- SmsThenTotp
  MethodLists <- TotpFirst
  MaxChallengeAttempts = 2
  ChallengeTTL = 3
  ChallengeLimit = 1
  ChallengeWindow = 2
  LockoutThreshold = 2
  LockoutWindow = 3
  NoChallengeId = none
  MaxTime = 4
