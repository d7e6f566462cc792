SPECIFICATION Spec
PROPERTY TerminalIsFinal
SYMMETRY Symmetry
CHECK_DEADLOCK FALSE
CONSTANTS
  u1 = u1
  r1 = r1
  r2 = r2
  c1 = c1
  c2 = c2
  Users <- OneUser
  Challenges = {c1}
  Requests = {r1, r2}
  NumAuthenticators = 1
  UserOf <- BothOfUser
  MethodOf <- SmsThenTotp
  MethodLists <- TotpFirst
  MaxChallengeAttempts = 2
  ChallengeTTL = 4
  ChallengeLimit = 1
  ChallengeWindow = 2
  LockoutThreshold = 2
  LockoutWindow = 3
  NoChallengeId = none
  MaxTime = 5
