SPECIFICATION Spec
INVARIANT TypesOK
INVARIANT AttemptsAccounted
PROPERTY VerdictsStand
INVARIANT VerdictsBounded
INVARIANT SpentIsClosed
PROPERTY NeverReopened
PROPERTY EveryCodeWarranted
INVARIANT CompletedOnce
INVARIANT TicketsSpentOnce
INVARIANT OneAccountPerNumber
INVARIANT NoStrandedUser
INVARIANT GuessesBounded
PROPERTY WritesEntitled
INVARIANT WorkspacesWhole
INVARIANT UsedOnce
INVARIANT TokensMatchSessions
PROPERTY InvalidatedIsDead
INVARIANT TrailComplete
PROPERTY DelegationsEntitled
PROPERTY RedemptionsSingleUse
PROPERTY ProofsStand
SYMMETRY Symmetry
CHECK_DEADLOCK FALSE
CONSTANTS
  r1 = r1
  r2 = r2
  u1 = u1
  t1 = t1
  t2 = t2
  c1 = c1
  p1 = p1
  e1 = e1
  e2 = e2
  i1 = i1
  x1 = x1
  l1 = l1
  s1 = s1
  none = none
