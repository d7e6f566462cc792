SPECIFICATION Spec
INVARIANT TypeOK
INVARIANT GrantForEveryToken
INVARIANT NoLeak
INVARIANT ReplayKillsInstall
PROPERTY IdentityRevocationFinal
PROPERTY RevocationSticks
SYMMETRY Symmetry
CHECK_DEADLOCK FALSE
CONSTANTS
  Installs = {n1, n2}
  Requests = {r1}
  NumIdentities = 1
  PoolSize = 1
  NumTokens = 3
  NoInstall = none
  MaxMishaps = 1
