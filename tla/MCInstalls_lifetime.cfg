SPECIFICATION Spec
INVARIANT BoundForItsLifetime
CHECK_DEADLOCK FALSE
CONSTANTS
  Installs = {n1, n2}
  Requests = {r1}
  NumIdentities = 1
  PoolSize = 1
  NumTokens = 3
  NoInstall = none
  MaxMishaps = 0
