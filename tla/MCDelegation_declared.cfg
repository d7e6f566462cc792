SPECIFICATION Spec
PROPERTY RevokedMintNothing
CHECK_DEADLOCK FALSE
CONSTANTS
  Requests = {r1}
  Tenants = {t1}
  Clients = {c1}
  TenantOf <- OneWorkspace
  Subjects = {access, id}
  IdTokens = {id}
  ClientOf <- OneClient
  Resources = {x1}
  Here = x1
  Issuers = {i1}
  Self = i1
  Scopes = {}
  Caps <- Unrestricted
  TTL = 1
  Leeway = 0
  NumAssertions = 1
  NumSessions = 0
  NumKeys = 1
  MaxEdits = 1
  MaxMishaps = 0
  MaxTime = 1
