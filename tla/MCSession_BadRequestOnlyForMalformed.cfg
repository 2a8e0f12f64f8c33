CONSTANTS
  NumConns = 1
  AuthTime = 1
  MaxTime = 3
  u1 = u1
  u2 = u2
  p1 = p1
  p2 = p2
  NoHeader = NoHeader
  NoColon = NoColon
  Credentials <- MCCredentials
  AuthHeaders <- MCAuthHeaders
  HandlerStatus = {200, 404}

SPECIFICATION Spec
INVARIANT BadRequestOnlyForMalformed
CHECK_DEADLOCK FALSE
