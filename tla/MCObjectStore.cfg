CONSTANTS
  d1 = d1
  d2 = d2
  NoRequest = NoRequest
  NoReply = NoReply
  BadCast = BadCast
  MaxId = 3
  Data <- MCData
  Prefix <- MCPrefix
  Root <- RootWithSlash
  Requests <- MCRequestsRefine
SPECIFICATION Spec
INVARIANT TypeOK
PROPERTY AbstractSpec
