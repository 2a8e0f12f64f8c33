CONSTANTS
  d1 = d1
  d2 = d2
  NoRequest = NoRequest
  NoReply = NoReply
  BadCast = BadCast
  MaxId = 2
  Data <- MCData
  Prefix <- MCPrefix
  Root <- RootWithSlash
  Requests <- MCRequestsList
SPECIFICATION Spec
PROPERTY AbstractSpec
