CONSTANTS
  RequirePap = TRUE
  ConfigValid = TRUE
  good = good
  bad = bad
  Credentials <- MCCredentials
  NoUser = NoUser
  NoRequest = NoRequest
  IdSpace <- MCIdSpace
  MaxRetries = 2
  PeerFrames <- MCPeerFrames
  RetryCap = 3
  MaxQueued = 1
SPECIFICATION Spec
INVARIANTS
  TypeOK
  OnlyAuthenticatedTraffic
  NetworkIsNegotiated
  RequestsAnswerable
PROPERTIES
  AccessPolicy
