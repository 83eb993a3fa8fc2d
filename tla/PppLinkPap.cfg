CONSTANTS
  RequirePap = TRUE
  ConfigValid = TRUE
  good = good
  bad = bad
  Credentials <- MCCredentials
  SecretsFile <- MCSecrets
  NoUser = NoUser
  NoRequest = NoRequest
  IdSpace = 32
  MaxRetries = 10
  PeerFrames <- MCFrames
  RetryCap = 0
  MaxQueued = 0
  MaxLost = 2
  MaxEarly = 1
  MaxQuiet = 2
  MaxRestarts = 1
  MayVanish = TRUE
  LineCap = 4
SPECIFICATION LinkSpec
INVARIANT UpIsAgreed
PROPERTIES ComesUp NegotiationSettles UnansweredRequestEnds
CHECK_DEADLOCK FALSE
