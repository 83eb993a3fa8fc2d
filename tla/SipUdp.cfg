SPECIFICATION MCSpec
CONSTANTS
  Callers = {c1, c2}
  Nobody = Nobody
  SeqMod = 6
  GapLimit = 2
  FirstSeq = 4
  MaxPackets = 4
  MaxInFlight = 2
  MaxInvites = 2
  MaxByes = 2
  MaxLost = 1
  NoNonce = NoNonce
  MaxNonce = 2
  MaxTrouble = 2
INVARIANTS TypeOK SilenceForLoss PppFollowsCall
PROPERTIES MediaStays NoChallengeLoop HangupEnds RegistrationRecovers
CHECK_DEADLOCK FALSE
