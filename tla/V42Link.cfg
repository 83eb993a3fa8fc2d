CONSTANTS
  LinkModes = {"raw", "detect", "lapm"}
  T400 = 1
  Watchdog = 2
  MaxHeard = 2
  MaxSaid = 2
  MaxFed = 2
SPECIFICATION FairSpec
INVARIANTS SentInOrder OneReceiver DecodedAsSent PlainCallerHeard
PROPERTIES TrainingEnds
CHECK_DEADLOCK FALSE
