CONSTANTS
  LinkModes = {"lapm"}
  T400 = 1
  Watchdog = 2
  MaxHeard = 1
  MaxSaid = 1
  MaxFed = 1
SPECIFICATION FairSpec
PROPERTIES EstablishmentBounded
CHECK_DEADLOCK FALSE
