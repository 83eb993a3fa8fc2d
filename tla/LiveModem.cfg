CONSTANTS
  Modes = {"auto", "v90", "v92", "v22bis", "v22", "v21"}
  MaxCalls = 1
SPECIFICATION FairSpec
INVARIANTS TypeOK EquipmentReady NoStaleAudio NoBlindFallback
PROPERTIES RetriesEnd NoEternalTraining
CHECK_DEADLOCK FALSE
