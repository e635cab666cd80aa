SPECIFICATION FairSpec
CONSTANTS
  Unknown = Unknown
  Hunts <- MCHunts
  Limits <- MCLimits
  Window = 4
  Degraded = 2
  ValidateMax = 3
INVARIANTS TypeOK EveryByteNamed MarkersOnce RemainderIsExact HuntAccounted
PROPERTY HuntEnds
CHECK_DEADLOCK FALSE
