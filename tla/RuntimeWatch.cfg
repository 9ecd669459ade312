CONSTANTS
  s1 = s1
  s2 = s2
  Supervisors = {s1, s2}
  None = None
  RECOVERY_FAILURE_QUARANTINE_THRESHOLD = 2
  MaxBeats = 3
  MaxOpen = 2
  MaxTroubles = 1
SPECIFICATION WatchSpec
INVARIANTS
  WatchTypeOK
  EveryBeatOnce
  QuarantineAccounted
PROPERTIES
  NoOutageUnseen
CHECK_DEADLOCK FALSE
