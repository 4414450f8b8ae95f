SPECIFICATION FairSpec
CONSTANTS
  Commands = {"cycle_start", "reset", "spindle_stop"}
  Lines = {"motion", "arc", "unlock", "probe"}
  Events = {"abort", "limit"}
  BLOCK_BUFFER = 1
  SEGMENT_BUFFER = 2
  BlockSegments = 2
  ArcLines = 2
  Spindle = TRUE
INVARIANTS
  EmergencyStopLocks
  MotionHasAState
  TouchCancelsMotion
PROPERTIES
  AlarmIsKilledByUnlockOnly
  ProbingEnds
  ArcEndsIfStarted
