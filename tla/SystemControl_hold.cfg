SPECIFICATION Spec
CONSTANTS
  Commands = {"feed_hold", "cycle_start", "jog_cancel"}
  Lines = {"motion", "jog"}
  Events = {"door"}
  BLOCK_BUFFER = 2
  SEGMENT_BUFFER = 1
  BlockSegments = 2
  ArcLines = 2
  Spindle = TRUE
INVARIANTS
  PreparedIsQueued
  HoldIsAtRest
  OpenDoorIsSecured
PROPERTIES
  MotionStartsClean
