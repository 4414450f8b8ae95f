SPECIFICATION FairSpec
CONSTANTS
  Commands = {"feed_hold"}
  Lines = {"motion", "jog"}
  Events = {"door"}
  BLOCK_BUFFER = 1
  SEGMENT_BUFFER = 1
  BlockSegments = 2
  ArcLines = 1
  Spindle = FALSE
PROPERTIES
  HoldCompletes
  ClosedDoorResumes
