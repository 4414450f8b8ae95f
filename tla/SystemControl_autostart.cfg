SPECIFICATION FairSpec
CONSTANTS
  Commands = {}
  Lines = {"motion"}
  Events = {}
  BLOCK_BUFFER = 1
  SEGMENT_BUFFER = 1
  BlockSegments = 2
  ArcLines = 2
  Spindle = FALSE
PROPERTIES
  QueuedMotionStarts
