SPECIFICATION FairSpec
CONSTANTS
  N_AXIS = 2
  Inputs = {"abort", "reset"}
  FILTER = 2
  SEGMENT_BUFFER = 2
  DEBOUNCE = 0
  TRAVEL = 2
  FAULTS = 1
  SEEK = 3
  STOP = 1
  PULLOFF = 2
  LOCATE = 3
INVARIANTS
  TypeOK
  ZeroIsAtTheSwitch
  MotionsStartFresh
  AnswerMeansHomed
PROPERTIES
  HomingEnds
