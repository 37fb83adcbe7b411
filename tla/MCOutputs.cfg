SPECIFICATION Spec
CONSTANTS
  Scenes <- AllScenes
  MaxSteps = 3
INVARIANTS
  ImageLoads
  ObjectReadsBack
  RelocsReadBack
CHECK_DEADLOCK FALSE
