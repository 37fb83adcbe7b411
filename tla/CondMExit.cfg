CONSTANTS
  MAXCONDLEV = 4
  HasElif = TRUE
  CrossFrame = TRUE
  MaxSkip = 2
  MaxFrames = 2
  MExitClosed = TRUE
SPECIFICATION HSpec
INVARIANT OneBranch
CHECK_DEADLOCK FALSE
