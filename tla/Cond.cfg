CONSTANTS
  MAXCONDLEV = 4
  HasElif = FALSE
  CrossFrame = FALSE
  MaxSkip = 2
  MaxFrames = 2
SPECIFICATION Spec
INVARIANTS TypeOK NestedBlocksDead OuterBlocksOn
PROPERTY StackSpec
CHECK_DEADLOCK FALSE
