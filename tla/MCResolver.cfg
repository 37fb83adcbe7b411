CONSTANTS
  NumSecs = 2
  Labels = {"la", "lb"}
  Programs <- MCPrograms
  InstSize <- MCInstSize
  ExprVal <- MCExprVal
  MAXPASSES = 8
  FASTOPTPHASE = 1
  MAXSIZECHANGES = 1
  One = {"roffs 5", "lb:", "lb: dw", "beq lb", "opt lb", "lda *", "cnop 0,4,1", "blk 1-lb&1", "rorg 2", "rend"}
  Two = {"la:", "lb:", "lda lb", "blk lb&1", "blk 1-la&1", "beq la", "opt la", "db 3"}
  MaxOne = 4
  MaxTwo = 2
SPECIFICATION FairSpec
INVARIANTS TypeOK AssemblyConsistent SafeMode WorklistSound
PROPERTY Terminates
CHECK_DEADLOCK FALSE
