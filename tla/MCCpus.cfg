CONSTANTS
  PAGE = 256
  REACH = 128
  Codes = {"lda", "lday", "ldai", "jmp", "beq", "bne", "bra", "brl", "bbr0", "rts"}
  Names = {"adca", "jmp", "jsr", "ldx", "leax", "bra", "bsr", "beq", "lbra", "lbsr", "lbeq"}
  Cpus = {"6809", "6309", "hc12", "konami"}
  Options = {{}, {"branch", "pc"}, {"aggressive"}}
  Dpage = 0
  Origins = {0, 1000, 65300}
SPECIFICATION Spec
INVARIANTS SizeIsWritten EmittedEffect BranchesFit
CHECK_DEADLOCK FALSE
