CONSTANTS
  MaxLine = 2
  MaxRaised = 2
  Names <- MCNames
  HTSIZE = 3
  UPPER = 8
  MaxSymbols = 3
  HALF_BITS = 2
  BYTE_BITS = 1
  TADDR_BITS = 3
  BIGENDIAN = FALSE
  unsigned_shift = FALSE
SPECIFICATION Spec
INVARIANTS ExitTells SymbolsFound ReadAsDocumented ConstantsStay RelocatedByBase HugeAgrees
CHECK_DEADLOCK FALSE
