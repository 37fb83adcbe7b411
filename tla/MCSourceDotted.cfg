CONSTANTS
  Programs <- MCPrograms
  Text <- MCText
  Available <- MCAvailable
  Main = "main"
  maxmacrecurs = 3
  maxmacparams = 4
  MAXCONDLEV = 5
  enddir_minlen = 2
  mnemonics = {"nop"}
  directives = {"org"}
  ignore_multinc <- MCIgnore
  DottedLists = TRUE
SPECIFICATION Spec
INVARIANT ExpansionRight
CHECK_DEADLOCK FALSE
