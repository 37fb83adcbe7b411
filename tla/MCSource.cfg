CONSTANTS
  Programs <- MCPrograms
  Text <- MCText
  Available <- MCAvailable
  Main = "main"
  maxmacrecurs = 3
  maxmacparams = 4
  MAXCONDLEV = 5
  enddir_minlen = 2
  mnemonics = {"nop"}
  directives = {"org"}
  ignore_multinc <- MCIgnore
  DottedLists = FALSE
SPECIFICATION Spec
INVARIANTS TypeOK RecursionsBalanced ReptnIsInnermost ExpansionRight
PROPERTY Terminates
CHECK_DEADLOCK FALSE
