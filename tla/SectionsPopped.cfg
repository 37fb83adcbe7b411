CONSTANTS
  Names = {"a", "b"}
  DefaultName = "none"
  Labels = {"x"}
  Sources = {{"label", "data", "section", "pushsection", "popsection"}}
  SECSTACKSIZE = 2
  MaxSecs = 3
  MaxAtoms = 1
SPECIFICATION Spec
INVARIANT OutputComplete
CHECK_DEADLOCK FALSE
