CONSTANTS
  Names = {"a", "b"}
  DefaultName = "a"
  Labels = {"x", "y"}
  Sources = {
    {"label", "data", "section", "org", "offset", "offset expr"},
    {"data", "section", "org", "offset", "pushsection", "popsection", "assert"},
    {"data", "section", "org=", "dsect", "dend"},
    {"data", "org=", "dsect", "dend"}}
  SECSTACKSIZE = 2
  MaxSecs = 4
  MaxAtoms = 2
SPECIFICATION Spec
INVARIANTS TypeOK OutputComplete AssertionsListed ListUnique DsectUnallocated NoInternalError
CHECK_DEADLOCK FALSE
