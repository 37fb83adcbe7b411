SPECIFICATION Spec
CONSTANT Themes <- AllThemes
INVARIANTS
  ReferencesBind
  OutputAsWritten
  
  StringsReadBack
  RegisterSizes
  QuotedTextKept
CHECK_DEADLOCK FALSE
