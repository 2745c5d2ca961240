SPECIFICATION Spec
CONSTANTS
  Names = {default, a, b}
  Default = default
  Trees <- PlainGraphs
CHECK_DEADLOCK FALSE
INVARIANT DeclaredFirst
