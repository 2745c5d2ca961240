SPECIFICATION Spec
CONSTANTS
  Names = {default, a, b, c}
  Default = default
  Trees <- Graphs
CHECK_DEADLOCK FALSE
INVARIANTS OrderOfTable FollowedFirst
PROPERTY Terminates
