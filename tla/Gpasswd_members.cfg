SPECIFICATION GpSpec
CONSTANTS
  Procs = {p1, p2, p3}
  NoProc = NoProc
  Users = {"alice", "bob", "mallory"}
  Known = {"alice", "bob"}
  Requests <- SomeRequests
  MayFail = TRUE
CHECK_DEADLOCK FALSE
INVARIANTS AgreeAtRest LocksReleased
SYMMETRY Symmetry
PROPERTY ImplementsDatabase
