SPECIFICATION Spec
CONSTANTS
  NSRV = 2
  Pids = {p1, p2, p3}
  NoPid = NoPid
  Codes = {0, 7, 137}
  Configs <- Operation
  Faults = {}
  Commands = {0, 1, 2}
  MaxSignals = 1
  MaxStrays = 1
  MaxPending = 1
SYMMETRY PidSymmetry
CHECK_DEADLOCK FALSE
INVARIANTS TypeOK PidOwned LoggerBesideProcess ExitLeavesNothing ExitStatus StoppedInReverse IdleIsFinal
PROPERTY ImplementsSupervisor
