SPECIFICATION Spec
CONSTANTS
  NSRV = 2
  Pids = {p1, p2}
  NoPid = NoPid
  Codes = {0, 137}
  Configs <- Failing
  Faults = {"chdir", "fork", "thread"}
  Commands <- NoName
  MaxSignals = 1
  MaxStrays = 1
  MaxPending = 1
SYMMETRY PidSymmetry
CHECK_DEADLOCK FALSE
INVARIANTS StartOrderRespected ExitStatus TermBeforeKill
