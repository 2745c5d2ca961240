SPECIFICATION FairSpec
CONSTANTS
  NSRV = 1
  Pids = {p1, p2}
  NoPid = NoPid
  Codes = {0, 137}
  Configs <- Single
  Faults = {}
  Commands = {1}
  MaxSignals = 1
  MaxStrays = 1
  MaxPending = 1
CHECK_DEADLOCK FALSE
PROPERTIES ShutdownCompletes Respawned RestartServed ZombiesReaped
