SPECIFICATION FairSpec
CONSTANTS
  Services = {s1}
  Fds = {f1, f2}
  NoFd = NoFd
  Nobody = Nobody
  BufSize = 2
  PtySize = 2
  M = 5
  MaxWriters = 2
  MaxSignals = 1
  MayFail = TRUE
CHECK_DEADLOCK FALSE
INVARIANTS OwnOutput OneLogger NothingLost LinesAreWhole
PROPERTIES JoinEnds OutputRead
