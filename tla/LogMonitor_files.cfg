SPECIFICATION FairSpec
CONSTANTS
  Inodes = {i1, i2}
  NoFile = NoFile
  NoFd = NoFd
  BufSize = 2
  MaxLine = 2
  Kinds = {"log", "status"}
  MaxSeconds = 1
  MaxChunks = 3
  MaxChanges = 1
CHECK_DEADLOCK FALSE
INVARIANTS InOrderOnce LinesOfFile
PROPERTY StandingHandled
