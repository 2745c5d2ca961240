SPECIFICATION FairSpec
CONSTANTS
  Paths = {"f", "g"}
  Configs <- Some
  INT_MAX = 100
  MAX_NUM_TARGETS = 2
  MAX_NUM_NOTIFICATIONS = 2
  MAX_NUM_MONITORED_FILES_PER_NOTIFICATION = 2
  Second = 2
  MayFail = TRUE
  MaxLines = 2
  MaxTime = 6
CHECK_DEADLOCK FALSE
INVARIANTS OncePerLine MatchAnswered
PROPERTIES Debounced SendersReaped
