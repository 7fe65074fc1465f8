CONSTANTS
  Threads = {t1, t2}
  u = u
  s = s
  Timers = {s}
  Users = {}
  Status = {s}
  Interval <- Intervals
  Width = 3
  Lazy = 1
  Clients = TRUE
  MaxLag = 1
  NoThread = NoThread
  NoTimer = NoTimer
SPECIFICATION FairSpec
PROPERTY Fires
CHECK_DEADLOCK FALSE
