CONSTANTS
  Threads = {t1, t2}
  u = u
  s = s
  Timers = {u, s}
  Users = {u}
  Status = {s}
  Interval <- Intervals
  Width = 4
  Lazy = 1
  Clients = TRUE
  MaxLag = 1
  NoThread = NoThread
  NoTimer = NoTimer
SPECIFICATION Spec
INVARIANT NotEarly
INVARIANT Punctual
CHECK_DEADLOCK FALSE
SYMMETRY ThreadsAlike
