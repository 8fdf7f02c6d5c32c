SPECIFICATION PollsSpec
CONSTANTS
  s1 = s1  p1 = p1  g = g
  None = None
  Ws = {p1, p2}
  Kind <- Kinds
  Fds = {f1}
  MaxFiles = 3
  Exclusive = FALSE
  MaxClock = 9
  Timeouts = {0, 1, 4, 6}
  MaxLag = 1
  Coarse = 1
  max_safe_timeout = 5
  MaxCount = 3
  IntSpan = 32
  Timers = {t1, t2}
  Mod = 4
  IntMax = 1
  Delays = {0, 1, 3}
  MaxTime = 2
  MaxStarts = 4
  NoTimer = NoTimer
  N = 9
  Parts = {"watchers"}
CHECK_DEADLOCK FALSE
PROPERTY CloseStoppedSafe
