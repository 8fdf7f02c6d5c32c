SPECIFICATION OrderedSpec
CONSTANTS
  l1 = l1
  w1 = w1
  h1 = h1
  p1 = p1
  p2 = p2
  usr = usr
  chld = chld
  Handles = {w1, h1}
  Internal = {w1}
  Loops = {l1}
  LoopOf <- OneLoop
  Signums = {usr, chld}
  Uncatchable = {usr}
  Threads = {t1}
  None = None
  PipeSize = 2
  BatchSize = 2
  MaxRaised = 1
  Procs = {p1, p2}
  ProcLoop <- ProcsOnOne
  Watcher <- WatcherOfOne
  SIGCHLD = chld
INVARIANT ProcessSound
PROPERTIES OneShotOnce SignalCloseDone EveryExitReported
CHECK_DEADLOCK FALSE
