SPECIFICATION ForkSpec
CONSTANTS
  None = None
  Ws = {s1}
  Kind <- ForkKinds
  Fds = {f1}
  MaxFiles = 3
  Exclusive = TRUE
CHECK_DEADLOCK FALSE
INVARIANT NoAbort
