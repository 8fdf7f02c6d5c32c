SPECIFICATION FairSpec
CONSTANTS
  Workers = {t1, t2}
  FastReqs = {f1}
  SlowReqs = {s1, s2}
  RunSlow = RunSlow
  Exit = Exit
  None = None
PROPERTIES FastNotStarved EveryRequestDone ShutdownJoins
