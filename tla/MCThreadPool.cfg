SPECIFICATION Spec
CONSTANTS
  Workers = {t1, t2, t3}
  FastReqs = {f1}
  SlowReqs = {s1, s2, s3}
  RunSlow = RunSlow
  Exit = Exit
  None = None
SYMMETRY Symmetry
INVARIANTS PoolSound SlowBound
PROPERTY ImplementsRequests
