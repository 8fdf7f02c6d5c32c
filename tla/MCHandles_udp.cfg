SPECIFICATION HandlesSpec
CONSTANTS
  c1 = c1  t1 = t1  s1 = s1
  Handles = {c1, t1, s1}
  Kind <- MixKinds
  MaxReqs = 1
  Greedy = TRUE
  Size <- WriteSizes
  MaxReads = 2
  SendEnd <- DatagramEnds
  MmsgWidth = 2
  MaxRecv = 3
  MaxFds = 5
  Ctxs = {1, 2, 3}
  Results = {"enoent", "eacces", "s1", "s2"}
  FsHandles = {h1, h2, h3}
  Paths = {p1, p2}
  MaxWd = 3
  MaxDents = 2
  MaxCalls = 3
  SrcSize = 4
  BufSize = 2
  MaxBufs = 3
  BufLens = {0, 1, 2}
  Iovmax = 2
  FileSize = 4
  AddressCases <- AddressInputs
  UintMax = 16383
  Parts = {"udp"}
CHECK_DEADLOCK FALSE
INVARIANT UdpClosedQuiet
