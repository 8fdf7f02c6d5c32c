SPECIFICATION WindowsSpec
CONSTANTS
  TcpWrites = {"w1", "w2"}
  TcpAcceptReqs <- AcceptReqs
  PipeInstances <- ServerInstances
  AnsiInputs <- ConsoleInputs
  PipeWrites = {"w1", "w2"}
  MaxFrames = 2
  TtyWrites = {"w1", "w2"}
  MaxKeys = 2
  MaxSlack = 1
  CsiArgs = 2
  ArgMax = 127
  BufferSize = 2
  UdpSends = {"s1", "s2"}
  MaxEntries = 2
  MaxStdio = 4
  CommandInputs <- ProgramInputs
  Granularity = 2
  MaxFile = 3
  GroupSize = 2
  HashFds = {1, 2, 3, 4, 5}
  InitialDirents = 1
  MaxDirents = 5
  PathInputs <- NamesAndTimes
  Second = 4
  RunAsyncs = {"a1"}
  RunSenders = {"x1", "x2"}
  WaitMax = 7
  WaitClock = 3
  WinSignals = {"g1", "g2"}
  LoopWatchers = {"v1", "v2", "v3"}
  ChunkSize = 1
  MaxLoops = 5
  AddrStruct = 5
  WinParts = {"tcp", "pipe", "pipe_server", "tty", "ansi", "udp", "poll", "fs_event", "process", "command", "open", "file", "hash", "fs", "dirs", "paths", "run", "wait", "watchers", "signal", "loops", "resolve"}
CHECK_DEADLOCK FALSE
INVARIANTS WinStreamSound WinConsoleSound WinHandleSound WinDataExact WinLoopSound
