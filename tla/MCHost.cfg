CONSTANTS
  Did = "d"
  Identity = "I"
  Packets <- MCPackets
  Documents <- MCDocuments
  Callers = {"c1", "c2"}
  Reserved = {"a,b"}
  None = None
  GatewayUri = "a"
  Redirects <- MCRedirects
  Private = {"p"}
  AllowPrivate = FALSE
  MaxRedirects = 1
  MaxRecords = 8
  MaxSequence = 3
  Clocks = {0, 3}
  Clients = {"c1", "c2", "c3"}
  DIDs = {"d1"}
  Supported = {"d1"}
  TTL = 2
  MaxTime = 2
  Nil = Nil
  Threads = {"c1", "c2"}
  Checkpoints <- MCCheckpoints
  Requests <- MCSyncRequests
  CoreTasks = {"b"}
  Nothing = Nothing
  AppCalls = {"c1", "c2"}
  TaskIds = {"a", "b"}
  NoWait = NoWait
  Phrases = {"p1", "p2"}
  Passwords = {"a", "b"}
  WorkFactor = 1
  MaxBackups = 2
  Absent = Absent
  Parts = {"dht", "path", "vault", "desktop", "socket", "mobile", "core", "flight", "setup", "keys"}
INIT AllInit
NEXT AllNext
INVARIANTS
  SpeaksForThemselves VaultCoherent   NoLeakedTask
  CoreGates OneFlight FlowsExact  
CHECK_DEADLOCK FALSE
