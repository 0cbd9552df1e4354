SPECIFICATION Spec
CONSTANTS
  Clients = {c1, c2}
  RawClients = {}
  SendThreads = {s1, s2}
  Flush = flush
  Destroyer = destroyer
  BaseQueueSize = 1
  LogsPerPackage = 2
  MaxBufferBytes = 2
  LogSize = 2
  ZipSize = 1
  Width = 64
  MaxLogs = 4
INVARIANTS TypeOK OneHome Accounting SendOrder PushAlwaysSuccess Quiescent CleanExit
SYMMETRY Interchangeable
