SPECIFICATION Spec
CONSTANTS
  Clients = {c1}
  RawClients = {}
  SendThreads = {}
  Flush = flush
  Destroyer = destroyer
  BaseQueueSize = 1
  LogsPerPackage = 2
  MaxBufferBytes = 4
  LogSize = 2
  ZipSize = 1
  Width = 64
  MaxLogs = 3
INVARIANT ExitReportsUnsent
