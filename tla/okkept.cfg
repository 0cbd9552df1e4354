SPECIFICATION Spec
CONSTANTS
  Clients = {c1, c2}
  RawClients = {}
  SendThreads = {s1}
  Flush = flush
  Destroyer = destroyer
  BaseQueueSize = 1
  LogsPerPackage = 2
  MaxBufferBytes = 4
  LogSize = 2
  ZipSize = 1
  Width = 64
  MaxLogs = 3
PROPERTY OkMeansKept
