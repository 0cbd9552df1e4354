SPECIFICATION FairSpec
CONSTANTS
  Clients = {c1}
  RawClients = {r1}
  SendThreads = {s1}
  Flush = flush
  Destroyer = destroyer
  BaseQueueSize = 1
  LogsPerPackage = 2
  MaxBufferBytes = 3
  LogSize = 2
  ZipSize = 1
  Width = 64
  MaxLogs = 3
INVARIANT Accounting
PROPERTIES DeliverySpec BuilderFlushed
