SPECIFICATION Spec
CONSTANTS
  Clients = {c1, c2}
  RawClients = {}
  SendThreads = {}
  Flush = flush
  Destroyer = destroyer
  BaseQueueSize = 2
  LogsPerPackage = 2
  MaxBufferBytes = 1
  LogSize = 2
  ZipSize = 1
  Width = 64
  MaxLogs = 5
INVARIANTS Overshoot OvertakenNotFull
SYMMETRY Interchangeable
