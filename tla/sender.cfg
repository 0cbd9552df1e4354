SPECIFICATION FairSpec
CONSTANTS
  Senders = {s1, s2}
  Lz4 = TRUE
  BaseNetwork = 1
  MaxNetwork = 3
  BaseQuota = 2
  MaxQuota = 3
  InvalidTime = 2
INVARIANTS TypeOK BackOff
PROPERTIES GetsThrough ShutdownEnds RecoverHeard
