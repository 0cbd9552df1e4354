SPECIFICATION FairSpec
CONSTANTS
  Producers = {p1, p2}
  Workers = {w1, w2}
  Env = env
  QueueSize = 1
  MaxBuffers = 2
INVARIANTS TypeOK RefCounted NoUseAfterFree OneHome NothingLeft
PROPERTIES ReclaimSpec Reclaimed DestroyReturnsIfServed
