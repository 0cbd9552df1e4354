SPECIFICATION SigningSpec
CONSTANTS
  Senders = {s1, s2}
  Resetters = {r1, r2}
  MaxResets = 2
  Lifetime = 6
  Advance = 1
  MinInterval = 2
  MaxTime = 9
INVARIANTS TypeOK FetchSpacing SignedFresh ThreadSafe
PROPERTIES Renewed LoggedAlive
SYMMETRY Interchangeable
CHECK_DEADLOCK FALSE
