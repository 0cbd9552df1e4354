SPECIFICATION Spec
CONSTANTS
  Threads = {t1, t2, t3, t4}
  Items = {a, b}
  Size = 2
  Null = null
  Ok = ok
  Full = full
  MaxPush = 5
INVARIANTS TypeOK RingOK NoLostWakeup
PROPERTY FifoSpec
SYMMETRY Symmetry
