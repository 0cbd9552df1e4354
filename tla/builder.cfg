SPECIFICATION Spec
CONSTANTS
  Base = 4
  Wrap = 1024
  MinTime = 300
  Overhead = 7
  Times = {5, 1000}
  Lengths = {0, 55}
  MaxPairs = 2
  MaxFields = 4
INVARIANTS WithinBuffers SizeAnnounced Encoded TimesFixed
CHECK_DEADLOCK FALSE
