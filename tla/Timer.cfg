SPECIFICATION FairSpec
CONSTANTS
  W = 3
  H = 2
  S = 1
  Delays = {0, 2, 3}
  Cycles = {}
  Handlers = {}
  Reads = {"ticks", "read"}
  MaxLag = 2
  Horizon = 9
INVARIANTS Inv UdelayNotEarly MaskedNotEarly UdelayNotLate
PROPERTY DelaysEnd
