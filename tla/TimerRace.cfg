SPECIFICATION Spec
CONSTANTS
  W = 3
  H = 2
  S = 1
  Delays = {0, 2, 3}
  Cycles = {}
  Handlers = {"TIMER"}
  Reads = {"ticks"}
  MaxLag = 2
  Horizon = 5
INVARIANT UdelayNotEarly
