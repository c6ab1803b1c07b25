SPECIFICATION Spec
CONSTANTS
  W = 2
  H = 1
  S = 1
  Delays = {}
  Cycles = {0, 1, 3}
  Handlers = {"TIMER", "TTY2"}
  Reads = {"read"}
  MaxLag = 1
  Horizon = 0
PROPERTY AlarmExact
