SPECIFICATION Spec
CONSTANTS
  MaxDev = 2
  NameMax = 2
  Chip <- MCChip
  Byte = {0, 1}
  Erased = 1
  WordBits = 8
  WideBits = 16
  FarLengths = {255}
  FarOps <- MCFarOps
  FarOffsets = {65534}
  LongErases = {}
  Requests = {"read", "write", "erase", "read_oob", "write_oob"}
INVARIANTS Inv ListRight CommandsInDevice
PROPERTY ImplementsMtd
CHECK_DEADLOCK FALSE
