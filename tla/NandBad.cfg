SPECIFICATION Spec
CONSTANTS
  MaxDev = 2
  NameMax = 2
  Chip <- MCChipOob
  Byte = {0, 1}
  Erased = 1
  WordBits = 2
  WideBits = 16
  FarLengths = {}
  FarOps = {}
  FarOffsets = {65535}
  LongErases = {3, 4, 5}
  Requests = {"erase", "write", "isbad", "markbad"}
PROPERTY ImplementsMtd
CHECK_DEADLOCK FALSE
