SPECIFICATION FairSpec
CONSTANTS
  W = 4
  Pow2 <- MCPow2
INVARIANTS Inv Correct
PROPERTY Terminates
