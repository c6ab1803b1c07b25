SPECIFICATION Spec
CONSTANTS
  Word = 2
  DataSizes = {0, 1, 2, 3}
  BssSizes = {0, 1, 2, 4}
  CodeSizes = {0, 1, 4}
  StackSize = 2
  Top = 28
INVARIANTS ImageRight StacksApart
PROPERTY ReachesMain
