SPECIFICATION Spec
CONSTANTS
  Keys <- MCKeys
  MaxTyped = 3
  Texts <- MCTexts
  Lens = {1, 2}
  MaxCalls = 3
  Increments <- MCIncrements
  HeapStart = 4
  HeapEnd = 10
  STACK_BUFFER_SIZE = 2
INVARIANTS Inv NothingLost ScreenRight
PROPERTIES ReadsSome EchoesAll
