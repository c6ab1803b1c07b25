SPECIFICATION Spec
CONSTANTS
  IRQ = {1, 2}
  StackWords = 32
INVARIANT StackFits
PROPERTIES ContextRestored ImplementsBspIrq
