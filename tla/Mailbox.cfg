SPECIFICATION FairSpec
CONSTANTS
  Programs = {"c07e1", "c07e2", "c07e3"}
  MaxKeys = 3
  Keys = {"d", "e", "g", "s", "t", "x", "r"}
INVARIANTS Inv ObeyedInOrder TimerMaskObeyed
PROPERTIES MainPolls AlarmsHandled
