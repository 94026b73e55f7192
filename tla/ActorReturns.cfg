SPECIFICATION Spec
CONSTANTS
  Calls = {c1, c2, c3}
  Kinds = {"echo", "waitTip", "start", "unimplemented"}
  Sizes = {1, 4}
  U32Mod = 16
  MinReserved = 3
  OverflowChecks = TRUE
PROPERTIES CancelledEchoReleased LinkLossReleases EveryCallReturns HandlesGoneThenStopped
CHECK_DEADLOCK FALSE
