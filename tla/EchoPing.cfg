SPECIFICATION PingSpec
CONSTANTS
  Calls = {p1, p2, p3, p4, bye}
  Bye = bye
  Kinds = {"echo", "destroy"}
  Sizes = {0}
  U32Mod = 16
  MinReserved = 3
  OverflowChecks = TRUE
CHECK_DEADLOCK FALSE
INVARIANTS PingTypeOK OneAtATime TotalsAreRight
PROPERTIES TokenReleasesPing LinkLossEnds InterruptEnds
