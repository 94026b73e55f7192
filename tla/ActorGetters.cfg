SPECIFICATION Spec
CONSTANTS
  Calls = {c1, c2}
  Kinds = {"start", "unimplemented"}
  Sizes = {1}
  U32Mod = 16
  MinReserved = 3
  OverflowChecks = TRUE
SYMMETRY CallSymmetry
INVARIANTS GettersAnswered
CHECK_DEADLOCK FALSE
