SPECIFICATION Spec
CONSTANTS
  Chars = {1, 10, 16}
  U32Mod = 8
  MaxKeys = 8
INVARIANTS TypeOK SubmittedAsTyped
CHECK_DEADLOCK FALSE
