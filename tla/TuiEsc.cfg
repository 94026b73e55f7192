SPECIFICATION Spec
CONSTANTS
  Presses = {1, 2}
  Scripts <- EscInForm
  Getters = 1
  MaxInfo = 0
  MaxTips = 0
  None = None
PROPERTY EscCancelsInput
CHECK_DEADLOCK FALSE
