SPECIFICATION LiveSpec
CONSTANTS
  Presses = {1, 2, 3, 4, 5}
  Scripts <- Sessions
  Getters = 2
  MaxInfo = 1
  MaxTips = 1
  None = None
INVARIANTS TypeOK FormHasMonitor SpinnerHasCall OneTemplateShown OneReport
PROPERTIES ConnectSettles PressAnswered QuitKeyQuits TipShown
CHECK_DEADLOCK FALSE
