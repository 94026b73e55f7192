SPECIFICATION Spec
CONSTANTS
  Calls = {s1, c1, e1}
  Starts = {s1}
  Echoes = {e1}
  Budget = 1
  None = None
INVARIANT TypeOK
PROPERTIES EveryTaskRuns LinkLossReleases LoopSpec
CHECK_DEADLOCK FALSE
