SPECIFICATION Spec
CONSTANTS
  Calls = {c1, c2, c3, c4}
  Kinds = {"create", "start", "waitNext", "read", "submit"}
  Sizes = {3, 5}
  U32Mod = 16
  MinReserved = 3
  OverflowChecks = FALSE
SYMMETRY CallSymmetry
INVARIANTS TypeOK NoMonitorNotFound InFlightTemplateCurrent OneReplyOwner DisconnectedMeansStopped StartReservesRoom
PROPERTIES StoreSpec LoopSpec AnswersNeverGoBack
CHECK_DEADLOCK FALSE
