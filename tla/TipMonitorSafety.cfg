SPECIFICATION HSpec
CONSTANTS
  Tips = {t1, t2}
  Subs = {s1, s2}
  Resilient = {s1}
  Cap = 2
  MaxEvents = 5
  None = None
SYMMETRY TipSymmetry
INVARIANTS TypeOK StopIsEnd
PROPERTIES LoopNeverLeft FeedPromise
