SPECIFICATION Spec
CONSTANTS
  Tips = {t1, t2}
  Subs = {s1}
  Resilient = {s1}
  Cap = 2
  None = None
PROPERTY EventsAreChanges
