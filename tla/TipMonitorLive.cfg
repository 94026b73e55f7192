SPECIFICATION LiveSpec
CONSTANTS
  Tips = {t1, t2, t3}
  Subs = {s1, s2}
  Resilient = {s1}
  Cap = 1
  None = None
PROPERTIES ReceiversConverge SubscriptionsEnd
