SPECIFICATION FairSpec
CONSTANTS
  e1 = e1
  t1 = t1
  t2 = t2
  c1 = c1
  c2 = c2
  Events = {e1}
  Tokens = {t1}
  PushConsumers = {c1}
  MaxRetries = 3
  PushDisruptions = 0
  MaxLog = 0
  PushFaults <- ServiceFaults
PROPERTIES RetriedOnceReady
CHECK_DEADLOCK FALSE
