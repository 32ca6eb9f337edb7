SPECIFICATION Scenes
CONSTANTS
  e1 = e1
  t1 = t1
  c1 = c1
  p1 = p1
  p2 = p2
  Events = {e1}
  Consumers = {c1}
  MaxDisruptions = 1
  Faults = {"cassandra", "expire", "crash"}
  PushConsumers = {p1, p2}
  Tokens = {t1}
  MaxRetries = 1
  MaxLog = 2
  PushFaults <- AllPushFaults
  PushDisruptions = 1
SYMMETRY ReaderSymmetry
INVARIANTS PipelineTypeOK PushedIsSaved NoTokenForgotten
PROPERTIES OnceToDevice
CHECK_DEADLOCK FALSE
