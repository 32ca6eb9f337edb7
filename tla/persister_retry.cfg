SPECIFICATION Spec
CONSTANTS
  e1 = e1
  e2 = e2
  c1 = c1
  c2 = c2
  Events = {e1, e2}
  Consumers = {c1}
  MaxDisruptions = 2
  Faults <- WriteFaults
INVARIANTS CommittedIsSettled
CHECK_DEADLOCK FALSE
