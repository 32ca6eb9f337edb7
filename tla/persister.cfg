SPECIFICATION FairFromFirst
CONSTANTS
  e1 = e1
  e2 = e2
  c1 = c1
  c2 = c2
  Events = {e1}
  Consumers = {c1, c2}
  MaxDisruptions = 2
  Faults <- AllFaults
INVARIANTS AnnouncedOnlyIfSaved BlockedStaysSilent
PROPERTIES EveryEventSettles OneFate
CHECK_DEADLOCK FALSE
