SPECIFICATION SideBySide
CONSTANTS
  r1 = r1
  r2 = r2
  r3 = r3
  alice = alice
  bob = bob
  c1 = c1
  c2 = c2
  ann = ann
  ben = ben
  j1 = j1
  Participants = {alice, bob}
  Requests = {r1, r2, r3}
  Kinds <- Everything
  Versions = {1, 2}
  Ties = FALSE
  Failures = TRUE
  Consumers = {c1, c2}
  MaxDisruptions = 1
  People = {ann, ben}
  Author = ann
  CellCount = 2
  Jobs = {j1}
  FanoutFaults <- AllFanoutFaults
  MaxMoves = 1
  Saves = {alice, bob}
  IndexFaults <- AllIndexFaults
SYMMETRY Symmetry
INVARIANTS AllTypesOK NeverLostFromInbox BlockStopsTraffic FanoutReachesEachOnce SearchFollowsRow
CHECK_DEADLOCK FALSE
