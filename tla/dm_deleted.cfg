SPECIFICATION Spec
CONSTANTS
  r1 = r1
  r2 = r2
  r3 = r3
  r4 = r4
  alice = alice
  bob = bob
  Participants = {alice, bob}
  Requests = {r1, r2, r3, r4}
  Kinds <- Sending
  Versions = {1}
  Ties = FALSE
  Failures = FALSE
SYMMETRY Symmetry
INVARIANTS DeletedStaysHidden
CHECK_DEADLOCK FALSE
