SPECIFICATION Spec
CONSTANTS
  r1 = r1
  r2 = r2
  r3 = r3
  r4 = r4
  alice = alice
  bob = bob
  Users = {alice, bob}
  Owner = bob
  Requests = {r1, r2, r3}
  Faults = {}
  Serial = FALSE
  HasRedis = TRUE
SYMMETRY RequestSymmetry
INVARIANT CountIsTotal
CHECK_DEADLOCK FALSE
