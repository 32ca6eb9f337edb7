SPECIFICATION Spec
CONSTANTS
  p1 = p1
  p2 = p2
  r1 = r1
  r2 = r2
  alice = alice
  bob = bob
  north = north
  south = south
  None = None
  Users = {alice, bob}
  Viewer = alice
  Authors = {bob}
  Old = {p1}
  Requests = {r1, r2}
  Cells <- TwoCells
  Places <- ThreePlaces
  Limits = {1, 2}
  MaxLimit = 3
  ResetLimit = 1
  Failures = TRUE
SYMMETRY Alike
INVARIANTS TypeOK DeletedIsGone PostsStay BarredUnseen ScrollComplete
PROPERTIES ShownForOneSpan
CONSTRAINT ScrollOrOthers
CHECK_DEADLOCK FALSE
