SPECIFICATION Spec
CONSTANTS
  r1 = r1
  r2 = r2
  r3 = r3
  ann = ann
  None = None
  Requests = {r1, r2, r3}
  Users = {ann}
  Posts = {p1}
  MaxCommentDepth = 2
  PageSize = 1
  Millis = {1, 2}
  Failures = TRUE
CONSTRAINT ScrollOrCounterFaults
SYMMETRY Symmetry
INVARIANTS TypeOK TablesAgree DeletedIsFinal CountNeverOver CountExactWhenCalm ScrollComplete
PROPERTIES NothingComesBack
CHECK_DEADLOCK FALSE
