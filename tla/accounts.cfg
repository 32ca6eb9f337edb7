SPECIFICATION Spec
CONSTANTS
  r1 = r1
  r2 = r2
  r3 = r3
  m1 = m1
  m2 = m2
  n1 = n1
  p1 = p1
  None = None
  First = First
  Requests = {r1, r2, r3}
  Mails = {m1, m2}
  Names = {n1}
  Passwords = {p1}
  Failures = TRUE
SYMMETRY Symmetry
INVARIANTS TypeOK DeletedStaysOut TokenUsedOnce TakenOnce AnonymousForGood
CHECK_DEADLOCK FALSE
