SPECIFICATION SideBySide
CONSTANTS
  r1 = r1
  r2 = r2
  r3 = r3
  alice = alice
  bob = bob
  n1 = n1
  n2 = n2
  d1 = d1
  d2 = d2
  f1 = f1
  f2 = f2
  s1 = s1
  s2 = s2
  NoKey = NoKey
  Nobody = Nobody
  Users = {alice, bob}
  Owner = bob
  Requests = {r1, r2, r3}
  Faults = {}
  Serial = FALSE
  HasRedis = TRUE
  Notifications = {n1, n2}
  Devices = {d1, d2}
  InboxFaults <- AllInboxFaults
  Fans = {f1, f2}
  FollowCalls = {r1, r2, r3}
  FollowFailures = TRUE
  Streams = {s1, s2}
  Heartbeat = 2
  Lease = 6
  Refusals = 2
SYMMETRY Symmetry
INVARIANTS AllTypesOK NeverUndercounts MirrorAgreesUnlessReversed BadgeInStep FollowTablesAgree PresenceHeals
PROPERTY Linearizable
CONSTRAINT ThreeAtOnce
CHECK_DEADLOCK FALSE
