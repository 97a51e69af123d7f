\* A socket leaves while a broadcast waits in a send.
SPECIFICATION HubSpec
CONSTANTS
  s1 = s1
  s2 = s2
  s3 = s3
  b1 = b1
  b2 = b2
  Sockets = {s1, s2, s3}
  Casts = {b1}
  Lists = 2
SYMMETRY HubSymmetry
INVARIANTS
  ReachesAll
CHECK_DEADLOCK FALSE
