\* A move before the second player has joined.
SPECIFICATION Spec
CONSTANTS
  s1 = s1
  s2 = s2
  s3 = s3
  u1 = u1
  u2 = u2
  u3 = u3
  lobby = lobby
  den = den
  c1 = c1
  c2 = c2
  c3 = c3
  None = None
  Sockets = {s1, s2}
  Users = {u1, u2}
  Rooms = {lobby}
  Cells = {c1, c2, c3}
CHECK_DEADLOCK FALSE
PROPERTIES
  StartsWithX
