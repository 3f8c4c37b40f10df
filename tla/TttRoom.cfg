\* Three connections, three sender names, one room of three cells.
SPECIFICATION Spec
CONSTANTS
  s1 = s1
  s2 = s2
  s3 = s3
  u1 = u1
  u2 = u2
  u3 = u3
  lobby = lobby
  den = den
  c1 = c1
  c2 = c2
  c3 = c3
  None = None
  Sockets = {s1, s2, s3}
  Users = {u1, u2, u3}
  Rooms = {lobby}
  Cells = {c1, c2, c3}
SYMMETRY MCSymmetry
CHECK_DEADLOCK FALSE
INVARIANTS
  TypeOK
  SymbolsSound
  NoAbandonedGame
  StartAnnouncedOnce
  NoGhostPlayer
  PlayersKnowTheBoard
PROPERTIES
  BoardsAlternate
