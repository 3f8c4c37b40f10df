\* A save-score between the two statements of delete-account.
SPECIFICATION Spec
CONSTANTS
  r1 = r1
  r2 = r2
  r3 = r3
  ann = ann
  bob = bob
  NoUser = NoUser
  Handlers = {r1, r2}
  Names = {ann}
  Passwords = {1}
  Games = {"bp"}
  Posted = {3}
  ConnectionLimit = 2
  MaxRequests = 3
  MaxFaults = 0
  Schemas <- MCSchemas
CHECK_DEADLOCK FALSE
INVARIANTS
  DeleteErasesScores
