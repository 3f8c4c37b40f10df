\* Three handlers of one username: two of them with a connection, so that one
\* waits for a row that another has locked.
SPECIFICATION FairSpec
CONSTANTS
  r1 = r1
  r2 = r2
  r3 = r3
  ann = ann
  bob = bob
  NoUser = NoUser
  Handlers = {r1, r2, r3}
  Names = {ann}
  Passwords = {1}
  Games = {"bp"}
  Posted = {3}
  ConnectionLimit = 2
  MaxRequests = 3
  MaxFaults = 1
  Schemas <- MCStrictSchema
CHECK_DEADLOCK FALSE
PROPERTIES
  EveryRequestAnswered
