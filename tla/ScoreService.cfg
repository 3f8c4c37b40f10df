\* Three handlers of one username on two connections, under every schema.
SPECIFICATION Spec
CONSTANTS
  r1 = r1
  r2 = r2
  r3 = r3
  ann = ann
  bob = bob
  NoUser = NoUser
  Handlers = {r1, r2, r3}
  Names = {ann}
  Passwords = {1}
  Games = {"mine", "bp"}
  Posted = {0, 3, 5}
  ConnectionLimit = 2
  MaxRequests = 4
  MaxFaults = 1
  Schemas <- MCSchemas
SYMMETRY MCSymmetry
CHECK_DEADLOCK FALSE
INVARIANTS
  TypeOK
  PoolConserved
  FailedRegisterLeavesNothing
  AcceptedRegisterStands
  AcceptedScoreKept
  RecordEarned
  MineRecordFrozen
PROPERTIES
  LedgerKept
