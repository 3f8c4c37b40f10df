\* A field of nine cells and two games.
SPECIFICATION Spec
CONSTANTS
  FieldSize = 3
  TotalMines = 1
  MaxTime = 1
  MaxStarts = 2
  MaxFlags = 1
CHECK_DEADLOCK FALSE
INVARIANTS
  TypeOK
  ClearedIsReported
  OneTimer
PROPERTIES
  PressOpensTheFlood
  ReportsAgree
