SPECIFICATION Spec
CONSTANTS
  GRID_WIDTH = 4
  GRID_HEIGHT = 4
  Tetrominos <- TwoShapes
  LevelStep = 100
  MaxScore = 210
\* The space bar before the first Start hangs the program.
CHECK_DEADLOCK FALSE
INVARIANTS
  TypeOK
  PieceFits
  LinesCleared
  OneTimer
