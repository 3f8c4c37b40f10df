SPECIFICATION Spec
CONSTANTS
  GRID_WIDTH = 4
  GRID_HEIGHT = 4
  Tetrominos <- TwoShapes
  LevelStep = 100
  MaxScore = 210
INVARIANT
  HardDropEnds
