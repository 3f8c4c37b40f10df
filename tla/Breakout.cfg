SPECIFICATION Spec
CONSTANTS
  MaxBalls = 2
  MaxItems = 2
  StartLives = 2
  MaxLives = 3
  Bricks <- WallOfTwo
  MouseX = {500, 900}
  MaxLevel = 2
INVARIANTS
  TypeOK
  BallsCounted
  GameCanGoOn
  LostGameReported
  SpawnFindsFreeSlot
