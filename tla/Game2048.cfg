SPECIFICATION Spec
CONSTANTS
  grid_size = 2
  SwapUses = 2
  RemoveUses = 1
  MaxScore = 12
  MaxDepth = 2
INVARIANTS
  TypeOK
  ScoreEarned
  LostGameReported
  ReportIsFinal
