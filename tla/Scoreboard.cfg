\* Two players, a name that is cut to one of theirs, other clients, times of
\* Minesweeper, a key handler of 2048.
SPECIFICATION BoardSpec
CONSTANTS
  ann = ann
  bob = bob
  annlong = annlong
  Names = {ann, bob, annlong}
  NoName = NoName
  MaxMoves = 1
  Cut <- MCCut
  Ranks = 2
  Scores = {1, 2}
  Followed = {"mine"}
CONSTRAINT MCBound
INVARIANTS
  BoardTypeOK
  PlayerKnown
  ScoresOfAccepted
  ShownWasReached
  RanksNotTooLow
  
