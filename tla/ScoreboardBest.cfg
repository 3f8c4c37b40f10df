\* Two players of one client follow each other.
SPECIFICATION BoardSpec
CONSTANTS
  ann = ann
  bob = bob
  annlong = annlong
  Names = {ann, bob}
  NoName = NoName
  MaxMoves = 1
  Cut <- MCCut
  Ranks = 1
  Scores = {1}
  Followed = {"mine"}
INVARIANT
  YourBestIsYours
