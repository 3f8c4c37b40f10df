----------------------------- MODULE MCGame2048 -----------------------------
(* Game2048 for TLC.  The boards of its run are too small for three tiles in *)
(* a row, so move_tiles is also evaluated on boards of 3 x 3.                *)
EXTENDS Game2048

\* A move keeps the sum of the tiles, gains what its merges are worth, reports
\* a move exactly when the board changes and leaves no gap in its direction.
ASSUME MovesOfThree ==
  \A g \in [Board(3) -> {0, 2, 4}], d \in Directions :
    LET m == MoveTiles(3, g, d)
    IN /\ Total(m.grid, LAMBDA v : v) = Total(g, LAMBDA v : v)
       /\ WorthOf(m.grid) = WorthOf(g) + m.gain
       /\ m.moved <=> m.grid # g
       /\ \A c \in Board(3) : m.grid[c] # 0 /\ Ahead(c, d, 1) \in Board(3)
                                => m.grid[Ahead(c, d, 1)] # 0
=============================================================================
