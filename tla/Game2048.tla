------------------------------ MODULE Game2048 ------------------------------
(***************************************************************************)
(* The game of games/2048.c.  update_score shows the score by running the  *)
(* main loop until no event is left, so the handler of a key stops in the  *)
(* middle, twice: in move_tiles, before the new tile is added, and after   *)
(* it, before the end of the game is looked for.  Meanwhile any callback   *)
(* may run, another key too, which may stop in turn.  stack holds, innermost *)
(* last, what the stopped handlers have left to do.                        *)
(*                                                                         *)
(* The dialog at the end of the game is modal: the widgets of the game get *)
(* no event until it is closed.                                            *)
(***************************************************************************)
EXTENDS Integers, Sequences, FiniteSets, SequencesExt

CONSTANTS
  grid_size,     \* 4 in 2048.c
  SwapUses,      \* 2
  RemoveUses,    \* 1
  MaxScore,      \* bound: no move takes the score above it
  MaxDepth       \* bound: key handlers stopped at once

ASSUME Game2048Assumption ==
  /\ grid_size \in Nat \ {0} /\ SwapUses \in Nat /\ RemoveUses \in Nat
  /\ MaxScore \in Nat /\ MaxDepth \in Nat

VARIABLES
  screen,        \* the visible child of the stack
  grid, score,
  swap_count, remove_count,
  swap_mode, remove_mode,
  selected,      \* selected_tiles up to selected_count
  stack

\* For the properties.
VARIABLES
  handicap,      \* worth of the tiles that appeared, less that of the removed
  reported,      \* the scores sent since the game began
  swapped        \* the last change of the board was a swap

aids == <<swap_count, remove_count, swap_mode, remove_mode, selected>>
vars == <<screen, grid, score, swap_count, remove_count, swap_mode,
          remove_mode, selected, stack, handicap, reported, swapped>>

Board(n) == (0 .. n - 1) \X (0 .. n - 1)
Cells == Board(grid_size)
Directions == {<<0, -1>>, <<0, 1>>, <<-1, 0>>, <<1, 0>>}

Total(g, value(_)) == FoldSet(LAMBDA c, sum : sum + value(g[c]), 0, DOMAIN g)
\* What the merges that made a tile out of 2s added to the score.
Worth[v \in Nat] == IF v <= 2 THEN 0 ELSE v + 2 * Worth[v \div 2]
WorthOf(g) == Total(g, LAMBDA v : Worth[v])
-----------------------------------------------------------------------------
(***************************************************************************)
(* move_tiles on a board of n x n.                                         *)
(***************************************************************************)
\* The order of its two loops: against a move down or right.
Order(n, d) ==
  [k \in 1 .. n * n |->
     LET i == (k - 1) \div n
         j == (k - 1) % n
     IN <<IF d[1] = 1 THEN n - 1 - i ELSE i,
          IF d[2] = 1 THEN n - 1 - j ELSE j>>]
Ahead(c, d, k) == <<c[1] + k * d[1], c[2] + k * d[2]>>

\* The tile of c slides to the last empty cell before a tile or the edge,
\* and into the next tile when that is its equal; m.gain is added to score.
Slide(d, m, c) ==
  LET g == m.grid
      Free(k) == \A l \in 1 .. k :
                   Ahead(c, d, l) \in DOMAIN g /\ g[Ahead(c, d, l)] = 0
      far == CHOOSE k \in 0 .. Cardinality(DOMAIN g) : Free(k) /\ ~Free(k + 1)
      to == Ahead(c, d, far)
      hit == Ahead(c, d, far + 1)
  IN IF g[c] = 0 THEN m
     ELSE IF hit \in DOMAIN g /\ g[hit] = g[c]
     THEN [grid |-> [g EXCEPT ![hit] = 2 * g[c], ![c] = 0],
           gain |-> m.gain + 2 * g[c], moved |-> TRUE]
     ELSE IF far > 0
     THEN [m EXCEPT !.grid = [g EXCEPT ![to] = g[c], ![c] = 0], !.moved = TRUE]
     ELSE m

MoveTiles(n, g, d) ==
  FoldLeft(LAMBDA m, c : Slide(d, m, c),
           [grid |-> g, gain |-> 0, moved |-> FALSE], Order(n, d))

\* Mutant: the new tile is put anywhere.
Anywhere(g) == DOMAIN g
Empty(g) == {c \in DOMAIN g : g[c] = 0}
IsGameOver(g) ==
  /\ Empty(g) = {}
  /\ \A c \in DOMAIN g, d \in Directions :
       Ahead(c, d, 1) \in DOMAIN g => g[Ahead(c, d, 1)] # g[c]
-----------------------------------------------------------------------------
(***************************************************************************)
(* The keys.                                                               *)
(***************************************************************************)
\* A key that moves nothing changes nothing.
Press(d) ==
  LET m == MoveTiles(grid_size, grid, d)
  IN /\ screen = "2048" /\ m.moved
     /\ Len(stack) < MaxDepth /\ score + m.gain <= MaxScore
     /\ grid' = m.grid /\ score' = score + m.gain
     /\ stack' = Append(stack, "tile")
     /\ swapped' = FALSE
     /\ UNCHANGED <<screen, aids, handicap, reported>>

Top(work) == stack # <<>> /\ stack[Len(stack)] = work

\* The main loop is back in move_tiles: add_random_tile, which adds none to a
\* full board, and update_score again.
NewTile ==
  /\ Top("tile")
  /\ stack' = [stack EXCEPT ![Len(stack)] = "check"]
  /\ IF Empty(grid) = {} THEN UNCHANGED <<grid, handicap>>
     ELSE \E c \in Empty(grid), v \in {2, 4} :
            /\ grid' = [grid EXCEPT ![c] = v]
            /\ handicap' = handicap + Worth[v]
  /\ UNCHANGED <<screen, score, aids, reported, swapped>>

\* ... and back in on_key_press1: a lost game is sent, shown in the dialog and
\* left for the menu.
\* Mutant: the handler stays on the screen of the game.
LeaveOnlyByButton == UNCHANGED screen
LeaveGame == screen' = "menu"
\* Mutant: the game is not over while swaps are left.
EndsWithoutSwaps == IsGameOver(grid) /\ swap_count = 0
Ends == IsGameOver(grid)
CheckGameOver ==
  /\ Top("check")
  /\ stack' = Front(stack)
  /\ IF Ends THEN reported' = reported \cup {score} /\ LeaveGame
     ELSE UNCHANGED <<reported, screen>>
  /\ UNCHANGED <<grid, score, aids, handicap, swapped>>
-----------------------------------------------------------------------------
(***************************************************************************)
(* The buttons and the mouse.                                              *)
(***************************************************************************)
\* initialize_grid and two tiles.
NewBoards == {[c \in Cells |-> IF c \in DOMAIN t THEN t[c] ELSE 0] :
                t \in UNION {[S -> {2, 4}] : S \in kSubset(2, Cells)}}

\* start_2048_game, from the menu: the modes of the last game stay on.
Start ==
  /\ screen = "menu" /\ screen' = "2048"
  /\ grid' \in NewBoards /\ score' = 0
  /\ swap_count' = SwapUses /\ remove_count' = RemoveUses
  /\ handicap' = WorthOf(grid') /\ reported' = {} /\ swapped' = FALSE
  /\ UNCHANGED <<swap_mode, remove_mode, selected, stack>>

Back ==
  /\ screen = "2048" /\ screen' = "menu"
  /\ UNCHANGED <<grid, score, aids, stack, handicap, reported, swapped>>

\* Either button switches its mode on or off, and both count as a use.
\* Mutant: without the limit.
Unlimited == TRUE
RemovesLeft == remove_count > 0
RemoveButton ==
  /\ screen = "2048" /\ RemovesLeft
  /\ remove_mode' = ~remove_mode /\ remove_count' = remove_count - 1
  /\ UNCHANGED <<screen, grid, score, swap_count, swap_mode, selected, stack,
                 handicap, reported, swapped>>

SwapButton ==
  /\ screen = "2048" /\ swap_count > 0
  /\ swap_mode' = ~swap_mode /\ swap_count' = swap_count - 1
  /\ selected' = IF swap_mode THEN selected ELSE <<>>
  /\ UNCHANGED <<screen, grid, score, remove_count, remove_mode, stack,
                 handicap, reported, swapped>>

\* A click on the board: the remove mode goes first.
RemoveTile(c) ==
  /\ screen = "2048" /\ remove_mode /\ grid[c] # 0
  /\ grid' = [grid EXCEPT ![c] = 0] /\ remove_mode' = FALSE
  /\ handicap' = handicap - Worth[grid[c]] /\ swapped' = FALSE
  /\ UNCHANGED <<screen, score, swap_count, remove_count, swap_mode, selected,
                 stack, reported>>

SelectTile(c) ==
  /\ screen = "2048" /\ ~remove_mode /\ swap_mode
  /\ IF selected = <<>>
     THEN selected' = <<c>> /\ UNCHANGED <<grid, swap_mode, swapped>>
     ELSE /\ grid' = [grid EXCEPT ![selected[1]] = grid[c],
                                  ![c] = grid[selected[1]]]
          /\ selected' = <<>> /\ swap_mode' = FALSE /\ swapped' = TRUE
  /\ UNCHANGED <<screen, score, swap_count, remove_count, remove_mode, stack,
                 handicap, reported>>
-----------------------------------------------------------------------------
\* create_2048_screen has made a board before the first game.
Init ==
  /\ screen = "menu" /\ grid \in NewBoards /\ score = 0
  /\ swap_count = SwapUses /\ remove_count = RemoveUses
  /\ swap_mode = FALSE /\ remove_mode = FALSE /\ selected = <<>>
  /\ stack = <<>>
  /\ handicap = WorthOf(grid) /\ reported = {} /\ swapped = FALSE

Next == \/ \E d \in Directions : Press(d)
        \/ NewTile \/ CheckGameOver
        \/ Start \/ Back \/ RemoveButton \/ SwapButton
        \/ \E c \in Cells : RemoveTile(c) \/ SelectTile(c)

Spec == Init /\ [][Next]_vars
-----------------------------------------------------------------------------
\* selected stays within selected_tiles: two cells end the selection.
TypeOK ==
  /\ screen \in {"menu", "2048"}
  /\ grid \in [Cells -> Nat] /\ score \in 0 .. MaxScore
  /\ swap_count \in 0 .. SwapUses /\ remove_count \in 0 .. RemoveUses
  /\ swap_mode \in BOOLEAN /\ remove_mode \in BOOLEAN
  /\ selected \in {<<>>} \cup {<<c>> : c \in Cells}
  /\ stack \in BoundedSeq({"tile", "check"}, MaxDepth)
  /\ handicap \in Int /\ reported \subseteq 0 .. MaxScore /\ swapped \in BOOLEAN

\* The score is what the merges of the tiles on the board earned, whatever
\* handlers interrupt one another: no merge is counted twice or not at all,
\* and no tile is lost or made by a move, a swap or a new game.
ScoreEarned == WorthOf(grid) = score + handicap

\* No lost board is left on the screen without having been reported, except
\* one that a swap made: on_tile_click does not look for the end of the game.
LostGameReported ==
  stack = <<>> /\ screen = "2048" /\ IsGameOver(grid) => swapped

\* A score that was sent is the final one: the game it belongs to is over and
\* has left the screen, and although interrupted handlers may send it again
\* they send the same score.
ReportIsFinal ==
  reported # {} => screen = "menu" /\ reported = {score} /\ IsGameOver(grid)
=============================================================================
