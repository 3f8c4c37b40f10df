-------------------------- MODULE AlternatingBoards --------------------------
(***************************************************************************)
(* What the tic-tac-toe server promises about its boards, whoever is       *)
(* connected: on each board the symbols X and O are written in turn, X     *)
(* first, each into a cell that was empty; a written cell stays as it is   *)
(* until the whole board is cleared, together with the turn.               *)
(***************************************************************************)
EXTENDS Integers

CONSTANTS Rooms, Cells

VARIABLES board, turn

Symbols == {"X", "O"}
Other(symbol) == IF symbol = "X" THEN "O" ELSE "X"

\* The number the code writes for a symbol; 0 is an empty cell.
Mark(symbol) == IF symbol = "X" THEN 1 ELSE 2

EmptyBoard == [c \in Cells |-> 0]

Init ==
  /\ board = [r \in Rooms |-> EmptyBoard]
  /\ turn = [r \in Rooms |-> "X"]

Play(r, c, symbol) ==
  /\ board[r][c] = 0
  /\ turn[r] = symbol
  /\ board' = [board EXCEPT ![r][c] = Mark(symbol)]
  /\ turn' = [turn EXCEPT ![r] = Other(symbol)]

Clear(S) ==
  /\ board' = [r \in Rooms |-> IF r \in S THEN EmptyBoard ELSE board[r]]
  /\ turn' = [r \in Rooms |-> IF r \in S THEN "X" ELSE turn[r]]

Next ==
  \/ \E r \in Rooms, c \in Cells, symbol \in Symbols : Play(r, c, symbol)
  \/ \E S \in SUBSET Rooms : Clear(S)

Spec == Init /\ [][Next]_<<board, turn>>
=============================================================================
