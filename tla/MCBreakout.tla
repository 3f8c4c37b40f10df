----------------------------- MODULE MCBreakout -----------------------------
(* The bricks of brick.c's wall that the runs keep: their items fall where   *)
(* the paddle starts, and near the right edge.                               *)
EXTENDS Breakout

WallOfTwo == {<<0, 4>>, <<0, 9>>}
=============================================================================
