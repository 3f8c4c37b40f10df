------------------------------ MODULE MCTetris ------------------------------
(* The I and the O: two of them fill two rows of a board of four columns.    *)
EXTENDS Tetris

TwoShapes == {{<<1, 0>>, <<1, 1>>, <<1, 2>>, <<1, 3>>},
              {<<0, 1>>, <<0, 2>>, <<1, 1>>, <<1, 2>>}}
=============================================================================
