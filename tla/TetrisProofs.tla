---------------------------- MODULE TetrisProofs ----------------------------
(***************************************************************************)
(* Proofs about Tetris, for every board, every choice of the seven shapes  *)
(* and every score.  Inv adds to the properties what holds in the middle   *)
(* of clear_lines: the rows below the one it looks at are not full, the    *)
(* board has the cells of the pieces that were locked but those of the     *)
(* rows cleared so far, and a piece of four cells waits on the board.      *)
(***************************************************************************)
EXTENDS Tetris, NatFacts

Board == Rows \X Columns

Pieces ==
  /\ piece # {} => upcoming # {} /\ Cardinality(piece) = 4
  /\ at = "clear" => piece # {}

OnBoard == piece # {} => At(x, y, piece) \subseteq Board

Apart == at = "idle" /\ ~over => At(x, y, piece) \cap grid = {}

RowsChecked ==
  /\ at = "idle" => \A r \in Rows : ~FullRow(r)
  /\ at = "clear" => \A r \in Rows : r > row => ~FullRow(r)

CellsCounted == ~over => Cardinality(grid) = 4 * locked - GRID_WIDTH * cleared

Inv ==
  TypeOK /\ OneTimer /\ Pieces /\ OnBoard /\ Apart /\ RowsChecked /\ CellsCounted

-----------------------------------------------------------------------------
(* Shapes and timers.                                                          *)

LEMMA FourCells ==
  ASSUME NEW a, NEW b, NEW c, NEW d,
         a # b, a # c, a # d, b # c, b # d, c # d
  PROVE  IsFiniteSet({a, b, c, d}) /\ Cardinality({a, b, c, d}) = 4
<1>1. IsFiniteSet({a}) /\ Cardinality({a}) = 1
  BY FS_Singleton
<1>2. IsFiniteSet({a} \cup {b}) /\ Cardinality({a} \cup {b}) = 2
  BY <1>1, FS_AddElement
<1>3. IsFiniteSet(({a} \cup {b}) \cup {c}) /\ Cardinality(({a} \cup {b}) \cup {c}) = 3
  BY <1>2, FS_AddElement
<1>4. /\ IsFiniteSet((({a} \cup {b}) \cup {c}) \cup {d})
      /\ Cardinality((({a} \cup {b}) \cup {c}) \cup {d}) = 4
  BY <1>3, FS_AddElement
<1>5. {a, b, c, d} = (({a} \cup {b}) \cup {c}) \cup {d}
  OBVIOUS
<1> QED
  BY <1>4, <1>5

LEMMA Shapes ==
  ASSUME NEW p \in Tetrominos
  PROVE  /\ p \subseteq (0 .. 3) \X (0 .. 3) /\ p # {} /\ Cardinality(p) = 4
         /\ \A c \in p : c[1] \in 0 .. 1
<1>1. \E a, b, c, d \in p : /\ p = {a, b, c, d}
                           /\ a # b /\ a # c /\ a # d /\ b # c /\ b # d /\ c # d
  <2>1. CASE p = {<<1, 0>>, <<1, 1>>, <<1, 2>>, <<1, 3>>}
    BY <2>1
  <2>2. CASE p = {<<0, 1>>, <<0, 2>>, <<1, 1>>, <<1, 2>>}
    BY <2>2
  <2>3. CASE p = {<<0, 1>>, <<1, 0>>, <<1, 1>>, <<1, 2>>}
    BY <2>3
  <2>4. CASE p = {<<0, 1>>, <<0, 2>>, <<1, 0>>, <<1, 1>>}
    BY <2>4
  <2>5. CASE p = {<<0, 0>>, <<0, 1>>, <<1, 1>>, <<1, 2>>}
    BY <2>5
  <2>6. CASE p = {<<0, 0>>, <<1, 0>>, <<1, 1>>, <<1, 2>>}
    BY <2>6
  <2>7. CASE p = {<<0, 2>>, <<1, 0>>, <<1, 1>>, <<1, 2>>}
    BY <2>7
  <2> QED
    BY TetrisAssumption, <2>1, <2>2, <2>3, <2>4, <2>5, <2>6, <2>7 DEF AllTetrominos
<1>2. \A z \in p : z[1] \in 0 .. 1 /\ z[2] \in 0 .. 3 /\ z = <<z[1], z[2]>>
  <2>1. CASE p = {<<1, 0>>, <<1, 1>>, <<1, 2>>, <<1, 3>>}
    BY <2>1
  <2>2. CASE p = {<<0, 1>>, <<0, 2>>, <<1, 1>>, <<1, 2>>}
    BY <2>2
  <2>3. CASE p = {<<0, 1>>, <<1, 0>>, <<1, 1>>, <<1, 2>>}
    BY <2>3
  <2>4. CASE p = {<<0, 1>>, <<0, 2>>, <<1, 0>>, <<1, 1>>}
    BY <2>4
  <2>5. CASE p = {<<0, 0>>, <<0, 1>>, <<1, 1>>, <<1, 2>>}
    BY <2>5
  <2>6. CASE p = {<<0, 0>>, <<1, 0>>, <<1, 1>>, <<1, 2>>}
    BY <2>6
  <2>7. CASE p = {<<0, 2>>, <<1, 0>>, <<1, 1>>, <<1, 2>>}
    BY <2>7
  <2> QED
    BY TetrisAssumption, <2>1, <2>2, <2>3, <2>4, <2>5, <2>6, <2>7 DEF AllTetrominos
<1>3. Cardinality(p) = 4
  <2>1. PICK a \in p, b \in p, c \in p, d \in p :
          /\ p = {a, b, c, d}
          /\ a # b /\ a # c /\ a # d /\ b # c /\ b # d /\ c # d
    BY <1>1
  <2>2. Cardinality({a, b, c, d}) = 4
    BY <2>1, FourCells
  <2> QED
    BY <2>1, <2>2
<1>4. p \subseteq (0 .. 3) \X (0 .. 3)
  BY <1>2
<1> QED
  BY <1>1, <1>2, <1>3, <1>4

LEMMA SpawnFits ==
  ASSUME NEW p \in Tetrominos PROVE At(SpawnX, 0, p) \subseteq Board
<1>1. SpawnX \in Nat /\ SpawnX + 3 <= GRID_WIDTH - 1 /\ GRID_HEIGHT >= 2
  BY TetrisAssumption DEF SpawnX
<1>2. \A c \in p : c[1] \in 0 .. 1 /\ c[2] \in 0 .. 3
  BY Shapes
<1> QED
  BY <1>1, <1>2, TetrisAssumption DEF At, Board, Rows, Columns

\* A moved or a turned piece has as many cells as before.
LEMMA AtCells ==
  ASSUME NEW p, p \subseteq (0 .. 3) \X (0 .. 3), IsFiniteSet(p), NEW cx \in Int, NEW cy \in Int
  PROVE  IsFiniteSet(At(cx, cy, p)) /\ Cardinality(At(cx, cy, p)) = Cardinality(p)
<1> DEFINE f == [c \in p |-> <<cy + c[1], cx + c[2]>>]
<1>1. f \in Surjection(p, At(cx, cy, p))
  BY DEF Surjection, At
<1>2. f \in Injection(p, At(cx, cy, p))
  <2>1. f \in [p -> At(cx, cy, p)]
    BY DEF At
  <2>2. ASSUME NEW a \in p, NEW b \in p, f[a] = f[b] PROVE a = b
    <3>1. a[1] \in Int /\ a[2] \in Int /\ b[1] \in Int /\ b[2] \in Int
      OBVIOUS
    <3>2. cy + a[1] = cy + b[1] /\ cx + a[2] = cx + b[2]
      BY <2>2
    <3>3. a[1] = b[1] /\ a[2] = b[2]
      BY <3>1, <3>2
    <3> QED
      BY <3>3
  <2> QED
    BY <2>1, <2>2 DEF Injection, IsInjective
<1> HIDE DEF f
<1>3. f \in Bijection(p, At(cx, cy, p))
  BY <1>1, <1>2 DEF Bijection
<1> QED
  BY <1>3, FS_Bijection DEF ExistsBijection

LEMMA TurnedCells ==
  ASSUME NEW p, p \subseteq (0 .. 3) \X (0 .. 3), IsFiniteSet(p)
  PROVE  /\ Turned(p) \subseteq (0 .. 3) \X (0 .. 3)
         /\ Turned(p) # {} <=> p # {}
         /\ Cardinality(Turned(p)) = Cardinality(p)
<1> DEFINE f == [c \in p |-> <<c[2], 3 - c[1]>>]
<1>1. f \in Surjection(p, Turned(p))
  BY DEF Surjection, Turned
<1>2. f \in Injection(p, Turned(p))
  <2>1. f \in [p -> Turned(p)]
    BY DEF Turned
  <2>2. ASSUME NEW a \in p, NEW b \in p, f[a] = f[b] PROVE a = b
    <3>1. a[1] \in Int /\ a[2] \in Int /\ b[1] \in Int /\ b[2] \in Int
      OBVIOUS
    <3>2. a[2] = b[2] /\ 3 - a[1] = 3 - b[1]
      BY <2>2
    <3>3. a[1] = b[1] /\ a[2] = b[2]
      BY <3>1, <3>2
    <3> QED
      BY <3>3
  <2> QED
    BY <2>1, <2>2 DEF Injection, IsInjective
<1>3. Turned(p) \subseteq (0 .. 3) \X (0 .. 3)
  <2>1. ASSUME NEW c \in p PROVE <<c[2], 3 - c[1]>> \in (0 .. 3) \X (0 .. 3)
    <3>1. c[1] \in 0 .. 3 /\ c[2] \in 0 .. 3
      OBVIOUS
    <3> QED
      BY <3>1
  <2> QED
    BY <2>1 DEF Turned
<1>6. Turned(p) # {} <=> p # {}
  BY DEF Turned
<1> HIDE DEF f
<1>4. f \in Bijection(p, Turned(p))
  BY <1>1, <1>2 DEF Bijection
<1>5. Cardinality(Turned(p)) = Cardinality(p)
  BY <1>4, FS_Bijection DEF ExistsBijection
<1> QED
  BY <1>3, <1>5, <1>6

LEMMA PieceFinite ==
  ASSUME NEW p, p \subseteq (0 .. 3) \X (0 .. 3) PROVE IsFiniteSet(p)
<1> DEFINE side == 0 .. 3
<1>1. IsFiniteSet(side)
  <2>1. 0 \in Int /\ 3 \in Int
    OBVIOUS
  <2> QED
    BY <2>1, FS_Interval, Zenon
<1> HIDE DEF side
<1>2. IsFiniteSet(side \X side)
  BY <1>1, FS_Product
<1> QED
  BY <1>2, FS_Subset DEF side

LEMMA BoardFinite ==
  ASSUME NEW g, g \subseteq Board PROVE IsFiniteSet(g) /\ Cardinality(g) \in Nat
<1>1. IsFiniteSet(Rows) /\ IsFiniteSet(Columns)
  BY TetrisAssumption, FS_Interval DEF Rows, Columns
<1>2. IsFiniteSet(Board)
  BY <1>1, FS_Product DEF Board
<1> QED
  BY <1>2, FS_Subset, FS_CardinalityType

\* While no timeout but that of game_loop_id runs there is a new identifier.
LEMMA FreshTimer ==
  ASSUME TypeOK, OneTimer
  PROVE  /\ Fresh \in TimerIds /\ Fresh # game_loop_id /\ Fresh \notin sources
         /\ NewTimer = {Fresh}
<1>1. \E id \in TimerIds \ sources : id # game_loop_id
  <2>1. {1, 2} \subseteq TimerIds /\ \E id \in {1, 2} : id # game_loop_id
    BY DEF TimerIds
  <2> QED
    BY <2>1 DEF OneTimer
<1>2. Fresh \in TimerIds \ sources /\ Fresh # game_loop_id
  BY <1>1 DEF Fresh
<1>3. NewTimer = {Fresh}
  BY DEF NewTimer, Removed, OneTimer
<1> QED
  BY <1>2, <1>3

-----------------------------------------------------------------------------
(* A row of clear_lines.                                                       *)

\* A cell above the row comes one down, one below it stays.
Place(r, c) == IF c[1] > r THEN c ELSE <<c[1] + 1, c[2]>>

LEMMA ShiftedCells ==
  ASSUME TypeOK, NEW r \in Rows, FullRow(r)
  PROVE  /\ Shifted(r) \subseteq Board
         /\ Cardinality(Shifted(r)) = Cardinality(grid) - GRID_WIDTH
         /\ \A c \in Board : c[1] > r => (c \in Shifted(r) <=> c \in grid)
<1> DEFINE full == {r} \X Columns
           left == grid \ full
           f == [c \in left |-> Place(r, c)]
<1> USE DEF Place
<1>1. \A c \in grid : /\ c[1] \in Rows /\ c[2] \in Columns /\ c = <<c[1], c[2]>>
                      /\ c[1] \in Int /\ c[2] \in Int
  BY DEF TypeOK, Rows, Columns
<1>2. r \in Int /\ GRID_HEIGHT \in Int /\ GRID_WIDTH \in Nat
  BY TetrisAssumption DEF Rows
<1>3. left \subseteq grid /\ \A c \in left : c[1] # r
  BY <1>1
<1>4. \A c \in grid : c[1] # r => c \in left
  OBVIOUS
<1>5. Shifted(r) \subseteq Board
  BY <1>1, <1>2 DEF Shifted, Board, Rows
<1>6. f \in [left -> Shifted(r)]
  <2>1. ASSUME NEW c \in left PROVE Place(r, c) \in Shifted(r)
    <3>1. c \in grid /\ c[1] # r /\ c[1] \in Int
      BY <1>1, <1>3
    <3>2. CASE c[1] > r
      BY <3>1, <3>2 DEF Shifted
    <3>3. CASE c[1] < r
      BY <1>2, <3>1, <3>3 DEF Shifted
    <3> QED
      BY <1>2, <3>1, <3>2, <3>3
  <2> QED
    BY <2>1
<1>7. \A t \in Shifted(r) : \E c \in left : f[c] = t
  <2> SUFFICES ASSUME NEW t \in Shifted(r) PROVE \E c \in left : Place(r, c) = t
    OBVIOUS
  <2>1. CASE t \in grid /\ t[1] > r
    BY <1>1, <1>2, <1>4, <2>1
  <2>2. CASE \E c \in grid : c[1] < r /\ t = <<c[1] + 1, c[2]>>
    <3>1. PICK c \in grid : c[1] < r /\ t = <<c[1] + 1, c[2]>>
      BY <2>2
    <3>2. c[1] \in Int /\ ~(c[1] > r) /\ c[1] # r
      BY <1>1, <1>2, <3>1
    <3> QED
      BY <1>4, <3>1, <3>2
  <2> QED
    BY <2>1, <2>2 DEF Shifted
<1>8. \A a, b \in left : f[a] = f[b] => a = b
  <2> SUFFICES ASSUME NEW a \in left, NEW b \in left, Place(r, a) = Place(r, b) PROVE a = b
    OBVIOUS
  <2>1. /\ a = <<a[1], a[2]>> /\ a[1] \in Int /\ a[1] # r
        /\ b = <<b[1], b[2]>> /\ b[1] \in Int /\ b[1] # r
    BY <1>1, <1>3
  <2>2. CASE a[1] > r /\ b[1] > r
    BY <2>2
  <2>3. CASE ~(a[1] > r) /\ ~(b[1] > r)
    <3>1. a[1] + 1 = b[1] + 1 /\ a[2] = b[2]
      BY <2>3
    <3> QED
      BY <2>1, <3>1
  <2>4. CASE a[1] > r /\ ~(b[1] > r)
    <3>1. a[1] = b[1] + 1
      BY <2>1, <2>4
    <3> QED
      BY <1>2, <2>1, <2>4, <3>1
  <2>5. CASE ~(a[1] > r) /\ b[1] > r
    <3>1. b[1] = a[1] + 1
      BY <2>1, <2>5
    <3> QED
      BY <1>2, <2>1, <2>5, <3>1
  <2> QED
    BY <2>2, <2>3, <2>4, <2>5
<1>9. \A c \in Board : c[1] > r => (c \in Shifted(r) <=> c \in grid)
  <2> SUFFICES ASSUME NEW c \in Board, c[1] > r PROVE c \in Shifted(r) <=> c \in grid
    OBVIOUS
  <2>1. ~ \E d \in grid : d[1] < r /\ c = <<d[1] + 1, d[2]>>
    BY <1>1, <1>2
  <2> QED
    BY <2>1 DEF Shifted
<1>10. full \subseteq grid /\ IsFiniteSet(full) /\ Cardinality(full) = GRID_WIDTH
  <2>1. full \subseteq grid
    BY DEF FullRow
  <2>2. IsFiniteSet(Columns) /\ Cardinality(Columns) = GRID_WIDTH
    <3>1. 0 \in Int /\ GRID_WIDTH - 1 \in Int
      BY <1>2
    <3>2. /\ IsFiniteSet(0 .. GRID_WIDTH - 1)
          /\ Cardinality(0 .. GRID_WIDTH - 1) =
               IF 0 > GRID_WIDTH - 1 THEN 0 ELSE (GRID_WIDTH - 1) - 0 + 1
      BY <3>1, FS_Interval, Zenon
    <3> QED
      BY <3>2, TetrisAssumption DEF Columns
  <2>3. IsFiniteSet({r}) /\ Cardinality({r}) = 1
    BY FS_Singleton
  <2>4. IsFiniteSet(full) /\ Cardinality(full) = 1 * GRID_WIDTH
    BY <2>2, <2>3, FS_Product
  <2> QED
    BY <1>2, <2>1, <2>4
<1>11. IsFiniteSet(left) /\ Cardinality(left) = Cardinality(grid) - GRID_WIDTH
  <2>1. IsFiniteSet(grid)
    BY BoardFinite DEF TypeOK, Board
  <2> HIDE DEF full
  <2>2. grid \cap full = full
    BY <1>10
  <2> QED
    BY <1>10, <2>1, <2>2, FS_Difference
<1> HIDE DEF left, f
<1>12. f \in Bijection(left, Shifted(r))
  BY <1>6, <1>7, <1>8 DEF Bijection, Injection, IsInjective, Surjection
<1> QED
  BY <1>5, <1>9, <1>11, <1>12, FS_Bijection DEF ExistsBijection

\* The hard drop ends at the first row below which the piece would collide.
LEMMA LowestFound ==
  ASSUME TypeOK, OnBoard, piece # {}
  PROVE  \E b \in y .. y + GRID_HEIGHT :
           /\ CheckCollision(x, b + 1, piece)
           /\ \A c \in y + 1 .. b : ~CheckCollision(x, c, piece)
<1> DEFINE S == {n \in Nat : n <= GRID_HEIGHT /\ CheckCollision(x, y + n + 1, piece)}
<1>1. y \in Int /\ x \in Int /\ GRID_HEIGHT \in Nat /\ GRID_HEIGHT >= 2
  BY TetrisAssumption DEF TypeOK
<1>2. PICK c \in piece : c[1] \in Int /\ y + c[1] \in 0 .. GRID_HEIGHT - 1
  <2>1. PICK c \in piece : TRUE
    OBVIOUS
  <2>2. c[1] \in Int
    BY DEF TypeOK
  <2>3. <<y + c[1], x + c[2]>> \in Board
    BY DEF OnBoard, At
  <2> QED
    BY <2>2, <2>3 DEF Board, Rows
<1>3. GRID_HEIGHT \in S
  <2>1. y + GRID_HEIGHT + 1 + c[1] \notin Rows
    BY <1>1, <1>2 DEF Rows
  <2>2. <<y + GRID_HEIGHT + 1 + c[1], x + c[2]>> \in At(x, y + GRID_HEIGHT + 1, piece)
    BY DEF At
  <2> QED
    BY <1>1, <2>1, <2>2 DEF CheckCollision
<1>4. PICK n \in S : \A m \in S : n <= m
  <2>1. S \subseteq Nat /\ S # {}
    BY <1>3
  <2> HIDE DEF S
  <2> QED
    BY <2>1, LeastExists
<1> DEFINE b == y + n
<1>5. b \in y .. y + GRID_HEIGHT /\ CheckCollision(x, b + 1, piece)
  BY <1>1
<1>6. ASSUME NEW d \in y + 1 .. b PROVE ~CheckCollision(x, d, piece)
  <2>1. d - y - 1 \in Nat /\ d - y - 1 < n /\ d - y - 1 <= GRID_HEIGHT
    BY <1>1
  <2>2. d - y - 1 \notin S
    BY <1>4, <2>1
  <2>3. y + (d - y - 1) + 1 = d
    BY <1>1
  <2> QED
    BY <2>1, <2>2, <2>3
<1> HIDE DEF b
<1> QED
  BY <1>5, <1>6

LEMMA BottomFound ==
  ASSUME TypeOK, OnBoard, piece # {}
  PROVE  /\ Bottom \in y .. y + GRID_HEIGHT
         /\ \A c \in y + 1 .. Bottom : ~CheckCollision(x, c, piece)
BY LowestFound DEF Bottom

-----------------------------------------------------------------------------
(* The callbacks.                                                              *)

LEMMA NoCollision ==
  ASSUME NEW cx, NEW cy, NEW p, ~CheckCollision(cx, cy, p)
  PROVE  At(cx, cy, p) \subseteq Board /\ At(cx, cy, p) \cap grid = {}
BY DEF CheckCollision, Board

\* The board, its rows and its cells are left alone.
LEMMA SameBoard ==
  ASSUME RowsChecked, CellsCounted, UNCHANGED <<grid, at, row, locked, cleared>>,
         ~over' => ~over
  PROVE  RowsChecked' /\ CellsCounted'
BY DEF RowsChecked, CellsCounted, FullRow

LEMMA MoveInv ==
  ASSUME Inv, at = "idle", NEW cx \in Int, NEW cy \in Int, Move(cx, cy)
  PROVE  Inv'
<1> USE DEF Inv
<1>1. /\ ~CheckCollision(cx, cy, piece) /\ x' = cx /\ y' = cy
      /\ UNCHANGED <<screen, grid, piece, upcoming, over, progress, call, locked, cleared>>
  BY DEF Move
<1>2. TypeOK'
  BY <1>1 DEF TypeOK, progress, call
<1>3. OneTimer' /\ Pieces'
  BY <1>1 DEF OneTimer, Pieces, progress, call
<1>4. OnBoard' /\ Apart'
  BY <1>1, NoCollision DEF OnBoard, Apart, At, Board
<1>5. RowsChecked' /\ CellsCounted'
  BY <1>1, SameBoard DEF call
<1> QED
  BY <1>2, <1>3, <1>4, <1>5

LEMMA RotateInv ==
  ASSUME Inv, Rotate PROVE Inv'
<1> USE DEF Inv
<1>1. /\ ~CheckCollision(x, y, Turned(piece)) /\ piece' = Turned(piece)
      /\ UNCHANGED <<screen, grid, upcoming, x, y, over, progress, call, locked, cleared>>
  BY DEF Rotate
<1>2. /\ Turned(piece) \subseteq (0 .. 3) \X (0 .. 3)
      /\ Turned(piece) # {} <=> piece # {}
      /\ Cardinality(Turned(piece)) = Cardinality(piece)
  BY TurnedCells, PieceFinite DEF TypeOK
<1>3. TypeOK'
  BY <1>1, <1>2 DEF TypeOK, progress, call
<1>4. OneTimer' /\ Pieces'
  BY <1>1, <1>2 DEF OneTimer, Pieces, progress, call
<1>5. OnBoard' /\ Apart'
  BY <1>1, NoCollision DEF OnBoard, Apart, At, Board
<1>6. RowsChecked' /\ CellsCounted'
  BY <1>1, SameBoard DEF call
<1> QED
  BY <1>3, <1>4, <1>5, <1>6

\* The piece is written into the board where it lies or where it has fallen to.
LEMMA LockInv ==
  ASSUME Inv, at = "idle", piece # {},
         NEW cy \in Int, NEW id \in TimerIds \cup {0}, Lock(cy, id),
         At(x, cy, piece) \subseteq Board,
         ~over => At(x, cy, piece) \cap grid = {},
         \/ UNCHANGED progress
         \/ score' \in Nat /\ level' \in Nat /\ game_loop_id' = game_loop_id /\ sources' = sources
         \/ /\ score' \in Nat /\ level' \in Nat
            /\ game_loop_id' = Fresh /\ sources' = NewTimer
  PROVE  Inv'
<1> USE DEF Inv
<1> DEFINE new == At(x, cy, piece)
<1>1. /\ grid' = grid \cup new /\ y' = cy
      /\ locked' = IF over THEN locked ELSE locked + 1
      /\ at' = "clear" /\ row' = GRID_HEIGHT - 1 /\ lines' = 0 /\ caller' = id
      /\ UNCHANGED <<screen, piece, upcoming, x, over, cleared>>
  BY DEF Lock
<1>2. TypeOK' /\ OneTimer'
  <2>1. /\ score' \in Nat /\ level' \in Nat /\ game_loop_id' \in TimerIds \cup {0}
        /\ sources' \subseteq TimerIds /\ OneTimer'
    BY <1>1, FreshTimer DEF TypeOK, OneTimer, progress
  <2>2. /\ grid' \subseteq Rows \X Columns /\ y' \in Int
        /\ locked' \in Nat /\ row' \in -1 .. GRID_HEIGHT - 1
    BY <1>1, TetrisAssumption DEF TypeOK, Board
  <2> QED
    BY <1>1, <2>1, <2>2 DEF TypeOK
<1>3. Pieces'
  BY <1>1 DEF Pieces
<1>4. OnBoard' /\ Apart'
  BY <1>1 DEF OnBoard, Apart, At, Board
<1>5. RowsChecked'
  BY <1>1 DEF RowsChecked, Rows
<1>6. CellsCounted'
  <2> SUFFICES ASSUME ~over PROVE Cardinality(grid') = 4 * locked' - GRID_WIDTH * cleared'
    BY <1>1 DEF CellsCounted
  <2>1. IsFiniteSet(new) /\ Cardinality(new) = 4
    BY AtCells, PieceFinite DEF TypeOK, Pieces
  <2>2. IsFiniteSet(grid) /\ Cardinality(grid) \in Nat
    BY BoardFinite DEF TypeOK, Board
  <2>3. Cardinality({}) = 0 /\ grid \cap new = {}
    BY FS_EmptySet
  <2> HIDE DEF new
  <2>4. Cardinality(grid \cup new) = Cardinality(grid) + 4
    BY <2>1, <2>2, <2>3, FS_Union
  <2>5. 4 * (locked + 1) = 4 * locked + 4
    BY DEF TypeOK
  <2>6. 4 * locked \in Int /\ GRID_WIDTH * cleared \in Int
    BY TetrisAssumption DEF TypeOK
  <2>7. Cardinality(grid) = 4 * locked - GRID_WIDTH * cleared
    BY DEF CellsCounted
  <2>8. Cardinality(grid') = Cardinality(grid) + 4 /\ locked' = locked + 1 /\ cleared' = cleared
    BY <1>1, <2>4
  <2>9. 4 * locked' = 4 * locked + 4 /\ GRID_WIDTH * cleared' = GRID_WIDTH * cleared
    BY <2>5, <2>8
  <2> HIDE DEF Inv
  <2> QED
    BY <2>2, <2>6, <2>7, <2>8, <2>9
<1> QED
  BY <1>2, <1>3, <1>4, <1>5, <1>6

\* A piece that lies where it would next collide is locked there.
LEMMA LockHere ==
  ASSUME Inv, at = "idle", NEW id \in TimerIds \cup {0},
         CheckCollision(x, y + 1, piece), Lock(y, id), UNCHANGED progress
  PROVE  Inv'
<1>1. piece # {}
  BY DEF CheckCollision, At
<1>2. At(x, y, piece) \subseteq Board /\ (~over => At(x, y, piece) \cap grid = {})
  BY <1>1 DEF Inv, OnBoard, Apart
<1> QED
  BY <1>1, <1>2, LockInv DEF Inv, TypeOK

LEMMA ScoreSteps ==
  ASSUME TypeOK, OneTimer, NEW n \in Nat, UpdateScore(n), sources' = Timers(n)
  PROVE  /\ score' \in Nat /\ level' \in Nat
         /\ \/ game_loop_id' = game_loop_id /\ sources' = sources
            \/ game_loop_id' = Fresh /\ sources' = NewTimer
<1>1. n \div LevelStep + 1 \in Nat
  BY TetrisAssumption
<1> QED
  BY <1>1 DEF UpdateScore, Timers, TypeOK

LEMMA SpaceInv ==
  ASSUME Inv, Space PROVE Inv'
<1> USE DEF Inv
<1>1. at = "idle" /\ screen = "tetris"
  BY DEF Space, Key
<1>2. CASE piece = {}
  <2>1. at' = "lost" /\ UNCHANGED <<screen, board, progress, row, lines, caller, locked, cleared>>
    BY <1>2 DEF Space
  <2>2. TypeOK' /\ OneTimer' /\ Pieces' /\ OnBoard' /\ Apart'
    BY <1>1, <2>1 DEF TypeOK, OneTimer, Pieces, OnBoard, Apart, At, Board, board, progress
  <2>3. RowsChecked' /\ CellsCounted'
    BY <2>1 DEF RowsChecked, CellsCounted, board
  <2> QED
    BY <2>2, <2>3
<1>3. CASE piece # {}
  <2>1. Lock(Bottom, 0) /\ UpdateScore(score + 5) /\ sources' = Timers(score + 5)
    BY <1>3 DEF Space
  <2>2. /\ Bottom \in y .. y + GRID_HEIGHT
        /\ \A c \in y + 1 .. Bottom : ~CheckCollision(x, c, piece)
    BY <1>3, BottomFound
  <2>3. Bottom \in Int /\ y \in Int
    BY <2>2, TetrisAssumption DEF TypeOK
  <2>4. /\ At(x, Bottom, piece) \subseteq Board
        /\ ~over => At(x, Bottom, piece) \cap grid = {}
    <3>1. CASE Bottom = y
      BY <1>1, <1>3, <3>1 DEF OnBoard, Apart
    <3>2. CASE Bottom # y
      <4>1. Bottom \in y + 1 .. Bottom
        BY <2>2, <2>3, <3>2
      <4>2. ~CheckCollision(x, Bottom, piece)
        BY <2>2, <4>1
      <4> QED
        BY <4>2, NoCollision
    <3> QED
      BY <3>1, <3>2
  <2>5. score + 5 \in Nat
    BY DEF TypeOK
  <2>6. /\ score' \in Nat /\ level' \in Nat
        /\ \/ game_loop_id' = game_loop_id /\ sources' = sources
           \/ game_loop_id' = Fresh /\ sources' = NewTimer
    BY <2>1, <2>5, ScoreSteps
  <2> HIDE DEF Inv
  <2> QED
    BY <1>1, <1>3, <2>1, <2>3, <2>4, <2>6, LockInv
<1> QED
  BY <1>2, <1>3

LEMMA ClearLinesInv ==
  ASSUME Inv, ClearLines PROVE Inv'
<1> USE DEF Inv
<1>1. /\ at = "clear" /\ row \in Rows
      /\ UNCHANGED <<screen, piece, upcoming, x, y, over, progress, at, caller, locked>>
  BY DEF ClearLines, TypeOK, Rows
<1>2. OneTimer' /\ Pieces' /\ OnBoard' /\ Apart'
  BY <1>1 DEF OneTimer, Pieces, OnBoard, Apart, At, Board, progress
<1>3. CASE FullRow(row)
  <2>1. /\ row' = row /\ grid' = Shifted(row) /\ lines' = lines + 1
        /\ cleared' = IF over THEN cleared ELSE cleared + 1
    BY <1>3 DEF ClearLines, NextRow
  <2>2. /\ Shifted(row) \subseteq Board
        /\ Cardinality(Shifted(row)) = Cardinality(grid) - GRID_WIDTH
        /\ \A c \in Board : c[1] > row => (c \in Shifted(row) <=> c \in grid)
    BY <1>1, <1>3, ShiftedCells
  <2>3. TypeOK'
    BY <1>1, <2>1, <2>2 DEF TypeOK, Board, progress
  <2>4. RowsChecked'
    <3> SUFFICES ASSUME NEW r \in Rows, r > row PROVE ~FullRow(r)'
      BY <1>1, <2>1 DEF RowsChecked
    <3>1. PICK c \in Columns : <<r, c>> \notin grid
      BY <1>1 DEF RowsChecked, FullRow
    <3>2. <<r, c>> \notin grid'
      BY <2>1, <2>2, <3>1 DEF Board
    <3> QED
      BY <3>1, <3>2 DEF FullRow
  <2>5. CellsCounted'
    <3> SUFFICES ASSUME ~over PROVE Cardinality(grid') = 4 * locked' - GRID_WIDTH * cleared'
      BY <1>1 DEF CellsCounted
    <3>1. /\ Cardinality(grid') = Cardinality(grid) - GRID_WIDTH
          /\ locked' = locked /\ cleared' = cleared + 1
      BY <1>1, <2>1, <2>2
    <3>2. Cardinality(grid) = 4 * locked - GRID_WIDTH * cleared
      BY DEF CellsCounted
    <3>3. /\ 4 * locked \in Int /\ GRID_WIDTH * cleared \in Int /\ GRID_WIDTH \in Int
          /\ GRID_WIDTH * (cleared + 1) = GRID_WIDTH * cleared + GRID_WIDTH
      BY TetrisAssumption DEF TypeOK
    <3>4. 4 * locked' = 4 * locked /\ GRID_WIDTH * cleared' = GRID_WIDTH * cleared + GRID_WIDTH
      BY <3>1, <3>3
    <3> HIDE DEF Inv
    <3> QED
      BY <3>1, <3>2, <3>3, <3>4
  <2> QED
    BY <1>2, <2>3, <2>4, <2>5
<1>4. CASE ~FullRow(row)
  <2>1. row' = row - 1 /\ UNCHANGED <<grid, lines, cleared>>
    BY <1>4 DEF ClearLines, NextRow
  <2>2. TypeOK'
    <3>1. row' \in -1 .. GRID_HEIGHT - 1
      BY <1>1, <2>1, TetrisAssumption DEF Rows
    <3> QED
      BY <1>1, <2>1, <3>1 DEF TypeOK, progress
  <2>3. RowsChecked'
    <3>1. \A r \in Rows : r > row - 1 => r = row \/ r > row
      BY <1>1 DEF Rows
    <3> QED
      BY <1>1, <1>4, <2>1, <3>1 DEF RowsChecked, FullRow
  <2>4. CellsCounted'
    BY <1>1, <2>1 DEF CellsCounted
  <2> QED
    BY <1>2, <2>2, <2>3, <2>4
<1> QED
  BY <1>3, <1>4


\* A new piece lies on the board, on a free place or the game is over.
LEMMA SpawnSteps ==
  ASSUME NEW p \in Tetrominos, NEW g, Spawn(g, p)
  PROVE  /\ piece' = p /\ x' = SpawnX /\ y' = 0 /\ x' \in Int /\ y' \in Int
         /\ piece' \subseteq (0 .. 3) \X (0 .. 3) /\ over' \in BOOLEAN
         /\ upcoming' \in Tetrominos
         /\ Pieces' /\ OnBoard'
         /\ ~over' => At(x', y', piece') \cap g = {}
<1>1. /\ piece' = p /\ x' = SpawnX /\ y' = 0 /\ upcoming' \in Tetrominos
      /\ over' = (At(SpawnX, 0, p) \cap g # {})
  BY DEF Spawn
<1>2. SpawnX \in Int
  BY TetrisAssumption DEF SpawnX
<1>3. /\ p \subseteq (0 .. 3) \X (0 .. 3) /\ p # {} /\ Cardinality(p) = 4
      /\ \A q \in Tetrominos : q # {}
  BY Shapes
<1>4. Pieces'
  BY <1>1, <1>3 DEF Pieces
<1>5. OnBoard'
  BY <1>1, SpawnFits DEF OnBoard, At, Board
<1>6. ~over' => At(x', y', piece') \cap g = {}
  BY <1>1
<1>7. x' \in Int /\ y' \in Int /\ piece' \subseteq (0 .. 3) \X (0 .. 3) /\ over' \in BOOLEAN
  BY <1>1, <1>2, <1>3
<1> QED
  BY <1>1, <1>4, <1>5, <1>6, <1>7

LEMMA FinishInv ==
  ASSUME Inv, Finish PROVE Inv'
<1> USE DEF Inv
<1> DEFINE n == score + 100 * lines
           timers == IF lines > 0 THEN Timers(n) ELSE sources
<1>1. /\ at = "clear" /\ row < 0
      /\ at' = "idle" /\ lines' = 0 /\ caller' = 0 /\ row' = -1
      /\ sources' = IF over' THEN timers \ {caller} ELSE timers
      /\ UNCHANGED <<screen, grid, locked, cleared>>
  BY DEF Finish
<1>2. n \in Nat
  BY DEF TypeOK
<1>3. /\ score' \in Nat /\ level' \in Nat
      /\ \/ game_loop_id' = game_loop_id /\ timers = sources
         \/ game_loop_id' = Fresh /\ timers = NewTimer
  <2>1. CASE lines > 0
    <3>1. UpdateScore(n)
      BY <2>1 DEF Finish
    <3>2. n \div LevelStep + 1 \in Nat
      BY <1>2, TetrisAssumption
    <3> HIDE DEF n
    <3> QED
      BY <1>2, <2>1, <3>1, <3>2 DEF UpdateScore, Timers, TypeOK
  <2>2. CASE ~(lines > 0)
    BY <2>2 DEF Finish, TypeOK
  <2> QED
    BY <2>1, <2>2
<1> HIDE DEF n, timers
<1>4. timers \subseteq {game_loop_id'} /\ timers \subseteq TimerIds
      /\ game_loop_id' \in TimerIds \cup {0} /\ (~over => timers # {})
  BY <1>1, <1>3, FreshTimer DEF OneTimer, Pieces, TypeOK
<1>5. sources' \subseteq {game_loop_id'} /\ sources' \subseteq TimerIds
  BY <1>1, <1>4
<1>6. row' \in -1 .. GRID_HEIGHT - 1
  BY <1>1, TetrisAssumption
<1>7. RowsChecked'
  <2>1. \A r \in Rows : r > row
    BY <1>1, TetrisAssumption DEF Rows, TypeOK
  <2> QED
    BY <1>1, <2>1 DEF RowsChecked, FullRow
<1>8. CASE over
  <2>1. UNCHANGED <<piece, upcoming, x, y, over>>
    BY <1>8 DEF Finish
  <2>2. TypeOK'
    BY <1>1, <1>3, <1>4, <1>5, <1>6, <2>1 DEF TypeOK
  <2>3. OneTimer' /\ Pieces' /\ Apart' /\ CellsCounted'
    BY <1>1, <1>5, <1>8, <2>1 DEF OneTimer, Pieces, Apart, CellsCounted
  <2>4. OnBoard'
    BY <2>1 DEF OnBoard, At, Board
  <2> QED
    BY <1>7, <2>2, <2>3, <2>4
<1>9. CASE ~over
  <2>1. Spawn(grid, upcoming) /\ upcoming \in Tetrominos
    BY <1>1, <1>9 DEF Finish, Pieces, TypeOK
  <2>2. /\ piece' = upcoming /\ x' \in Int /\ y' \in Int
        /\ piece' \subseteq (0 .. 3) \X (0 .. 3) /\ over' \in BOOLEAN
        /\ upcoming' \in Tetrominos /\ Pieces' /\ OnBoard'
        /\ ~over' => At(x', y', piece') \cap grid = {}
    BY <2>1, SpawnSteps
  <2>3. TypeOK'
    BY <1>1, <1>3, <1>4, <1>5, <1>6, <2>2 DEF TypeOK
  <2>4. OneTimer'
    BY <1>1, <1>4, <1>5, <1>9 DEF OneTimer
  <2>5. Apart'
    BY <1>1, <2>2 DEF Apart, At
  <2>6. CellsCounted'
    BY <1>1, <1>9 DEF CellsCounted
  <2> QED
    BY <1>7, <2>2, <2>3, <2>4, <2>5, <2>6
<1> QED
  BY <1>8, <1>9

LEMMA TickInv ==
  ASSUME Inv, NEW id \in sources, Tick(id) PROVE Inv'
<1>1. at = "idle" /\ x \in Int /\ y + 1 \in Int /\ id \in TimerIds \cup {0}
  BY DEF Tick, Inv, TypeOK
<1>2. CASE /\ over /\ sources' = Removed(id)
           /\ UNCHANGED <<screen, board, score, level, game_loop_id, call, locked, cleared>>
  <2>1. TypeOK' /\ OneTimer'
    BY <1>2 DEF Inv, TypeOK, OneTimer, Removed, board, call
  <2>2. Pieces' /\ OnBoard' /\ Apart'
    BY <1>2 DEF Inv, Pieces, OnBoard, Apart, At, Board, board, call
  <2>3. RowsChecked' /\ CellsCounted'
    BY <1>2, SameBoard DEF Inv, board, call
  <2> QED
    BY <2>1, <2>2, <2>3 DEF Inv
<1>3. CASE Move(x, y + 1)
  BY <1>1, <1>3, MoveInv
<1>4. CASE CheckCollision(x, y + 1, piece) /\ Lock(y, id) /\ UNCHANGED progress
  BY <1>1, <1>4, LockHere
<1> QED
  BY <1>2, <1>3, <1>4 DEF Tick

LEMMA StartInv ==
  ASSUME Inv, Start PROVE Inv'
<1>1. /\ at = "idle" /\ grid' = {} /\ score' = 0 /\ locked' = 0 /\ cleared' = 0
      /\ game_loop_id' = Fresh /\ sources' = NewTimer
      /\ UNCHANGED <<screen, level, call>>
  BY DEF Start
<1>2. PICK p \in Tetrominos : Spawn({}, p)
  BY DEF Start
<1>3. /\ piece' = p /\ x' \in Int /\ y' \in Int
      /\ piece' \subseteq (0 .. 3) \X (0 .. 3) /\ over' \in BOOLEAN
      /\ upcoming' \in Tetrominos /\ Pieces' /\ OnBoard'
  BY <1>2, SpawnSteps
<1>4. Fresh \in TimerIds /\ NewTimer = {Fresh}
  BY FreshTimer DEF Inv
<1>5. TypeOK' /\ OneTimer' /\ Apart'
  BY <1>1, <1>3, <1>4 DEF Inv, TypeOK, OneTimer, Apart, call
<1>6. RowsChecked'
  <2>1. 0 \in Columns
    BY TetrisAssumption DEF Columns
  <2> QED
    BY <1>1, <2>1 DEF RowsChecked, FullRow, call
<1>7. CellsCounted'
  <2>1. Cardinality({}) = 0 /\ 0 = 4 * 0 - GRID_WIDTH * 0
    BY FS_EmptySet, TetrisAssumption
  <2> QED
    BY <1>1, <2>1 DEF CellsCounted
<1> QED
  BY <1>3, <1>5, <1>6, <1>7 DEF Inv

LEMMA ScreenInv ==
  ASSUME Inv, screen' \in {"menu", "tetris"},
         UNCHANGED <<board, progress, call, locked, cleared>>
  PROVE  Inv'
<1>1. TypeOK' /\ OneTimer' /\ Pieces' /\ OnBoard' /\ Apart'
  BY DEF Inv, TypeOK, OneTimer, Pieces, OnBoard, Apart, At, Board, board, progress, call
<1>2. RowsChecked' /\ CellsCounted'
  BY SameBoard DEF Inv, board, call
<1> QED
  BY <1>1, <1>2 DEF Inv

LEMMA InitInv == Init => Inv
<1> SUFFICES ASSUME Init PROVE Inv
  OBVIOUS
<1>1. SpawnX \in Int /\ -1 \in -1 .. GRID_HEIGHT - 1 /\ 0 \in Columns
  BY TetrisAssumption DEF SpawnX, Columns
<1>2. TypeOK
  <2>1. /\ screen = "menu" /\ grid = {} /\ piece = {} /\ upcoming = {}
        /\ x = SpawnX /\ y = 0 /\ over = FALSE /\ score = 0 /\ level = 1
        /\ game_loop_id = 0 /\ sources = {} /\ at = "idle" /\ row = -1
        /\ lines = 0 /\ caller = 0 /\ locked = 0 /\ cleared = 0
    BY DEF Init
  <2>2. /\ screen \in {"menu", "tetris"} /\ at \in {"idle", "clear", "lost"}
        /\ grid \subseteq Rows \X Columns /\ piece \subseteq (0 .. 3) \X (0 .. 3)
        /\ upcoming \in Tetrominos \cup {{}} /\ sources \subseteq TimerIds
    BY <2>1
  <2>3. /\ x \in Int /\ y \in Int /\ score \in Nat /\ level \in Nat
        /\ lines \in Nat /\ locked \in Nat /\ cleared \in Nat
    BY <1>1, <2>1
  <2>5. over \in BOOLEAN
    BY <2>1
  <2>6. row \in -1 .. GRID_HEIGHT - 1
    BY <1>1, <2>1
  <2>4. game_loop_id \in TimerIds \cup {0} /\ caller \in TimerIds \cup {0}
    BY <2>1
  <2> QED
    BY <2>2, <2>3, <2>4, <2>5, <2>6 DEF TypeOK
<1>5. OneTimer
  BY DEF Init, OneTimer
<1>3. Pieces /\ OnBoard /\ Apart /\ RowsChecked
  BY <1>1 DEF Init, Pieces, OnBoard, Apart, At, RowsChecked, FullRow
<1>4. CellsCounted
  <2>1. Cardinality({}) = 0 /\ 0 = 4 * 0 - GRID_WIDTH * 0
    BY FS_EmptySet, TetrisAssumption
  <2> QED
    BY <2>1 DEF Init, CellsCounted
<1> QED
  BY <1>2, <1>3, <1>4, <1>5 DEF Inv

LEMMA NextInv == Inv /\ [Next]_vars => Inv'
<1> SUFFICES ASSUME Inv, [Next]_vars PROVE Inv'
  OBVIOUS
<1>1. x \in Int /\ x - 1 \in Int /\ x + 1 \in Int /\ y \in Int /\ y + 1 \in Int
  BY DEF Inv, TypeOK
<1>2. CASE Left \/ Right
  BY <1>1, <1>2, MoveInv DEF Left, Right, Key
<1>3. CASE Down
  <2>1. CASE Move(x, y + 1)
    BY <1>1, <1>3, <2>1, MoveInv DEF Down, Key
  <2>2. CASE CheckCollision(x, y + 1, piece) /\ Lock(y, 0) /\ UNCHANGED progress
    BY <1>3, <2>2, LockHere DEF Down, Key
  <2> QED
    BY <1>3, <2>1, <2>2 DEF Down
<1>4. CASE \E id \in sources : Tick(id)
  BY <1>4, TickInv
<1>5. CASE Open \/ Back
  BY <1>5, ScreenInv DEF Open, Back
<1>6. CASE UNCHANGED vars
  BY <1>6, ScreenInv DEF vars, board, progress, call, Inv, TypeOK
<1> QED
  BY <1>2, <1>3, <1>4, <1>5, <1>6, RotateInv, SpaceInv, StartInv, ClearLinesInv, FinishInv
  DEF Next

LEMMA Invariance == Spec => []Inv
BY InitInv, NextInv, PTL DEF Spec

-----------------------------------------------------------------------------
(* What is proved.                                                             *)

\* Every variable keeps its type, whatever keys and timeouts come: the board
\* holds only cells inside it and the piece stays inside its 4 x 4 array.
THEOREM TypesKept == Spec => []TypeOK
<1>1. Inv => TypeOK
  BY DEF Inv
<1> QED
  BY <1>1, Invariance, PTL

\* check_collision, asked before every move and turn and in the hard drop,
\* keeps the piece inside grid[][] and, while the game runs, on free cells.
THEOREM PieceAlwaysFits == Spec => []PieceFits
<1>1. Inv => PieceFits
  BY DEF Inv, PieceFits, OnBoard, Apart, Board
<1> QED
  BY <1>1, Invariance, PTL

\* clear_lines removes each full row and nothing else: no full row is left,
\* and the board has four cells for each locked piece but those of the rows.
THEOREM RowsAccounted == Spec => []LinesCleared
<1>1. Inv => LinesCleared
  BY DEF Inv, LinesCleared, RowsChecked, CellsCounted
<1> QED
  BY <1>1, Invariance, PTL

\* Start, a new level in the middle of a callback and the end of the game
\* leave at most the timeout game_loop_id names, and a running game has it.
THEOREM OneGameLoop == Spec => []OneTimer
<1>1. Inv => OneTimer
  BY DEF Inv
<1> QED
  BY <1>1, Invariance, PTL


\* Once the first piece has come the loop of the hard drop ends, at most the
\* height of the grid further down: only before that, with a piece of no cells,
\* does it not (tetris.c:214, and HardDropEnds).
THEOREM HardDropStops ==
  Spec => [](piece # {} => \E low \in y .. y + GRID_HEIGHT : CheckCollision(x, low + 1, piece))
<1>1. Inv => (piece # {} => \E low \in y .. y + GRID_HEIGHT : CheckCollision(x, low + 1, piece))
  <2> SUFFICES ASSUME Inv, piece # {}
               PROVE  \E low \in y .. y + GRID_HEIGHT : CheckCollision(x, low + 1, piece)
    OBVIOUS
  <2> QED
    BY LowestFound DEF Inv
<1> QED
  BY Invariance, <1>1, PTL
=============================================================================
