------------------------------- MODULE Tetris -------------------------------
(***************************************************************************)
(* The game of games/tetris.c: the keys, the Start button, the way in and  *)
(* out of the screen and the timeout that runs game_loop, one callback at  *)
(* a time.  clear_lines, which a key or the timeout calls in the middle of *)
(* its work, takes a step for each row it looks at; no other callback runs *)
(* before it has returned and the caller has finished.                     *)
(*                                                                         *)
(* The board is the set of its filled cells and a tetromino the set of the *)
(* filled cells of its 4 x 4 array, both as <<row, column>>.  game_speed   *)
(* is a function of the level and left out with the period of the timeout, *)
(* and so is the sending of the score, which changes nothing here.         *)
(***************************************************************************)
EXTENDS Integers, FiniteSets

CONSTANTS
  GRID_WIDTH,    \* 10 in tetris.c
  GRID_HEIGHT,   \* 20
  Tetrominos,    \* the shapes in play, of the seven of AllTetrominos
  LevelStep,     \* points of a level, 500
  MaxScore       \* bound: a piece is not locked above this score

AllTetrominos == {
  {<<1, 0>>, <<1, 1>>, <<1, 2>>, <<1, 3>>},
  {<<0, 1>>, <<0, 2>>, <<1, 1>>, <<1, 2>>},
  {<<0, 1>>, <<1, 0>>, <<1, 1>>, <<1, 2>>},
  {<<0, 1>>, <<0, 2>>, <<1, 0>>, <<1, 1>>},
  {<<0, 0>>, <<0, 1>>, <<1, 1>>, <<1, 2>>},
  {<<0, 0>>, <<1, 0>>, <<1, 1>>, <<1, 2>>},
  {<<0, 2>>, <<1, 0>>, <<1, 1>>, <<1, 2>>}}

ASSUME TetrisAssumption ==
  /\ GRID_WIDTH \in Nat /\ GRID_WIDTH >= 4
  /\ GRID_HEIGHT \in Nat /\ GRID_HEIGHT >= 2
  /\ Tetrominos # {} /\ Tetrominos \subseteq AllTetrominos
  /\ LevelStep \in Nat \ {0} /\ MaxScore \in Nat

Rows == 0 .. GRID_HEIGHT - 1
Columns == 0 .. GRID_WIDTH - 1
SpawnX == GRID_WIDTH \div 2 - 2
\* Identifiers GLib gives to timeouts; it never gives one twice, which here
\* means: not one that is running or that game_loop_id still holds.
TimerIds == 1 .. 3

VARIABLES
  screen,        \* the visible child of the stack
  grid,
  piece,         \* current_tetromino, empty before the first Start
  upcoming,      \* next_tetromino
  x, y,          \* current_x, current_y
  over,          \* game_over_Tetris
  score, level,
  game_loop_id,  \* 0 or an identifier, also one that is no longer running
  sources,       \* the timeouts that run
  at,            \* "idle", "clear" in clear_lines, or "lost" in an endless loop
  row, lines,    \* the row clear_lines looks at and its cleared_lines
  caller         \* the timeout that called clear_lines, 0 for a key

\* What happened since Start, for the properties.
VARIABLES
  locked,        \* pieces locked while the game ran
  cleared        \* rows cleared while the game ran

board == <<grid, piece, upcoming, x, y, over>>
progress == <<score, level, game_loop_id, sources>>
call == <<at, row, lines, caller>>
vars == <<screen, grid, piece, upcoming, x, y, over, score, level,
          game_loop_id, sources, at, row, lines, caller, locked, cleared>>

At(cx, cy, p) == {<<cy + c[1], cx + c[2]>> : c \in p}
FullRow(r) == \A c \in Columns : <<r, c>> \in grid

\* Mutant: the filled cells are not looked at.
CollisionWithWalls(cx, cy, p) == ~(At(cx, cy, p) \subseteq Rows \X Columns)
CheckCollision(cx, cy, p) ==
  ~(At(cx, cy, p) \subseteq (Rows \X Columns) \ grid)

Fresh == CHOOSE id \in TimerIds \ sources : id # game_loop_id
\* g_source_remove of an identifier that no longer runs only warns.
Removed(id) == sources \ {id}
-----------------------------------------------------------------------------
(***************************************************************************)
(* The helpers.  Each is a conjunct of the callback that calls it.         *)
(***************************************************************************)
\* update_tetris_score: a new level replaces the timeout.
\* Mutant: the timeout before it goes on.
NewTimerBesideOld == sources \cup {Fresh}
NewTimer == Removed(game_loop_id) \cup {Fresh}

NextLevel(n) == n \div LevelStep + 1 > level
UpdateScore(n) ==
  /\ score' = n
  /\ IF NextLevel(n) THEN level' = n \div LevelStep + 1 /\ game_loop_id' = Fresh
     ELSE UNCHANGED <<level, game_loop_id>>
\* The timeouts after it.
Timers(n) == IF NextLevel(n) THEN NewTimer ELSE sources

\* spawn_new_tetromino on board g.
Spawn(g, p) ==
  /\ piece' = p /\ x' = SpawnX /\ y' = 0
  /\ upcoming' \in Tetrominos
  /\ over' = (At(SpawnX, 0, p) \cap g # {})

\* The piece is written into the board and clear_lines begins with the last
\* row.
Lock(cy, id) ==
  /\ grid' = grid \cup At(x, cy, piece)
  /\ y' = cy
  /\ locked' = IF over THEN locked ELSE locked + 1
  /\ at' = "clear" /\ row' = GRID_HEIGHT - 1 /\ lines' = 0 /\ caller' = id
  /\ UNCHANGED <<screen, piece, upcoming, x, over, cleared>>

\* A row of clear_lines: a full one is removed, everything above it comes one
\* row down, and the same row is looked at again.
Shifted(r) == {c \in grid : c[1] > r} \cup
              {<<c[1] + 1, c[2]>> : c \in {d \in grid : d[1] < r}}
\* Mutant: without y++.
NextRowAnyway(full) == row - 1
NextRow(full) == IF full THEN row ELSE row - 1

ClearLines ==
  /\ at = "clear" /\ row >= 0
  /\ row' = NextRow(FullRow(row))
  /\ IF FullRow(row)
     THEN /\ grid' = Shifted(row) /\ lines' = lines + 1
          /\ cleared' = IF over THEN cleared ELSE cleared + 1
     ELSE UNCHANGED <<grid, lines, cleared>>
  /\ UNCHANGED <<screen, piece, upcoming, x, y, over, progress, at, caller, locked>>

\* clear_lines returns; the caller spawns the next piece unless the game is
\* over, and a timeout that finds it lost now ends.
Finish ==
  /\ at = "clear" /\ row < 0
  /\ at' = "idle" /\ lines' = 0 /\ caller' = 0 /\ row' = -1
  /\ IF over THEN UNCHANGED <<piece, upcoming, x, y, over>>
     ELSE Spawn(grid, upcoming)
  /\ IF lines > 0 THEN UpdateScore(score + 100 * lines)
     ELSE UNCHANGED <<score, level, game_loop_id>>
  /\ LET timers == IF lines > 0 THEN Timers(score + 100 * lines) ELSE sources
     IN sources' = IF over' THEN timers \ {caller} ELSE timers
  /\ UNCHANGED <<screen, grid, locked, cleared>>
-----------------------------------------------------------------------------
(***************************************************************************)
(* The callbacks.                                                          *)
(***************************************************************************)
Key == at = "idle" /\ screen = "tetris"
\* Bound: the keys move an empty piece, before the first Start, no further
\* than one cell off the board, and no piece is locked above MaxScore.
Near(cx, cy) == piece # {} \/ (cx \in -1 .. GRID_WIDTH /\ cy <= GRID_HEIGHT)

Move(cx, cy) ==
  /\ ~CheckCollision(cx, cy, piece) /\ Near(cx, cy)
  /\ x' = cx /\ y' = cy
  /\ UNCHANGED <<screen, grid, piece, upcoming, over, progress, call, locked, cleared>>

Left == Key /\ Move(x - 1, y)
Right == Key /\ Move(x + 1, y)

\* Mutant: turned in an array of 3 columns.
TurnedOffByOne(p) == {<<c[2], 2 - c[1]>> : c \in p}
Turned(p) == {<<c[2], 3 - c[1]>> : c \in p}
Rotate ==
  /\ Key /\ ~CheckCollision(x, y, Turned(piece))
  /\ piece' = Turned(piece)
  /\ UNCHANGED <<screen, grid, upcoming, x, y, over, progress, call, locked, cleared>>

Down ==
  /\ Key
  /\ \/ Move(x, y + 1)
     \/ /\ CheckCollision(x, y + 1, piece) /\ score < MaxScore
        /\ Lock(y, 0) /\ UNCHANGED progress

\* The row a hard drop ends in.
Bottom == CHOOSE b \in y .. y + GRID_HEIGHT :
            /\ CheckCollision(x, b + 1, piece)
            /\ \A c \in y + 1 .. b : ~CheckCollision(x, c, piece)

\* The space bar.  An empty piece never collides: the loop does not end.
Space ==
  /\ Key /\ score < MaxScore
  /\ IF piece = {}
     THEN /\ at' = "lost"
          /\ UNCHANGED <<screen, board, progress, row, lines, caller, locked, cleared>>
     ELSE /\ Lock(Bottom, 0)
          /\ UpdateScore(score + 5) /\ sources' = Timers(score + 5)

\* game_loop, run by timeout id.
Tick(id) ==
  /\ at = "idle"
  /\ \/ /\ over /\ sources' = Removed(id)
        /\ UNCHANGED <<screen, board, score, level, game_loop_id, call,
                       locked, cleared>>
     \/ ~over /\ Move(x, y + 1)
     \/ /\ ~over /\ CheckCollision(x, y + 1, piece) /\ score < MaxScore
        /\ Lock(y, id) /\ UNCHANGED progress

\* The Start button: the level and the speed stay those of the last game.
Start ==
  /\ at = "idle" /\ screen = "tetris"
  /\ grid' = {} /\ score' = 0 /\ locked' = 0 /\ cleared' = 0
  /\ \E p \in Tetrominos : Spawn({}, p)
  /\ game_loop_id' = Fresh
  /\ sources' = NewTimer
  /\ UNCHANGED <<screen, level, call>>

\* The menu button, and Back: the timeout goes on behind the menu.
Open == at = "idle" /\ screen = "menu" /\ screen' = "tetris"
        /\ UNCHANGED <<board, progress, call, locked, cleared>>
Back == at = "idle" /\ screen = "tetris" /\ screen' = "menu"
        /\ UNCHANGED <<board, progress, call, locked, cleared>>
-----------------------------------------------------------------------------
Init ==
  /\ screen = "menu" /\ grid = {} /\ piece = {} /\ upcoming = {}
  /\ x = SpawnX /\ y = 0 /\ over = FALSE
  /\ score = 0 /\ level = 1 /\ game_loop_id = 0 /\ sources = {}
  /\ at = "idle" /\ row = -1 /\ lines = 0 /\ caller = 0
  /\ locked = 0 /\ cleared = 0

Next == \/ Left \/ Right \/ Rotate \/ Down \/ Space
        \/ \E id \in sources : Tick(id)
        \/ Start \/ Open \/ Back
        \/ ClearLines \/ Finish

Spec == Init /\ [][Next]_vars
-----------------------------------------------------------------------------
TypeOK ==
  /\ screen \in {"menu", "tetris"}
  /\ grid \subseteq Rows \X Columns
  /\ piece \subseteq (0 .. 3) \X (0 .. 3)
  /\ upcoming \in Tetrominos \cup {{}}
  /\ x \in Int /\ y \in Int /\ over \in BOOLEAN
  /\ score \in Nat /\ level \in Nat
  /\ game_loop_id \in TimerIds \cup {0}
  /\ sources \subseteq TimerIds
  /\ at \in {"idle", "clear", "lost"}
  /\ row \in -1 .. GRID_HEIGHT - 1 /\ lines \in Nat
  /\ caller \in TimerIds \cup {0}
  /\ locked \in Nat /\ cleared \in Nat

\* The current piece lies on the board whatever key or tick comes, also when
\* the game is over and the keys still move and lock it (they write the
\* board at its cells); while the game runs it covers no filled cell.
PieceFits ==
  at = "idle" =>
    /\ piece # {} => At(x, y, piece) \subseteq Rows \X Columns
    /\ ~over => At(x, y, piece) \cap grid = {}

\* clear_lines leaves no full row, however many it meets next to each other,
\* and it loses no other cell: while the game runs the board holds the cells
\* of the locked pieces but those of the cleared rows.
LinesCleared ==
  at = "idle" =>
    /\ \A r \in Rows : ~FullRow(r)
    /\ ~over => Cardinality(grid) = 4 * locked - GRID_WIDTH * cleared

\* At most one timeout runs game_loop, and it is the one game_loop_id names,
\* so that Start and the next level can remove it; and a piece that can still
\* fall has one: although a timeout is replaced inside its own callback, and
\* game_loop_id still names a timeout that ended with the game.
OneTimer ==
  /\ sources \subseteq {game_loop_id}
  /\ piece # {} /\ ~over => sources # {}

\* tetris.c:215: the hard drop moves the piece down until it collides.
HardDropEnds == at # "lost"
=============================================================================
