-------------------------------- MODULE Mine --------------------------------
(***************************************************************************)
(* Minesweeper, games/mine.c.  All of it runs on the GTK main loop, so a   *)
(* button press, a timer tick or a click on the menu is one action, and    *)
(* the recursion of reveal_cell is over before the next one.               *)
(*                                                                         *)
(* The labels and the sensitivity of the buttons follow from the variables *)
(* here: a button takes presses until its cell is revealed or, for a mine, *)
(* until lose() has shown the mines.                                       *)
(***************************************************************************)
EXTENDS Integers, Sequences, FiniteSets, FiniteSetsExt, SequencesExt

CONSTANTS
  FieldSize,   \* FIELD_SIZE, 16
  TotalMines,  \* TOTAL_MINES, 40
  MaxTime,     \* bound: seconds counted
  MaxStarts,   \* bound: games started
  MaxFlags     \* bound: flags on the field at once

ASSUME ConstantsAssumption ==
  /\ FieldSize \in Nat \ {0}
  /\ TotalMines \in 1..(FieldSize * FieldSize - 1)
  /\ MaxTime \in Nat /\ MaxStarts \in Nat /\ MaxFlags \in Nat

VARIABLES
  screen,      \* the visible child of the GtkStack
  mines,       \* cells (x, y) with field[x][y] == MINE
  revealed,
  flagged,
  mines_left,
  elapsed_time,
  timer_id,    \* the id of the last timeout added, 0 before the first
  sources,     \* ids of the timeouts that are attached to the main loop
  lost         \* whether reveal_all_mines has run in this game

VARIABLE
  reports      \* calls of send_game_score in this game, for the properties

field == <<mines, revealed, flagged, lost, reports>>
timer == <<elapsed_time, timer_id, sources>>
vars == <<screen, mines, revealed, flagged, mines_left, elapsed_time, timer_id, sources,
          lost, reports>>
-----------------------------------------------------------------------------
Coords == 0..(FieldSize - 1)
Cells == Coords \X Coords

\* Mutant: without the diagonals.
OffsetsWithoutDiagonals == << <<-1, 0>>, <<0, -1>>, <<0, 0>>, <<0, 1>>, <<1, 0>> >>
\* dx and dy in the order of the two loops; (0, 0) is among them.
Offsets == << <<-1, -1>>, <<-1, 0>>, <<-1, 1>>, <<0, -1>>, <<0, 0>>, <<0, 1>>,
              <<1, -1>>, <<1, 0>>, <<1, 1>> >>

Beside(c, d) == <<c[1] + d[1], c[2] + d[2]>>

\* The cells at most one step away in each direction, c among them.
Around == [c \in Cells |->
  {n \in Cells : n[1] - c[1] \in -1..1 /\ n[2] - c[2] \in -1..1}]

\* field[x][y] of a cell that is no mine, as initialize_field counts it.
Number(c) == Cardinality(Around[c] \cap mines)

\* What one press on a cell changes: the cells opened, whether a mine was, and
\* the reports sent.
Openings == [revealed : SUBSET Cells, hit : BOOLEAN, reports : Nat]

\* Mutant: a flag counts as an opened cell.
UnopenedOrFlagged(o) == (Cells \ mines) \ (o.revealed \cup flagged)

Unopened(o) == (Cells \ mines) \ o.revealed

\* check_win_condition.
CheckWin(o) == IF Unopened(o) = {} THEN [o EXCEPT !.reports = @ + 1] ELSE o

\* Mutant: after lose() the call goes on to check_win_condition.
StruckAndChecked(o) == CheckWin([o EXCEPT !.hit = TRUE])
Struck(o) == [o EXCEPT !.hit = TRUE]

\* The test of reveal_neighbors.
Floods(n, o) ==
  n \in Cells /\ n \notin o.revealed /\ n \notin flagged /\ n \notin mines

\* reveal_cell and reveal_neighbors.  Each call that opens a safe cell ends in
\* check_win_condition, so a win inside the flood is seen again by every call
\* on the stack.
Reveal[call \in Cells \X Openings] ==
  LET c == call[1]
      o == call[2]
      opened == [o EXCEPT !.revealed = @ \cup {c}]
      RevealNeighbour(p, d) ==
        IF Floods(Beside(c, d), p) THEN Reveal[<<Beside(c, d), p>>] ELSE p
  IN IF c \in o.revealed \/ c \in flagged THEN o
     ELSE IF c \in mines THEN Struck(opened)
     ELSE IF Number(c) > 0 THEN CheckWin(opened)
     ELSE CheckWin(FoldLeft(RevealNeighbour, opened, Offsets))
-----------------------------------------------------------------------------
Init ==
  /\ screen = "main_menu"
  /\ mines = {} /\ revealed = {} /\ flagged = {}
  /\ mines_left = TotalMines
  /\ elapsed_time = 0 /\ timer_id = 0 /\ sources = {}
  /\ lost = FALSE
  /\ reports = 0

\* Mutant: start_minesweeper_game without its last g_source_remove.
KeepTimeouts == sources

\* if (timer_id > 0) g_source_remove(timer_id): nothing when that timeout has
\* already been removed.
RemoveTimeout == sources \ {timer_id}

\* start_minesweeper_game.
Start ==
  /\ screen = "main_menu"
  /\ timer_id < MaxStarts
  /\ screen' = "minesweeper_screen"
  /\ mines' \in kSubset(TotalMines, Cells)
  /\ revealed' = {} /\ flagged' = {}
  /\ mines_left' = TotalMines
  /\ elapsed_time' = 0
  /\ timer_id' = timer_id + 1
  /\ sources' = RemoveTimeout \cup {timer_id + 1}
  /\ lost' = FALSE /\ reports' = 0

\* The back button; the timeout stays.
Back ==
  /\ screen = "minesweeper_screen"
  /\ screen' = "main_menu"
  /\ UNCHANGED <<field, mines_left, timer>>

\* update_timer.
Tick ==
  /\ sources # {}
  /\ elapsed_time < MaxTime
  /\ elapsed_time' = elapsed_time + 1
  /\ UNCHANGED <<screen, field, mines_left, timer_id, sources>>

\* GTK delivers no press to an insensitive button.
Sensitive(c) == c \notin revealed /\ ~(lost /\ c \in mines)

Pressed(c) == screen = "minesweeper_screen" /\ Sensitive(c)

\* g_source_remove in lose() and in check_win_condition.
StopTimer(after) ==
  IF after.hit \/ after.reports # reports THEN RemoveTimeout ELSE sources

\* A press of the primary button on a cell without a flag.
Open(c) ==
  LET after == Reveal[<<c, [revealed |-> revealed, hit |-> FALSE, reports |-> reports]>>]
  IN /\ Pressed(c)
     /\ c \notin flagged
     /\ revealed' = after.revealed
     /\ lost' = (lost \/ after.hit)
     /\ reports' = after.reports
     /\ sources' = StopTimer(after)
     /\ UNCHANGED <<screen, mines, flagged, mines_left, elapsed_time, timer_id>>

\* Presses of the secondary button.
Flag(c) ==
  /\ Pressed(c)
  /\ c \notin flagged /\ c \notin revealed
  /\ Cardinality(flagged) < MaxFlags
  /\ flagged' = flagged \cup {c}
  /\ mines_left' = mines_left - 1
  /\ UNCHANGED <<screen, mines, revealed, lost, reports, timer>>

\* Mutant: the counter is not given back.
NotGivenBack == mines_left
GivenBack == mines_left + 1

Unflag(c) ==
  /\ Pressed(c)
  /\ c \in flagged
  /\ flagged' = flagged \ {c}
  /\ mines_left' = GivenBack
  /\ UNCHANGED <<screen, mines, revealed, lost, reports, timer>>

Next ==
  \/ Start
  \/ Back
  \/ Tick
  \/ \E c \in Cells : Open(c) \/ Flag(c) \/ Unflag(c)

Spec == Init /\ [][Next]_vars
-----------------------------------------------------------------------------
\* mines_left is at most as far below TOTAL_MINES as there may be flags.
TypeOK ==
  /\ screen \in {"main_menu", "minesweeper_screen"}
  /\ mines \subseteq Cells /\ revealed \subseteq Cells /\ flagged \subseteq Cells
  /\ mines_left \in (TotalMines - MaxFlags)..TotalMines
  /\ elapsed_time \in 0..MaxTime
  /\ timer_id \in 0..MaxStarts
  /\ sources \subseteq 1..MaxStarts
  /\ lost \in BOOLEAN
  /\ reports \in Nat

\* Reference for the flood: what is reached from the pressed cell c through
\* closed cells without a flag, going on from the cells without a number.
Flooded(c) ==
  LET Wider(S) == S \cup ((UNION {Around[d] : d \in {z \in S \ mines : Number(z) = 0}})
                          \ (revealed \cup flagged))
      after[n \in Nat] == IF n = 0 THEN {c} ELSE Wider(after[n - 1])
  IN after[Cardinality(Cells)]

\* A press opens exactly that set, in whatever order the recursion visits it:
\* no flagged cell, nothing beyond the numbers, and nothing short of them.
PressOpensTheFlood ==
  [][\A c \in revealed' \ revealed : Open(c) => revealed' = revealed \cup Flooded(c)]_vars

\* A game is reported when and only when its last safe cell is opened, from
\* whichever call of the recursion; a game lost before is no exception.
ClearedIsReported ==
  mines # {} => (reports > 0 <=> Cells \ mines \subseteq revealed)

\* Never two timeouts, in whatever order games are left and started, and none
\* after the game is lost or reported: the time that was reported stands.
OneTimer ==
  /\ sources \subseteq {timer_id}
  /\ (lost \/ reports > 0) => sources = {}

\* Every call of reveal_cell on the stack may report the same win
\* (mine.c:152), but they are calls of one press and the clock stands after it:
\* whatever comes before the next game, a press on a mine too, neither reports
\* it again nor counts a second, so all its reports have one time.
ReportsAgree ==
  [][reports > 0 =>
       reports' = 0 \/ (reports' = reports /\ elapsed_time' = elapsed_time)]_vars
=============================================================================
