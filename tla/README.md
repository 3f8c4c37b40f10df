# MBDTF: specifications, model checks and proofs

MBDTF is a GTK client with five small games, and IGOR its Node server: accounts
and scores in MySQL behind Express, and tic-tac-toe rooms behind a WebSocket.
The modules here specify both sides as the code under `src/` does them, TLC
checks them on small instances, and TLAPS proves every safety property that the
runs check, and both refinements, for every instance.

## 1. Inventory

| Component | Source | State | Operations |
|---|---|---|---|
| Account service | `src/IGOR/route/auth.js`, `src/IGOR/db.js` | tables `users` and `scores`, the connection pool, open transactions | login, check-username, register (one transaction), delete-account (two statements) |
| Score service | `src/IGOR/route/score.js` | table `scores` | save-score; get-all-scores and get-user-scores only read |
| HTTP entry point | `src/IGOR/index.js` | none | mounts the routers |
| Tic-tac-toe server | `src/IGOR/route/ttt.js` | per connection `currentRoom`, `userId`; per room players, board, turn, connected | join (CONNECTED), MOVE, other lines, close, the exception of a row out of range |
| Minesweeper | `src/MBDTF/games/mine.c` | field, `revealed`, `flagged`, `mines_left`, the timer | open (a recursive flood), flag, tick, start, back |
| Tetris | `src/MBDTF/games/tetris.c` | grid, pieces, score, level, `game_loop_id` | keys, tick, `clear_lines`, start, back |
| 2048 | `src/MBDTF/games/2048.c` | grid, score, the two aids and their modes | keys, swap and remove, start, back, end of the game |
| Breakout | `src/MBDTF/games/brick.c` | balls, bricks, items, lives, level, paddle | a frame, the mouse, K, restart, start, back |
| Client session | `auth/login.c`, `auth/register.c`, `setting.c`, `menu.c` | `username`, `is_guest_mode`, the visible screen | login, guest, sign up, delete account, navigation, `send_game_score` |
| Scoreboard | `src/MBDTF/score.c` | labels of a GtkGrid | refresh: fetch and write the ranking, then the player's own scores |
| Tic-tac-toe client | `src/MBDTF/games/ttt.c` | | in no project file, not compiled |
| Music and widgets, vendored headers | `menu.c`, `setting.c`, `src/MBDTF/include` | | playback, CSS, layout; third-party code |

**How they interact.** Client and services talk HTTP: a client handler sends a
request and waits for the answer (`curl_easy_perform`), a server handler is an
async function that gives up the event loop at each `await` on MySQL.  Inside
the client everything runs on the GTK main loop: callbacks of widgets, timeouts
and, where code runs the main loop itself (`update_score` of 2048), callbacks
inside callbacks.  The games call `send_game_score` of `menu.c`, which uses the
`username` and `is_guest_mode` that `login.c` and `register.c` set.  The rooms
of `ttt.js` are shared by the connections of a room; a handler of `ws` runs to
its end.

**What is hard, and what makes each part correct.**

- *Accounts and scores*: handlers interleave at every statement, any statement
  or connection may fail, the process may be killed or exit on an unhandled
  rejection, commits may go unacknowledged, ten connections serve all.  The
  pool must come out whole; a name has one account; an account exists with all
  its rows or not at all; a record is a score somebody posted and no accepted
  score is lost; a deleted account leaves nothing; every request is answered.
- *Rooms*: connections leave, come back under other names, address rooms they
  are not in; a close event comes late; messages are accepted with one player
  or none.  Boards must alternate, symbols be distinct, players know the board,
  rooms not outlive their players.
- *Games*: the order of callbacks nobody tried, timeouts that outlive their
  game, loops that change what they iterate over, handlers inside handlers.
  Score, counters and end of the game must agree with the board, a game must
  be reported once and with its final score.
- *Session*: guest mode, lost answers, games that go on behind other screens, a
  key handler that goes on after the player has logged out.  Scores must go to
  whom the server accepted.
- *Scoreboard*: two requests that other clients interrupt, labels that are
  written and never cleared, tied ranks that share a label, a next player.
  What is shown must have been reached by whom it names, in that game, and
  nobody be ranked too low.

`PROJECT.json` lists the hazards one by one, at their lines.

## 2. Modules

| Module | Models | Depends on |
|---|---|---|
| `ScoreService` | the Express handlers over the pool and MySQL | instance of `Ledger` |
| `Ledger` | abstract: accounts, their scores and four atomic operations on them | |
| `TttRoom` | the WebSocket server | instance of `AlternatingBoards` |
| `AlternatingBoards` | abstract: boards on which X and O alternate and which may be cleared | |
| `Mine`, `Tetris`, `Game2048`, `Breakout` | one game each | |
| `Session` | the client's idea of who plays | |
| `Scoreboard` | client, server and other clients together, and the grid of `score.c` | extends `Session`, instance of `Ledger` |
| `MC*` | values of constants for TLC, symmetry sets, an evaluated assumption | the module of that name |
| `*Proofs` | theorems and proofs; those of `Session` are in `ScoreboardProofs`, which builds on them | the module of that name |
| `NatFacts` | lemmas for the proofs: least elements, induction, recursion and folds, stated for sets and functions | |

Names of actions and variables are those of the source where TLA+ allows.

**ScoreService.** One action is one statement sent to MySQL, the code between
two awaits goes with the statement before it.  `pc[r]` is the statement that
handler `r` is about to send: `login` and `check-username` run `Select`;
`save-score` runs `SaveScore`; `delete-account` `DeleteScores` and, on a second
connection, `DeleteUser`; `register` `BeginTransaction`, `InsertUser`,
`InsertScores`, `Commit`, and from each of them to `Rollback` by an error.
`Acquire` is the pool (a handler that finds no connection waits, `queueLimit`
is 0), `StatementFails`, `StatementUnacknowledged` (MySQL executed it, and the
connection was lost before it said so), `TxStatementFails`,
`CommitUnacknowledged`, `GetConnectionRejects`, `RollbackRejects`, `Killed` and
`Restart` the failures with what the catch and finally blocks then do: the await of `getConnection`
and of `rollback` are outside any catch, so their rejection ends the process
(Node's default for unhandled rejections).  A row inserted by an open
transaction locks its name for statements that look it up.

The schema of the database is not in the repository.  Assumed is what the code
relies on: `users.username` is unique (register answers `ER_DUP_ENTRY`), and
`scores` has a unique key with the game in it (`ON DUPLICATE KEY UPDATE`).  What
is left open (which column that key has beside the game, whether `user_id` may
be NULL, whether there is a foreign key and whether it restricts a deletion,
cascades it or sets `user_id` to NULL) is the variable `schema`, fourteen schemas
in all; every property is checked and proved under each of them.  What only the
schema guarantees is no property here: that names are unique is part of the
invariant of the proofs, and what the code makes of it is
`AcceptedRegisterStands`.

**Ledger.** What the handlers come to for a client: `Register` adds a free name
with its initial rows, `Save` replaces rows that are no better, `Erase` and
`Remove` are the two halves of a deletion.  `LedgerKept` of `ScoreService` maps
the committed tables to it, without identifiers and owners: statements of an
open transaction, failures, restarts and refused requests are stutters.

**TttRoom.** One action is one event: `Connect`, `Join`, `Move`, `Speak` (any
other line), `StartClose`, `Close`, `ThrowOnRow` (a MOVE with a row outside the
board throws in the handler and ends the process).  Every message carries room
and sender, which set `currentRoom` and `userId` of the connection, so one
connection may touch several rooms and leave all but the last with a ghost; the
properties say exactly which ghosts there are.  The board is a function on an
arbitrary set of cells, since the code only compares positions.

**Games.** `Mine!Open` contains the whole recursion of `reveal_cell` and
`reveal_neighbors`, a recursive function `Reveal` over the nine offsets in the
code's order; each call that opens a safe cell ends in `check_win_condition`, as
it does there.  `PressOpensTheFlood` compares it with a reference definition by
closure.  `Tetris` keeps the geometry of the pieces and
takes `clear_lines` row by row (`at`, `row`).  `Game2048` has the nested main
loop: `stack` holds what the interrupted key handlers have left to do.
`Breakout` takes the three loops of `update_game` element by element (`at`,
`next`); positions are abstracted to what a frame can find out about them.
`MenuShown` is the one step of another game: a key handler of 2048 may show the
menu and leave Breakout running behind it.  For Minesweeper and Tetris, whose
Back button changes the screen only, that step is `Back`.

**Session.** Requests are synchronous, so a callback with its request is one
action with the outcomes success, error, lost request and lost answer.
`Cut[n]` is what `char username[50]` keeps of a name: the client plays, reports
and deletes under it.  Of the server there are the names only.  `running` are
the timed games, Tetris and Breakout, which report from behind any screen.
`moves` are the key handlers of 2048 that have called `update_score` and whose
nested main loop runs: `Move` stops one more, every other action may come
before `MoveEnds`, and that may send a score and show the menu, from the login
screen too (`2048.c:269`).  `player` is who came through the login screen,
`brought` whether such a handler brought the menu back since.

**Scoreboard.** `Session` composed with the server as `Ledger` gives it:
`SignUp`, `Leave` and `Report` are joint steps of the client and the server,
`Others` are steps of the server for other clients, which are
this client elsewhere: a score above 0 that they post is of a game `score.c` knows, under
a name as `username[50]` holds it.  A refresh is two steps,
`FetchRanking` and `FetchBest`, and between them only others move, since the
client waits.  `Rank` is the window function of `score.js`, `Places` and
`Answers` are the labels that `update_score_table` writes (the order of tied
rows is open), the rest of `cell` and `best` stays.  Composed as it is with
`Ledger`, the grid sees deletions that stop half way and accounts that are made
anew under the same name.  The composition assumes a foreign key that is
not NULL and a unique key on user and game (`WellFormed`); without the foreign key a deleted
player's old row and his new one could both be ranked.

## 3. Runs

| Run | Instance | What it shows |
|---|---|---|
| `score_service` | 3 interchangeable handlers, 1 name, 2 connections, 2 games, scores 0, 3, 5, 4 requests, 1 fault, all 14 schemas | the pool, accepted and failed registrations, records, the refinement of `Ledger` |
| `score_live` | 3 handlers of 1 name on 2 connections, 3 requests, 1 fault | every request is answered |
| `score_delete` | 2 handlers, no fault | violated: scores survive delete-account |
| `ttt_room` | 3 connections, 3 names, 1 room, 3 cells | symbols, ghosts, the announced start, knowledge, the refinement of `AlternatingBoards` |
| `ttt_start` | 2 connections, 2 names | violated: X does not always start |
| `mine` | 3 x 3, 1 mine, 2 games | flood, reports and their time, timer |
| `tetris` | 4 x 4, pieces I and O, levels of 100 points | the piece, the rows, the timeouts |
| `tetris_hang` | as `tetris` | violated: the hard drop ends |
| `game2048` | 2 x 2, 2 nested handlers, both aids, scores up to 12 | score, end and report of the game |
| `breakout` | 2 balls, 2 items, 2 bricks, 2 levels | ball and item counters, end and report of the game |
| `client` | 2 players, a name that is cut to one of theirs, 1 stopped key handler of 2048, 2 ranks, times 1 and 2 of Minesweeper | who is played for, whose scores are sent, what the scoreboard shows |
| `scoreboard_best` | 2 players, 1 rank, 1 time | violated: the best score shown is the player's own |

**Why the bounds are enough.**  *score_service*: two handlers make every race of
two requests for one name and the third waits for a connection or comes
between two statements of another; one fault reaches every error path, and the
unacknowledged commit followed by a retry fits into four requests; two scores
beside 0 tell better, equal and worse apart; `"mine"` and another game cover
both forms of save-score.  One name suffices because no statement relates two
names.  *score_live*: with one name every handler is in the way of the others,
and with two connections for three handlers one of them waits, holding a
connection, for the row that a transaction has locked, and the third for a
connection; one fault ends the transaction in a rollback, a rejection or a lost
acknowledgement with the others waiting.  *ttt_room*: the third connection and
name are those that are refused, return or take over; three cells let both
players move and a board fill.  The room is one: what a connection does to a second room is bounded by
`NoGhostPlayer`, whose exception needs a name change only, and the proofs cover
every number of rooms.  *mine*: 3 x 3 with one mine has floods that go around
corners and cells with and without numbers; the second game finds the leftovers
of the first.  *tetris*: I and O fill one and two rows at once, leave gaps and
stack to the top; `LevelStep` 100 makes levels rise in the middle of a timeout.
*game2048*: a row of two merges, fills and gets stuck; rows of three, with the
order in which merges happen, are covered by the assumption `MovesOfThree` that
`MCGame2048` evaluates on all 3 x 3 boards of 0, 2 and 4.  *breakout*: with two
places each list is empty, part full and full; one item falls on the paddle and
one beside it.  *client*: with two ranks and two times there
are ties, ranks left out and labels that a later answer skips.  The third name
is cut to another's, so that one client plays under a name that is somebody
else's; the constraint `MCBound` of `MCScoreboard` keeps it and the second player in
different behaviours and one game at a time behind the screens, which holds the
run under two minutes.  More stopped handlers, more games at once and an account that is named
Guest are left to the theorems, which have any number of them.  One game is
followed, the one whose order is reversed: no definition relates the scores of
two games, except that the column of Tetris takes games the client does not
know, of which none has a score above 0.

`Max...` constants other than those of the source are bounds, named as such in
their modules: `MaxRequests`, `MaxFaults`, `MaxTime`, `MaxStarts`, `MaxFlags`,
`MaxScore`, `MaxDepth`, `MaxMoves`, `MaxLevel`, `Followed`, `Ranks` (10 in
`score.js`), `MCBound`.

**Deadlock** is checked where the model cannot stop (`breakout`, `game2048`,
`client`, `scoreboard_best`, `tetris_hang`).
`ScoreService` stops when `MaxRequests` is used up,
`TttRoom` when all connections are closed, `Mine` when its games and its clock
are, `Tetris` when the hard drop hangs; those cfgs say `CHECK_DEADLOCK FALSE`.

**Symmetry** is used for handlers, for connections, names and cells of the rooms,
which the definitions only compare for equality, and in no liveness run.  The
refinement run checks a property of the form `Init /\ [][Next]_v` under
symmetry, which quantifies over the permuted sets as a whole.

**Fairness.**  `FairSpec` of `ScoreService` has weak fairness for each handler's
next step, nothing else: the event loop reaches every ready callback, MySQL
answers or fails, and both the queue of the pool and the lock queues of InnoDB
are first in, first out, so that a handler that stays able to go on does.  No
request must arrive, no fault must happen or stop happening, nobody must
restart the process.  The other modules assume no fairness: a user may do
nothing.

## 4. What is proved

| Theorem | Statement |
|---|---|
| `ScoreServiceProofs!TypeCorrect` | `Spec => []TypeOK` |
| `PoolSafe` | no connection is lost or given twice |
| `RegisteredStands`, `NothingLeftByFailure` | an accepted registration has its account and rows until they are deleted, a failed one has none |
| `AcceptedKept`, `RecordsEarned` | no accepted score is lost, no record is anybody else's |
| `MineStaysFrozen` | the row of `mine` keeps its 0 |
| `LedgerImplemented` | `Spec => LedgerKept`, the refinement of `Ledger` |
| `TttRoomProofs!TypeCorrect`, `PlayersSound`, `NoGhosts`, `GameStartsOnce`, `NoGameAbandoned`, `Knowledge` | types, symbols and ghosts, start and end of rooms, what players know |
| `TurnFollowsBoard` | the turn agrees with the marks on the board, `TurnMatchesBoard`, of which no run is needed: `BoardsAlternate` has it |
| `RefinesBoards` | `Spec => BoardsAlternate`, the refinement of `AlternatingBoards` |
| `BreakoutProofs!TypeCorrect`, `BallsAreCounted`, `GameGoesOn`, `LostGameIsReported`, `SpawnAlwaysFinds` | every property of the run |
| `MineProofs!TypesKept`, `ClearedGameReported`, `OneTimeout` | every invariant of the run |
| `FloodOpensItsRegion`, `OneTimeReported` | its action properties `PressOpensTheFlood` and `ReportsAgree` |
| `TetrisProofs!TypesKept`, `PieceAlwaysFits`, `RowsAccounted`, `OneGameLoop` | every property of the run |
| `HardDropStops` | the hard drop ends whenever there is a piece (compare `HardDropEnds`) |
| `Game2048Proofs!TypesKept`, `EveryMergeCounted`, `LossIsReported`, `ReportsAreFinal` | every property of the run |
| `MovesOfAnySize` | `MovesOfThree` of `MCGame2048`, for boards of any size and any tiles |
| `ScoreboardProofs!TypeCorrect`, `PlayerIsKnown`, `OnlyAcceptedScore` | of `Session`: types, who plays, whose scores are sent |
| `BoardImplementsSession`, `BoardImplementsLedger` | the composition implements both of its parts |
| `BoardPlayerKnown`, `BoardScoresOfAccepted` | what holds of the client holds of the composition |
| `BoardTypeCorrect`, `LabelsWereReached`, `LabelsRankNotTooLow`, `BestKeepsUp` | what the scoreboard shows |

They hold for all values of the constants under the assumptions that the
modules name (`ConstantsAssumption`, `FiniteAssumption`, `NoneAssumption`,
`BreakoutAssumption`, `TetrisAssumption`, `Game2048Assumption`,
`SessionAssumption`, `ScoreboardAssumption`), which ask for finite sets, sizes
that are natural numbers, and null values that are nothing else.  The bounds on
requests, faults, scores, levels and the depth of nested handlers are among the
constants: the theorems hold for each of their values.

**The arguments.**

- *Pool.*  `free + |holds|` changes only in pairs; what is needed besides is
  that a handler holds a connection exactly where the code would release it:
  `HandlersSound` ties each statement to its request and an open transaction
  to its connection.  Without it a `Rollback` of a handler that holds nothing
  would add a connection.
- *Registrations and owners.*  That a name has one account (`UniqueNames`) is
  the schema's doing and only a step: a transaction may hold a row that a commit
  adds later, so `NamesReserved` says that a name inserted by an open
  transaction is in no committed row and in no other transaction.  `Consistent`
  adds what an open transaction will commit (`TxSound`: one account with the id,
  name and password of its request, and its rows), that ids are taken once
  (`IdsSound`), and that a row with an owner has that owner's name
  (`OwnersSound`).  The last is why a save that duplicates either of the two
  possible keys overwrites a row of its own name only, from which
  `AcceptedScoreKept` and `RecordEarned` follow statement by statement.
  `AcceptedRegisterStands` needs more: a 201 is given in the step that commits
  (`Registered`), an account goes only into `erased` (`AccountsGoErased`), and
  its initial rows only when its scores are `stripped` (`RowsKept`).
- *The row of mine.*  `MineRecordFrozen` speaks of rows, and would be lost if a
  save found none and inserted one: `RowsKept` keeps the row as long as the
  account's scores are not erased.
- *Ledger.*  Each step of a handler is an operation of `Ledger` or leaves names
  and rows alone.  A commit, acknowledged or not, is `Register` because of
  `NamesReserved` and `TxSound`; a save that finds no user is a stutter or, where
  `user_id` may be NULL, a row without an account, which `Ledger` has too.
- *Rooms.*  The refinement needs types only: an accepted move is a move of the
  abstract board, a dropped room and a new process clear boards.  The turn is
  proved of the abstract steps with facts about the number of marks.
  `Membership` (players exist only in existing rooms, have a connection that was
  made, were counted, and the first plays X) makes the symbols inductive.
- *Minesweeper.*  That the recursion of `reveal_cell` ends, so that `Reveal` is
  the function its equation describes (`RevealIs`), follows from the number of
  closed cells, which each call lowers before it makes others (`FewerFirst` is
  induction on it).  After a report only mines can be pressed, and
  `reveal_cell` returns from a mine before it looks for a win (`ReportsStay`).
  `RevealCounts`: a call reports when it opens the last safe
  cell and not before, which is `ClearedIsReported` from one press to the next.
  `RevealSettles`: around a cell without a number that a call has opened nothing
  is left closed; `RevealStays`: a call opens nothing outside a set that is closed
  under such neighbourhoods.  The reference, iterated as often as there are
  cells, is the least such set (`FloodedIs`), and the two meet.
- *Tetris.*  `Inv` adds the middle of `clear_lines`: the rows below the one it
  looks at are not full, and the board has four cells for each locked piece but
  those of the rows cleared so far (`CellsCounted`).  That the cells shifted down
  are as many as before is a bijection; the hard drop's last row is a least
  element.
- *2048.*  `WorthOf` is a fold over the cells and `Worth` recursive: both are
  shown to have a value, and the sum to change by the tile that is put down
  (`PutTile`).  No tile has the value 1, which `Inv` adds, since doubling it would
  earn points no 2 or 4 accounts for.  Each turn of the loops of `move_tiles` then
  earns what it adds to the score, whatever handlers come between two moves.
  That no gap is left rests on the order of the loops: whatever lies ahead of a
  tile has been looked at before it (`AheadIsEarlier`).
- *Breakout.*  `Inv` extends the properties to the middle of a frame and to play
  behind the menu (`Play`, `Played`):
  when the game is lost, no ball is left, so nothing scores and no added ball
  revives it, and a brick stands, so that the end of the frame does not start
  the next level.  The second holds because the ball that broke the last brick
  in this frame has been looked at and is in play, so the ball that falls is
  not the last.  `ItemsCounted`, the counter is at most the number of items, is
  what `SpawnFindsFreeSlot` follows from.
- *Session.*  A client that is not in guest mode has what is held of the name
  the server accepted last, or none (`NameAccepted`).  While a game runs or a
  key handler is stopped username is not empty (`GamesPlayed`), since somebody
  came through the login screen before.  With both, a score is sent under an
  accepted name from whichever screen.  When a handler brings the menu back,
  username is Guest or what is held of the accepted name (`NameKnown`), as every
  step that writes it makes it one of the two.
- *Composition.*  Each step is a step of `Session` or leaves
  the client alone: what others do to the accounts is `OtherClient`.  Each is a
  step of `Ledger` or leaves accounts and rows alone; for `Leave` that takes
  that the rows are rows of names (`RowsNamed`), as a guest must delete none.
- *Scoreboard.*  No step takes a name away from beside a score without recording
  it in `erased` (`ReachedGrows`), so what was true of a label stays true
  (`LabelsStayTrue`); an answer is true when it is written (`RankedIsReached`:
  the row at rank k has k - 1 better ones, of other names, as there is one row
  for a name and game).  `BestKeepsUp` adds that between the two requests rows
  only become better.

Induction over data, recursive functions and folds are within reach of these
proofs although the library states them with operators as parameters: a set or
a function takes the operator's place in `NatFacts` (`SetInduction`,
`SubsetInduction`, `NatRecursion`, `FoldExists`), and the definitions of the
community modules are expanded where a fold is met.

**Model-checked only.**  Liveness (`EveryRequestAnswered`): fairness and ENABLED
are out of the prover's reach.  The four properties that the runs refute are
not theorems, of course; `HardDropStops` is what remains of one of them.

## 5. Findings

Each is a property that a run refutes, or that holds and should not:

1. `DeleteErasesScores`: delete-account is commented "Delete user and related
   scores" (`auth.js:111`), but a save-score between its two autocommit
   statements leaves a row behind.
2. `StartsWithX`: "the game starts with 'X'" (`ttt.js:31`), but MOVE is accepted
   before the second player joins, and the game then starts with O.
3. `MineRecordFrozen` (holds): register inserts 0 for `mine` and save-score keeps
   the least value, so no time of a registered player is ever recorded.
4. `HardDropEnds`: the space bar before the first Start loops for ever on a
   piece without cells.
5. `YourBestIsYours`: the labels under "Your Best Score:" are written for the
   games the answer names and never reset, so a player (or guest) without a
   score is shown the best of the player before as his own.
6. `StartAnnouncedOnce` (holds): "Game starts!" is broadcast once in the life of
   a room, as `connected` counts joins and never goes down.  A player who takes
   the place of one that has left is told "Waiting for second player..."
   (`ttt.js:55`) with the second player connected.

Met while modelling, without a run of its own:

- `brick.c:287` means to keep the paddle on the screen but clamps with
  `PADDLE_WIDTH`: an extended paddle sticks out by 50.  `paddle_extend_time` is
  set and never read.  An item caught in the frame in which it leaves the screen
  is counted down twice, so `active_items` may become negative; that only makes
  room (`SpawnFindsFreeSlot`).
- `tetris.c`: the timeout of a new level (line 361) is given NULL for the drawing
  area, so its ticks move the piece and do not draw it; level and speed survive Start; the keys work after the game is
  over; `game_loop_id` keeps the identifier of a timeout that ended.
- `setting.c:42-44` takes any HTTP answer for a successful deletion, and the
  username stays; `login.c:95` never leaves guest mode, so a user who logs in
  after having been a guest sends no scores; `login.c:97` cuts a name at 49
  bytes, and the player goes on as whoever has the shorter name
  (`PlayerKnown` and `ScoresOfAccepted` say exactly how far that goes).
- The client reports Breakout as `bp`, register inserts the row `breakout`.
- `score.c` writes rows of the same rank into the same cell and does not clear
  the rows of the last ranking: players of deleted accounts stay, and one player
  may stand at two ranks.  `ShownWasReached` and `RanksNotTooLow` are what still
  holds of such a grid.
- `mine.c`: a win inside a flood is reported by every call of `reveal_cell` on
  the stack, and its timeout removed as often; the reports have the same time
  (`ReportsAgree`).
- `2048.c`: the main loop that `update_score` runs "to be drawn immediately"
  (line 39) handles Back and Logout too.  When the move ends its game, the
  handler then sends the score and shows the main menu over the login screen
  (line 269): the player who logged out is in it again.  `PlayerKnown` and
  `ScoresOfAccepted` say what still holds: the client plays for the guest or the
  account it knew last, and sends under no other name.
- `2048.c`: a swap can leave a board without a move and nothing looks for it
  (the exception in `LostGameReported`); a lost game may be sent twice by
  interrupted handlers, with the same score (`ReportIsFinal`); modes of the aids
  survive Start.
- `register.c`: the handler of the username check is connected to no widget.

## 6. Not modelled

The HTTP entry point (it only mounts the routers); `ttt.c` (not compiled,
another port, a screen that does not exist); music, CSS, layout and drawing.
Nearly all lines of the repository are the vendored headers of OpenSSL, curl and
libwebsockets under `src/MBDTF/include`, third-party declarations without
behaviour of this program; its own code is some 3600 lines, of which widgets
and their layout are the part left out.  Inside the modelled parts: the wording
of messages, speeds and angles of Breakout and Tetris, the random choice of
pieces and tiles (any choice is possible), and memory that is not freed.

## 7. Plan

The order was: the server's data first, since its errors last
(`ScoreService`), then the rooms with their abstract specification
(`TttRoom`, `AlternatingBoards`), then the games by the weight of their
control (`Mine`, `Breakout`, `Tetris`, `Game2048`), then who plays
(`Session`), then what the server promises (`Ledger`) and the composition of
client and server over it (`Scoreboard`).  Done: all of these, and the proofs of
section 4.

All safety properties of the passing runs and both refinements are proved.
What could still be added are theorems about single operators, as
`MovesOfAnySize` is one: that `Rank` of `Scoreboard` is the rank of SQL for ties of
any size, and what a chain of moves and clears of `AlternatingBoards` may lead to.
