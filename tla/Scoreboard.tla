----------------------------- MODULE Scoreboard -----------------------------
(***************************************************************************)
(* The client and the server together: Session, whose player comes, goes   *)
(* and sends scores, over the Ledger that ScoreService implements, and the *)
(* scoreboard of score.c, which asks for the ranking and for the player's  *)
(* own scores and writes what it is told into the labels of a grid.        *)
(*                                                                         *)
(* Refresh sends two requests, one after the other; the client waits for   *)
(* both, other clients do not.  Labels are written where an answer names   *)
(* them and never cleared.  Only a press of the button refreshes.          *)
(***************************************************************************)
EXTENDS Integers, Session

CONSTANTS
  Ranks,       \* ranks that get-all-scores answers, 10
  Scores,      \* scores that games report
  Followed     \* bound: the games whose scores are followed

ASSUME ScoreboardAssumption ==
  /\ Ranks \in Nat \ {0} /\ Scores \subseteq Nat \ {0} /\ Followed \subseteq Games \cup {"breakout"}

VARIABLES
  records,     \* the rows of scores
  cell,        \* username and score shown for a game and rank, or Blank
  best,        \* "Your Best Score:" of each game, 0 before the first answer
  refreshing   \* the first answer is there, the second not

\* For the properties.
VARIABLES
  viewer,      \* whose scores the labels of best were asked for last, unless
               \* the ranking has been written since
  erased       \* names whose rows were erased

grid == <<cell, best, refreshing, viewer>>
vars == <<session, records, grid, erased>>

Blank == [name |-> NoName, high |-> 0]
Entries == {Blank} \cup [name : Names, high : Scores]

Server == INSTANCE Ledger WITH
  InitialGames <- Followed \cap {"2048", "mine", "breakout"}, Games <- Followed

\* Under a foreign key that is not NULL and a unique key on user and game.
WellFormed ==
  /\ \A row \in records : row.name \in accounts
  /\ \A a, b \in records : a.name = b.name /\ a.game = b.game => a = b
-----------------------------------------------------------------------------
(***************************************************************************)
(* The queries of route/score.js and the labels they are written to.       *)
(***************************************************************************)
\* Mutant: rows of a 0 are ranked.
AllRows == records
ScoredRows == {row \in records : row.high > 0}

\* ORDER BY of RANK(): a time is better when it is less.
\* Mutant: without the CASE.
MoreIsBetter(game, a, b) == a > b
Better(game, a, b) == IF game = "mine" THEN a < b ELSE a > b

\* RANK() OVER (PARTITION BY game ...): tied rows share a rank and the ranks
\* after it are left out.
Rank(row) ==
  1 + Cardinality({r \in ScoredRows : r.game = row.game /\ Better(row.game, r.high, row.high)})

\* A game that score.c does not know has the column of Tetris.
Column(game) == IF game \in Games THEN game ELSE "tetris"

\* Of the rows written to one place the last stays: the order of tied rows is
\* open, and the other games come before Tetris.
LastOf(W, column) ==
  {row \in W : row.game = column \/ \A r \in W : r.game # column}

Entry(row) == [name |-> row.name, high |-> row.high]

Ranked(c, k) == {row \in ScoredRows : Column(row.game) = c /\ Rank(row) = k}

\* The places of the grid that an answer writes, and the rows it may leave there.
Places == {p \in Games \X (1 .. Ranks) : Ranked(p[1], p[2]) # {}}
Answers ==
  {shown \in [Places -> ScoredRows] : \A p \in Places : shown[p] \in LastOf(Ranked(p[1], p[2]), p[1])}

Written(shown) ==
  [c \in Games |-> [k \in 1 .. Ranks |->
     IF <<c, k>> \in Places THEN Entry(shown[<<c, k>>]) ELSE cell[c][k]]]

\* What get-user-scores has for a column; without it the label stays.
\* Mutant: the scores of everyone.
Everyones(c) == {row \in ScoredRows : Column(row.game) = c}
Own(c) == {row \in ScoredRows : Column(row.game) = c /\ row.name = username}
OwnBest(c) == IF Own(c) = {} THEN best[c] ELSE (CHOOSE row \in LastOf(Own(c), c) : TRUE).high
-----------------------------------------------------------------------------
Idle == ~refreshing

\* get-all-scores; an answer without gameScores or none at all leaves the
\* labels, one that is no JSON ends the refresh there.
FetchRanking ==
  /\ Idle /\ screen = "scoreboard"
  /\ refreshing' = TRUE
  /\ \/ (\E shown \in Answers : cell' = Written(shown)) /\ viewer' = NoName
     \/ UNCHANGED <<cell, viewer>>
  /\ UNCHANGED <<session, records, best>>

\* get-user-scores.
FetchBest ==
  /\ refreshing /\ refreshing' = FALSE
  /\ \/ best' = [c \in Games |-> OwnBest(c)] /\ viewer' = username
     \/ UNCHANGED <<best, viewer>>
  /\ UNCHANGED <<session, records, cell>>

\* Steps of the player that the server does not hear of, or only answers.
Play ==
  /\ Idle
  /\ \/ Guest \/ Run \/ Move \/ MoveEnds \/ Navigate
     \/ \E n \in Names : Login(n)
  /\ UNCHANGED <<records, grid>>

SignUp(n) ==
  /\ Idle
  /\ Register(n) /\ Server!Register(n)
  /\ UNCHANGED grid

\* The second of its two statements may be the one that fails.
Leave ==
  LET left == records \ Server!RecordsOf(username)
  IN /\ Idle
     /\ DeleteAccount
     /\ records' \in IF accounts' = accounts THEN {records, left} ELSE {left}
     /\ UNCHANGED grid

\* A score arrives; the server answers 500 when the account is gone.
Report(g, s) ==
  /\ Idle
  /\ Sends(g) /\ username \in accounts
  /\ Server!Save(username, g, s) /\ WellFormed'
  /\ UNCHANGED <<session, grid>>

\* Other clients: they cut the names they post under and know the same games.
Others ==
  /\ Server!Next /\ WellFormed'
  /\ \A row \in records' \ records :
       row.high > 0 => Cut[row.name] = row.name /\ row.game \in Games
  /\ UNCHANGED <<screen, player, brought, identity, games, grid>>

BoardInit ==
  /\ Init /\ Server!Init
  /\ cell = [c \in Games |-> [k \in 1 .. Ranks |-> Blank]]
  /\ best = [c \in Games |-> 0]
  /\ refreshing = FALSE /\ viewer = NoName /\ erased = {}

BoardNext ==
  /\ \/ FetchRanking \/ FetchBest
     \/ Play \/ Leave \/ Others
     \/ \E n \in Names : SignUp(n)
     \/ \E g \in Followed, s \in Scores : Report(g, s)
  /\ erased' = erased \cup ({row.name : row \in ScoredRows} \ {row.name : row \in records'})

BoardSpec == BoardInit /\ [][BoardNext]_vars
-----------------------------------------------------------------------------
BoardTypeOK ==
  /\ TypeOK
  /\ records \subseteq [name : Names, game : Games \cup {"breakout"}, high : Scores \cup {0}]
  /\ cell \in [Games -> [1 .. Ranks -> Entries]]
  /\ best \in [Games -> Scores \cup {0}]
  /\ refreshing \in BOOLEAN
  /\ viewer \in Names \cup {NoName, "Guest"} /\ erased \subseteq Names

Beside(c, score) ==
  {row \in records : row.game = c /\ row.high > 0 /\ Server!AsGood(c, row.high, score)}

\* Whatever a label still shows was the player's record in the game of that
\* column: no row of another game, no score that the player has not reached
\* since, unless his rows were erased.
ShownWasReached ==
  \A c \in Games, k \in 1 .. Ranks :
    LET e == cell[c][k]
    IN e # Blank => e.name \in erased \cup {row.name : row \in Beside(c, e.high)}

\* A score at rank k has at least k players who are as good, itself included:
\* a label that a later answer has skipped never ranks anyone too low.
RanksNotTooLow ==
  \A c \in Games, k \in 1 .. Ranks :
    LET e == cell[c][k]
    IN e # Blank => Cardinality(erased \cup {row.name : row \in Beside(c, e.high)}) >= k

\* After a refresh that was answered the player's own best is at least as good
\* as what the grid shows of him, although saves may come between the two
\* requests.
BestNotBehindGrid ==
  \A c \in Games, k \in 1 .. Ranks :
    (viewer \notin erased /\ cell[c][k].name = viewer /\ viewer # NoName)
      => Server!AsGood(c, best[c], cell[c][k].high)

\* score.c:125 asks for the user's own best scores and score.c:148 writes them
\* under "Your Best Score:": what is shown there is not somebody else's.
YourBestIsYours ==
  (viewer # NoName /\ viewer \notin erased) =>
    \A c \in Games :
      best[c] # 0 => viewer \in {row.name : row \in Beside(c, best[c])}
=============================================================================
