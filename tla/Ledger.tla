------------------------------- MODULE Ledger -------------------------------
(***************************************************************************)
(* What IGOR promises to its clients about accounts and scores, whatever   *)
(* handlers interleave or fail behind it: usernames and the best scores    *)
(* kept under them, each changed by one atomic operation.  A deletion is   *)
(* two of them, Erase and Remove, and either may be all that happens.      *)
(***************************************************************************)
EXTENDS Integers

CONSTANTS Names, Games, Scores,
          InitialGames  \* games whose rows come with the account

VARIABLES
  accounts,  \* usernames that have an account
  records    \* rows of scores, without their owners

Row(n, g, high) == [name |-> n, game |-> g, high |-> high]
RecordsOf(n) == {row \in records : row.name = n}

\* For "mine" the score is a time.
AsGood(game, a, b) == IF game = "mine" THEN a <= b ELSE a >= b

Init == accounts = {} /\ records = {}

Register(n) ==
  /\ n \notin accounts
  /\ accounts' = accounts \cup {n}
  /\ records' = records \cup {Row(n, g, 0) : g \in InitialGames}

\* A save puts a score into the place of one that is no better, or adds it.
Save(n, g, s) ==
  /\ \E worse \in SUBSET {row \in RecordsOf(n) : row.game = g /\ AsGood(g, s, row.high)} :
       records' = (records \ worse) \cup {Row(n, g, s)}
  /\ UNCHANGED accounts

Erase(n) ==
  /\ records' = records \ RecordsOf(n)
  /\ UNCHANGED accounts

\* Rows that refer to the account may go with it.
Remove(n) ==
  /\ accounts' = accounts \ {n}
  /\ \E gone \in SUBSET RecordsOf(n) : records' = records \ gone

Next ==
  \E n \in Names :
    \/ Register(n) \/ Erase(n) \/ Remove(n)
    \/ \E g \in Games, s \in Scores : Save(n, g, s)

Spec == Init /\ [][Next]_<<accounts, records>>
=============================================================================
