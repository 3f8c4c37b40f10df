-------------------------- MODULE ScoreboardProofs --------------------------
(***************************************************************************)
(* Proofs about the client (Session) and about client and server together  *)
(* (Scoreboard), for every instance, every set of names and every way to   *)
(* cut them.  Each step of the two together is a step of Session, so what  *)
(* is shown of the client alone holds of the composition, and each is a    *)
(* step of the Ledger of the server, or leaves it alone.                   *)
(***************************************************************************)
EXTENDS Scoreboard, FiniteSetTheorems, TLAPS

(***************************************************************************)
(* The client.  SessionInv adds to the properties what makes them          *)
(* inductive: a client that is not in guest mode has the name it was       *)
(* accepted under last or none, username is never another name than that   *)
(* or the guest's, and a game that outlives its screen was begun by        *)
(* somebody who had a name.                                                *)
(***************************************************************************)
NameAccepted == ~is_guest_mode => username = Held(accepted)
NameKnown == username \in {NoName, "Guest", Held(accepted)}
GamesPlayed == running # {} \/ moves > 0 => username # NoName

\* The parts from which the others follow.
PlayInv == TypeOK /\ PlayerKnown /\ NameAccepted /\ NameKnown /\ GamesPlayed

SessionInv == PlayInv /\ ScoresOfAccepted

LEMMA HeldIsName ==
  ASSUME NEW n \in Names PROVE Held(n) = Cut[n] /\ Cut[n] \in Names /\ Cut[n] # NoName
  BY SessionAssumption DEF Held

LEMMA HeldGuest == Held("Guest") = "Guest" /\ "Guest" # NoName
  BY SessionAssumption DEF Held

LEMMA HeldNoName == Held(NoName) = NoName
  BY SessionAssumption DEF Held

LEMMA BehindHasName ==
  ASSUME TypeOK, PlayerKnown, screen \notin Entrance PROVE username # NoName
<1>1. CASE brought
  BY <1>1 DEF PlayerKnown
<1>2. CASE ~brought
  <2>1. username = Held(player) /\ player \in Names \cup {"Guest"}
    BY <1>2 DEF PlayerKnown, TypeOK
  <2> QED
    BY <2>1, HeldIsName, HeldGuest
<1> QED
  BY <1>1, <1>2

LEMMA SessionInitInv == Init => SessionInv
<1> SUFFICES ASSUME Init PROVE SessionInv
  OBVIOUS
<1>1. TypeOK
  <2>1. moves \in 0 .. MaxMoves
    BY SessionAssumption DEF Init
  <2>2. screen \in Screens /\ accounts \subseteq Names /\ brought \in BOOLEAN
    BY DEF Init, Screens, Entrance
  <2> QED
    BY <2>1, <2>2 DEF Init, TypeOK
<1>2. PlayerKnown
  BY DEF Init, PlayerKnown, Entrance
<1>3. NameAccepted /\ NameKnown /\ GamesPlayed
  BY HeldNoName DEF Init, NameAccepted, NameKnown, GamesPlayed
<1>4. ScoresOfAccepted
  BY DEF Init, ScoresOfAccepted, Sends, Reporting, Games
<1> QED
  BY <1>1, <1>2, <1>3, <1>4 DEF SessionInv, PlayInv

\* Whoever reports has a name: Minesweeper lies behind the login screen, and the
\* games that go on without their screen were begun behind it.  So the name was
\* accepted.
LEMMA ReporterAccepted == PlayInv => ScoresOfAccepted
<1> SUFFICES ASSUME PlayInv, NEW g \in Games, Sends(g)
             PROVE  accepted # NoName /\ username = Held(accepted)
  BY DEF ScoresOfAccepted
<1>1. username = Held(accepted)
  BY DEF PlayInv, Sends, NameAccepted
<1>2. username # NoName
  <2>1. CASE running # {} \/ moves > 0
    BY <2>1 DEF PlayInv, GamesPlayed
  <2>2. CASE screen = "mine"
    BY <2>2, BehindHasName DEF PlayInv, Entrance
  <2> QED
    BY <2>1, <2>2 DEF Sends, Reporting
<1> QED
  BY <1>1, <1>2, HeldNoName

\* The screens and Breakout's timeout only: who plays stays the same behind the
\* login screen.
LEMMA GoInv ==
  ASSUME PlayInv, NEW from, NEW to, Go(from, to), to \subseteq Screens,
         from \cap Entrance = {} \/ to \subseteq Entrance
  PROVE  PlayInv'
<1>1. IF screen' = "login" THEN player' = NoName /\ brought' = FALSE
      ELSE UNCHANGED <<player, brought>>
  BY DEF Go, SeenOut
<1>2. UNCHANGED <<username, is_guest_mode, accepted, moves, accounts>>
  BY DEF Go, identity
<1>3. screen \in from /\ screen' \in to
  BY DEF Go
<1>4. running' \subseteq running \/ (running' \subseteq running \cup {"bp"} /\ screen' = "bp")
  BY DEF Go
<1>5. screen' \notin Entrance => screen \notin Entrance
  BY <1>3
<1>6. PlayerKnown'
  BY <1>1, <1>2, <1>5 DEF PlayInv, PlayerKnown, Entrance, Held
<1>7. TypeOK'
  BY <1>1, <1>2, <1>3, <1>4 DEF PlayInv, TypeOK, Timed
<1>8. GamesPlayed'
  <2>1. CASE running' \subseteq running
    BY <1>2, <2>1 DEF PlayInv, GamesPlayed
  <2>2. CASE screen' = "bp"
    BY <1>2, <1>5, <2>2, BehindHasName DEF PlayInv, GamesPlayed, Entrance
  <2> QED
    BY <1>4, <2>1, <2>2
<1> QED
  BY <1>2, <1>6, <1>7, <1>8 DEF PlayInv, NameAccepted, NameKnown, Held

LEMMA NavigateInv == ASSUME PlayInv, Navigate PROVE PlayInv'
<1>1. CASE Go({"login"}, {"signup"})
  BY <1>1, GoInv DEF Screens, Entrance
<1>2. CASE Go({"signup"}, {"login"})
  BY <1>2, GoInv DEF Screens, Entrance
<1>3. CASE Go({"menu"}, Games \cup {"scoreboard", "setting"})
  BY <1>3, GoInv DEF Screens, Entrance
<1>4. CASE Go(Games \cup {"scoreboard", "setting"}, {"menu"})
  BY <1>4, GoInv DEF Screens, Games, Entrance
<1>5. CASE Go({"menu"}, {"login"})
  BY <1>5, GoInv DEF Screens, Entrance
<1> QED
  BY <1>1, <1>2, <1>3, <1>4, <1>5 DEF Navigate

\* The handler of a 2048 key ends on whatever screen is there by then.
LEMMA MoveEndsInv == ASSUME PlayInv, MoveEnds PROVE PlayInv'
<1>1. /\ moves > 0 /\ moves' = moves - 1
      /\ UNCHANGED <<player, running, identity, accounts>>
      /\ \/ UNCHANGED <<screen, brought>>
         \/ screen' = "menu" /\ brought' = (brought \/ screen \in Entrance)
  BY DEF MoveEnds
<1>2. username # NoName /\ username \in {"Guest", Held(accepted)}
  BY <1>1 DEF PlayInv, GamesPlayed, NameKnown
<1>3. username' = username /\ Held(accepted)' = Held(accepted) /\ Held(player)' = Held(player)
  BY <1>1 DEF identity, Held
<1>4. PlayerKnown'
  <2>1. CASE UNCHANGED <<screen, brought>>
    BY <1>1, <1>3, <2>1 DEF PlayInv, PlayerKnown
  <2>2. CASE brought' = (brought \/ screen \in Entrance)
    <3>1. CASE brought'
      BY <1>2, <1>3, <3>1 DEF PlayerKnown
    <3>2. CASE ~brought'
      <4>1. ~brought /\ screen \notin Entrance
        BY <2>2, <3>2
      <4> QED
        BY <1>1, <1>3, <3>2, <4>1 DEF PlayInv, PlayerKnown
    <3> QED
      BY <3>1, <3>2
  <2> QED
    BY <1>1, <2>1, <2>2
<1>5. TypeOK'
  <2>1. moves' \in 0 .. MaxMoves
    BY <1>1, SessionAssumption DEF PlayInv, TypeOK
  <2>2. screen' \in Screens /\ brought' \in BOOLEAN
    BY <1>1 DEF PlayInv, TypeOK, Screens
  <2> QED
    BY <1>1, <2>1, <2>2 DEF PlayInv, TypeOK, identity
<1> QED
  BY <1>1, <1>2, <1>3, <1>4, <1>5
     DEF PlayInv, NameAccepted, NameKnown, GamesPlayed, identity

\* A game begins on its own screen, behind the login screen.
LEMMA GameInv == ASSUME PlayInv, Run \/ Move PROVE PlayInv'
<1>1. /\ UNCHANGED <<screen, player, brought, identity, accounts>>
      /\ running' \subseteq Timed /\ moves' \in 0 .. MaxMoves
  <2>1. CASE Run
    BY <2>1 DEF PlayInv, TypeOK, Run
  <2>2. CASE Move
    BY <2>2, SessionAssumption DEF PlayInv, TypeOK, Move
  <2> QED
    BY <2>1, <2>2
<1>2. GamesPlayed'
  <2>1. CASE screen \notin Entrance
    BY <1>1, <2>1, BehindHasName DEF PlayInv, GamesPlayed, identity
  <2>2. CASE screen \in Entrance
    <3>1. running' \subseteq running /\ moves' = moves
      BY <2>2 DEF Run, Move, Entrance, Timed
    <3> QED
      BY <1>1, <3>1 DEF PlayInv, GamesPlayed, identity
  <2> QED
    BY <2>1, <2>2
<1> QED
  BY <1>1, <1>2 DEF PlayInv, TypeOK, PlayerKnown, NameAccepted, NameKnown, identity, Held

LEMMA SessionNextInv == SessionInv /\ [Next]_session => SessionInv'
<1> SUFFICES ASSUME PlayInv, [Next]_session PROVE PlayInv'
  BY ReporterAccepted, PTL DEF SessionInv
<1>1. CASE Guest
  BY <1>1, HeldGuest
     DEF Guest, Screens, GuestMode, Held, PlayInv, TypeOK, PlayerKnown, NameAccepted, NameKnown,
         GamesPlayed, games
<1>2. CASE DeleteAccount
  BY <1>2
     DEF DeleteAccount, SeenOut, identity, games, Screens, Entrance, Held, PlayInv, TypeOK,
         PlayerKnown, NameAccepted, NameKnown, GamesPlayed
<1>3. CASE Run \/ Move
  BY <1>3, GameInv
<1>4. CASE MoveEnds
  BY <1>4, MoveEndsInv
<1>5. CASE OtherClient
  BY <1>5
     DEF OtherClient, identity, games, Held, PlayInv, TypeOK, PlayerKnown, NameAccepted,
         NameKnown, GamesPlayed
<1>6. CASE Navigate
  BY <1>6, NavigateInv
<1>7. ASSUME NEW n \in Names, Login(n) PROVE PlayInv'
  BY <1>7, HeldIsName, SessionAssumption
     DEF Login, Screens, Held, PlayInv, TypeOK, PlayerKnown, NameAccepted, NameKnown,
         GamesPlayed, games
<1>8. ASSUME NEW n \in Names, Register(n) PROVE PlayInv'
  BY <1>8, HeldIsName, SessionAssumption
     DEF Register, Screens, Entrance, AfterSignup, Unanswered, Held, PlayInv, TypeOK,
         PlayerKnown, NameAccepted, NameKnown, GamesPlayed, games
<1>9. CASE UNCHANGED session
  BY <1>9
     DEF session, identity, games, Held, PlayInv, TypeOK, PlayerKnown, NameAccepted, NameKnown,
         GamesPlayed
<1> QED
  BY <1>1, <1>2, <1>3, <1>4, <1>5, <1>6, <1>7, <1>8, <1>9 DEF Next

LEMMA SessionInvHolds == Spec => []SessionInv
  BY SessionInitInv, SessionNextInv, PTL DEF Spec

\* The screens, the names and the account lists of the client (login.c,
\* register.c, menu.c) keep their types.
THEOREM TypeCorrect == Spec => []TypeOK
  BY SessionInvHolds, PTL DEF SessionInv, PlayInv

\* Behind the login screen the client plays for who came through it, under
\* what char username[50] holds of his name, whatever was registered, deleted
\* or lost in between; where a key handler of 2048 brought the menu back after
\* the logout (2048.c:39, 269), for the guest or the account it knew last, and
\* under no empty name.
THEOREM PlayerIsKnown == Spec => []PlayerKnown
  BY SessionInvHolds, PTL DEF SessionInv, PlayInv

\* send_game_score reaches the server only under the name that the server
\* accepted last from this client, also for a game that still runs behind the
\* login screen and for the handler of a 2048 key that ends there.
THEOREM OnlyAcceptedScore == Spec => []ScoresOfAccepted
  BY SessionInvHolds, PTL DEF SessionInv

-----------------------------------------------------------------------------
(***************************************************************************)
(* Client and server.                                                      *)
(***************************************************************************)
LEMMA BoardStepSession ==
  ASSUME [BoardNext]_vars PROVE [Next]_session
<1>1. CASE FetchRanking \/ FetchBest
  BY <1>1 DEF FetchRanking, FetchBest
<1>2. CASE Play
  BY <1>2 DEF Play, Next
<1>3. CASE Leave
  BY <1>3 DEF Leave, Next
<1>4. CASE Others
  <2>1. UNCHANGED <<screen, player, brought, identity, games>>
    BY <1>4 DEF Others
  <2>2. PICK n \in Names :
          \/ Server!Register(n) \/ Server!Erase(n) \/ Server!Remove(n)
          \/ \E g \in Followed, s \in Scores : Server!Save(n, g, s)
    BY <1>4 DEF Others, Server!Next
  <2>3. accounts' \in {accounts \cup {n}, accounts \ {n}, accounts}
    BY <2>2 DEF Server!Register, Server!Erase, Server!Remove, Server!Save
  <2>4. CASE accounts' = accounts
    BY <2>1, <2>4 DEF session
  <2> QED
    BY <2>1, <2>3, <2>4 DEF OtherClient, Next
<1>5. CASE \E n \in Names : SignUp(n)
  BY <1>5 DEF SignUp, Next
<1>6. CASE \E g \in Followed, s \in Scores : Report(g, s)
  BY <1>6 DEF Report
<1>7. CASE UNCHANGED vars
  BY <1>7 DEF vars
<1> QED
  BY <1>1, <1>2, <1>3, <1>4, <1>5, <1>6, <1>7 DEF BoardNext

\* The client of the composition is the client of Session (login.c,
\* register.c, setting.c, menu.c): other clients, the server and the
\* scoreboard do to it nothing that Session leaves out.
THEOREM BoardImplementsSession == BoardSpec => Spec
<1>1. BoardInit => Init
  BY DEF BoardInit
<1> QED
  BY <1>1, BoardStepSession, PTL DEF BoardSpec, Spec

\* The steps of the client that the server does not hear of.
LEMMA PlayKeepsAccounts ==
  ASSUME Play PROVE UNCHANGED <<accounts, records>>
<1>1. CASE Guest \/ Run \/ Move \/ MoveEnds \/ \E n \in Names : Login(n)
  BY <1>1 DEF Play, Guest, Run, Move, MoveEnds, Login
<1>2. CASE Navigate
  BY <1>2 DEF Play, Navigate, Go
<1> QED
  BY <1>1, <1>2 DEF Play

\* Rows belong to names that accounts can have.
RowsNamed == \A row \in records : row.name \in Names

\* Both DELETEs, or the first only.  A guest deletes nothing.
LEMMA LeaveOfLedger ==
  ASSUME TypeOK, RowsNamed, Leave PROVE [Server!Next]_<<accounts, records>>
<1> DEFINE left == records \ Server!RecordsOf(username)
<1>1. records' = left \/ (records' = records /\ accounts' = accounts)
  BY DEF Leave
<1>2. accounts' \in {accounts, accounts \ {username}}
  BY DEF Leave, DeleteAccount
<1>3. CASE records' = records /\ accounts' = accounts
  BY <1>3
<1>4. CASE username \notin Names
  <2>1. Server!RecordsOf(username) = {}
    BY <1>4 DEF RowsNamed, Server!RecordsOf
  <2>2. accounts \ {username} = accounts
    BY <1>4 DEF TypeOK
  <2> QED
    BY <1>1, <1>2, <2>1, <2>2
<1>5. CASE username \in Names /\ records' = left /\ accounts' = accounts
  BY <1>5 DEF Server!Next, Server!Erase
<1>6. CASE username \in Names /\ records' = left /\ accounts' = accounts \ {username}
  <2>1. Server!Remove(username)
    BY <1>6 DEF Server!Remove
  <2> QED
    BY <1>6, <2>1 DEF Server!Next
<1> QED
  BY <1>1, <1>2, <1>3, <1>4, <1>5, <1>6

LEMMA BoardStepLedger ==
  ASSUME TypeOK, RowsNamed, [BoardNext]_vars PROVE [Server!Next]_<<accounts, records>>
<1>1. CASE FetchRanking \/ FetchBest
  BY <1>1 DEF FetchRanking, FetchBest, session
<1>2. CASE Play
  BY <1>2, PlayKeepsAccounts
<1>3. CASE Leave
  BY <1>3, LeaveOfLedger
<1>4. CASE Others
  BY <1>4 DEF Others
<1>5. CASE \E n \in Names : SignUp(n)
  BY <1>5 DEF SignUp, Server!Next
<1>6. ASSUME NEW g \in Followed, NEW s \in Scores, Report(g, s)
      PROVE  Server!Next
  <2>1. username \in Names
    BY <1>6 DEF Report, TypeOK
  <2> QED
    BY <1>6, <2>1 DEF Report, Server!Next
<1>7. CASE UNCHANGED vars
  BY <1>7 DEF vars, session
<1> QED
  BY <1>1, <1>2, <1>3, <1>4, <1>5, <1>6, <1>7 DEF BoardNext

LEMMA LedgerStepNamed ==
  ASSUME RowsNamed, [Server!Next]_<<accounts, records>> PROVE RowsNamed'
<1>1. CASE UNCHANGED <<accounts, records>>
  BY <1>1 DEF RowsNamed
<1>2. ASSUME NEW n \in Names,
             \/ Server!Register(n) \/ Server!Erase(n) \/ Server!Remove(n)
             \/ \E g \in Followed, s \in Scores : Server!Save(n, g, s)
      PROVE  RowsNamed'
  <2>1. \A row \in records' : row \in records \/ row.name = n
    BY <1>2 DEF Server!Register, Server!Erase, Server!Remove, Server!Save, Server!Row
  <2> QED
    BY <2>1 DEF RowsNamed
<1> QED
  BY <1>1, <1>2 DEF Server!Next

\* What the client does to the accounts and scores, and what other clients do
\* to them between its requests, are operations that the server offers.
THEOREM BoardImplementsLedger == BoardSpec => Server!Spec
<1>1. BoardInit => Server!Init /\ RowsNamed
  BY DEF BoardInit, Server!Init, RowsNamed
<1>2. BoardSpec => []TypeOK
  BY BoardImplementsSession, TypeCorrect, PTL
<1>3. TypeOK /\ RowsNamed /\ [BoardNext]_vars => RowsNamed' /\ [Server!Next]_<<accounts, records>>
  BY BoardStepLedger, LedgerStepNamed
<1> QED
  BY <1>1, <1>2, <1>3, PTL DEF BoardSpec, Server!Spec

\* Behind the login screen the client knows its player, or, brought back by a
\* key handler of 2048, the one it knew last, whatever other clients and the
\* server do (login.c, register.c, setting.c, 2048.c).
THEOREM BoardPlayerKnown == BoardSpec => []PlayerKnown
  BY BoardImplementsSession, PlayerIsKnown, PTL

\* Under no interleaving with other clients is a score sent for anyone but who
\* was accepted last (send_game_score of menu.c).
THEOREM BoardScoresOfAccepted == BoardSpec => []ScoresOfAccepted
  BY BoardImplementsSession, OnlyAcceptedScore, PTL

-----------------------------------------------------------------------------
(***************************************************************************)
(* The grid.  What a label shows stays true of the rows because no save    *)
(* makes a row worse and an erased row leaves its name in erased; an       *)
(* answer is true of the rows it is read from.  Inductive is this together *)
(* with the keys of the table and that the rows are finitely many.         *)
(***************************************************************************)

RowsTyped ==
  /\ records \subseteq [name : Names, game : Games \cup {"breakout"}, high : Scores \cup {0}]
  /\ IsFiniteSet(records)
  /\ \A row \in ScoredRows : row.game \in Games
  /\ WellFormed

ErasedTyped == erased \subseteq Names /\ IsFiniteSet(erased)

GridTyped ==
  /\ cell \in [Games -> [1 .. Ranks -> Entries]]
  /\ best \in [Games -> Scores \cup {0}]
  /\ refreshing \in BOOLEAN
  /\ viewer \in Names \cup {NoName, "Guest"}

BoardInv ==
  /\ TypeOK /\ RowsTyped /\ ErasedTyped /\ GridTyped
  /\ ShownWasReached /\ RanksNotTooLow /\ BestNotBehindGrid

\* The names that a score of a game has beside it.
Reached(c, score) == erased \cup {row.name : row \in Beside(c, score)}

LEMMA AsGoodOrder ==
  ASSUME NEW g, NEW a \in Nat, NEW b \in Nat, NEW d \in Nat
  PROVE  /\ Server!AsGood(g, a, a)
         /\ Server!AsGood(g, a, b) /\ Server!AsGood(g, b, d) => Server!AsGood(g, a, d)
         /\ Better(g, a, b) => Server!AsGood(g, a, b) /\ a # b
BY DEF Server!AsGood, Better

LEMMA InitialRowsFinite ==
  ASSUME NEW n PROVE IsFiniteSet({Server!Row(n, g, 0) : g \in Followed \cap {"2048", "mine", "breakout"}})
<1> DEFINE all == {Server!Row(n, "2048", 0), Server!Row(n, "mine", 0), Server!Row(n, "breakout", 0)}
           some == {Server!Row(n, g, 0) : g \in Followed \cap {"2048", "mine", "breakout"}}
<1>1. IsFiniteSet(all)
  <2>1. IsFiniteSet({Server!Row(n, "2048", 0)})
    BY FS_Singleton
  <2>2. IsFiniteSet({Server!Row(n, "2048", 0)} \cup {Server!Row(n, "mine", 0)})
    BY <2>1, FS_AddElement
  <2>3. IsFiniteSet({Server!Row(n, "2048", 0)} \cup {Server!Row(n, "mine", 0)}
                      \cup {Server!Row(n, "breakout", 0)})
    BY <2>2, FS_AddElement
  <2>4. all = {Server!Row(n, "2048", 0)} \cup {Server!Row(n, "mine", 0)}
                \cup {Server!Row(n, "breakout", 0)}
    OBVIOUS
  <2> QED
    BY <2>3, <2>4
<1>2. some \in SUBSET all
  OBVIOUS
<1> HIDE DEF all, some
<1>3. IsFiniteSet(some)
  BY <1>1, <1>2, FS_Subset
<1> QED
  BY <1>3 DEF some

\* What an operation of the server leaves of the rows.
LEMMA LedgerStepRows ==
  ASSUME RowsTyped, [Server!Next]_<<accounts, records>>, WellFormed'
  PROVE  /\ records' \subseteq [name : Names, game : Games \cup {"breakout"}, high : Scores \cup {0}]
         /\ IsFiniteSet(records')
         /\ \A row \in records : \/ row \in records'
                                 \/ \A r \in records' : r.name # row.name
                                 \/ \E r \in records' : /\ r.name = row.name /\ r.game = row.game
                                                        /\ Server!AsGood(r.game, r.high, row.high)
                                                        /\ r.high \in Scores
<1> USE DEF RowsTyped
<1>1. CASE UNCHANGED <<accounts, records>>
  BY <1>1
<1>2. ASSUME NEW n \in Names, Server!Register(n)
      PROVE  /\ records' \subseteq [name : Names, game : Games \cup {"breakout"},
                                     high : Scores \cup {0}]
             /\ IsFiniteSet(records') /\ records \subseteq records'
  <2> DEFINE new == {Server!Row(n, g, 0) : g \in Followed \cap {"2048", "mine", "breakout"}}
  <2>1. records' = records \cup new
    BY <1>2 DEF Server!Register
  <2>2. new \subseteq [name : Names, game : Games \cup {"breakout"}, high : Scores \cup {0}]
    BY ScoreboardAssumption DEF Server!Row
  <2>3. IsFiniteSet(new)
    BY InitialRowsFinite
  <2> HIDE DEF new
  <2>4. IsFiniteSet(records')
    BY <2>1, <2>3, FS_Union
  <2> QED
    BY <2>1, <2>2, <2>4
<1>3. ASSUME NEW n \in Names, NEW g \in Followed, NEW s \in Scores, Server!Save(n, g, s)
      PROVE  /\ records' \subseteq [name : Names, game : Games \cup {"breakout"},
                                     high : Scores \cup {0}]
             /\ IsFiniteSet(records')
             /\ \A row \in records :
                  \/ row \in records'
                  \/ \E r \in records' : /\ r.name = row.name /\ r.game = row.game
                                         /\ Server!AsGood(r.game, r.high, row.high)
                                         /\ r.high \in Scores
  <2>1. PICK worse \in SUBSET {row \in Server!RecordsOf(n) :
                                  row.game = g /\ Server!AsGood(g, s, row.high)} :
               records' = (records \ worse) \cup {Server!Row(n, g, s)}
    BY <1>3 DEF Server!Save
  <2>2. /\ Server!Row(n, g, s).name = n /\ Server!Row(n, g, s).game = g
        /\ Server!Row(n, g, s).high = s
        /\ Server!Row(n, g, s) \in [name : Names, game : Games \cup {"breakout"},
                                    high : Scores \cup {0}]
    BY ScoreboardAssumption DEF Server!Row
  <2>3. \A row \in worse : row.name = n /\ row.game = g /\ Server!AsGood(g, s, row.high)
    BY <2>1 DEF Server!RecordsOf
  <2>4. IsFiniteSet(records')
    <3>1. IsFiniteSet(records \ worse)
      BY FS_Subset
    <3> QED
      BY <2>1, <3>1, FS_AddElement
  <2> QED
    BY <2>1, <2>2, <2>3, <2>4
<1>4. ASSUME NEW n \in Names, Server!Erase(n) \/ Server!Remove(n)
      PROVE  /\ records' \subseteq records /\ IsFiniteSet(records')
             /\ \A row \in records \ records' : \A r \in records' : r.name # row.name
  <2>1. records' \subseteq records /\ \A row \in records \ records' : row.name = n
    BY <1>4 DEF Server!Erase, Server!Remove, Server!RecordsOf
  <2>2. \/ \A r \in records' : r.name # n
        \/ records' = records
    <3>1. CASE Server!Erase(n)
      BY <3>1 DEF Server!Erase, Server!RecordsOf
    <3>2. CASE Server!Remove(n)
      <4>1. n \notin accounts'
        BY <3>2 DEF Server!Remove
      <4> QED
        BY <4>1 DEF WellFormed
    <3> QED
      BY <1>4, <3>1, <3>2
  <2>3. IsFiniteSet(records')
    BY <2>1, FS_Subset
  <2> QED
    BY <2>1, <2>2, <2>3
<1> QED
  BY <1>1, <1>2, <1>3, <1>4 DEF Server!Next

\* The rows keep the keys of their table and their games whatever happens.
LEMMA RowsTypedStep ==
  ASSUME TypeOK, RowsTyped, [BoardNext]_vars PROVE RowsTyped'
<1> USE DEF RowsTyped
<1>1. RowsNamed
  BY DEF RowsNamed
<1>2. WellFormed'
  <2>1. CASE FetchRanking \/ FetchBest \/ UNCHANGED vars
    BY <2>1 DEF FetchRanking, FetchBest, vars, session, WellFormed
  <2>2. CASE Play
    BY <2>2, PlayKeepsAccounts DEF WellFormed
  <2>3. CASE Leave
    <3>1. /\ accounts' \in {accounts, accounts \ {username}}
          /\ records' \subseteq records
          /\ accounts' # accounts => records' = records \ Server!RecordsOf(username)
      BY <2>3 DEF Leave, DeleteAccount
    <3>2. \A row \in records' : row.name \in accounts'
      <4>1. CASE accounts' = accounts
        BY <3>1, <4>1 DEF WellFormed
      <4>2. CASE accounts' # accounts
        <5>1. \A row \in records' : row.name # username
          BY <3>1, <4>2 DEF Server!RecordsOf
        <5> QED
          BY <3>1, <4>2, <5>1 DEF WellFormed
      <4> QED
        BY <4>1, <4>2
    <3> QED
      BY <3>1, <3>2 DEF WellFormed
  <2>4. CASE Others \/ \E g \in Followed, s \in Scores : Report(g, s)
    BY <2>4 DEF Others, Report
  <2>5. ASSUME NEW n \in Names, SignUp(n) PROVE WellFormed'
    <3> DEFINE new == {Server!Row(n, g, 0) : g \in Followed \cap {"2048", "mine", "breakout"}}
    <3>1. records' = records \cup new /\ accounts' = accounts \cup {n} /\ n \notin accounts
      BY <2>5 DEF SignUp, Server!Register
    <3>2. \A row \in new : row.name = n
      BY DEF Server!Row
    <3>3. \A a, b \in new : a.game = b.game => a = b
      BY DEF Server!Row
    <3>4. \A row \in records : row.name # n
      BY <3>1 DEF WellFormed
    <3> HIDE DEF new
    <3> QED
      BY <3>1, <3>2, <3>3, <3>4 DEF WellFormed
  <2> QED
    BY <2>1, <2>2, <2>3, <2>4, <2>5 DEF BoardNext
<1>3. \A row \in records' : row \notin records /\ row.high > 0 => row.game \in Games
  <2>1. CASE FetchRanking \/ FetchBest \/ Play \/ UNCHANGED vars
    BY <2>1, PlayKeepsAccounts DEF FetchRanking, FetchBest, vars
  <2>2. CASE Leave
    BY <2>2 DEF Leave
  <2>3. CASE Others
    BY <2>3 DEF Others
  <2>4. ASSUME NEW n \in Names, SignUp(n), NEW row \in records', row \notin records
        PROVE  ~(row.high > 0)
    BY <2>4 DEF SignUp, Server!Register, Server!Row
  <2>5. ASSUME NEW g \in Followed, NEW s \in Scores, Report(g, s),
               NEW row \in records', row \notin records
        PROVE  row.game \in Games
    <3>1. row = Server!Row(username, g, s)
      BY <2>5 DEF Report, Server!Save
    <3>2. row.game = g
      BY <3>1 DEF Server!Row
    <3>3. g \in Games
      <4>1. g \in Games \cup {"breakout"}
        BY ScoreboardAssumption
      <4>2. g # "breakout"
        BY <2>5 DEF Report, Sends, Reporting, TypeOK, Timed
      <4> QED
        BY <4>1, <4>2
    <3> QED
      BY <3>2, <3>3
  <2> QED
    BY <2>1, <2>2, <2>3, <2>4, <2>5 DEF BoardNext
<1>4. [Server!Next]_<<accounts, records>>
  BY <1>1, BoardStepLedger
<1>5. \A row \in ScoredRows' : row.game \in Games
  BY <1>3 DEF ScoredRows
<1> QED
  BY <1>2, <1>4, <1>5, LedgerStepRows

LEMMA ErasedStep ==
  ASSUME RowsTyped, ErasedTyped, [BoardNext]_vars
  PROVE  ErasedTyped' /\ erased \subseteq erased'
<1> DEFINE names == {row.name : row \in ScoredRows}
<1>1. erased' \subseteq erased \cup names /\ erased \subseteq erased'
  BY DEF BoardNext, vars
<1>2. IsFiniteSet(names)
  <2>1. IsFiniteSet(ScoredRows)
    BY FS_Subset DEF RowsTyped, ScoredRows
  <2> DEFINE f == [row \in ScoredRows |-> row.name]
  <2>2. f \in Surjection(ScoredRows, names)
    BY DEF Surjection
  <2> HIDE DEF names, f
  <2> QED
    BY <2>1, <2>2, FS_Surjection
<1>3. names \subseteq Names
  BY DEF RowsTyped, ScoredRows
<1> HIDE DEF names
<1>4. IsFiniteSet(erased \cup names)
  BY <1>2, FS_Union DEF ErasedTyped
<1> QED
  BY <1>1, <1>3, <1>4, FS_Subset DEF ErasedTyped

LEMMA NamesFinite ==
  ASSUME NEW rows, NEW gone, IsFiniteSet(rows), IsFiniteSet(gone)
  PROVE  LET all == gone \cup {row.name : row \in rows}
         IN  IsFiniteSet(all) /\ Cardinality(all) \in Nat
<1> DEFINE names == {row.name : row \in rows}
           f == [row \in rows |-> row.name]
<1>1. f \in Surjection(rows, names)
  BY DEF Surjection
<1>2. gone \cup {row.name : row \in rows} = gone \cup names
  OBVIOUS
<1> HIDE DEF names, f
<1>3. IsFiniteSet(names)
  BY <1>1, FS_Surjection
<1> QED
  BY <1>2, <1>3, FS_Union, FS_CardinalityType

LEMMA ReachedFinite ==
  ASSUME RowsTyped, ErasedTyped, NEW c, NEW score
  PROVE  IsFiniteSet(Reached(c, score)) /\ Cardinality(Reached(c, score)) \in Nat
<1>1. IsFiniteSet(Beside(c, score))
  BY FS_Subset DEF RowsTyped, Beside
<1> QED
  BY <1>1, NamesFinite DEF Reached, ErasedTyped

\* No step takes a name away from beside a score.
LEMMA ReachedGrows ==
  ASSUME TypeOK, RowsTyped, [BoardNext]_vars, NEW c, NEW score \in Scores
  PROVE  Reached(c, score) \subseteq Reached(c, score)'
<1>1. RowsTyped' /\ RowsNamed
  BY RowsTypedStep DEF RowsTyped, RowsNamed
<1>2. [Server!Next]_<<accounts, records>>
  BY <1>1, BoardStepLedger
<1>3. \A row \in records : \/ row \in records'
                           \/ \A r \in records' : r.name # row.name
                           \/ \E r \in records' : /\ r.name = row.name /\ r.game = row.game
                                                  /\ Server!AsGood(r.game, r.high, row.high)
                                                  /\ r.high \in Scores
  BY <1>1, <1>2, LedgerStepRows DEF RowsTyped
<1>4. erased \subseteq erased'
  BY DEF BoardNext, vars
<1> SUFFICES ASSUME NEW row \in Beside(c, score)
             PROVE  row.name \in Reached(c, score)'
  BY <1>4 DEF Reached
<1>5. row \in records /\ row.game = c /\ row.high > 0 /\ Server!AsGood(c, row.high, score)
  BY DEF Beside
<1>6. CASE row \in records'
  BY <1>5, <1>6 DEF Reached, Beside
<1>7. CASE \A r \in records' : r.name # row.name
  <2>1. row \in ScoredRows
    BY <1>5 DEF ScoredRows
  <2>2. ~UNCHANGED vars
    BY <1>5, <1>7 DEF vars
  <2>3. row.name \in erased'
    BY <1>7, <2>1, <2>2 DEF BoardNext
  <2> QED
    BY <2>3 DEF Reached
<1>8. CASE \E r \in records' : /\ r.name = row.name /\ r.game = row.game
                               /\ Server!AsGood(r.game, r.high, row.high)
                               /\ r.high \in Scores
  <2>1. PICK r \in records' : /\ r.name = row.name /\ r.game = row.game
                              /\ Server!AsGood(r.game, r.high, row.high)
                              /\ r.high \in Scores
    BY <1>8
  <2>2. r.high \in Nat \ {0} /\ row.high \in Nat /\ score \in Nat
    <3>1. Scores \subseteq Nat \ {0} /\ Scores \cup {0} \subseteq Nat
      BY ScoreboardAssumption
    <3>2. row.high \in Scores \cup {0}
      BY <1>5 DEF RowsTyped
    <3> QED
      BY <2>1, <3>1, <3>2
  <2>3. Server!AsGood(c, r.high, score) /\ r.high > 0
    BY <1>5, <2>1, <2>2 DEF Server!AsGood
  <2>4. r \in Beside(c, score)'
    BY <1>5, <2>1, <2>3 DEF Beside
  <2> QED
    BY <2>1, <2>4 DEF Reached
<1> QED
  BY <1>3, <1>5, <1>6, <1>7, <1>8

LEMMA LabelsStayTrue ==
  ASSUME BoardInv, [BoardNext]_vars, UNCHANGED cell
  PROVE  ShownWasReached' /\ RanksNotTooLow'
<1> USE DEF BoardInv
<1>1. RowsTyped' /\ ErasedTyped'
  BY RowsTypedStep, ErasedStep
<1> SUFFICES ASSUME NEW c \in Games, NEW k \in 1 .. Ranks, cell[c][k] # Blank
             PROVE  /\ cell[c][k].name \in Reached(c, cell[c][k].high)'
                    /\ Cardinality(Reached(c, cell[c][k].high)') >= k
  BY DEF ShownWasReached, RanksNotTooLow, Reached
<1>2. PICK e : e = cell[c][k]
  OBVIOUS
<1>3. e \in [name : Names, high : Scores]
  BY <1>2 DEF GridTyped, Entries
<1>4. e.name \in Reached(c, e.high) /\ Cardinality(Reached(c, e.high)) >= k
  BY <1>2 DEF ShownWasReached, RanksNotTooLow, Reached
<1>5. Reached(c, e.high) \subseteq Reached(c, e.high)'
  BY <1>3, ReachedGrows
<1>6. Cardinality(Reached(c, e.high)') >= k
  <2> DEFINE S == Reached(c, e.high)
             T == Reached(c, e.high)'
  <2>1. Cardinality(S) \in Nat
    BY ReachedFinite
  <2>2. IsFiniteSet(T) /\ Cardinality(T) \in Nat
    <3>1. IsFiniteSet(Beside(c, e.high)')
      BY <1>1, FS_Subset DEF RowsTyped, Beside
    <3> QED
      BY <1>1, <3>1, NamesFinite DEF Reached, ErasedTyped
  <2> HIDE DEF S, T
  <2>3. Cardinality(S) <= Cardinality(T)
    BY <1>5, <2>2, FS_Subset DEF S, T
  <2>4. Cardinality(S) >= k
    BY <1>4 DEF S
  <2>5. Cardinality(T) >= k
    BY <2>1, <2>2, <2>3, <2>4
  <2> QED
    BY <2>5 DEF T
<1> QED
  BY <1>2, <1>4, <1>6, <1>5

\* The row at a rank of the answer has as many names beside it as are ranked
\* before it, and its own: one row for a name and game.
LEMMA RankedIsReached ==
  ASSUME BoardInv, NEW c \in Games, NEW k \in 1 .. Ranks, NEW row \in Ranked(c, k)
  PROVE  /\ row.name \in Names /\ row.high \in Scores
         /\ row.name \in Reached(c, row.high)
         /\ Cardinality(Reached(c, row.high)) >= k
<1> USE DEF BoardInv, RowsTyped
<1> DEFINE before == {r \in ScoredRows : r.game = row.game /\ Better(row.game, r.high, row.high)}
           ranked == before \cup {row}
           f == [r \in ranked |-> r.name]
<1>1. row \in records /\ row.high > 0 /\ row.game = c /\ 1 + Cardinality(before) = k
  BY DEF Ranked, ScoredRows, Column, Rank
<1>2. Scores \cup {0} \subseteq Nat
  BY ScoreboardAssumption
<1>3. \A r \in records : r.high \in Scores \cup {0} /\ r.name \in Names
  OBVIOUS
<1>4. row.high \in Scores
  BY <1>1, <1>3
<1>5. \A r \in records : r.high \in Nat
  BY <1>2, <1>3
<1>6. ranked \subseteq Beside(c, row.high)
  BY <1>1, <1>5 DEF ScoredRows, Beside, Server!AsGood, Better
<1>7. row \notin before
  BY <1>1, <1>5 DEF Better
<1>8. IsFiniteSet(before) /\ Cardinality(before) \in Nat
  BY FS_Subset, FS_CardinalityType DEF ScoredRows
<1> HIDE DEF before
<1>9. IsFiniteSet(ranked) /\ Cardinality(ranked) = k
  <2>1. Cardinality(ranked) = Cardinality(before) + 1
    BY <1>7, <1>8, FS_AddElement
  <2> QED
    BY <1>1, <1>8, <2>1, FS_AddElement
<1>10. f \in Injection(ranked, Reached(c, row.high))
  <2>1. f \in [ranked -> Reached(c, row.high)]
    BY <1>6 DEF Reached
  <2>2. \A a, b \in ranked : a.name = b.name => a = b
    BY <1>6 DEF Beside, WellFormed
  <2> QED
    BY <2>1, <2>2 DEF Injection, IsInjective
<1>11. row.name \in Reached(c, row.high)
  BY <1>6 DEF Reached
<1>12. IsFiniteSet(Reached(c, row.high))
  BY ReachedFinite
<1> HIDE DEF ranked, f
<1>13. Cardinality(ranked) <= Cardinality(Reached(c, row.high))
  BY <1>10, <1>12, FS_Injection
<1>14. Cardinality(Reached(c, row.high)) \in Nat
  BY ReachedFinite
<1> QED
  BY <1>1, <1>3, <1>4, <1>9, <1>11, <1>13, <1>14

LEMMA AnswerTrue ==
  ASSUME BoardInv, NEW shown \in Answers, NEW c \in Games, NEW k \in 1 .. Ranks,
         <<c, k>> \in Places
  PROVE  shown[<<c, k>>] \in Ranked(c, k) /\ shown[<<c, k>>] \in ScoredRows
BY DEF Answers, LastOf

\* A label that an answer has written, or left.
LEMMA WrittenLabel ==
  ASSUME BoardInv, NEW shown \in Answers, NEW c \in Games, NEW k \in 1 .. Ranks
  PROVE  LET e == Written(shown)[c][k]
         IN /\ e \in Entries
            /\ e # Blank => /\ e.name \in Reached(c, e.high)
                            /\ Cardinality(Reached(c, e.high)) >= k
<1>1. CASE <<c, k>> \in Places
  <2> DEFINE row == shown[<<c, k>>]
  <2>1. Written(shown)[c][k] = Entry(row)
    BY <1>1 DEF Written
  <2>2. row \in Ranked(c, k)
    BY <1>1, AnswerTrue
  <2>3. /\ row.name \in Names /\ row.high \in Scores
        /\ row.name \in Reached(c, row.high)
        /\ Cardinality(Reached(c, row.high)) >= k
    BY <2>2, RankedIsReached
  <2>4. Entry(row).name = row.name /\ Entry(row).high = row.high
    BY DEF Entry
  <2>5. Entry(row) \in Entries
    BY <2>3 DEF Entry, Entries
  <2> HIDE DEF row
  <2> QED
    BY <2>1, <2>3, <2>4, <2>5
<1>2. CASE <<c, k>> \notin Places
  <2>1. Written(shown)[c][k] = cell[c][k]
    BY <1>2 DEF Written
  <2> QED
    BY <2>1 DEF BoardInv, GridTyped, ShownWasReached, RanksNotTooLow, Reached
<1> QED
  BY <1>1, <1>2

\* The steps that leave the grid.
LEMMA OtherSteps ==
  ASSUME [BoardNext]_vars, ~FetchRanking, ~FetchBest
  PROVE  UNCHANGED grid
<1>1. Play \/ Leave => UNCHANGED grid
  BY DEF Play, Leave
<1>2. Others => UNCHANGED grid
  BY DEF Others
<1>3. \A n \in Names : SignUp(n) => UNCHANGED grid
  BY DEF SignUp
<1>4. \A g \in Followed, s \in Scores : Report(g, s) => UNCHANGED grid
  BY DEF Report
<1> QED
  BY <1>1, <1>2, <1>3, <1>4 DEF BoardNext, vars

\* The best score of a player who has a row in the game of the column is that
\* row's.
LEMMA OwnBestOfRow ==
  ASSUME RowsTyped, NEW c \in Games, NEW row \in records,
         row.game = c, row.high > 0, row.name = username
  PROVE  OwnBest(c) = row.high
<1> DEFINE own == LastOf(Own(c), c)
           chosen == CHOOSE r \in own : TRUE
<1>1. row \in Own(c)
  BY DEF Own, ScoredRows, Column
<1>2. row \in own
  BY <1>1 DEF LastOf
<1>3. chosen \in own
  BY <1>2
<1>4. chosen \in records /\ chosen.name = username /\ chosen.game = c
  BY <1>1, <1>3 DEF LastOf, Own, ScoredRows
<1>5. chosen = row
  BY <1>4 DEF RowsTyped, WellFormed
<1> QED
  BY <1>1, <1>5 DEF OwnBest

LEMMA OwnBestType ==
  ASSUME RowsTyped, GridTyped, NEW c \in Games PROVE OwnBest(c) \in Scores \cup {0}
<1> DEFINE own == LastOf(Own(c), c)
           chosen == CHOOSE r \in own : TRUE
<1>1. CASE Own(c) = {}
  BY <1>1 DEF OwnBest, GridTyped
<1>2. CASE Own(c) # {}
  <2>1. own # {}
    BY <1>2 DEF LastOf
  <2>2. chosen \in own
    BY <2>1
  <2>3. chosen \in records
    BY <2>2 DEF LastOf, Own, ScoredRows
  <2> QED
    BY <1>2, <2>3 DEF OwnBest, RowsTyped
<1> QED
  BY <1>1, <1>2

LEMMA FetchRankingInv ==
  ASSUME BoardInv, [BoardNext]_vars, FetchRanking
  PROVE  (GridTyped /\ ShownWasReached /\ RanksNotTooLow /\ BestNotBehindGrid)'
<1> USE DEF BoardInv
<1>1. best' = best /\ refreshing' = TRUE /\ UNCHANGED records
  BY DEF FetchRanking
<1>2. CASE UNCHANGED <<cell, viewer>>
  <2>1. BestNotBehindGrid'
    BY <1>1, <1>2, ErasedStep DEF BestNotBehindGrid
  <2>2. GridTyped'
    BY <1>1, <1>2 DEF GridTyped
  <2> QED
    BY <1>2, <2>1, <2>2, LabelsStayTrue
<1>3. ASSUME NEW shown \in Answers, cell' = Written(shown), viewer' = NoName
      PROVE  (GridTyped /\ ShownWasReached /\ RanksNotTooLow /\ BestNotBehindGrid)'
  <2>1. \A c \in Games, k \in 1 .. Ranks :
          LET e == cell'[c][k]
          IN /\ e \in Entries
             /\ e # Blank => /\ e.name \in Reached(c, e.high)
                             /\ Cardinality(Reached(c, e.high)) >= k
    BY <1>3, WrittenLabel
  <2>2. cell' \in [Games -> [1 .. Ranks -> Entries]]
    <3>1. cell' = [c \in Games |-> [k \in 1 .. Ranks |-> cell'[c][k]]]
      BY <1>3 DEF Written
    <3> QED
      BY <2>1, <3>1
  <2>3. GridTyped'
    BY <1>1, <1>3, <2>2 DEF GridTyped
  <2>4. \A c \in Games, s \in Scores : Reached(c, s) \subseteq Reached(c, s)'
    BY ReachedGrows
  <2>5. ASSUME NEW c \in Games, NEW k \in 1 .. Ranks, cell'[c][k] # Blank
        PROVE  /\ cell'[c][k].name \in Reached(c, cell[c][k].high)'
               /\ Cardinality(Reached(c, cell[c][k].high)') >= k
    <3>1. PICK e : e = cell'[c][k]
      OBVIOUS
    <3>2. /\ e \in [name : Names, high : Scores]
          /\ e.name \in Reached(c, e.high) /\ Cardinality(Reached(c, e.high)) >= k
      BY <2>1, <2>5, <3>1 DEF Entries
    <3> DEFINE S == Reached(c, e.high)
               T == Reached(c, e.high)'
    <3>3. S \subseteq T
      BY <2>4, <3>2
    <3>4. IsFiniteSet(T) /\ Cardinality(T) \in Nat
      <4>1. RowsTyped' /\ ErasedTyped'
        BY RowsTypedStep, ErasedStep
      <4>2. IsFiniteSet(Beside(c, e.high)')
        BY <4>1, FS_Subset DEF RowsTyped, Beside
      <4> QED
        BY <4>1, <4>2, NamesFinite DEF Reached, ErasedTyped
    <3>5. Cardinality(S) \in Nat
      BY ReachedFinite
    <3>6. Cardinality(S) >= k /\ e.name \in S
      BY <3>2
    <3> HIDE DEF S, T
    <3>7. Cardinality(S) <= Cardinality(T)
      BY <3>3, <3>4, FS_Subset
    <3>8. Cardinality(T) >= k /\ e.name \in T
      BY <3>3, <3>4, <3>5, <3>6, <3>7
    <3> QED
      BY <3>1, <3>8 DEF T, Reached, Beside
  <2>6. ShownWasReached' /\ RanksNotTooLow'
    BY <2>5 DEF ShownWasReached, RanksNotTooLow, Reached
  <2>7. BestNotBehindGrid'
    BY <1>3 DEF BestNotBehindGrid
  <2> QED
    BY <2>3, <2>6, <2>7
<1> QED
  BY <1>2, <1>3 DEF FetchRanking

LEMMA FetchBestInv ==
  ASSUME BoardInv, [BoardNext]_vars, FetchBest
  PROVE  (GridTyped /\ BestNotBehindGrid)'
<1> USE DEF BoardInv
<1>1. UNCHANGED <<session, records, cell>> /\ refreshing' = FALSE
  BY DEF FetchBest
<1>2. erased \subseteq erased'
  BY ErasedStep
<1>3. CASE UNCHANGED <<best, viewer>>
  BY <1>1, <1>2, <1>3 DEF GridTyped, BestNotBehindGrid
<1>4. CASE best' = [c \in Games |-> OwnBest(c)] /\ viewer' = username
  <2>1. GridTyped'
    BY <1>1, <1>4, OwnBestType DEF GridTyped, TypeOK
  <2>2. ASSUME NEW c \in Games, NEW k \in 1 .. Ranks,
               viewer' \notin erased', cell'[c][k].name = viewer', viewer' # NoName
        PROVE  Server!AsGood(c, best'[c], cell'[c][k].high)
    <3>1. cell[c][k] # Blank /\ cell[c][k].name = username /\ username \notin erased
      BY <1>1, <1>2, <1>4, <2>2 DEF Blank
    <3>2. PICK row \in Beside(c, cell[c][k].high) : row.name = username
      BY <3>1 DEF ShownWasReached
    <3>3. /\ row \in records /\ row.game = c /\ row.high > 0
          /\ Server!AsGood(c, row.high, cell[c][k].high)
      BY <3>2 DEF Beside
    <3>4. OwnBest(c) = row.high
      BY <3>2, <3>3, OwnBestOfRow
    <3> QED
      BY <1>1, <1>4, <3>3, <3>4 DEF Server!AsGood
  <2> QED
    BY <2>1, <2>2 DEF BestNotBehindGrid
<1> QED
  BY <1>3, <1>4 DEF FetchBest

LEMMA BoardStep ==
  ASSUME BoardInv, TypeOK', [BoardNext]_vars PROVE BoardInv'
<1> USE DEF BoardInv
<1>1. RowsTyped' /\ ErasedTyped' /\ erased \subseteq erased'
  BY RowsTypedStep, ErasedStep
<1>2. CASE FetchRanking
  BY <1>1, <1>2, FetchRankingInv
<1>3. CASE FetchBest
  <2>1. cell' = cell
    BY <1>3 DEF FetchBest
  <2> QED
    BY <1>1, <1>3, <2>1, FetchBestInv, LabelsStayTrue
<1>4. CASE ~FetchRanking /\ ~FetchBest
  <2>1. UNCHANGED <<cell, best, refreshing, viewer>>
    BY <1>4, OtherSteps DEF grid
  <2>2. GridTyped' /\ BestNotBehindGrid'
    BY <1>1, <2>1 DEF GridTyped, BestNotBehindGrid
  <2> QED
    BY <1>1, <2>1, <2>2, LabelsStayTrue
<1> QED
  BY <1>2, <1>3, <1>4

LEMMA BoardInitial == BoardInit => RowsTyped /\ ErasedTyped /\ GridTyped
                                   /\ ShownWasReached /\ RanksNotTooLow /\ BestNotBehindGrid
<1> SUFFICES ASSUME BoardInit
             PROVE  RowsTyped /\ ErasedTyped /\ GridTyped
                    /\ ShownWasReached /\ RanksNotTooLow /\ BestNotBehindGrid
  OBVIOUS
<1>1. records = {} /\ erased = {} /\ viewer = NoName
  BY DEF BoardInit, Server!Init
<1>2. RowsTyped /\ ErasedTyped
  BY <1>1, FS_EmptySet DEF RowsTyped, ErasedTyped, ScoredRows, WellFormed
<1>3. GridTyped
  BY DEF BoardInit, GridTyped, Entries
<1>4. ShownWasReached /\ RanksNotTooLow /\ BestNotBehindGrid
  BY <1>1 DEF BoardInit, ShownWasReached, RanksNotTooLow, BestNotBehindGrid
<1> QED
  BY <1>2, <1>3, <1>4

LEMMA BoardInvHolds == BoardSpec => []BoardInv
<1>1. BoardSpec => []TypeOK
  BY BoardImplementsSession, TypeCorrect, PTL
<1>2. BoardInit /\ TypeOK => BoardInv
  BY BoardInitial DEF BoardInv
<1>3. BoardInv /\ TypeOK' /\ [BoardNext]_vars => BoardInv'
  BY BoardStep
<1> QED
  BY <1>1, <1>2, <1>3, PTL DEF BoardSpec

\* The rows, the labels and what is shown in them keep their types, whatever
\* answers are lost (score.c).
THEOREM BoardTypeCorrect == BoardSpec => []BoardTypeOK
<1>1. BoardInv => BoardTypeOK
  BY DEF BoardInv, RowsTyped, ErasedTyped, GridTyped, BoardTypeOK
<1> QED
  BY <1>1, BoardInvHolds, PTL

\* A label of the grid that update_score_table has written, however many
\* refreshes ago, shows a score that the player has reached in that game and
\* not lost since, unless his rows were erased.
THEOREM LabelsWereReached == BoardSpec => []ShownWasReached
<1>1. BoardInv => ShownWasReached
  BY DEF BoardInv
<1> QED
  BY <1>1, BoardInvHolds, PTL

\* However stale a label is, it ranks nobody lower than the rows do: as many
\* players as its rank says are as good, or were erased (score.js, score.c).
THEOREM LabelsRankNotTooLow == BoardSpec => []RanksNotTooLow
<1>1. BoardInv => RanksNotTooLow
  BY DEF BoardInv
<1> QED
  BY <1>1, BoardInvHolds, PTL

\* "Your Best Score:" is never behind what the grid shows of the player, although
\* the two come from two requests with saves in between (score.c:39, score.c:125).
THEOREM BestKeepsUp == BoardSpec => []BestNotBehindGrid
<1>1. BoardInv => BestNotBehindGrid
  BY DEF BoardInv
<1> QED
  BY <1>1, BoardInvHolds, PTL
=============================================================================
