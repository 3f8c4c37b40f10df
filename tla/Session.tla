------------------------------ MODULE Session ------------------------------
(***************************************************************************)
(* Who the client of MBDTF plays for: the screens of the stack, the global *)
(* username and is_guest_mode (auth/login.c, auth/register.c), the account *)
(* deletion of setting.c and when send_game_score of menu.c sends.  What   *)
(* the server keeps besides the accounts is added by Scoreboard.           *)
(*                                                                         *)
(* Requests are synchronous, so a callback with its request is one step.   *)
(* The server answers, or the request or its answer is lost.  Other        *)
(* clients register and delete accounts as well.                           *)
(*                                                                         *)
(* A Tetris or a Breakout game runs on its timeout behind every screen; of *)
(* Breakout the Back button stops it.  The key handler of 2048 runs the    *)
(* main loop to show the score, so every callback may come before the rest *)
(* of it, Back and Logout too; then it sends the score of a lost game and  *)
(* shows the menu, from whatever screen is there by now.                   *)
(***************************************************************************)
EXTENDS Integers, FiniteSets

CONSTANTS
  Names,         \* names that accounts can have, "Guest" among them or not
  Cut,           \* what char username[50] keeps of a name
  NoName,        \* the empty username of the start
  MaxMoves       \* bound: key handlers of 2048 stopped at once

ASSUME SessionAssumption ==
  /\ NoName \notin Names \cup {"Guest"}
  /\ Cut \in [Names -> Names]
  /\ \A n \in Names : Cut[Cut[n]] = Cut[n]
  /\ "Guest" \in Names => Cut["Guest"] = "Guest"
  /\ MaxMoves \in Nat

Games == {"tetris", "2048", "bp", "mine"}
Timed == {"tetris", "bp"}
Entrance == {"login", "signup"}
Screens == Entrance \cup {"menu", "scoreboard", "setting"} \cup Games

VARIABLES
  screen,
  username, is_guest_mode,
  running,       \* games that a timeout goes on with
  moves,         \* key handlers of 2048 stopped in the main loop
  accounts       \* names the server has

\* For the properties.
VARIABLES
  player,        \* who came through the login screen and is behind it
  brought,       \* a key handler brought the menu back since that was shown
  accepted       \* the name the server accepted last from this client

identity == <<username, is_guest_mode, accepted>>
games == <<running, moves>>
session == <<screen, player, brought, games, accounts, identity>>

\* The player is gone from behind the login screen when that is shown again.
SeenOut ==
  IF screen' = "login" THEN player' = NoName /\ brought' = FALSE
  ELSE UNCHANGED <<player, brought>>

\* Breakout begins with its screen, and its Back button stops it.
Go(from, to) ==
  /\ screen \in from /\ screen' \in to /\ SeenOut
  /\ running' = IF screen' = "bp" THEN running \cup {"bp"}
                ELSE IF screen = "bp" THEN running \ {"bp"} ELSE running
  /\ UNCHANGED <<identity, moves, accounts>>
-----------------------------------------------------------------------------
\* Mutant: a guest is known by the name only.
GuestByName(mode) == mode
GuestMode(mode) == TRUE
Guest ==
  /\ screen = "login" /\ screen' = "menu"
  /\ username' = "Guest" /\ is_guest_mode' = GuestMode(is_guest_mode)
  /\ player' = "Guest" /\ brought' = FALSE
  /\ UNCHANGED <<accepted, games, accounts>>

\* The request is answered with success.  Any other outcome shows a message
\* and changes nothing; guest mode stays as it is.
Login(n) ==
  /\ screen = "login" /\ n \in accounts
  /\ username' = Cut[n] /\ accepted' = n
  /\ player' = n /\ brought' = FALSE
  /\ screen' = "menu"
  /\ UNCHANGED <<is_guest_mode, games, accounts>>

\* Mutants: a new player does not have to log in; username is set before the
\* answer.
EnterMenu == "menu"
SetEarly(n) == Cut[n]
AfterSignup == "login"
Unanswered(n) == username

\* The server creates the account; the client hears of it, or takes the lost
\* answer for a network error.
Register(n) ==
  /\ screen = "signup" /\ n \notin accounts
  /\ accounts' = accounts \cup {n}
  /\ \/ username' = Cut[n] /\ accepted' = n /\ screen' = AfterSignup
     \/ username' = Unanswered(n) /\ UNCHANGED <<accepted, screen>>
  /\ UNCHANGED <<is_guest_mode, player, brought, games>>

\* on_delete_account_clicked takes every answer for success.  With or without
\* an answer the account may be deleted or, after an error of the server, not.
\* Nothing the client knows of the player changes.
DeleteAccount ==
  /\ screen = "setting" /\ screen' \in {"login", "setting"}
  /\ accounts' \in {accounts, accounts \ {username}}
  /\ SeenOut /\ UNCHANGED <<identity, games>>

\* A game may report: Minesweeper on its screen, the others on any.
Reporting(g) ==
  \/ g \in running
  \/ g = "2048" /\ moves > 0
  \/ g = "mine" /\ screen = "mine"

\* send_game_score posts a score of g under username.
Sends(g) == Reporting(g) /\ ~is_guest_mode

\* The Start button of Tetris, Restart of Breakout, and the end of a game.
Run ==
  /\ \/ screen \in Timed /\ running' = running \cup {screen}
     \/ \E g \in running : running' = running \ {g}
  /\ UNCHANGED <<screen, player, brought, moves, identity, accounts>>

\* A key of 2048; the end of its handler, and of the game when that is lost.
Move ==
  /\ screen = "2048" /\ moves < MaxMoves /\ moves' = moves + 1
  /\ UNCHANGED <<screen, player, brought, running, identity, accounts>>

MoveEnds ==
  /\ moves > 0 /\ moves' = moves - 1
  /\ \/ UNCHANGED <<screen, brought>>
     \/ screen' = "menu" /\ brought' = (brought \/ screen \in Entrance)
  /\ UNCHANGED <<player, running, identity, accounts>>

OtherClient ==
  /\ \E n \in Names : accounts' \in {accounts \cup {n}, accounts \ {n}}
  /\ UNCHANGED <<screen, player, brought, identity, games>>

Navigate ==
  \/ Go({"login"}, {"signup"})
  \/ Go({"signup"}, {"login"})
  \/ Go({"menu"}, Games \cup {"scoreboard", "setting"})
  \/ Go(Games \cup {"scoreboard", "setting"}, {"menu"})
  \/ Go({"menu"}, {"login"})
-----------------------------------------------------------------------------
Init ==
  /\ screen = "login" /\ username = NoName /\ is_guest_mode = FALSE
  /\ running = {} /\ moves = 0 /\ accounts \in SUBSET Names
  /\ player = NoName /\ brought = FALSE /\ accepted = NoName

Next == \/ Guest \/ DeleteAccount \/ Run \/ Move \/ MoveEnds \/ OtherClient \/ Navigate
        \/ \E n \in Names : Login(n) \/ Register(n)

Spec == Init /\ [][Next]_session
-----------------------------------------------------------------------------
TypeOK ==
  /\ screen \in Screens
  /\ username \in Names \cup {NoName, "Guest"} /\ is_guest_mode \in BOOLEAN
  /\ running \subseteq Timed /\ moves \in 0 .. MaxMoves
  /\ accounts \subseteq Names /\ accepted \in Names \cup {NoName}
  /\ player \in Names \cup {NoName, "Guest"} /\ brought \in BOOLEAN

\* What username holds of a name.
Held(n) == IF n \in Names THEN Cut[n] ELSE n

\* Behind the login screen, username is what it holds of the one who came
\* through it: not the empty name of the start, nor an account that was only
\* registered.  When a key handler of 2048 brought the menu back over the login
\* screen (2048.c:269) nobody came, and the client plays for the guest or the
\* account it knew last: a logout need not last.
PlayerKnown ==
  screen \notin Entrance =>
    IF brought THEN username # NoName /\ username \in {"Guest", Held(accepted)}
    ELSE player # NoName /\ username = Held(player)

\* Scores are sent only under the name, or what username holds of it, that the
\* server accepted last from this client, by a login or a registration: no
\* score of a guest, and none under the empty name, even when a game outlives
\* the session that began it.
ScoresOfAccepted ==
  \A g \in Games : Sends(g) => accepted # NoName /\ username = Held(accepted)
=============================================================================
