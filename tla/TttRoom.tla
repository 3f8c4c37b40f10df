------------------------------ MODULE TttRoom ------------------------------
(***************************************************************************)
(* The tic-tac-toe server, route/ttt.js: WebSocket connections that send   *)
(* lines "[room] sender: content", and the Map of rooms.                   *)
(*                                                                         *)
(* An event handler of Node runs to its end, so one message or one close   *)
(* event is one action.  The sockets of Sockets are the connections made   *)
(* over a behaviour: a closed one stays closed, as a player may go on      *)
(* referring to it.  A room that is not in `rooms' has the fields it will  *)
(* be created with.                                                        *)
(***************************************************************************)
EXTENDS Integers, FiniteSets

CONSTANTS
  Sockets,
  Users,     \* sender names
  Rooms,     \* room names
  Cells,     \* positions of a board; the code has 3 x 3, told apart by equality
  None       \* null, and the absence of a key in a Map

ASSUME FiniteAssumption == IsFiniteSet(Users) /\ IsFiniteSet(Cells)
ASSUME NoneAssumption ==
  /\ None \notin Rooms /\ None \notin Users
  /\ \A s \in Sockets, symbol \in {"X", "O"} : None # [socket |-> s, symbol |-> symbol]

VARIABLES
  socket,       \* readyState of each connection
  currentRoom,  \* the two variables of each connection's closure
  userId,
  rooms,        \* keys of the Map of rooms
  players,      \* for each room, the Map from sender to socket and symbol
  connected,
  board,
  turn

\* What was sent, for the properties.
VARIABLES
  starts,  \* "Game starts!" broadcasts in the life of each room
  heard,   \* cells of the moves broadcast to a player since he joined
  missed   \* cells that were written when he joined

connection == <<socket, currentRoom, userId>>
vars == <<socket, currentRoom, userId, rooms, players, connected, board, turn,
          starts, heard, missed>>
-----------------------------------------------------------------------------
Symbols == {"X", "O"}
Player == [socket : Sockets, symbol : Symbols]

EmptyBoard == [c \in Cells |-> 0]
\* What the code writes for a symbol; 0 is an empty cell.
\* Mutant: counted from 2.
MarkFromTwo(symbol) == IF symbol = "X" THEN 2 ELSE 3

Mark(symbol) == IF symbol = "X" THEN 1 ELSE 2
Other(symbol) == IF symbol = "X" THEN "O" ELSE "X"

Written(b, m) == {c \in Cells : b[c] = m}
Occupied(b) == {c \in Cells : b[c] # 0}

\* players.keys() of a room.
Members(ps) == {u \in Users : ps[u] # None}

\* The players that broadcast reaches.
Listening(r) ==
  {u \in Users : players[r][u] # None /\ socket[players[r][u].socket] = "open"}

Init ==
  /\ socket = [s \in Sockets |-> "new"]
  /\ currentRoom = [s \in Sockets |-> None]
  /\ userId = [s \in Sockets |-> None]
  /\ rooms = {}
  /\ players = [r \in Rooms |-> [u \in Users |-> None]]
  /\ connected = [r \in Rooms |-> 0]
  /\ board = [r \in Rooms |-> EmptyBoard]
  /\ turn = [r \in Rooms |-> "X"]
  /\ starts = [r \in Rooms |-> 0]
  /\ heard = [r \in Rooms |-> [u \in Users |-> {}]]
  /\ missed = [r \in Rooms |-> [u \in Users |-> {}]]

Connect(s) ==
  /\ socket[s] = "new"
  /\ socket' = [socket EXCEPT ![s] = "open"]
  /\ UNCHANGED <<currentRoom, userId, rooms, players, connected, board, turn,
                 starts, heard, missed>>

\* Every line of the right form creates the room it names and makes it the
\* connection's room, under the sender's name.
Addresses(s, r, u) ==
  /\ socket[s] = "open"
  /\ rooms' = rooms \cup {r}
  /\ currentRoom' = [currentRoom EXCEPT ![s] = r]
  /\ userId' = [userId EXCEPT ![s] = u]
  /\ UNCHANGED socket

\* Mutant: the symbol is chosen after players.set.
SymbolAfterInsertion(ps) == "O"

AssignedSymbol(ps) == IF Members(ps) = {} THEN "X" ELSE "O"

Admits(r, u) == Cardinality(Members(players[r])) < 2 /\ players[r][u] = None

\* Mutant: connected is tested before it is raised.
AnnouncesLate(n) == n = 3

\* "Game starts!" instead of "Waiting for second player...".
Announces(n) == n = 2

\* content === 'CONNECTED', admitted.
Join(s, r, u) ==
  /\ Addresses(s, r, u)
  /\ Admits(r, u)
  /\ players' = [players EXCEPT ![r][u] =
                   [socket |-> s, symbol |-> AssignedSymbol(players[r])]]
  /\ connected' = [connected EXCEPT ![r] = @ + 1]
  /\ starts' = [starts EXCEPT ![r] = IF Announces(connected[r] + 1) THEN @ + 1 ELSE @]
  /\ heard' = [heard EXCEPT ![r][u] = {}]
  /\ missed' = [missed EXCEPT ![r][u] = Occupied(board[r])]
  /\ UNCHANGED <<board, turn>>

\* A line that changes nothing but the addressed room: CONNECTED answered
\* "Room is full!", a refused move, any other text.
Speak(s, r, u) ==
  /\ Addresses(s, r, u)
  /\ UNCHANGED <<players, connected, board, turn, starts, heard, missed>>

\* Mutant: the move is passed on to the other players only.
EchoToOthers(r, u) == Listening(r) \ {u}

\* broadcast.
Audience(r, u) == Listening(r)

\* Mutant: the turn is not part of the test.
AcceptsAnyTurn(r, c, symbol) == board[r][c] = 0

AcceptsMove(r, c, symbol) == board[r][c] = 0 /\ turn[r] = symbol

\* MOVE row col symbol, accepted.  Nothing relates the symbol to the sender,
\* and the sender need not be a player.
Move(s, r, u, c, symbol) ==
  /\ Addresses(s, r, u)
  /\ AcceptsMove(r, c, symbol)
  /\ board' = [board EXCEPT ![r][c] = Mark(symbol)]
  /\ turn' = [turn EXCEPT ![r] = Other(symbol)]
  /\ heard' = [heard EXCEPT ![r] =
                 [v \in Users |-> IF v \in Audience(r, u) THEN @[v] \cup {c} ELSE @[v]]]
  /\ UNCHANGED <<players, connected, starts, missed>>

\* The peer goes away: broadcast skips the socket until its close event.
StartClose(s) ==
  /\ socket[s] = "open"
  /\ socket' = [socket EXCEPT ![s] = "closing"]
  /\ UNCHANGED <<currentRoom, userId, rooms, players, connected, board, turn,
                 starts, heard, missed>>

\* rooms.delete: the next line that names the room creates it anew.
Drop(r) ==
  /\ rooms' = rooms \ {r}
  /\ players' = [players EXCEPT ![r] = [u \in Users |-> None]]
  /\ connected' = [connected EXCEPT ![r] = 0]
  /\ board' = [board EXCEPT ![r] = EmptyBoard]
  /\ turn' = [turn EXCEPT ![r] = "X"]
  /\ starts' = [starts EXCEPT ![r] = 0]
  /\ heard' = [heard EXCEPT ![r] = [u \in Users |-> {}]]
  /\ missed' = [missed EXCEPT ![r] = [u \in Users |-> {}]]

\* Mutant: the close event removes nobody.
StillThere(ps, u) == ps
Without(ps, u) == [ps EXCEPT ![u] = None]

\* Mutant: an empty room is not noticed.
NeverEmptied(r, u) == FALSE
Emptied(r, u) == Members(Without(players[r], u)) = {}

\* The close event: it removes the sender of the connection's last line from
\* the room of its last line.
Close(s) ==
  LET r == currentRoom[s]
      u == userId[s]
  IN /\ socket[s] = "closing"
     /\ socket' = [socket EXCEPT ![s] = "closed"]
     /\ UNCHANGED <<currentRoom, userId>>
     /\ IF r = None \/ r \notin rooms
        THEN UNCHANGED <<rooms, players, connected, board, turn, starts, heard, missed>>
        ELSE IF Emptied(r, u) THEN Drop(r)
        ELSE /\ players' = [players EXCEPT ![r] = Without(@, u)]
             /\ heard' = [heard EXCEPT ![r][u] = {}]
             /\ missed' = [missed EXCEPT ![r][u] = {}]
             /\ UNCHANGED <<rooms, connected, board, turn, starts>>

\* MOVE with a row above 2: board[row] is undefined, board[row][col] throws,
\* nothing catches it, and the process that starts next knows no room.
ThrowOnRow(s) ==
  /\ socket[s] = "open"
  /\ socket' = [t \in Sockets |-> IF socket[t] = "new" THEN "new" ELSE "closed"]
  /\ UNCHANGED <<currentRoom, userId>>
  /\ rooms' = {}
  /\ players' = [r \in Rooms |-> [u \in Users |-> None]]
  /\ connected' = [r \in Rooms |-> 0]
  /\ board' = [r \in Rooms |-> EmptyBoard]
  /\ turn' = [r \in Rooms |-> "X"]
  /\ starts' = [r \in Rooms |-> 0]
  /\ heard' = [r \in Rooms |-> [u \in Users |-> {}]]
  /\ missed' = [r \in Rooms |-> [u \in Users |-> {}]]

Next ==
  \E s \in Sockets :
    \/ Connect(s)
    \/ \E r \in Rooms, u \in Users :
         \/ Join(s, r, u)
         \/ Speak(s, r, u)
         \/ \E c \in Cells, symbol \in Symbols : Move(s, r, u, c, symbol)
    \/ StartClose(s)
    \/ Close(s)
    \/ ThrowOnRow(s)

Spec == Init /\ [][Next]_vars
-----------------------------------------------------------------------------
TypeOK ==
  /\ socket \in [Sockets -> {"new", "open", "closing", "closed"}]
  /\ currentRoom \in [Sockets -> Rooms \cup {None}]
  /\ userId \in [Sockets -> Users \cup {None}]
  /\ rooms \subseteq Rooms
  /\ players \in [Rooms -> [Users -> Player \cup {None}]]
  /\ connected \in [Rooms -> Nat]
  /\ board \in [Rooms -> [Cells -> {0, 1, 2}]]
  /\ turn \in [Rooms -> Symbols]
  /\ starts \in [Rooms -> Nat]
  /\ heard \in [Rooms -> [Users -> SUBSET Cells]]
  /\ missed \in [Rooms -> [Users -> SUBSET Cells]]

\* A room has at most two players and at most one of them plays X; as long as
\* nobody has left it (connected counts those who ever joined) two players
\* have different symbols.  After X has left both players may hold O.
SymbolsSound ==
  \A r \in Rooms :
    /\ Cardinality(Members(players[r])) <= 2
    /\ \A u, v \in Members(players[r]) :
         u # v => /\ ~(players[r][u].symbol = "X" /\ players[r][v].symbol = "X")
                  /\ connected[r] = 2 => players[r][u].symbol # players[r][v].symbol

\* Once somebody has joined a room, it lives only as long as it has a player:
\* an abandoned game cannot be found by the next pair of players.
NoAbandonedGame ==
  \A r \in rooms : connected[r] > 0 => Members(players[r]) # {}

\* Two players are in a room only when it was told "Game starts!", and it is told
\* once, however many come and go: who takes the place of one that has left is
\* told to wait for a second player (ttt.js:55) who is there.
StartAnnouncedOnce ==
  \A r \in Rooms :
    /\ starts[r] <= 1
    /\ Cardinality(Members(players[r])) = 2 => starts[r] = 1

\* A closed connection is left behind as a player only where it went on to
\* write to another room, or under another name.
NoGhostPlayer ==
  \A r \in Rooms : \A u \in Members(players[r]) :
    LET s == players[r][u].socket
    IN socket[s] = "closed" => <<currentRoom[s], userId[s]>> # <<r, u>>

\* What the proofs need besides: a room has players only while it exists, a
\* player's connection has been made, nobody joins uncounted, and the one who
\* joined first plays X.
Membership ==
  \A r \in Rooms :
    /\ Cardinality(Members(players[r])) <= connected[r]
    /\ \A u \in Members(players[r]) :
         /\ r \in rooms
         /\ socket[players[r][u].socket] # "new"
         /\ connected[r] = 1 => players[r][u].symbol = "X"

\* A player whose connection is open has been told every move made since he
\* joined, so what he knows and what he missed make up the board.
PlayersKnowTheBoard ==
  \A r \in Rooms : \A u \in Listening(r) :
    /\ heard[r][u] \cup missed[r][u] = Occupied(board[r])
    /\ heard[r][u] \cap missed[r][u] = {}

\* The boards of all rooms, written by whichever connections, are boards on
\* which X and O alternate.
Boards == INSTANCE AlternatingBoards WITH
  Rooms <- Rooms, Cells <- Cells, board <- board, turn <- turn
BoardsAlternate == Boards!Spec

\* Whose turn it is follows from the board, X when there are as many X as O and
\* else one X more, whichever connections wrote them and under which names.
TurnMatchesBoard ==
  \A r \in Rooms :
    Cardinality(Written(board[r], 1)) =
      Cardinality(Written(board[r], 2)) + (IF turn[r] = "X" THEN 0 ELSE 1)

\* The comment at `turn' says that the game starts with X: whenever "Game
\* starts!" is broadcast, it is X's turn.
StartsWithX ==
  [][\A r \in Rooms : starts'[r] > starts[r] => turn'[r] = "X"]_vars
=============================================================================
