---------------------------- MODULE TttRoomProofs ----------------------------
(* The invariants of TttRoom, for every set of connections, sender names,   *)
(* rooms and cells, and the refinement of AlternatingBoards.                *)
EXTENDS TttRoom, FiniteSetTheorems, TLAPS

-----------------------------------------------------------------------------
(* Types.                                                                   *)

LEMMA InitType == Init => TypeOK
BY DEF Init, TypeOK, EmptyBoard, Symbols

LEMMA JoinType ==
  ASSUME TypeOK, NEW s \in Sockets, NEW r \in Rooms, NEW u \in Users, Join(s, r, u)
  PROVE  TypeOK'
<1> USE DEF TypeOK, Join, Addresses
<1>1. [socket |-> s, symbol |-> AssignedSymbol(players[r])] \in Player
  BY DEF Player, Symbols, AssignedSymbol
<1>2. players' \in [Rooms -> [Users -> Player \cup {None}]]
  BY <1>1
<1>3. Occupied(board[r]) \in SUBSET Cells
  BY DEF Occupied
<1>4. missed' \in [Rooms -> [Users -> SUBSET Cells]]
  BY <1>3
<1>5. QED BY <1>2, <1>4

LEMMA MoveType ==
  ASSUME TypeOK, NEW s \in Sockets, NEW r \in Rooms, NEW u \in Users, NEW c \in Cells,
         NEW symbol \in Symbols, Move(s, r, u, c, symbol)
  PROVE  TypeOK'
<1> USE DEF TypeOK, Move, Addresses
<1>1. board' \in [Rooms -> [Cells -> {0, 1, 2}]]
  BY DEF Mark
<1>2. turn' \in [Rooms -> Symbols]
  BY DEF Other, Symbols
<1>3. heard' \in [Rooms -> [Users -> SUBSET Cells]]
  OBVIOUS
<1>4. QED BY <1>1, <1>2, <1>3

LEMMA DropType ==
  ASSUME TypeOK, NEW r \in rooms, Drop(r), UNCHANGED <<currentRoom, userId>>,
         socket' \in [Sockets -> {"new", "open", "closing", "closed"}]
  PROVE  TypeOK'
<1> USE DEF TypeOK, Drop
<1>1. [u \in Users |-> None] \in [Users -> Player \cup {None}]
  OBVIOUS
<1>2. players' \in [Rooms -> [Users -> Player \cup {None}]]
  BY <1>1
<1>3. [u \in Users |-> {}] \in [Users -> SUBSET Cells]
  OBVIOUS
<1>4. /\ heard' \in [Rooms -> [Users -> SUBSET Cells]]
      /\ missed' \in [Rooms -> [Users -> SUBSET Cells]]
  BY <1>3
<1>5. board' \in [Rooms -> [Cells -> {0, 1, 2}]]
  BY DEF EmptyBoard
<1>6. QED BY <1>2, <1>4, <1>5 DEF Symbols

LEMMA CloseType ==
  ASSUME TypeOK, NEW s \in Sockets, Close(s)
  PROVE  TypeOK'
<1> DEFINE r == currentRoom[s]
           u == userId[s]
<1>1. CASE r = None \/ r \notin rooms
  BY <1>1 DEF Close, Emptied, TypeOK
<1>2. CASE r # None /\ r \in rooms /\ Members(Without(players[r], u)) = {}
  BY <1>2, DropType DEF Close, Emptied, TypeOK
<1>3. CASE r # None /\ r \in rooms /\ Members(Without(players[r], u)) # {}
  <2>1. Without(players[r], u) \in [Users -> Player \cup {None}]
    BY <1>3 DEF Without, TypeOK
  <2>2. players' \in [Rooms -> [Users -> Player \cup {None}]]
    BY <1>3, <2>1 DEF Close, Emptied, TypeOK
  <2>3. /\ [heard[r] EXCEPT ![u] = {}] \in [Users -> SUBSET Cells]
        /\ [missed[r] EXCEPT ![u] = {}] \in [Users -> SUBSET Cells]
    BY <1>3 DEF TypeOK
  <2>4. /\ heard' \in [Rooms -> [Users -> SUBSET Cells]]
        /\ missed' \in [Rooms -> [Users -> SUBSET Cells]]
    BY <1>3, <2>3 DEF Close, Emptied, TypeOK
  <2>5. QED BY <1>3, <2>2, <2>4 DEF Close, Emptied, TypeOK
<1>4. QED BY <1>1, <1>2, <1>3

LEMMA NextType == TypeOK /\ [Next]_vars => TypeOK'
<1> SUFFICES ASSUME TypeOK, [Next]_vars PROVE TypeOK'
  OBVIOUS
<1>1. CASE UNCHANGED vars
  BY <1>1 DEF vars, TypeOK
<1>2. ASSUME NEW s \in Sockets, Connect(s) PROVE TypeOK'
  BY <1>2 DEF Connect, TypeOK
<1>3. ASSUME NEW s \in Sockets, NEW r \in Rooms, NEW u \in Users, Speak(s, r, u)
      PROVE  TypeOK'
  BY <1>3 DEF Speak, Addresses, TypeOK
<1>4. ASSUME NEW s \in Sockets, StartClose(s) PROVE TypeOK'
  BY <1>4 DEF StartClose, TypeOK
<1>5. ASSUME NEW s \in Sockets, ThrowOnRow(s) PROVE TypeOK'
  BY <1>5 DEF ThrowOnRow, TypeOK, EmptyBoard, Symbols
<1>6. QED BY <1>1, <1>2, <1>3, <1>4, <1>5, JoinType, MoveType, CloseType DEF Next

\* Every variable keeps its type, however many connections there are.
THEOREM TypeCorrect == Spec => []TypeOK
BY InitType, NextType, PTL DEF Spec
-----------------------------------------------------------------------------
(* Refinement: accepted moves are moves of the abstract boards, a dropped   *)
(* room and a new process clear them, everything else is a stutter.         *)

LEMMA RefinesInit == Init => Boards!Init
BY DEF Init, Boards!Init, EmptyBoard, Boards!EmptyBoard

LEMMA RefinesMove ==
  ASSUME NEW s \in Sockets, NEW r \in Rooms, NEW u \in Users, NEW c \in Cells,
         NEW symbol \in Symbols, Move(s, r, u, c, symbol)
  PROVE  Boards!Next
<1>1. Boards!Play(r, c, symbol)
  BY DEF Move, AcceptsMove, Boards!Play, Mark, Other, Boards!Mark, Boards!Other
<1>2. QED BY <1>1 DEF Boards!Next, Symbols, Boards!Symbols

LEMMA RefinesClose ==
  ASSUME TypeOK, NEW s \in Sockets, Close(s)
  PROVE  [Boards!Next]_<<board, turn>>
<1> DEFINE r == currentRoom[s]
<1>1. CASE r \in rooms /\ Drop(r)
  <2>1. {r} \in SUBSET Rooms
    BY <1>1 DEF TypeOK
  <2>2. Boards!Clear({r})
    BY <1>1, <2>1 DEF Drop, Boards!Clear, EmptyBoard, Boards!EmptyBoard, TypeOK
  <2>3. QED BY <2>1, <2>2 DEF Boards!Next
<1>2. CASE ~(r \in rooms /\ Drop(r))
  BY <1>2 DEF Close, Emptied
<1>3. QED BY <1>1, <1>2

LEMMA RefinesThrow ==
  ASSUME NEW s \in Sockets, ThrowOnRow(s)
  PROVE  Boards!Next
<1>1. Boards!Clear(Rooms)
  BY DEF ThrowOnRow, Boards!Clear, EmptyBoard, Boards!EmptyBoard
<1>2. QED BY <1>1 DEF Boards!Next

LEMMA RefinesNext == TypeOK /\ [Next]_vars => [Boards!Next]_<<board, turn>>
<1> SUFFICES ASSUME TypeOK, [Next]_vars PROVE [Boards!Next]_<<board, turn>>
  OBVIOUS
<1>1. CASE UNCHANGED vars
  BY <1>1 DEF vars
<1>2. ASSUME NEW s \in Sockets, Connect(s) \/ StartClose(s)
      PROVE  UNCHANGED <<board, turn>>
  BY <1>2 DEF Connect, StartClose
<1>3. ASSUME NEW s \in Sockets, NEW r \in Rooms, NEW u \in Users, Join(s, r, u) \/ Speak(s, r, u)
      PROVE  UNCHANGED <<board, turn>>
  BY <1>3 DEF Join, Speak
<1>4. QED BY <1>1, <1>2, <1>3, RefinesMove, RefinesClose, RefinesThrow DEF Next

\* The server's rooms implement boards on which X and O alternate.
THEOREM RefinesBoards == Spec => BoardsAlternate
<1>1. Spec => []TypeOK
  BY TypeCorrect
<1>2. QED BY <1>1, RefinesInit, RefinesNext, PTL DEF Spec, BoardsAlternate, Boards!Spec

-----------------------------------------------------------------------------
(* The turn and the board: shown of the abstract steps, which are those of  *)
(* every room.                                                              *)

\* The cells of a finite board that hold a mark can be counted.
LEMMA WrittenFinite ==
  ASSUME NEW b \in [Cells -> {0, 1, 2}], NEW m
  PROVE  /\ IsFiniteSet(Written(b, m))
         /\ Cardinality(Written(b, m)) \in Nat
<1>1. Written(b, m) \subseteq Cells
  BY DEF Written
<1>2. QED BY <1>1, FiniteAssumption, FS_Subset, FS_CardinalityType

\* Writing a mark into an empty cell counts one more of that mark and leaves
\* the count of the other.
LEMMA WriteCounts ==
  ASSUME NEW b \in [Cells -> {0, 1, 2}], NEW c \in Cells, b[c] = 0,
         NEW m \in {1, 2}, NEW k \in {1, 2}
  PROVE  Cardinality(Written([b EXCEPT ![c] = m], k)) =
           Cardinality(Written(b, k)) + (IF k = m THEN 1 ELSE 0)
<1> DEFINE after == [b EXCEPT ![c] = m]
<1>1. CASE k = m
  <2>1. Written(after, k) = Written(b, k) \cup {c}
    BY <1>1 DEF Written
  <2>2. c \notin Written(b, k)
    BY DEF Written
  <2>3. Cardinality(Written(b, k) \cup {c}) = Cardinality(Written(b, k)) + 1
    BY <2>2, WrittenFinite, FS_AddElement
  <2> QED BY <1>1, <2>1, <2>3
<1>2. CASE k # m
  <2>1. Written(after, k) = Written(b, k)
    BY <1>2 DEF Written
  <2> QED BY <1>2, <2>1, WrittenFinite
<1>3. QED BY <1>1, <1>2

LEMMA EmptyCounts == ASSUME NEW m \in {1, 2} PROVE Cardinality(Written(EmptyBoard, m)) = 0
<1>1. Written(EmptyBoard, m) = {}
  BY DEF Written, EmptyBoard
<1>2. QED BY <1>1, FS_EmptySet

LEMMA TurnInit == Boards!Init => TurnMatchesBoard
<1> SUFFICES ASSUME Boards!Init, NEW r \in Rooms
             PROVE  Cardinality(Written(board[r], 1)) =
                      Cardinality(Written(board[r], 2)) + (IF turn[r] = "X" THEN 0 ELSE 1)
  BY DEF TurnMatchesBoard
<1>1. board[r] = EmptyBoard /\ turn[r] = "X"
  BY DEF Boards!Init, Boards!EmptyBoard, EmptyBoard
<1>2. QED BY <1>1, EmptyCounts

\* A move: the side to move is the side that is one behind, or both are level.
LEMMA TurnPlay ==
  ASSUME TypeOK, TurnMatchesBoard,
         NEW r \in Rooms, NEW c \in Cells, NEW symbol \in Symbols, Boards!Play(r, c, symbol)
  PROVE  TurnMatchesBoard'
<1> SUFFICES ASSUME NEW q \in Rooms
             PROVE  Cardinality(Written(board'[q], 1)) =
                      Cardinality(Written(board'[q], 2)) + (IF turn'[q] = "X" THEN 0 ELSE 1)
  BY DEF TurnMatchesBoard, Written
<1>1. CASE q # r
  <2>1. board'[q] = board[q] /\ turn'[q] = turn[q]
    BY <1>1 DEF Boards!Play, TypeOK
  <2> QED BY <2>1 DEF TurnMatchesBoard
<1>2. CASE q = r
  <2> DEFINE b == board[r]
             m == Mark(symbol)
  <2>1. b \in [Cells -> {0, 1, 2}] /\ b[c] = 0 /\ turn[r] = symbol
    BY DEF TypeOK, Boards!Play
  <2>2. board'[q] = [b EXCEPT ![c] = m] /\ turn'[q] = Other(symbol)
    BY <1>2 DEF Boards!Play, TypeOK, Boards!Mark, Mark, Boards!Other, Other
  <2>3. m \in {1, 2}
    BY DEF Mark
  <2>4. Cardinality(Written(b, 1)) =
          Cardinality(Written(b, 2)) + (IF symbol = "X" THEN 0 ELSE 1)
    BY <2>1 DEF TurnMatchesBoard
  <2>5. /\ Cardinality(Written([b EXCEPT ![c] = m], 1)) =
             Cardinality(Written(b, 1)) + (IF 1 = m THEN 1 ELSE 0)
        /\ Cardinality(Written([b EXCEPT ![c] = m], 2)) =
             Cardinality(Written(b, 2)) + (IF 2 = m THEN 1 ELSE 0)
    <3> HIDE DEF b, m
    <3>1. 1 \in {1, 2} /\ 2 \in {1, 2}
      OBVIOUS
    <3> QED BY <2>1, <2>3, <3>1, WriteCounts
  <2>6. Cardinality(Written(b, 1)) \in Nat /\ Cardinality(Written(b, 2)) \in Nat
    BY <2>1, WrittenFinite
  <2>7. CASE symbol = "X"
    BY <2>2, <2>4, <2>5, <2>6, <2>7 DEF Mark, Other
  <2>8. CASE symbol = "O"
    BY <2>2, <2>4, <2>5, <2>6, <2>8 DEF Mark, Other
  <2>9. QED BY <2>7, <2>8 DEF Symbols
<1>3. QED BY <1>1, <1>2

LEMMA TurnClear ==
  ASSUME TurnMatchesBoard, NEW S \in SUBSET Rooms, Boards!Clear(S)
  PROVE  TurnMatchesBoard'
<1> SUFFICES ASSUME NEW q \in Rooms
             PROVE  Cardinality(Written(board'[q], 1)) =
                      Cardinality(Written(board'[q], 2)) + (IF turn'[q] = "X" THEN 0 ELSE 1)
  BY DEF TurnMatchesBoard, Written
<1>1. CASE q \in S
  <2>1. board'[q] = EmptyBoard /\ turn'[q] = "X"
    BY <1>1 DEF Boards!Clear, Boards!EmptyBoard, EmptyBoard
  <2> QED BY <2>1, EmptyCounts
<1>2. CASE q \notin S
  <2>1. board'[q] = board[q] /\ turn'[q] = turn[q]
    BY <1>2 DEF Boards!Clear, Boards!EmptyBoard, EmptyBoard
  <2> QED BY <2>1 DEF TurnMatchesBoard
<1>3. QED BY <1>1, <1>2

\* In every room, after any sequence of events, the turn and the numbers of X
\* and O on the board agree.
THEOREM TurnFollowsBoard == Spec => []TurnMatchesBoard
<1>1. Init => TurnMatchesBoard
  BY RefinesInit, TurnInit
<1>2. TypeOK /\ TurnMatchesBoard /\ [Next]_vars => TurnMatchesBoard'
  <2> SUFFICES ASSUME TypeOK, TurnMatchesBoard, [Next]_vars PROVE TurnMatchesBoard'
    OBVIOUS
  <2>1. [Boards!Next]_<<board, turn>>
    BY RefinesNext
  <2>2. CASE UNCHANGED <<board, turn>>
    BY <2>2 DEF TurnMatchesBoard, Written
  <2>3. CASE Boards!Next
    BY <2>3, TurnPlay, TurnClear DEF Boards!Next, Symbols, Boards!Symbols
  <2>4. QED BY <2>1, <2>2, <2>3
<1>3. QED BY <1>1, <1>2, TypeCorrect, PTL DEF Spec
-----------------------------------------------------------------------------
(* Who is in a room, with which symbol, from which connection.              *)

\* What an action does to the players of the rooms.
LEMMA JoinPlayers ==
  ASSUME TypeOK, NEW s \in Sockets, NEW r \in Rooms, NEW u \in Users, Join(s, r, u)
  PROVE  /\ Members(players'[r]) = Members(players[r]) \cup {u}
         /\ u \notin Members(players[r])
         /\ players'[r][u] = [socket |-> s, symbol |-> AssignedSymbol(players[r])]
         /\ \A v \in Users \ {u} : players'[r][v] = players[r][v]
         /\ \A q \in Rooms \ {r} : players'[q] = players[q]
<1> DEFINE new == [socket |-> s, symbol |-> AssignedSymbol(players[r])]
<1>1. players[r][u] = None
  BY DEF Join, Admits
<1>2. new # None
  <2>1. AssignedSymbol(players[r]) \in {"X", "O"}
    BY DEF AssignedSymbol
  <2>2. QED BY <2>1, NoneAssumption
<1>3. players'[r] = [players[r] EXCEPT ![u] = new]
  BY DEF Join, TypeOK
<1>4. /\ players'[r][u] = new
      /\ \A v \in Users \ {u} : players'[r][v] = players[r][v]
  BY <1>3 DEF TypeOK
<1>5. \A q \in Rooms \ {r} : players'[q] = players[q]
  BY DEF Join, TypeOK
<1>6. QED BY <1>1, <1>2, <1>4, <1>5 DEF Members

\* A close event drops a room, takes one sender out of one, or does nothing.
LEMMA ClosePlayers ==
  ASSUME TypeOK, NEW s \in Sockets, Close(s)
  PROVE  \A q \in Rooms :
           /\ Members(players'[q]) \subseteq Members(players[q])
           /\ \A v \in Members(players'[q]) : players'[q][v] = players[q][v]
           /\ (q \in rooms /\ currentRoom[s] = q) => userId[s] \notin Members(players'[q])
           /\ (q \in rooms /\ Members(players'[q]) # {}) => q \in rooms'
           /\ connected'[q] = connected[q] \/ (connected'[q] = 0 /\ Members(players'[q]) = {})
<1> DEFINE r == currentRoom[s]
           u == userId[s]
<1> USE DEF Members
<1> SUFFICES ASSUME NEW q \in Rooms
             PROVE  /\ Members(players'[q]) \subseteq Members(players[q])
                    /\ \A v \in Members(players'[q]) : players'[q][v] = players[q][v]
                    /\ (q \in rooms /\ r = q) => u \notin Members(players'[q])
                    /\ (q \in rooms /\ Members(players'[q]) # {}) => q \in rooms'
                    /\ connected'[q] = connected[q]
                         \/ (connected'[q] = 0 /\ Members(players'[q]) = {})
  OBVIOUS
<1>1. CASE r = None \/ r \notin rooms
  BY <1>1, NoneAssumption DEF Close, Emptied
<1>2. CASE r \in rooms /\ Drop(r)
  <2>1. CASE q = r
    <3>1. players'[q] = [v \in Users |-> None] /\ connected'[q] = 0
      BY <1>2, <2>1 DEF Drop, TypeOK
    <3>2. QED BY <3>1
  <2>2. CASE q # r
    BY <1>2, <2>2 DEF Drop, TypeOK
  <2>3. QED BY <2>1, <2>2
<1>3. CASE /\ r # None /\ r \in rooms
           /\ players' = [players EXCEPT ![r] = Without(@, u)]
           /\ UNCHANGED <<connected, rooms>>
  <2>1. CASE q = r
    <3>1. players'[q] = [players[q] EXCEPT ![u] = None]
      BY <1>3, <2>1 DEF Without, TypeOK
    <3>2. \A v \in Users : players'[q][v] = IF v = u THEN None ELSE players[q][v]
      BY <3>1 DEF TypeOK
    <3>3. QED BY <1>3, <3>2
  <2>2. CASE q # r
    BY <1>3, <2>2 DEF TypeOK
  <2>3. QED BY <2>1, <2>2
<1>4. QED BY <1>1, <1>2, <1>3 DEF Close, Emptied

LEMMA ThrowPlayers ==
  ASSUME NEW s \in Sockets, ThrowOnRow(s)
  PROVE  \A q \in Rooms : Members(players'[q]) = {} /\ connected'[q] = 0
BY DEF ThrowOnRow, Members

\* The other steps leave players and connected alone.
LEMMA OtherPlayers ==
  ASSUME NEW s \in Sockets,
         \/ Connect(s) \/ StartClose(s)
         \/ \E r \in Rooms, u \in Users :
              Speak(s, r, u) \/ \E c \in Cells, symbol \in Symbols : Move(s, r, u, c, symbol)
         \/ UNCHANGED vars
  PROVE  UNCHANGED <<players, connected>>
BY DEF Connect, StartClose, Speak, Move, vars

LEMMA MembersFinite ==
  ASSUME NEW ps
  PROVE  /\ IsFiniteSet(Members(ps))
         /\ Cardinality(Members(ps)) \in Nat
<1>1. Members(ps) \subseteq Users
  BY DEF Members
<1>2. QED BY <1>1, FiniteAssumption, FS_Subset, FS_CardinalityType

LEMMA TwoMembers ==
  ASSUME NEW ps, NEW u \in Members(ps), NEW v \in Members(ps), u # v
  PROVE  Cardinality(Members(ps)) >= 2
<1>1. {u, v} \subseteq Members(ps) /\ IsFiniteSet(Members(ps))
  BY MembersFinite
<1>2. Cardinality({u, v}) = 2
  <2>1. Cardinality({u}) = 1 /\ IsFiniteSet({u})
    BY FS_Singleton
  <2>2. Cardinality({u} \cup {v}) = 2
    BY <2>1, FS_AddElement
  <2>3. {u} \cup {v} = {u, v}
    OBVIOUS
  <2>4. QED BY <2>2, <2>3
<1>3. Cardinality({u, v}) <= Cardinality(Members(ps))
  BY <1>1, FS_Subset
<1>4. QED BY <1>2, <1>3, MembersFinite

PlayersInv == Membership /\ SymbolsSound /\ NoGhostPlayer

LEMMA InitPlayers == Init => PlayersInv
<1> SUFFICES ASSUME Init PROVE PlayersInv
  OBVIOUS
<1>1. \A r \in Rooms : Members(players[r]) = {} /\ connected[r] = 0
  BY DEF Init, Members
<1>2. QED BY <1>1, FS_EmptySet DEF PlayersInv, Membership, SymbolsSound, NoGhostPlayer

LEMMA JoinKeepsPlayersInv ==
  ASSUME TypeOK, PlayersInv, NEW s \in Sockets, NEW r \in Rooms, NEW u \in Users, Join(s, r, u)
  PROVE  PlayersInv'
<1> DEFINE M == Members(players[r])
           N == Members(players'[r])
<1>1. /\ N = M \cup {u} /\ u \notin M
      /\ players'[r][u].socket = s
      /\ players'[r][u].symbol = AssignedSymbol(players[r])
      /\ \A v \in M : players'[r][v] = players[r][v]
      /\ \A q \in Rooms \ {r} : players'[q] = players[q] /\ connected'[q] = connected[q]
      /\ connected'[r] = connected[r] + 1
      /\ rooms' = rooms \cup {r}
      /\ socket' = socket /\ socket[s] = "open"
      /\ \A t \in Sockets \ {s} : currentRoom'[t] = currentRoom[t] /\ userId'[t] = userId[t]
  <2>1. /\ N = M \cup {u} /\ u \notin M
        /\ players'[r][u] = [socket |-> s, symbol |-> AssignedSymbol(players[r])]
        /\ \A v \in Users \ {u} : players'[r][v] = players[r][v]
        /\ \A q \in Rooms \ {r} : players'[q] = players[q]
    BY JoinPlayers
  <2>2. M \subseteq Users
    BY DEF Members
  <2>3. \A v \in M : players'[r][v] = players[r][v]
    BY <2>1, <2>2
  <2>4. /\ \A q \in Rooms \ {r} : connected'[q] = connected[q]
        /\ connected'[r] = connected[r] + 1
    BY DEF Join, TypeOK
  <2>5. /\ rooms' = rooms \cup {r}
        /\ socket' = socket /\ socket[s] = "open"
        /\ \A t \in Sockets \ {s} : currentRoom'[t] = currentRoom[t] /\ userId'[t] = userId[t]
    BY DEF Join, Addresses, TypeOK
  <2>6. /\ players'[r][u].socket = s
        /\ players'[r][u].symbol = AssignedSymbol(players[r])
    BY <2>1
  <2>7. QED
    <3> HIDE DEF M, N
    <3> QED BY <2>1, <2>3, <2>4, <2>5, <2>6
<1>2. /\ Cardinality(M) \in Nat /\ Cardinality(M) < 2
      /\ Cardinality(N) = Cardinality(M) + 1
      /\ M = {} <=> Cardinality(M) = 0
  <2>1. IsFiniteSet(M) /\ Cardinality(M) \in Nat
    BY MembersFinite
  <2>2. Cardinality(M) < 2
    BY DEF Join, Admits
  <2>3. Cardinality(N) = Cardinality(M) + 1
    BY <1>1, <2>1, FS_AddElement
  <2>4. M = {} <=> Cardinality(M) = 0
    BY <2>1, FS_EmptySet
  <2>5. QED BY <2>1, <2>2, <2>3, <2>4
<1>3. connected[r] \in Nat /\ Cardinality(M) <= connected[r]
  BY DEF TypeOK, PlayersInv, Membership
<1>4. \A v \in M : Cardinality(M) = 1 /\ players[r][v].symbol \in Symbols
  <2> TAKE v \in M
  <2>1. players[r][v] \in Player
    BY DEF Members, TypeOK
  <2>2. QED BY <1>2, <2>1 DEF Player
<1>5. Membership'
  <2> SUFFICES ASSUME NEW q \in Rooms
               PROVE  /\ Cardinality(Members(players'[q])) <= connected'[q]
                      /\ \A v \in Members(players'[q]) :
                           /\ q \in rooms'
                           /\ socket'[players'[q][v].socket] # "new"
                           /\ connected'[q] = 1 => players'[q][v].symbol = "X"
    BY DEF Membership, Members
  <2>1. CASE q # r
    BY <1>1, <2>1 DEF PlayersInv, Membership
  <2>2. CASE q = r
    <3>1. ASSUME NEW v \in M
          PROVE  /\ socket[players'[r][v].socket] # "new"
                 /\ connected'[r] # 1
      BY <1>1, <1>3, <1>4 DEF PlayersInv, Membership
    <3>2. connected'[r] = 1 => players'[r][u].symbol = "X"
      BY <1>1, <1>2, <1>3 DEF AssignedSymbol
    <3>3. socket[players'[r][u].socket] # "new"
      BY <1>1
    <3>4. Cardinality(N) <= connected'[r]
      BY <1>1, <1>2, <1>3
    <3>5. QED BY <1>1, <2>2, <3>1, <3>2, <3>3, <3>4
  <2>3. QED BY <2>1, <2>2
<1>6. SymbolsSound'
  <2> SUFFICES ASSUME NEW q \in Rooms
               PROVE  /\ Cardinality(Members(players'[q])) <= 2
                      /\ \A v, w \in Members(players'[q]) :
                           v # w =>
                             /\ ~(players'[q][v].symbol = "X" /\ players'[q][w].symbol = "X")
                             /\ connected'[q] = 2 =>
                                  players'[q][v].symbol # players'[q][w].symbol
    BY DEF SymbolsSound, Members
  <2>1. CASE q # r
    BY <1>1, <2>1 DEF PlayersInv, SymbolsSound
  <2>2. CASE q = r
    <3>1. Cardinality(N) <= 2
      BY <1>2
    <3>2. ASSUME NEW v \in M, NEW w \in M, v # w PROVE FALSE
      BY <1>2, <3>2, TwoMembers
    <3>3. ASSUME NEW v \in M
          PROVE  /\ players'[r][u].symbol = "O"
                 /\ connected'[r] = 2 => players'[r][v].symbol = "X"
      BY <1>1, <1>3 DEF AssignedSymbol, PlayersInv, Membership
    <3>4. QED BY <1>1, <2>2, <3>1, <3>2, <3>3
  <2>3. QED BY <2>1, <2>2
<1>7. NoGhostPlayer'
  <2> SUFFICES ASSUME NEW q \in Rooms, NEW v \in Members(players'[q]),
                      socket'[players'[q][v].socket] = "closed"
               PROVE  LET t == players'[q][v].socket
                      IN <<currentRoom'[t], userId'[t]>> # <<q, v>>
    BY DEF NoGhostPlayer, Members
  <2>1. v \in Members(players[q]) /\ players'[q][v] = players[q][v]
    <3>1. CASE q # r
      BY <1>1, <3>1 DEF Members
    <3>2. CASE q = r
      BY <1>1, <3>2
    <3>3. QED BY <3>1, <3>2
  <2> DEFINE t == players[q][v].socket
  <2>2. t \in Sockets /\ socket[t] = "closed" /\ t # s
    BY <1>1, <2>1 DEF Members, TypeOK, Player
  <2>3. <<currentRoom[t], userId[t]>> # <<q, v>>
    BY <2>1, <2>2 DEF PlayersInv, NoGhostPlayer
  <2>4. currentRoom'[t] = currentRoom[t] /\ userId'[t] = userId[t]
    BY <1>1, <2>2
  <2>5. QED BY <2>1, <2>3, <2>4
<1>8. QED BY <1>5, <1>6, <1>7 DEF PlayersInv

LEMMA CloseKeepsPlayersInv ==
  ASSUME TypeOK, PlayersInv, NEW s \in Sockets, Close(s)
  PROVE  PlayersInv'
<1> SUFFICES ASSUME NEW q \in Rooms
             PROVE  /\ Cardinality(Members(players'[q])) <= connected'[q]
                    /\ Cardinality(Members(players'[q])) <= 2
                    /\ \A v \in Members(players'[q]) :
                         /\ q \in rooms'
                         /\ socket'[players'[q][v].socket] # "new"
                         /\ connected'[q] = 1 => players'[q][v].symbol = "X"
                         /\ LET t == players'[q][v].socket
                            IN  socket'[t] = "closed" =>
                                  <<currentRoom'[t], userId'[t]>> # <<q, v>>
                    /\ \A v, w \in Members(players'[q]) :
                         v # w =>
                           /\ ~(players'[q][v].symbol = "X" /\ players'[q][w].symbol = "X")
                           /\ connected'[q] = 2 => players'[q][v].symbol # players'[q][w].symbol
  BY DEF PlayersInv, Membership, SymbolsSound, NoGhostPlayer, Members
<1> DEFINE M == Members(players[q])
           N == Members(players'[q])
<1>1. /\ N \subseteq M
      /\ \A v \in N : players'[q][v] = players[q][v]
      /\ (q \in rooms /\ currentRoom[s] = q) => userId[s] \notin N
      /\ (q \in rooms /\ N # {}) => q \in rooms'
      /\ connected'[q] = connected[q] \/ (connected'[q] = 0 /\ N = {})
  BY ClosePlayers
<1>2. /\ socket' = [socket EXCEPT ![s] = "closed"]
      /\ currentRoom' = currentRoom /\ userId' = userId
  BY DEF Close, Emptied
<1>3. /\ Cardinality(N) \in Nat /\ Cardinality(M) \in Nat
      /\ Cardinality(N) <= Cardinality(M)
      /\ N = {} => Cardinality(N) = 0
  BY <1>1, MembersFinite, FS_Subset, FS_EmptySet
<1>4. Cardinality(M) <= connected[q] /\ Cardinality(M) <= 2 /\ connected[q] \in Nat
  BY DEF PlayersInv, Membership, SymbolsSound, TypeOK
<1>5. Cardinality(N) <= connected'[q] /\ Cardinality(N) <= 2
  BY <1>1, <1>3, <1>4
<1>6. ASSUME NEW v \in N
      PROVE  /\ q \in rooms'
             /\ socket'[players'[q][v].socket] # "new"
             /\ connected'[q] = 1 => players'[q][v].symbol = "X"
             /\ LET t == players'[q][v].socket
                IN  socket'[t] = "closed" => <<currentRoom'[t], userId'[t]>> # <<q, v>>
  <2> DEFINE t == players[q][v].socket
  <2>1. /\ v \in M /\ players'[q][v] = players[q][v] /\ connected'[q] = connected[q]
        /\ q \in rooms /\ q \in rooms'
    <3>1. v \in M
      BY <1>1
    <3>2. q \in rooms
      BY <3>1 DEF PlayersInv, Membership
    <3>3. QED BY <1>1, <3>1, <3>2
  <2>2. /\ socket[t] # "new"
        /\ connected[q] = 1 => players[q][v].symbol = "X"
        /\ socket[t] = "closed" => <<currentRoom[t], userId[t]>> # <<q, v>>
    BY <2>1 DEF PlayersInv, Membership, NoGhostPlayer
  <2>3. socket'[t] # "new" /\ (t # s => socket'[t] = socket[t])
    <3>1. t \in Sockets
      BY <2>1 DEF Members, TypeOK, Player
    <3>2. QED BY <1>2, <2>2, <3>1 DEF TypeOK
  <2>4. <<currentRoom[s], userId[s]>> # <<q, v>>
    BY <1>1, <2>1
  <2>5. QED BY <1>2, <2>1, <2>2, <2>3, <2>4
<1>7. ASSUME NEW v \in N, NEW w \in N, v # w
      PROVE  /\ ~(players'[q][v].symbol = "X" /\ players'[q][w].symbol = "X")
             /\ connected'[q] = 2 => players'[q][v].symbol # players'[q][w].symbol
  BY <1>1, <1>7 DEF PlayersInv, SymbolsSound
<1>8. QED BY <1>5, <1>6, <1>7

LEMMA ThrowKeepsPlayersInv ==
  ASSUME NEW s \in Sockets, ThrowOnRow(s)
  PROVE  PlayersInv'
<1>1. \A q \in Rooms : Members(players'[q]) = {} /\ connected'[q] = 0
  BY ThrowPlayers
<1>2. \A q \in Rooms : Cardinality(Members(players'[q])) = 0
  BY <1>1, FS_EmptySet
<1>3. Membership'
  BY <1>1, <1>2 DEF Membership, Members
<1>4. SymbolsSound'
  BY <1>1, <1>2 DEF SymbolsSound, Members
<1>5. NoGhostPlayer'
  BY <1>1 DEF NoGhostPlayer, Members
<1>6. QED BY <1>3, <1>4, <1>5 DEF PlayersInv

\* A step that leaves players and connected alone, makes no connection new or
\* closed and writes lines on open connections only.
LEMMA StutterKeepsPlayersInv ==
  ASSUME TypeOK, PlayersInv, UNCHANGED <<players, connected>>,
         rooms \subseteq rooms',
         \A t \in Sockets :
           /\ socket'[t] = "new" => socket[t] = "new"
           /\ socket'[t] = "closed" =>
                /\ socket[t] = "closed"
                /\ currentRoom'[t] = currentRoom[t] /\ userId'[t] = userId[t]
  PROVE  PlayersInv'
<1>1. \A q \in Rooms : \A v \in Members(players[q]) : players[q][v].socket \in Sockets
  BY DEF TypeOK, Members, Player
<1>2. Membership'
  BY <1>1 DEF PlayersInv, Membership, Members
<1>3. SymbolsSound'
  BY DEF PlayersInv, SymbolsSound, Members
<1>4. NoGhostPlayer'
  BY <1>1 DEF PlayersInv, NoGhostPlayer, Members
<1>5. QED BY <1>2, <1>3, <1>4 DEF PlayersInv

LEMMA NextPlayers == TypeOK /\ PlayersInv /\ [Next]_vars => PlayersInv'
<1> SUFFICES ASSUME TypeOK, PlayersInv, [Next]_vars PROVE PlayersInv'
  OBVIOUS
<1> DEFINE Quiet ==
      /\ UNCHANGED <<players, connected>>
      /\ rooms \subseteq rooms'
      /\ \A t \in Sockets :
           /\ socket'[t] = "new" => socket[t] = "new"
           /\ socket'[t] = "closed" =>
                /\ socket[t] = "closed"
                /\ currentRoom'[t] = currentRoom[t] /\ userId'[t] = userId[t]
<1>1. CASE UNCHANGED vars
  <2>1. Quiet
    BY <1>1 DEF vars
  <2>2. QED BY <2>1, StutterKeepsPlayersInv
<1>2. ASSUME NEW s \in Sockets, Connect(s) \/ StartClose(s) PROVE PlayersInv'
  <2>1. Quiet
    BY <1>2 DEF Connect, StartClose, TypeOK
  <2>2. QED BY <2>1, StutterKeepsPlayersInv
<1>3. ASSUME NEW s \in Sockets, NEW r \in Rooms, NEW u \in Users,
             \/ Speak(s, r, u)
             \/ \E c \in Cells, symbol \in Symbols : Move(s, r, u, c, symbol)
      PROVE  PlayersInv'
  <2>1. Addresses(s, r, u) /\ UNCHANGED <<players, connected>>
    BY <1>3 DEF Speak, Move
  <2>2. Quiet
    BY <2>1 DEF Addresses, TypeOK
  <2>3. QED BY <2>2, StutterKeepsPlayersInv
<1>4. ASSUME NEW s \in Sockets, NEW r \in Rooms, NEW u \in Users, Join(s, r, u)
      PROVE  PlayersInv'
  BY <1>4, JoinKeepsPlayersInv
<1>5. ASSUME NEW s \in Sockets, Close(s) \/ ThrowOnRow(s) PROVE PlayersInv'
  BY <1>5, CloseKeepsPlayersInv, ThrowKeepsPlayersInv
<1>6. QED BY <1>1, <1>2, <1>3, <1>4, <1>5 DEF Next

LEMMA SpecPlayers == Spec => []PlayersInv
BY InitPlayers, NextPlayers, TypeCorrect, PTL DEF Spec

\* At most two players in a room, one X at most, and different symbols as long
\* as nobody has left.
THEOREM PlayersSound == Spec => []SymbolsSound
BY SpecPlayers, PTL DEF PlayersInv

\* A closed connection stays behind as a player only in a room it has turned
\* away from.
THEOREM NoGhosts == Spec => []NoGhostPlayer
BY SpecPlayers, PTL DEF PlayersInv
-----------------------------------------------------------------------------
(* The life of a room: its start and its end.                               *)

\* A game is started at most once in the life of a room, and not before two
\* players have joined it.
StartsOnce ==
  \A r \in Rooms : starts[r] = (IF connected[r] >= 2 THEN 1 ELSE 0)

\* A room that does not exist has been joined by nobody.
Fresh == \A r \in Rooms \ rooms : connected[r] = 0

LifeInv == StartsOnce /\ NoAbandonedGame /\ Fresh

LEMMA InitLife == Init => LifeInv
BY DEF Init, LifeInv, StartsOnce, NoAbandonedGame, Fresh

LEMMA CloseKeepsLifeInv ==
  ASSUME TypeOK, LifeInv, NEW s \in Sockets, Close(s)
  PROVE  LifeInv'
<1> DEFINE r == currentRoom[s]
           u == userId[s]
<1> USE DEF LifeInv, StartsOnce, NoAbandonedGame, Fresh
<1>1. CASE r = None \/ r \notin rooms
  BY <1>1 DEF Close, Emptied, Members
<1>2. CASE r \in rooms /\ Drop(r)
  BY <1>2 DEF Drop, Members, TypeOK
<1>3. CASE /\ r # None /\ r \in rooms
           /\ Members(Without(players[r], u)) # {}
           /\ players' = [players EXCEPT ![r] = Without(@, u)]
           /\ UNCHANGED <<rooms, connected, starts>>
  <2>1. /\ players'[r] = Without(players[r], u)
        /\ \A q \in Rooms \ {r} : players'[q] = players[q]
    BY <1>3 DEF TypeOK
  <2>2. NoAbandonedGame'
    BY <1>3, <2>1 DEF Members, TypeOK
  <2>3. QED BY <1>3, <2>2
<1>4. QED BY <1>1, <1>2, <1>3 DEF Close, Emptied

LEMMA JoinKeepsLifeInv ==
  ASSUME TypeOK, LifeInv, NEW s \in Sockets, NEW r \in Rooms, NEW u \in Users, Join(s, r, u)
  PROVE  LifeInv'
<1> USE DEF LifeInv
<1>1. StartsOnce'
  <2> SUFFICES ASSUME NEW q \in Rooms
               PROVE  starts'[q] = (IF connected'[q] >= 2 THEN 1 ELSE 0)
    BY DEF StartsOnce
  <2>1. connected[q] \in Nat /\ starts[q] = (IF connected[q] >= 2 THEN 1 ELSE 0)
    BY DEF StartsOnce, TypeOK
  <2>2. CASE q = r
    <3>1. /\ connected'[q] = connected[q] + 1
          /\ starts'[q] = IF connected[q] + 1 = 2 THEN starts[q] + 1 ELSE starts[q]
      BY <2>2 DEF Join, Announces, TypeOK
    <3>2. QED BY <2>1, <3>1
  <2>3. CASE q # r
    <3>1. connected'[q] = connected[q] /\ starts'[q] = starts[q]
      BY <2>3 DEF Join, TypeOK
    <3>2. QED BY <2>1, <3>1
  <2>4. QED BY <2>2, <2>3
<1>2. NoAbandonedGame'
  <2>1. u \in Members(players'[r]) /\ \A q \in Rooms \ {r} : players'[q] = players[q]
    BY JoinPlayers
  <2>2. QED BY <2>1 DEF Join, Addresses, NoAbandonedGame, Members, TypeOK
<1>3. Fresh'
  BY DEF Join, Addresses, Fresh, TypeOK
<1>4. QED BY <1>1, <1>2, <1>3

LEMMA NextLife == TypeOK /\ LifeInv /\ [Next]_vars => LifeInv'
<1> SUFFICES ASSUME TypeOK, LifeInv, [Next]_vars PROVE LifeInv'
  OBVIOUS
<1>1. CASE UNCHANGED vars
  BY <1>1 DEF vars, LifeInv, StartsOnce, NoAbandonedGame, Fresh, Members
<1>2. ASSUME NEW s \in Sockets, Connect(s) \/ StartClose(s) PROVE LifeInv'
  BY <1>2 DEF Connect, StartClose, LifeInv, StartsOnce, NoAbandonedGame, Fresh, Members
<1>3. ASSUME NEW s \in Sockets, NEW r \in Rooms, NEW u \in Users,
             \/ Speak(s, r, u)
             \/ \E c \in Cells, symbol \in Symbols : Move(s, r, u, c, symbol)
      PROVE  LifeInv'
  <2>1. rooms' = rooms \cup {r} /\ UNCHANGED <<players, connected, starts>>
    BY <1>3 DEF Speak, Move, Addresses
  <2>2. QED BY <2>1 DEF LifeInv, StartsOnce, NoAbandonedGame, Fresh, Members
<1>4. ASSUME NEW s \in Sockets, ThrowOnRow(s) PROVE LifeInv'
  BY <1>4 DEF ThrowOnRow, LifeInv, StartsOnce, NoAbandonedGame, Fresh
<1>5. QED BY <1>1, <1>2, <1>3, <1>4, JoinKeepsLifeInv, CloseKeepsLifeInv DEF Next

LEMMA SpecLife == Spec => []LifeInv
BY InitLife, NextLife, TypeCorrect, PTL DEF Spec

\* One "Game starts!" per life of a room, and none too few for two players (the
\* CONNECTED branch of ttt.js).
THEOREM GameStartsOnce == Spec => []StartAnnouncedOnce
<1>1. TypeOK /\ PlayersInv /\ LifeInv => StartAnnouncedOnce
  <2> SUFFICES ASSUME TypeOK, Membership, StartsOnce, NEW r \in Rooms
               PROVE  /\ starts[r] <= 1
                      /\ Cardinality(Members(players[r])) = 2 => starts[r] = 1
    BY DEF PlayersInv, LifeInv, StartAnnouncedOnce
  <2>1. /\ connected[r] \in Nat /\ Cardinality(Members(players[r])) <= connected[r]
        /\ starts[r] = IF connected[r] >= 2 THEN 1 ELSE 0
    BY DEF TypeOK, Membership, StartsOnce
  <2> QED BY <2>1
<1>2. QED BY <1>1, SpecPlayers, SpecLife, TypeCorrect, PTL

\* A room that somebody has joined does not outlive its last player (the close
\* handler of ttt.js).
THEOREM NoGameAbandoned == Spec => []NoAbandonedGame
BY SpecLife, PTL DEF LifeInv
-----------------------------------------------------------------------------
(* What the players know of the board.                                      *)

KnowsBoard(r, u) ==
  /\ heard[r][u] \cup missed[r][u] = Occupied(board[r])
  /\ heard[r][u] \cap missed[r][u] = {}

LEMMA JoinKeepsKnowledge ==
  ASSUME TypeOK, PlayersKnowTheBoard,
         NEW s \in Sockets, NEW r \in Rooms, NEW u \in Users, Join(s, r, u)
  PROVE  PlayersKnowTheBoard'
<1> SUFFICES ASSUME NEW q \in Rooms, NEW v \in Users, v \in Listening(q)'
             PROVE  KnowsBoard(q, v)'
  BY DEF PlayersKnowTheBoard, KnowsBoard, Listening
<1>1. UNCHANGED <<board, socket>>
  BY DEF Join, Addresses
<1>2. CASE q = r /\ v = u
  <2>1. heard'[q][v] = {} /\ missed'[q][v] = Occupied(board[q])
    BY <1>2 DEF Join, TypeOK
  <2>2. QED BY <1>1, <2>1 DEF KnowsBoard, Occupied
<1>3. CASE ~(q = r /\ v = u)
  <2>1. players'[q][v] = players[q][v]
    <3>1. /\ \A w \in Users \ {u} : players'[r][w] = players[r][w]
          /\ \A p \in Rooms \ {r} : players'[p] = players[p]
      BY JoinPlayers
    <3>2. CASE q = r
      BY <1>3, <3>1, <3>2
    <3>3. CASE q # r
      BY <3>1, <3>3
    <3>4. QED BY <3>2, <3>3
  <2>2. heard'[q][v] = heard[q][v] /\ missed'[q][v] = missed[q][v]
    BY <1>3 DEF Join, TypeOK
  <2>3. v \in Listening(q)
    BY <1>1, <2>1 DEF Listening
  <2>4. QED BY <1>1, <2>2, <2>3 DEF PlayersKnowTheBoard, KnowsBoard, Occupied
<1>4. QED BY <1>2, <1>3

\* An accepted move fills an empty cell and is told to everyone listening.
LEMMA MoveKeepsKnowledge ==
  ASSUME TypeOK, PlayersKnowTheBoard, NEW s \in Sockets, NEW r \in Rooms, NEW u \in Users,
         NEW c \in Cells, NEW symbol \in Symbols, Move(s, r, u, c, symbol)
  PROVE  PlayersKnowTheBoard'
<1> SUFFICES ASSUME NEW q \in Rooms, NEW v \in Users, v \in Listening(q)'
             PROVE  KnowsBoard(q, v)'
  BY DEF PlayersKnowTheBoard, KnowsBoard, Listening
<1>1. v \in Listening(q)
  BY DEF Move, Addresses, Listening
<1>2. KnowsBoard(q, v)
  BY <1>1 DEF PlayersKnowTheBoard, KnowsBoard
<1>3. missed' = missed
  BY DEF Move
<1>4. CASE q = r
  <2>1. heard'[q][v] = heard[q][v] \cup {c}
    BY <1>1, <1>4 DEF Move, Audience, TypeOK
  <2>2. c \notin Occupied(board[q])
    BY <1>4 DEF Move, AcceptsMove, Occupied
  <2>3. Occupied(board'[q]) = Occupied(board[q]) \cup {c}
    <3>1. board'[q] = [board[q] EXCEPT ![c] = Mark(symbol)]
      BY <1>4 DEF Move, TypeOK
    <3>2. Mark(symbol) # 0
      BY DEF Mark
    <3>3. \A d \in Cells : board'[q][d] = IF d = c THEN Mark(symbol) ELSE board[q][d]
      BY <3>1 DEF TypeOK
    <3>4. QED BY <3>2, <3>3 DEF Occupied
  <2>4. QED BY <1>2, <1>3, <2>1, <2>2, <2>3 DEF KnowsBoard, Occupied
<1>5. CASE q # r
  <2>1. heard'[q] = heard[q] /\ board'[q] = board[q]
    BY <1>5 DEF Move, TypeOK
  <2>2. QED BY <1>2, <1>3, <2>1 DEF KnowsBoard, Occupied
<1>6. QED BY <1>4, <1>5

LEMMA CloseKeepsKnowledge ==
  ASSUME TypeOK, PlayersKnowTheBoard, NEW s \in Sockets, Close(s)
  PROVE  PlayersKnowTheBoard'
<1> SUFFICES ASSUME NEW q \in Rooms, NEW v \in Users, v \in Listening(q)'
             PROVE  KnowsBoard(q, v)'
  BY DEF PlayersKnowTheBoard, KnowsBoard, Listening
<1> DEFINE r == currentRoom[s]
           u == userId[s]
<1>1. v \in Members(players'[q])
  BY DEF Listening, Members
<1>2. v \in Members(players[q]) /\ players'[q][v] = players[q][v]
  BY <1>1, ClosePlayers
<1>3. v \in Listening(q)
  <2>1. socket' = [socket EXCEPT ![s] = "closed"]
    BY DEF Close, Emptied
  <2>2. players[q][v].socket \in Sockets
    BY <1>2 DEF Members, TypeOK, Player
  <2>3. QED BY <1>2, <2>1, <2>2 DEF Listening, Members, TypeOK
<1>4. KnowsBoard(q, v)
  BY <1>3 DEF PlayersKnowTheBoard, KnowsBoard
<1>5. CASE r = None \/ r \notin rooms
  BY <1>4, <1>5 DEF Close, Emptied, KnowsBoard, Occupied
<1>6. CASE r \in rooms /\ Drop(r)
  <2>1. q # r
    BY <1>1, <1>6 DEF Drop, TypeOK, Members
  <2>2. heard'[q] = heard[q] /\ missed'[q] = missed[q] /\ board'[q] = board[q]
    BY <1>6, <2>1 DEF Drop, TypeOK
  <2>3. QED BY <1>4, <2>2 DEF KnowsBoard, Occupied
<1>7. CASE /\ r \in rooms
           /\ heard' = [heard EXCEPT ![r][u] = {}]
           /\ missed' = [missed EXCEPT ![r][u] = {}]
           /\ UNCHANGED board
  <2>1. ~(q = r /\ v = u)
    BY <1>1, <1>7, ClosePlayers
  <2>2. heard'[q][v] = heard[q][v] /\ missed'[q][v] = missed[q][v]
    BY <1>7, <2>1 DEF TypeOK
  <2>3. QED BY <1>4, <1>7, <2>2 DEF KnowsBoard, Occupied
<1>8. QED BY <1>5, <1>6, <1>7 DEF Close, Emptied

LEMMA NextKnowledge ==
  TypeOK /\ PlayersInv /\ PlayersKnowTheBoard /\ [Next]_vars => PlayersKnowTheBoard'
<1> SUFFICES ASSUME TypeOK, PlayersInv, PlayersKnowTheBoard, [Next]_vars
             PROVE  PlayersKnowTheBoard'
  OBVIOUS
<1>1. CASE UNCHANGED vars
  BY <1>1 DEF vars, PlayersKnowTheBoard, Listening, Occupied
<1>2. ASSUME NEW s \in Sockets, Connect(s) \/ StartClose(s) PROVE PlayersKnowTheBoard'
  <2>1. UNCHANGED <<players, board, heard, missed>>
    BY <1>2 DEF Connect, StartClose
  <2>2. \A r \in Rooms : Listening(r)' \subseteq Listening(r)
    <3> SUFFICES ASSUME NEW r \in Rooms, NEW v \in Users, v \in Listening(r)'
                 PROVE  v \in Listening(r)
      BY DEF Listening
    <3>1. v \in Members(players[r])
      BY <2>1 DEF Listening, Members
    <3>2. players[r][v].socket \in Sockets /\ socket[players[r][v].socket] # "new"
      <4>1. players[r][v] \in Player
        BY <3>1 DEF Members, TypeOK
      <4>2. socket[players[r][v].socket] # "new"
        BY <3>1 DEF PlayersInv, Membership
      <4>3. QED BY <4>1, <4>2 DEF Player
    <3>3. socket'[players[r][v].socket] = "open"
      BY <2>1 DEF Listening
    <3>4. socket[players[r][v].socket] = "open"
      BY <1>2, <3>2, <3>3 DEF Connect, StartClose, TypeOK
    <3>5. QED BY <3>1, <3>4 DEF Listening, Members
  <2>3. QED BY <2>1, <2>2 DEF PlayersKnowTheBoard, Occupied
<1>3. ASSUME NEW s \in Sockets, NEW r \in Rooms, NEW u \in Users, Speak(s, r, u)
      PROVE  PlayersKnowTheBoard'
  BY <1>3 DEF Speak, Addresses, PlayersKnowTheBoard, Listening, Occupied
<1>4. ASSUME NEW s \in Sockets, ThrowOnRow(s) PROVE PlayersKnowTheBoard'
  BY <1>4 DEF ThrowOnRow, PlayersKnowTheBoard, Listening
<1>5. QED BY <1>1, <1>2, <1>3, <1>4, JoinKeepsKnowledge, MoveKeepsKnowledge,
             CloseKeepsKnowledge DEF Next

\* A connected player has been told every move made since he joined.
THEOREM Knowledge == Spec => []PlayersKnowTheBoard
<1>1. Init => PlayersKnowTheBoard
  BY DEF Init, PlayersKnowTheBoard, Listening
<1>2. QED BY <1>1, InitPlayers, NextPlayers, NextKnowledge, TypeCorrect, PTL DEF Spec
=============================================================================
