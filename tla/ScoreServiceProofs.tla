------------------------- MODULE ScoreServiceProofs -------------------------
(* The invariants of ScoreService for every number of handlers, names, games,  *)
(* scores and connections, and under every schema.                             *)
EXTENDS ScoreService, FiniteSetTheorems, TLAPS

-----------------------------------------------------------------------------
(* Values.                                                                     *)

LEMMA CallFields ==
  ASSUME NEW c \in Calls
  PROVE  /\ c.name \in Names
         /\ c.op \in {"login", "register"} => c.password \in Passwords
         /\ c.op = "save" => c.game \in Games /\ c.score \in Posted
         /\ c.op \in {"login", "register", "check", "delete", "save"}
BY DEF Calls

LEMMA NoTxType == NoTx \in [user : SUBSET Accounts, rows : SUBSET Rows]
BY DEF NoTx

LEMMA IdOfType ==
  ASSUME users \subseteq Accounts, NEW n
  PROVE  IdOf(n) \in Ids \cup {NoUser}
<1>1. CASE AccountsOf(n) = {}
  BY <1>1 DEF IdOf
<1>2. CASE AccountsOf(n) # {}
  <2>1. (CHOOSE u \in AccountsOf(n) : TRUE) \in AccountsOf(n)
    BY <1>2
  <2>2. (CHOOSE u \in AccountsOf(n) : TRUE) \in Accounts
    BY <2>1 DEF AccountsOf
  <2>3. QED BY <1>2, <2>2 DEF IdOf, Accounts
<1>3. QED BY <1>1, <1>2

\* The state of the database is of its type; the rest of TypeOK is the server's.
DatabaseType ==
  /\ schema \in Schemas
  /\ users \subseteq Accounts
  /\ scores \subseteq Rows
  /\ nextId \in Ids
  /\ tx \in [Handlers -> [user : SUBSET Accounts, rows : SUBSET Rows]]
  /\ saved \subseteq [user : Ids \cup {NoUser}, name : Names, game : Games, score : Posted]
  /\ stripped \subseteq Ids /\ erased \subseteq Ids
  /\ made \in [Handlers -> Ids \cup {0}]

ServerType ==
  /\ up \in BOOLEAN
  /\ free \in 0..ConnectionLimit
  /\ holds \subseteq Handlers
  /\ call \in [Handlers -> Calls \cup {NoCall}]
  /\ pc \in [Handlers -> PoolStatements \cup TxStatements \cup {"idle", "done", "rollback"}]
  /\ resp \in [Handlers -> {0, 200, 201, 400, 401, 409, 500}]
  /\ broken \subseteq Handlers
  /\ requests \in 0..MaxRequests /\ faults \in 0..MaxFaults

LEMMA TypeParts == TypeOK <=> DatabaseType /\ ServerType
BY DEF TypeOK, DatabaseType, ServerType

-----------------------------------------------------------------------------
(* The database.                                                               *)

LEMMA WriteScoreType ==
  ASSUME DatabaseType, HandlersSound, NEW r \in Handlers, WriteScore(r)
  PROVE  DatabaseType'
<1> DEFINE c == call[r]
           owner == IdOf(c.name)
           old == Duplicates(owner, c.name, c.game)
           written == IF old = {}
             THEN {[user |-> owner, name |-> c.name, game |-> c.game, high |-> c.score]}
             ELSE {[row EXCEPT !.high = Better(c.game, @, c.score)] : row \in old}
           entries == {[user |-> row.user, name |-> c.name, game |-> c.game,
                        score |-> c.score] : row \in written}
<1>1. c \in Calls /\ c.op = "save"
  BY DEF WriteScore, Sends, HandlersSound, Active
<1>2. c.name \in Names /\ c.game \in Games /\ c.score \in Posted
  BY <1>1, CallFields
<1>3. owner \in Ids \cup {NoUser}
  BY IdOfType DEF DatabaseType
<1>4. old \subseteq Rows
  BY DEF DatabaseType, Duplicates
<1>5. ASSUME NEW row \in old
      PROVE  [row EXCEPT !.high = Better(c.game, @, c.score)] \in Rows
  <2>1. row.high \in Posted \cup {0}
    BY <1>4 DEF Rows
  <2>2. Better(c.game, row.high, c.score) \in Posted \cup {0}
    BY <1>2, <2>1 DEF Better
  <2>3. QED BY <1>4, <2>2 DEF Rows
<1>6. written \subseteq Rows
  <2>1. CASE old = {}
    BY <2>1, <1>2, <1>3 DEF Rows
  <2>2. CASE old # {}
    BY <2>2, <1>5
  <2>3. QED BY <2>1, <2>2
<1>7. scores' = (scores \ old) \cup written /\ saved' = saved \cup entries
  BY DEF WriteScore
<1>8. scores' \subseteq Rows
  BY <1>6, <1>7 DEF DatabaseType
<1>9. entries \subseteq [user : Ids \cup {NoUser}, name : Names, game : Games, score : Posted]
  <2>1. ASSUME NEW row \in written PROVE row.user \in Ids \cup {NoUser}
    BY <1>6 DEF Rows
  <2>2. QED BY <2>1, <1>2
<1>10. saved' \subseteq [user : Ids \cup {NoUser}, name : Names, game : Games, score : Posted]
  BY <1>7, <1>9 DEF DatabaseType
<1>11. QED BY <1>8, <1>10 DEF WriteScore, DatabaseType

LEMMA EraseScoresType ==
  ASSUME DatabaseType, NEW r \in Handlers, EraseScores(r)
  PROVE  DatabaseType'
<1>1. {u.id : u \in AccountsOf(call[r].name)} \subseteq Ids
  BY DEF DatabaseType, AccountsOf, Accounts
<1>2. QED BY <1>1 DEF DatabaseType, EraseScores

\* What a foreign key makes of rows, or saves, when their owners go.
Unowned(x) == [x EXCEPT !.user = NoUser]

LEMMA WithoutOwners ==
  ASSUME NEW gone, NEW S
  PROVE  /\ \A y \in Without(gone, S) :
              \/ y \in S
              \/ \E x \in S : y = Unowned(x)
         /\ \A x \in S : x \notin Of(gone, S) => x \in Without(gone, S)
         /\ \A x \in Of(gone, S) :
              \/ schema.onDelete = "cascade"
              \/ x \in Without(gone, S)
              \/ Unowned(x) \in Without(gone, S)
BY DEF Without, Of, Unowned

LEMMA RemoveUserType ==
  ASSUME DatabaseType, NEW r \in Handlers, RemoveUser(r)
  PROVE  DatabaseType'
<1> DEFINE gone == AccountsOf(call[r].name)
           Saves == [user : Ids \cup {NoUser}, name : Names, game : Games, score : Posted]
<1>1. {u.id : u \in gone} \subseteq Ids
  BY DEF DatabaseType, AccountsOf, Accounts
<1>2. /\ users' \subseteq users /\ erased' = erased \cup {u.id : u \in gone}
      /\ scores' = Without(gone, scores) /\ saved' = Without(gone, saved)
      /\ UNCHANGED <<schema, nextId, tx, stripped, made>>
  BY DEF RemoveUser
<1>3. scores' \subseteq Rows
  <2>1. \A x \in scores : x \in Rows /\ Unowned(x) \in Rows
    BY DEF DatabaseType, Rows, Unowned
  <2>2. QED BY <1>2, <2>1, WithoutOwners
<1>4. saved' \subseteq Saves
  <2>1. \A x \in saved : x \in Saves /\ Unowned(x) \in Saves
    BY DEF DatabaseType, Unowned
  <2>2. QED BY <1>2, <2>1, WithoutOwners
<1>5. QED BY <1>1, <1>2, <1>3, <1>4 DEF DatabaseType

\* The statements of save-score and delete-account: what they do to the
\* database, answered, refused or without an acknowledgement.
Executed(r) == WriteScore(r) \/ EraseScores(r) \/ RemoveUser(r)

Statement(r) ==
  SaveScore(r) \/ DeleteScores(r) \/ DeleteUser(r) \/ StatementUnacknowledged(r)

LEMMA StatementEffect ==
  ASSUME NEW r \in Handlers, Statement(r)
  PROVE  /\ Executed(r) \/ UNCHANGED <<db, ghosts, tx>>
         /\ r \in holds /\ pc[r] \in {"save", "deleteScores", "deleteUser"}
         /\ Release(r) /\ UNCHANGED <<up, call, broken, requests, made, nextId>>
         /\ \/ Finish(r, 200) \/ Finish(r, 500)
            \/ pc[r] = "deleteScores" /\ Go(r, "deleteUser")
         /\ UNCHANGED faults \/ Fault
BY DEF Statement, Executed, SaveScore, DeleteScores, DeleteUser, StatementUnacknowledged,
       WriteScore, EraseScores, RemoveUser, Sends, db, ghosts

LEMMA ExecutedType ==
  ASSUME DatabaseType, HandlersSound, NEW r \in Handlers, Executed(r)
  PROVE  DatabaseType'
BY WriteScoreType, EraseScoresType, RemoveUserType DEF Executed

LEMMA InsertUserType ==
  ASSUME DatabaseType, HandlersSound, NEW r \in Handlers, InsertUser(r)
  PROVE  DatabaseType'
<1> DEFINE c == call[r]
           account == [id |-> nextId, name |-> c.name, password |-> c.password]
<1>1. c \in Calls /\ c.op = "register"
  BY DEF InsertUser, Sends, HandlersSound, Active, TxStatements
<1>2. account \in Accounts
  BY <1>1, CallFields DEF DatabaseType, Accounts
<1>3. CASE AccountsOf(c.name) # {}
  BY <1>3 DEF InsertUser, DatabaseType
<1>4. CASE AccountsOf(c.name) = {}
  <2>1. /\ tx' = [tx EXCEPT ![r].user = {account}]
        /\ made' = [made EXCEPT ![r] = nextId]
        /\ nextId' = nextId + 1
    BY <1>4 DEF InsertUser
  <2>2. tx' \in [Handlers -> [user : SUBSET Accounts, rows : SUBSET Rows]]
    BY <2>1, <1>2 DEF DatabaseType
  <2>3. nextId' \in Ids
    BY <2>1 DEF DatabaseType, Ids
  <2>4. QED BY <2>1, <2>2, <2>3 DEF InsertUser, DatabaseType
<1>5. QED BY <1>3, <1>4

LEMMA InsertScoresType ==
  ASSUME DatabaseType, HandlersSound, NEW r \in Handlers, InsertScores(r)
  PROVE  DatabaseType'
<1> DEFINE n == call[r].name
           rows == {[user |-> made[r], name |-> n, game |-> g, high |-> 0] : g \in InitialGames}
<1>1. n \in Names
  BY CallFields DEF InsertScores, Sends, HandlersSound, Active
<1>2. made[r] \in Ids
  BY DEF InsertScores, Sends, HandlersSound
<1>3. rows \subseteq Rows
  BY <1>1, <1>2 DEF Rows
<1>4. tx' = tx \/ tx' = [tx EXCEPT ![r].rows = rows]
  BY DEF InsertScores
<1>5. tx' \in [Handlers -> [user : SUBSET Accounts, rows : SUBSET Rows]]
  BY <1>3, <1>4 DEF DatabaseType
<1>6. QED BY <1>5 DEF InsertScores, DatabaseType, db, ghosts

LEMMA ApplyTxType ==
  ASSUME DatabaseType, NEW r \in Handlers, ApplyTx(r), UNCHANGED ghosts
  PROVE  DatabaseType'
<1>1. tx[r].user \subseteq Accounts /\ tx[r].rows \subseteq Rows
  BY DEF DatabaseType
<1>2. tx' \in [Handlers -> [user : SUBSET Accounts, rows : SUBSET Rows]]
  BY NoTxType DEF ApplyTx, DatabaseType
<1>3. QED BY <1>1, <1>2 DEF ApplyTx, DatabaseType, ghosts

-----------------------------------------------------------------------------
(* The server: the handlers, and the connections they hold.                    *)

\* These three are inductive together.
Server == ServerType /\ HandlersSound /\ PoolConserved

Statements == PoolStatements \cup TxStatements \cup {"idle", "done", "rollback"}

LEMMA AcquirePool ==
  ASSUME ServerType, PoolConserved, NEW r \in Handlers, r \notin holds,
         free > 0, free' = free - 1, holds' = holds \cup {r}
  PROVE  /\ free' \in 0..ConnectionLimit
         /\ free' + Cardinality(holds') = ConnectionLimit
<1>1. IsFiniteSet(holds)
  BY FS_Subset, ConstantsAssumption DEF ServerType
<1>2. Cardinality(holds') = Cardinality(holds) + 1
  BY <1>1, FS_AddElement
<1>3. Cardinality(holds) \in Nat
  BY <1>1, FS_CardinalityType
<1>4. QED BY <1>2, <1>3, ConstantsAssumption DEF ServerType, PoolConserved

LEMMA ReleasePool ==
  ASSUME ServerType, PoolConserved, NEW r \in holds, Release(r)
  PROVE  /\ free' \in 0..ConnectionLimit
         /\ holds' \subseteq Handlers
         /\ free' + Cardinality(holds') = ConnectionLimit
<1>1. IsFiniteSet(holds)
  BY FS_Subset, ConstantsAssumption DEF ServerType
<1>2. Cardinality(holds \ {r}) = Cardinality(holds) - 1
  BY <1>1, FS_RemoveElement
<1>3. Cardinality(holds) \in Nat /\ Cardinality(holds \ {r}) \in Nat
  BY <1>1, FS_RemoveElement, FS_CardinalityType
<1>4. QED BY <1>2, <1>3, ConstantsAssumption DEF ServerType, PoolConserved, Release

\* A handler that answers and returns its connection.
LEMMA FinishServer ==
  ASSUME Server, NEW r \in holds, NEW code \in {0, 200, 201, 400, 401, 409, 500},
         Release(r), Finish(r, code),
         UNCHANGED <<up, call, requests, made>>,
         faults' \in 0..MaxFaults, broken' \subseteq Handlers
  PROVE  Server'
<1>1. ServerType'
  BY ReleasePool DEF Server, ServerType, Finish
<1>2. HandlersSound'
  BY DEF Server, ServerType, HandlersSound, Finish, Release, Active, TxStatements
<1>3. PoolConserved'
  <2>1. free' + Cardinality(holds') = ConnectionLimit
    BY ReleasePool DEF Server
  <2>2. \A q \in holds' : Active(q)'
    BY DEF Server, ServerType, PoolConserved, Finish, Release, Active
  <2>3. QED BY <2>1, <2>2 DEF PoolConserved
<1>4. QED BY <1>1, <1>2, <1>3 DEF Server

\* A handler that goes on to another statement and keeps its connection.
LEMMA GoServer ==
  ASSUME Server, NEW r \in holds, UNCHANGED <<pool, up, call, requests>>,
         NEW next \in TxStatements \cup {"rollback"}, pc' = [pc EXCEPT ![r] = next],
         call[r] \in Calls, call[r].op = "register",
         resp' \in [Handlers -> {0, 200, 201, 400, 401, 409, 500}],
         faults' \in 0..MaxFaults, broken' \subseteq Handlers,
         \A q \in Handlers \ {r} : made'[q] = made[q],
         next = "insertScores" => made'[r] \in Ids,
         \A q \in Handlers \ {r} : resp'[q] = resp[q],
         next = "rollback" => resp'[r] \in {409, 500}
  PROVE  Server'
<1>1. ServerType'
  BY DEF Server, ServerType, pool
<1>2. HandlersSound'
  <2> SUFFICES ASSUME NEW q \in Handlers
               PROVE  /\ Active(q)' => call'[q] \in Calls
                      /\ pc'[q] = "select" => call'[q].op \in {"login", "check"}
                      /\ pc'[q] = "save" => call'[q].op = "save"
                      /\ pc'[q] \in TxStatements \cup {"rollback"} => call'[q].op = "register"
                      /\ pc'[q] \in {"insertUser", "insertScores", "commit", "rollback"}
                           => q \in holds'
                      /\ pc'[q] = "insertScores" => made'[q] \in Ids
                      /\ pc'[q] = "rollback" => resp'[q] \in {409, 500}
    BY DEF HandlersSound
  <2>1. call' = call /\ holds' = holds
    BY DEF pool
  <2>2. CASE q = r
    <3>1. pc'[q] = next
      BY <2>2 DEF Server, ServerType
    <3>2. next \notin {"select", "save"}
      BY DEF TxStatements
    <3>3. q \in holds' /\ call'[q] \in Calls /\ call'[q].op = "register"
      BY <2>1, <2>2
    <3>4. pc'[q] = "insertScores" => made'[q] \in Ids
      BY <2>2, <3>1
    <3>5. QED BY <2>2, <3>1, <3>2, <3>3, <3>4
  <2>3. CASE q # r
    <3>1. pc'[q] = pc[q] /\ made'[q] = made[q] /\ resp'[q] = resp[q]
      BY <2>3 DEF Server, ServerType
    <3>2. QED BY <2>1, <3>1 DEF Server, HandlersSound, Active
  <2>4. QED BY <2>2, <2>3
<1>3. PoolConserved'
  BY DEF Server, ServerType, PoolConserved, Active, pool, TxStatements
<1>4. QED BY <1>1, <1>2, <1>3 DEF Server

LEMMA ReceiveServer ==
  ASSUME Server, NEW r \in Handlers, Receive(r), made \in [Handlers -> Ids \cup {0}]
  PROVE  Server'
<1>1. PICK c \in Calls :
        /\ call' = [call EXCEPT ![r] = c]
        /\ made' = [made EXCEPT ![r] = 0]
        /\ IF c.op = "save" /\ c.score = 0
           THEN Finish(r, 400)
           ELSE /\ pc' = [pc EXCEPT ![r] = FirstStatement(c.op)]
                /\ resp' = [resp EXCEPT ![r] = 0]
  BY DEF Receive
<1>2. PICK stmt : /\ pc' = [pc EXCEPT ![r] = stmt]
                  /\ \/ stmt = "done"
                     \/ stmt = "select" /\ c.op \in {"login", "check"}
                     \/ stmt = "save" /\ c.op = "save"
                     \/ stmt = "deleteScores" /\ c.op = "delete"
                     \/ stmt = "begin" /\ c.op = "register"
  <2>1. c.op \in {"login", "register", "check", "delete", "save"}
    BY CallFields
  <2>2. CASE c.op = "save" /\ c.score = 0
    BY <1>1, <2>2 DEF Finish
  <2>3. CASE ~(c.op = "save" /\ c.score = 0)
    BY <1>1, <2>1, <2>3 DEF FirstStatement
  <2>4. QED BY <2>2, <2>3
<1>3. resp' \in [Handlers -> {0, 200, 201, 400, 401, 409, 500}]
  BY <1>1 DEF Finish, Server, ServerType
<1>4. /\ requests' \in 0..MaxRequests /\ r \notin holds
      /\ UNCHANGED <<up, free, holds, broken, faults>>
  <2>1. requests' \in 0..MaxRequests
    BY ConstantsAssumption DEF Receive, Server, ServerType
  <2>2. QED BY <2>1 DEF Receive, pool, Server, PoolConserved
<1>5. ServerType'
  <2>1. call' \in [Handlers -> Calls \cup {NoCall}]
    BY <1>1 DEF Server, ServerType
  <2>2. stmt \in Statements
    BY <1>2 DEF Statements, PoolStatements, TxStatements
  <2>3. pc' \in [Handlers -> Statements]
    BY <1>2, <2>2 DEF Server, ServerType, Statements
  <2>4. QED BY <1>3, <1>4, <2>1, <2>3 DEF Server, ServerType, Statements
<1>6. HandlersSound'
  <2>1. \A q \in Handlers \ {r} : pc'[q] = pc[q] /\ resp'[q] = resp[q]
    BY <1>1, <1>2 DEF Finish, Server, ServerType
  <2>2. pc'[r] = stmt /\ stmt # "rollback"
    BY <1>2 DEF Server, ServerType
  <2>3. QED BY <1>1, <1>2, <1>4, <2>1, <2>2
               DEF Server, ServerType, HandlersSound, Active, TxStatements
<1>7. PoolConserved'
  BY <1>2, <1>4 DEF Server, ServerType, PoolConserved, Active
<1>8. QED BY <1>5, <1>6, <1>7 DEF Server

LEMMA AcquireServer ==
  ASSUME Server, NEW r \in Handlers, Acquire(r)
  PROVE  Server'
<1>1. /\ free' \in 0..ConnectionLimit
      /\ free' + Cardinality(holds') = ConnectionLimit
  BY AcquirePool DEF Acquire, Server
<1>2. ServerType'
  BY <1>1 DEF Acquire, Server, ServerType
<1>3. HandlersSound'
  BY DEF Acquire, Server, HandlersSound, Active, ghosts
<1>4. PoolConserved'
  BY <1>1 DEF Acquire, Server, PoolConserved, Active
<1>5. QED BY <1>2, <1>3, <1>4 DEF Server

LEMMA ExitServer ==
  ASSUME Server, Exit, faults' \in 0..MaxFaults
  PROVE  Server'
<1>1. ServerType'
  <2>1. pc' \in [Handlers -> Statements]
    BY DEF Exit, Server, ServerType, Statements
  <2>2. resp' \in [Handlers -> {0, 200, 201, 400, 401, 409, 500}]
    BY DEF Exit, Server, ServerType
  <2>3. free' \in 0..ConnectionLimit
    BY ConstantsAssumption DEF Exit
  <2>4. QED BY <2>1, <2>2, <2>3 DEF Exit, Server, ServerType, Statements
<1>2. \A r \in Handlers : pc'[r] \in {"idle", "done"}
  BY DEF Exit, Active
<1>3. HandlersSound'
  BY <1>2 DEF HandlersSound, Active, TxStatements
<1>4. PoolConserved'
  BY FS_EmptySet, ConstantsAssumption DEF Exit, PoolConserved
<1>5. QED BY <1>1, <1>3, <1>4 DEF Server

\* A statement of a handler that was still waiting for a connection fails.
LEMMA StatementFailsServer ==
  ASSUME Server, NEW r \in Handlers, StatementFails(r)
  PROVE  Server'
<1>1. Finish(r, 500) /\ UNCHANGED <<up, call, requests, broken, made>>
      /\ faults' \in 0..MaxFaults
  BY ConstantsAssumption DEF StatementFails, Fault, ghosts, Server, ServerType
<1>2. CASE r \in holds
  BY <1>1, <1>2, FinishServer DEF StatementFails, Server, ServerType
<1>3. CASE r \notin holds
  <2>1. UNCHANGED <<free, holds>>
    BY <1>3 DEF StatementFails, pool
  <2>2. ServerType'
    BY <1>1, <2>1 DEF Server, ServerType, Finish
  <2>3. HandlersSound'
    BY <1>1, <2>1 DEF Server, ServerType, HandlersSound, Finish, Active, TxStatements
  <2>4. PoolConserved'
    BY <1>1, <1>3, <2>1 DEF Server, ServerType, PoolConserved, Finish, Active
  <2>5. QED BY <2>2, <2>3, <2>4 DEF Server
<1>4. QED BY <1>2, <1>3

\* A statement of save-score or delete-account, acknowledged or not.  Between its
\* two delete-account holds no connection.
LEMMA StatementServer ==
  ASSUME Server, NEW r \in Handlers, Statement(r)
  PROVE  Server'
<1>1. /\ r \in holds /\ Release(r) /\ pc[r] \in {"save", "deleteScores", "deleteUser"}
      /\ UNCHANGED <<up, call, broken, requests, made>>
  BY StatementEffect
<1>2. faults' \in 0..MaxFaults
  BY StatementEffect, ConstantsAssumption DEF Fault, Server, ServerType
<1>3. CASE Finish(r, 200) \/ Finish(r, 500)
  BY <1>1, <1>2, <1>3, FinishServer DEF Server, ServerType
<1>4. CASE Go(r, "deleteUser")
  <2>1. pc' = [pc EXCEPT ![r] = "deleteUser"] /\ resp' = resp
    BY <1>4 DEF Go
  <2>2. ServerType'
    <3>1. free' \in 0..ConnectionLimit /\ holds' \subseteq Handlers
      BY <1>1, ReleasePool DEF Server
    <3>2. pc' \in [Handlers -> Statements]
      BY <2>1 DEF Server, ServerType, Statements, PoolStatements
    <3>3. QED BY <1>1, <1>2, <2>1, <3>1, <3>2 DEF Server, ServerType, Statements
  <2>3. HandlersSound'
    <3>1. call[r] \in Calls
      BY <1>1 DEF Server, HandlersSound, Active
    <3>2. QED BY <1>1, <2>1, <3>1 DEF Server, ServerType, HandlersSound, Active, TxStatements,
                                      Release
  <2>4. PoolConserved'
    <3>1. free' + Cardinality(holds') = ConnectionLimit
      BY <1>1, ReleasePool DEF Server
    <3>2. \A q \in holds' : Active(q)'
      BY <1>1, <2>1 DEF Server, ServerType, PoolConserved, Active, Release
    <3>3. QED BY <3>1, <3>2 DEF PoolConserved
  <2>5. QED BY <2>2, <2>3, <2>4 DEF Server
<1>5. QED BY <1>3, <1>4, StatementEffect

\* The statements of register, each on the connection the handler holds.
LEMMA TransactionServer ==
  ASSUME Server, made \in [Handlers -> Ids \cup {0}], nextId \in Ids, NEW r \in Handlers,
         \/ BeginTransaction(r) \/ InsertUser(r) \/ InsertScores(r)
         \/ TxStatementFails(r) \/ CommitUnacknowledged(r)
  PROVE  Server'
<1>1. r \in holds /\ pc[r] \in TxStatements
  BY DEF BeginTransaction, InsertUser, InsertScores, TxStatementFails, CommitUnacknowledged,
         Sends, TxStatements
<1>2. call[r] \in Calls /\ call[r].op = "register"
  BY <1>1 DEF Server, HandlersSound, Active, TxStatements
<1>3. UNCHANGED <<pool, up, call, requests>> /\ broken' \subseteq Handlers
  BY DEF BeginTransaction, InsertUser, InsertScores, TxStatementFails, CommitUnacknowledged,
         pool, Server, ServerType
<1>4. faults' \in 0..MaxFaults
  BY ConstantsAssumption
     DEF BeginTransaction, InsertUser, InsertScores, TxStatementFails, CommitUnacknowledged,
         Fault, Server, ServerType
<1>5. /\ resp' \in [Handlers -> {0, 200, 201, 400, 401, 409, 500}]
      /\ \A q \in Handlers \ {r} : made'[q] = made[q] /\ resp'[q] = resp[q]
  BY DEF BeginTransaction, InsertUser, InsertScores, TxStatementFails, CommitUnacknowledged,
         Catch, Go, Server, ServerType, ghosts
<1>6. \/ pc' = [pc EXCEPT ![r] = "rollback"] /\ resp'[r] \in {409, 500}
      \/ pc' = [pc EXCEPT ![r] = "insertUser"]
      \/ pc' = [pc EXCEPT ![r] = "insertScores"] /\ made'[r] \in Ids
      \/ pc' = [pc EXCEPT ![r] = "commit"]
  BY DEF BeginTransaction, InsertUser, InsertScores, TxStatementFails, CommitUnacknowledged,
         Catch, Go, Server, ServerType
<1>7. QED BY <1>1, <1>2, <1>3, <1>4, <1>5, <1>6, GoServer DEF TxStatements

\* The statements after which a handler answers.
LEMMA AnswerServer ==
  ASSUME Server, NEW r \in Handlers,
         Select(r) \/ Commit(r) \/ Rollback(r)
  PROVE  Server'
<1>1. r \in holds /\ Release(r)
  BY DEF Select, Commit, Rollback, Sends, Server, HandlersSound
<1>2. \E code \in {0, 200, 201, 400, 401, 409, 500} : Finish(r, code)
  BY DEF Select, SelectStatus, Commit, Rollback, Server, ServerType
<1>3. UNCHANGED <<up, call, requests, made, faults, broken>>
  BY DEF Select, Commit, Rollback, ghosts
<1>4. QED BY <1>1, <1>2, <1>3, FinishServer DEF Server, ServerType

-----------------------------------------------------------------------------
(* Every step.                                                                 *)

LEMMA DatabaseStep ==
  ASSUME DatabaseType, HandlersSound, [Next]_vars
  PROVE  DatabaseType'
<1>1. ASSUME NEW r \in Handlers, Statement(r) PROVE DatabaseType'
  <2>1. CASE Executed(r)
    BY <2>1, ExecutedType
  <2>2. CASE UNCHANGED <<db, ghosts, tx>>
    BY <2>2 DEF DatabaseType, db, ghosts
  <2>3. QED BY <1>1, <2>1, <2>2, StatementEffect
<1>2. ASSUME NEW r \in Handlers, InsertUser(r) PROVE DatabaseType'
  BY <1>2, InsertUserType
<1>3. ASSUME NEW r \in Handlers, InsertScores(r) PROVE DatabaseType'
  BY <1>3, InsertScoresType
<1>4. ASSUME NEW r \in Handlers, Commit(r) \/ CommitUnacknowledged(r) PROVE DatabaseType'
  BY <1>4, ApplyTxType DEF Commit, CommitUnacknowledged
<1>5. ASSUME NEW r \in Handlers, Receive(r) PROVE DatabaseType'
  BY <1>5 DEF Receive, DatabaseType, db
<1>6. ASSUME NEW r \in Handlers, Rollback(r) PROVE DatabaseType'
  BY <1>6, NoTxType DEF Rollback, UndoTx, DatabaseType, db, ghosts
<1>7. ASSUME Exit PROVE DatabaseType'
  BY <1>7, NoTxType DEF Exit, DatabaseType, db, ghosts
<1>8. ASSUME NEW r \in Handlers,
             \/ Acquire(r) \/ Select(r) \/ BeginTransaction(r)
             \/ StatementFails(r) \/ TxStatementFails(r)
      PROVE  DatabaseType'
  BY <1>8 DEF Acquire, Select, BeginTransaction, StatementFails, TxStatementFails,
              DatabaseType, db, ghosts
<1>9. ASSUME Restart \/ UNCHANGED vars PROVE DatabaseType'
  BY <1>9 DEF Restart, DatabaseType, db, ghosts, vars
<1>10. QED
  BY <1>1, <1>2, <1>3, <1>4, <1>5, <1>6, <1>7, <1>8, <1>9
     DEF Next, Serve, Fails, Statement, GetConnectionRejects, RollbackRejects, Killed

LEMMA ServerStep ==
  ASSUME DatabaseType, Server, [Next]_vars
  PROVE  Server'
<1>1. ASSUME NEW r \in Handlers, Receive(r) PROVE Server'
  BY <1>1, ReceiveServer DEF DatabaseType
<1>2. ASSUME NEW r \in Handlers, Acquire(r) PROVE Server'
  BY <1>2, AcquireServer
<1>3. ASSUME NEW r \in Handlers,
             Select(r) \/ Commit(r) \/ Rollback(r)
      PROVE  Server'
  BY <1>3, AnswerServer
<1>4. ASSUME NEW r \in Handlers, Statement(r) PROVE Server'
  BY <1>4, StatementServer
<1>5. ASSUME NEW r \in Handlers,
             \/ BeginTransaction(r) \/ InsertUser(r) \/ InsertScores(r)
             \/ TxStatementFails(r) \/ CommitUnacknowledged(r)
      PROVE  Server'
  BY <1>5, TransactionServer DEF DatabaseType
<1>6. ASSUME NEW r \in Handlers, StatementFails(r) PROVE Server'
  BY <1>6, StatementFailsServer
<1>7. ASSUME NEW r \in Handlers, GetConnectionRejects(r) \/ RollbackRejects(r)
      PROVE  Server'
  <2>1. Exit /\ faults' \in 0..MaxFaults
    BY <1>7, ConstantsAssumption
       DEF GetConnectionRejects, RollbackRejects, Fault, Server, ServerType
  <2>2. QED BY <2>1, ExitServer
<1>8. ASSUME Killed PROVE Server'
  <2>1. Exit /\ faults' \in 0..MaxFaults
    BY <1>8, ConstantsAssumption DEF Killed, Fault, Server, ServerType
  <2>2. QED BY <2>1, ExitServer
<1>9. ASSUME Restart PROVE Server'
  BY <1>9 DEF Restart, Server, ServerType, HandlersSound, PoolConserved, Active, pool, ghosts
<1>10. ASSUME UNCHANGED vars PROVE Server'
  BY <1>10 DEF vars, Server, ServerType, HandlersSound, PoolConserved, Active
<1>11. QED
  BY <1>1, <1>2, <1>3, <1>4, <1>5, <1>6, <1>7, <1>8, <1>9, <1>10
     DEF Next, Serve, Fails, Statement

LEMMA InitParts == Init => DatabaseType /\ Server
<1> SUFFICES ASSUME Init PROVE DatabaseType /\ Server
  OBVIOUS
<1>1. DatabaseType
  BY NoTxType DEF Init, DatabaseType, Ids
<1>2. ServerType
  BY ConstantsAssumption DEF Init, ServerType
<1>3. HandlersSound
  BY DEF Init, HandlersSound, Active, TxStatements
<1>4. PoolConserved
  BY FS_EmptySet, ConstantsAssumption DEF Init, PoolConserved
<1>5. QED BY <1>1, <1>2, <1>3, <1>4 DEF Server

LEMMA PartsHold == Spec => [](DatabaseType /\ Server)
<1>1. DatabaseType /\ Server /\ [Next]_vars => (DatabaseType /\ Server)'
  BY DatabaseStep, ServerStep DEF Server
<1>2. QED BY <1>1, InitParts, PTL DEF Spec

(* Every variable keeps its type, whatever fails and however the handlers      *)
(* interleave.                                                                 *)
THEOREM TypeCorrect == Spec => []TypeOK
<1>1. DatabaseType /\ Server => TypeOK
  BY TypeParts DEF Server
<1>2. QED BY <1>1, PartsHold, PTL

(* No connection of the pool is lost or handed out twice, for any number of    *)
(* handlers and connections.                                                   *)
THEOREM PoolSafe == Spec => []PoolConserved
<1>1. DatabaseType /\ Server => PoolConserved
  BY DEF Server
<1>2. QED BY <1>1, PartsHold, PTL

-----------------------------------------------------------------------------
(* Names.  No two accounts share one: at a commit this needs that a name       *)
(* inserted by an open transaction is reserved.                                *)

NamesSound == UniqueNames /\ NamesReserved

\* Committed accounts and open transactions only disappear.
LEMMA NamesShrink ==
  ASSUME NamesSound, users' \subseteq users,
         \A q \in Handlers : tx'[q].user \subseteq tx[q].user
  PROVE  NamesSound'
<1>1. UniqueNames'
  BY DEF NamesSound, UniqueNames
<1>2. NamesReserved'
  BY DEF NamesSound, NamesReserved
<1>3. QED BY <1>1, <1>2 DEF NamesSound

LEMMA InsertUserNames ==
  ASSUME DatabaseType, NamesSound, NEW r \in Handlers, InsertUser(r)
  PROVE  NamesSound'
<1> DEFINE c == call[r]
           account == [id |-> nextId, name |-> c.name, password |-> c.password]
<1>1. CASE AccountsOf(c.name) # {}
  <2>1. UNCHANGED <<users, tx>>
    BY <1>1 DEF InsertUser
  <2>2. QED BY <2>1, NamesShrink
<1>2. CASE AccountsOf(c.name) = {}
  <2>1. tx' = [tx EXCEPT ![r].user = {account}] /\ UNCHANGED users
    BY <1>2 DEF InsertUser
  <2>2. \A v \in users : v.name # c.name
    BY <1>2 DEF AccountsOf
  <2>3. \A q \in Handlers : \A v \in tx[q].user : v.name # c.name
    BY DEF InsertUser, NameLocked
  <2>4. tx'[r].user = {account} /\ \A q \in Handlers \ {r} : tx'[q] = tx[q]
    BY <2>1 DEF DatabaseType
  <2>5. account.name = c.name
    OBVIOUS
  <2>6. ASSUME NEW p \in Handlers, NEW u \in tx'[p].user
        PROVE  /\ \A v \in users : v.name # u.name
               /\ \A q \in Handlers : \A v \in tx'[q].user : v.name = u.name => q = p /\ v = u
    <3>1. CASE p = r
      BY <2>2, <2>3, <2>4, <2>5, <3>1
    <3>2. CASE p # r
      <4>1. u \in tx[p].user
        BY <2>4, <3>2
      <4>2. QED BY <2>3, <2>4, <2>5, <4>1 DEF NamesSound, NamesReserved
    <3>3. QED BY <3>1, <3>2
  <2>7. NamesReserved'
    BY <2>1, <2>6 DEF NamesReserved
  <2>8. UniqueNames'
    BY <2>1 DEF NamesSound, UniqueNames
  <2>9. QED BY <2>7, <2>8 DEF NamesSound
<1>3. QED BY <1>1, <1>2

LEMMA ApplyTxNames ==
  ASSUME DatabaseType, NamesSound, NEW r \in Handlers, ApplyTx(r)
  PROVE  NamesSound'
<1>1. users' = users \cup tx[r].user
  BY DEF ApplyTx
<1>2. tx'[r].user = {} /\ \A q \in Handlers \ {r} : tx'[q] = tx[q]
  BY DEF ApplyTx, DatabaseType, NoTx
<1>3. UniqueNames'
  BY <1>1 DEF NamesSound, UniqueNames, NamesReserved
<1>4. NamesReserved'
  <2> SUFFICES ASSUME NEW p \in Handlers, NEW u \in tx'[p].user
               PROVE  /\ \A v \in users' : v.name # u.name
                      /\ \A q \in Handlers : \A v \in tx'[q].user :
                           v.name = u.name => q = p /\ v = u
    BY DEF NamesReserved
  <2>1. p # r /\ u \in tx[p].user
    BY <1>2
  <2>2. \A v \in users' : v.name # u.name
    BY <1>1, <2>1 DEF NamesSound, NamesReserved
  <2>3. \A q \in Handlers : \A v \in tx'[q].user : v \in tx[q].user
    BY <1>2
  <2>4. QED BY <2>1, <2>2, <2>3 DEF NamesSound, NamesReserved
<1>5. QED BY <1>3, <1>4 DEF NamesSound

LEMMA NamesStep ==
  ASSUME DatabaseType, NamesSound, [Next]_vars
  PROVE  NamesSound'
<1>1. ASSUME NEW r \in Handlers, InsertUser(r) PROVE NamesSound'
  BY <1>1, InsertUserNames
<1>2. ASSUME NEW r \in Handlers, Commit(r) \/ CommitUnacknowledged(r) PROVE NamesSound'
  BY <1>2, ApplyTxNames DEF Commit, CommitUnacknowledged
<1>3. ASSUME NEW r \in Handlers, InsertScores(r) PROVE NamesSound'
  <2>1. \A q \in Handlers : tx'[q].user = tx[q].user
    BY <1>3 DEF InsertScores, DatabaseType
  <2>2. users' = users
    BY <1>3 DEF InsertScores, db
  <2>3. QED BY <2>1, <2>2, NamesShrink
<1>4. ASSUME NEW r \in Handlers, Statement(r) PROVE NamesSound'
  <2>1. users' \subseteq users /\ tx' = tx
    BY <1>4, StatementEffect DEF Executed, WriteScore, EraseScores, RemoveUser, db
  <2>2. QED BY <2>1, NamesShrink
<1>5. ASSUME NEW r \in Handlers, Rollback(r) PROVE NamesSound'
  <2>1. \A q \in Handlers : tx'[q].user \subseteq tx[q].user
    BY <1>5 DEF Rollback, UndoTx, DatabaseType, NoTx
  <2>2. QED BY <1>5, <2>1, NamesShrink DEF Rollback, UndoTx, db
<1>6. ASSUME Exit PROVE NamesSound'
  <2>1. \A q \in Handlers : tx'[q].user = {}
    BY <1>6 DEF Exit, NoTx
  <2>2. QED BY <1>6, <2>1, NamesShrink DEF Exit, db
<1>7. ASSUME UNCHANGED <<users, tx>> PROVE NamesSound'
  BY <1>7, NamesShrink
<1>8. ASSUME NEW r \in Handlers,
             \/ Receive(r) \/ Acquire(r) \/ Select(r)
             \/ BeginTransaction(r) \/ StatementFails(r) \/ TxStatementFails(r)
      PROVE  UNCHANGED <<users, tx>>
  BY <1>8 DEF Receive, Acquire, Select, BeginTransaction, StatementFails, TxStatementFails, db
<1>9. Restart \/ UNCHANGED vars => UNCHANGED <<users, tx>>
  BY DEF Restart, db, vars
<1>10. QED
  BY <1>1, <1>2, <1>3, <1>4, <1>5, <1>6, <1>7, <1>8, <1>9
     DEF Next, Serve, Fails, Statement, GetConnectionRejects, RollbackRejects, Killed

-----------------------------------------------------------------------------
(* Ids and owners.  That a failed registration leaves nothing, and that the    *)
(* rows of scores are their owners', is not inductive either: needed is what   *)
(* an open transaction will commit, that ids are taken once, and that the id   *)
(* of an open or rolled back registration is in no committed row.              *)

\* The account and the rows that the INSERTs of a register make.
AccountOf(r) == [id |-> made[r], name |-> call[r].name, password |-> call[r].password]
InitialRowsOf(r) ==
  {[user |-> made[r], name |-> call[r].name, game |-> g, high |-> 0] : g \in InitialGames}

TxSound ==
  \A r \in Handlers :
    /\ pc[r] \in {"insertScores", "commit"} => tx[r].user = {AccountOf(r)}
    /\ pc[r] = "commit" => tx[r].rows = InitialRowsOf(r)

Uncommitted(r) ==
  /\ pc[r] # "idle"
  /\ ~(pc[r] = "done" /\ resp[r] = 201)
  /\ r \notin broken

IdsSound ==
  /\ \A r \in broken : pc[r] = "rollback"
  /\ \A u \in users : u.id < nextId
  /\ \A row \in scores : row.user # NoUser => row.user < nextId
  /\ \A r \in Handlers : made[r] < nextId
  /\ \A q, r \in Handlers : made[q] = made[r] /\ made[r] # 0 => q = r
  /\ \A u, v \in users : u.id = v.id => u = v
  /\ \A r \in Handlers : Uncommitted(r) =>
       /\ \A u \in users : u.id # made[r]
       /\ \A row \in scores : row.user # made[r]

OwnersSound == \A row \in scores : \A u \in users : u.id = row.user => u.name = row.name

\* What a step other than an INSERT or a COMMIT of register leaves of TxSound.
LEMMA TxKept ==
  ASSUME TxSound,
         \A r \in Handlers : pc'[r] \in {"insertScores", "commit"} =>
           pc'[r] = pc[r] /\ tx'[r] = tx[r] /\ made'[r] = made[r] /\ call'[r] = call[r]
  PROVE  TxSound'
BY DEF TxSound, AccountOf, InitialRowsOf

LEMMA InsertUserTx ==
  ASSUME DatabaseType, ServerType, TxSound, NEW r \in Handlers, InsertUser(r)
  PROVE  TxSound'
<1>1. CASE AccountsOf(call[r].name) # {}
  <2>1. \A q \in Handlers : pc'[q] \in {"insertScores", "commit"} => pc'[q] = pc[q]
    BY <1>1 DEF InsertUser, Catch, ServerType
  <2>2. UNCHANGED <<tx, made, call>>
    BY <1>1 DEF InsertUser
  <2> QED
    BY <2>1, <2>2, TxKept
<1>2. CASE AccountsOf(call[r].name) = {}
  <2>1. /\ tx' = [tx EXCEPT ![r].user = {[id |-> nextId, name |-> call[r].name,
                                          password |-> call[r].password]}]
        /\ made' = [made EXCEPT ![r] = nextId]
        /\ pc' = [pc EXCEPT ![r] = "insertScores"]
        /\ call' = call
    BY <1>2 DEF InsertUser, Go
  <2>2. tx'[r].user = {AccountOf(r)'}
    BY <2>1 DEF DatabaseType, AccountOf
  <2>3. \A q \in Handlers \ {r} : pc'[q] = pc[q] /\ tx'[q] = tx[q] /\ made'[q] = made[q]
    BY <2>1 DEF DatabaseType, ServerType
  <2>4. pc'[r] = "insertScores"
    BY <2>1 DEF ServerType
  <2> QED
    BY <2>1, <2>2, <2>3, <2>4 DEF TxSound, AccountOf, InitialRowsOf
<1> QED
  BY <1>1, <1>2

LEMMA InsertScoresTx ==
  ASSUME DatabaseType, ServerType, TxSound, NEW r \in Handlers, InsertScores(r)
  PROVE  TxSound'
<1>1. UNCHANGED <<made, call>> /\ pc[r] = "insertScores"
  BY DEF InsertScores, ghosts, Sends
<1>2. CASE tx' = tx /\ pc' = [pc EXCEPT ![r] = "rollback"]
  <2>1. \A q \in Handlers : pc'[q] \in {"insertScores", "commit"} => pc'[q] = pc[q]
    BY <1>2 DEF ServerType
  <2> QED
    BY <1>1, <1>2, <2>1, TxKept
<1>3. CASE /\ tx' = [tx EXCEPT ![r].rows = InitialRowsOf(r)]
           /\ pc' = [pc EXCEPT ![r] = "commit"]
  <2>1. tx'[r].user = tx[r].user /\ tx'[r].rows = InitialRowsOf(r)
    BY <1>3 DEF DatabaseType
  <2>2. \A q \in Handlers \ {r} : pc'[q] = pc[q] /\ tx'[q] = tx[q]
    BY <1>3 DEF DatabaseType, ServerType
  <2>3. tx[r].user = {AccountOf(r)}
    BY <1>1 DEF TxSound
  <2> QED
    BY <1>1, <2>1, <2>2, <2>3 DEF TxSound, AccountOf, InitialRowsOf
<1> QED
  BY <1>2, <1>3 DEF InsertScores, Catch, Go, InitialRowsOf

\* The steps that add no account and take no id.
LEMMA IdsKept ==
  ASSUME DatabaseType, IdsSound, users' \subseteq users, nextId' = nextId,
         \A r \in broken' : pc'[r] = "rollback",
         \A row \in scores' : \/ row.user = NoUser
                              \/ \E old \in scores : old.user = row.user
                              \/ \E u \in users : u.id = row.user,
         \A r \in Handlers : \/ made'[r] = 0
                             \/ made'[r] = made[r] /\ (Uncommitted(r)' => Uncommitted(r)),
         \A row \in scores' : row.user # 0
  PROVE  IdsSound'
<1>1. nextId \in Nat /\ 0 < nextId
  BY DEF DatabaseType, Ids
<1>2. \A u \in users' : u.id < nextId'
  BY DEF IdsSound
<1>3. \A row \in scores' : row.user # NoUser => row.user < nextId'
  BY DEF IdsSound
<1>4. \A r \in Handlers : made'[r] < nextId'
  BY <1>1 DEF IdsSound
<1>5. \A q, r \in Handlers : made'[q] = made'[r] /\ made'[r] # 0 => q = r
  BY DEF IdsSound
<1>6. \A u, v \in users' : u.id = v.id => u = v
  BY DEF IdsSound
<1>7. ASSUME NEW r \in Handlers, Uncommitted(r)'
      PROVE  /\ \A u \in users' : u.id # made'[r]
             /\ \A row \in scores' : row.user # made'[r]
  <2>1. CASE made'[r] = 0
    <3>1. \A u \in users' : u.id # 0
      BY DEF DatabaseType, Accounts, Ids
    <3> QED
      BY <2>1, <3>1
  <2>2. CASE made'[r] # 0 /\ made'[r] = made[r] /\ Uncommitted(r)
    <3>1. made[r] # NoUser
      BY ConstantsAssumption DEF DatabaseType, Ids
    <3> QED
      BY <2>2, <3>1 DEF IdsSound
  <2> QED
    BY <1>7, <2>1, <2>2
<1> QED
  BY <1>2, <1>3, <1>4, <1>5, <1>6, <1>7 DEF IdsSound

LEMMA InsertUserIds ==
  ASSUME DatabaseType, ServerType, IdsSound, NEW r \in Handlers, InsertUser(r)
  PROVE  IdsSound'
<1>1. nextId \in Nat /\ 0 < nextId
  BY DEF DatabaseType, Ids
<1>2. UNCHANGED <<users, scores, broken>> /\ pc[r] = "insertUser"
  BY DEF InsertUser, Sends
<1>3. \A q \in broken : pc'[q] = "rollback"
  <2>1. r \notin broken
    BY <1>2 DEF IdsSound
  <2>2. \A q \in Handlers \ {r} : pc'[q] = pc[q]
    BY DEF InsertUser, Catch, Go, ServerType
  <2> QED
    BY <2>1, <2>2 DEF IdsSound, ServerType
<1>4. \A q \in Handlers : Uncommitted(q)' => Uncommitted(q)
  <2>1. Uncommitted(r)
    BY <1>2 DEF Uncommitted, IdsSound
  <2>2. \A q \in Handlers \ {r} : pc'[q] = pc[q] /\ resp'[q] = resp[q]
    BY DEF InsertUser, Catch, Go, ServerType
  <2> QED
    BY <1>2, <2>1, <2>2 DEF Uncommitted
<1>5. \A row \in scores : row.user # 0
  BY ConstantsAssumption DEF DatabaseType, Rows, Ids
<1>6. CASE AccountsOf(call[r].name) # {}
  <2>1. UNCHANGED <<nextId, made>>
    BY <1>6 DEF InsertUser
  <2> QED
    BY <1>2, <1>3, <1>4, <1>5, <2>1, IdsKept
<1>7. CASE AccountsOf(call[r].name) = {}
  <2>1. made' = [made EXCEPT ![r] = nextId] /\ nextId' = nextId + 1
    BY <1>7 DEF InsertUser
  <2>2. made'[r] = nextId /\ \A q \in Handlers \ {r} : made'[q] = made[q]
    BY <2>1 DEF DatabaseType
  <2>3. \A q \in Handlers : made[q] \in Nat /\ made[q] < nextId
    BY DEF DatabaseType, IdsSound, Ids
  <2>4. \A u \in users : u.id \in Nat /\ u.id < nextId
    BY DEF DatabaseType, Accounts, IdsSound, Ids
  <2>5. \A row \in scores : row.user # NoUser => row.user \in Nat /\ row.user < nextId
    BY DEF DatabaseType, Rows, IdsSound, Ids
  <2>6. \A q \in Handlers : made'[q] < nextId'
    BY <1>1, <2>1, <2>2, <2>3
  <2>7. \A p, q \in Handlers : made'[p] = made'[q] /\ made'[q] # 0 => p = q
    BY <1>1, <2>2, <2>3 DEF IdsSound
  <2>8. \A u \in users : u.id < nextId'
    BY <1>1, <2>1, <2>4
  <2>9. \A row \in scores : row.user # NoUser => row.user < nextId'
    BY <1>1, <2>1, <2>5
  <2>10. ASSUME NEW q \in Handlers, Uncommitted(q)'
         PROVE  /\ \A u \in users : u.id # made'[q]
                /\ \A row \in scores : row.user # made'[q]
    <3>1. CASE q = r
      <4>1. NoUser # nextId
        BY <1>1, ConstantsAssumption
      <4> QED
        BY <1>1, <2>2, <2>4, <2>5, <3>1, <4>1
    <3>2. CASE q # r
      BY <1>4, <2>2, <2>10, <3>2 DEF IdsSound
    <3> QED
      BY <3>1, <3>2
  <2> QED
    BY <1>2, <1>3, <2>6, <2>7, <2>8, <2>9, <2>10 DEF IdsSound
<1> QED
  BY <1>6, <1>7

\* A COMMIT, acknowledged or not: what it adds and where it leaves r.
LEMMA CommitEffect ==
  ASSUME DatabaseType, ServerType, TxSound, IdsSound, NEW r \in Handlers,
         Commit(r) \/ CommitUnacknowledged(r)
  PROVE  /\ users' = users \cup {AccountOf(r)}
         /\ scores' = scores \cup InitialRowsOf(r)
         /\ UNCHANGED <<schema, nextId, made, call, saved, stripped, erased>>
         /\ pc[r] = "commit" /\ r \notin broken
         /\ (pc'[r] = "done" /\ resp'[r] = 201) \/ (pc'[r] = "rollback" /\ r \in broken')
         /\ \A q \in Handlers \ {r} :
              pc'[q] = pc[q] /\ resp'[q] = resp[q] /\ tx'[q] = tx[q]
         /\ \A q \in broken' : q \in broken \/ (q = r /\ pc'[r] = "rollback")
         /\ broken \subseteq broken'
<1>1. ApplyTx(r) /\ pc[r] = "commit"
  BY DEF Commit, CommitUnacknowledged, Sends
<1>2. tx[r].user = {AccountOf(r)} /\ tx[r].rows = InitialRowsOf(r)
  BY <1>1 DEF TxSound
<1>3. UNCHANGED <<made, call, saved, stripped, erased>>
  BY DEF Commit, CommitUnacknowledged, ghosts
<1>4. r \notin broken
  BY <1>1 DEF IdsSound
<1>5. CASE Commit(r)
  <2>1. /\ pc'[r] = "done" /\ resp'[r] = 201
        /\ \A q \in Handlers \ {r} : pc'[q] = pc[q] /\ resp'[q] = resp[q]
    BY <1>5 DEF Commit, Finish, ServerType
  <2>2. \A q \in Handlers \ {r} : tx'[q] = tx[q]
    BY <1>1 DEF ApplyTx, DatabaseType
  <2>3. UNCHANGED broken
    BY <1>5 DEF Commit
  <2> QED
    BY <1>1, <1>2, <1>3, <1>4, <2>1, <2>2, <2>3 DEF ApplyTx
<1>6. CASE CommitUnacknowledged(r)
  BY <1>1, <1>2, <1>3, <1>4, <1>6
     DEF CommitUnacknowledged, ApplyTx, Catch, DatabaseType, ServerType
<1> QED
  BY <1>5, <1>6

LEMMA CommitIds ==
  ASSUME DatabaseType, Server, TxSound, IdsSound, NEW r \in Handlers,
         Commit(r) \/ CommitUnacknowledged(r)
  PROVE  IdsSound'
<1> DEFINE account == AccountOf(r)
<1>1. /\ users' = users \cup {account} /\ scores' = scores \cup InitialRowsOf(r)
      /\ UNCHANGED <<nextId, made>>
      /\ (pc'[r] = "done" /\ resp'[r] = 201) \/ (pc'[r] = "rollback" /\ r \in broken')
      /\ \A q \in Handlers \ {r} : pc'[q] = pc[q] /\ resp'[q] = resp[q]
      /\ \A q \in broken' : q \in broken \/ (q = r /\ pc'[r] = "rollback")
      /\ broken \subseteq broken' /\ pc[r] = "commit" /\ r \notin broken
  BY CommitEffect DEF Server
<1>2. account.id = made[r] /\ \A row \in InitialRowsOf(r) : row.user = made[r]
  BY DEF AccountOf, InitialRowsOf
<1>3. \A q \in broken' : pc'[q] = "rollback"
  BY <1>1 DEF IdsSound, Server, ServerType
<1>4. Uncommitted(r) /\ \A q \in Handlers : Uncommitted(q)' => q # r /\ Uncommitted(q)
  BY <1>1 DEF Uncommitted
<1>5. made[r] # 0 /\ \A u \in users : u.id # made[r]
  <2>1. TxSound /\ tx[r].user = {account}
    BY <1>1 DEF TxSound
  <2>2. account \in Accounts
    BY <2>1 DEF DatabaseType
  <2> QED
    BY <1>2, <1>4, <2>2 DEF IdsSound, Accounts, Ids
<1>6. \A u \in users' : u.id < nextId'
  BY <1>1, <1>2 DEF IdsSound
<1>7. \A row \in scores' : row.user # NoUser => row.user < nextId'
  BY <1>1, <1>2 DEF IdsSound
<1>8. \A u, v \in users' : u.id = v.id => u = v
  BY <1>1, <1>2, <1>5 DEF IdsSound
<1>9. ASSUME NEW q \in Handlers, Uncommitted(q)'
      PROVE  /\ \A u \in users' : u.id # made'[q]
             /\ \A row \in scores' : row.user # made'[q]
  BY <1>1, <1>2, <1>4, <1>5, <1>9 DEF IdsSound
<1> QED
  BY <1>1, <1>3, <1>6, <1>7, <1>8, <1>9 DEF IdsSound

-----------------------------------------------------------------------------
(* save-score, in the terms of its request.                                    *)

Owner(r) == IdOf(call[r].name)
OldRows(r) == Duplicates(Owner(r), call[r].name, call[r].game)
NewRow(r) ==
  [user |-> Owner(r), name |-> call[r].name, game |-> call[r].game, high |-> call[r].score]
Overwritten(r, row) == [row EXCEPT !.high = Better(call[r].game, row.high, call[r].score)]
Entry(r, user) ==
  [user |-> user, name |-> call[r].name, game |-> call[r].game, score |-> call[r].score]

LEMMA IdOfAccount ==
  ASSUME users \subseteq Accounts, NEW n, IdOf(n) # NoUser
  PROVE  \E u \in users : u.id = IdOf(n) /\ u.name = n
<1>1. AccountsOf(n) # {}
  BY DEF IdOf
<1>2. (CHOOSE u \in AccountsOf(n) : TRUE) \in AccountsOf(n)
  BY <1>1
<1> QED
  BY <1>1, <1>2 DEF IdOf, AccountsOf

LEMMA IdOfNobody ==
  ASSUME users \subseteq Accounts, NEW n, IdOf(n) = NoUser
  PROVE  AccountsOf(n) = {}
<1>1. SUFFICES ASSUME AccountsOf(n) # {} PROVE FALSE
  OBVIOUS
<1>2. (CHOOSE u \in AccountsOf(n) : TRUE) \in AccountsOf(n)
  BY <1>1
<1>3. IdOf(n) \in Ids
  BY <1>1, <1>2 DEF IdOf, AccountsOf, Accounts
<1> QED
  BY <1>3, ConstantsAssumption DEF Ids

\* The rows that a save overwrites are rows of that username and game, whichever
\* key they duplicate.
LEMMA OldRowsOfName ==
  ASSUME DatabaseType, OwnersSound, NEW r \in Handlers
  PROVE  \A row \in OldRows(r) :
           row \in scores /\ row.game = call[r].game /\ row.name = call[r].name
<1> SUFFICES ASSUME NEW row \in OldRows(r)
             PROVE  row \in scores /\ row.game = call[r].game /\ row.name = call[r].name
  OBVIOUS
<1>1. row \in scores /\ row.game = call[r].game
  BY DEF OldRows, Duplicates
<1>2. CASE schema.key = "username"
  BY <1>1, <1>2 DEF OldRows, Duplicates
<1>3. CASE schema.key # "username"
  <2>1. Owner(r) # NoUser /\ row.user = Owner(r)
    BY <1>3 DEF OldRows, Duplicates
  <2>2. PICK u \in users : u.id = Owner(r) /\ u.name = call[r].name
    BY <2>1, IdOfAccount DEF DatabaseType, Owner
  <2> QED
    BY <1>1, <2>1, <2>2 DEF OwnersSound
<1> QED
  BY <1>2, <1>3

LEMMA WriteScoreCall ==
  ASSUME HandlersSound, NEW r \in Handlers, WriteScore(r)
  PROVE  call[r].name \in Names /\ call[r].game \in Games /\ call[r].score \in Posted
BY CallFields DEF WriteScore, Sends, HandlersSound, Active

LEMMA WriteScoreEffect ==
  ASSUME NEW r \in Handlers, WriteScore(r)
  PROVE  /\ UNCHANGED <<schema, users, stripped>>
         /\ \/ /\ OldRows(r) = {}
               /\ scores' = scores \cup {NewRow(r)}
               /\ saved' = saved \cup {Entry(r, Owner(r))}
            \/ /\ OldRows(r) # {}
               /\ scores' = (scores \ OldRows(r)) \cup {Overwritten(r, row) : row \in OldRows(r)}
               /\ saved' = saved \cup {Entry(r, row.user) :
                                         row \in {Overwritten(r, old) : old \in OldRows(r)}}
<1>1. UNCHANGED <<schema, users, stripped>>
  BY DEF WriteScore
<1>2. CASE OldRows(r) = {}
  <2>1. /\ scores' = (scores \ OldRows(r)) \cup {NewRow(r)}
        /\ saved' = saved \cup {Entry(r, row.user) : row \in {NewRow(r)}}
    BY <1>2 DEF WriteScore, Owner, OldRows, NewRow, Entry
  <2>2. {Entry(r, row.user) : row \in {NewRow(r)}} = {Entry(r, Owner(r))}
    <3>1. NewRow(r).user = Owner(r)
      BY DEF NewRow
    <3> QED
      BY <3>1
  <2> QED
    BY <1>1, <1>2, <2>1, <2>2
<1>3. CASE OldRows(r) # {}
  BY <1>1, <1>3 DEF WriteScore, Owner, OldRows, Overwritten, Entry
<1> QED
  BY <1>2, <1>3

\* Saving changes no more of a row than its record.
LEMMA OverwrittenFields ==
  ASSUME DatabaseType, OwnersSound, NEW r \in Handlers, NEW row \in OldRows(r)
  PROVE  LET new == Overwritten(r, row)
         IN /\ new.user = row.user /\ new.name = row.name /\ new.game = row.game
            /\ new.high = Better(call[r].game, row.high, call[r].score)
<1>1. row \in Rows
  BY OldRowsOfName DEF DatabaseType
<1> QED
  BY <1>1 DEF Overwritten, Rows

-----------------------------------------------------------------------------
(* Every step keeps transactions, ids and owners sound.                        *)

Consistent ==
  DatabaseType /\ Server /\ NamesSound /\ TxSound /\ IdsSound /\ OwnersSound

LEMMA OwnersKept ==
  ASSUME IdsSound, OwnersSound, users' \subseteq users,
         \A row \in scores' :
           \/ row.user = NoUser
           \/ \E old \in scores : old.user = row.user /\ old.name = row.name
           \/ \E u \in users : u.id = row.user /\ u.name = row.name,
         \A u \in users : u.id # NoUser
  PROVE  OwnersSound'
BY DEF IdsSound, OwnersSound

LEMMA UserIds == ASSUME DatabaseType PROVE \A u \in users : u.id # NoUser /\ u.id # 0
BY ConstantsAssumption DEF DatabaseType, Accounts, Ids

LEMMA RowUsers == ASSUME DatabaseType PROVE \A row \in scores : row.user # 0
BY ConstantsAssumption DEF DatabaseType, Rows, Ids

\* The rows after a save have owners that were known before it.
LEMMA WriteScoreOwners ==
  ASSUME DatabaseType, OwnersSound, NEW r \in Handlers, WriteScore(r), NEW row \in scores'
  PROVE  \/ row.user = NoUser
         \/ \E old \in scores : old.user = row.user /\ old.name = row.name
         \/ \E u \in users : u.id = row.user /\ u.name = row.name
<1>1. CASE row \in scores
  BY <1>1
<1>2. CASE row = NewRow(r)
  <2>1. row.user = Owner(r) /\ row.name = call[r].name
    BY <1>2 DEF NewRow
  <2> QED
    BY <2>1, IdOfAccount DEF Owner, DatabaseType
<1>3. CASE \E old \in OldRows(r) : row = Overwritten(r, old)
  BY <1>3, OverwrittenFields, OldRowsOfName
<1> QED
  BY <1>1, <1>2, <1>3, WriteScoreEffect

LEMMA CommitOwners ==
  ASSUME Consistent, NEW r \in Handlers, Commit(r) \/ CommitUnacknowledged(r)
  PROVE  OwnersSound'
<1> USE DEF Consistent
<1>1. /\ users' = users \cup {AccountOf(r)} /\ scores' = scores \cup InitialRowsOf(r)
      /\ pc[r] = "commit" /\ r \notin broken
  BY CommitEffect DEF Server
<1>2. Uncommitted(r)
  BY <1>1 DEF Uncommitted
<1>3. /\ AccountOf(r).id = made[r] /\ AccountOf(r).name = call[r].name
      /\ \A row \in InitialRowsOf(r) : row.user = made[r] /\ row.name = call[r].name
  BY DEF AccountOf, InitialRowsOf
<1>4. \A u \in users : u.id # made[r]
  BY <1>2 DEF IdsSound
<1>5. \A row \in scores : row.user # made[r]
  BY <1>2 DEF IdsSound
<1> QED
  BY <1>1, <1>3, <1>4, <1>5 DEF OwnersSound

\* A step of a handler that neither is a COMMIT of register nor takes an id.
LEMMA ConsistentStep ==
  ASSUME Consistent, [Next]_vars
  PROVE  TxSound' /\ IdsSound' /\ OwnersSound'
<1> USE DEF Consistent, Server
<1> DEFINE P == TxSound /\ IdsSound /\ OwnersSound
           R == {"insertScores", "commit"}
<1>1. ASSUME NEW r \in Handlers, Commit(r) \/ CommitUnacknowledged(r) PROVE P'
  <2>1. TxSound'
    <3>1. /\ UNCHANGED <<made, call>> /\ pc'[r] \in {"done", "rollback"}
          /\ \A q \in Handlers \ {r} : pc'[q] = pc[q] /\ tx'[q] = tx[q]
      BY <1>1, CommitEffect
    <3> QED
      BY <3>1, TxKept
  <2> QED
    BY <1>1, <2>1, CommitIds, CommitOwners
<1>2. ASSUME NEW r \in Handlers, InsertUser(r) PROVE P'
  <2>1. UNCHANGED <<users, scores>>
    BY <1>2 DEF InsertUser
  <2>2. OwnersSound'
    BY <2>1 DEF OwnersSound
  <2> QED
    BY <1>2, <2>2, InsertUserTx, InsertUserIds
<1>3. ASSUME NEW r \in Handlers, InsertScores(r) PROVE P'
  <2>1. UNCHANGED <<users, scores, nextId, made, broken>> /\ pc[r] = "insertScores"
    BY <1>3 DEF InsertScores, db, ghosts, Sends
  <2>2. /\ pc'[r] \in {"rollback", "commit"}
        /\ \A q \in Handlers \ {r} : pc'[q] = pc[q] /\ resp'[q] = resp[q]
    BY <1>3 DEF InsertScores, Catch, Go, ServerType
  <2>3. r \notin broken
    BY <2>1 DEF IdsSound
  <2>4. \A q \in Handlers : Uncommitted(q)' => Uncommitted(q)
    BY <2>1, <2>2, <2>3 DEF Uncommitted
  <2>5. \A q \in broken' : pc'[q] = "rollback"
    BY <2>1, <2>2, <2>3 DEF IdsSound, ServerType
  <2>6. IdsSound'
    BY <2>1, <2>4, <2>5, RowUsers, IdsKept
  <2> QED
    BY <1>3, <2>1, <2>6, InsertScoresTx DEF OwnersSound
<1>4. ASSUME NEW r \in Handlers, Statement(r) PROVE P'
  <2>1. users' \subseteq users /\ UNCHANGED <<nextId, tx, made, call, broken>>
    BY <1>4, StatementEffect DEF Executed, WriteScore, EraseScores, RemoveUser, db
  <2>2. pc[r] \in {"save", "deleteScores", "deleteUser"}
    BY <1>4, StatementEffect
  <2>3. /\ pc'[r] \in {"done", "deleteUser"}
        /\ \A q \in Handlers \ {r} : pc'[q] = pc[q] /\ resp'[q] = resp[q]
    BY <1>4, StatementEffect DEF Finish, Go, ServerType
  <2>4. \A q \in Handlers : pc'[q] \in R => pc'[q] = pc[q]
    BY <2>3
  <2>5. r \notin broken
    BY <2>2 DEF IdsSound
  <2>6. \A q \in Handlers : Uncommitted(q)' => Uncommitted(q)
    BY <2>1, <2>2, <2>3, <2>5 DEF Uncommitted
  <2>7. \A q \in broken' : pc'[q] = "rollback"
    BY <2>1, <2>3, <2>5 DEF IdsSound, ServerType
  <2>8. \A row \in scores' :
          \/ row.user = NoUser
          \/ \E old \in scores : old.user = row.user /\ old.name = row.name
          \/ \E u \in users : u.id = row.user /\ u.name = row.name
    <3>1. CASE WriteScore(r)
      BY <3>1, WriteScoreOwners
    <3>2. CASE EraseScores(r) \/ UNCHANGED db
      BY <3>2 DEF EraseScores, db
    <3>3. CASE RemoveUser(r)
      <4>1. \A row \in scores : Unowned(row).user = NoUser
        BY DEF DatabaseType, Rows, Unowned
      <4> QED
        BY <3>3, <4>1, WithoutOwners DEF RemoveUser
    <3> QED
      BY <1>4, <3>1, <3>2, <3>3, StatementEffect DEF Executed
  <2>9. \A row \in scores' : row.user # 0
    BY <2>8, RowUsers, UserIds, ConstantsAssumption
  <2>10. TxSound'
    BY <2>1, <2>4, TxKept
  <2>11. IdsSound'
    BY <2>1, <2>6, <2>7, <2>8, <2>9, IdsKept
  <2>12. OwnersSound'
    BY <2>1, <2>8, UserIds, OwnersKept
  <2> QED
    BY <2>10, <2>11, <2>12
<1>5. ASSUME NEW r \in Handlers,
             \/ Select(r) \/ Acquire(r) \/ StatementFails(r) \/ BeginTransaction(r)
             \/ TxStatementFails(r) \/ Rollback(r) \/ Receive(r)
      PROVE  P'
  <2>1. UNCHANGED <<users, scores, nextId>>
    BY <1>5 DEF Select, Acquire, StatementFails, BeginTransaction, TxStatementFails,
                Rollback, UndoTx, Receive, db
  <2>2. \A q \in Handlers \ {r} :
          /\ pc'[q] = pc[q] /\ resp'[q] = resp[q] /\ tx'[q] = tx[q]
          /\ made'[q] = made[q] /\ call'[q] = call[q]
    BY <1>5 DEF Select, Acquire, StatementFails, BeginTransaction, TxStatementFails, Rollback,
                UndoTx, Receive, Finish, Go, Catch, ghosts, DatabaseType, ServerType
  <2>3. \/ made'[r] = 0
        \/ made'[r] = made[r] /\ (Uncommitted(r)' => Uncommitted(r))
    <3>1. CASE Receive(r)
      BY <3>1 DEF Receive, DatabaseType
    <3>2. CASE Acquire(r)
      BY <3>2 DEF Acquire, ghosts, Uncommitted
    <3>3. CASE \/ Select(r) \/ StatementFails(r) \/ BeginTransaction(r)
               \/ TxStatementFails(r) \/ Rollback(r)
      <4>1. made' = made /\ pc[r] \in Statements \ {"idle", "done"} /\ broken \subseteq broken'
        BY <3>3 DEF Select, StatementFails, BeginTransaction, TxStatementFails, Rollback,
                    Sends, ghosts, Statements, PoolStatements, TxStatements
      <4> QED
        BY <4>1 DEF Uncommitted
    <3> QED
      BY <1>5, <3>1, <3>2, <3>3
  <2>4. \A q \in Handlers \ {r} : Uncommitted(q)' => Uncommitted(q)
    <3>1. broken \subseteq broken'
      BY <1>5 DEF Select, Acquire, StatementFails, BeginTransaction, TxStatementFails, Rollback,
                  Receive
    <3> QED
      BY <2>2, <3>1 DEF Uncommitted
  <2>5. \A q \in broken' : pc'[q] = "rollback"
    <3>1. CASE TxStatementFails(r)
      BY <2>2, <3>1 DEF TxStatementFails, Catch, IdsSound, ServerType
    <3>2. CASE Acquire(r)
      BY <3>2 DEF Acquire, IdsSound
    <3>3. CASE Rollback(r)
      BY <2>2, <3>3 DEF Rollback, IdsSound, ServerType
    <3>4. CASE Select(r) \/ StatementFails(r) \/ BeginTransaction(r) \/ Receive(r)
      <4>1. broken' = broken /\ pc[r] # "rollback"
        BY <3>4 DEF Select, StatementFails, BeginTransaction, Receive, Sends, Active,
                    PoolStatements
      <4> QED
        BY <2>2, <4>1 DEF IdsSound, ServerType
    <3> QED
      BY <1>5, <3>1, <3>2, <3>3, <3>4
  <2>6. pc'[r] \in R => /\ pc'[r] = pc[r] /\ tx'[r] = tx[r] /\ made'[r] = made[r]
                        /\ call'[r] = call[r]
    <3>1. CASE Acquire(r)
      BY <3>1 DEF Acquire, ghosts
    <3>2. CASE Receive(r)
      <4>1. pc'[r] \notin R
        <5>1. PICK c \in Calls :
                IF c.op = "save" /\ c.score = 0 THEN Finish(r, 400)
                ELSE pc' = [pc EXCEPT ![r] = FirstStatement(c.op)]
          BY <3>2 DEF Receive
        <5>2. c.op \in {"login", "register", "check", "delete", "save"}
          BY CallFields
        <5> QED
          BY <5>1, <5>2 DEF FirstStatement, Finish, ServerType
      <4> QED
        BY <4>1
    <3>3. CASE \/ Select(r) \/ StatementFails(r) \/ BeginTransaction(r)
               \/ TxStatementFails(r) \/ Rollback(r)
      BY <3>3 DEF Select, StatementFails, BeginTransaction, TxStatementFails, Rollback,
                  Finish, Go, Catch, ServerType
    <3> QED
      BY <1>5, <3>1, <3>2, <3>3
  <2>7. TxSound'
    BY <2>2, <2>6, TxKept
  <2>8. IdsSound'
    BY <2>1, <2>2, <2>3, <2>4, <2>5, RowUsers, IdsKept
  <2> QED
    BY <2>1, <2>7, <2>8 DEF OwnersSound
<1>6. ASSUME Exit PROVE P'
  <2>1. UNCHANGED <<users, scores, nextId, made, call>> /\ broken' = {}
    BY <1>6 DEF Exit, db, ghosts
  <2>2. \A q \in Handlers : pc'[q] = "idle" \/ (pc'[q] = "done" /\ pc[q] = "done" /\ resp'[q] = resp[q])
    BY <1>6 DEF Exit, Active
  <2>3. \A q \in Handlers : Uncommitted(q)' => Uncommitted(q)
    BY <2>2 DEF Uncommitted, IdsSound
  <2>4. TxSound'
    BY <2>2, TxKept
  <2>5. IdsSound'
    BY <2>1, <2>3, RowUsers, IdsKept
  <2> QED
    BY <2>1, <2>4, <2>5 DEF OwnersSound
<1>7. ASSUME Restart \/ UNCHANGED vars PROVE P'
  <2>1. UNCHANGED <<users, scores, nextId, made, call, pc, resp, tx, broken>>
    BY <1>7 DEF Restart, db, ghosts, vars
  <2> QED
    BY <2>1 DEF TxSound, AccountOf, InitialRowsOf, IdsSound, OwnersSound, Uncommitted
<1> QED
  BY <1>1, <1>2, <1>3, <1>4, <1>5, <1>6, <1>7
     DEF Next, Serve, Fails, Statement, GetConnectionRejects, RollbackRejects, Killed

LEMMA ConsistentHolds == Spec => []Consistent
<1>1. Init => TxSound /\ IdsSound /\ OwnersSound
  BY DEF Init, TxSound, IdsSound, OwnersSound, Ids
<1>2. Init => NamesSound
  BY DEF Init, NoTx, NamesSound, UniqueNames, NamesReserved
<1>3. Consistent /\ [Next]_vars => Consistent'
  BY DatabaseStep, ServerStep, NamesStep, ConsistentStep DEF Consistent, Server
<1> QED
  BY <1>1, <1>2, <1>3, InitParts, PTL DEF Spec, Consistent

(* A registration that answered anything but 201 has left no account, wherever *)
(* in its transaction it failed: the catch block of auth.js rolls back before  *)
(* it answers.                                                                 *)
THEOREM NothingLeftByFailure == Spec => []FailedRegisterLeavesNothing
<1>1. Consistent => FailedRegisterLeavesNothing
  BY DEF Consistent, IdsSound, Uncommitted, FailedRegisterLeavesNothing
<1> QED
  BY <1>1, ConsistentHolds, PTL

-----------------------------------------------------------------------------
(* The records.  Beside the steps below none touches accounts or rows.         *)

records == <<schema, users, scores, saved, stripped>>

LEMMA RecordSteps ==
  ASSUME [Next]_vars
  PROVE  \/ UNCHANGED records
         \/ \E r \in Handlers :
              \/ WriteScore(r) \/ EraseScores(r) \/ RemoveUser(r)
              \/ Commit(r) \/ CommitUnacknowledged(r)
<1> USE DEF records
<1>1. ASSUME NEW r \in Handlers,
             \/ Receive(r) \/ Select(r) \/ Acquire(r) \/ StatementFails(r)
             \/ BeginTransaction(r) \/ TxStatementFails(r) \/ Rollback(r)
             \/ InsertUser(r) \/ InsertScores(r)
      PROVE  UNCHANGED records
  BY <1>1 DEF Receive, Select, Acquire, StatementFails, BeginTransaction, TxStatementFails,
              Rollback, UndoTx, InsertUser, InsertScores, db, ghosts
<1>2. Exit => UNCHANGED records
  BY DEF Exit, db, ghosts
<1>3. Restart \/ UNCHANGED vars => UNCHANGED records
  BY DEF Restart, db, ghosts, vars
<1>4. ASSUME NEW r \in Handlers, Statement(r) PROVE Executed(r) \/ UNCHANGED records
  BY <1>4, StatementEffect DEF db, ghosts
<1> QED
  BY <1>1, <1>2, <1>3, <1>4
     DEF Next, Serve, Fails, Statement, Executed, GetConnectionRejects, RollbackRejects, Killed

LEMMA EraseScoresEffect ==
  ASSUME NEW r \in Handlers, EraseScores(r)
  PROVE  /\ UNCHANGED <<schema, users>>
         /\ scores' = scores \ RowsOf(call[r].name)
         /\ saved' = {e \in saved : e.name # call[r].name}
         /\ stripped' = stripped \cup {u.id : u \in AccountsOf(call[r].name)}
BY DEF EraseScores

\* Under a foreign key the rows of the account go, or lose their owner, or keep
\* the account.
LEMMA RemoveUserEffect ==
  ASSUME NEW r \in Handlers, RemoveUser(r)
  PROVE  LET gone == AccountsOf(call[r].name)
         IN /\ UNCHANGED <<schema, stripped>>
            /\ users' = users \ gone
            /\ scores' = Without(gone, scores) /\ saved' = Without(gone, saved)
BY DEF RemoveUser

LEMMA BetterIsAsGood ==
  ASSUME NEW game, NEW a \in Nat, NEW b \in Nat
  PROVE  /\ Better(game, a, b) \in {a, b}
         /\ game = "mine" => Better(game, a, b) <= a /\ Better(game, a, b) <= b
         /\ game # "mine" => Better(game, a, b) >= a /\ Better(game, a, b) >= b
BY DEF Better

LEMMA RecordsAreNat == ASSUME DatabaseType PROVE \A row \in scores : row.high \in Nat
<1> SUFFICES ASSUME NEW row \in scores PROVE row.high \in Nat
  OBVIOUS
<1>1. row.high \in Posted \cup {0}
  BY DEF DatabaseType, Rows
<1>2. Posted \cup {0} \subseteq Nat
  BY ConstantsAssumption
<1> QED
  BY <1>1, <1>2

LEMMA AcceptedKeptStep ==
  ASSUME Consistent, AcceptedScoreKept, [Next]_vars
  PROVE  AcceptedScoreKept'
<1> USE DEF Consistent
<1> DEFINE Backs(e, row) ==
             /\ row.user = e.user /\ row.name = e.name /\ row.game = e.game
             /\ IF e.game = "mine" THEN row.high <= e.score ELSE row.high >= e.score
<1>1. AcceptedScoreKept <=> \A e \in saved : \E row \in scores : Backs(e, row)
  BY DEF AcceptedScoreKept
<1>2. SUFFICES \A e \in saved' : \E row \in scores' : Backs(e, row)
  BY DEF AcceptedScoreKept
<1>3. CASE UNCHANGED records
  BY <1>1, <1>3 DEF records
<1>4. ASSUME NEW r \in Handlers, WriteScore(r)
      PROVE  \A e \in saved' : \E row \in scores' : Backs(e, row)
  <2>1. call[r].score \in Nat
    BY <1>4, WriteScoreCall, ConstantsAssumption DEF Server
  <2>2. CASE scores' = scores \cup {NewRow(r)} /\ saved' = saved \cup {Entry(r, Owner(r))}
    <3>1. Backs(Entry(r, Owner(r)), NewRow(r))
      BY <2>1 DEF NewRow, Entry
    <3> QED
      BY <1>1, <2>2, <3>1
  <2>3. CASE /\ scores' = (scores \ OldRows(r)) \cup {Overwritten(r, row) : row \in OldRows(r)}
             /\ saved' = saved \cup {Entry(r, row.user) :
                                       row \in {Overwritten(r, old) : old \in OldRows(r)}}
    <3>1. ASSUME NEW old \in OldRows(r)
          PROVE  LET new == Overwritten(r, old)
                 IN /\ new \in scores' /\ Backs(Entry(r, new.user), new)
                    /\ \A e \in saved : Backs(e, old) => Backs(e, new)
      <4> DEFINE new == Overwritten(r, old)
      <4>1. /\ new.user = old.user /\ new.name = old.name /\ new.game = old.game
            /\ new.high = Better(call[r].game, old.high, call[r].score)
        BY OverwrittenFields
      <4>2. old.high \in Nat /\ old.game = call[r].game /\ old.name = call[r].name
        BY OldRowsOfName, RecordsAreNat
      <4>3. /\ old.game = "mine" => new.high <= old.high /\ new.high <= call[r].score
            /\ old.game # "mine" => new.high >= old.high /\ new.high >= call[r].score
            /\ new.high \in Nat
        BY <2>1, <4>1, <4>2, BetterIsAsGood
      <4>4. Backs(Entry(r, new.user), new)
        BY <4>1, <4>2, <4>3 DEF Entry
      <4>5. ASSUME NEW e \in saved, Backs(e, old) PROVE Backs(e, new)
        <5>1. e.score \in Nat
          BY ConstantsAssumption DEF DatabaseType
        <5> HIDE DEF new
        <5> QED
          BY <4>1, <4>2, <4>3, <4>5, <5>1
      <4> QED
        BY <2>3, <4>4, <4>5
    <3>2. ASSUME NEW e \in saved PROVE \E row \in scores' : Backs(e, row)
      <4>1. PICK row \in scores : Backs(e, row)
        BY <1>1
      <4> QED
        BY <2>3, <3>1, <4>1
    <3> HIDE DEF Backs
    <3> QED
      BY <2>3, <3>1, <3>2
  <2> QED
    BY <1>4, <2>2, <2>3, WriteScoreEffect
<1>5. ASSUME NEW r \in Handlers, EraseScores(r)
      PROVE  \A e \in saved' : \E row \in scores' : Backs(e, row)
  BY <1>1, <1>5, EraseScoresEffect DEF RowsOf
<1>6. ASSUME NEW r \in Handlers, RemoveUser(r), NEW e \in saved'
      PROVE  \E row \in scores' : Backs(e, row)
  <2> DEFINE gone == AccountsOf(call[r].name)
  <2>1. scores' = Without(gone, scores) /\ saved' = Without(gone, saved)
    BY <1>6, RemoveUserEffect
  <2>2. CASE e \in saved /\ e \notin Of(gone, saved)
    <3>1. PICK row \in scores : Backs(e, row)
      BY <1>1, <2>2
    <3>2. row \notin Of(gone, scores)
      BY <2>2, <3>1 DEF Of
    <3> QED
      BY <2>1, <3>1, <3>2, WithoutOwners
  <2>3. CASE schema.onDelete = "set null" /\ \E f \in Of(gone, saved) : e = Unowned(f)
    <3>1. PICK f \in saved : f \in Of(gone, saved) /\ e = Unowned(f)
      BY <2>3 DEF Of
    <3>2. PICK row \in scores : Backs(f, row)
      BY <1>1, <3>1
    <3>3. row \in Of(gone, scores)
      BY <3>1, <3>2 DEF Of
    <3>4. Unowned(row) \in scores'
      BY <2>1, <2>3, <3>3 DEF Without, Unowned
    <3>5. /\ e.user = NoUser /\ e.name = f.name /\ e.game = f.game /\ e.score = f.score
          /\ Unowned(row).user = NoUser /\ Unowned(row).name = row.name
          /\ Unowned(row).game = row.game /\ Unowned(row).high = row.high
      BY <3>1, <3>2 DEF DatabaseType, Rows, Unowned
    <3>6. Backs(e, Unowned(row))
      BY <3>2, <3>5
    <3> QED
      BY <3>4, <3>6
  <2>4. CASE /\ schema.onDelete \notin {"cascade", "set null"}
             /\ e \in saved
    BY <1>1, <2>1, <2>4 DEF Without
  <2> QED
    BY <1>6, <2>1, <2>2, <2>3, <2>4 DEF Without, Unowned
<1>7. ASSUME NEW r \in Handlers, Commit(r) \/ CommitUnacknowledged(r)
      PROVE  \A e \in saved' : \E row \in scores' : Backs(e, row)
  <2>1. scores \subseteq scores' /\ saved' = saved
    BY <1>7, CommitEffect DEF Server
  <2> QED
    BY <1>1, <2>1
<1> QED
  BY <1>3, <1>4, <1>5, <1>6, <1>7, RecordSteps

(* Whatever order saves, deletions and registrations arrive in, the score of a *)
(* save-score that MySQL accepted is accounted for by a row of its owner until *)
(* a DELETE takes it (score.js).                                               *)
THEOREM AcceptedKept == Spec => []AcceptedScoreKept
<1>1. Init => AcceptedScoreKept
  BY DEF Init, AcceptedScoreKept
<1> QED
  BY <1>1, AcceptedKeptStep, ConsistentHolds, PTL DEF Spec

LEMMA RecordEarnedStep ==
  ASSUME Consistent, RecordEarned, [Next]_vars
  PROVE  RecordEarned'
<1> USE DEF Consistent
<1> DEFINE Earns(e, row) == /\ e.user = row.user /\ e.name = row.name
                            /\ e.game = row.game /\ e.score = row.high
<1>1. \A row \in scores : row.high # 0 => \E e \in saved : Earns(e, row)
  BY DEF RecordEarned
<1>2. SUFFICES \A row \in scores' : row.high # 0 => \E e \in saved' : Earns(e, row)
  BY DEF RecordEarned
<1>3. CASE UNCHANGED records
  BY <1>1, <1>3 DEF records
<1>4. ASSUME NEW r \in Handlers, WriteScore(r), NEW row \in scores', row.high # 0
      PROVE  \E e \in saved' : Earns(e, row)
  <2>1. saved \subseteq saved'
    BY <1>4, WriteScoreEffect
  <2>2. CASE row \in scores
    BY <1>1, <1>4, <2>1, <2>2
  <2>3. CASE row = NewRow(r) /\ saved' = saved \cup {Entry(r, Owner(r))}
    <3>1. Earns(Entry(r, Owner(r)), NewRow(r))
      BY DEF NewRow, Entry
    <3> QED
      BY <2>3, <3>1
  <2>4. CASE /\ \E old \in OldRows(r) : row = Overwritten(r, old)
             /\ saved' = saved \cup {Entry(r, new.user) :
                                       new \in {Overwritten(r, old) : old \in OldRows(r)}}
    <3>1. PICK old \in OldRows(r) : row = Overwritten(r, old)
      BY <2>4
    <3>2. /\ row.user = old.user /\ row.name = old.name /\ row.game = old.game
          /\ row.high = Better(call[r].game, old.high, call[r].score)
      BY <3>1, OverwrittenFields
    <3>3. old \in scores /\ old.game = call[r].game /\ old.name = call[r].name
      BY OldRowsOfName
    <3>4. row.high \in {old.high, call[r].score}
      BY <3>2 DEF Better
    <3>5. CASE row.high = old.high
      <4>1. PICK e \in saved : Earns(e, old)
        BY <1>1, <1>4, <3>3, <3>5
      <4> QED
        BY <2>1, <3>2, <3>5, <4>1
    <3>6. CASE row.high = call[r].score
      <4>1. Entry(r, row.user) \in saved'
        BY <2>4, <3>1
      <4>2. Earns(Entry(r, row.user), row)
        BY <3>2, <3>3, <3>6 DEF Entry
      <4> QED
        BY <4>1, <4>2
    <3> QED
      BY <3>4, <3>5, <3>6
  <2> QED
    BY <1>4, <2>2, <2>3, <2>4, WriteScoreEffect
<1>5. ASSUME NEW r \in Handlers, EraseScores(r)
      PROVE  \A row \in scores' : row.high # 0 => \E e \in saved' : Earns(e, row)
  BY <1>1, <1>5, EraseScoresEffect DEF RowsOf
<1>6. ASSUME NEW r \in Handlers, RemoveUser(r), NEW row \in scores', row.high # 0
      PROVE  \E e \in saved' : Earns(e, row)
  <2> DEFINE gone == AccountsOf(call[r].name)
  <2>1. scores' = Without(gone, scores) /\ saved' = Without(gone, saved)
    BY <1>6, RemoveUserEffect
  <2>2. CASE row \in scores /\ row \notin Of(gone, scores)
    <3>1. PICK e \in saved : Earns(e, row)
      BY <1>1, <1>6, <2>2
    <3>2. e \notin Of(gone, saved)
      BY <2>2, <3>1 DEF Of
    <3> QED
      BY <2>1, <3>1, <3>2, WithoutOwners
  <2>3. CASE schema.onDelete = "set null" /\ \E old \in Of(gone, scores) : row = Unowned(old)
    <3>1. PICK old \in scores : old \in Of(gone, scores) /\ row = Unowned(old)
      BY <2>3 DEF Of
    <3>2. /\ row.user = NoUser /\ row.name = old.name /\ row.game = old.game
          /\ row.high = old.high
      BY <3>1 DEF DatabaseType, Rows, Unowned
    <3>3. PICK e \in saved : Earns(e, old)
      BY <1>1, <1>6, <3>1, <3>2
    <3>4. e \in Of(gone, saved)
      BY <3>1, <3>3 DEF Of
    <3>5. Unowned(e) \in saved'
      BY <2>1, <2>3, <3>4 DEF Without, Unowned
    <3>6. /\ Unowned(e).user = NoUser /\ Unowned(e).name = e.name
          /\ Unowned(e).game = e.game /\ Unowned(e).score = e.score
      BY <3>3 DEF DatabaseType, Unowned
    <3>7. Earns(Unowned(e), row)
      BY <3>2, <3>3, <3>6
    <3> QED
      BY <3>5, <3>7
  <2>4. CASE /\ schema.onDelete \notin {"cascade", "set null"}
             /\ row \in scores
    BY <1>1, <1>6, <2>1, <2>4 DEF Without
  <2> QED
    BY <1>6, <2>1, <2>2, <2>3, <2>4 DEF Without, Unowned
<1>7. ASSUME NEW r \in Handlers, Commit(r) \/ CommitUnacknowledged(r)
      PROVE  \A row \in scores' : row.high # 0 => \E e \in saved' : Earns(e, row)
  <2>1. scores' = scores \cup InitialRowsOf(r) /\ saved' = saved
    BY <1>7, CommitEffect DEF Server
  <2>2. \A row \in InitialRowsOf(r) : row.high = 0
    BY DEF InitialRowsOf
  <2> QED
    BY <1>1, <2>1, <2>2
<1> QED
  BY <1>3, <1>4, <1>5, <1>6, <1>7, RecordSteps

(* Nobody holds a record that was not posted for that owner, username and game *)
(* since the row was last erased: a save that races a registration or a        *)
(* deletion never lends its score to another row (score.js).                   *)
THEOREM RecordsEarned == Spec => []RecordEarned
<1>1. Init => RecordEarned
  BY DEF Init, RecordEarned
<1> QED
  BY <1>1, RecordEarnedStep, ConsistentHolds, PTL DEF Spec

-----------------------------------------------------------------------------
(* What register inserted.  Neither that the rows of an account stay nor that  *)
(* the 0 of "mine" does is inductive alone: a save inserts a new row where it  *)
(* finds none, so the rows must stay as long as their account.                 *)

RowsKept ==
  \A u \in users :
    u.id \notin stripped =>
      \A g \in InitialGames :
        \E row \in scores : row.user = u.id /\ row.name = u.name /\ row.game = g

IsRow(u, g, row) == row.user = u.id /\ row.name = u.name /\ row.game = g

LEMMA RowsKeptStep ==
  ASSUME Consistent, RowsKept, [Next]_vars
  PROVE  RowsKept'
<1> USE DEF Consistent
<1>1. \A u \in users : u.id \notin stripped =>
        \A g \in InitialGames : \E row \in scores : IsRow(u, g, row)
  BY DEF RowsKept, IsRow
<1>2. SUFFICES ASSUME NEW u \in users', u.id \notin stripped', NEW g \in InitialGames
               PROVE  \E row \in scores' : IsRow(u, g, row)
  BY DEF RowsKept, IsRow
<1>3. CASE UNCHANGED records
  BY <1>1, <1>2, <1>3 DEF records
<1>4. ASSUME NEW r \in Handlers, WriteScore(r)
      PROVE  \E row \in scores' : IsRow(u, g, row)
  <2>1. PICK row \in scores : IsRow(u, g, row)
    BY <1>1, <1>2, <1>4, WriteScoreEffect
  <2>2. CASE row \in scores'
    BY <2>1, <2>2
  <2>3. CASE row \in OldRows(r) /\ Overwritten(r, row) \in scores'
    <3>1. IsRow(u, g, Overwritten(r, row))
      BY <2>1, <2>3, OverwrittenFields DEF IsRow
    <3> QED
      BY <2>3, <3>1
  <2> QED
    BY <1>4, <2>1, <2>2, <2>3, WriteScoreEffect
<1>5. ASSUME NEW r \in Handlers, EraseScores(r)
      PROVE  \E row \in scores' : IsRow(u, g, row)
  <2>1. /\ users' = users
        /\ scores' = scores \ RowsOf(call[r].name)
        /\ stripped' = stripped \cup {v.id : v \in AccountsOf(call[r].name)}
    BY <1>5, EraseScoresEffect
  <2>2. u.name # call[r].name
    BY <1>2, <2>1 DEF AccountsOf
  <2>3. PICK row \in scores : IsRow(u, g, row)
    BY <1>1, <1>2, <2>1
  <2> QED
    BY <2>1, <2>2, <2>3 DEF RowsOf, IsRow
<1>6. ASSUME NEW r \in Handlers, RemoveUser(r)
      PROVE  \E row \in scores' : IsRow(u, g, row)
  <2> DEFINE gone == AccountsOf(call[r].name)
  <2>1. users' = users \ gone /\ stripped' = stripped /\ scores' = Without(gone, scores)
    BY <1>6, RemoveUserEffect
  <2>2. u \in users /\ u \notin gone
    BY <1>2, <2>1
  <2>3. PICK row \in scores : IsRow(u, g, row)
    BY <1>1, <1>2, <2>1, <2>2
  <2>4. row \notin Of(gone, scores)
    BY <2>2, <2>3 DEF Of, AccountsOf, IdsSound, IsRow
  <2> QED
    BY <2>1, <2>3, <2>4, WithoutOwners
<1>7. ASSUME NEW r \in Handlers, Commit(r) \/ CommitUnacknowledged(r)
      PROVE  \E row \in scores' : IsRow(u, g, row)
  <2>1. /\ users' = users \cup {AccountOf(r)} /\ scores' = scores \cup InitialRowsOf(r)
        /\ stripped' = stripped
    BY <1>7, CommitEffect DEF Server
  <2> DEFINE first == [user |-> made[r], name |-> call[r].name, game |-> g, high |-> 0]
  <2>2. first \in InitialRowsOf(r)
    BY DEF InitialRowsOf
  <2>3. IsRow(AccountOf(r), g, first)
    BY DEF AccountOf, IsRow
  <2> HIDE DEF first
  <2> QED
    BY <1>1, <1>2, <2>1, <2>2, <2>3
<1> QED
  BY <1>3, <1>4, <1>5, <1>6, <1>7, RecordSteps

\* A register that answered 201 committed, and only the DELETE of its account
\* takes the account again.
Registered ==
  \A r \in Handlers :
    (pc[r] = "done" /\ call[r].op = "register" /\ resp[r] = 201)
      => made[r] \in erased \/ AccountOf(r) \in users

LEMMA AnswerStays ==
  ASSUME Consistent, [Next]_vars, NEW r \in Handlers,
         pc'[r] = "done", call'[r].op = "register", resp'[r] = 201
  PROVE  \/ Commit(r)
         \/ pc[r] = "done" /\ resp[r] = 201 /\ call'[r] = call[r] /\ made'[r] = made[r]
<1> USE DEF Consistent, Server
<1> DEFINE Stays ==
      pc[r] = "done" /\ resp[r] = 201 /\ call'[r] = call[r] /\ made'[r] = made[r]
<1>1. ASSUME NEW q \in Handlers, Receive(q) PROVE Stays
  <2>1. PICK c \in Calls :
          /\ call' = [call EXCEPT ![q] = c] /\ made' = [made EXCEPT ![q] = 0]
          /\ IF c.op = "save" /\ c.score = 0 THEN Finish(q, 400)
             ELSE /\ pc' = [pc EXCEPT ![q] = FirstStatement(c.op)]
                  /\ resp' = [resp EXCEPT ![q] = 0]
    BY <1>1 DEF Receive
  <2>2. q # r
    BY <2>1 DEF Finish, ServerType
  <2> QED
    BY <2>1, <2>2 DEF Finish, DatabaseType, ServerType
<1>2. ASSUME NEW q \in Handlers, Statement(q) PROVE Stays
  <2>1. /\ UNCHANGED <<call, made>>
        /\ Finish(q, 200) \/ Finish(q, 500) \/ Go(q, "deleteUser")
    BY <1>2, StatementEffect
  <2> QED
    BY <2>1 DEF Finish, Go, ServerType
<1>3. ASSUME NEW q \in Handlers,
             \/ Acquire(q) \/ Select(q) \/ BeginTransaction(q) \/ InsertScores(q)
             \/ StatementFails(q) \/ TxStatementFails(q) \/ CommitUnacknowledged(q)
      PROVE  Stays
  BY <1>3 DEF Acquire, Select, SelectStatus, BeginTransaction, InsertScores, StatementFails,
              TxStatementFails, CommitUnacknowledged, ghosts, Finish, Go, Catch, ServerType
<1>4. ASSUME NEW q \in Handlers, InsertUser(q) PROVE Stays
  BY <1>4 DEF InsertUser, Go, Catch, DatabaseType, ServerType
<1>5. ASSUME NEW q \in Handlers, Rollback(q) PROVE Stays
  BY <1>5 DEF Rollback, ghosts, Finish, HandlersSound, ServerType
<1>6. ASSUME NEW q \in Handlers, Commit(q) PROVE q = r \/ Stays
  BY <1>6 DEF Commit, ghosts, Finish, ServerType
<1>7. ASSUME Exit PROVE Stays
  BY <1>7 DEF Exit, ghosts, Active
<1>8. ASSUME Restart \/ UNCHANGED vars PROVE Stays
  BY <1>8 DEF Restart, ghosts, vars
<1> QED
  BY <1>1, <1>2, <1>3, <1>4, <1>5, <1>6, <1>7, <1>8
     DEF Next, Serve, Fails, Statement, GetConnectionRejects, RollbackRejects, Killed

LEMMA AccountsGoErased ==
  ASSUME Consistent, [Next]_vars
  PROVE  /\ erased \subseteq erased'
         /\ \A u \in users : u \in users' \/ u.id \in erased'
<1>1. CASE UNCHANGED <<users, erased>>
  BY <1>1
<1>2. ASSUME NEW r \in Handlers, WriteScore(r) \/ EraseScores(r) PROVE UNCHANGED <<users, erased>>
  BY <1>2 DEF WriteScore, EraseScores
<1>3. ASSUME NEW r \in Handlers, RemoveUser(r)
      PROVE  /\ erased \subseteq erased'
             /\ \A u \in users : u \in users' \/ u.id \in erased'
  BY <1>3 DEF RemoveUser
<1>4. ASSUME NEW r \in Handlers, Commit(r) \/ CommitUnacknowledged(r)
      PROVE  users \subseteq users' /\ erased' = erased
  BY <1>4, CommitEffect DEF Consistent, Server
<1>5. ASSUME NEW r \in Handlers, Statement(r), UNCHANGED <<db, ghosts, tx>>
      PROVE  UNCHANGED <<users, erased>>
  BY <1>5 DEF db, ghosts
<1>6. ASSUME NEW r \in Handlers,
             \/ Receive(r) \/ Select(r) \/ Acquire(r) \/ StatementFails(r)
             \/ BeginTransaction(r) \/ TxStatementFails(r) \/ Rollback(r)
             \/ InsertUser(r) \/ InsertScores(r)
      PROVE  UNCHANGED <<users, erased>>
  BY <1>6 DEF Receive, Select, Acquire, StatementFails, BeginTransaction, TxStatementFails,
              Rollback, UndoTx, InsertUser, InsertScores, db, ghosts
<1>7. Exit \/ Restart \/ UNCHANGED vars => UNCHANGED <<users, erased>>
  BY DEF Exit, Restart, db, ghosts, vars
<1> QED
  BY <1>1, <1>2, <1>3, <1>4, <1>5, <1>6, <1>7, StatementEffect
     DEF Next, Serve, Fails, Statement, Executed, GetConnectionRejects, RollbackRejects, Killed

LEMMA RegisteredStep ==
  ASSUME Consistent, Registered, [Next]_vars
  PROVE  Registered'
<1> USE DEF Consistent
<1> SUFFICES ASSUME NEW r \in Handlers,
                    pc'[r] = "done", call'[r].op = "register", resp'[r] = 201
             PROVE  made'[r] \in erased' \/ AccountOf(r)' \in users'
  BY DEF Registered
<1>1. CASE Commit(r)
  <2>1. users' = users \cup {AccountOf(r)} /\ UNCHANGED <<made, call>>
    BY <1>1, CommitEffect DEF Server
  <2> QED
    BY <2>1 DEF AccountOf
<1>2. CASE pc[r] = "done" /\ resp[r] = 201 /\ call'[r] = call[r] /\ made'[r] = made[r]
  <2>1. AccountOf(r)' = AccountOf(r) /\ AccountOf(r).id = made[r]
    BY <1>2 DEF AccountOf
  <2>2. made[r] \in erased \/ AccountOf(r) \in users
    BY <1>2 DEF Registered
  <2> QED
    BY <1>2, <2>1, <2>2, AccountsGoErased
<1> QED
  BY <1>1, <1>2, AnswerStays

(* A registration that answered 201 has its account, with the password it      *)
(* sent, until a delete-account deletes that account, and its rows until they  *)
(* are erased, whatever races with it: auth.js answers 201 after the commit    *)
(* only, and of two registrations for one name both can only answer 201 when   *)
(* the account of one of them was deleted.                                     *)
THEOREM RegisteredStands == Spec => []AcceptedRegisterStands
<1>1. Init => RowsKept /\ Registered
  BY DEF Init, RowsKept, Registered
<1>2. RowsKept /\ Registered => AcceptedRegisterStands
  <2> SUFFICES ASSUME RowsKept, Registered, NEW r \in Handlers,
                      pc[r] = "done", call[r].op = "register", resp[r] = 201,
                      made[r] \notin erased
               PROVE  /\ AccountOf(r) \in users
                      /\ \/ made[r] \in stripped
                         \/ \A g \in InitialGames : \E row \in scores :
                              row.user = made[r] /\ row.name = call[r].name /\ row.game = g
    BY DEF AcceptedRegisterStands, AccountOf
  <2>1. AccountOf(r) \in users
    BY DEF Registered
  <2>2. AccountOf(r).id = made[r] /\ AccountOf(r).name = call[r].name
    BY DEF AccountOf
  <2> QED
    BY <2>1, <2>2 DEF RowsKept
<1> QED
  BY <1>1, <1>2, RowsKeptStep, RegisteredStep, ConsistentHolds, PTL DEF Spec

\* A save finds the row of "mine" of an account whose scores were never erased.
LEMMA MineRowFound ==
  ASSUME Consistent, RowsKept, NEW r \in Handlers,
         call[r].game = "mine", Owner(r) # NoUser, Owner(r) \notin stripped
  PROVE  OldRows(r) # {}
<1> USE DEF Consistent
<1>1. PICK u \in users : u.id = Owner(r) /\ u.name = call[r].name
  BY IdOfAccount DEF Owner, DatabaseType
<1>2. PICK row \in scores : row.user = u.id /\ row.name = u.name /\ row.game = "mine"
  BY <1>1 DEF RowsKept, InitialGames
<1>3. row \in OldRows(r)
  BY <1>1, <1>2 DEF OldRows, Duplicates
<1> QED
  BY <1>3

LEMMA MineFrozenStep ==
  ASSUME Consistent, RowsKept, MineRecordFrozen, [Next]_vars
  PROVE  MineRecordFrozen'
<1> USE DEF Consistent
<1> DEFINE Frozen(row) == (row.game = "mine" /\ row.user # NoUser /\ row.user \notin stripped)
                            => row.high = 0
<1>1. \A row \in scores : Frozen(row)
  BY DEF MineRecordFrozen
<1>2. SUFFICES ASSUME NEW row \in scores' PROVE Frozen(row)'
  BY DEF MineRecordFrozen
<1>3. CASE UNCHANGED records
  BY <1>1, <1>3 DEF records
<1>4. ASSUME NEW r \in Handlers, WriteScore(r) PROVE Frozen(row)'
  <2>1. stripped' = stripped
    BY <1>4, WriteScoreEffect
  <2>2. call[r].score \in Nat
    BY <1>4, WriteScoreCall, ConstantsAssumption DEF Server
  <2>3. CASE row \in scores
    BY <1>1, <2>1, <2>3
  <2>4. CASE OldRows(r) = {} /\ row = NewRow(r)
    <3>1. row.user = Owner(r) /\ row.game = call[r].game
      BY <2>4 DEF NewRow
    <3> QED
      BY <2>1, <2>4, <3>1, MineRowFound
  <2>5. CASE \E old \in OldRows(r) : row = Overwritten(r, old)
    <3>1. PICK old \in OldRows(r) : row = Overwritten(r, old)
      BY <2>5
    <3>2. /\ row.user = old.user /\ row.game = old.game
          /\ row.high = Better(call[r].game, old.high, call[r].score)
      BY <3>1, OverwrittenFields
    <3>3. old \in scores /\ old.game = call[r].game
      BY OldRowsOfName
    <3>4. Better("mine", 0, call[r].score) = 0
      BY <2>2 DEF Better
    <3> QED
      BY <1>1, <2>1, <3>2, <3>3, <3>4
  <2> QED
    BY <1>4, <2>3, <2>4, <2>5, WriteScoreEffect
<1>5. ASSUME NEW r \in Handlers, EraseScores(r) PROVE Frozen(row)'
  BY <1>1, <1>5, EraseScoresEffect
<1>6. ASSUME NEW r \in Handlers, RemoveUser(r) PROVE Frozen(row)'
  <2>1. /\ stripped' = stripped
        /\ scores' = Without(AccountsOf(call[r].name), scores)
    BY <1>6, RemoveUserEffect
  <2>2. \A old \in scores : Unowned(old).user = NoUser
    BY DEF DatabaseType, Rows, Unowned
  <2>3. row \in scores \/ row.user = NoUser
    BY <2>1, <2>2, WithoutOwners
  <2> QED
    BY <1>1, <2>1, <2>3
<1>7. ASSUME NEW r \in Handlers, Commit(r) \/ CommitUnacknowledged(r) PROVE Frozen(row)'
  <2>1. scores' = scores \cup InitialRowsOf(r) /\ stripped' = stripped
    BY <1>7, CommitEffect DEF Server
  <2>2. \A new \in InitialRowsOf(r) : new.high = 0
    BY DEF InitialRowsOf
  <2> QED
    BY <1>1, <2>1, <2>2
<1> QED
  BY <1>3, <1>4, <1>5, <1>6, <1>7, RecordSteps

(* The row of "mine" that register inserts with 0 keeps it as long as no       *)
(* delete-account erases it: LEAST in save-score lets no time that is posted   *)
(* become a record (auth.js, score.js).                                        *)
THEOREM MineStaysFrozen == Spec => []MineRecordFrozen
<1>1. Init => RowsKept /\ MineRecordFrozen
  BY DEF Init, MineRecordFrozen, RowsKept
<1> QED
  BY <1>1, RowsKeptStep, MineFrozenStep, ConsistentHolds, PTL DEF Spec

-----------------------------------------------------------------------------
(* The handlers implement Ledger: what its variables stand for, and the        *)
(* operation of Ledger that each step is.                                      *)

Seen(row) == [name |-> row.name, game |-> row.game, high |-> row.high]
Usernames == {u.name : u \in users}
SeenRows == {Seen(row) : row \in scores}

LEMMA LedgerState ==
  /\ Service!Spec <=> Service!Init /\ [][Service!Next]_<<Usernames, SeenRows>>
  /\ Service!Init <=> Usernames = {} /\ SeenRows = {}
BY DEF Service!Spec, Service!Init, Usernames, SeenRows, Seen

LEMMA SeenRowsOf ==
  ASSUME NEW n
  PROVE  Service!RecordsOf(n) = {Seen(row) : row \in RowsOf(n)}
BY DEF Service!RecordsOf, RowsOf, Seen

LEMMA SaveIsLedgerStep ==
  ASSUME Consistent, NEW r \in Handlers, WriteScore(r)
  PROVE  [Service!Next]_<<Usernames, SeenRows>>
<1> USE DEF Consistent
<1>1. PICK n \in Names, g \in Games, s \in Posted :
        n = call[r].name /\ g = call[r].game /\ s = call[r].score /\ s \in Nat
  BY WriteScoreCall, ConstantsAssumption DEF Server
<1> DEFINE worse == SeenRows \ SeenRows'
<1>2. Usernames' = Usernames
  BY WriteScoreEffect DEF Usernames
<1>3. ASSUME NEW removed \in SUBSET {row \in Service!RecordsOf(n) :
                                        row.game = g /\ Service!AsGood(g, s, row.high)},
             SeenRows' = (SeenRows \ removed) \cup {Service!Row(n, g, s)}
      PROVE  Service!Next
  <2>1. Service!Save(n, g, s)
    BY <1>2, <1>3 DEF Service!Save, Usernames, SeenRows, Seen
  <2> QED
    BY <1>1, <2>1 DEF Service!Next
<1>4. CASE scores' = scores
  BY <1>2, <1>4 DEF SeenRows
<1>5. CASE scores' = scores \cup {NewRow(r)}
  <2>1. Seen(NewRow(r)) = Service!Row(n, g, s)
    BY <1>1 DEF Seen, NewRow, Service!Row
  <2> DEFINE none == {}
  <2>2. SeenRows' = (SeenRows \ none) \cup {Service!Row(n, g, s)}
    BY <1>5, <2>1 DEF SeenRows
  <2>3. none \in SUBSET {row \in Service!RecordsOf(n) :
                            row.game = g /\ Service!AsGood(g, s, row.high)}
    OBVIOUS
  <2> HIDE DEF none
  <2> QED
    BY <1>3, <2>2, <2>3
<1>6. CASE scores' = (scores \ OldRows(r)) \cup {Overwritten(r, row) : row \in OldRows(r)}
  <2>1. ASSUME NEW old \in OldRows(r)
        PROVE  \/ Overwritten(r, old) = old
               \/ /\ Seen(Overwritten(r, old)) = Service!Row(n, g, s)
                  /\ Seen(old) \in Service!RecordsOf(n) /\ Seen(old).game = g
                  /\ Service!AsGood(g, s, Seen(old).high)
    <3>1. old \in Rows /\ old \in scores /\ old.name = n /\ old.game = g /\ old.high \in Nat
      BY <1>1, OldRowsOfName, RecordsAreNat DEF DatabaseType
    <3>2. /\ Overwritten(r, old).name = n /\ Overwritten(r, old).game = g
          /\ Overwritten(r, old).high = Better(g, old.high, s)
      BY <1>1, <3>1, OverwrittenFields
    <3>3. CASE Better(g, old.high, s) = old.high
      BY <1>1, <3>1, <3>3 DEF Overwritten, Rows
    <3>4. CASE Better(g, old.high, s) # old.high
      <4>1. Better(g, old.high, s) = s /\ Service!AsGood(g, s, old.high)
        BY <1>1, <3>1, <3>4 DEF Better, Service!AsGood
      <4>2. Seen(Overwritten(r, old)) = Service!Row(n, g, s)
        BY <3>2, <4>1 DEF Seen, Service!Row
      <4>3. Seen(old) \in Service!RecordsOf(n)
        BY <3>1, SeenRowsOf DEF RowsOf
      <4>4. Seen(old).game = g /\ Seen(old).high = old.high
        BY <3>1 DEF Seen
      <4> QED
        BY <4>1, <4>2, <4>3, <4>4
    <3> QED
      BY <3>3, <3>4
  <2>2. CASE \A old \in OldRows(r) : Overwritten(r, old) = old
    <3>1. OldRows(r) \subseteq scores
      BY OldRowsOfName
    <3>2. scores' = scores
      BY <1>6, <2>2, <3>1
    <3> QED
      BY <1>4, <3>2
  <2>3. CASE \E old \in OldRows(r) : Overwritten(r, old) # old
    <3>1. Service!Row(n, g, s) \in SeenRows'
      BY <1>6, <2>1, <2>3 DEF SeenRows
    <3>2. ASSUME NEW x \in SeenRows' PROVE x \in SeenRows \/ x = Service!Row(n, g, s)
      <4>1. PICK row \in scores' : x = Seen(row)
        BY DEF SeenRows
      <4>2. CASE row \in scores
        BY <4>1, <4>2 DEF SeenRows
      <4>3. CASE \E old \in OldRows(r) : row = Overwritten(r, old)
        BY <2>1, <4>1, <4>3, OldRowsOfName DEF SeenRows
      <4> QED
        BY <1>6, <4>2, <4>3
    <3>3. ASSUME NEW x \in worse
          PROVE  x \in Service!RecordsOf(n) /\ x.game = g /\ Service!AsGood(g, s, x.high)
      <4>1. PICK row \in scores : x = Seen(row)
        BY DEF SeenRows
      <4>2. row \notin scores'
        BY <4>1 DEF SeenRows
      <4>3. row \in OldRows(r) /\ Overwritten(r, row) # row
        BY <1>6, <4>1, <4>2
      <4> QED
        BY <2>1, <4>1, <4>3
    <3>4. SeenRows' = (SeenRows \ worse) \cup {Service!Row(n, g, s)}
      BY <3>1, <3>2
    <3> HIDE DEF worse
    <3> QED
      BY <1>3, <3>3, <3>4
  <2> QED
    BY <2>2, <2>3
<1> QED
  BY <1>4, <1>5, <1>6, WriteScoreEffect

LEMMA DeletionIsLedgerStep ==
  ASSUME Consistent, NEW r \in Handlers, EraseScores(r) \/ RemoveUser(r)
  PROVE  [Service!Next]_<<Usernames, SeenRows>>
<1> USE DEF Consistent
<1>1. PICK n \in Names : n = call[r].name
  BY CallFields DEF EraseScores, RemoveUser, Sends, Server, HandlersSound, Active
<1>2. CASE EraseScores(r)
  <2>1. Usernames' = Usernames /\ scores' = scores \ RowsOf(n)
    BY <1>1, <1>2, EraseScoresEffect DEF Usernames
  <2>2. SeenRows' = SeenRows \ {Seen(row) : row \in RowsOf(n)}
    <3>1. \A row \in scores : row \notin RowsOf(n) => Seen(row).name # n
      BY DEF RowsOf, Seen
    <3>2. \A row \in RowsOf(n) : Seen(row).name = n
      BY DEF RowsOf, Seen
    <3> QED
      BY <2>1, <3>1, <3>2 DEF SeenRows
  <2>3. Service!Erase(n)
    BY <2>1, <2>2, SeenRowsOf DEF Service!Erase, Usernames, SeenRows, Seen
  <2> QED
    BY <1>1, <2>3 DEF Service!Next
<1>3. CASE RemoveUser(r)
  <2> DEFINE left == AccountsOf(n)
             gone == SeenRows \ SeenRows'
  <2>1. users' = users \ left /\ scores' = Without(left, scores)
    BY <1>1, <1>3, RemoveUserEffect
  <2>2. Usernames' = Usernames \ {n}
    BY <2>1 DEF Usernames, AccountsOf
  <2>3. \A row \in scores : Seen(Unowned(row)) = Seen(row)
    BY DEF Seen, DatabaseType, Rows, Unowned
  <2>4. SeenRows' \subseteq SeenRows
    BY <2>1, <2>3, WithoutOwners DEF SeenRows
  <2>5. ASSUME NEW x \in gone PROVE x \in Service!RecordsOf(n)
    <3>1. PICK row \in scores : x = Seen(row)
      BY DEF SeenRows
    <3>2. row \notin scores'
      BY <3>1 DEF SeenRows
    <3>3. PICK u \in left : row.user = u.id
      BY <2>1, <3>2, WithoutOwners DEF Of
    <3>4. row \in RowsOf(n)
      BY <3>3 DEF AccountsOf, OwnersSound, RowsOf
    <3> QED
      BY <3>1, <3>4, SeenRowsOf
  <2>6. SeenRows' = SeenRows \ gone
    BY <2>4
  <2> HIDE DEF gone
  <2>7. Service!Remove(n)
    <3>1. gone \in SUBSET Service!RecordsOf(n)
      BY <2>5
    <3> QED
      BY <2>2, <2>6, <3>1 DEF Service!Remove, Usernames, SeenRows, Seen
  <2> QED
    BY <1>1, <2>7 DEF Service!Next
<1> QED
  BY <1>2, <1>3

LEMMA CommitIsLedgerStep ==
  ASSUME Consistent, NEW r \in Handlers, Commit(r) \/ CommitUnacknowledged(r)
  PROVE  Service!Next
<1> USE DEF Consistent
<1>1. /\ users' = users \cup {AccountOf(r)} /\ scores' = scores \cup InitialRowsOf(r)
      /\ pc[r] = "commit"
  BY CommitEffect DEF Server
<1>2. AccountOf(r) \in tx[r].user /\ AccountOf(r).name = call[r].name
  BY <1>1 DEF TxSound, AccountOf
<1>3. PICK n \in Names : n = call[r].name
  BY <1>2 DEF DatabaseType, Accounts
<1>4. n \notin Usernames
  BY <1>2, <1>3 DEF NamesSound, NamesReserved, Usernames
<1>5. Usernames' = Usernames \cup {n}
  BY <1>1, <1>2, <1>3 DEF Usernames
<1>6. SeenRows' = SeenRows \cup {Service!Row(n, g, 0) : g \in InitialGames}
  <2>1. {Seen(row) : row \in InitialRowsOf(r)} = {Service!Row(n, g, 0) : g \in InitialGames}
    <3> DEFINE first(g) == [user |-> made[r], name |-> n, game |-> g, high |-> 0]
    <3>1. InitialRowsOf(r) = {first(g) : g \in InitialGames}
      BY <1>3 DEF InitialRowsOf
    <3>2. \A g \in InitialGames : Seen(first(g)) = Service!Row(n, g, 0)
      BY DEF Seen, Service!Row
    <3> HIDE DEF first
    <3> QED
      BY <3>1, <3>2
  <2>2. SeenRows' = SeenRows \cup {Seen(row) : row \in InitialRowsOf(r)}
    BY <1>1 DEF SeenRows
  <2> QED
    BY <2>1, <2>2
<1>7. Service!Register(n)
  BY <1>4, <1>5, <1>6 DEF Service!Register, Usernames, SeenRows, Seen
<1> QED
  BY <1>3, <1>7 DEF Service!Next

(* The handlers of auth.js and score.js implement Ledger: to a client each     *)
(* request that changes anything is one operation of it, whatever statements   *)
(* of other handlers lie between its own and whatever fails.                   *)
THEOREM LedgerImplemented == Spec => LedgerKept
<1>1. Init => Service!Init
  BY LedgerState DEF Init, Usernames, SeenRows
<1>2. ASSUME Consistent, Consistent', [Next]_vars
      PROVE  [Service!Next]_<<Usernames, SeenRows>>
  <2>1. CASE UNCHANGED records
    BY <2>1 DEF records, Usernames, SeenRows
  <2> QED
    BY <1>2, <2>1, RecordSteps, SaveIsLedgerStep, DeletionIsLedgerStep, CommitIsLedgerStep
<1> QED
  BY <1>1, <1>2, ConsistentHolds, LedgerState, PTL DEF Spec, LedgerKept
=============================================================================
