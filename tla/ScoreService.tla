---------------------------- MODULE ScoreService ----------------------------
(***************************************************************************)
(* The HTTP server of the repository (IGOR): the Express handlers of       *)
(* route/auth.js and route/score.js over the MySQL pool of db.js.          *)
(*                                                                         *)
(* Every handler is an async function.  It runs alone between two awaits   *)
(* and interleaves with the other handlers at each of them, so one         *)
(* statement sent to MySQL is one action here.  A handler is a slot of     *)
(* Handlers; pc[r] names the statement it is about to send.                *)
(*                                                                         *)
(* The repository does not ship the schema of database login_app.  What    *)
(* the code relies on is assumed: users.username is unique (register       *)
(* answers ER_DUP_ENTRY) and scores has a unique key with the game in it   *)
(* (save-score says ON DUPLICATE KEY UPDATE).  What it leaves open is a    *)
(* schema drawn from Schemas, so that each property says under which       *)
(* schemas it holds:                                                       *)
(*   key      - "user_id" or "username", the other column of that key;     *)
(*   nullable - whether scores.user_id may be NULL;                        *)
(*   onDelete - "none" without a foreign key from scores to users, else    *)
(*              what it does when the user is deleted.                     *)
(***************************************************************************)
EXTENDS Integers, FiniteSets

CONSTANTS
  Handlers,         \* slots for requests in progress
  Names,            \* values of users.username
  Passwords,
  Games,            \* values the client posts as "game"
  Posted,           \* values the client posts as "score"
  ConnectionLimit,  \* connectionLimit of the pool, 10 in db.js
  Schemas,          \* the schemas considered
  NoUser,           \* NULL in scores.user_id
  MaxRequests,      \* bound: requests received over a behaviour
  MaxFaults         \* bound: failed statements and process exits

\* The games of the rows that register inserts with the account.  Mutant:
\* without the row of the game whose record is a least value.
InitialGamesWithoutMine == {"2048", "breakout"}
InitialGames == {"2048", "mine", "breakout"}

AllSchemas ==
  {s \in [key : {"user_id", "username"}, nullable : BOOLEAN,
          onDelete : {"none", "restrict", "cascade", "set null"}] :
     s.onDelete = "set null" => s.nullable}

ASSUME ConstantsAssumption ==
  /\ ConnectionLimit \in Nat \ {0}
  /\ IsFiniteSet(Handlers)
  /\ Posted \subseteq Nat
  /\ Schemas \subseteq AllSchemas
  /\ MaxRequests \in Nat /\ MaxFaults \in Nat
  /\ NoUser \notin Nat

VARIABLES
  schema,    \* constant over a behaviour
  up,        \* whether the Node process runs
  users,     \* committed rows of users
  scores,    \* committed rows of scores
  nextId,    \* AUTO_INCREMENT of users
  free,      \* idle connections of the pool
  holds,     \* handlers that hold a connection
  call,      \* the request of each handler
  pc,        \* the statement each handler sends next
  resp,      \* the status each handler answered
  tx,        \* uncommitted rows of a handler's transaction
  broken,    \* handlers whose connection is lost
  requests,
  faults

\* What happened, for the properties: no handler reads these.
VARIABLES
  saved,     \* saves MySQL accepted and no DELETE has erased since
  stripped,  \* ids of accounts whose scores a delete-account has erased
  erased,    \* ids of accounts that a delete-account has deleted
  made       \* the id of the account each handler's register inserted, or 0

db == <<schema, users, scores, nextId>>
pool == <<free, holds>>
ghosts == <<saved, stripped, erased, made>>
vars == <<schema, up, users, scores, nextId, free, holds, call, pc, resp, tx,
          broken, requests, faults, saved, stripped, erased, made>>
-----------------------------------------------------------------------------
Ids == Nat \ {0}
Accounts == [id : Ids, name : Names, password : Passwords]
Rows == [user : Ids \cup {NoUser}, name : Names,
         game : Games \cup InitialGames, high : Posted \cup {0}]

Calls ==
       [op : {"login", "register"}, name : Names, password : Passwords]
  \cup [op : {"check", "delete"}, name : Names]
  \cup [op : {"save"}, name : Names, game : Games, score : Posted]

PoolStatements == {"select", "save", "deleteScores", "deleteUser"}
TxStatements == {"begin", "insertUser", "insertScores", "commit"}

NoTx == [user |-> {}, rows |-> {}]
NoCall == [op |-> "none"]

\* Statements of a request that pass its checks on the body or query.
FirstStatement(op) ==
  CASE op \in {"login", "check"} -> "select"
    [] op = "save"               -> "save"
    [] op = "delete"             -> "deleteScores"
    [] op = "register"           -> "begin"

Active(r) == pc[r] \notin {"idle", "done"}

AccountsOf(n) == {u \in users : u.name = n}
RowsOf(n) == {row \in scores : row.name = n}
IdOf(n) == IF AccountsOf(n) = {} THEN NoUser
           ELSE (CHOOSE u \in AccountsOf(n) : TRUE).id

\* InnoDB keeps the index record of a user inserted by an open transaction
\* locked: a statement that looks that name up to write waits for it.
NameLocked(n) == \E r \in Handlers : \E u \in tx[r].user : u.name = n
RowsLocked(n) == \E r \in Handlers : \E row \in tx[r].rows : row.name = n

\* LEAST and GREATEST of the two statements of save-score: for "mine" the
\* score is a time.
\* Mutant: GREATEST for both.
BetterForEveryGame(game, a, b) == IF a >= b THEN a ELSE b
\* Mutant: high_score + ?.
Accumulated(game, a, b) == a + b
Better(game, a, b) ==
  IF game = "mine" THEN (IF a <= b THEN a ELSE b) ELSE (IF a >= b THEN a ELSE b)
-----------------------------------------------------------------------------
(***************************************************************************)
(* The pool and the life of a handler.                                     *)
(***************************************************************************)
Finish(r, code) ==
  /\ pc' = [pc EXCEPT ![r] = "done"]
  /\ resp' = [resp EXCEPT ![r] = code]

Go(r, stmt) == pc' = [pc EXCEPT ![r] = stmt] /\ UNCHANGED resp

\* Mutants: without connection.release(), and with one in the catch block too.
Keep(r) == UNCHANGED pool
ReleaseTwice(r) == holds' = holds \ {r} /\ free' = free + 2
Release(r) == holds' = holds \ {r} /\ free' = free + 1

Sends(r, stmt) == up /\ pc[r] = stmt /\ r \in holds

Fault == faults < MaxFaults /\ faults' = faults + 1

\* A request arrives.  The checks on its body or query answer 400 before
\* any await; !score makes 0 a missing score.
Receive(r) ==
  /\ up
  /\ ~Active(r)
  /\ requests < MaxRequests
  /\ requests' = requests + 1
  /\ \E c \in Calls :
       /\ call' = [call EXCEPT ![r] = c]
       /\ made' = [made EXCEPT ![r] = 0]
       /\ IF c.op = "save" /\ c.score = 0
          THEN Finish(r, 400)
          ELSE /\ pc' = [pc EXCEPT ![r] = FirstStatement(c.op)]
               /\ resp' = [resp EXCEPT ![r] = 0]
  /\ UNCHANGED <<db, pool, saved, stripped, erased, up, tx, broken, faults>>

\* The pool hands a connection out; with waitForConnections and queueLimit 0
\* a handler that finds none waits, however long.
Acquire(r) ==
  /\ up
  /\ Active(r)
  /\ r \notin holds
  /\ free > 0
  /\ free' = free - 1
  /\ holds' = holds \cup {r}
  /\ UNCHANGED <<db, ghosts, up, call, pc, resp, tx, broken, requests, faults>>

\* pool.query and pool.execute: the catch blocks answer 500.  The error may
\* come from obtaining the connection or from a statement without effect.
StatementFails(r) ==
  /\ up
  /\ pc[r] \in PoolStatements
  /\ Fault
  /\ IF r \in holds THEN Release(r) ELSE UNCHANGED pool
  /\ Finish(r, 500)
  /\ UNCHANGED <<db, ghosts, up, call, tx, broken, requests>>
-----------------------------------------------------------------------------
(***************************************************************************)
(* login, check-username, save-score and delete-account.                   *)
(***************************************************************************)
SelectStatus(c) ==
  IF c.op = "check" THEN 200
  ELSE IF \E u \in AccountsOf(c.name) : u.password = c.password THEN 200 ELSE 401

\* A consistent read: it sees committed rows and waits for no lock.
Select(r) ==
  /\ Sends(r, "select")
  /\ Finish(r, SelectStatus(call[r]))
  /\ Release(r)
  /\ UNCHANGED <<db, ghosts, up, call, tx, broken, requests, faults>>

\* The rows that an INSERT for this owner, name and game would duplicate.
Duplicates(owner, n, g) ==
  {row \in scores : /\ row.game = g
                    /\ IF schema.key = "username" THEN row.name = n
                       ELSE owner # NoUser /\ row.user = owner}

\* INSERT ... ON DUPLICATE KEY UPDATE.  user_id is the subquery's id, NULL
\* for a username without an account; an existing row keeps its user_id.
Nameless(r) == IdOf(call[r].name) = NoUser /\ ~schema.nullable

WriteScore(r) ==
  LET c == call[r]
      owner == IdOf(c.name)
      old == Duplicates(owner, c.name, c.game)
      written == IF old = {}
                 THEN {[user |-> owner, name |-> c.name, game |-> c.game, high |-> c.score]}
                 ELSE {[row EXCEPT !.high = Better(c.game, @, c.score)] : row \in old}
  IN /\ Sends(r, "save")
     /\ ~NameLocked(c.name)
     /\ ~Nameless(r)
     /\ scores' = (scores \ old) \cup written
     /\ saved' = saved \cup {[user |-> row.user, name |-> c.name, game |-> c.game,
                              score |-> c.score] : row \in written}
     /\ UNCHANGED <<schema, users, nextId, tx, stripped, erased, made>>

SaveScore(r) ==
  /\ \/ WriteScore(r) /\ Finish(r, 200)
     \/ /\ Sends(r, "save") /\ ~NameLocked(call[r].name) /\ Nameless(r)
        /\ Finish(r, 500) /\ UNCHANGED <<db, ghosts, tx>>
  /\ Release(r)
  /\ UNCHANGED <<up, call, broken, requests, faults>>

\* delete-account is two autocommit statements on two pooled connections.
EraseScores(r) ==
  LET n == call[r].name
  IN /\ Sends(r, "deleteScores")
     /\ ~RowsLocked(n)
     /\ scores' = scores \ RowsOf(n)
     /\ saved' = {e \in saved : e.name # n}
     /\ stripped' = stripped \cup {u.id : u \in AccountsOf(n)}
     /\ UNCHANGED <<schema, users, nextId, tx, erased, made>>

DeleteScores(r) ==
  /\ EraseScores(r)
  /\ Go(r, "deleteUser")
  /\ Release(r)
  /\ UNCHANGED <<up, call, broken, requests, faults>>

\* Rows, or saves, of accounts that go.
Of(gone, S) == {x \in S : \E u \in gone : x.user = u.id}
Without(gone, S) ==
  CASE schema.onDelete = "cascade"  -> S \ Of(gone, S)
    [] schema.onDelete = "set null" ->
         (S \ Of(gone, S)) \cup {[x EXCEPT !.user = NoUser] : x \in Of(gone, S)}
    [] OTHER -> S

Restricted(r) ==
  schema.onDelete = "restrict" /\ Of(AccountsOf(call[r].name), scores) # {}

RemoveUser(r) ==
  LET gone == AccountsOf(call[r].name)
  IN /\ Sends(r, "deleteUser")
     /\ ~NameLocked(call[r].name)
     /\ ~Restricted(r)
     /\ users' = users \ gone
     /\ scores' = Without(gone, scores)
     /\ saved' = Without(gone, saved)
     /\ erased' = erased \cup {u.id : u \in gone}
     /\ UNCHANGED <<schema, nextId, tx, stripped, made>>

DeleteUser(r) ==
  /\ \/ RemoveUser(r) /\ Finish(r, 200)
     \/ /\ Sends(r, "deleteUser") /\ ~NameLocked(call[r].name) /\ Restricted(r)
        /\ Finish(r, 500) /\ UNCHANGED <<db, ghosts, tx>>
  /\ Release(r)
  /\ UNCHANGED <<up, call, broken, requests, faults>>

\* The connection is lost after MySQL executed the statement and before it
\* said so: the handler answers 500, and delete-account stops there.
StatementUnacknowledged(r) ==
  /\ WriteScore(r) \/ EraseScores(r) \/ RemoveUser(r)
  /\ Fault
  /\ Finish(r, 500)
  /\ Release(r)
  /\ UNCHANGED <<up, call, broken, requests>>
-----------------------------------------------------------------------------
(***************************************************************************)
(* register: one transaction on one connection.                            *)
(***************************************************************************)
BeginTransaction(r) ==
  /\ Sends(r, "begin")
  /\ Go(r, "insertUser")
  /\ UNCHANGED <<db, pool, ghosts, up, call, tx, broken, requests, faults>>

\* The catch block: the status to answer is chosen by the error's code, after
\* the rollback.
Catch(r, code) ==
  /\ pc' = [pc EXCEPT ![r] = "rollback"]
  /\ resp' = [resp EXCEPT ![r] = code]

InsertUser(r) ==
  LET c == call[r]
  IN /\ Sends(r, "insertUser")
     /\ ~NameLocked(c.name)
     /\ IF AccountsOf(c.name) # {}
        THEN Catch(r, 409) /\ UNCHANGED <<nextId, tx, made>>
        ELSE /\ tx' = [tx EXCEPT ![r].user =
                         {[id |-> nextId, name |-> c.name, password |-> c.password]}]
             /\ made' = [made EXCEPT ![r] = nextId]
             /\ nextId' = nextId + 1
             /\ Go(r, "insertScores")
     /\ UNCHANGED <<schema, users, scores, pool, up, call, broken, requests, faults, saved,
                    stripped, erased>>

\* A row left by another owner of the name duplicates the key on username.
InsertScores(r) ==
  LET n == call[r].name
      id == made[r]
  IN /\ Sends(r, "insertScores")
     /\ IF \E g \in InitialGames : Duplicates(id, n, g) # {}
        THEN Catch(r, 409) /\ UNCHANGED tx
        ELSE /\ tx' = [tx EXCEPT ![r].rows =
                         {[user |-> id, name |-> n, game |-> g, high |-> 0] : g \in InitialGames}]
             /\ Go(r, "commit")
     /\ UNCHANGED <<db, pool, ghosts, up, call, broken, requests, faults>>

\* Mutant: answered without await connection.commit().
DropTx(r) == tx' = [tx EXCEPT ![r] = NoTx] /\ UNCHANGED db
ApplyTx(r) ==
  /\ users' = users \cup tx[r].user
  /\ scores' = scores \cup tx[r].rows
  /\ tx' = [tx EXCEPT ![r] = NoTx]
  /\ UNCHANGED <<schema, nextId>>

Commit(r) ==
  /\ Sends(r, "commit")
  /\ ApplyTx(r)
  /\ Finish(r, 201)
  /\ Release(r)
  /\ UNCHANGED <<ghosts, up, call, broken, requests, faults>>

\* A statement of the transaction fails, with or without the connection.
TxStatementFails(r) ==
  /\ up
  /\ pc[r] \in TxStatements
  /\ r \in holds
  /\ Fault
  /\ Catch(r, 500)
  /\ broken' \in {broken, broken \cup {r}}
  /\ UNCHANGED <<db, pool, ghosts, up, call, tx, requests>>

\* The connection is lost after MySQL committed and before it said so.
CommitUnacknowledged(r) ==
  /\ Sends(r, "commit")
  /\ Fault
  /\ ApplyTx(r)
  /\ Catch(r, 500)
  /\ broken' = broken \cup {r}
  /\ UNCHANGED <<pool, ghosts, up, call, requests>>

\* Mutant: the catch block answers without rolling back and the connection
\* returns to the pool, where a later COMMIT takes the rows along.
LeaveTx(r) == ApplyTx(r)
\* Mutant: the catch block answers without rolling back; the locks stay.
KeepTx(r) == UNCHANGED <<tx, db>>
UndoTx(r) == tx' = [tx EXCEPT ![r] = NoTx] /\ UNCHANGED db

Rollback(r) ==
  /\ up
  /\ pc[r] = "rollback"
  /\ r \notin broken
  /\ UndoTx(r)
  /\ Finish(r, resp[r])
  /\ Release(r)
  /\ UNCHANGED <<ghosts, up, call, broken, requests, faults>>
-----------------------------------------------------------------------------
(***************************************************************************)
(* The process.  getConnection is awaited outside the try block and        *)
(* rollback inside the catch block: nothing catches what they throw, and   *)
(* Node ends a process with an unhandled rejection.                        *)
(***************************************************************************)
Exit ==
  /\ up' = FALSE
  /\ pc' = [r \in Handlers |-> IF Active(r) THEN "idle" ELSE pc[r]]
  /\ resp' = [r \in Handlers |-> IF Active(r) THEN 0 ELSE resp[r]]
  /\ tx' = [r \in Handlers |-> NoTx]
  /\ holds' = {}
  /\ free' = ConnectionLimit
  /\ broken' = {}
  /\ UNCHANGED <<db, ghosts, call, requests>>

GetConnectionRejects(r) ==
  /\ up
  /\ pc[r] = "begin"
  /\ r \notin holds
  /\ Fault
  /\ Exit

RollbackRejects(r) ==
  /\ up
  /\ pc[r] = "rollback"
  /\ IF r \in broken THEN UNCHANGED faults ELSE Fault
  /\ Exit

\* The process is killed from outside between any two steps.
Killed == up /\ Fault /\ Exit

Restart ==
  /\ ~up
  /\ up' = TRUE
  /\ UNCHANGED <<db, pool, ghosts, call, pc, resp, tx, broken, requests, faults>>
-----------------------------------------------------------------------------
Init ==
  /\ schema \in Schemas
  /\ up = TRUE
  /\ users = {} /\ scores = {} /\ nextId = 1
  /\ free = ConnectionLimit /\ holds = {}
  /\ call = [r \in Handlers |-> NoCall]
  /\ pc = [r \in Handlers |-> "idle"]
  /\ resp = [r \in Handlers |-> 0]
  /\ tx = [r \in Handlers |-> NoTx]
  /\ broken = {}
  /\ requests = 0 /\ faults = 0
  /\ saved = {} /\ stripped = {} /\ erased = {}
  /\ made = [r \in Handlers |-> 0]

\* What the server and MySQL do for a request once it has arrived.
Serve(r) ==
  \/ Acquire(r)
  \/ Select(r) \/ SaveScore(r) \/ DeleteScores(r) \/ DeleteUser(r)
  \/ BeginTransaction(r) \/ InsertUser(r) \/ InsertScores(r) \/ Commit(r) \/ Rollback(r)

\* What fails under it.
Fails(r) ==
  \/ StatementFails(r) \/ StatementUnacknowledged(r)
  \/ TxStatementFails(r) \/ CommitUnacknowledged(r)
  \/ GetConnectionRejects(r) \/ RollbackRejects(r)

\* The end of the rejected rollback of a lost connection, no fault of its own.
Abandon(r) == r \in broken /\ RollbackRejects(r)

Next ==
  \/ \E r \in Handlers : Receive(r) \/ Serve(r) \/ Fails(r)
  \/ Killed
  \/ Restart

Spec == Init /\ [][Next]_vars

\* Handlers run when the event loop reaches them, statements end, and the
\* pool's queue and InnoDB's lock queues are first in, first out: a handler
\* that can go on does.  No request has to arrive, no fault has to happen and
\* nobody has to restart the process.
Fairness == \A r \in Handlers : WF_vars(Serve(r) \/ Abandon(r))

FairSpec == Spec /\ Fairness
-----------------------------------------------------------------------------
TypeOK ==
  /\ schema \in Schemas
  /\ up \in BOOLEAN
  /\ users \subseteq Accounts
  /\ scores \subseteq Rows
  /\ nextId \in Ids
  /\ free \in 0..ConnectionLimit
  /\ holds \subseteq Handlers
  /\ call \in [Handlers -> Calls \cup {NoCall}]
  /\ pc \in [Handlers -> PoolStatements \cup TxStatements \cup {"idle", "done", "rollback"}]
  /\ resp \in [Handlers -> {0, 200, 201, 400, 401, 409, 500}]
  /\ tx \in [Handlers -> [user : SUBSET Accounts, rows : SUBSET Rows]]
  /\ broken \subseteq Handlers
  /\ requests \in 0..MaxRequests /\ faults \in 0..MaxFaults
  /\ saved \subseteq [user : Ids \cup {NoUser}, name : Names, game : Games, score : Posted]
  /\ stripped \subseteq Ids /\ erased \subseteq Ids
  /\ made \in [Handlers -> Ids \cup {0}]

\* No connection of the pool is lost or handed out twice, whatever fails:
\* the connections in use are those of handlers still at work, and once all
\* have answered, or the process has restarted, the pool is whole again.
PoolConserved ==
  /\ free + Cardinality(holds) = ConnectionLimit
  /\ \A r \in holds : Active(r)

\* What the proofs need besides: a handler's statement belongs to its request,
\* an open transaction keeps its connection, the rows of the scores are
\* inserted for an account that has an id, and a rollback answers an error.
HandlersSound ==
  \A r \in Handlers :
    /\ Active(r) => call[r] \in Calls
    /\ pc[r] = "select" => call[r].op \in {"login", "check"}
    /\ pc[r] = "save" => call[r].op = "save"
    /\ pc[r] \in TxStatements \cup {"rollback"} => call[r].op = "register"
    /\ pc[r] \in {"insertUser", "insertScores", "commit", "rollback"} => r \in holds
    /\ pc[r] = "insertScores" => made[r] \in Ids
    /\ pc[r] = "rollback" => resp[r] \in {409, 500}

\* ... the key of users, and that a name inserted by an open transaction is
\* nobody else's, committed or not.
UniqueNames == \A u, v \in users : u.name = v.name => u = v
NamesReserved ==
  \A r \in Handlers : \A u \in tx[r].user :
    /\ \A v \in users : v.name # u.name
    /\ \A q \in Handlers : \A v \in tx[q].user : v.name = u.name => q = r /\ v = u

\* A client told that its registration failed finds no account of it, even
\* when the error came after some of the INSERTs or at the commit.
FailedRegisterLeavesNothing ==
  \A r \in Handlers :
    (pc[r] = "done" /\ call[r].op = "register" /\ resp[r] # 201)
      => \A u \in users : u.id # made[r]

\* A client told that its registration succeeded has the account, with the
\* password it sent, until a delete-account deletes that account, and until its
\* scores are erased the rows that come with it: of two registrations racing
\* for a name that both answer 201, one's account has been deleted in between.
AcceptedRegisterStands ==
  \A r \in Handlers :
    LET c == call[r]
    IN (pc[r] = "done" /\ c.op = "register" /\ resp[r] = 201) =>
         \/ made[r] \in erased
         \/ /\ [id |-> made[r], name |-> c.name, password |-> c.password] \in users
            /\ \/ made[r] \in stripped
               \/ \A g \in InitialGames : \E row \in scores :
                    row.user = made[r] /\ row.name = c.name /\ row.game = g

\* A score that save-score accepted stays accounted for by a row at least as
\* good until a DELETE erases it, in whatever order saves arrive.
AcceptedScoreKept ==
  \A e \in saved :
    \E row \in scores :
      /\ row.user = e.user /\ row.name = e.name /\ row.game = e.game
      /\ IF e.game = "mine" THEN row.high <= e.score ELSE row.high >= e.score

\* Nobody holds a record that was not posted for that owner, username and game
\* since the row was last erased.
RecordEarned ==
  \A row \in scores :
    row.high # 0 => \E e \in saved : /\ e.user = row.user /\ e.name = row.name
                                     /\ e.game = row.game /\ e.score = row.high

\* What delete-account's comment says, "Delete user and related scores": of an
\* account that it has deleted no row is left.
DeleteErasesScores == \A row \in scores : row.user \notin erased

\* LEAST(0, t) = 0: the row that register inserts for "mine" holds 0 for the
\* account's whole life, so no time that save-score accepts becomes a record
\* (the rankings skip 0) unless a delete-account stopped half-way.
MineRecordFrozen ==
  \A row \in scores :
    (row.game = "mine" /\ row.user # NoUser /\ row.user \notin stripped) => row.high = 0

\* The handlers of auth.js and score.js implement Ledger: to a client, whatever
\* fails or interleaves, an account and its initial rows appear at once under a
\* name that was free, and no row gets worse or goes but by a deletion.
Service == INSTANCE Ledger WITH
  Scores <- Posted,
  accounts <- {u.name : u \in users},
  records <- {[name |-> row.name, game |-> row.game, high |-> row.high] : row \in scores}
LedgerKept == Service!Spec

\* Every request that arrives is answered or dies with the process, however
\* many handlers share the pool and whichever locks they wait for.
EveryRequestAnswered == \A r \in Handlers : Active(r) ~> ~Active(r)
=============================================================================
