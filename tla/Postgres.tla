------------------------------ MODULE Postgres ------------------------------
(***************************************************************************)
(* The database the merch server works on: the tables of the migration,    *)
(* the pgx connection pool, and the transactions the services open, as far *)
(* as the code uses them.                                                  *)
(*                                                                         *)
(* Transactions run at READ COMMITTED.  What a transaction writes is       *)
(* staged in tx[r] and becomes visible at COMMIT.  SELECT ... FOR UPDATE   *)
(* takes the row locks one row at a time, in the order in which the scan   *)
(* meets the rows; locks are kept until the transaction ends.              *)
(***************************************************************************)
EXTENDS Integers, FiniteSets

CONSTANTS
  UserID,         \* values of the column users.id (uuid)
  Username,       \* values of the column users.username
  Password,       \* passwords a client may present
  Request,        \* HTTP requests that open a transaction
  Items,          \* rows of the table items, by name
  Price,          \* Price[i]: the column items.price
  DefaultBalance, \* user.DefaultBalance
  MaxInt32,       \* largest value of the SQL type integer
  PoolSize,       \* MaxConns of the pgx pool
  ScanOrders,     \* orders in which a scan of users may meet the rows
  SeededUsers,    \* user ids that exist at first, with their usernames
  SeedPassword,   \* the password of those users
  NoUser, NoRequest

VARIABLES
  users,      \* committed rows of users: user id -> row
  transfers,  \* committed rows of transfers
  purchases,  \* committed rows of purchases
  locks,      \* row lock on each user: the request whose transaction holds it
  tx,         \* the backend session of each request
  clock       \* now(): counts the transactions begun

dbvars == <<users, transfers, purchases, locks, tx, clock>>

Int32 == 0..MaxInt32

ASSUME ConstantsAssumption ==
  /\ MaxInt32 \in Nat
  /\ DefaultBalance \in Int32
  /\ Price \in [Items -> Int32]
  /\ PoolSize \in Nat \ {0}
  /\ NoUser \notin UserID
  /\ NoRequest \notin Request

ASSUME ScanAssumption ==
  /\ ScanOrders # {}
  /\ ScanOrders \subseteq [UserID -> Nat]
  /\ \A o \in ScanOrders : \A u, v \in UserID : o[u] = o[v] => u = v

ASSUME SeedAssumption ==
  /\ DOMAIN SeededUsers \subseteq UserID
  /\ \A u \in DOMAIN SeededUsers : SeededUsers[u] \in Username
  /\ \A u, v \in DOMAIN SeededUsers : SeededUsers[u] = SeededUsers[v] => u = v
  /\ SeedPassword \in Password

-----------------------------------------------------------------------------
(* Rows *)

\* An Argon2id hash in the PHC format: all it tells is which password it is of.
PasswordHash == [argon2id : Password]

UserRow == [username : Username, password_hash : PasswordHash, balance : Int32]

TransferRow == [id : Request, created_at : Nat, dst_user_id : UserID,
                src_user_id : UserID, amount : Int32]

PurchaseRow == [id : Request, created_at : Nat, user_id : UserID,
                item_id : Items, amount : Int32]

\* The session of a request.  "open": the handler owns it and holds one pooled
\* connection.  "aborting" and "committing": the handler is gone and its
\* connection closed, the backend has not ended the transaction yet;
\* "committing" when COMMIT had already been sent.
Session ==
  [status     : {"none", "open", "aborting", "committing"},
   created_at : Nat,                    \* now(), fixed at BEGIN
   want       : SUBSET UserID,          \* rows FOR UPDATE has still to lock
   at         : UserID \cup {NoUser},   \* row the scan is at
   transfers  : SUBSET TransferRow,     \* staged inserts ...
   purchases  : SUBSET PurchaseRow,
   balance    : UNION {[S -> Int32] : S \in SUBSET UserID}]  \* ... and updates

NoSession ==
  [status |-> "none", created_at |-> 0, want |-> {}, at |-> NoUser,
   transfers |-> {}, purchases |-> {}, balance |-> [u \in {} |-> 0]]

DBTypeOK ==
  /\ DOMAIN users \subseteq UserID
  /\ users \in [DOMAIN users -> UserRow]
  /\ transfers \in SUBSET TransferRow
  /\ purchases \in SUBSET PurchaseRow
  /\ locks \in [UserID -> Request \cup {NoRequest}]
  /\ tx \in [Request -> Session]
  /\ clock \in Nat

\* The database as `setup -app` and `setup -apptest` leave it.
DBInit ==
  /\ users = [u \in DOMAIN SeededUsers |->
                [username      |-> SeededUsers[u],
                 password_hash |-> [argon2id |-> SeedPassword],
                 balance       |-> DefaultBalance]]
  /\ transfers = {}
  /\ purchases = {}
  /\ locks = [u \in UserID |-> NoRequest]
  /\ tx = [r \in Request |-> NoSession]
  /\ clock = 0

\* The function f with k mapped to v.
Put(f, k, v) == [x \in DOMAIN f \cup {k} |-> IF x = k THEN v ELSE f[x]]

\* user.Getter.GetUser and user.Getter.GetUserByUsername: the ids found, at most
\* one.
GetUser(id) == {id} \cap DOMAIN users
GetUserByUsername(name) == {u \in DOMAIN users : users[u].username = name}

-----------------------------------------------------------------------------
(* The pool *)

\* A connection is free.  Statements outside a transaction take a connection
\* for their own duration only.
PoolFree == Cardinality({r \in Request : tx[r].status = "open"}) < PoolSize

\* pool.Begin: takes a connection and opens a transaction on it.
Begin(r) ==
  /\ PoolFree
  /\ tx' = [tx EXCEPT ![r] = [NoSession EXCEPT !.status = "open",
                                               !.created_at = clock]]
  /\ clock' = clock + 1
  /\ UNCHANGED <<users, transfers, purchases, locks>>

-----------------------------------------------------------------------------
(* SELECT ... FOR UPDATE *)

\* The rows a scan of `rows` may meet first.
ScanFirst(rows) ==
  IF rows = {}
  THEN {NoUser}
  ELSE {u \in rows : \E o \in ScanOrders : \A v \in rows : o[u] <= o[v]}

\* SELECT ... FROM users WHERE id = ANY(ids) FOR UPDATE is sent.
SelectForUpdate(r, ids) ==
  LET rows == ids \cap DOMAIN users
  IN  \E u \in ScanFirst(rows) :
        /\ tx' = [tx EXCEPT ![r].want = rows, ![r].at = u]
        /\ UNCHANGED <<users, transfers, purchases, locks, clock>>

\* Mutant: plain SELECT, the scan waits for nobody.
LockRowNoWait(r) ==
  /\ tx[r].status = "open"
  /\ tx[r].at # NoUser
  /\ locks' = [locks EXCEPT ![tx[r].at] = r]
  /\ \E u \in ScanFirst(tx[r].want \ {tx[r].at}) :
       tx' = [tx EXCEPT ![r].want = @ \ {tx[r].at}, ![r].at = u]
  /\ UNCHANGED <<users, transfers, purchases, clock>>

\* The scan gets the lock on the row it is at and goes on to the next row.
LockRow(r) ==
  /\ tx[r].status = "open"
  /\ tx[r].at # NoUser
  /\ locks[tx[r].at] = NoRequest
  /\ locks' = [locks EXCEPT ![tx[r].at] = r]
  /\ \E u \in ScanFirst(tx[r].want \ {tx[r].at}) :
       tx' = [tx EXCEPT ![r].want = @ \ {tx[r].at}, ![r].at = u]
  /\ UNCHANGED <<users, transfers, purchases, clock>>

\* The statement has returned, and the rows it returned.
Selected(r) == tx[r].at = NoUser
LockedRows(r) == {u \in UserID : locks[u] = r}

\* r's scan waits in a cycle of transactions, each waiting for a lock of the
\* next one.  PostgreSQL ends such a cycle by failing one of its statements.
Deadlocked(r) ==
  \E C \in SUBSET Request :
    /\ r \in C
    /\ \A s \in C : tx[s].at # NoUser
    /\ {locks[tx[s].at] : s \in C} = C

-----------------------------------------------------------------------------
(* Writes and the end of a transaction *)

Stage(r, session) ==
  /\ tx' = [tx EXCEPT ![r] = session]
  /\ UNCHANGED <<users, transfers, purchases, locks, clock>>

EndSession(r) ==
  /\ tx' = [tx EXCEPT ![r] = NoSession]
  /\ locks' = [u \in UserID |-> IF locks[u] = r THEN NoRequest ELSE locks[u]]
  /\ UNCHANGED clock

Commit(r) ==
  /\ users' = [u \in DOMAIN users |->
                 IF u \in DOMAIN tx[r].balance
                 THEN [users[u] EXCEPT !.balance = tx[r].balance[u]]
                 ELSE users[u]]
  /\ transfers' = transfers \cup tx[r].transfers
  /\ purchases' = purchases \cup tx[r].purchases
  /\ EndSession(r)

Rollback(r) == EndSession(r) /\ UNCHANGED <<users, transfers, purchases>>

\* The connection of r is closed under an open transaction: the request's
\* context was cancelled or the connection broke.
Disconnect(r, status) ==
  Stage(r, [tx[r] EXCEPT !.status = status, !.want = {}, !.at = NoUser])

\* The deferred tx.Rollback(ctx).  When it fails it is only logged, and the
\* driver closes the connection.
DeferredRollback(r) == Rollback(r) \/ Disconnect(r, "aborting")

\* The backend of a closed connection ends: it rolls back, or, when COMMIT had
\* been sent, it may have executed it.
OrphanRollback(r) == tx[r].status \in {"aborting", "committing"} /\ Rollback(r)
OrphanCommit(r) == tx[r].status = "committing" /\ Commit(r)

=============================================================================
