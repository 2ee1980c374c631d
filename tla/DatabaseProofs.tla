--------------------------- MODULE DatabaseProofs ---------------------------
(***************************************************************************)
(* What each operation of Postgres does to DBInv, and what it leaves alone *)
(* of the other requests.  The proofs about Server use only these lemmas   *)
(* for the requests that do not take the step.                             *)
(***************************************************************************)
EXTENDS ServerInvariant, TLAPS

\* A step leaves the session of s, the rows s has locked and the rows that carry
\* the id of s as they are.
Untouched(s) ==
  /\ tx'[s] = tx[s]
  /\ \A u \in UserID : locks[u] = s =>
       /\ locks'[u] = s
       /\ users'[u].balance = users[u].balance
  /\ \A t \in transfers' : t.id = s => t \in transfers
  /\ \A p \in purchases' : p.id = s => p \in purchases

OthersUntouched(r) == \A s \in Request \ {r} : Untouched(s)

-----------------------------------------------------------------------------
(* Types *)

\* The staged balances of a session are a function on some user ids.
LEMMA BalanceType ==
  ASSUME NEW b
  PROVE  b \in UNION {[S -> Int32] : S \in SUBSET UserID}
           <=> DOMAIN b \subseteq UserID /\ b \in [DOMAIN b -> Int32]
  OBVIOUS

\* The session before BEGIN and after the end of a transaction is of its type.
LEMMA NoSessionType ==
  /\ NoSession \in Session
  /\ NoSession.want = {} /\ NoSession.at = NoUser /\ NoSession.status = "none"
  /\ NoSession.transfers = {} /\ NoSession.purchases = {}
  /\ DOMAIN NoSession.balance = {}
<1>1. NoSession.balance \in UNION {[S -> Int32] : S \in SUBSET UserID}
  BY BalanceType DEF NoSession
<1> QED BY <1>1 DEF NoSession, Session

-----------------------------------------------------------------------------
(* Operations.  Each lemma: DBInv is kept, the other requests are untouched. *)

\* Statements that only change the writes or the status of r's own session.
LEMMA StageDB ==
  ASSUME DBInv, NEW r \in Request, NEW session, SessionInv(r, session),
         Stage(r, session)
  PROVE  /\ DBInv' /\ OthersUntouched(r)
         /\ tx'[r] = session
  BY DEF DBInv, DBTypeOK, SessionInv, Stage, OthersUntouched, Untouched

\* pool.Begin.
LEMMA BeginDB ==
  ASSUME DBInv, NEW r \in Request, Begin(r)
  PROVE  /\ DBInv' /\ OthersUntouched(r)
         /\ tx'[r].status = "open" /\ NothingStaged(r)'
<1> DEFINE session == [NoSession EXCEPT !.status = "open", !.created_at = clock]
<1>1. SessionInv(r, session) /\ session.status = "open"
      /\ session.transfers = {} /\ session.purchases = {} /\ DOMAIN session.balance = {}
  <2>1. clock \in Nat
    BY DEF DBInv, DBTypeOK
  <2>2. session \in Session
    BY <2>1, NoSessionType DEF Session
  <2>3. /\ session.want = {} /\ session.at = NoUser /\ session.status = "open"
        /\ session.transfers = {} /\ session.purchases = {}
        /\ DOMAIN session.balance = {}
    BY NoSessionType DEF NoSession
  <2> QED BY <2>2, <2>3 DEF SessionInv
<1>2. tx' = [tx EXCEPT ![r] = session] /\ clock' = clock + 1
      /\ UNCHANGED <<users, transfers, purchases, locks>>
  BY DEF Begin
<1> HIDE DEF session
<1>3. DBInv'
  BY <1>1, <1>2 DEF DBInv, DBTypeOK, SessionInv
<1> QED BY <1>1, <1>2, <1>3 DEF DBInv, DBTypeOK, OthersUntouched, Untouched, NothingStaged

\* The scan of SELECT ... FOR UPDATE meets one of the rows, or there is none.
LEMMA ScanFirstIn ==
  ASSUME NEW rows
  PROVE  ScanFirst(rows) \subseteq rows \cup {NoUser}
  BY DEF ScanFirst

\* SELECT ... FOR UPDATE is sent.
LEMMA SelectDB ==
  ASSUME DBInv, NEW r \in Request, NEW ids, SelectForUpdate(r, ids)
  PROVE  /\ DBInv' /\ OthersUntouched(r)
         /\ tx'[r].status = tx[r].status
         /\ NothingStaged(r) => NothingStaged(r)'
<1> DEFINE rows == ids \cap DOMAIN users
<1>1. PICK u \in ScanFirst(rows) :
        /\ tx' = [tx EXCEPT ![r].want = rows, ![r].at = u]
        /\ UNCHANGED <<users, transfers, purchases, locks, clock>>
  BY DEF SelectForUpdate
<1> DEFINE session == [tx[r] EXCEPT !.want = rows, !.at = u]
<1>2. tx[r] \in Session /\ SessionInv(r, tx[r]) /\ DOMAIN users \subseteq UserID
  BY DEF DBInv, DBTypeOK
<1>3. u \in rows \cup {NoUser} /\ rows \subseteq UserID
  BY <1>2, ScanFirstIn
<1>4. SessionInv(r, session)
  BY <1>2, <1>3 DEF SessionInv, Session
<1>5. Stage(r, session)
  BY <1>1 DEF Stage, DBInv, DBTypeOK
<1>6. /\ session.status = tx[r].status /\ session.transfers = tx[r].transfers
      /\ session.purchases = tx[r].purchases /\ session.balance = tx[r].balance
  BY <1>2 DEF Session
<1> HIDE DEF session
<1> QED BY <1>4, <1>5, <1>6, StageDB DEF NothingStaged

\* A row lock is granted.
LEMMA LockRowDB ==
  ASSUME DBInv, NEW r \in Request, LockRow(r)
  PROVE  /\ DBInv' /\ OthersUntouched(r)
         /\ tx'[r].status = tx[r].status
         /\ NothingStaged(r) => NothingStaged(r)'
<1> DEFINE at == tx[r].at
           rest == tx[r].want \ {at}
<1>1. /\ tx[r].status = "open" /\ at # NoUser /\ locks[at] = NoRequest
      /\ locks' = [locks EXCEPT ![at] = r]
      /\ UNCHANGED <<users, transfers, purchases, clock>>
  BY DEF LockRow
<1>2. PICK u \in ScanFirst(rest) : tx' = [tx EXCEPT ![r].want = @ \ {at}, ![r].at = u]
  BY DEF LockRow
<1> DEFINE session == [tx[r] EXCEPT !.want = rest, !.at = u]
<1>3. /\ tx[r] \in Session /\ SessionInv(r, tx[r]) /\ DOMAIN users \subseteq UserID
      /\ at \in DOMAIN users /\ tx \in [Request -> Session]
      /\ locks \in [UserID -> Request \cup {NoRequest}]
  BY <1>1 DEF DBInv, DBTypeOK, SessionInv
<1>4. u \in rest \cup {NoUser} /\ rest \subseteq DOMAIN users
  BY <1>3, ScanFirstIn DEF SessionInv
<1>5. tx' = [tx EXCEPT ![r] = session]
  BY <1>2, <1>3
<1>6. session \in Session
  BY <1>3, <1>4 DEF Session
<1>7. SessionInv(r, session)
  BY <1>3, <1>4, <1>6 DEF SessionInv, Session
<1>8. /\ session.status = tx[r].status /\ session.transfers = tx[r].transfers
      /\ session.purchases = tx[r].purchases /\ session.balance = tx[r].balance
  BY <1>3 DEF Session
<1>9. \A s \in Request, v \in UserID : locks[v] = s => locks'[v] = s
  BY <1>1, <1>3, ConstantsAssumption
<1> HIDE DEF session
<1>10. \A s \in Request : SessionInv(s, tx[s])'
  <2>1. SUFFICES ASSUME NEW s \in Request PROVE SessionInv(s, tx[s])'
    OBVIOUS
  <2>2. SessionInv(s, tx'[s])
    BY <1>3, <1>5, <1>7 DEF DBInv
  <2>3. DOMAIN tx'[s].balance \subseteq UserID
    BY <2>2, BalanceType DEF SessionInv, Session
  <2> QED BY <1>1, <1>9, <2>2, <2>3 DEF SessionInv
<1>11. DBInv'
  BY <1>1, <1>3, <1>5, <1>6, <1>10 DEF DBInv, DBTypeOK
<1> QED BY <1>1, <1>3, <1>5, <1>8, <1>9, <1>11 DEF OthersUntouched, Untouched, NothingStaged

\* Every row staged by a session and every staged balance is of its type.
LEMMA StagedTypes ==
  ASSUME DBInv, NEW r \in Request
  PROVE  /\ tx[r] \in Session
         /\ tx[r].transfers \subseteq TransferRow
         /\ tx[r].purchases \subseteq PurchaseRow
         /\ DOMAIN tx[r].balance \subseteq UserID
         /\ \A u \in DOMAIN tx[r].balance : tx[r].balance[u] \in Int32 /\ locks[u] = r
<1>1. SessionInv(r, tx[r])
  BY DEF DBInv
<1>2. tx[r].balance \in UNION {[S -> Int32] : S \in SUBSET UserID}
  BY <1>1 DEF SessionInv, Session
<1> QED BY <1>1, <1>2, BalanceType DEF SessionInv, Session

\* The end of a session, for the sessions that go on: r gives back its locks and
\* nothing else changes hands.
LEMMA EndSessionDB ==
  ASSUME DBInv, NEW r \in Request, EndSession(r), DOMAIN users' = DOMAIN users
  PROVE  /\ tx' \in [Request -> Session] /\ tx'[r] = NoSession
         /\ locks' \in [UserID -> Request \cup {NoRequest}]
         /\ \A u \in UserID : locks'[u] # NoRequest => u \in DOMAIN users'
         /\ \A s \in Request \ {r} : /\ tx'[s] = tx[s]
                                     /\ \A u \in UserID : locks[u] = s => locks'[u] = s
         /\ \A s \in Request : SessionInv(s, tx[s])'
<1>1. /\ tx \in [Request -> Session] /\ locks \in [UserID -> Request \cup {NoRequest}]
      /\ tx' = [tx EXCEPT ![r] = NoSession]
      /\ locks' = [u \in UserID |-> IF locks[u] = r THEN NoRequest ELSE locks[u]]
  BY DEF DBInv, DBTypeOK, EndSession
<1>2. \A s \in Request \ {r} : /\ tx'[s] = tx[s]
                               /\ \A u \in UserID : locks[u] = s => locks'[u] = s
  BY <1>1
<1>3. ASSUME NEW s \in Request PROVE SessionInv(s, tx[s])'
  <2>1. CASE s = r
    BY <1>1, <2>1, NoSessionType DEF SessionInv
  <2>2. CASE s # r
    BY <1>2, <2>2, StagedTypes DEF DBInv, SessionInv
  <2> QED BY <2>1, <2>2
<1>4. \A u \in UserID : locks'[u] # NoRequest => u \in DOMAIN users'
  BY <1>1 DEF DBInv
<1> QED BY <1>1, <1>2, <1>3, <1>4, NoSessionType

\* ROLLBACK.
LEMMA RollbackDB ==
  ASSUME DBInv, NEW r \in Request, Rollback(r)
  PROVE  DBInv' /\ OthersUntouched(r) /\ tx'[r] = NoSession
<1>1. EndSession(r) /\ UNCHANGED <<users, transfers, purchases, clock>>
  BY DEF Rollback, EndSession
<1> QED BY <1>1, EndSessionDB DEF DBInv, DBTypeOK, OthersUntouched, Untouched

\* COMMIT: the balances change only where r holds the lock.
LEMMA CommitDB ==
  ASSUME DBInv, NEW r \in Request, Commit(r)
  PROVE  /\ DBInv' /\ OthersUntouched(r) /\ tx'[r] = NoSession
<1>1. /\ EndSession(r) /\ clock' = clock
      /\ users' = [u \in DOMAIN users |->
                     IF u \in DOMAIN tx[r].balance
                     THEN [users[u] EXCEPT !.balance = tx[r].balance[u]]
                     ELSE users[u]]
      /\ transfers' = transfers \cup tx[r].transfers
      /\ purchases' = purchases \cup tx[r].purchases
  BY DEF Commit, EndSession
<1>2. DOMAIN users' = DOMAIN users
  BY <1>1
<1>3. users' \in [DOMAIN users -> UserRow]
  <2>1. ASSUME NEW u \in DOMAIN users PROVE users'[u] \in UserRow
    <3>1. users[u] \in UserRow
      BY DEF DBInv, DBTypeOK
    <3>2. CASE u \in DOMAIN tx[r].balance
      BY <1>1, <3>1, <3>2, StagedTypes DEF UserRow
    <3>3. CASE u \notin DOMAIN tx[r].balance
      BY <1>1, <3>1, <3>3
    <3> QED BY <3>2, <3>3
  <2> QED BY <1>1, <2>1
<1>4. DBTypeOK'
  BY <1>1, <1>2, <1>3, EndSessionDB, StagedTypes DEF DBInv, DBTypeOK
<1>5. DBInv'
  BY <1>1, <1>2, <1>4, EndSessionDB DEF DBInv
<1>6. ASSUME NEW s \in Request \ {r} PROVE Untouched(s)
  <2>1. \A u \in UserID : locks[u] = s => users'[u].balance = users[u].balance
    <3>1. SUFFICES ASSUME NEW u \in UserID, locks[u] = s
                   PROVE  users'[u].balance = users[u].balance
      OBVIOUS
    <3>2. u \in DOMAIN users
      BY <3>1, ConstantsAssumption DEF DBInv
    <3>3. u \notin DOMAIN tx[r].balance
      BY <3>1, StagedTypes
    <3> QED BY <1>1, <3>2, <3>3
  <2>2. /\ \A t \in tx[r].transfers : t.id = r
        /\ \A p \in tx[r].purchases : p.id = r
    BY DEF DBInv, SessionInv
  <2> QED BY <1>1, <1>2, <2>1, <2>2, EndSessionDB DEF Untouched
<1> QED BY <1>1, <1>2, <1>5, <1>6, EndSessionDB DEF OthersUntouched

\* The connection of r is closed: its session keeps its writes and its locks.
LEMMA DisconnectDB ==
  ASSUME DBInv, NEW r \in Request, NEW status \in {"aborting", "committing"},
         Disconnect(r, status)
  PROVE  /\ DBInv' /\ OthersUntouched(r)
         /\ UNCHANGED <<users, transfers, purchases, locks>>
         /\ tx'[r].status = status
         /\ tx'[r].created_at = tx[r].created_at
         /\ tx'[r].transfers = tx[r].transfers
         /\ tx'[r].purchases = tx[r].purchases
         /\ tx'[r].balance = tx[r].balance
<1> DEFINE session == [tx[r] EXCEPT !.status = status, !.want = {}, !.at = NoUser]
<1>1. tx[r] \in Session /\ SessionInv(r, tx[r])
  BY DEF DBInv, DBTypeOK
<1>2. session \in Session
  BY <1>1 DEF Session
<1>3. /\ session.status = status /\ session.want = {} /\ session.at = NoUser
      /\ session.created_at = tx[r].created_at
      /\ session.transfers = tx[r].transfers
      /\ session.purchases = tx[r].purchases /\ session.balance = tx[r].balance
  BY <1>1 DEF Session
<1>4. Stage(r, session)
  BY DEF Disconnect
<1> HIDE DEF session
<1>5. SessionInv(r, session)
  BY <1>1, <1>2, <1>3 DEF SessionInv
<1> QED BY <1>3, <1>4, <1>5, StageDB DEF Stage

\* A new account takes nothing away from anyone.
LEMMA InsertUserDB ==
  ASSUME DBInv, NEW r, NEW u \in UserID, InsertUser(r, u),
         auth[r].username \in Username, auth[r].password \in Password
  PROVE  DBInv' /\ \A s \in Request : Untouched(s)
<1> DEFINE row == [username |-> auth[r].username, password_hash |-> Hash(auth[r].password),
                   balance |-> DefaultBalance]
<1>1. /\ u \notin DOMAIN users /\ users' = Put(users, u, row)
      /\ UNCHANGED <<transfers, purchases, locks, tx, clock>>
  BY DEF InsertUser
<1>2. row \in UserRow
  BY ConstantsAssumption DEF UserRow, PasswordHash, Hash
<1> HIDE DEF row
<1>3. /\ DOMAIN users' = DOMAIN users \cup {u}
      /\ \A v \in DOMAIN users : users'[v] = users[v]
      /\ users'[u] = row
      /\ users' \in [DOMAIN users' -> UserRow]
  BY <1>1, <1>2 DEF Put, DBInv, DBTypeOK
<1>4. DBTypeOK'
  BY <1>1, <1>3 DEF DBInv, DBTypeOK
<1>5. \A s \in Request : SessionInv(s, tx[s])'
  BY <1>1, <1>3 DEF DBInv, SessionInv
<1>6. DBInv'
  BY <1>1, <1>3, <1>4, <1>5 DEF DBInv
<1>7. \A s \in Request : Untouched(s)
  BY <1>1, <1>3, ConstantsAssumption DEF DBInv, Untouched
<1> QED BY <1>6, <1>7

=============================================================================
