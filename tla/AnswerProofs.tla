---------------------------- MODULE AnswerProofs ----------------------------
(***************************************************************************)
(* The accounts and the answers: there is one account per name, tokens are *)
(* for accounts that exist, and what a client was told of a transfer or a  *)
(* purchase agrees with what has become of it, now and later.              *)
(***************************************************************************)
EXTENDS ServerProofs, FiniteSetTheorems

-----------------------------------------------------------------------------
(* Accounts *)

\* An account stays, and so do its name and its password.
LEMMA AccountsStay ==
  ASSUME Inv, [Next]_vars
  PROVE  \A u \in DOMAIN users :
           /\ u \in DOMAIN users'
           /\ users'[u].username = users[u].username
           /\ users'[u].password_hash = users[u].password_hash
<1>1. \A u \in DOMAIN users : users[u] \in UserRow
  BY DEF Inv, DBInv, DBTypeOK
<1>2. CASE UNCHANGED <<users, transfers, purchases>>
  BY <1>2
<1>3. ASSUME NEW r \in Request, Commit(r)
      PROVE  \A u \in DOMAIN users :
               /\ u \in DOMAIN users'
               /\ users'[u].username = users[u].username
               /\ users'[u].password_hash = users[u].password_hash
  <2>1. ASSUME NEW u \in DOMAIN users, NEW b
        PROVE  /\ [users[u] EXCEPT !.balance = b].username = users[u].username
               /\ [users[u] EXCEPT !.balance = b].password_hash = users[u].password_hash
    BY <1>1 DEF UserRow
  <2> QED BY <1>3, <2>1 DEF Commit
<1>4. ASSUME NEW r \in AuthRequest, NEW v \in UserID, InsertUser(r, v)
      PROVE  \A u \in DOMAIN users : u \in DOMAIN users' /\ users'[u] = users[u]
  BY <1>4 DEF InsertUser, Put
<1> QED BY <1>2, <1>3, <1>4, TablesStep

\* An account that is new has a name no account had.
LEMMA NamesStayUnique ==
  ASSUME Inv, [Next]_vars,
         \A u, v \in DOMAIN users : users[u].username = users[v].username => u = v
  PROVE  \A u, v \in DOMAIN users' : users'[u].username = users'[v].username => u = v
<1>1. CASE UNCHANGED <<users, transfers, purchases>>
  BY <1>1
<1>2. ASSUME NEW r \in Request, Commit(r) PROVE DOMAIN users' = DOMAIN users
  BY <1>2 DEF Commit
<1>3. CASE DOMAIN users' = DOMAIN users
  BY <1>3, AccountsStay
<1>4. ASSUME NEW r \in AuthRequest, NEW n \in UserID, InsertUser(r, n)
      PROVE  \A u, v \in DOMAIN users' : users'[u].username = users'[v].username => u = v
  <2>1. /\ DOMAIN users' = DOMAIN users \cup {n}
        /\ users'[n].username = auth[r].username
        /\ \A u \in DOMAIN users : u # n /\ users'[u] = users[u]
    BY <1>4 DEF InsertUser, Put
  <2>2. \A u \in DOMAIN users : users[u].username # auth[r].username
    BY <1>4 DEF InsertUser, GetUserByUsername
  <2> QED BY <2>1, <2>2
<1> QED BY <1>1, <1>2, <1>3, <1>4, TablesStep

\* The part of AccountInv about one caller of /api/auth.
AuthAnswerInv(r) ==
  /\ auth[r].pc # "done" => auth[r].resp = "none"
  /\ auth[r].resp = "ok" => auth[r].user \in GetUserByUsername(auth[r].username)
  /\ auth[r].resp = "unauthorized" =>
       \E u \in GetUserByUsername(auth[r].username) :
         ~Verify(auth[r].password, users[u].password_hash)

\* AccountInv is about the names, the tokens and each caller.
LEMMA AccountInvParts ==
  AccountInv <=>
    /\ \A u, v \in DOMAIN users : users[u].username = users[v].username => u = v
    /\ tokens \subseteq DOMAIN users \cup StaleTokens
    /\ \A r \in AuthRequest : AuthAnswerInv(r)
  BY DEF AccountInv, OneAccountPerName, TokensHaveAccounts, AuthAnswerInv

\* A caller whose handler is not touched stays rightly answered: the account that
\* was found is still there, with its name and its password.
LEMMA AuthAnswerFrame ==
  ASSUME Inv, [Next]_vars, NEW r \in AuthRequest, AuthAnswerInv(r),
         auth'[r].pc = auth[r].pc, auth'[r].resp = auth[r].resp,
         auth'[r].user = auth[r].user, auth'[r].username = auth[r].username,
         auth'[r].password = auth[r].password
  PROVE  AuthAnswerInv(r)'
<1>1. \A name : \A u \in GetUserByUsername(name) :
        /\ u \in {v \in DOMAIN users' : users'[v].username = name}
        /\ users'[u].password_hash = users[u].password_hash
  BY AccountsStay DEF GetUserByUsername
<1> QED BY <1>1 DEF AuthAnswerInv, GetUserByUsername, Verify

\* A handler of /api/auth only issues a token for the account of its name, and
\* turns a caller away only when the password of that account differs.
LEMMA AuthAnswerStep ==
  ASSUME Inv, [Next]_vars, AccountInv, NEW q \in AuthRequest,
         PostAPIAuth(q) \/ AuthStep(q) \/ CancelAuth(q) \/ OrphanInsert(q)
  PROVE  /\ \A r \in AuthRequest : AuthAnswerInv(r)'
         /\ tokens' \subseteq DOMAIN users' \cup StaleTokens
<1>1. /\ auth \in [AuthRequest -> AuthState] /\ auth[q] \in AuthState
      /\ \A r \in AuthRequest : AuthAnswerInv(r)
      /\ tokens \subseteq DOMAIN users \cup StaleTokens
  BY AccountInvParts DEF Inv, AuthInv, AuthTypeOK
<1>2. DOMAIN users \subseteq DOMAIN users'
  BY AccountsStay
<1>3. \A r \in AuthRequest \ {q} : auth'[r] = auth[r]
  BY <1>1 DEF PostAPIAuth, AuthStep, AuthLookup, CreateUser, AuthReread, CancelAuth,
              OrphanInsert, AuthGoto, AuthReturn, IssueToken
<1>4. \A r \in AuthRequest \ {q} : AuthAnswerInv(r)'
  BY <1>1, <1>3, AuthAnswerFrame
<1>5. ASSUME auth'[q].resp \notin {"ok", "unauthorized"},
             auth'[q].pc # "done" => auth'[q].resp = "none"
      PROVE  AuthAnswerInv(q)'
  BY <1>5 DEF AuthAnswerInv
<1>6. ASSUME NEW u, IssueToken(q, u), u \in DOMAIN users',
             users'[u].username = auth[q].username
      PROVE  AuthAnswerInv(q)' /\ tokens' \subseteq DOMAIN users' \cup StaleTokens
  <2>1. /\ auth'[q].pc = "done" /\ auth'[q].resp = "ok" /\ auth'[q].user = u
        /\ auth'[q].username = auth[q].username
    BY <1>1, <1>6 DEF IssueToken, AuthState
  <2>2. tokens' = tokens \cup {u}
    BY <1>6 DEF IssueToken
  <2> QED BY <1>1, <1>2, <1>6, <2>1, <2>2 DEF AuthAnswerInv, GetUserByUsername
<1>7. CASE PostAPIAuth(q)
  <2>1. /\ auth'[q].resp \in {"none", "badRequest"}
        /\ auth'[q].pc # "done" => auth'[q].resp = "none"
    <3>1. PICK body \in AuthBody :
             LET valid == body.username # "" /\ body.password # ""
             IN  auth' = [auth EXCEPT
                           ![q].username = body.username, ![q].password = body.password,
                           ![q].pc = IF valid THEN "lookup" ELSE "done",
                           ![q].resp = IF valid THEN "none" ELSE "badRequest"]
      BY <1>7 DEF PostAPIAuth
    <3>2. CASE body.username # "" /\ body.password # ""
      BY <1>1, <3>1, <3>2 DEF AuthState
    <3>3. CASE ~(body.username # "" /\ body.password # "")
      BY <1>1, <3>1, <3>3 DEF AuthState
    <3> QED BY <3>2, <3>3
  <2>2. tokens' = tokens
    BY <1>7 DEF PostAPIAuth
  <2> QED BY <1>1, <1>2, <1>4, <1>5, <2>1, <2>2
<1>8. ASSUME NEW pc, AuthGoto(q, pc), auth[q].pc # "done"
      PROVE  AuthAnswerInv(q)' /\ tokens' \subseteq DOMAIN users' \cup StaleTokens
  <2>1. auth'[q].resp = "none" /\ tokens' = tokens
    BY <1>1, <1>8 DEF AuthGoto, AuthState, AuthAnswerInv
  <2> QED BY <1>1, <1>2, <1>5, <2>1
<1>9. CASE AuthLookup(q)
  <2>1. CASE AuthGoto(q, "create")
    BY <1>4, <1>8, <1>9, <2>1 DEF AuthLookup
  <2>2. ASSUME NEW u \in GetUserByUsername(auth[q].username), IssueToken(q, u)
        PROVE  AuthAnswerInv(q)' /\ tokens' \subseteq DOMAIN users' \cup StaleTokens
    BY <1>6, <2>2, AccountsStay DEF GetUserByUsername
  <2>3. ASSUME NEW u \in GetUserByUsername(auth[q].username),
               ~Verify(auth[q].password, users[u].password_hash), AuthReturn(q, "unauthorized")
        PROVE  AuthAnswerInv(q)' /\ tokens' \subseteq DOMAIN users' \cup StaleTokens
    <3>1. /\ auth'[q].pc = "done" /\ auth'[q].resp = "unauthorized"
          /\ auth'[q].username = auth[q].username /\ auth'[q].password = auth[q].password
          /\ tokens' = tokens
      BY <1>1, <2>3 DEF AuthReturn, AuthState
    <3>2. /\ u \in DOMAIN users' /\ users'[u].username = auth[q].username
          /\ users'[u].password_hash = users[u].password_hash
      BY AccountsStay DEF GetUserByUsername
    <3> QED BY <1>1, <1>2, <2>3, <3>1, <3>2 DEF AuthAnswerInv, GetUserByUsername, Verify
  <2> QED BY <1>4, <1>9, <2>1, <2>2, <2>3 DEF AuthLookup
<1>10. CASE CreateUser(q)
  <2>1. CASE AuthGoto(q, "reread")
    BY <1>4, <1>8, <1>10, <2>1 DEF CreateUser
  <2>2. ASSUME NEW u \in UserID, InsertUser(q, u), IssueToken(q, u)
        PROVE  AuthAnswerInv(q)' /\ tokens' \subseteq DOMAIN users' \cup StaleTokens
    <3>1. u \in DOMAIN users' /\ users'[u].username = auth[q].username
      BY <2>2 DEF InsertUser, Put
    <3> QED BY <1>6, <2>2, <3>1
  <2> QED BY <1>4, <1>10, <2>1, <2>2 DEF CreateUser
<1>11. CASE AuthReread(q)
  <2>1. PICK u \in GetUserByUsername(auth[q].username) : IssueToken(q, u)
    BY <1>11 DEF AuthReread
  <2>2. AuthAnswerInv(q)' /\ tokens' \subseteq DOMAIN users' \cup StaleTokens
    BY <1>6, <2>1, AccountsStay DEF GetUserByUsername
  <2> QED BY <1>4, <2>2
<1>12. CASE CancelAuth(q)
  <2>1. auth'[q].pc = "done" /\ auth'[q].resp = "internal" /\ tokens' = tokens
    BY <1>1, <1>12 DEF CancelAuth, AuthState
  <2> QED BY <1>1, <1>2, <1>4, <1>5, <2>1
<1>13. CASE OrphanInsert(q)
  <2>1. /\ auth'[q].pc = auth[q].pc /\ auth'[q].resp = auth[q].resp
        /\ auth'[q].user = auth[q].user /\ auth'[q].username = auth[q].username
        /\ auth'[q].password = auth[q].password /\ tokens' = tokens
    BY <1>1, <1>13 DEF OrphanInsert, AuthState
  <2>2. AuthAnswerInv(q)'
    BY <1>1, <2>1, AuthAnswerFrame
  <2> QED BY <1>1, <1>2, <1>4, <2>1, <2>2
<1> QED BY <1>7, <1>9, <1>10, <1>11, <1>12, <1>13 DEF AuthStep

\* Every step keeps AccountInv.
LEMMA AccountStep ==
  ASSUME Inv, AccountInv, [Next]_vars
  PROVE  AccountInv'
<1>1. \A u, v \in DOMAIN users' : users'[u].username = users'[v].username => u = v
  BY NamesStayUnique, AccountInvParts
<1>2. ASSUME \A r \in AuthRequest : AuthAnswerInv(r)',
             tokens' \subseteq DOMAIN users' \cup StaleTokens
      PROVE  AccountInv'
  BY <1>1, <1>2 DEF AccountInv, OneAccountPerName, TokensHaveAccounts, AuthAnswerInv
<1>3. (\A r \in AuthRequest : AuthAnswerInv(r)) /\ tokens \subseteq DOMAIN users \cup StaleTokens
  BY AccountInvParts
<1>4. DOMAIN users \subseteq DOMAIN users'
  BY AccountsStay
<1>5. CASE UNCHANGED <<auth, tokens>>
  <2>1. \A r \in AuthRequest : AuthAnswerInv(r)'
    BY <1>3, <1>5, AuthAnswerFrame
  <2> QED BY <1>2, <1>3, <1>4, <1>5, <2>1
<1>6. ASSUME NEW q \in AuthRequest,
             PostAPIAuth(q) \/ AuthStep(q) \/ CancelAuth(q) \/ OrphanInsert(q)
      PROVE  AccountInv'
  BY <1>2, <1>6, AuthAnswerStep
<1>7. CASE Crash
  <2>1. tokens' = tokens
    BY <1>7 DEF Crash
  <2>2. ASSUME NEW r \in AuthRequest PROVE AuthAnswerInv(r)'
    <3>0. auth[r] \in AuthState
      BY DEF Inv, AuthInv, AuthTypeOK
    <3>1. CASE AuthInFlight(r)
      <4>1. auth'[r].pc = "done" /\ auth'[r].resp = "lost"
        BY <1>7, <3>0, <3>1 DEF Crash, AuthState
      <4> QED BY <4>1 DEF AuthAnswerInv
    <3>2. CASE ~AuthInFlight(r)
      <4>1. auth'[r] = auth[r]
        BY <1>7, <3>2 DEF Crash
      <4> QED BY <1>3, <4>1, AuthAnswerFrame
    <3> QED BY <3>1, <3>2
  <2> QED BY <1>2, <1>3, <1>4, <2>1, <2>2
<1> QED BY <1>5, <1>6, <1>7
    DEF Next, OnlySend, OnlyBuy, OnlyInfo, OrphanStep, OnlyDB, Idle, vars

\* The database as it is set up: one account per name, and tokens of these
\* accounts or of an earlier database.
LEMMA AccountInit ==
  ASSUME Init
  PROVE  AccountInv
<1>1. /\ DOMAIN users = DOMAIN SeededUsers /\ tokens = DOMAIN SeededUsers \cup StaleTokens
      /\ \A u \in DOMAIN users : users[u].username = SeededUsers[u]
      /\ \A r \in AuthRequest : auth[r].resp = "none"
  BY DEF Init, DBInit, AuthInit
<1> QED BY <1>1, SeedAssumption DEF AccountInv, OneAccountPerName, TokensHaveAccounts

\* AccountInv is an invariant of the server.
THEOREM AccountInvariantHolds == Spec => []AccountInv
<1>1. Init => AccountInv
  BY AccountInit
<1>2. Inv /\ AccountInv /\ [Next]_vars => AccountInv'
  BY AccountStep
<1> QED BY <1>1, <1>2, InvariantHolds, PTL DEF Spec

\* However many callers of /api/auth race for a name, there is one account of it,
\* every caller who succeeds gets that account, and only a caller whose password
\* is not the account's is turned away.
THEOREM NamesAreUnique == Spec => []OneAccountPerName
<1>1. AccountInv => OneAccountPerName
  BY DEF AccountInv
<1> QED BY <1>1, AccountInvariantHolds, PTL

\* A token that was issued is for an account that exists and stays: also when the
\* INSERT of its handler lost the race for the name, was orphaned or timed out.
THEOREM TokensAreForAccounts == Spec => []TokensHaveAccounts
<1>1. AccountInv => TokensHaveAccounts
  BY DEF AccountInv
<1> QED BY <1>1, AccountInvariantHolds, PTL

\* An account that is there keeps its name and its password, whatever racing
\* callers, orphaned INSERTs and COMMITs do: an action property.
THEOREM AccountsStayTheSame == Spec => AccountsKept
<1>1. Inv /\ [Next]_vars =>
        [\A u \in DOMAIN users :
           /\ u \in DOMAIN users'
           /\ users'[u].username = users[u].username
           /\ users'[u].password_hash = users[u].password_hash]_vars
  BY AccountsStay
<1> QED BY <1>1, InvariantHolds, PTL DEF Spec, AccountsKept

\* Accounts and the callers they were created for: an INSERT is left behind only by
\* a caller that was told nothing of it.
OwnerInv ==
  /\ AccountsHaveOwners
  /\ \A r \in AuthRequest : auth[r].orphan => auth[r].resp \in {"internal", "lost"}

\* What a caller was told is never changed, nor what it has asked for.
LEMMA AnswersStay ==
  ASSUME Inv, AccountInv, [Next]_vars, NEW r \in AuthRequest, auth[r].resp # "none"
  PROVE  /\ auth'[r].username = auth[r].username /\ auth'[r].password = auth[r].password
         /\ auth'[r].resp = auth[r].resp /\ auth'[r].user = auth[r].user
         /\ auth'[r].orphan => auth[r].orphan
<1>1. /\ auth \in [AuthRequest -> AuthState] /\ auth[r] \in AuthState
      /\ auth[r].pc = "done"
  BY DEF Inv, AuthInv, AuthTypeOK, AccountInv
<1>2. CASE auth'[r] = auth[r]
  BY <1>2
<1>3. ASSUME NEW q \in AuthRequest,
             PostAPIAuth(q) \/ AuthStep(q) \/ CancelAuth(q) \/ OrphanInsert(q),
             auth'[r] # auth[r]
      PROVE  OrphanInsert(r)
  <2>1. q = r
    BY <1>1, <1>3 DEF PostAPIAuth, AuthStep, AuthLookup, CreateUser, AuthReread, CancelAuth,
                      OrphanInsert, AuthGoto, AuthReturn, IssueToken
  <2> QED BY <1>1, <1>3, <2>1
      DEF PostAPIAuth, AuthStep, AuthLookup, CreateUser, AuthReread, CancelAuth, AuthInFlight
<1>4. CASE OrphanInsert(r)
  <2>1. auth'[r] = [auth[r] EXCEPT !.orphan = FALSE]
    BY <1>1, <1>4 DEF OrphanInsert
  <2> QED BY <1>1, <2>1 DEF AuthState
<1>5. CASE Crash
  BY <1>1, <1>2, <1>5 DEF Crash, AuthInFlight
<1>6. CASE UNCHANGED auth
  BY <1>2, <1>6
<1> QED BY <1>2, <1>3, <1>4, <1>5, <1>6
    DEF Next, OnlySend, OnlyBuy, OnlyInfo, OrphanStep, OnlyDB, Idle, vars

\* A caller that has left an INSERT behind was told of an error, or of nothing.
LEMMA OrphansStay ==
  ASSUME Inv, AccountInv, OwnerInv, [Next]_vars, NEW r \in AuthRequest, auth'[r].orphan
  PROVE  auth'[r].resp \in {"internal", "lost"}
<1>1. /\ auth \in [AuthRequest -> AuthState] /\ auth[r] \in AuthState
      /\ auth[r].orphan => auth[r].resp \in {"internal", "lost"}
  BY DEF Inv, AuthInv, AuthTypeOK, OwnerInv
<1>2. CASE auth[r].orphan
  BY <1>1, <1>2, AnswersStay
<1>3. CASE ~auth[r].orphan
  <2>1. ASSUME NEW q \in AuthRequest,
               PostAPIAuth(q) \/ AuthStep(q) \/ CancelAuth(q) \/ OrphanInsert(q)
        PROVE  q = r /\ CancelAuth(q)
    <3>1. CASE q # r
      BY <1>1, <1>3, <2>1, <3>1
      DEF PostAPIAuth, AuthStep, AuthLookup, CreateUser, AuthReread, CancelAuth,
          OrphanInsert, AuthGoto, AuthReturn, IssueToken
    <3>2. ASSUME q = r, PostAPIAuth(q) PROVE FALSE
      <4>1. PICK body \in AuthBody :
              LET valid == body.username # "" /\ body.password # ""
              IN  auth' = [auth EXCEPT
                            ![q].username = body.username, ![q].password = body.password,
                            ![q].pc = IF valid THEN "lookup" ELSE "done",
                            ![q].resp = IF valid THEN "none" ELSE "badRequest"]
        BY <3>2 DEF PostAPIAuth
      <4>2. auth'[r].orphan = auth[r].orphan
        BY <1>1, <3>2, <4>1 DEF AuthState
      <4> QED BY <1>3, <4>2
    <3>3. ASSUME q = r, AuthStep(q) PROVE FALSE
      <4>1. ASSUME NEW pc, AuthGoto(r, pc) PROVE auth'[r].orphan = auth[r].orphan
        BY <1>1, <4>1 DEF AuthGoto, AuthState
      <4>2. ASSUME NEW resp, AuthReturn(r, resp) PROVE auth'[r].orphan = auth[r].orphan
        BY <1>1, <4>2 DEF AuthReturn, AuthState
      <4>3. ASSUME NEW u, IssueToken(r, u) PROVE auth'[r].orphan = auth[r].orphan
        BY <1>1, <4>3 DEF IssueToken, AuthState
      <4> QED BY <1>3, <3>3, <4>1, <4>2, <4>3
          DEF AuthStep, AuthLookup, CreateUser, AuthReread
    <3>4. ASSUME q = r, OrphanInsert(q) PROVE FALSE
      BY <1>3, <3>4 DEF OrphanInsert
    <3> QED BY <2>1, <3>1, <3>2, <3>3, <3>4
  <2>2. ASSUME CancelAuth(r) PROVE auth'[r].resp = "internal"
    BY <1>1, <2>2 DEF CancelAuth, AuthState
  <2>3. CASE Crash
    <3>1. CASE AuthInFlight(r)
      BY <1>1, <2>3, <3>1 DEF Crash, AuthState
    <3>2. CASE ~AuthInFlight(r)
      BY <1>3, <2>3, <3>2 DEF Crash
    <3> QED BY <3>1, <3>2
  <2>4. CASE UNCHANGED auth
    BY <1>3, <2>4
  <2> QED BY <2>1, <2>2, <2>3, <2>4
      DEF Next, OnlySend, OnlyBuy, OnlyInfo, OrphanStep, OnlyDB, Idle, vars
<1> QED BY <1>2, <1>3

\* An account keeps its owner, and a new one has one.
LEMMA OwnerStep ==
  ASSUME Inv, AccountInv, OwnerInv, [Next]_vars
  PROVE  OwnerInv'
<1>1. auth \in [AuthRequest -> AuthState]
  BY DEF Inv, AuthInv, AuthTypeOK
<1>2. ASSUME NEW u \in DOMAIN users, NEW r \in AuthRequest, CreatedFor(r, u)
      PROVE  CreatedFor(r, u)'
  <2>1. /\ auth'[r].username = auth[r].username /\ auth'[r].password = auth[r].password
        /\ auth'[r].resp = auth[r].resp /\ auth'[r].user = auth[r].user
    BY <1>2, AnswersStay DEF CreatedFor
  <2>2. /\ users'[u].username = users[u].username
        /\ users'[u].password_hash = users[u].password_hash
    BY AccountsStay
  <2> QED BY <1>2, <2>1, <2>2 DEF CreatedFor, Verify
<1>3. \A u \in DOMAIN users \ DOMAIN SeededUsers : \E r \in AuthRequest : CreatedFor(r, u)'
  BY <1>2 DEF OwnerInv, AccountsHaveOwners
<1>4. CASE DOMAIN users' = DOMAIN users
  BY <1>3, <1>4, OrphansStay DEF OwnerInv, AccountsHaveOwners
<1>5. ASSUME NEW q \in AuthRequest, NEW n \in UserID, InsertUser(q, n),
             IssueToken(q, n) \/ OrphanInsert(q)
      PROVE  OwnerInv'
  <2>1. /\ DOMAIN users' = DOMAIN users \cup {n}
        /\ users'[n].username = auth[q].username
        /\ users'[n].password_hash = Hash(auth[q].password)
    BY <1>5 DEF InsertUser, Put
  <2>2. /\ auth'[q].username = auth[q].username /\ auth'[q].password = auth[q].password
        /\ \/ auth'[q].resp = "ok" /\ auth'[q].user = n
           \/ auth'[q].resp \in {"internal", "lost"}
    <3>1. CASE IssueToken(q, n)
      <4>1. auth'[q] = [auth[q] EXCEPT !.pc = "done", !.resp = "ok", !.user = n]
        BY <1>1, <3>1 DEF IssueToken
      <4>2. auth[q] \in AuthState
        BY <1>1
      <4>3. /\ auth'[q].username = auth[q].username /\ auth'[q].password = auth[q].password
            /\ auth'[q].resp = "ok" /\ auth'[q].user = n
        <5> HIDE <1>1, <3>1
        <5> QED BY <4>1, <4>2 DEF AuthState
      <4> QED BY <4>3
    <3>2. CASE OrphanInsert(q)
      <4>1. auth[q].resp \in {"internal", "lost"}
        BY <3>2 DEF OrphanInsert, OwnerInv
      <4> QED BY <4>1, AnswersStay
    <3> QED BY <1>5, <3>1, <3>2
  <2>3. CreatedFor(q, n)'
    BY <2>1, <2>2 DEF CreatedFor, Verify, Hash
  <2> QED BY <1>3, <2>1, <2>3, OrphansStay DEF OwnerInv, AccountsHaveOwners
<1>6. ASSUME NEW r \in Request, Commit(r) PROVE DOMAIN users' = DOMAIN users
  BY <1>6 DEF Commit
<1> QED BY <1>4, <1>5, <1>6, TablesChange

\* Whoever created an account was given it or does not know: nobody who was told
\* 400 or 401 has created one.
THEOREM AccountsAreOwned == Spec => []AccountsHaveOwners
<1>1. Init => OwnerInv
  <2>1. SUFFICES ASSUME Init PROVE OwnerInv
    OBVIOUS
  <2>2. DOMAIN users = DOMAIN SeededUsers
    BY <2>1 DEF Init, DBInit
  <2>3. \A r \in AuthRequest : auth[r].orphan = FALSE
    BY <2>1 DEF Init, AuthInit
  <2> QED BY <2>2, <2>3 DEF OwnerInv, AccountsHaveOwners
<1>2. Inv /\ AccountInv /\ OwnerInv /\ [Next]_vars => OwnerInv'
  BY OwnerStep
<1>3. OwnerInv => AccountsHaveOwners
  BY DEF OwnerInv
<1> QED BY <1>1, <1>2, <1>3, InvariantHolds, AccountInvariantHolds, PTL DEF Spec

-----------------------------------------------------------------------------
(* Answers to transfers *)

\* An early return writes nothing and leaves nothing to commit.
LEMMA RollbackEnds ==
  ASSUME tx \in [Request -> Session], NEW r \in Request, DeferredRollback(r)
  PROVE  UNCHANGED <<users, transfers, purchases>> /\ tx'[r].status \in {"none", "aborting"}
<1>1. CASE Rollback(r)
  <2>1. tx'[r] = NoSession
    BY <1>1 DEF Rollback, EndSession
  <2> QED BY <1>1, <2>1 DEF Rollback, NoSession
<1>2. CASE Disconnect(r, "aborting")
  <2>1. tx[r] \in Session
    OBVIOUS
  <2>2. tx'[r] = [tx[r] EXCEPT !.status = "aborting", !.want = {}, !.at = NoUser]
    BY <1>2 DEF Disconnect, Stage
  <2>3. tx'[r].status = "aborting"
    BY <2>1, <2>2 DEF Session
  <2> QED BY <1>2, <2>3 DEF Disconnect, Stage
<1> QED BY <1>1, <1>2 DEF DeferredRollback

\* A crash leaves COMMIT to the backends of the handlers that had sent it.
LEMMA CrashStatus ==
  ASSUME Inv, Crash, NEW r \in Request, tx'[r].status = "committing"
  PROVE  \/ tx[r].status = "committing"
         \/ r \in SendRequest /\ send[r].pc = "commit"
         \/ r \in BuyRequest /\ buy[r].pc = "commit"
<1>1. tx[r] \in Session
  BY DEF Inv, DBInv, DBTypeOK
<1>2. CASE tx[r].status # "open"
  BY <1>2 DEF Crash
<1>3. CASE tx[r].status = "open"
  <2> DEFINE committing == \/ r \in SendRequest /\ send[r].pc = "commit"
                           \/ r \in BuyRequest /\ buy[r].pc = "commit"
  <2>1. tx'[r] = [tx[r] EXCEPT !.status = IF committing THEN "committing" ELSE "aborting",
                               !.want = {}, !.at = NoUser]
    BY <1>3 DEF Crash
  <2> HIDE DEF committing
  <2>2. tx'[r].status = IF committing THEN "committing" ELSE "aborting"
    BY <1>1, <2>1 DEF Session
  <2> QED BY <2>2 DEF committing
<1> QED BY <1>2, <1>3

\* The rows of a request change only when it commits, and then there is one row,
\* the one it has staged.
LEMMA TransferRows ==
  ASSUME Inv, [Next]_vars, NEW r \in SendRequest
  PROVE  \/ {t \in transfers' : t.id = r} = {t \in transfers : t.id = r}
         \/ /\ Commit(r) /\ Committing(r)
            /\ {t \in transfers' : t.id = r} = {NewTransferRow(r)}
<1>1. NewTransferRow(r).id = r
  BY DEF NewTransferRow
<1>2. CASE transfers' = transfers
  BY <1>2
<1>3. ASSUME NEW q \in SendRequest, Commit(q), Committing(q)
      PROVE  /\ transfers' = transfers \cup {NewTransferRow(q)}
             /\ NewTransferRow(q).id = q
             /\ \A t \in transfers : t.id # q
  BY <1>3, CommitTransferEffect DEF NewTransferRow
<1>4. ASSUME NEW q \in BuyRequest, Commit(q), Committing(q) PROVE transfers' = transfers
  BY <1>4, CommitPurchaseEffect
<1>5. ASSUME NEW q \in AuthRequest, NEW u \in UserID, InsertUser(q, u)
      PROVE  transfers' = transfers
  BY <1>5 DEF InsertUser
<1>6. ASSUME NEW q \in SendRequest, Commit(q), Committing(q)
      PROVE  \/ {t \in transfers' : t.id = r} = {t \in transfers : t.id = r}
             \/ /\ Commit(r) /\ Committing(r)
                /\ {t \in transfers' : t.id = r} = {NewTransferRow(r)}
  <2>1. CASE q = r
    <3>1. {t \in transfers' : t.id = r} = {NewTransferRow(r)}
      BY <1>1, <1>3, <1>6, <2>1
    <3> QED BY <1>6, <2>1, <3>1
  <2>2. CASE q # r
    <3>1. {t \in transfers' : t.id = r} = {t \in transfers : t.id = r}
      BY <1>3, <1>6, <2>2
    <3> QED BY <3>1
  <2> QED BY <2>1, <2>2
<1> QED BY <1>2, <1>4, <1>5, <1>6, TablesStep, RequestAssumption

\* A request whose handler and session are not touched stays rightly answered.
LEMMA SendAnswerFrame ==
  ASSUME Inv, [Next]_vars, NEW r \in SendRequest, SendAnswerInv(r),
         send'[r] = send[r], tx'[r].status # "committing" \/ tx'[r].status = tx[r].status,
         ~(Commit(r) /\ Committing(r))
  PROVE  SendAnswerInv(r)'
<1>1. {t \in transfers' : t.id = r} = {t \in transfers : t.id = r}
  BY TransferRows
<1> DEFINE mine == {t \in transfers : t.id = r}
<1>2. mine' = mine
  BY <1>1
<1> HIDE DEF mine
<1>3. \A u \in DOMAIN users : u \in DOMAIN users' /\ users'[u].username = users[u].username
  BY AccountsStay
<1> QED BY <1>2, <1>3 DEF SendAnswerInv, mine

\* Before the handler is through there are no rows; when it goes on without COMMIT
\* there are none after the step.
LEMMA SendAnswerMove ==
  ASSUME Inv, NEW r \in SendRequest, send[r].pc # "done",
         transfers' = transfers, users' = users,
         send'[r].resp # "ok",
         send'[r].pc # "done" => send'[r].resp = "none",
         tx'[r].status = "committing" => send'[r].resp \in {"internal", "lost"},
         \/ send'[r].pc \notin {"recv", "lookup", "done"}
         \/ tx'[r].status = "committing"
         => send'[r].dst \in DOMAIN users /\ users[send'[r].dst].username = send'[r].to
  PROVE  SendAnswerInv(r)'
<1>1. \A t \in transfers : t.id # r
  BY DEF Inv, SendInv
<1>2. {t \in transfers' : t.id = r} = {}
  BY <1>1
<1> QED BY <1>2 DEF SendAnswerInv

\* A step of the handler itself.
LEMMA SendAnswerStep ==
  ASSUME Inv, Inv', [Next]_vars, NEW r \in SendRequest, SendAnswerInv(r),
         (\E u \in tokens : PostAPISendCoin(r, u)) \/ SendStep(r) \/ CancelSend(r)
  PROVE  SendAnswerInv(r)'
<1>1. /\ send \in [SendRequest -> SendState] /\ send[r] \in SendState
      /\ tx \in [Request -> Session] /\ r \in Request
  BY RequestAssumption DEF Inv, SendTypeOK, DBInv, DBTypeOK
<1>2. send'[r].pc # "done" => tx'[r].status # "committing"
  BY DEF Inv, SendInv
<1>3. send[r].pc # "done" => send[r].resp = "none" /\ tx[r].status # "committing"
  BY DEF SendAnswerInv, Inv, SendInv
<1>4. send[r].pc \notin {"recv", "lookup", "done"} =>
        send[r].dst \in DOMAIN users /\ users[send[r].dst].username = send[r].to
  BY DEF SendAnswerInv
<1>5. CASE \E u \in tokens : PostAPISendCoin(r, u)
  <2>1. PICK u \in tokens : PostAPISendCoin(r, u)
    BY <1>5
  <2>2. /\ send[r].pc = "recv" /\ UNCHANGED dbvars
        /\ send'[r].pc \in {"lookup", "done"} /\ send'[r].resp \in {"none", "badRequest"}
        /\ send'[r].pc = "lookup" => send'[r].resp = "none"
    <3>1. PICK body \in SendBody :
             LET valid == body.toUser # "" /\ body.amount > 0
             IN  send' = [send EXCEPT
                            ![r].src = u, ![r].to = body.toUser, ![r].amount = body.amount,
                            ![r].pc = IF valid THEN "lookup" ELSE "done",
                            ![r].resp = IF valid THEN "none" ELSE "badRequest"]
      BY <2>1 DEF PostAPISendCoin
    <3>2. CASE body.toUser # "" /\ body.amount > 0
      BY <1>1, <2>1, <3>1, <3>2 DEF SendState, PostAPISendCoin
    <3>3. CASE ~(body.toUser # "" /\ body.amount > 0)
      BY <1>1, <2>1, <3>1, <3>3 DEF SendState, PostAPISendCoin
    <3> QED BY <3>2, <3>3
  <2>3. tx'[r].status # "committing"
    BY <1>3, <2>2 DEF dbvars
  <2> QED BY <2>2, <2>3, SendAnswerMove DEF dbvars
<1>6. CASE LookupDst(r)
  <2>1. send[r].pc = "lookup" /\ UNCHANGED dbvars /\ tx'[r].status # "committing"
    BY <1>3, <1>6 DEF LookupDst, dbvars
  <2>2. CASE SendReturn(r, "dstUserNotFound") \/ SendReturn(r, "srcAndDstEqual")
    <3>1. send'[r].pc = "done" /\ send'[r].resp \in {"dstUserNotFound", "srcAndDstEqual"}
      <4>1. PICK resp \in {"dstUserNotFound", "srcAndDstEqual"} :
              send'[r] = [send[r] EXCEPT !.pc = "done", !.resp = resp]
        BY <1>1, <2>2 DEF SendReturn
      <4> QED BY <1>1, <4>1 DEF SendState
    <3> QED BY <2>1, <3>1, SendAnswerMove DEF dbvars
  <2>3. ASSUME NEW u \in GetUserByUsername(send[r].to),
               send' = [send EXCEPT ![r].dst = u, ![r].pc = "begin"]
        PROVE  SendAnswerInv(r)'
    <3>1. /\ send'[r].pc = "begin" /\ send'[r].resp = "none" /\ send'[r].dst = u
          /\ send'[r].to = send[r].to
      BY <1>1, <1>3, <2>1, <2>3 DEF SendState
    <3>2. u \in DOMAIN users /\ users[u].username = send[r].to
      BY DEF GetUserByUsername
    <3> QED BY <2>1, <3>1, <3>2, SendAnswerMove DEF dbvars
  <2> QED BY <1>6, <2>2, <2>3 DEF LookupDst
<1>7. ASSUME NEW pc, SendGoto(r, pc), pc # "done", UNCHANGED <<users, transfers>>,
             send[r].pc \notin {"recv", "lookup", "done"}
      PROVE  SendAnswerInv(r)'
  <2>1. /\ send'[r].pc = pc /\ send'[r].resp = "none" /\ send'[r].dst = send[r].dst
        /\ send'[r].to = send[r].to
    BY <1>1, <1>3, <1>7 DEF SendGoto, SendState
  <2> QED BY <1>2, <1>4, <1>7, <2>1, SendAnswerMove
<1>8. ASSUME NEW resp \in {"internal", "notEnough"}, SendFail(r, resp), send[r].pc # "done"
      PROVE  SendAnswerInv(r)'
  <2>1. send'[r].pc = "done" /\ send'[r].resp = resp
    BY <1>1, <1>8 DEF SendFail, SendReturn, SendState
  <2>2. UNCHANGED <<users, transfers>> /\ tx'[r].status \in {"none", "aborting"}
    BY <1>1, <1>8, RollbackEnds DEF SendFail
  <2> QED BY <1>8, <2>1, <2>2, SendAnswerMove
<1>9. CASE BeginTransfer(r) \/ LockUsers(r) \/ CreateTransfer(r)
  BY <1>7, <1>9 DEF BeginTransfer, Begin, LockUsers, SelectForUpdate, CreateTransfer, Stage
<1>10. CASE LockUsersRow(r)
  <2>1. /\ send' = send /\ send[r].pc = "rows" /\ UNCHANGED <<users, transfers>>
    BY <1>10 DEF LockUsersRow, LockRow
  <2> QED BY <1>2, <1>3, <1>4, <2>1, SendAnswerMove
<1>11. CASE LockUsersDeadlock(r)
  BY <1>8, <1>11 DEF LockUsersDeadlock
<1>12. CASE CheckBalance(r)
  <2>1. send[r].pc = "rows"
    BY <1>12 DEF CheckBalance
  <2>2. CASE SendFail(r, "internal") \/ SendFail(r, "notEnough")
    BY <1>8, <2>1, <2>2
  <2>3. ASSUME NEW b, NEW c, UNCHANGED dbvars,
               send' = [send EXCEPT ![r].srcUserBalance = b, ![r].dstUserBalance = c,
                                    ![r].pc = "insert"]
        PROVE  SendAnswerInv(r)'
    <3>1. /\ send'[r].pc = "insert" /\ send'[r].resp = "none"
          /\ send'[r].dst = send[r].dst /\ send'[r].to = send[r].to
      BY <1>1, <1>3, <2>1, <2>3 DEF SendState
    <3> QED BY <1>2, <1>4, <2>1, <2>3, <3>1, SendAnswerMove DEF dbvars
  <2> QED BY <1>12, <2>2, <2>3 DEF CheckBalance
<1>13. CASE UpdateSrc(r) \/ UpdateDst(r)
  BY <1>7, <1>8, <1>13 DEF UpdateSrc, UpdateDst, SendUpdateBalance, Stage
<1>14. CASE CommitTransfer(r)
  <2>1. /\ send'[r].pc = "done" /\ send'[r].resp = "ok" /\ send'[r].src = send[r].src
        /\ send'[r].dst = send[r].dst /\ send'[r].to = send[r].to
        /\ send'[r].amount = send[r].amount
    BY <1>1, <1>14 DEF CommitTransfer, SendReturn, SendState
  <2>2. send[r].pc = "commit" /\ Commit(r) /\ Committing(r)
    BY <1>14 DEF CommitTransfer, Committing
  <2>3. tx'[r].status = "none"
    BY <1>1, <2>2, NoSessionType DEF Commit, EndSession
  <2>4. {t \in transfers' : t.id = r} = {NewTransferRow(r)}
    BY <2>2, CommitTransferEffect DEF NewTransferRow
  <2>5. /\ NewTransferRow(r).dst_user_id = send[r].dst
        /\ NewTransferRow(r).src_user_id = send[r].src
        /\ NewTransferRow(r).amount = send[r].amount
    BY DEF NewTransferRow
  <2>6. send[r].dst \in DOMAIN users' /\ users'[send[r].dst].username = send[r].to
    BY <1>4, <2>2, AccountsStay
  <2> QED BY <2>1, <2>3, <2>4, <2>5, <2>6 DEF SendAnswerInv
<1>15. CASE CancelSend(r)
  <2>1. /\ send'[r].pc = "done" /\ send'[r].resp = "internal" /\ send'[r].dst = send[r].dst
        /\ send'[r].to = send[r].to /\ send[r].pc \notin {"recv", "done"}
    BY <1>1, <1>15 DEF CancelSend, SendInFlight, SendReturn, SendState
  <2>2. /\ UNCHANGED <<users, transfers>>
        /\ tx'[r].status = "committing" => send[r].pc = "commit"
    BY <1>1, <1>3, <1>15, <2>1 DEF CancelSend, Disconnect, Stage, Session, dbvars
  <2> QED BY <1>4, <2>1, <2>2, SendAnswerMove
<1> QED BY <1>5, <1>6, <1>9, <1>10, <1>11, <1>12, <1>13, <1>14, <1>15 DEF SendStep

\* The end of an orphaned session: COMMIT may still succeed, and nobody was told
\* that it did not.
LEMMA SendAnswerOrphan ==
  ASSUME Inv, [Next]_vars, NEW r \in SendRequest, SendAnswerInv(r), OrphanStep(r)
  PROVE  SendAnswerInv(r)'
<1>1. /\ tx \in [Request -> Session] /\ r \in Request /\ send' = send
  BY RequestAssumption DEF Inv, DBInv, DBTypeOK, OrphanStep, OnlyDB
<1>2. tx'[r].status = "none"
  <2>1. EndSession(r)
    BY DEF OrphanStep, OrphanRollback, OrphanCommit, Rollback, Commit
  <2> QED BY <1>1, <2>1 DEF EndSession, NoSession
<1>3. CASE ~(Commit(r) /\ Committing(r))
  BY <1>1, <1>2, <1>3, SendAnswerFrame
<1>4. CASE Commit(r) /\ Committing(r)
  <2>1. tx[r].status \in {"aborting", "committing"} /\ send[r].pc = "done"
    BY DEF OrphanStep, OrphanRollback, OrphanCommit, Inv, SendInv
  <2>2. tx[r].status = "committing" /\ send[r].resp \in {"internal", "lost"}
    BY <1>4, <2>1, RequestAssumption DEF Committing, SendAnswerInv
  <2>3. {t \in transfers' : t.id = r} = {NewTransferRow(r)}
    BY <1>4, CommitTransferEffect DEF NewTransferRow
  <2>4. /\ NewTransferRow(r).dst_user_id = send[r].dst
        /\ NewTransferRow(r).src_user_id = send[r].src
        /\ NewTransferRow(r).amount = send[r].amount
    BY DEF NewTransferRow
  <2>5. send[r].dst \in DOMAIN users' /\ users'[send[r].dst].username = send[r].to
    BY <2>2, AccountsStay DEF SendAnswerInv
  <2> QED BY <1>1, <1>2, <2>1, <2>2, <2>3, <2>4, <2>5 DEF SendAnswerInv
<1> QED BY <1>3, <1>4

\* A crash: the client of a handler that is gone is told nothing.
LEMMA SendAnswerCrash ==
  ASSUME Inv, [Next]_vars, NEW r \in SendRequest, SendAnswerInv(r), Crash
  PROVE  SendAnswerInv(r)'
<1>1. send[r] \in SendState /\ r \in Request
  BY RequestAssumption DEF Inv, SendTypeOK
<1>2. UNCHANGED <<users, transfers>>
  BY DEF Crash
<1>3. CASE SendInFlight(r)
  <2>1. /\ send'[r].pc = "done" /\ send'[r].resp = "lost" /\ send'[r].dst = send[r].dst
        /\ send'[r].to = send[r].to /\ send[r].pc \notin {"recv", "done"}
    BY <1>1, <1>3 DEF Crash, SendInFlight, SendState
  <2>2. tx'[r].status = "committing" => send[r].pc = "commit"
    BY <1>1, <2>1, CrashStatus, RequestAssumption DEF Inv, SendInv
  <2>3. send[r].pc = "commit" =>
          send[r].dst \in DOMAIN users /\ users[send[r].dst].username = send[r].to
    BY DEF SendAnswerInv
  <2> QED BY <1>2, <2>1, <2>2, <2>3, SendAnswerMove
<1>4. CASE ~SendInFlight(r)
  <2>1. send'[r] = send[r]
    BY <1>4 DEF Crash
  <2>2. tx'[r].status = "committing" => tx[r].status = "committing"
    BY <1>1, <1>4, CrashStatus, RequestAssumption DEF SendInFlight
  <2>3. {t \in transfers' : t.id = r} = {t \in transfers : t.id = r}
    BY <1>2
  <2> QED BY <1>2, <2>1, <2>2, <2>3 DEF SendAnswerInv
<1> QED BY <1>3, <1>4

\* Every step keeps what is known of a transfer.
LEMMA SendAnswerNext ==
  ASSUME Inv, [Next]_vars, NEW r \in SendRequest, SendAnswerInv(r)
  PROVE  SendAnswerInv(r)'
<1>1. Inv' /\ r \in Request /\ tx \in [Request -> Session]
  BY NextInv, RequestAssumption DEF Inv, DBInv, DBTypeOK
<1>2. ASSUME send'[r] = send[r], tx'[r] = tx[r] PROVE SendAnswerInv(r)'
  <2>1. ~(Commit(r) /\ Committing(r))
    <3>1. Commit(r) => tx'[r].status = "none"
      BY <1>1 DEF Commit, EndSession, NoSession
    <3>2. Committing(r) => tx[r].status # "none"
      BY RequestAssumption DEF Committing, Inv, SendInv
    <3> QED BY <1>2, <3>1, <3>2
  <2> QED BY <1>2, <2>1, SendAnswerFrame
<1>3. ASSUME NEW q \in SendRequest,
             (\E u \in tokens : PostAPISendCoin(q, u)) \/ SendStep(q) \/ CancelSend(q)
      PROVE  SendAnswerInv(r)'
  <2>1. CASE q = r
    BY <1>1, <1>3, <2>1, SendAnswerStep
  <2>2. CASE q # r
    <3>1. send'[r] = send[r] /\ tx'[r] = tx[r]
      BY <1>1, <1>3, <2>2, SendAlone DEF Alone
    <3> QED BY <1>2, <3>1
  <2> QED BY <2>1, <2>2
<1>4. ASSUME NEW q \in BuyRequest, OnlyBuy,
             (\E u \in tokens : GetAPIBuyItem(q, u)) \/ BuyStep(q) \/ CancelBuy(q)
      PROVE  SendAnswerInv(r)'
  <2>1. send'[r] = send[r] /\ tx'[r] = tx[r]
    BY <1>1, <1>4, BuyAlone, RequestAssumption DEF Alone, OnlyBuy
  <2> QED BY <1>2, <2>1
<1>5. ASSUME NEW q \in Request, OrphanStep(q) PROVE SendAnswerInv(r)'
  <2>1. CASE q = r
    BY <1>5, <2>1, SendAnswerOrphan
  <2>2. CASE q # r
    <3>1. send'[r] = send[r] /\ tx'[r] = tx[r]
      BY <1>1, <1>5, <2>2, OrphanAlone DEF Alone, OrphanStep, OnlyDB
    <3> QED BY <1>2, <3>1
  <2> QED BY <2>1, <2>2
<1>6. CASE Crash
  BY <1>6, SendAnswerCrash
<1>7. ASSUME UNCHANGED <<tx, send>> PROVE SendAnswerInv(r)'
  BY <1>2, <1>7
<1> QED BY <1>3, <1>4, <1>5, <1>6, <1>7, SessionsStay
    DEF Next, OnlyAuth, OnlyInfo, Idle, vars

-----------------------------------------------------------------------------
(* Answers to purchases *)

\* The rows of a request change only when it commits, and then there is one row,
\* the one it has staged.
LEMMA PurchaseRows ==
  ASSUME Inv, [Next]_vars, NEW r \in BuyRequest
  PROVE  \/ {p \in purchases' : p.id = r} = {p \in purchases : p.id = r}
         \/ /\ Commit(r) /\ Committing(r)
            /\ {p \in purchases' : p.id = r} = {NewPurchaseRow(r)}
<1>1. NewPurchaseRow(r).id = r
  BY DEF NewPurchaseRow
<1>2. CASE purchases' = purchases
  BY <1>2
<1>3. ASSUME NEW q \in BuyRequest, Commit(q), Committing(q)
      PROVE  /\ purchases' = purchases \cup {NewPurchaseRow(q)}
             /\ NewPurchaseRow(q).id = q
             /\ \A p \in purchases : p.id # q
  BY <1>3, CommitPurchaseEffect DEF NewPurchaseRow
<1>4. ASSUME NEW q \in SendRequest, Commit(q), Committing(q) PROVE purchases' = purchases
  BY <1>4, CommitTransferEffect
<1>5. ASSUME NEW q \in AuthRequest, NEW u \in UserID, InsertUser(q, u)
      PROVE  purchases' = purchases
  BY <1>5 DEF InsertUser
<1>6. ASSUME NEW q \in BuyRequest, Commit(q), Committing(q)
      PROVE  \/ {p \in purchases' : p.id = r} = {p \in purchases : p.id = r}
             \/ /\ Commit(r) /\ Committing(r)
                /\ {p \in purchases' : p.id = r} = {NewPurchaseRow(r)}
  <2>1. CASE q = r
    <3>1. {p \in purchases' : p.id = r} = {NewPurchaseRow(r)}
      BY <1>1, <1>3, <1>6, <2>1
    <3> QED BY <1>6, <2>1, <3>1
  <2>2. CASE q # r
    <3>1. {p \in purchases' : p.id = r} = {p \in purchases : p.id = r}
      BY <1>3, <1>6, <2>2
    <3> QED BY <3>1
  <2> QED BY <2>1, <2>2
<1> QED BY <1>2, <1>4, <1>5, <1>6, TablesStep, RequestAssumption

\* A request whose handler and session are not touched stays rightly answered.
LEMMA BuyAnswerFrame ==
  ASSUME Inv, [Next]_vars, NEW r \in BuyRequest, BuyAnswerInv(r),
         buy'[r] = buy[r], tx'[r].status # "committing" \/ tx'[r].status = tx[r].status,
         ~(Commit(r) /\ Committing(r))
  PROVE  BuyAnswerInv(r)'
<1>1. {p \in purchases' : p.id = r} = {p \in purchases : p.id = r}
  BY PurchaseRows
<1> DEFINE mine == {p \in purchases : p.id = r}
<1>2. mine' = mine
  BY <1>1
<1> HIDE DEF mine
<1> QED BY <1>2 DEF BuyAnswerInv, mine

\* Before the handler is through there are no rows; when it goes on without COMMIT
\* there are none after the step.
LEMMA BuyAnswerMove ==
  ASSUME Inv, NEW r \in BuyRequest, buy[r].pc # "done", purchases' = purchases,
         buy'[r].resp # "ok",
         buy'[r].pc # "done" => buy'[r].resp = "none",
         tx'[r].status = "committing" => buy'[r].resp \in {"internal", "lost"}
  PROVE  BuyAnswerInv(r)'
<1>1. \A p \in purchases : p.id # r
  BY DEF Inv, BuyInv
<1>2. {p \in purchases' : p.id = r} = {}
  BY <1>1
<1> QED BY <1>2 DEF BuyAnswerInv

\* A step of the handler itself.
LEMMA BuyAnswerStep ==
  ASSUME Inv, Inv', [Next]_vars, NEW r \in BuyRequest, BuyAnswerInv(r),
         (\E u \in tokens : GetAPIBuyItem(r, u)) \/ BuyStep(r) \/ CancelBuy(r)
  PROVE  BuyAnswerInv(r)'
<1>1. /\ buy \in [BuyRequest -> BuyState] /\ buy[r] \in BuyState
      /\ tx \in [Request -> Session] /\ r \in Request
  BY RequestAssumption DEF Inv, BuyTypeOK, DBInv, DBTypeOK
<1>2. buy'[r].pc # "done" => tx'[r].status # "committing"
  BY DEF Inv, BuyInv
<1>3. buy[r].pc # "done" => buy[r].resp = "none" /\ tx[r].status # "committing"
  BY DEF BuyAnswerInv, Inv, BuyInv
<1>4. CASE \E u \in tokens : GetAPIBuyItem(r, u)
  <2>1. PICK u \in tokens : GetAPIBuyItem(r, u)
    BY <1>4
  <2>2. /\ buy[r].pc = "recv" /\ UNCHANGED dbvars
        /\ buy'[r].pc \in {"lookup", "done"} /\ buy'[r].resp \in {"none", "badRequest"}
        /\ buy'[r].pc = "lookup" => buy'[r].resp = "none"
    <3>1. PICK item \in BuyItem :
             buy' = [buy EXCEPT ![r].user = u, ![r].item = item,
                                ![r].pc = IF item # "" THEN "lookup" ELSE "done",
                                ![r].resp = IF item # "" THEN "none" ELSE "badRequest"]
      BY <2>1 DEF GetAPIBuyItem
    <3>2. CASE item # ""
      BY <1>1, <2>1, <3>1, <3>2 DEF BuyState, GetAPIBuyItem
    <3>3. CASE item = ""
      BY <1>1, <2>1, <3>1, <3>3 DEF BuyState, GetAPIBuyItem
    <3> QED BY <3>2, <3>3
  <2>3. tx'[r].status # "committing"
    BY <1>3, <2>2 DEF dbvars
  <2> QED BY <2>2, <2>3, BuyAnswerMove DEF dbvars
<1>5. CASE LookupItem(r)
  <2>1. buy[r].pc = "lookup" /\ UNCHANGED dbvars /\ tx'[r].status # "committing"
    BY <1>3, <1>5 DEF LookupItem, dbvars
  <2>2. CASE BuyReturn(r, "itemNotExist")
    <3>1. buy'[r].pc = "done" /\ buy'[r].resp = "itemNotExist"
      BY <1>1, <2>2 DEF BuyReturn, BuyState
    <3> QED BY <2>1, <3>1, BuyAnswerMove DEF dbvars
  <2>3. CASE buy' = [buy EXCEPT ![r].price = Price[buy[r].item], ![r].pc = "begin"]
    <3>1. buy'[r].pc = "begin" /\ buy'[r].resp = "none"
      BY <1>1, <1>3, <2>1, <2>3 DEF BuyState
    <3> QED BY <2>1, <3>1, BuyAnswerMove DEF dbvars
  <2> QED BY <1>5, <2>2, <2>3 DEF LookupItem
<1>6. ASSUME NEW pc, BuyGoto(r, pc), pc # "done", purchases' = purchases, buy[r].pc # "done"
      PROVE  BuyAnswerInv(r)'
  <2>1. buy'[r].pc = pc /\ buy'[r].resp = "none"
    BY <1>1, <1>3, <1>6 DEF BuyGoto, BuyState
  <2> QED BY <1>2, <1>6, <2>1, BuyAnswerMove
<1>7. ASSUME NEW resp \in {"internal", "notEnough"}, BuyFail(r, resp), buy[r].pc # "done"
      PROVE  BuyAnswerInv(r)'
  <2>1. buy'[r].pc = "done" /\ buy'[r].resp = resp
    BY <1>1, <1>7 DEF BuyFail, BuyReturn, BuyState
  <2>2. purchases' = purchases /\ tx'[r].status \in {"none", "aborting"}
    BY <1>1, <1>7, RollbackEnds DEF BuyFail
  <2> QED BY <1>7, <2>1, <2>2, BuyAnswerMove
<1>8. CASE BeginPurchase(r) \/ LockBuyer(r) \/ CreatePurchase(r) \/ UpdateBuyer(r)
  BY <1>6, <1>8
  DEF BeginPurchase, Begin, LockBuyer, SelectForUpdate, CreatePurchase, UpdateBuyer, Stage
<1>9. CASE LockBuyerRow(r)
  <2>1. /\ buy' = buy /\ buy[r].pc = "rows" /\ purchases' = purchases
    BY <1>9 DEF LockBuyerRow, LockRow
  <2> QED BY <1>2, <1>3, <2>1, BuyAnswerMove
<1>10. CASE CheckFunds(r)
  <2>1. buy[r].pc = "rows"
    BY <1>10 DEF CheckFunds
  <2>2. CASE BuyFail(r, "internal") \/ BuyFail(r, "notEnough")
    BY <1>7, <2>1, <2>2
  <2>3. ASSUME NEW c, UNCHANGED dbvars,
               buy' = [buy EXCEPT ![r].balance = c, ![r].pc = "insert"]
        PROVE  BuyAnswerInv(r)'
    <3>1. buy'[r].pc = "insert" /\ buy'[r].resp = "none"
      BY <1>1, <1>3, <2>1, <2>3 DEF BuyState
    <3> QED BY <1>2, <2>1, <2>3, <3>1, BuyAnswerMove DEF dbvars
  <2> QED BY <1>10, <2>2, <2>3 DEF CheckFunds
<1>11. CASE CommitPurchase(r)
  <2>1. /\ buy'[r].pc = "done" /\ buy'[r].resp = "ok" /\ buy'[r].user = buy[r].user
        /\ buy'[r].item = buy[r].item
    BY <1>1, <1>11 DEF CommitPurchase, BuyReturn, BuyState
  <2>2. buy[r].pc = "commit" /\ Commit(r) /\ Committing(r)
    BY <1>11 DEF CommitPurchase, Committing
  <2>3. tx'[r].status = "none"
    BY <1>1, <2>2, NoSessionType DEF Commit, EndSession
  <2>4. {p \in purchases' : p.id = r} = {NewPurchaseRow(r)} /\ buy[r].price = Price[buy[r].item]
    BY <2>2, CommitPurchaseEffect DEF NewPurchaseRow
  <2>5. /\ NewPurchaseRow(r).user_id = buy[r].user
        /\ NewPurchaseRow(r).item_id = buy[r].item
        /\ NewPurchaseRow(r).amount = buy[r].price
    BY DEF NewPurchaseRow
  <2> QED BY <2>1, <2>3, <2>4, <2>5 DEF BuyAnswerInv
<1>12. CASE CancelBuy(r)
  <2>1. /\ buy'[r].pc = "done" /\ buy'[r].resp = "internal"
        /\ buy[r].pc \notin {"recv", "done"}
    BY <1>1, <1>12 DEF CancelBuy, BuyInFlight, BuyReturn, BuyState
  <2>2. purchases' = purchases
    BY <1>12 DEF CancelBuy, Disconnect, Stage, dbvars
  <2> QED BY <2>1, <2>2, BuyAnswerMove
<1> QED BY <1>4, <1>5, <1>8, <1>9, <1>10, <1>11, <1>12 DEF BuyStep

\* The end of an orphaned session: COMMIT may still succeed, and nobody was told
\* that it did not.
LEMMA BuyAnswerOrphan ==
  ASSUME Inv, [Next]_vars, NEW r \in BuyRequest, BuyAnswerInv(r), OrphanStep(r)
  PROVE  BuyAnswerInv(r)'
<1>1. /\ tx \in [Request -> Session] /\ r \in Request /\ buy' = buy
  BY RequestAssumption DEF Inv, DBInv, DBTypeOK, OrphanStep, OnlyDB
<1>2. tx'[r].status = "none"
  <2>1. EndSession(r)
    BY DEF OrphanStep, OrphanRollback, OrphanCommit, Rollback, Commit
  <2> QED BY <1>1, <2>1 DEF EndSession, NoSession
<1>3. CASE ~(Commit(r) /\ Committing(r))
  BY <1>1, <1>2, <1>3, BuyAnswerFrame
<1>4. CASE Commit(r) /\ Committing(r)
  <2>1. tx[r].status \in {"aborting", "committing"} /\ buy[r].pc = "done"
    BY DEF OrphanStep, OrphanRollback, OrphanCommit, Inv, BuyInv
  <2>2. tx[r].status = "committing" /\ buy[r].resp \in {"internal", "lost"}
    BY <1>4, <2>1, RequestAssumption DEF Committing, BuyAnswerInv
  <2>3. {p \in purchases' : p.id = r} = {NewPurchaseRow(r)} /\ buy[r].price = Price[buy[r].item]
    BY <1>4, CommitPurchaseEffect DEF NewPurchaseRow
  <2>4. /\ NewPurchaseRow(r).user_id = buy[r].user
        /\ NewPurchaseRow(r).item_id = buy[r].item
        /\ NewPurchaseRow(r).amount = buy[r].price
    BY DEF NewPurchaseRow
  <2> QED BY <1>1, <1>2, <2>1, <2>2, <2>3, <2>4 DEF BuyAnswerInv
<1> QED BY <1>3, <1>4

\* A crash: the client of a handler that is gone is told nothing.
LEMMA BuyAnswerCrash ==
  ASSUME Inv, [Next]_vars, NEW r \in BuyRequest, BuyAnswerInv(r), Crash
  PROVE  BuyAnswerInv(r)'
<1>1. buy[r] \in BuyState /\ r \in Request
  BY RequestAssumption DEF Inv, BuyTypeOK
<1>2. purchases' = purchases
  BY DEF Crash
<1>3. CASE BuyInFlight(r)
  <2>1. /\ buy'[r].pc = "done" /\ buy'[r].resp = "lost" /\ buy[r].pc # "done"
    BY <1>1, <1>3 DEF Crash, BuyInFlight, BuyState
  <2> QED BY <1>2, <2>1, BuyAnswerMove
<1>4. CASE ~BuyInFlight(r)
  <2>1. buy'[r] = buy[r]
    BY <1>4 DEF Crash
  <2>2. tx'[r].status = "committing" => tx[r].status = "committing"
    BY <1>1, <1>4, CrashStatus, RequestAssumption DEF BuyInFlight
  <2>3. {p \in purchases' : p.id = r} = {p \in purchases : p.id = r}
    BY <1>2
  <2> QED BY <2>1, <2>2, <2>3 DEF BuyAnswerInv
<1> QED BY <1>3, <1>4

\* Every step keeps what is known of a purchase.
LEMMA BuyAnswerNext ==
  ASSUME Inv, [Next]_vars, NEW r \in BuyRequest, BuyAnswerInv(r)
  PROVE  BuyAnswerInv(r)'
<1>1. Inv' /\ r \in Request /\ tx \in [Request -> Session]
  BY NextInv, RequestAssumption DEF Inv, DBInv, DBTypeOK
<1>2. ASSUME buy'[r] = buy[r], tx'[r] = tx[r] PROVE BuyAnswerInv(r)'
  <2>1. ~(Commit(r) /\ Committing(r))
    <3>1. Commit(r) => tx'[r].status = "none"
      BY <1>1 DEF Commit, EndSession, NoSession
    <3>2. Committing(r) => tx[r].status # "none"
      BY RequestAssumption DEF Committing, Inv, BuyInv
    <3> QED BY <1>2, <3>1, <3>2
  <2> QED BY <1>2, <2>1, BuyAnswerFrame
<1>3. ASSUME NEW q \in BuyRequest,
             (\E u \in tokens : GetAPIBuyItem(q, u)) \/ BuyStep(q) \/ CancelBuy(q)
      PROVE  BuyAnswerInv(r)'
  <2>1. CASE q = r
    BY <1>1, <1>3, <2>1, BuyAnswerStep
  <2>2. CASE q # r
    <3>1. buy'[r] = buy[r] /\ tx'[r] = tx[r]
      BY <1>1, <1>3, <2>2, BuyAlone DEF Alone
    <3> QED BY <1>2, <3>1
  <2> QED BY <2>1, <2>2
<1>4. ASSUME NEW q \in SendRequest, OnlySend,
             (\E u \in tokens : PostAPISendCoin(q, u)) \/ SendStep(q) \/ CancelSend(q)
      PROVE  BuyAnswerInv(r)'
  <2>1. buy'[r] = buy[r] /\ tx'[r] = tx[r]
    BY <1>1, <1>4, SendAlone, RequestAssumption DEF Alone, OnlySend
  <2> QED BY <1>2, <2>1
<1>5. ASSUME NEW q \in Request, OrphanStep(q) PROVE BuyAnswerInv(r)'
  <2>1. CASE q = r
    BY <1>5, <2>1, BuyAnswerOrphan
  <2>2. CASE q # r
    <3>1. buy'[r] = buy[r] /\ tx'[r] = tx[r]
      BY <1>1, <1>5, <2>2, OrphanAlone DEF Alone, OrphanStep, OnlyDB
    <3> QED BY <1>2, <3>1
  <2> QED BY <2>1, <2>2
<1>6. CASE Crash
  BY <1>6, BuyAnswerCrash
<1>7. ASSUME UNCHANGED <<tx, buy>> PROVE BuyAnswerInv(r)'
  BY <1>2, <1>7
<1> QED BY <1>3, <1>4, <1>5, <1>6, <1>7, SessionsStay
    DEF Next, OnlyAuth, OnlyInfo, Idle, vars

-----------------------------------------------------------------------------
(* What the clients know *)

\* Nobody has been told anything yet.
LEMMA AnswersInit ==
  ASSUME Init
  PROVE  AnswersInv
<1>1. /\ transfers = {} /\ purchases = {} /\ tx = [r \in Request |-> NoSession]
      /\ \A r \in SendRequest : send[r].pc = "recv" /\ send[r].resp = "none"
      /\ \A r \in BuyRequest : buy[r].pc = "recv" /\ buy[r].resp = "none"
  BY DEF Init, DBInit, SendInit, BuyInit
<1>2. \A r \in Request : tx[r].status = "none"
  BY <1>1 DEF NoSession
<1> QED BY <1>1, <1>2, RequestAssumption DEF AnswersInv, SendAnswerInv, BuyAnswerInv

\* AnswersInv is an invariant of the server.
THEOREM AnswersInvariantHolds == Spec => []AnswersInv
<1>1. Init => AnswersInv
  BY AnswersInit
<1>2. Inv /\ AnswersInv /\ [Next]_vars => AnswersInv'
  <2>1. SUFFICES ASSUME Inv, AnswersInv, [Next]_vars PROVE AnswersInv'
    OBVIOUS
  <2>2. \A r \in SendRequest : SendAnswerInv(r)'
    BY <2>1, SendAnswerNext DEF AnswersInv
  <2>3. \A r \in BuyRequest : BuyAnswerInv(r)'
    BY <2>1, BuyAnswerNext DEF AnswersInv
  <2> QED BY <2>2, <2>3 DEF AnswersInv
<1> QED BY <1>1, <1>2, InvariantHolds, PTL DEF Spec

\* The answer of /api/sendCoin and of /api/buy tells what happened, and goes on to
\* do so: after "ok" there is exactly the row asked for, to the account of the
\* name given, after a 4xx answer there never is one.
THEOREM AnswersAreTrue == Spec => []AnswersMatchLedger
<1>1. ASSUME AnswersInv, AccountInv PROVE AnswersMatchLedger
  <2>1. \A mine : (\A t \in mine : mine = {t}) => Cardinality(mine) <= 1
    <3>1. Cardinality({}) = 0 /\ \A t : Cardinality({t}) = 1
      BY FS_EmptySet, FS_Singleton
    <3>2. SUFFICES ASSUME NEW mine, \A t \in mine : mine = {t}
                   PROVE  Cardinality(mine) = 0 \/ Cardinality(mine) = 1
      OBVIOUS
    <3>3. mine = {} \/ \E t : mine = {t}
      BY <3>2
    <3> QED BY <3>1, <3>3, Zenon
  <2>2. ASSUME NEW r \in SendRequest
        PROVE  LET mine == {t \in transfers : t.id = r}
                   asked == [id |-> r, dst_user_id |-> send[r].dst,
                             src_user_id |-> send[r].src, amount |-> send[r].amount]
               IN  /\ send[r].resp = "ok" => mine # {}
                   /\ mine # {} => send[r].resp \in {"ok", "internal", "lost"}
                   /\ Cardinality(mine) <= 1
                   /\ \A t \in mine : \A f \in DOMAIN asked : t[f] = asked[f]
                   /\ \A u \in GetUserByUsername(send[r].to) : mine # {} => send[r].dst = u
    <3> DEFINE mine == {t \in transfers : t.id = r}
               asked == [id |-> r, dst_user_id |-> send[r].dst,
                         src_user_id |-> send[r].src, amount |-> send[r].amount]
    <3>1. SendAnswerInv(r)
      BY <1>1 DEF AnswersInv
    <3>2. /\ send[r].resp = "ok" => mine # {}
          /\ mine # {} => send[r].resp \in {"ok", "internal", "lost"}
          /\ \A t \in mine : mine = {t}
      BY <3>1 DEF SendAnswerInv
    <3>3. \A t \in mine : \A f \in DOMAIN asked : t[f] = asked[f]
      BY <3>1 DEF SendAnswerInv
    <3>4. \A u \in GetUserByUsername(send[r].to) : mine # {} => send[r].dst = u
      BY <1>1, <3>1 DEF SendAnswerInv, AccountInv, OneAccountPerName, GetUserByUsername
    <3>5. Cardinality(mine) <= 1
      BY <2>1, <3>2
    <3> QED BY <3>2, <3>3, <3>4, <3>5
  <2>3. ASSUME NEW r \in BuyRequest
        PROVE  LET mine == {p \in purchases : p.id = r}
                   asked == [id |-> r, user_id |-> buy[r].user, item_id |-> buy[r].item]
               IN  /\ buy[r].resp = "ok" => mine # {}
                   /\ mine # {} => buy[r].resp \in {"ok", "internal", "lost"}
                   /\ Cardinality(mine) <= 1
                   /\ \A p \in mine : /\ p.amount = Price[p.item_id]
                                      /\ \A f \in DOMAIN asked : p[f] = asked[f]
    <3> DEFINE mine == {p \in purchases : p.id = r}
               asked == [id |-> r, user_id |-> buy[r].user, item_id |-> buy[r].item]
    <3>1. BuyAnswerInv(r)
      BY <1>1 DEF AnswersInv
    <3>2. /\ buy[r].resp = "ok" => mine # {}
          /\ mine # {} => buy[r].resp \in {"ok", "internal", "lost"}
          /\ \A p \in mine : mine = {p}
      BY <3>1 DEF BuyAnswerInv
    <3>3. \A p \in mine : /\ p.amount = Price[p.item_id]
                          /\ \A f \in DOMAIN asked : p[f] = asked[f]
      BY <3>1 DEF BuyAnswerInv
    <3>4. Cardinality(mine) <= 1
      BY <2>1, <3>2
    <3> QED BY <3>2, <3>3, <3>4
  <2> QED BY <2>2, <2>3 DEF AnswersMatchLedger
<1> QED BY <1>1, AnswersInvariantHolds, AccountInvariantHolds, PTL

=============================================================================
