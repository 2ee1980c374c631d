-------------------------------- MODULE Auth --------------------------------
(***************************************************************************)
(* POST /api/auth: the handler PostAPIAuth, the PasswordAuthenticator, the *)
(* user Creator and the PasswordHasher it calls, and the token it issues.  *)
(* Every statement here is a transaction of its own: no session is kept.   *)
(*                                                                         *)
(* A token is the id of its subject.  Expiry and keys are not part of this *)
(* module: a token that has been issued is accepted by the middleware.     *)
(***************************************************************************)
EXTENDS Postgres

CONSTANTS
  AuthRequest,   \* requests to /api/auth
  AuthBody,      \* their JSON bodies
  StaleTokens    \* subjects of tokens issued for an earlier database

VARIABLES
  auth,     \* state of the handler of each request
  tokens    \* subjects of the tokens that are out

ASSUME AuthAssumption ==
  /\ AuthBody \subseteq [username : Username \cup {""}, password : Password \cup {""}]
  /\ "" \notin Username /\ "" \notin Password
  /\ StaleTokens \subseteq UserID \ DOMAIN SeededUsers

AuthState ==
  [pc   : {"recv", "lookup", "create", "reread", "done"},
   resp : {"none", "ok", "badRequest", "unauthorized", "internal", "lost"},
   username : Username \cup {""},
   password : Password \cup {""},
   user : UserID \cup {NoUser},
   orphan : BOOLEAN]   \* the handler is gone, its INSERT may still be executed

AuthTypeOK ==
  /\ auth \in [AuthRequest -> AuthState]
  /\ tokens \subseteq UserID

AuthInit ==
  /\ auth = [r \in AuthRequest |->
               [pc |-> "recv", resp |-> "none", username |-> "", password |-> "",
                user |-> NoUser, orphan |-> FALSE]]
  /\ tokens = DOMAIN SeededUsers \cup StaleTokens

\* PasswordHasher.Hash and PasswordHasher.Verify.
Hash(password) == [argon2id |-> password]
Verify(password, hash) == hash.argon2id = password

AuthGoto(r, pc) == auth' = [auth EXCEPT ![r].pc = pc] /\ UNCHANGED tokens

AuthReturn(r, resp) ==
  /\ auth' = [auth EXCEPT ![r].pc = "done", ![r].resp = resp]
  /\ UNCHANGED tokens

\* AuthenticatePassword returns user u: the handler issues a token for it.
IssueToken(r, u) ==
  /\ auth' = [auth EXCEPT ![r].pc = "done", ![r].resp = "ok", ![r].user = u]
  /\ tokens' = tokens \cup {u}

-----------------------------------------------------------------------------

PostAPIAuth(r) ==
  /\ auth[r].pc = "recv"
  /\ \E body \in AuthBody :
       LET valid == body.username # "" /\ body.password # ""
       IN  auth' = [auth EXCEPT
                      ![r].username = body.username, ![r].password = body.password,
                      ![r].pc = IF valid THEN "lookup" ELSE "done",
                      ![r].resp = IF valid THEN "none" ELSE "badRequest"]
  /\ UNCHANGED <<dbvars, tokens>>

\* AuthenticatePassword, the first GetUserByUsername and Verify.
AuthLookup(r) ==
  /\ auth[r].pc = "lookup"
  /\ PoolFree
  /\ LET found == GetUserByUsername(auth[r].username)
     IN  \/ found = {} /\ AuthGoto(r, "create")
         \/ \E u \in found :
              \/ /\ Verify(auth[r].password, users[u].password_hash)
                 /\ IssueToken(r, u)
              \/ /\ ~Verify(auth[r].password, users[u].password_hash)
                 /\ AuthReturn(r, "unauthorized")
  /\ UNCHANGED dbvars

\* Mutant: no unique index on the username.
InsertUserAnyName(r, u) ==
  /\ u \notin DOMAIN users \cup tokens
  /\ users' = Put(users, u, [username      |-> auth[r].username,
                             password_hash |-> Hash(auth[r].password),
                             balance       |-> DefaultBalance])
  /\ UNCHANGED <<transfers, purchases, locks, tx, clock>>

\* Mutant: balance is left to its DEFAULT.
InsertUserNoBalance(r, u) ==
  /\ u \notin DOMAIN users \cup tokens
  /\ GetUserByUsername(auth[r].username) = {}
  /\ users' = Put(users, u, [username      |-> auth[r].username,
                             password_hash |-> Hash(auth[r].password),
                             balance       |-> 0])
  /\ UNCHANGED <<transfers, purchases, locks, tx, clock>>

\* Mutant: ON CONFLICT (username) DO UPDATE SET password_hash.
InsertUserOrUpdate(r, u) ==
  /\ \/ /\ u \notin DOMAIN users \cup tokens
        /\ GetUserByUsername(auth[r].username) = {}
        /\ users' = Put(users, u, [username      |-> auth[r].username,
                                   password_hash |-> Hash(auth[r].password),
                                   balance       |-> DefaultBalance])
     \/ /\ u \in GetUserByUsername(auth[r].username)
        /\ users' = [users EXCEPT ![u].password_hash = Hash(auth[r].password)]
  /\ UNCHANGED <<transfers, purchases, locks, tx, clock>>

\* The INSERT of DataCreator.CreateUser, with u the fresh uuid of the row.
InsertUser(r, u) ==
  /\ u \notin DOMAIN users \cup tokens
  /\ GetUserByUsername(auth[r].username) = {}
  /\ users' = Put(users, u, [username      |-> auth[r].username,
                             password_hash |-> Hash(auth[r].password),
                             balance       |-> DefaultBalance])
  /\ UNCHANGED <<transfers, purchases, locks, tx, clock>>

\* Mutant: an id made up before the INSERT is used although the INSERT failed.
CreateUserKeepsID(r) ==
  /\ auth[r].pc = "create"
  /\ PoolFree
  /\ \E u \in UserID :
       /\ InsertUser(r, u) \/ (u \notin DOMAIN users /\ UNCHANGED dbvars)
       /\ IssueToken(r, u)

\* Creator.CreateUser; the unique index users_username_idx gives ErrExist.
CreateUser(r) ==
  /\ auth[r].pc = "create"
  /\ PoolFree
  /\ \/ \E u \in UserID : InsertUser(r, u) /\ IssueToken(r, u)
     \/ /\ GetUserByUsername(auth[r].username) # {}
        /\ AuthGoto(r, "reread")
        /\ UNCHANGED dbvars

\* After ErrExist: the second GetUserByUsername.  The password is not verified.
AuthReread(r) ==
  /\ auth[r].pc = "reread"
  /\ PoolFree
  /\ \E u \in GetUserByUsername(auth[r].username) : IssueToken(r, u)
  /\ UNCHANGED dbvars

\* The database call the handler waits for fails; an INSERT that was sent may
\* still be executed.
AuthInFlight(r) == auth[r].pc \notin {"recv", "done"}

\* Mutant: every error of AuthenticatePassword is answered 401.
CancelAuthUnauthorized(r) ==
  /\ AuthInFlight(r)
  /\ auth' = [auth EXCEPT ![r].pc = "done", ![r].resp = "unauthorized",
                          ![r].orphan = (auth[r].pc = "create")]
  /\ UNCHANGED <<dbvars, tokens>>

CancelAuth(r) ==
  /\ AuthInFlight(r)
  /\ auth' = [auth EXCEPT ![r].pc = "done", ![r].resp = "internal",
                          ![r].orphan = (auth[r].pc = "create")]
  /\ UNCHANGED <<dbvars, tokens>>

\* The backend of a closed connection executes the INSERT, or does not.
OrphanInsert(r) ==
  /\ auth[r].orphan
  /\ auth' = [auth EXCEPT ![r].orphan = FALSE]
  /\ \/ \E u \in UserID : InsertUser(r, u)
     \/ UNCHANGED dbvars
  /\ UNCHANGED tokens

AuthStep(r) == AuthLookup(r) \/ CreateUser(r) \/ AuthReread(r)

=============================================================================
