-------------------------- MODULE DeploymentProofs --------------------------
(***************************************************************************)
(* Proofs about the server beside the program setup: DeploymentInv is an   *)
(* invariant, and what follows from it about keys, tokens and requests.    *)
(***************************************************************************)
EXTENDS DeploymentInvariant, SetupProofs

-----------------------------------------------------------------------------
(* Steps of the setup *)

\* Of the steps of a setup, only GenerateAuthTokens makes tokens, and no step
\* changes the time or the latest request.
LEMMA SetupIssues ==
  ASSUME SetupNext
  PROVE  /\ UNCHANGED <<now, call>>
         /\ UNCHANGED issued \/ \E p \in Run : IssueTokens(p)
<1> PICK p \in Run : (SetupStep(p) \/ Start(p) \/ Abort(p)) /\ UNCHANGED <<now, call>>
  BY DEF SetupNext, SetupStep
<1> QED
  BY DEF SetupStep, Start, Abort, MigrateLock, MigrateUp, MigrateBody, MigrateClean, StatPub,
         StatPriv, GenerateKeys, CreateFile, WriteFile, ReadKey, InsertUsers, CommitUsers,
         WriteTestFiles

\* New tokens leave what is known about tokens and about the latest request as it
\* is, if their key is that of the files.
LEMMA NewTokensKeepInv ==
  ASSUME DeploymentInv, NEW users, NEW key, issued \subseteq issued', NewTokens(users, key),
         UNCHANGED <<now, call>>
  PROVE  LifetimeInv' /\ CallsAreAuthentic'
<1>1. LifetimeInv'
  <2> SUFFICES ASSUME NEW i \in issued', i.token.key \in OwnKey
               PROVE  /\ i.at <= now
                      /\ i.token.exp <= i.at + Hour
                      /\ i.at + Hour < i.token.exp + Second
    BY DEF LifetimeInv, OwnKey
  <2>1. CASE i \in issued
    BY <2>1 DEF DeploymentInv, LifetimeInv
  <2>2. CASE i \notin issued
    BY <2>2, TokenAssumption DEF NewTokens, DeploymentInv, DeploymentTypeOK, TokenTypeOK
  <2> QED
    BY <2>1, <2>2
<1>2. CallsAreAuthentic'
  BY DEF DeploymentInv, CallsAreAuthentic, OwnKey
<1> QED
  BY <1>1, <1>2

\* A setup keeps the invariant of the deployment: the keys that servers and tokens
\* have are in the files and stay there.
LEMMA SetupStepKeeps ==
  ASSUME DeploymentInv, SetupNext, UNCHANGED server
  PROVE  DeploymentInv'
<1> USE DEF DeploymentInv
<1>1. SetupInv'
  BY SetupInvStep
<1>2. DeploymentTypeOK' /\ ServerKeysInv'
  BY <1>1 DEF SetupInv, DeploymentTypeOK, ServerKeysInv, OwnKey
<1>3. ASSUME ~Overlap, NEW f \in {"pub", "priv"}, file[f] \in OwnKey
      PROVE  file'[f] = file[f]
  BY <1>3, SetupKeepsKeys DEF HasKey
<1>4. CASE UNCHANGED issued
  <2>1. LifetimeInv' /\ CallsAreAuthentic'
    BY <1>4, SetupIssues DEF LifetimeInv, CallsAreAuthentic, OwnKey
  <2>2. FileKeysInv'
    BY <1>3, <1>4 DEF FileKeysInv, ServerKeysInv, OwnKey
  <2> QED
    BY <1>1, <1>2, <2>1, <2>2
<1>5. ASSUME NEW p \in Run, IssueTokens(p)
      PROVE  DeploymentInv'
  <2>1. /\ setup[p].pc = "issueTokens"
        /\ issued \subseteq issued' /\ NewTokens(TestUsers(p), setup[p].key)
    BY <1>5, IssueTokensMoves DEF SetupInv
  <2>2. UNCHANGED <<now, call, file>>
    BY <1>5, SetupIssues DEF IssueTokens
  <2>3. LifetimeInv' /\ CallsAreAuthentic'
    BY <2>1, <2>2, NewTokensKeepInv
  <2>4. ~Overlap => setup[p].key = file.priv
    BY <2>1 DEF SetupInv, KeysInv, WithKey, TestPc
  <2>5. FileKeysInv'
    BY <2>1, <2>2, <2>4 DEF FileKeysInv, NewTokens, OwnKey
  <2> QED
    BY <1>1, <1>2, <2>3, <2>5
<1> QED
  BY <1>4, <1>5, SetupIssues

-----------------------------------------------------------------------------
(* Steps of the server and of the clock *)

\* A key that is read is a key of this deployment, and is in its file.
LEMMA ReadFileReads ==
  ASSUME SetupTypeOK, NEW f \in {"pub", "priv"}, NEW k \in ReadFileED25519(f)
  PROVE  k \in OwnKey /\ k = file[f]
  BY DEF ReadFileED25519, SetupTypeOK, Files

\* A server that starts, reads its keys or stops keeps the invariant.
LEMMA ServerStepKeeps ==
  ASSUME DeploymentInv, ServerStep
  PROVE  DeploymentInv'
<1> USE DEF DeploymentInv, setupvars, tokenvars
<1>1. UNCHANGED <<setupvars, tokenvars>>
  BY DEF ServerStep
<1>2. TokenTypeOK' /\ LifetimeInv' /\ CallsAreAuthentic'
  BY <1>1 DEF SetupInv, TokenTypeOK, LifetimeInv, CallsAreAuthentic
<1>3. SetupInv' /\ SetupTypeOK'
  BY <1>1, <1>2, SetupInvKept DEF SetupInv
<1> DEFINE T == [pc : {"down", "readPub", "readPriv", "up"},
                 pub : OwnKey \cup {NoRun}, priv : OwnKey \cup {NoRun}]
<1>4. server \in T
  BY DEF DeploymentTypeOK
<1> DEFINE Good(s) ==
             /\ s \in T
             /\ s.pc \in {"readPriv", "up"} =>
                  s.pub \in OwnKey /\ (~Overlap => s.pub = file.pub)
             /\ s.pc = "up" =>
                  s.priv \in OwnKey /\ (~Overlap => s.priv = file.priv)
<1>5. SUFFICES Good(server')
  BY <1>1, <1>2, <1>3 DEF DeploymentTypeOK, ServerKeysInv, FileKeysInv, OwnKey
<1>6. CASE StartServer
  BY <1>4, <1>6 DEF StartServer
<1>7. CASE server' = Down
  BY <1>7 DEF Down
<1>8. ASSUME NEW k \in ReadFileED25519("pub"), server' = [server EXCEPT !.pub = k, !.pc = "readPriv"]
      PROVE  Good(server')
  BY <1>4, <1>8, ReadFileReads DEF SetupInv
<1>9. ASSUME NEW k \in ReadFileED25519("priv"), server.pc = "readPriv",
             server' = [server EXCEPT !.priv = k, !.pc = "up"]
      PROVE  Good(server')
  BY <1>4, <1>9, ReadFileReads DEF SetupInv, ServerKeysInv, FileKeysInv
<1> QED
  BY <1>6, <1>7, <1>8, <1>9 DEF ServerStep, ReadVerificationKey, ReadSignatureKey, StopServer

\* The clock goes on: what was made before stays made before.
LEMMA TickKeeps ==
  ASSUME DeploymentInv, Tick, UNCHANGED <<setupvars, server>>
  PROVE  DeploymentInv'
<1> USE DEF DeploymentInv, Tick
<1>1. now \in Nat /\ now' \in Nat /\ now <= now' /\ TokenTypeOK'
  BY TokenAssumption DEF SetupInv, TokenTypeOK
<1>2. SetupInv' /\ SetupTypeOK'
  BY <1>1, SetupInvKept DEF SetupInv
<1>3. DeploymentTypeOK' /\ ServerKeysInv' /\ FileKeysInv' /\ CallsAreAuthentic'
  BY <1>1, <1>2
  DEF setupvars, DeploymentTypeOK, ServerKeysInv, FileKeysInv, CallsAreAuthentic, OwnKey
<1>4. LifetimeInv'
  <2> SUFFICES ASSUME NEW i \in issued, i.token.key \in OwnKey
               PROVE  /\ i.at <= now'
                      /\ i.token.exp <= i.at + Hour
                      /\ i.at + Hour < i.token.exp + Second
    BY DEF LifetimeInv, OwnKey
  <2>1. i.at \in Nat
    BY DEF SetupInv, TokenTypeOK
  <2> QED
    BY <1>1, <2>1 DEF LifetimeInv
<1> QED
  BY <1>2, <1>3, <1>4

-----------------------------------------------------------------------------
(* Requests *)

\* The requests that the middleware lets through do not reach a handler that needs
\* to know its user.
LEMMA ExemptIsUnprotected ==
  ASSUME NEW method, NEW path, Exempt(method, path)
  PROVE  Route(method, path) \cap Protected = {}
  BY DEF Exempt, Route, Routes, Protected

\* A route leads to a handler of the API.
LEMMA RouteToHandler ==
  ASSUME NEW method, NEW path
  PROVE  Route(method, path) \subseteq Handler
  BY DEF Route, Routes, Handler, Protected

\* A token that a server accepts has its key, has not expired and says who the
\* user is.
LEMMA AcceptedToken ==
  ASSUME NEW header \in Header, NEW key,
         NEW u \in UNION {AuthenticateToken(t, key) : t \in header}
  PROVE  \E i \in issued : i.token.sub = u /\ i.token.key = key /\ now < i.token.exp
<1> PICK t \in header : u \in AuthenticateToken(t, key)
  OBVIOUS
<1>1. t.sub = u /\ t.key = key /\ now < t.exp
  BY DEF AuthenticateToken
<1>2. PICK i \in issued : header = {i.token}
  BY DEF Header
<1> QED
  BY <1>1, <1>2

\* What a request leaves in call: the handlers that need a user run only for one
\* whose token was accepted.
LEMMA RequestCalls ==
  ASSUME DeploymentInv, NEW method, NEW path, server.pc = "up",
         ServeHTTP(method, path, server.pub)
  PROVE  /\ call' \in [handler : Handler \cup {"none", "unauthorized", "notFound"},
                        user : Subject \cup {NoSubject}, at : Nat]
         /\ call'.handler \in Protected =>
              \E i \in issued : /\ i.token.sub = call'.user
                                /\ i.token.key \in OwnKey
                                /\ i.at <= call'.at /\ call'.at < i.at + Hour
<1>1. now \in Nat /\ \A i \in issued : i.token.sub \in Subject
  BY TokenAssumption DEF DeploymentInv, DeploymentTypeOK, TokenTypeOK, Claims
<1>2. ASSUME NEW u \in Subject \cup {NoSubject}, Dispatch(method, path, u)
      PROVE  /\ call' \in [handler : Handler \cup {"none", "unauthorized", "notFound"},
                            user : Subject \cup {NoSubject}, at : Nat]
             /\ call'.handler \in Route(method, path) \cup {"notFound"}
             /\ call'.user = u /\ call'.at = now
  BY <1>1, <1>2, RouteToHandler DEF Dispatch
<1>3. "notFound" \notin Protected /\ "unauthorized" \notin Protected
  BY DEF Protected
<1>4. CASE Exempt(method, path) /\ Dispatch(method, path, NoSubject)
  BY <1>2, <1>3, <1>4, ExemptIsUnprotected
<1>5. CASE call' = [handler |-> "unauthorized", user |-> NoSubject, at |-> now]
  BY <1>1, <1>3, <1>5
<1>6. ASSUME NEW header \in Header,
             NEW u \in UNION {AuthenticateToken(t, server.pub) : t \in header},
             Dispatch(method, path, u)
      PROVE  /\ call' \in [handler : Handler \cup {"none", "unauthorized", "notFound"},
                            user : Subject \cup {NoSubject}, at : Nat]
             /\ \E i \in issued : /\ i.token.sub = call'.user
                                  /\ i.token.key \in OwnKey
                                  /\ i.at <= call'.at /\ call'.at < i.at + Hour
  <2>1. PICK i \in issued : i.token.sub = u /\ i.token.key = server.pub /\ now < i.token.exp
    BY AcceptedToken
  <2>2. i.token.key \in OwnKey
    BY <2>1 DEF DeploymentInv, ServerKeysInv
  <2>3. i.at <= now /\ i.token.exp <= i.at + Hour
    BY <2>2 DEF DeploymentInv, LifetimeInv
  <2>4. i.at \in Nat /\ i.token.exp \in Nat
    BY DEF DeploymentInv, DeploymentTypeOK, TokenTypeOK, Claims
  <2>5. now < i.at + Hour
    BY <1>1, <2>1, <2>3, <2>4, HourIsTime
  <2>6. u \in Subject
    BY <1>1, <2>1
  <2> QED
    BY <1>2, <1>6, <2>1, <2>2, <2>3, <2>5, <2>6
<1> QED
  BY <1>4, <1>5, <1>6 DEF ServeHTTP

\* A login makes a token with the key of the server.
LEMMA LoginIssues ==
  ASSUME DeploymentInv, server.pc = "up", IssueForLogin
  PROVE  /\ issued \subseteq issued'
         /\ NewTokens(Subject, server.priv)
<1>1. now \in Nat /\ server.priv \in Key
  BY TokenAssumption, SetupAssumption
  DEF DeploymentInv, DeploymentTypeOK, TokenTypeOK, ServerKeysInv, OwnKey
<1>2. PICK u \in Customer \cup UNION {TestUsers(p) : p \in batches} :
        issued' = issued \cup {[token |-> IssueToken(u, server.priv), at |-> now]}
  BY DEF IssueForLogin
<1>3. u \in Subject
  BY DeploymentAssumption, SetupAssumption DEF DeploymentInv, DeploymentTypeOK, SetupTypeOK
<1> DEFINE t == IssueToken(u, server.priv)
<1>4. /\ t \in Claims /\ t.sub = u /\ t.key = server.priv
      /\ t.exp <= now + Hour /\ now + Hour < t.exp + Second
  BY <1>1, <1>3, IssueTokenLasts
<1> HIDE DEF t
<1> QED
  BY <1>1, <1>2, <1>3, <1>4 DEF NewTokens, t

\* A request keeps the invariant, with or without a token that it makes.
LEMMA RequestKeeps ==
  ASSUME DeploymentInv, NEW method, NEW path, Request(method, path)
  PROVE  DeploymentInv'
<1> USE DEF DeploymentInv
<1>1. /\ server.pc = "up" /\ UNCHANGED <<setupvars, now, server>>
      /\ ServeHTTP(method, path, server.pub)
      /\ IssueForLogin \/ UNCHANGED issued
  BY DEF Request
<1>2. issued \subseteq issued' /\ NewTokens(Subject, server.priv)
  BY <1>1, LoginIssues DEF NewTokens
<1>3. TokenTypeOK'
  BY <1>1, <1>2, RequestCalls DEF DeploymentTypeOK, TokenTypeOK, NewTokens
<1>4. SetupInv' /\ SetupTypeOK'
  BY <1>1, <1>3, SetupInvKept DEF SetupInv
<1>5. DeploymentTypeOK' /\ ServerKeysInv'
  BY <1>1, <1>3, <1>4 DEF DeploymentTypeOK, ServerKeysInv, OwnKey
<1>6. FileKeysInv'
  BY <1>1, <1>2 DEF FileKeysInv, NewTokens, setupvars, OwnKey
<1>7. LifetimeInv'
  <2> SUFFICES ASSUME NEW i \in issued', i.token.key \in OwnKey
               PROVE  /\ i.at <= now
                      /\ i.token.exp <= i.at + Hour
                      /\ i.at + Hour < i.token.exp + Second
    BY <1>1 DEF LifetimeInv, OwnKey
  <2>1. CASE i \in issued
    BY <2>1 DEF LifetimeInv
  <2>2. CASE i \notin issued
    BY <1>2, <2>2, TokenAssumption DEF NewTokens, DeploymentTypeOK, TokenTypeOK
  <2> QED
    BY <2>1, <2>2
<1>8. CallsAreAuthentic'
  BY <1>1, <1>2, RequestCalls DEF CallsAreAuthentic, OwnKey
<1> QED
  BY <1>4, <1>5, <1>6, <1>7, <1>8

-----------------------------------------------------------------------------
(* The invariant and what follows from it *)

\* At first there are only tokens of the deployment whose data was deleted.
LEMMA DeploymentInvInit ==
  ASSUME Init
  PROVE  DeploymentInv
<1>1. TokenTypeOK
  BY TokenAssumption, DeploymentAssumption DEF Init, TokenTypeOK
<1>2. SetupInv /\ SetupTypeOK
  BY <1>1, SetupInvInit DEF Init, SetupInv
<1>3. DeploymentTypeOK /\ ServerKeysInv
  BY <1>1, <1>2 DEF Init, Down, DeploymentTypeOK, ServerKeysInv
<1>4. LifetimeInv /\ FileKeysInv
  BY DeploymentAssumption DEF Init, Down, LifetimeInv, FileKeysInv
<1>5. CallsAreAuthentic
  BY DEF Init, CallsAreAuthentic, Protected
<1> QED
  BY <1>2, <1>3, <1>4, <1>5 DEF DeploymentInv

\* Every step keeps the invariant.
LEMMA DeploymentInvStep ==
  ASSUME DeploymentInv, [Next]_vars
  PROVE  DeploymentInv'
<1>1. CASE UNCHANGED vars
  <2>1. UNCHANGED <<setupvars, tokenvars, server>> /\ TokenTypeOK'
    BY <1>1 DEF vars, tokenvars, DeploymentInv, SetupInv, TokenTypeOK
  <2>2. SetupInv' /\ SetupTypeOK'
    BY <2>1, SetupInvKept DEF DeploymentInv, SetupInv
  <2> QED
    BY <2>1, <2>2
    DEF DeploymentInv, DeploymentTypeOK, LifetimeInv, ServerKeysInv, FileKeysInv,
        CallsAreAuthentic, setupvars, tokenvars
<1> QED
  BY <1>1, SetupStepKeeps, ServerStepKeeps, RequestKeeps, TickKeeps DEF Next

\* DeploymentInv is an invariant of the server beside the program setup, for any
\* runs, users, keys, times and requests.
THEOREM DeploymentInvariantHolds == Spec => []DeploymentInv
<1>1. Init => DeploymentInv
  BY DeploymentInvInit
<1>2. DeploymentInv /\ [Next]_vars => DeploymentInv'
  BY DeploymentInvStep
<1> QED
  BY <1>1, <1>2, PTL DEF Spec

\* A server that is up has two keys, and every token that is out has all claims.
THEOREM DeploymentTypeCorrect == Spec => []DeploymentTypeOK
<1>1. DeploymentInv => DeploymentTypeOK
  BY DEF DeploymentInv
<1> QED
  BY <1>1, DeploymentInvariantHolds, PTL

\* A handler that needs a user runs only for one who got a token from this
\* deployment less than an hour before.
THEOREM ProtectedCallsAreAuthentic == Spec => []CallsAreAuthentic
<1>1. DeploymentInv => CallsAreAuthentic
  BY DEF DeploymentInv
<1> QED
  BY <1>1, DeploymentInvariantHolds, PTL

\* If setups do not overlap, a token is good for an hour, less a second, on every
\* server that runs then, whatever was restarted or killed.
THEOREM TokensStayGood == Spec => []TokensOutliveRestarts
<1>1. DeploymentInv => TokensOutliveRestarts
  <2> SUFFICES ASSUME DeploymentInv, ~Overlap, server.pc = "up", NEW i \in issued,
                      i.token.key \in OwnKey, now + Second <= i.at + Hour
               PROVE  AuthenticateToken(i.token, server.pub) = {i.token.sub}
    BY DEF TokensOutliveRestarts
  <2>1. i.token.key = file.priv /\ server.pub = file.pub
    BY DEF DeploymentInv, FileKeysInv
  <2>2. file.pub = file.priv
    BY <2>1 DEF DeploymentInv, SetupInv, KeysInv, HasKey
  <2>3. /\ now \in Int /\ i.at \in Int /\ i.token.exp \in Int
        /\ i.at + Hour < i.token.exp + Second
    BY DEF DeploymentInv, LifetimeInv, DeploymentTypeOK, TokenTypeOK, Claims
  <2>4. now < i.token.exp
    BY <2>3, HourIsTime, TokenAssumption
  <2> QED
    BY <2>1, <2>2, <2>4 DEF AuthenticateToken
<1> QED
  BY <1>1, DeploymentInvariantHolds, PTL

\* If setups do not overlap, the key files never hold halves of two pairs.
THEOREM KeyFilesMatch == Spec => []KeyPairMatches
<1>1. DeploymentInv => KeyPairMatches
  BY SetupInvImplies DEF DeploymentInv
<1> QED
  BY <1>1, DeploymentInvariantHolds, PTL

\* If no setup was killed and setups do not overlap, setup can be run again and
\* again.
THEOREM SetupsRerun == Spec => []RerunsSucceed
<1>1. DeploymentInv => RerunsSucceed
  BY SetupInvImplies DEF DeploymentInv
<1> QED
  BY <1>1, DeploymentInvariantHolds, PTL

\* If setups do not overlap, a key that is in its file stays there, whatever the
\* setups and the server do.
THEOREM KeysStay == ASSUME ~Overlap PROVE Spec => KeysKept
<1> DEFINE Kept == \A f \in {"pub", "priv"} : HasKey(f) => file'[f] = file[f]
<1>1. DeploymentInv /\ [Next]_vars => [Kept]_<<setupvars, tokenvars>>
  <2> SUFFICES ASSUME DeploymentInv, [Next]_vars PROVE Kept
    OBVIOUS
  <2>1. CASE SetupNext
    BY <2>1, SetupKeepsKeys DEF DeploymentInv
  <2>2. CASE ~SetupNext
    <3>1. UNCHANGED file
      BY <2>2 DEF Next, ServerStep, Request, vars, setupvars
    <3> QED
      BY <3>1
  <2> QED
    BY <2>1, <2>2
<1> QED
  BY <1>1, DeploymentInvariantHolds, PTL DEF Spec, KeysKept

=============================================================================
