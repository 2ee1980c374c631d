------------------------------- MODULE Token -------------------------------
(***************************************************************************)
(* Tokens and the way of a request to its handler: TokenIssuer,            *)
(* TokenAuthenticator, the middleware Authentication and the router behind *)
(* it.  A token is its claims and the key pair it was signed with; times   *)
(* are ticks of the clock.                                                 *)
(***************************************************************************)
EXTENDS Integers, FiniteSets

CONSTANTS
  Subject,      \* user ids
  Key,          \* Ed25519 key pairs
  Hour, Second, \* in ticks
  MaxTime,      \* bound: last value of the clock
  MaxIssued,    \* bound: tokens issued by logging in
  Method, Path, \* of the requests that are sent
  NoSubject

VARIABLES
  now,      \* time.Now()
  issued,   \* tokens that are out, each with the time it was really made
  call      \* the latest request: which handler ran, for whom, when

tokenvars == <<now, issued, call>>

ASSUME TokenAssumption ==
  /\ Second \in Nat \ {0}
  /\ Hour \in {n * Second : n \in 1..Hour}
  /\ MaxTime \in Nat /\ MaxIssued \in Nat
  /\ NoSubject \notin Subject

Claims == [sub : Subject, iat : Nat, exp : Nat, key : Key]

\* The operations of the API, and those that need to know their user.
Protected == {"GetAPIInfo", "GetAPIBuyItem", "PostAPISendCoin"}
Handler == Protected \cup {"PostAPIAuth", "GetAPIHealth"}

\* Every variable holds values of its type.
TokenTypeOK ==
  /\ now \in 0..MaxTime
  /\ issued \subseteq [token : Claims, at : Nat]
  /\ call \in [handler : Handler \cup {"none", "unauthorized", "notFound"},
               user : Subject \cup {NoSubject}, at : Nat]

TokenInit ==
  /\ now = 0
  /\ issued = {}
  /\ call = [handler |-> "none", user |-> NoSubject, at |-> 0]

Tick == now < MaxTime /\ now' = now + 1 /\ UNCHANGED <<issued, call>>

-----------------------------------------------------------------------------

\* jwt.NewNumericDate: whole seconds.
NewNumericDate(t) == t - (t % Second)

\* Mutant: the lifetime is rounded up, so that no fraction of it is lost.
IssueTokenRoundedUp(sub, key) ==
  [sub |-> sub, iat |-> NewNumericDate(now),
   exp |-> NewNumericDate(now + Hour + Second), key |-> key]

\* TokenIssuer.IssueToken.
IssueToken(sub, key) ==
  [sub |-> sub, iat |-> NewNumericDate(now),
   exp |-> NewNumericDate(now + Hour), key |-> key]

\* Mutant: the leeway for other clocks is on the wrong side.
AuthenticateTokenEarly(token, key) ==
  IF token.key = key /\ now + Second < token.exp THEN {token.sub} ELSE {}

\* TokenAuthenticator.AuthenticateToken, for a token made by IssueToken, which
\* has all claims: the subject it returns, none if the token is refused.
AuthenticateToken(token, key) ==
  IF token.key = key /\ now < token.exp THEN {token.sub} ELSE {}

\* What the Authorization header of a request holds: nothing that can be a
\* token (no header, another scheme, not a JWT), or one of those that are out.
Header == {{}} \cup {{i.token} : i \in issued}

\* Mutant: every POST is let through, as if logging in were the only one.
ExemptByMethod(method, path) ==
  \/ method = "POST"
  \/ method = "GET" /\ path = "/api/health"

\* The requests Authentication lets through without looking at the header.
Exempt(method, path) ==
  \/ method = "POST" /\ path = "/api/auth"
  \/ method = "GET" /\ path = "/api/health"

\* The patterns of HandlerWithOptions.  A pattern for GET also takes HEAD.
Routes ==
  {[method |-> "POST", path |-> "/api/auth",     handler |-> "PostAPIAuth"],
   [method |-> "GET",  path |-> "/api/buy/cup",  handler |-> "GetAPIBuyItem"],
   [method |-> "GET",  path |-> "/api/health",   handler |-> "GetAPIHealth"],
   [method |-> "GET",  path |-> "/api/info",     handler |-> "GetAPIInfo"],
   [method |-> "POST", path |-> "/api/sendCoin", handler |-> "PostAPISendCoin"]}

Route(method, path) ==
  {r.handler : r \in {p \in Routes : /\ p.path = path
                                     /\ \/ p.method = method
                                        \/ p.method = "GET" /\ method = "HEAD"}}

\* The router behind the middleware gets the request with the user in its
\* context, or without one.
Dispatch(method, path, user) ==
  \/ /\ Route(method, path) = {}
     /\ call' = [handler |-> "notFound", user |-> user, at |-> now]
  \/ \E h \in Route(method, path) :
       call' = [handler |-> h, user |-> user, at |-> now]

\* A request on a server that verifies tokens with the key pair key: who the
\* header is from, 401 if nobody.  What the handler then does is not said here.
ServeHTTP(method, path, key) ==
  \/ Exempt(method, path) /\ Dispatch(method, path, NoSubject)
  \/ /\ ~Exempt(method, path)
     /\ \E header \in Header :
          LET users == UNION {AuthenticateToken(t, key) : t \in header}
          IN  \/ /\ users = {}
                 /\ call' = [handler |-> "unauthorized", user |-> NoSubject,
                             at |-> now]
              \/ \E u \in users : Dispatch(method, path, u)

=============================================================================
