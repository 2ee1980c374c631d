----------------------------- MODULE Deployment -----------------------------
(***************************************************************************)
(* The server process beside the program setup: it reads the two key files *)
(* when it starts, signs tokens with one key and verifies them with the    *)
(* other, and may be stopped and started again at any time.                *)
(***************************************************************************)
EXTENDS Setup

CONSTANTS
  Customer,  \* users that come by logging in
  OldToken   \* tokens, with the time they were made, of a deployment whose
             \* data was deleted

VARIABLE server

vars == <<setupvars, tokenvars, server>>

ASSUME DeploymentAssumption ==
  /\ Customer \subseteq Subject
  /\ OldToken \subseteq [token : Claims, at : Nat]
  /\ \A i \in OldToken : i.token.key \notin OwnKey

Down == [pc |-> "down", pub |-> NoRun, priv |-> NoRun]

\* Every variable holds values of its type: a server that is up has two keys.
DeploymentTypeOK ==
  /\ TokenTypeOK
  /\ SetupTypeOK
  /\ server \in [pc : {"down", "readPub", "readPriv", "up"},
                 pub : OwnKey \cup {NoRun}, priv : OwnKey \cup {NoRun}]
  /\ server.pc = "up" => server.pub \in OwnKey /\ server.priv \in OwnKey

Init ==
  /\ SetupInit
  /\ now = 0
  /\ issued = OldToken
  /\ call = [handler |-> "none", user |-> NoSubject, at |-> 0]
  /\ server = Down

-----------------------------------------------------------------------------
(* The server process.  Its pool connects when a handler first needs it. *)

StartServer ==
  /\ server.pc = "down"
  /\ server' = [server EXCEPT !.pc = "readPub"]

\* run reads the verification key, then the signature key, and ends with an
\* error if one of them cannot be read.
ReadVerificationKey ==
  /\ server.pc = "readPub"
  /\ \/ ReadFileED25519("pub") = {} /\ server' = Down
     \/ \E k \in ReadFileED25519("pub") :
          server' = [server EXCEPT !.pub = k, !.pc = "readPriv"]

ReadSignatureKey ==
  /\ server.pc = "readPriv"
  /\ \/ ReadFileED25519("priv") = {} /\ server' = Down
     \/ \E k \in ReadFileED25519("priv") :
          server' = [server EXCEPT !.priv = k, !.pc = "up"]

StopServer == server.pc # "down" /\ server' = Down

ServerStep ==
  /\ StartServer \/ ReadVerificationKey \/ ReadSignatureKey \/ StopServer
  /\ UNCHANGED <<setupvars, tokenvars>>

\* PostAPIAuth for somebody whose password is right: a customer, who is
\* registered by it, or a test user.
IssueForLogin ==
  /\ schema \in {"created", "clean"}
  /\ Cardinality(issued \ OldToken) < MaxIssued
  /\ \E u \in Customer \cup UNION {TestUsers(p) : p \in batches} :
       issued' = issued \cup {[token |-> IssueToken(u, server.priv), at |-> now]}

\* A request: only PostAPIAuth makes a token, and only if all goes well.
Request(method, path) ==
  /\ server.pc = "up"
  /\ ServeHTTP(method, path, server.pub)
  /\ \/ call'.handler = "PostAPIAuth" /\ IssueForLogin
     \/ UNCHANGED issued
  /\ UNCHANGED <<setupvars, now, server>>

Next ==
  \/ SetupNext /\ UNCHANGED server
  \/ ServerStep
  \/ \E method \in Method, path \in Path : Request(method, path)
  \/ Tick /\ UNCHANGED <<setupvars, server>>

Spec == Init /\ [][Next]_vars

-----------------------------------------------------------------------------
(* Properties *)

\* A protected handler runs only for a user who got a token from this
\* deployment less than an hour before: not without a user in the context, on
\* which it would panic, not with an old token, not with one that was signed
\* before the data was deleted.
CallsAreAuthentic ==
  call.handler \in Protected =>
    \E i \in issued : /\ i.token.sub = call.user
                      /\ i.token.key \in OwnKey
                      /\ i.at <= call.at /\ call.at < i.at + Hour

\* If setups do not overlap, a token is good for an hour, less the second that
\* its dates are rounded by, on every server: the keys are the same however often
\* the server and the setup were stopped, killed and started since.
TokensOutliveRestarts ==
  ~Overlap /\ server.pc = "up" =>
    \A i \in issued :
      i.token.key \in OwnKey /\ now + Second <= i.at + Hour
        => AuthenticateToken(i.token, server.pub) = {i.token.sub}

=============================================================================
