------------------------- MODULE DeploymentInvariant -------------------------
(***************************************************************************)
(* The inductive invariant of the server beside the program setup: it adds *)
(* to that of the setup what tokens and servers have to do with the files. *)
(***************************************************************************)
EXTENDS Deployment, SetupInvariant

\* A token of this deployment was made before now and lasts for an hour, less what
\* jwt.NewNumericDate cuts off.
LifetimeInv ==
  \A i \in issued :
    i.token.key \in OwnKey =>
      /\ i.at <= now
      /\ i.token.exp <= i.at + Hour
      /\ i.at + Hour < i.token.exp + Second

\* A server has the keys that it has read.
ServerKeysInv ==
  /\ server.pc \in {"readPriv", "up"} => server.pub \in OwnKey
  /\ server.pc = "up" => server.priv \in OwnKey

\* Nobody has a key that is no longer in the files: no server, and no token that
\* was signed since the data was deleted.
FileKeysInv ==
  ~Overlap =>
    /\ server.pc \in {"readPriv", "up"} => server.pub = file.pub
    /\ server.pc = "up" => server.priv = file.priv
    /\ \A i \in issued : i.token.key \in OwnKey => i.token.key = file.priv

\* The inductive invariant of the deployment.
DeploymentInv ==
  /\ SetupInv
  /\ DeploymentTypeOK
  /\ LifetimeInv
  /\ ServerKeysInv
  /\ FileKeysInv
  /\ CallsAreAuthentic

=============================================================================
