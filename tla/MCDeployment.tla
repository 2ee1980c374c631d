---------------------------- MODULE MCDeployment ----------------------------
(***************************************************************************)
(* Values for the constants of Deployment that a .cfg cannot write down.   *)
(***************************************************************************)
EXTENDS DeploymentInvariant

CONSTANTS r1, r2, r3, r4, anna, OldKey

Keys == OwnKey \cup {OldKey}
Subjects == {anna} \cup (Run \X (1..UserCount))
AnOldToken == {[token |-> [sub |-> anna, iat |-> 0, exp |-> Hour, key |-> OldKey],
                at |-> 0]}
Paths == {r.path : r \in Routes} \cup {"/"}

=============================================================================
