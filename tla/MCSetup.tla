------------------------------- MODULE MCSetup -------------------------------
(***************************************************************************)
(* Values for the constants of Setup that a .cfg cannot write down.        *)
(***************************************************************************)
EXTENDS SetupInvariant

CONSTANTS r1, r2, r3, r4

Keys == OwnKey
Subjects == Run \X (1..UserCount)

=============================================================================
