-------------------------- MODULE MCPasswordHasher --------------------------
(***************************************************************************)
(* Parameters that differ in every field.                                  *)
(***************************************************************************)
EXTENDS PasswordHasher

Params == [Memory : {32, 64}, Time : {1, 2}, Parallelism : {1, 2},
           SaltLen : {0, 16}, HashLen : {16, 32}]

=============================================================================
