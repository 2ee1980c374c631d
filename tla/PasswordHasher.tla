--------------------------- MODULE PasswordHasher ---------------------------
(***************************************************************************)
(* Password hashes as they are stored: Argon2ID in the PHC string format.  *)
(* A hash outlives the parameters it was made with: the accounts are       *)
(* registered and checked by hashers of different parameters.              *)
(*                                                                         *)
(* A PHC string is the sequence of its fields between the "$"; base64 has  *)
(* no "$" and keeps the bytes and their number, so a byte string stands    *)
(* for its encoding.                                                       *)
(***************************************************************************)
EXTENDS Naturals, Sequences

CONSTANTS
  Account,
  Password,
  Argon2IDParams,  \* the parameters of the hashers
  Random,          \* what rand.Read fills a salt with
  NoHash

VARIABLES
  argon2IDParams,  \* of the hasher in use
  password_hash,   \* the string stored for each account
  chosen           \* the password each account was registered with

hashvars == <<argon2IDParams, password_hash, chosen>>

ParamRecord == [Memory : Nat \ {0}, Time : Nat \ {0}, Parallelism : Nat \ {0},
                SaltLen : Nat, HashLen : Nat \ {0}]

ASSUME HasherAssumption ==
  /\ Argon2IDParams \subseteq ParamRecord
  /\ \A p \in Password : p # NoHash

HasherInit ==
  /\ argon2IDParams \in Argon2IDParams
  /\ password_hash = [a \in Account |-> NoHash]
  /\ chosen = [a \in Account |-> NoHash]

\* argon2.IDKey: different inputs give different keys.
IDKey(password, salt, params) ==
  [password |-> password, salt |-> salt, time |-> params.Time,
   memory |-> params.Memory, threads |-> params.Parallelism, len |-> params.HashLen]

\* The parameters are written without the lengths of salt and hash.
formatPasswordHashArgon2ID(hash, salt, params) ==
  <<"argon2id", "v=19",
    [m |-> params.Memory, t |-> params.Time, p |-> params.Parallelism], salt, hash>>

\* What a string of this format holds, nothing if it is of another format.
parsePasswordHashArgon2ID(s) ==
  {[hash |-> f[5], salt |-> f[4],
    params |-> [Memory |-> f[3].m, Time |-> f[3].t, Parallelism |-> f[3].p,
                SaltLen |-> f[4].len, HashLen |-> f[5].len]] :
     f \in {g \in {s} : Len(g) = 5 /\ g[1] = "argon2id" /\ g[2] = "v=19"}}

\* PasswordHasher.Hash, with the random bytes of the salt.
Hash(password, random) ==
  LET salt == [len |-> argon2IDParams.SaltLen, bytes |-> random]
  IN  formatPasswordHashArgon2ID(IDKey(password, salt, argon2IDParams), salt,
                                 argon2IDParams)

\* Mutant: the key is derived with the parameters of the hasher in use.
VerifyWithOwnParams(password, s) ==
  LET parsed == parsePasswordHashArgon2ID(s)
  IN  IF parsed = {} THEN "error"
      ELSE IF \E h \in parsed : IDKey(password, h.salt, argon2IDParams) = h.hash
           THEN "ok" ELSE "ErrPasswordNotMatch"

\* PasswordHasher.Verify.
Verify(password, s) ==
  LET parsed == parsePasswordHashArgon2ID(s)
  IN  IF parsed = {} THEN "error"
      ELSE IF \E h \in parsed : IDKey(password, h.salt, h.params) = h.hash
           THEN "ok" ELSE "ErrPasswordNotMatch"

-----------------------------------------------------------------------------

\* An account is created with its hash, by Creator.CreateUser.
Register(a) ==
  /\ chosen[a] = NoHash
  /\ \E password \in Password, random \in Random :
       /\ password_hash' = [password_hash EXCEPT ![a] = Hash(password, random)]
       /\ chosen' = [chosen EXCEPT ![a] = password]
  /\ UNCHANGED argon2IDParams

\* NewPasswordHasher with other parameters: a later release of the program.
NewPasswordHasher ==
  /\ argon2IDParams' \in Argon2IDParams
  /\ UNCHANGED <<password_hash, chosen>>

HasherNext == (\E a \in Account : Register(a)) \/ NewPasswordHasher

HasherSpec == HasherInit /\ [][HasherNext]_hashvars

\* Whatever the parameters were then and are now, Verify accepts the password of
\* the account, no other, and has no trouble with the string: AuthenticatePassword
\* may take a stored hash for the password itself.
PasswordsKeepWorking ==
  \A a \in Account :
    chosen[a] # NoHash =>
      \A p \in Password :
        Verify(p, password_hash[a]) =
          IF p = chosen[a] THEN "ok" ELSE "ErrPasswordNotMatch"

=============================================================================
