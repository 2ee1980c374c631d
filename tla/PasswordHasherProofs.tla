------------------------ MODULE PasswordHasherProofs ------------------------
(***************************************************************************)
(* Proof that passwords keep working, for all parameters, passwords and    *)
(* salts.                                                                  *)
(***************************************************************************)
EXTENDS PasswordHasher, TLAPS

\* A salt of the length that the parameters ask for.
Salt(params, random) == [len |-> params.SaltLen, bytes |-> random]

\* The string that a hasher with the given parameters makes.
Stored(password, random, params) ==
  formatPasswordHashArgon2ID(IDKey(password, Salt(params, random), params),
                             Salt(params, random), params)

\* The inductive invariant: what is stored for an account was made from its
\* password, with some parameters that were in use once.
HasherInv ==
  /\ argon2IDParams \in Argon2IDParams
  /\ chosen \in [Account -> Password \cup {NoHash}]
  /\ password_hash \in [Account -> {NoHash} \cup
                          {Stored(p[1], p[2], p[3]) : p \in Password \X Random \X Argon2IDParams}]
  /\ \A a \in Account :
       chosen[a] # NoHash =>
         \E random \in Random, params \in Argon2IDParams :
           password_hash[a] = Stored(chosen[a], random, params)

\* What parsePasswordHashArgon2ID reads from a string that a hasher made: all of
\* the parameters, also those that the string does not name, its salt and its hash.
LEMMA ParseStored ==
  ASSUME NEW password, NEW random, NEW params \in ParamRecord
  PROVE  parsePasswordHashArgon2ID(Stored(password, random, params)) =
           {[hash |-> IDKey(password, Salt(params, random), params),
             salt |-> Salt(params, random), params |-> params]}
<1> DEFINE salt == Salt(params, random)
           hash == IDKey(password, salt, params)
           numbers == [m |-> params.Memory, t |-> params.Time, p |-> params.Parallelism]
           s == <<"argon2id", "v=19", numbers, salt, hash>>
<1>1. Stored(password, random, params) = s
  BY DEF Stored, formatPasswordHashArgon2ID
<1>2. Len(s) = 5 /\ s[1] = "argon2id" /\ s[2] = "v=19"
  OBVIOUS
<1>3. s[3] = numbers /\ s[4] = salt /\ s[5] = hash
  OBVIOUS
<1>4. numbers.m = params.Memory /\ numbers.t = params.Time /\ numbers.p = params.Parallelism
  OBVIOUS
<1>5. salt.len = params.SaltLen /\ hash.len = params.HashLen
  BY DEF Salt, IDKey
<1>6. params = [Memory |-> params.Memory, Time |-> params.Time,
                Parallelism |-> params.Parallelism, SaltLen |-> params.SaltLen,
                HashLen |-> params.HashLen]
  BY DEF ParamRecord
<1> HIDE DEF s, salt, hash, numbers
<1>7. {g \in {s} : Len(g) = 5 /\ g[1] = "argon2id" /\ g[2] = "v=19"} = {s}
  BY <1>2
<1>8. [Memory |-> s[3].m, Time |-> s[3].t, Parallelism |-> s[3].p,
       SaltLen |-> s[4].len, HashLen |-> s[5].len] = params
  BY <1>3, <1>4, <1>5, <1>6
<1>9. parsePasswordHashArgon2ID(s) =
        {[hash |-> s[5], salt |-> s[4],
          params |-> [Memory |-> s[3].m, Time |-> s[3].t, Parallelism |-> s[3].p,
                      SaltLen |-> s[4].len, HashLen |-> s[5].len]]}
  BY <1>7 DEF parsePasswordHashArgon2ID
<1>10. parsePasswordHashArgon2ID(s) = {[hash |-> hash, salt |-> salt, params |-> params]}
  BY <1>3, <1>8, <1>9
<1> QED
  BY <1>1, <1>10 DEF salt, hash

\* Verify accepts the password that a string was made from and no other, whatever
\* the parameters of the hasher in use are.
LEMMA VerifyStored ==
  ASSUME NEW password, NEW random, NEW params \in ParamRecord, NEW p
  PROVE  Verify(p, Stored(password, random, params)) =
           IF p = password THEN "ok" ELSE "ErrPasswordNotMatch"
<1> DEFINE salt == Salt(params, random)
           h == [hash |-> IDKey(password, salt, params), salt |-> salt, params |-> params]
<1>1. parsePasswordHashArgon2ID(Stored(password, random, params)) = {h}
  BY ParseStored
<1>2. IDKey(p, h.salt, h.params) = h.hash <=> p = password
  <2>1. IDKey(p, salt, params) = IDKey(password, salt, params) => p = password
    BY DEF IDKey
  <2> QED
    BY <2>1
<1> HIDE DEF h
<1> QED
  BY <1>1, <1>2 DEF Verify

\* Passwords keep working for any parameters and however often they change.
THEOREM PasswordsAlwaysWork == HasherSpec => []PasswordsKeepWorking
<1>1. HasherInit => HasherInv
  BY DEF HasherInit, HasherInv
<1>2. HasherInv /\ [HasherNext]_hashvars => HasherInv'
  <2> SUFFICES ASSUME HasherInv, [HasherNext]_hashvars PROVE HasherInv'
    OBVIOUS
  <2>1. ASSUME NEW a \in Account, Register(a)
        PROVE  HasherInv'
    <3>1. PICK password \in Password, random \in Random :
            /\ password_hash' = [password_hash EXCEPT ![a] = Hash(password, random)]
            /\ chosen' = [chosen EXCEPT ![a] = password]
      BY <2>1 DEF Register
    <3>2. Hash(password, random) = Stored(password, random, argon2IDParams)
      BY DEF Hash, Stored, Salt
    <3>3. <<password, random, argon2IDParams>> \in Password \X Random \X Argon2IDParams
      BY DEF HasherInv
    <3>4. UNCHANGED argon2IDParams
      BY <2>1 DEF Register
    <3> QED
      BY <3>1, <3>2, <3>3, <3>4 DEF HasherInv
  <2>2. CASE NewPasswordHasher
    BY <2>2 DEF NewPasswordHasher, HasherInv
  <2>3. CASE UNCHANGED hashvars
    BY <2>3 DEF hashvars, HasherInv
  <2> QED
    BY <2>1, <2>2, <2>3 DEF HasherNext
<1>3. HasherInv => PasswordsKeepWorking
  <2> SUFFICES ASSUME HasherInv, NEW a \in Account, chosen[a] # NoHash, NEW p \in Password
               PROVE  Verify(p, password_hash[a]) =
                        IF p = chosen[a] THEN "ok" ELSE "ErrPasswordNotMatch"
    BY DEF PasswordsKeepWorking
  <2>1. PICK random \in Random, params \in Argon2IDParams :
          password_hash[a] = Stored(chosen[a], random, params)
    BY DEF HasherInv
  <2>2. params \in ParamRecord
    BY HasherAssumption
  <2> QED
    BY <2>1, <2>2, VerifyStored
<1> QED
  BY <1>1, <1>2, <1>3, PTL DEF HasherSpec

=============================================================================
