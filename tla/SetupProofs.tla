----------------------------- MODULE SetupProofs -----------------------------
(***************************************************************************)
(* Proofs about the program setup: SetupInv is an invariant, and what      *)
(* follows from it.                                                        *)
(***************************************************************************)
EXTENDS SetupInvariant, TLAPS

-----------------------------------------------------------------------------
(* What the steps of a run do to setup *)

Pcs == {"idle"} \cup Ended \cup AppPc \cup TestPc

\* The run p goes to pc, the others stay where they are.
Moves(p, pc) ==
  /\ setup' \in [Run -> SetupState]
  /\ setup'[p].pc = pc
  /\ \A q \in Run \ {p} : setup'[q] = setup[q]

\* The local variables of p do not change.
KeepsLocals(p) ==
  /\ setup'[p].pubExists = setup[p].pubExists
  /\ setup'[p].key = setup[p].key
  /\ setup'[p].users = setup[p].users
  /\ setup'[p].tokens = setup[p].tokens

\* GoTo changes the step of its run only.
LEMMA GoToMoves ==
  ASSUME SetupTypeOK, NEW p \in Run, NEW pc \in Pcs, GoTo(p, pc)
  PROVE  Moves(p, pc) /\ KeepsLocals(p)
  BY DEF SetupTypeOK, SetupState, GoTo, Moves, KeepsLocals, Pcs

\* A run that ends loses its local variables.
LEMMA EndMoves ==
  ASSUME SetupTypeOK, NEW p \in Run, NEW pc \in Ended,
         setup' = [setup EXCEPT ![p] = Fresh(pc)]
  PROVE  Moves(p, pc)
  BY DEF SetupTypeOK, SetupState, Fresh, Moves, Ended

\* So does a run that ends with an error, or is killed.
LEMMA ExitMoves ==
  ASSUME SetupTypeOK, NEW p \in Run, NEW pc \in Ended, Exit(p, pc)
  PROVE  Moves(p, pc) /\ CloseConnections(p)
  BY EndMoves DEF Exit

\* After SetupApp a run goes on to SetupApptest or has ended.
LEMMA AfterAppMoves ==
  ASSUME SetupTypeOK, NEW p \in Run, AfterApp(p)
  PROVE  \/ p \in TestRun /\ Moves(p, "readKey")
         \/ p \notin TestRun /\ Moves(p, "ok")
<1>1. CASE p \in TestRun
  BY <1>1, GoToMoves DEF AfterApp, Pcs, TestPc
<1>2. CASE p \notin TestRun
  BY <1>2, EndMoves DEF AfterApp, Ended
<1> QED
  BY <1>1, <1>2

\* What the start of a run does.
LEMMA StartMoves ==
  ASSUME SetupTypeOK, NEW p \in Run, Start(p)
  PROVE  \/ p \in AppRun /\ Moves(p, "migrateLock")
         \/ p \notin AppRun /\ p \in TestRun /\ Moves(p, "readKey")
         \/ p \notin AppRun /\ Moves(p, "failed")
<1>1. CASE p \in AppRun
  BY <1>1, GoToMoves DEF Start, Pcs, AppPc
<1>2. CASE p \notin AppRun /\ p \in TestRun
  BY <1>2, GoToMoves DEF Start, Pcs, TestPc
<1>3. CASE p \notin AppRun /\ p \notin TestRun
  BY <1>3, GoToMoves DEF Start, Pcs, Ended
<1> QED
  BY <1>1, <1>2, <1>3

\* SetupPostgres waits for the lock and holds it until the schema is clean.
LEMMA MigrateMoves ==
  ASSUME SetupTypeOK, NEW p \in Run
  PROVE  /\ MigrateLock(p) => Moves(p, "migrateUp")
         /\ MigrateUp(p) =>
              \/ schema \in {"dirty", "created"} /\ Exit(p, "failed") /\ UNCHANGED schema
              \/ /\ schema = "clean" /\ migrationLock' = NoRun
                 /\ Moves(p, "statPub") /\ UNCHANGED <<schema, inserting>>
              \/ /\ schema = "none" /\ schema' = "dirty"
                 /\ Moves(p, "migrateBody") /\ UNCHANGED <<migrationLock, inserting>>
         /\ MigrateBody(p) => Moves(p, "migrateClean")
         /\ MigrateClean(p) => Moves(p, "statPub")
<1>1. \A pc \in AppPc : GoTo(p, pc) => Moves(p, pc)
  BY GoToMoves DEF Pcs
<1>2. {"migrateUp", "migrateBody", "migrateClean", "statPub"} \subseteq AppPc
  BY DEF AppPc
<1> QED
  BY <1>1, <1>2 DEF MigrateLock, MigrateUp, MigrateBody, MigrateClean

\* The first question of SetupJWT.
LEMMA StatPubMoves ==
  ASSUME SetupTypeOK, NEW p \in Run, StatPub(p)
  PROVE  Moves(p, "statPriv") /\ (setup'[p].pubExists <=> file.pub # NoFile)
  BY DEF StatPub, fileExists, SetupTypeOK, SetupState, Moves, AppPc

\* What SetupJWT does with the answers.
LEMMA StatPrivMoves ==
  ASSUME SetupTypeOK, NEW p \in Run, StatPriv(p)
  PROVE  \/ /\ setup[p].pubExists /\ file.priv # NoFile
            /\ \/ p \in TestRun /\ Moves(p, "readKey")
               \/ p \notin TestRun /\ Moves(p, "ok")
            /\ UNCHANGED <<migrationLock, inserting>>
         \/ /\ setup[p].pubExists <=> file.priv = NoFile
            /\ Exit(p, "failed")
         \/ /\ ~setup[p].pubExists /\ file.priv = NoFile
            /\ Moves(p, "createPub")
            /\ UNCHANGED <<migrationLock, inserting>>
<1>1. setup[p].pubExists \in BOOLEAN
  BY DEF SetupTypeOK, SetupState
<1>2. GoTo(p, "createPub") => Moves(p, "createPub")
  BY GoToMoves DEF Pcs, AppPc
<1>3. AfterApp(p) => \/ p \in TestRun /\ Moves(p, "readKey")
                     \/ p \notin TestRun /\ Moves(p, "ok")
  BY AfterAppMoves
<1> QED
  BY <1>1, <1>2, <1>3 DEF StatPriv, fileExists

\* The two key files are made one after the other.
LEMMA GenerateKeysMoves ==
  ASSUME SetupTypeOK, NEW p \in Run, GenerateKeys(p)
  PROVE  \/ /\ setup[p].pc = "createPub" /\ Moves(p, "writePub")
            /\ file' = [file EXCEPT !.pub = Incomplete]
         \/ /\ setup[p].pc = "writePub" /\ Moves(p, "createPriv")
            /\ file' = [file EXCEPT !.pub = p]
         \/ /\ setup[p].pc = "createPriv" /\ Moves(p, "writePriv")
            /\ file' = [file EXCEPT !.priv = Incomplete]
         \/ /\ setup[p].pc = "writePriv"
            /\ \/ p \in TestRun /\ Moves(p, "readKey")
               \/ p \notin TestRun /\ Moves(p, "ok")
            /\ file' = [file EXCEPT !.priv = p]
<1>1. \A pc \in AppPc : GoTo(p, pc) => Moves(p, pc)
  BY GoToMoves DEF Pcs
<1>2. {"writePub", "createPriv", "writePriv"} \subseteq AppPc
  BY DEF AppPc
<1>3. AfterApp(p) => \/ p \in TestRun /\ Moves(p, "readKey")
                     \/ p \notin TestRun /\ Moves(p, "ok")
  BY AfterAppMoves
<1> QED
  BY <1>1, <1>2, <1>3 DEF GenerateKeys, CreateFile, WriteFile

\* SetupApptest reads the key that its tokens are signed with.
LEMMA ReadKeyMoves ==
  ASSUME SetupTypeOK, NEW p \in Run, ReadKey(p)
  PROVE  \/ file.priv \in {NoFile, Incomplete} /\ Exit(p, "failed")
         \/ /\ HasKey("priv")
            /\ Moves(p, "insertUsers") /\ setup'[p].key = file.priv
            /\ UNCHANGED <<migrationLock, inserting>>
<1>1. CASE ReadFileED25519("priv") = {} /\ Exit(p, "failed")
  BY <1>1 DEF ReadFileED25519
<1>2. CASE /\ \E k \in ReadFileED25519("priv") :
                setup' = [setup EXCEPT ![p].key = k, ![p].pc = "insertUsers"]
           /\ UNCHANGED <<migrationLock, inserting>>
  <2>1. file.priv \in OwnKey /\ setup' = [setup EXCEPT ![p].key = file.priv, ![p].pc = "insertUsers"]
    BY <1>2 DEF ReadFileED25519, SetupTypeOK, Files
  <2>2. Moves(p, "insertUsers") /\ setup'[p].key = file.priv
    <3>1. setup \in [Run -> SetupState]
      BY DEF SetupTypeOK
    <3>2. /\ setup'[p] = [setup[p] EXCEPT !.key = file.priv, !.pc = "insertUsers"]
          /\ setup' = [setup EXCEPT ![p] = setup'[p]]
      BY <2>1, <3>1
    <3>3. setup'[p] \in SetupState /\ setup'[p].pc = "insertUsers" /\ setup'[p].key = file.priv
      BY <2>1, <3>1, <3>2 DEF SetupState, TestPc
    <3> QED BY <3>1, <3>2, <3>3 DEF Moves
  <2> QED
    BY <1>2, <2>1, <2>2 DEF HasKey
<1> QED
  BY <1>1, <1>2 DEF ReadKey

\* The names of the test users are taken, or free.
LEMMA InsertUsersMoves ==
  ASSUME SetupTypeOK, NEW p \in Run, InsertUsers(p)
  PROVE  \/ schema \in {"none", "dirty"} /\ Exit(p, "failed")
         \/ /\ schema \in {"created", "clean"} /\ inserting = {}
            /\ batches # {} /\ Exit(p, "failed")
         \/ /\ schema \in {"created", "clean"} /\ inserting = {} /\ batches = {}
            /\ inserting' = {p}
            /\ Moves(p, "commitUsers")
            /\ setup'[p].key = setup[p].key /\ setup'[p].users \in Order(p)
            /\ UNCHANGED migrationLock
<1>1. ASSUME NEW s \in Order(p),
             setup' = [setup EXCEPT ![p].users = s, ![p].pc = "commitUsers"]
      PROVE  /\ Moves(p, "commitUsers")
             /\ setup'[p].key = setup[p].key /\ setup'[p].users \in Order(p)
  <2>1. setup \in [Run -> SetupState] /\ setup[p] \in SetupState /\ s \in UserList
    BY <1>1 DEF SetupTypeOK, UserList
  <2>2. /\ setup'[p] = [setup[p] EXCEPT !.users = s, !.pc = "commitUsers"]
        /\ setup' = [setup EXCEPT ![p] = setup'[p]]
    BY <1>1, <2>1
  <2>3. /\ setup'[p] \in SetupState /\ setup'[p].pc = "commitUsers"
        /\ setup'[p].key = setup[p].key /\ setup'[p].users = s
    BY <2>1, <2>2 DEF SetupState, TestPc
  <2>4. setup' \in [Run -> SetupState] /\ \A q \in Run \ {p} : setup'[q] = setup[q]
    BY <2>1, <2>2, <2>3
  <2> QED BY <1>1, <2>3, <2>4 DEF Moves
<1> QED
  BY <1>1 DEF InsertUsers

\* The transaction of the test users ends.
LEMMA CommitUsersMoves ==
  ASSUME SetupTypeOK, NEW p \in Run, CommitUsers(p)
  PROVE  Moves(p, "createUserFile") /\ KeepsLocals(p)
  BY GoToMoves DEF CommitUsers, Pcs, TestPc

\* jwt.NewNumericDate cuts off less than a second.
LEMMA NewNumericDateCuts ==
  ASSUME NEW t \in Nat
  PROVE  /\ NewNumericDate(t) \in Nat
         /\ NewNumericDate(t) <= t /\ t < NewNumericDate(t) + Second
  BY TokenAssumption DEF NewNumericDate

\* An hour is some ticks.
LEMMA HourIsTime == Hour \in Nat
<1> PICK n \in 1..Hour : Hour = n * Second
  BY TokenAssumption
<1> QED
  BY TokenAssumption

\* A token that is issued has all claims, and expires after an hour, less the
\* fraction of a second.
LEMMA IssueTokenLasts ==
  ASSUME now \in Nat, NEW sub \in Subject, NEW key \in Key
  PROVE  /\ IssueToken(sub, key) \in Claims
         /\ IssueToken(sub, key).sub = sub /\ IssueToken(sub, key).key = key
         /\ IssueToken(sub, key).exp <= now + Hour
         /\ now + Hour < IssueToken(sub, key).exp + Second
<1>1. now + Hour \in Nat
  BY HourIsTime
<1>2. /\ NewNumericDate(now) \in Nat /\ NewNumericDate(now + Hour) \in Nat
      /\ NewNumericDate(now + Hour) <= now + Hour
      /\ now + Hour < NewNumericDate(now + Hour) + Second
  BY <1>1, NewNumericDateCuts
<1> QED
  BY <1>2 DEF IssueToken, Claims

\* The new tokens that a setup or a login has made: for whom, with which key.
NewTokens(users, key) ==
  \A i \in issued' \ issued :
    /\ i \in [token : Claims, at : Nat]
    /\ i.token.sub \in users /\ i.token.key = key
    /\ i.at = now
    /\ i.token.exp <= now + Hour /\ now + Hour < i.token.exp + Second

\* A test user is a subject of tokens, and there are as many as were asked for.
LEMMA OrderOfUsers ==
  ASSUME NEW p \in Run, NEW s \in Order(p), NEW i \in 1..UserCount
  PROVE  s[i] \in TestUsers(p) /\ s[i] \in Subject
<1>1. s[i] \in TestUsers(p)
  BY DEF Order
<1> QED
  BY <1>1, SetupAssumption

\* GenerateAuthTokens makes a token for each test user, in their order.
LEMMA IssueTokensMoves ==
  ASSUME TokenTypeOK, SetupTypeOK, LocalsInv, NEW p \in Run, IssueTokens(p)
  PROVE  /\ setup[p].pc = "issueTokens" /\ Moves(p, "createTokenFile")
         /\ setup'[p].key = setup[p].key /\ setup'[p].users = setup[p].users
         /\ setup'[p].tokens \in TokenList
         /\ \A i \in 1..UserCount : setup'[p].tokens[i].sub = setup[p].users[i]
         /\ issued \subseteq issued'
         /\ NewTokens(TestUsers(p), setup[p].key)
<1> DEFINE key == setup[p].key
           users == setup[p].users
           tokens == [i \in 1..UserCount |-> IssueToken(users[i], key)]
<1>1. now \in Nat
  BY TokenAssumption DEF TokenTypeOK
<1>2. setup[p].pc = "issueTokens" /\ key \in Key /\ users \in Order(p)
  BY SetupAssumption DEF IssueTokens, LocalsInv, WithKey, WithUsers, TestPc, OwnKey
<1>3. \A i \in 1..UserCount : users[i] \in TestUsers(p) /\ users[i] \in Subject
  BY <1>2, OrderOfUsers
<1>4. \A i \in 1..UserCount :
        /\ tokens[i] \in Claims /\ tokens[i].sub = users[i] /\ tokens[i].key = key
        /\ tokens[i].exp <= now + Hour /\ now + Hour < tokens[i].exp + Second
  BY <1>1, <1>2, <1>3, IssueTokenLasts
<1>5. tokens \in TokenList
  BY <1>4 DEF TokenList
<1>6. /\ setup' = [setup EXCEPT ![p].tokens = tokens, ![p].pc = "createTokenFile"]
      /\ issued' = issued \cup {[token |-> tokens[i], at |-> now] : i \in 1..UserCount}
  BY DEF IssueTokens
<1> HIDE DEF tokens
<1>7. /\ Moves(p, "createTokenFile")
      /\ setup'[p].key = key /\ setup'[p].users = users /\ setup'[p].tokens = tokens
  <2>1. setup \in [Run -> SetupState] /\ setup[p] \in SetupState
    BY DEF SetupTypeOK
  <2>2. /\ setup'[p] = [setup[p] EXCEPT !.tokens = tokens, !.pc = "createTokenFile"]
        /\ setup' = [setup EXCEPT ![p] = setup'[p]]
    BY <1>6, <2>1
  <2>3. /\ setup'[p] \in SetupState /\ setup'[p].pc = "createTokenFile"
        /\ setup'[p].key = key /\ setup'[p].users = users /\ setup'[p].tokens = tokens
    BY <1>5, <2>1, <2>2 DEF SetupState, TestPc
  <2>4. setup' \in [Run -> SetupState] /\ \A q \in Run \ {p} : setup'[q] = setup[q]
    BY <2>1, <2>2, <2>3
  <2> QED BY <2>3, <2>4 DEF Moves
<1>8. NewTokens(TestUsers(p), key)
  <2>1. SUFFICES ASSUME NEW i \in 1..UserCount
                 PROVE  LET n == [token |-> tokens[i], at |-> now]
                        IN  /\ n \in [token : Claims, at : Nat]
                            /\ n.token.sub \in TestUsers(p) /\ n.token.key = key
                            /\ n.at = now
                            /\ n.token.exp <= now + Hour /\ now + Hour < n.token.exp + Second
    BY <1>6 DEF NewTokens
  <2> QED
    BY <1>1, <1>3, <1>4
<1> QED
  BY <1>2, <1>4, <1>5, <1>6, <1>7, <1>8

\* The two test files are made one after the other, the tokens in between.
LEMMA WriteTestFilesMoves ==
  ASSUME SetupTypeOK, NEW p \in Run, WriteTestFiles(p)
  PROVE  \/ /\ setup[p].pc = "createUserFile"
            /\ Moves(p, "writeUserFile") /\ KeepsLocals(p)
            /\ file' = [file EXCEPT !.user = Incomplete]
            /\ UNCHANGED <<schema, migrationLock, batches, inserting, issued>>
         \/ /\ setup[p].pc = "writeUserFile"
            /\ Moves(p, "issueTokens") /\ KeepsLocals(p)
            /\ file' = [file EXCEPT !.user = setup[p].users]
            /\ UNCHANGED <<schema, migrationLock, batches, inserting, issued>>
         \/ IssueTokens(p)
         \/ /\ setup[p].pc = "createTokenFile"
            /\ Moves(p, "writeTokenFile") /\ KeepsLocals(p)
            /\ file' = [file EXCEPT !.token = Incomplete]
            /\ UNCHANGED <<schema, migrationLock, batches, inserting, issued>>
         \/ /\ setup[p].pc = "writeTokenFile" /\ Moves(p, "ok")
            /\ file' = [file EXCEPT !.token = setup[p].tokens]
            /\ UNCHANGED <<schema, migrationLock, batches, inserting, issued>>
<1>1. \A pc \in TestPc : GoTo(p, pc) => Moves(p, pc) /\ KeepsLocals(p)
  BY GoToMoves DEF Pcs
<1>2. {"writeUserFile", "issueTokens", "writeTokenFile"} \subseteq TestPc
  BY DEF TestPc
<1>3. setup' = [setup EXCEPT ![p] = Fresh("ok")] => Moves(p, "ok")
  BY EndMoves DEF Ended
<1> QED
  BY <1>1, <1>2, <1>3 DEF WriteTestFiles, CreateFile, WriteFile

-----------------------------------------------------------------------------
(* The migration *)

\* A step that ends a run with an error, or by killing it, leaves the migration as
\* the other runs know it.
LEMMA ExitKeepsMigration ==
  ASSUME SetupInv, NEW p \in Run, NEW pc \in {"failed", "killed"}, Exit(p, pc),
         UNCHANGED schema,
         pc = "failed" => setup[p].pc \notin {"migrateBody", "migrateClean", "killed"}
  PROVE  MigrationInv'
<1>1. Moves(p, pc) /\ CloseConnections(p)
  BY ExitMoves DEF SetupInv, Ended
<1> QED
  BY <1>1, SetupAssumption
  DEF SetupInv, MigrationInv, DirtyIsGuarded, Moves, CloseConnections, Migrated,
      MigratePc, KeyPc, TestPc

\* A step of a run that stays outside of the migration leaves it as it is.
LEMMA MoveKeepsMigration ==
  ASSUME SetupInv, NEW p \in Run, NEW pc, Moves(p, pc), UNCHANGED <<schema, migrationLock>>,
         setup[p].pc \notin MigratePc \cup {"killed"}, pc \notin MigratePc,
         pc \in KeyPc => Migrated(p),
         p \in AppRun /\ pc \in TestPc \cup {"ok"} => Migrated(p)
  PROVE  MigrationInv'
  BY DEF SetupInv, MigrationInv, DirtyIsGuarded, Moves, Migrated, MigratePc

\* SetupPostgres holds the lock while the schema is dirty, and returns without an
\* error only when it is clean.
LEMMA MigrationStep ==
  ASSUME SetupInv, SetupNext
  PROVE  MigrationInv'
<1> PICK p \in Run : SetupStep(p) \/ Start(p) \/ Abort(p)
  BY DEF SetupNext
<1> USE DEF SetupInv
<1>1. CASE Start(p)
  <2>1. setup[p].pc = "idle" /\ UNCHANGED <<schema, migrationLock>>
    BY <1>1 DEF Start
  <2> QED
    BY <1>1, <2>1, StartMoves, MoveKeepsMigration DEF MigratePc, KeyPc, TestPc
<1>2. CASE Abort(p)
  BY <1>2, ExitKeepsMigration DEF Abort
<1>3. CASE MigrateLock(p)
  BY <1>3, MigrateMoves, SetupAssumption
  DEF MigrateLock, MigrationInv, DirtyIsGuarded, Moves, Migrated, MigratePc, KeyPc, TestPc
<1>4. CASE MigrateUp(p)
  <2>1. CASE Exit(p, "failed") /\ UNCHANGED schema
    BY <1>4, <2>1, ExitKeepsMigration DEF MigrateUp
  <2>2. CASE /\ schema = "clean" /\ migrationLock' = NoRun
             /\ Moves(p, "statPub") /\ UNCHANGED schema
    BY <1>4, <2>2
    DEF MigrateUp, MigrationInv, DirtyIsGuarded, Moves, Migrated, MigratePc
  <2>3. CASE /\ schema = "none" /\ schema' = "dirty"
             /\ Moves(p, "migrateBody") /\ UNCHANGED migrationLock
    BY <1>4, <2>3
    DEF MigrateUp, MigrationInv, DirtyIsGuarded, Moves, Migrated, MigratePc, KeyPc, TestPc
  <2> QED
    BY <1>4, <2>1, <2>2, <2>3, MigrateMoves
<1>5. CASE MigrateBody(p)
  BY <1>5, MigrateMoves
  DEF MigrateBody, MigrationInv, DirtyIsGuarded, Moves, Migrated, MigratePc, KeyPc, TestPc
<1>6. CASE MigrateClean(p)
  BY <1>6, MigrateMoves
  DEF MigrateClean, MigrationInv, DirtyIsGuarded, Moves, Migrated, MigratePc
<1>7. CASE StatPub(p)
  BY <1>7, StatPubMoves, MoveKeepsMigration DEF StatPub, Migrated, MigratePc, KeyPc, TestPc
<1>8. CASE StatPriv(p)
  <2>1. setup[p].pc = "statPriv" /\ UNCHANGED schema
    BY <1>8 DEF StatPriv
  <2>2. CASE Exit(p, "failed")
    BY <2>1, <2>2, ExitKeepsMigration
  <2>3. CASE /\ Moves(p, "readKey") \/ Moves(p, "ok") \/ Moves(p, "createPub")
             /\ UNCHANGED migrationLock
    BY <2>1, <2>3, MoveKeepsMigration DEF Migrated, MigratePc, KeyPc
  <2> QED
    BY <1>8, <2>2, <2>3, StatPrivMoves
<1>9. CASE GenerateKeys(p)
  <2>1. UNCHANGED <<schema, migrationLock>>
    BY <1>9 DEF GenerateKeys, CreateFile, WriteFile
  <2> QED
    BY <1>9, <2>1, GenerateKeysMoves, MoveKeepsMigration DEF Migrated, MigratePc, KeyPc
<1>10. CASE ReadKey(p)
  <2>1. setup[p].pc = "readKey" /\ UNCHANGED schema
    BY <1>10 DEF ReadKey
  <2>2. CASE Exit(p, "failed")
    BY <2>1, <2>2, ExitKeepsMigration
  <2>3. CASE Moves(p, "insertUsers") /\ UNCHANGED migrationLock
    BY <2>1, <2>3, MoveKeepsMigration DEF Migrated, MigratePc, KeyPc, TestPc
  <2> QED
    BY <1>10, <2>2, <2>3, ReadKeyMoves
<1>11. CASE InsertUsers(p)
  <2>1. setup[p].pc = "insertUsers" /\ UNCHANGED schema
    BY <1>11 DEF InsertUsers
  <2>2. CASE Exit(p, "failed")
    BY <2>1, <2>2, ExitKeepsMigration
  <2>3. CASE Moves(p, "commitUsers") /\ UNCHANGED migrationLock
    BY <2>1, <2>3, MoveKeepsMigration DEF Migrated, MigratePc, KeyPc, TestPc
  <2> QED
    BY <1>11, <2>2, <2>3, InsertUsersMoves
<1>12. CASE CommitUsers(p)
  BY <1>12, CommitUsersMoves, MoveKeepsMigration
  DEF CommitUsers, Migrated, MigratePc, KeyPc, TestPc
<1>13. CASE WriteTestFiles(p)
  <2>1. CASE IssueTokens(p)
    BY <2>1, IssueTokensMoves, MoveKeepsMigration
    DEF IssueTokens, Migrated, MigratePc, KeyPc, TestPc
  <2>2. CASE ~IssueTokens(p)
    BY <1>13, <2>2, WriteTestFilesMoves, MoveKeepsMigration
    DEF Migrated, MigratePc, KeyPc, TestPc
  <2> QED
    BY <2>1, <2>2
<1> QED
  BY <1>1, <1>2, <1>3, <1>4, <1>5, <1>6, <1>7, <1>8, <1>9, <1>10, <1>11, <1>12, <1>13
  DEF SetupStep

-----------------------------------------------------------------------------
(* The values of the variables *)

\* A run that ends leaves values of their types.
LEMMA ExitKeepsTypes ==
  ASSUME SetupInv, NEW p \in Run, NEW pc \in {"failed", "killed"}, Exit(p, pc),
         UNCHANGED <<schema, batches, file>>
  PROVE  SetupTypeOK' /\ LocalsInv'
<1>1. Moves(p, pc) /\ CloseConnections(p)
  BY ExitMoves DEF SetupInv, Ended
<1>2. SetupTypeOK'
  BY <1>1 DEF SetupInv, SetupTypeOK, Moves, CloseConnections
<1>3. LocalsInv'
  BY <1>1 DEF SetupInv, LocalsInv, Moves, AppPc, TestPc, WithKey, WithUsers, WithTokens
<1> QED
  BY <1>2, <1>3

\* A step that keeps the local variables keeps what is known of them.
LEMMA MoveKeepsLocals ==
  ASSUME LocalsInv, NEW p \in Run, NEW pc, Moves(p, pc),
         pc \in AppPc => p \in AppRun,
         pc \in TestPc => p \in TestRun,
         pc \in WithKey => setup[p].pc \in WithKey /\ KeepsLocals(p),
         pc \in WithUsers => setup[p].pc \in WithUsers,
         pc \in WithTokens => setup[p].pc \in WithTokens
  PROVE  LocalsInv'
<1> SUFFICES ASSUME NEW q \in Run
             PROVE  LocalsInv!(q)'
  BY DEF LocalsInv
<1>1. CASE q # p
  BY <1>1 DEF LocalsInv, Moves
<1>2. CASE q = p
  BY <1>2 DEF LocalsInv, Moves, KeepsLocals, WithTokens, WithUsers, WithKey, TestPc
<1> QED
  BY <1>1, <1>2

\* Whatever was truncated or killed, no run works with a key, a list of users or a
\* list of tokens that is not one.
LEMMA TypeStep ==
  ASSUME SetupInv, SetupNext
  PROVE  TokenTypeOK' /\ SetupTypeOK' /\ LocalsInv'
<1> PICK p \in Run : (SetupStep(p) \/ Start(p) \/ Abort(p)) /\ UNCHANGED <<now, call>>
  BY DEF SetupNext, SetupStep
<1> USE DEF SetupInv
<1>a. UNCHANGED issued => TokenTypeOK'
  BY DEF TokenTypeOK
<1>1. CASE Start(p)
  <2>1. UNCHANGED <<schema, migrationLock, batches, inserting, file, issued>>
    BY <1>1 DEF Start
  <2>2. SetupTypeOK'
    BY <1>1, <2>1, StartMoves DEF SetupTypeOK, Moves
  <2>3. LocalsInv'
    BY <1>1, StartMoves, MoveKeepsLocals DEF AppPc, TestPc, WithKey, WithUsers, WithTokens
  <2> QED
    BY <1>a, <2>1, <2>2, <2>3
<1>2. CASE Abort(p)
  BY <1>2, <1>a, ExitKeepsTypes DEF Abort
<1>3. CASE MigrateLock(p) \/ MigrateBody(p) \/ MigrateClean(p)
  <2>1. /\ UNCHANGED <<batches, inserting, file, issued>>
        /\ setup[p].pc \in AppPc
        /\ schema' \in {schema, "created", "clean"}
        /\ migrationLock' \in {migrationLock, p, NoRun}
    BY <1>3 DEF MigrateLock, MigrateBody, MigrateClean, AppPc
  <2>2. SetupTypeOK'
    BY <1>3, <2>1, MigrateMoves DEF SetupTypeOK, Moves
  <2>3. LocalsInv'
    BY <1>3, <2>1, MigrateMoves, MoveKeepsLocals
    DEF LocalsInv, AppPc, TestPc, WithKey, WithUsers, WithTokens
  <2> QED
    BY <1>a, <2>1, <2>2, <2>3
<1>4. CASE MigrateUp(p)
  <2>1. UNCHANGED <<batches, file, issued>> /\ setup[p].pc \in AppPc
    BY <1>4 DEF MigrateUp, AppPc
  <2>2. CASE Exit(p, "failed") /\ UNCHANGED schema
    BY <1>a, <2>1, <2>2, ExitKeepsTypes
  <2>3. CASE /\ Moves(p, "statPub") \/ Moves(p, "migrateBody")
             /\ schema' \in {schema, "dirty"} /\ migrationLock' \in {migrationLock, NoRun}
             /\ UNCHANGED inserting
    <3>1. SetupTypeOK'
      BY <2>1, <2>3 DEF SetupTypeOK, Moves
    <3>2. LocalsInv'
      BY <2>1, <2>3, MoveKeepsLocals
      DEF LocalsInv, AppPc, TestPc, WithKey, WithUsers, WithTokens
    <3> QED
      BY <1>a, <2>1, <3>1, <3>2
  <2> QED
    BY <1>4, <2>2, <2>3, MigrateMoves
<1>5. CASE StatPub(p)
  <2>1. /\ UNCHANGED <<schema, migrationLock, batches, inserting, file, issued>>
        /\ setup[p].pc \in AppPc
    BY <1>5 DEF StatPub, AppPc
  <2>2. SetupTypeOK'
    BY <1>5, <2>1, StatPubMoves DEF SetupTypeOK, Moves
  <2>3. LocalsInv'
    BY <1>5, <2>1, StatPubMoves, MoveKeepsLocals
    DEF LocalsInv, AppPc, TestPc, WithKey, WithUsers, WithTokens
  <2> QED
    BY <1>a, <2>1, <2>2, <2>3
<1>6. CASE StatPriv(p)
  <2>1. UNCHANGED <<schema, batches, file, issued>> /\ setup[p].pc \in AppPc
    BY <1>6 DEF StatPriv, AppPc
  <2>2. CASE Exit(p, "failed")
    BY <1>a, <2>1, <2>2, ExitKeepsTypes
  <2>3. CASE /\ \/ p \in TestRun /\ Moves(p, "readKey")
                \/ Moves(p, "ok") \/ Moves(p, "createPub")
             /\ UNCHANGED <<migrationLock, inserting>>
    <3>1. SetupTypeOK'
      BY <2>1, <2>3 DEF SetupTypeOK, Moves
    <3>2. LocalsInv'
      BY <2>1, <2>3, MoveKeepsLocals
      DEF LocalsInv, AppPc, TestPc, WithKey, WithUsers, WithTokens
    <3> QED
      BY <1>a, <2>1, <3>1, <3>2
  <2> QED
    BY <1>6, <2>2, <2>3, StatPrivMoves
<1>7. CASE GenerateKeys(p)
  <2>1. UNCHANGED <<schema, migrationLock, batches, inserting, issued>>
    BY <1>7 DEF GenerateKeys, CreateFile, WriteFile
  <2>2. setup[p].pc \in AppPc
    BY <1>7 DEF GenerateKeys, CreateFile, WriteFile, AppPc
  <2>3. file' \in Files
    BY <1>7, GenerateKeysMoves DEF SetupTypeOK, Files, OwnKey
  <2>4. SetupTypeOK'
    BY <1>7, <2>1, <2>3, GenerateKeysMoves DEF SetupTypeOK, Moves
  <2>5. LocalsInv'
    BY <1>7, <2>2, GenerateKeysMoves, MoveKeepsLocals
    DEF LocalsInv, AppPc, TestPc, WithKey, WithUsers, WithTokens
  <2> QED
    BY <1>a, <2>1, <2>4, <2>5
<1>8. CASE ReadKey(p)
  <2>1. UNCHANGED <<schema, batches, file, issued>> /\ setup[p].pc = "readKey"
    BY <1>8 DEF ReadKey
  <2>2. CASE Exit(p, "failed")
    BY <1>a, <2>1, <2>2, ExitKeepsTypes
  <2>3. CASE /\ HasKey("priv") /\ Moves(p, "insertUsers") /\ setup'[p].key = file.priv
             /\ UNCHANGED <<migrationLock, inserting>>
    <3>1. SetupTypeOK'
      BY <2>1, <2>3 DEF SetupTypeOK, Moves
    <3>2. LocalsInv'
      BY <2>1, <2>3
      DEF LocalsInv, HasKey, Moves, AppPc, TestPc, WithKey, WithUsers, WithTokens
    <3> QED
      BY <1>a, <2>1, <3>1, <3>2
  <2> QED
    BY <1>8, <2>2, <2>3, ReadKeyMoves
<1>9. CASE InsertUsers(p)
  <2>1. UNCHANGED <<schema, batches, file, issued>> /\ setup[p].pc = "insertUsers"
    BY <1>9 DEF InsertUsers
  <2>2. p \in TestRun
    BY <2>1 DEF LocalsInv, TestPc
  <2>3. CASE Exit(p, "failed")
    BY <1>a, <2>1, <2>3, ExitKeepsTypes
  <2>4. CASE /\ inserting' = {p} /\ Moves(p, "commitUsers")
             /\ setup'[p].key = setup[p].key /\ setup'[p].users \in Order(p)
             /\ UNCHANGED migrationLock
    <3>1. SetupTypeOK'
      BY <2>1, <2>2, <2>4 DEF SetupTypeOK, Moves
    <3>2. LocalsInv'
      BY <2>1, <2>4
      DEF LocalsInv, Moves, AppPc, TestPc, WithKey, WithUsers, WithTokens
    <3> QED
      BY <1>a, <2>1, <3>1, <3>2
  <2> QED
    BY <1>9, <2>3, <2>4, InsertUsersMoves
<1>10. CASE CommitUsers(p)
  <2>1. /\ UNCHANGED <<schema, migrationLock, file, issued>> /\ setup[p].pc = "commitUsers"
        /\ batches' = batches \cup {p} /\ inserting' = inserting \ {p}
    BY <1>10 DEF CommitUsers
  <2>2. p \in TestRun
    BY <2>1 DEF LocalsInv, TestPc
  <2>3. SetupTypeOK'
    BY <1>10, <2>1, <2>2, CommitUsersMoves DEF SetupTypeOK, Moves
  <2>4. LocalsInv'
    BY <1>10, <2>1, <2>2, CommitUsersMoves, MoveKeepsLocals
    DEF AppPc, TestPc, WithKey, WithUsers, WithTokens
  <2> QED
    BY <1>a, <2>1, <2>3, <2>4
<1>11. CASE WriteTestFiles(p)
  <2>1. CASE IssueTokens(p)
    <3>1. UNCHANGED <<schema, migrationLock, batches, inserting, file>>
      BY <2>1 DEF IssueTokens
    <3>2. TokenTypeOK'
      BY <2>1, IssueTokensMoves DEF TokenTypeOK, NewTokens
    <3>3. SetupTypeOK'
      BY <2>1, <3>1, IssueTokensMoves DEF SetupTypeOK, Moves
    <3>4. LocalsInv'
      BY <2>1, IssueTokensMoves
      DEF LocalsInv, Moves, AppPc, TestPc, WithKey, WithUsers, WithTokens
    <3> QED
      BY <3>2, <3>3, <3>4
  <2>2. CASE ~IssueTokens(p)
    <3>1. UNCHANGED <<schema, migrationLock, batches, inserting, issued>>
      BY <1>11, <2>2, WriteTestFilesMoves
    <3>2. p \in TestRun
      BY <1>11, <2>2, WriteTestFilesMoves DEF LocalsInv, TestPc
    <3>3. file' \in Files
      BY <1>11, <2>2, WriteTestFilesMoves
      DEF LocalsInv, SetupTypeOK, Files, UserList, TestPc, WithKey, WithUsers, WithTokens
    <3>4. SetupTypeOK'
      BY <1>11, <2>2, <3>1, <3>3, WriteTestFilesMoves DEF SetupTypeOK, Moves
    <3>5. LocalsInv'
      BY <1>11, <2>2, <3>2, WriteTestFilesMoves, MoveKeepsLocals
      DEF AppPc, TestPc, WithKey, WithUsers, WithTokens
    <3> QED
      BY <1>a, <3>1, <3>4, <3>5
  <2> QED
    BY <2>1, <2>2
<1> QED
  BY <1>1, <1>2, <1>3, <1>4, <1>5, <1>6, <1>7, <1>8, <1>9, <1>10, <1>11
  DEF SetupStep

-----------------------------------------------------------------------------
(* The test users *)

\* A run that ends with an error, or is killed, rolls back what it has inserted.
LEMMA ExitKeepsTestUsers ==
  ASSUME SetupInv, NEW p \in Run, NEW pc \in {"failed", "killed"}, Exit(p, pc),
         UNCHANGED <<batches, file>>
  PROVE  TestUsersInv'
<1>1. Moves(p, pc) /\ CloseConnections(p)
  BY ExitMoves DEF SetupInv, Ended
<1>2. \A q \in Run : setup'[q].pc = "commitUsers" => q # p /\ setup[q].pc = "commitUsers"
  BY <1>1 DEF Moves
<1>3. \A q \in Run : setup[q].pc = "commitUsers" /\ q # p => inserting' = {q}
  BY <1>1 DEF SetupInv, TestUsersInv, CloseConnections
<1> QED
  BY <1>1, <1>2, <1>3
  DEF SetupInv, TestUsersInv, Moves, CloseConnections,
      Committed, WithUserFile, WithUsers, WithKey, TestPc

\* A step that has nothing to do with the test users leaves them as they are.
LEMMA MoveKeepsTestUsers ==
  ASSUME SetupInv, NEW p \in Run, NEW pc, Moves(p, pc),
         setup[p].pc # "commitUsers", pc \notin WithUsers,
         UNCHANGED <<batches, inserting>>,
         file'.user = file.user, file'.token = file.token
  PROVE  TestUsersInv'
  BY DEF SetupInv, TestUsersInv, Moves, Committed, WithUserFile, WithUsers, WithKey, TestPc

\* The unique index on the names lets one set of test users in, and only the run
\* that has made it writes the files.
LEMMA TestUsersStep ==
  ASSUME SetupInv, SetupNext
  PROVE  TestUsersInv'
<1> PICK p \in Run : SetupStep(p) \/ Start(p) \/ Abort(p)
  BY DEF SetupNext
<1> USE DEF SetupInv
<1>1. CASE Start(p)
  <2>1. setup[p].pc = "idle" /\ UNCHANGED <<batches, inserting, file>>
    BY <1>1 DEF Start
  <2> QED
    BY <1>1, <2>1, StartMoves, MoveKeepsTestUsers DEF WithUsers, WithKey, TestPc
<1>2. CASE Abort(p)
  BY <1>2, ExitKeepsTestUsers DEF Abort
<1>3. CASE MigrateLock(p) \/ MigrateBody(p) \/ MigrateClean(p)
  <2>1. UNCHANGED <<batches, inserting, file>> /\ setup[p].pc \in AppPc
    BY <1>3 DEF MigrateLock, MigrateBody, MigrateClean, AppPc
  <2> QED
    BY <1>3, <2>1, MigrateMoves, MoveKeepsTestUsers DEF AppPc, WithUsers, WithKey, TestPc
<1>4. CASE MigrateUp(p)
  <2>1. UNCHANGED <<batches, file>> /\ setup[p].pc = "migrateUp"
    BY <1>4 DEF MigrateUp
  <2> QED
    BY <1>4, <2>1, MigrateMoves, ExitKeepsTestUsers, MoveKeepsTestUsers
    DEF WithUsers, WithKey, TestPc
<1>5. CASE StatPub(p)
  BY <1>5, StatPubMoves, MoveKeepsTestUsers DEF StatPub, WithUsers, WithKey, TestPc
<1>6. CASE StatPriv(p)
  <2>1. UNCHANGED <<batches, file>> /\ setup[p].pc = "statPriv"
    BY <1>6 DEF StatPriv
  <2> QED
    BY <1>6, <2>1, StatPrivMoves, ExitKeepsTestUsers, MoveKeepsTestUsers
    DEF WithUsers, WithKey, TestPc
<1>7. CASE GenerateKeys(p)
  <2>1. UNCHANGED <<batches, inserting>>
    BY <1>7 DEF GenerateKeys, CreateFile, WriteFile
  <2>2. file'.user = file.user /\ file'.token = file.token
    BY <1>7, GenerateKeysMoves DEF SetupTypeOK, Files
  <2> QED
    BY <1>7, <2>1, <2>2, GenerateKeysMoves, MoveKeepsTestUsers DEF WithUsers, WithKey, TestPc
<1>8. CASE ReadKey(p)
  <2>1. UNCHANGED <<batches, file>> /\ setup[p].pc = "readKey"
    BY <1>8 DEF ReadKey
  <2> QED
    BY <1>8, <2>1, ReadKeyMoves, ExitKeepsTestUsers, MoveKeepsTestUsers
    DEF WithUsers, WithKey, TestPc
<1>9. CASE InsertUsers(p)
  <2>1. UNCHANGED <<batches, file>> /\ setup[p].pc = "insertUsers"
    BY <1>9 DEF InsertUsers
  <2>2. CASE Exit(p, "failed")
    BY <2>1, <2>2, ExitKeepsTestUsers
  <2>3. CASE /\ inserting = {} /\ batches = {} /\ inserting' = {p}
             /\ Moves(p, "commitUsers")
    BY <2>1, <2>3
    DEF TestUsersInv, Moves, Committed, WithUserFile, WithUsers, WithKey, TestPc
  <2> QED
    BY <1>9, <2>2, <2>3, InsertUsersMoves
<1>10. CASE CommitUsers(p)
  <2>1. /\ setup[p].pc = "commitUsers" /\ UNCHANGED file
        /\ batches' = batches \cup {p} /\ inserting' = inserting \ {p}
    BY <1>10 DEF CommitUsers
  <2>2. batches = {} /\ inserting = {p} /\ batches' = {p} /\ inserting' = {}
    BY <2>1 DEF TestUsersInv
  <2>3. file.user = NoFile /\ file.token = NoFile
    BY <2>2 DEF TestUsersInv
  <2> QED
    BY <1>10, <2>1, <2>2, <2>3, CommitUsersMoves
    DEF TestUsersInv, Moves, Committed, WithUserFile, WithUsers, WithKey, TestPc
<1>11. CASE WriteTestFiles(p)
  <2>1. /\ UNCHANGED <<batches, inserting>>
        /\ setup[p].pc \in Committed /\ setup[p].pc # "commitUsers"
    BY <1>11
    DEF WriteTestFiles, CreateFile, WriteFile, IssueTokens, Committed, WithUsers, WithKey, TestPc
  <2>2. batches = {p} /\ \A q \in Run : setup[q].pc \in Committed => q = p
    BY <2>1 DEF TestUsersInv
  <2>3. CASE IssueTokens(p)
    <3>1. UNCHANGED file
      BY <2>3 DEF IssueTokens
    <3>2. /\ setup[p].pc = "issueTokens" /\ Moves(p, "createTokenFile")
          /\ setup'[p].users = setup[p].users
      BY <2>3, IssueTokensMoves
    <3> QED
      BY <2>1, <2>2, <3>1, <3>2
      DEF TestUsersInv, Moves, Committed, WithUserFile, WithUsers, WithKey, TestPc
  <2>4. CASE /\ setup[p].pc = "createUserFile"
             /\ Moves(p, "writeUserFile") /\ KeepsLocals(p)
             /\ file' = [file EXCEPT !.user = Incomplete]
    <3>1. file'.user = Incomplete /\ file'.token = NoFile
      BY <2>1, <2>4 DEF SetupTypeOK, Files, TestUsersInv
    <3> QED
      BY <2>1, <2>2, <2>4, <3>1
      DEF TestUsersInv, Moves, Committed, WithUserFile, WithUsers, WithKey, TestPc
  <2>5. CASE /\ setup[p].pc = "writeUserFile"
             /\ Moves(p, "issueTokens") /\ KeepsLocals(p)
             /\ file' = [file EXCEPT !.user = setup[p].users]
    <3>1. file'.user = setup[p].users /\ file'.token = NoFile
      BY <2>1, <2>5 DEF SetupTypeOK, Files, TestUsersInv
    <3>2. setup[p].users \in Order(p)
      BY <2>5 DEF LocalsInv, WithUsers, WithKey, TestPc
    <3> QED
      BY <2>1, <2>2, <2>5, <3>1, <3>2
      DEF TestUsersInv, Moves, KeepsLocals, Committed, WithUserFile, WithUsers, WithKey, TestPc
  <2>6. CASE /\ setup[p].pc = "createTokenFile"
             /\ Moves(p, "writeTokenFile") /\ KeepsLocals(p)
             /\ file' = [file EXCEPT !.token = Incomplete]
    <3>1. file'.user = file.user /\ file'.token = Incomplete
      BY <2>6 DEF SetupTypeOK, Files
    <3> QED
      BY <2>1, <2>2, <2>6, <3>1
      DEF TestUsersInv, Moves, KeepsLocals, Committed, WithUserFile, WithUsers, WithKey, TestPc
  <2>7. CASE /\ setup[p].pc = "writeTokenFile" /\ Moves(p, "ok")
             /\ file' = [file EXCEPT !.token = setup[p].tokens]
    <3>1. file'.user = file.user /\ file'.token = setup[p].tokens
      BY <2>7 DEF SetupTypeOK, Files
    <3>2. /\ setup[p].users \in Order(p) /\ file.user = setup[p].users
          /\ \A i \in 1..UserCount : setup[p].tokens[i].sub = setup[p].users[i]
      BY <2>7 DEF LocalsInv, TestUsersInv, WithUserFile, WithTokens, WithUsers, WithKey, TestPc
    <3> QED
      BY <2>1, <2>2, <2>7, <3>1, <3>2
      DEF TestUsersInv, Moves, Committed, WithUserFile, WithUsers, WithKey, TestPc
  <2> QED
    BY <1>11, <2>3, <2>4, <2>5, <2>6, <2>7, WriteTestFilesMoves
<1> QED
  BY <1>1, <1>2, <1>3, <1>4, <1>5, <1>6, <1>7, <1>8, <1>9, <1>10, <1>11
  DEF SetupStep

-----------------------------------------------------------------------------
(* The key files *)

\* A run that ends has nothing to say about the key files.
LEMMA ExitKeepsKeys ==
  ASSUME SetupInv, NEW p \in Run, NEW pc \in {"failed", "killed"}, Exit(p, pc),
         UNCHANGED file
  PROVE  KeysInv'
<1>1. Moves(p, pc)
  BY ExitMoves DEF SetupInv, Ended
<1> QED
  BY <1>1
  DEF SetupInv, KeysInv, Running, Ended, HasKey, OwnKey, Moves, WithKey, TestPc

\* A step that has nothing to do with the key files leaves what is known of them.
LEMMA MoveKeepsKeys ==
  ASSUME SetupInv, NEW p \in Run, NEW pc, Moves(p, pc), Running(p),
         file'.pub = file.pub, file'.priv = file.priv,
         pc \notin {"statPriv", "createPub", "writePub", "createPriv", "writePriv"},
         pc \in WithKey => setup'[p].key = file.priv
  PROVE  KeysInv'
  BY DEF SetupInv, KeysInv, Running, Ended, HasKey, OwnKey, Moves, WithKey, TestPc

\* SetupJWT makes keys only where there are none; what it has found out stays true
\* while no other run is about.
LEMMA KeysStep ==
  ASSUME SetupInv, SetupNext
  PROVE  KeysInv'
<1> PICK p \in Run : SetupStep(p) \/ Start(p) \/ Abort(p)
  BY DEF SetupNext
<1> USE DEF SetupInv
<1>0. SUFFICES ASSUME ~Overlap PROVE KeysInv'
  BY DEF KeysInv
<1>1. CASE Start(p)
  <2>1. setup[p].pc = "idle" /\ UNCHANGED file /\ \A q \in Run : ~Running(q)
    BY <1>0, <1>1 DEF Start
  <2> QED
    BY <1>1, <2>1, StartMoves
    DEF KeysInv, Running, Ended, HasKey, OwnKey, Moves, WithKey, TestPc
<1>2. CASE Abort(p)
  BY <1>2, ExitKeepsKeys DEF Abort
<1>3. CASE MigrateLock(p) \/ MigrateBody(p) \/ MigrateClean(p)
  <2>1. UNCHANGED file /\ Running(p)
    BY <1>3 DEF MigrateLock, MigrateBody, MigrateClean, Running, Ended
  <2> QED
    BY <1>3, <2>1, MigrateMoves, MoveKeepsKeys DEF WithKey, TestPc
<1>4. CASE MigrateUp(p)
  <2>1. UNCHANGED file /\ Running(p)
    BY <1>4 DEF MigrateUp, Running, Ended
  <2> QED
    BY <1>4, <2>1, MigrateMoves, ExitKeepsKeys, MoveKeepsKeys DEF WithKey, TestPc
<1>5. CASE StatPub(p)
  <2>1. UNCHANGED file /\ Running(p)
    BY <1>5 DEF StatPub, Running, Ended
  <2> QED
    BY <1>5, <2>1, StatPubMoves
    DEF KeysInv, Running, Ended, HasKey, OwnKey, Moves, WithKey, TestPc
<1>6. CASE StatPriv(p)
  <2>1. UNCHANGED file /\ Running(p) /\ setup[p].pc = "statPriv"
    BY <1>6 DEF StatPriv, Running, Ended
  <2>2. CASE Exit(p, "failed")
    BY <2>1, <2>2, ExitKeepsKeys
  <2>3. CASE Moves(p, "readKey") \/ Moves(p, "ok")
    BY <2>1, <2>3, MoveKeepsKeys DEF WithKey, TestPc
  <2>4. CASE ~setup[p].pubExists /\ file.priv = NoFile /\ Moves(p, "createPub")
    BY <1>0, <2>1, <2>4
    DEF KeysInv, Running, Ended, HasKey, OwnKey, Moves, WithKey, TestPc
  <2> QED
    BY <1>6, <2>2, <2>3, <2>4, StatPrivMoves
<1>7. CASE GenerateKeys(p)
  <2>1. Running(p)
    BY <1>7 DEF GenerateKeys, CreateFile, WriteFile, Running, Ended
  <2>2. \A q \in Run : q # p => ~Running(q)
    BY <1>0, <2>1 DEF KeysInv
  <2>3. CASE /\ setup[p].pc = "createPub" /\ Moves(p, "writePub")
             /\ file' = [file EXCEPT !.pub = Incomplete]
    <3>1. file'.pub = Incomplete /\ file'.priv = NoFile
      BY <1>0, <2>3 DEF KeysInv, SetupTypeOK, Files
    <3> QED
      BY <2>2, <2>3, <3>1, SetupAssumption
      DEF KeysInv, Running, Ended, HasKey, OwnKey, Moves, WithKey, TestPc
  <2>4. CASE /\ setup[p].pc = "writePub" /\ Moves(p, "createPriv")
             /\ file' = [file EXCEPT !.pub = p]
    <3>1. file'.pub = p /\ file'.priv = NoFile
      BY <1>0, <2>4 DEF KeysInv, SetupTypeOK, Files
    <3> QED
      BY <2>2, <2>4, <3>1, SetupAssumption
      DEF KeysInv, Running, Ended, HasKey, OwnKey, Moves, WithKey, TestPc
  <2>5. CASE /\ setup[p].pc = "createPriv" /\ Moves(p, "writePriv")
             /\ file' = [file EXCEPT !.priv = Incomplete]
    <3>1. file'.pub = p /\ file'.priv = Incomplete
      BY <1>0, <2>5 DEF KeysInv, SetupTypeOK, Files
    <3> QED
      BY <2>2, <2>5, <3>1, SetupAssumption
      DEF KeysInv, Running, Ended, HasKey, OwnKey, Moves, WithKey, TestPc
  <2>6. CASE /\ setup[p].pc = "writePriv"
             /\ Moves(p, "readKey") \/ Moves(p, "ok")
             /\ file' = [file EXCEPT !.priv = p]
    <3>1. file'.pub = p /\ file'.priv = p
      BY <1>0, <2>6 DEF KeysInv, SetupTypeOK, Files
    <3> QED
      BY <2>2, <2>6, <3>1
      DEF KeysInv, Running, Ended, HasKey, OwnKey, Moves, WithKey, TestPc
  <2> QED
    BY <1>7, <2>3, <2>4, <2>5, <2>6, GenerateKeysMoves
<1>8. CASE ReadKey(p)
  <2>1. UNCHANGED file /\ Running(p)
    BY <1>8 DEF ReadKey, Running, Ended
  <2> QED
    BY <1>8, <2>1, ReadKeyMoves, ExitKeepsKeys, MoveKeepsKeys
<1>9. CASE InsertUsers(p)
  <2>1. UNCHANGED file /\ Running(p) /\ setup[p].pc = "insertUsers"
    BY <1>9 DEF InsertUsers, Running, Ended
  <2>2. setup[p].key = file.priv
    BY <1>0, <2>1 DEF KeysInv, WithKey, TestPc
  <2> QED
    BY <1>9, <2>1, <2>2, InsertUsersMoves, ExitKeepsKeys, MoveKeepsKeys
<1>10. CASE CommitUsers(p)
  <2>1. UNCHANGED file /\ Running(p) /\ setup[p].pc = "commitUsers"
    BY <1>10 DEF CommitUsers, Running, Ended
  <2>2. setup[p].key = file.priv
    BY <1>0, <2>1 DEF KeysInv, WithKey, TestPc
  <2> QED
    BY <1>10, <2>1, <2>2, CommitUsersMoves, MoveKeepsKeys DEF KeepsLocals
<1>11. CASE WriteTestFiles(p)
  <2>1. Running(p) /\ setup[p].pc \in WithKey
    BY <1>11
    DEF WriteTestFiles, CreateFile, WriteFile, IssueTokens, Running, Ended, WithKey, TestPc
  <2>2. setup[p].key = file.priv
    BY <1>0, <2>1 DEF KeysInv
  <2>3. CASE IssueTokens(p)
    <3>1. UNCHANGED file
      BY <2>3 DEF IssueTokens
    <3> QED
      BY <2>1, <2>2, <2>3, <3>1, IssueTokensMoves, MoveKeepsKeys
  <2>4. CASE ~IssueTokens(p)
    <3>1. file'.pub = file.pub /\ file'.priv = file.priv
      BY <1>11, <2>4, WriteTestFilesMoves DEF SetupTypeOK, Files
    <3> QED
      BY <1>11, <2>1, <2>2, <2>4, <3>1, WriteTestFilesMoves, MoveKeepsKeys
      DEF KeepsLocals, WithKey, TestPc
  <2> QED
    BY <2>3, <2>4
<1> QED
  BY <1>1, <1>2, <1>3, <1>4, <1>5, <1>6, <1>7, <1>8, <1>9, <1>10, <1>11
  DEF SetupStep

-----------------------------------------------------------------------------
(* Running the setup again *)

\* The part of RerunsInv about the files.
KeysWhole ==
  \/ file.pub = NoFile /\ file.priv = NoFile
  \/ HasKey("pub") /\ HasKey("priv")
  \/ \E p \in Run : setup[p].pc \in {"writePub", "createPriv", "writePriv"}

\* A step that leaves the key files alone keeps them whole; a run that goes on to
\* SetupApptest, or ends well, does so with both keys there.
LEMMA MoveKeepsReruns ==
  ASSUME SetupInv, NEW p \in Run, NEW pc, Moves(p, pc),
         file'.pub = file.pub, file'.priv = file.priv,
         setup[p].pc \notin {"killed", "writePub", "createPriv", "writePriv"},
         batches \subseteq batches',
         p \in AppRun /\ pc \in TestPc \cup {"ok"} =>
           \/ setup[p].pc \in TestPc
           \/ (~Overlap /\ (\A q \in Run : setup[q].pc # "killed") =>
                 HasKey("pub") /\ HasKey("priv")),
         p \in AppRun /\ pc = "failed" =>
           (~Overlap /\ (\A q \in Run : setup[q].pc # "killed") =>
              p \in TestRun /\ batches # {})
  PROVE  RerunsInv'
<1> SUFFICES ASSUME ~Overlap, \A q \in Run : setup'[q].pc # "killed"
             PROVE  /\ KeysWhole'
                    /\ \A q \in AppRun :
                         /\ setup'[q].pc \in TestPc \cup {"ok"} => (HasKey("pub") /\ HasKey("priv"))'
                         /\ setup'[q].pc = "failed" => q \in TestRun /\ batches' # {}
  BY DEF RerunsInv, KeysWhole
<1>1. \A q \in Run : setup[q].pc # "killed"
  BY DEF Moves
<1>2. (HasKey("pub") /\ HasKey("priv"))' <=> HasKey("pub") /\ HasKey("priv")
  BY DEF HasKey, OwnKey
<1>3. KeysWhole'
  BY <1>1, <1>2 DEF SetupInv, RerunsInv, KeysWhole, Moves
<1>4. ASSUME NEW q \in AppRun
      PROVE  /\ setup'[q].pc \in TestPc \cup {"ok"} => HasKey("pub") /\ HasKey("priv")
             /\ setup'[q].pc = "failed" => q \in TestRun /\ batches' # {}
  BY <1>1, <1>4, SetupAssumption DEF SetupInv, RerunsInv, Moves
<1> QED
  BY <1>2, <1>3, <1>4

\* A run fails only where a run was killed, or overlapped, or where its test users
\* have been made.
LEMMA RerunsStep ==
  ASSUME SetupInv, SetupNext
  PROVE  RerunsInv'
<1> PICK p \in Run : SetupStep(p) \/ Start(p) \/ Abort(p)
  BY DEF SetupNext
<1> USE DEF SetupInv
<1>0. SUFFICES ASSUME ~Overlap, \A q \in Run : setup'[q].pc # "killed" PROVE RerunsInv'
  BY DEF RerunsInv
<1>1. CASE Start(p)
  <2>1. setup[p].pc = "idle" /\ UNCHANGED <<batches, file>>
    BY <1>1 DEF Start
  <2> QED
    BY <1>1, <2>1, StartMoves, MoveKeepsReruns DEF TestPc
<1>2. CASE Abort(p)
  <2>1. setup'[p].pc = "killed"
    BY <1>2, ExitMoves DEF Abort, Ended, Moves
  <2> QED
    BY <1>0, <2>1
<1>3. CASE MigrateLock(p) \/ MigrateBody(p) \/ MigrateClean(p)
  <2>1. /\ UNCHANGED <<batches, file>>
        /\ setup[p].pc \in {"migrateLock", "migrateBody", "migrateClean"}
    BY <1>3 DEF MigrateLock, MigrateBody, MigrateClean
  <2> QED
    BY <1>3, <2>1, MigrateMoves, MoveKeepsReruns DEF TestPc
<1>4. CASE MigrateUp(p)
  <2>1. UNCHANGED <<batches, file>> /\ setup[p].pc = "migrateUp"
    BY <1>4 DEF MigrateUp
  <2>2. CASE schema \in {"dirty", "created"} /\ Exit(p, "failed")
    <3>1. Moves(p, "failed")
      BY <2>2, ExitMoves DEF Ended
    <3>2. \E q \in Run : setup[q].pc = "killed"
      BY <2>1, <2>2 DEF MigrationInv, DirtyIsGuarded, MigratePc
    <3> QED
      BY <1>0, <2>1, <3>1, <3>2 DEF Moves
  <2>3. CASE Moves(p, "statPub") \/ Moves(p, "migrateBody")
    BY <2>1, <2>3, MoveKeepsReruns DEF TestPc
  <2> QED
    BY <1>4, <2>2, <2>3, MigrateMoves
<1>5. CASE StatPub(p)
  BY <1>5, StatPubMoves, MoveKeepsReruns DEF StatPub, TestPc
<1>6. CASE StatPriv(p)
  <2>1. UNCHANGED <<batches, file>> /\ setup[p].pc = "statPriv"
    BY <1>6 DEF StatPriv
  <2>2. Running(p)
    BY <2>1 DEF Running, Ended
  <2>3. \A q \in Run : setup[q].pc \notin {"writePub", "createPriv", "writePriv"}
    BY <1>0, <2>1, <2>2 DEF KeysInv, Running, Ended
  <2>4. setup[p].pubExists <=> file.pub # NoFile
    BY <1>0, <2>1 DEF KeysInv
  <2>5. ASSUME \A q \in Run : setup[q].pc # "killed"
        PROVE  \/ file.pub = NoFile /\ file.priv = NoFile
               \/ HasKey("pub") /\ HasKey("priv")
    BY <1>0, <2>3, <2>5 DEF RerunsInv
  <2>6. HasKey("pub") => file.pub # NoFile
    BY SetupAssumption DEF HasKey, OwnKey
  <2>7. HasKey("priv") => file.priv # NoFile
    BY SetupAssumption DEF HasKey, OwnKey
  <2>8. CASE (setup[p].pubExists <=> file.priv = NoFile) /\ Exit(p, "failed")
    <3>1. Moves(p, "failed")
      BY <2>8, ExitMoves DEF Ended
    <3> QED
      BY <1>0, <2>1, <2>4, <2>5, <2>6, <2>7, <2>8, <3>1 DEF Moves
  <2>9. CASE /\ setup[p].pubExists /\ file.priv # NoFile
             /\ Moves(p, "readKey") \/ Moves(p, "ok")
    BY <1>0, <2>1, <2>5, <2>9, MoveKeepsReruns
  <2>10. CASE Moves(p, "createPub")
    BY <2>1, <2>10, MoveKeepsReruns DEF TestPc
  <2> QED
    BY <1>6, <2>8, <2>9, <2>10, StatPrivMoves
<1>7. CASE GenerateKeys(p)
  <2>1. UNCHANGED batches
    BY <1>7 DEF GenerateKeys, CreateFile, WriteFile
  <2>2. Running(p) /\ setup[p].pc \in KeyPc
    BY <1>7 DEF GenerateKeys, CreateFile, WriteFile, Running, Ended, KeyPc
  <2>3. \A q \in Run : q # p => ~Running(q)
    BY <1>0, <2>2 DEF KeysInv
  <2>4. \A q \in Run : setup[q].pc # "killed"
    BY <1>0, <1>7, GenerateKeysMoves DEF Moves
  <2>5. CASE /\ setup[p].pc \in {"createPub", "writePub", "createPriv"}
             /\ \/ Moves(p, "writePub")
                \/ Moves(p, "createPriv")
                \/ Moves(p, "writePriv")
    <3>1. file.priv = NoFile /\ ~HasKey("priv")
      BY <1>0, <2>5, SetupAssumption DEF KeysInv, HasKey, OwnKey
    <3>2. KeysWhole'
      BY <2>5 DEF KeysWhole, Moves
    <3>3. ASSUME NEW q \in AppRun
          PROVE  /\ setup'[q].pc \notin TestPc \cup {"ok"}
                 /\ setup'[q].pc = "failed" => q \in TestRun /\ batches' # {}
      BY <1>0, <2>1, <2>4, <2>5, <3>1, <3>3, SetupAssumption DEF RerunsInv, Moves, TestPc
    <3> QED
      BY <3>2, <3>3 DEF RerunsInv, KeysWhole
  <2>6. CASE /\ setup[p].pc = "writePriv"
             /\ Moves(p, "readKey") \/ Moves(p, "ok")
             /\ file' = [file EXCEPT !.priv = p]
    <3>1. file'.pub = p /\ file'.priv = p
      BY <1>0, <2>6 DEF KeysInv, SetupTypeOK, Files
    <3>2. (HasKey("pub") /\ HasKey("priv"))'
      BY <3>1 DEF HasKey, OwnKey
    <3>3. ASSUME NEW q \in AppRun, setup'[q].pc = "failed"
          PROVE  q \in TestRun /\ batches' # {}
      BY <1>0, <2>1, <2>4, <2>6, <3>3, SetupAssumption DEF RerunsInv, Moves
    <3> QED
      BY <3>2, <3>3 DEF RerunsInv
  <2> QED
    BY <1>7, <2>5, <2>6, GenerateKeysMoves
<1>8. CASE ReadKey(p)
  <2>1. UNCHANGED <<batches, file>> /\ setup[p].pc = "readKey"
    BY <1>8 DEF ReadKey
  <2>2. CASE file.priv \in {NoFile, Incomplete} /\ Exit(p, "failed")
    <3>1. Moves(p, "failed")
      BY <2>2, ExitMoves DEF Ended
    <3>2. ~HasKey("priv")
      BY <2>2, SetupAssumption DEF HasKey, OwnKey
    <3>3. ASSUME \A q \in Run : setup[q].pc # "killed" PROVE p \notin AppRun
      BY <1>0, <2>1, <3>2, <3>3 DEF RerunsInv, TestPc
    <3> QED
      BY <2>1, <3>1, <3>3, MoveKeepsReruns DEF TestPc
  <2>3. CASE Moves(p, "insertUsers")
    BY <2>1, <2>3, MoveKeepsReruns DEF TestPc
  <2> QED
    BY <1>8, <2>2, <2>3, ReadKeyMoves
<1>9. CASE InsertUsers(p)
  <2>1. UNCHANGED <<batches, file>> /\ setup[p].pc = "insertUsers"
    BY <1>9 DEF InsertUsers
  <2>2. p \in TestRun /\ (p \in AppRun => schema = "clean")
    BY <2>1 DEF LocalsInv, MigrationInv, Migrated, TestPc
  <2>3. CASE /\ schema \in {"none", "dirty"} \/ batches # {}
             /\ Exit(p, "failed")
    <3>1. Moves(p, "failed")
      BY <2>3, ExitMoves DEF Ended
    <3> QED
      BY <2>1, <2>2, <2>3, <3>1, MoveKeepsReruns DEF TestPc
  <2>4. CASE Moves(p, "commitUsers")
    BY <2>1, <2>4, MoveKeepsReruns DEF TestPc
  <2> QED
    BY <1>9, <2>3, <2>4, InsertUsersMoves
<1>10. CASE CommitUsers(p)
  BY <1>10, CommitUsersMoves, MoveKeepsReruns DEF CommitUsers, TestPc
<1>11. CASE WriteTestFiles(p)
  <2>1. CASE IssueTokens(p)
    <3>1. UNCHANGED <<batches, file>>
      BY <2>1 DEF IssueTokens
    <3> QED
      BY <2>1, <3>1, IssueTokensMoves, MoveKeepsReruns DEF TestPc
  <2>2. CASE ~IssueTokens(p)
    <3>1. file'.pub = file.pub /\ file'.priv = file.priv /\ UNCHANGED batches
      BY <1>11, <2>2, WriteTestFilesMoves DEF SetupTypeOK, Files
    <3> QED
      BY <1>11, <2>2, <3>1, WriteTestFilesMoves, MoveKeepsReruns DEF TestPc
  <2> QED
    BY <2>1, <2>2
<1> QED
  BY <1>1, <1>2, <1>3, <1>4, <1>5, <1>6, <1>7, <1>8, <1>9, <1>10, <1>11
  DEF SetupStep

-----------------------------------------------------------------------------
(* The invariant and what follows from it *)

\* Before the first setup there are no tables and no test users, and the key files
\* are both there or both missing.
LEMMA SetupInvInit ==
  ASSUME SetupInit, TokenTypeOK
  PROVE  SetupInv
<1> USE DEF SetupInit, Fresh
<1>1. PICK k \in GivenKey \cup {NoFile} :
        file = [pub |-> k, priv |-> k, user |-> NoFile, token |-> NoFile]
  OBVIOUS
<1>2. SetupTypeOK
  <2>1. file \in Files
    BY <1>1 DEF Files, OwnKey
  <2> QED
    BY <2>1 DEF SetupTypeOK, SetupState
<1>3. LocalsInv
  BY DEF LocalsInv, AppPc, TestPc, WithKey, WithUsers, WithTokens
<1>4. MigrationInv
  BY DEF MigrationInv, DirtyIsGuarded, Migrated, MigratePc, KeyPc, TestPc
<1>5. TestUsersInv
  BY <1>1 DEF TestUsersInv, Committed, WithUserFile, WithUsers, WithKey, TestPc
<1>6. KeysInv
  BY <1>1 DEF KeysInv, Running, WithKey, TestPc
<1>7. RerunsInv
  BY <1>1, SetupAssumption DEF RerunsInv, HasKey, OwnKey, TestPc
<1> QED
  BY <1>2, <1>3, <1>4, <1>5, <1>6, <1>7 DEF SetupInv

\* Every step of the program setup keeps its invariant.
LEMMA SetupInvStep ==
  ASSUME SetupInv, SetupNext
  PROVE  SetupInv'
  BY TypeStep, MigrationStep, TestUsersStep, KeysStep, RerunsStep DEF SetupInv

\* The invariant is about the state of the setup and the types of the tokens.
LEMMA SetupInvKept ==
  ASSUME SetupInv, UNCHANGED setupvars, TokenTypeOK'
  PROVE  SetupInv'
<1> USE DEF setupvars
<1>1. SetupTypeOK' /\ LocalsInv'
  BY DEF SetupInv, SetupTypeOK, LocalsInv
<1>2. MigrationInv' /\ TestUsersInv'
  BY DEF SetupInv, MigrationInv, Migrated, DirtyIsGuarded, TestUsersInv
<1>3. KeysInv' /\ RerunsInv'
  BY DEF SetupInv, KeysInv, Running, HasKey, RerunsInv
<1> QED
  BY <1>1, <1>2, <1>3 DEF SetupInv

\* What the invariant says about the database and the files.
LEMMA SetupInvImplies ==
  ASSUME SetupInv
  PROVE  OkMeansMigrated /\ DirtyIsGuarded /\ TestFilesAgree /\ KeyPairMatches /\ RerunsSucceed
<1>1. OkMeansMigrated /\ DirtyIsGuarded
  BY SetupAssumption DEF SetupInv, MigrationInv, Migrated, OkMeansMigrated
<1>2. TestFilesAgree
  BY DEF SetupInv, TestUsersInv, TestFilesAgree
<1>3. KeyPairMatches
  BY DEF SetupInv, KeysInv, KeyPairMatches
<1>4. ASSUME ~Overlap, \A p \in Run : setup[p].pc # "killed"
      PROVE  SetupIsIdempotent
  <2> SUFFICES ASSUME NEW p \in AppRun, setup[p].pc = "ok"
               PROVE  schema = "clean" /\ HasKey("pub") /\ file.pub = file.priv
    BY DEF SetupIsIdempotent
  <2>1. schema = "clean"
    BY <1>1 DEF OkMeansMigrated
  <2>2. HasKey("pub") /\ HasKey("priv")
    BY <1>4 DEF SetupInv, RerunsInv
  <2> QED
    BY <1>4, <2>1, <2>2 DEF SetupInv, KeysInv
<1>5. ASSUME ~Overlap, \A p \in Run : setup[p].pc # "killed", NEW p \in AppRun, setup[p].pc = "failed"
      PROVE  p \in TestRun /\ batches # {}
  BY <1>5 DEF SetupInv, RerunsInv
<1>6. RerunsSucceed
  BY <1>4, <1>5 DEF RerunsSucceed
<1> QED
  BY <1>1, <1>2, <1>3, <1>6

\* If runs do not overlap, no step of the program setup changes a key that is in
\* its file.
LEMMA SetupKeepsKeys ==
  ASSUME ~Overlap, SetupInv, SetupNext, NEW f \in {"pub", "priv"}, HasKey(f)
  PROVE  file'[f] = file[f]
<1> PICK p \in Run : SetupStep(p) \/ Start(p) \/ Abort(p)
  BY DEF SetupNext
<1>1. CASE GenerateKeys(p)
  <2>1. NoFile \notin OwnKey /\ Incomplete \notin OwnKey
    BY SetupAssumption DEF OwnKey
  <2>2. file \in Files
    BY DEF SetupInv, SetupTypeOK
  <2>3. CASE setup[p].pc = "createPub" /\ file' = [file EXCEPT !.pub = Incomplete]
    BY <2>1, <2>2, <2>3 DEF SetupInv, KeysInv, HasKey, Files
  <2>4. CASE setup[p].pc = "writePub" /\ file' = [file EXCEPT !.pub = p]
    BY <2>1, <2>2, <2>4 DEF SetupInv, KeysInv, HasKey, Files
  <2>5. CASE setup[p].pc = "createPriv" /\ file' = [file EXCEPT !.priv = Incomplete]
    BY <2>1, <2>2, <2>5 DEF SetupInv, KeysInv, HasKey, Files
  <2>6. CASE setup[p].pc = "writePriv" /\ file' = [file EXCEPT !.priv = p]
    BY <2>1, <2>2, <2>6 DEF SetupInv, KeysInv, HasKey, Files
  <2> QED
    BY <1>1, <2>3, <2>4, <2>5, <2>6, GenerateKeysMoves DEF SetupInv
<1>2. CASE WriteTestFiles(p)
  <2>1. CASE IssueTokens(p)
    BY <2>1 DEF IssueTokens
  <2>2. CASE ~IssueTokens(p)
    BY <1>2, <2>2, WriteTestFilesMoves DEF SetupInv, SetupTypeOK, Files
  <2> QED
    BY <2>1, <2>2
<1>3. CASE ~GenerateKeys(p) /\ ~WriteTestFiles(p)
  BY <1>3
  DEF SetupStep, Start, Abort, MigrateLock, MigrateUp, MigrateBody, MigrateClean, StatPub,
      StatPriv, ReadKey, InsertUsers, CommitUsers
<1> QED
  BY <1>1, <1>2, <1>3

\* SetupInv is an invariant of the program setup, for any number of runs with
\* any flags, overlapping or not, killed or not.
THEOREM SetupInvariantHolds == SetupSpec => []SetupInv
<1>1. AloneInit => SetupInv
  BY SetupInvInit, TokenAssumption DEF AloneInit, TokenInit, TokenTypeOK
<1>2. SetupInv /\ [SetupNext]_<<setupvars, tokenvars>> => SetupInv'
  <2>1. SetupInv /\ UNCHANGED <<setupvars, tokenvars>> => TokenTypeOK'
    BY DEF SetupInv, TokenTypeOK, tokenvars
  <2> QED
    BY <2>1, SetupInvStep, SetupInvKept
<1> QED
  BY <1>1, <1>2, PTL DEF SetupSpec

\* No run works with a key, a list of users or a list of tokens that is not one,
\* whichever files were truncated.
THEOREM SetupTypeCorrect == SetupSpec => []SetupTypeOK
<1>1. SetupInv => SetupTypeOK
  BY DEF SetupInv
<1> QED
  BY <1>1, SetupInvariantHolds, PTL

\* A setup that exits with code 0 has migrated the database completely.
THEOREM OkIsMigrated == SetupSpec => []OkMeansMigrated
  BY SetupInvariantHolds, SetupInvImplies, PTL

\* The schema is dirty only under the lock of the run that migrates, or because a
\* run was killed.
THEOREM DirtyUnderLock == SetupSpec => []DirtyIsGuarded
  BY SetupInvariantHolds, SetupInvImplies, PTL

\* The test files hold users of the database and their tokens in the same order,
\* whatever overlapped or was killed.
THEOREM FilesOfOneBatch == SetupSpec => []TestFilesAgree
  BY SetupInvariantHolds, SetupInvImplies, PTL

=============================================================================
