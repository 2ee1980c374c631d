------------------------------- MODULE Setup -------------------------------
(***************************************************************************)
(* The program setup: runs with -app migrate the database and make the key *)
(* pair of the tokens, runs with -apptest make test users and their        *)
(* tokens.  What the runs share are the database and four files; a run may *)
(* be killed, or fail, between any two steps.                              *)
(***************************************************************************)
EXTENDS Token, Sequences

CONSTANTS
  Run,              \* runs of the program; a run also names the keys it makes
  AppRun, TestRun,  \* the runs with the flag -app, with the flag -apptest
  GivenKey,         \* key pairs that may be there before the first setup
  UserCount,        \* APPTEST_USER_COUNT
  Overlap,          \* may a run start before the others have ended?
  Faults,           \* may a run be killed, or one of its calls fail?
  NoRun, NoFile, Incomplete

VARIABLES
  schema,         \* "none", "dirty", "created" (dirty, with tables), "clean"
  migrationLock,  \* the run that holds the advisory lock of golang-migrate
  batches,        \* runs whose test users are committed
  inserting,      \* runs that have inserted test users, not yet committed
  file,           \* what the four files hold
  setup           \* what each run is at, and its local variables

setupvars == <<schema, migrationLock, batches, inserting, file, setup>>

TestUsers(p) == {p} \X (1..UserCount)

\* Test users in the order in which INSERT ... RETURNING gave them.
Order(p) ==
  {s \in [1..UserCount -> TestUsers(p)] : \A i, j \in 1..UserCount : s[i] = s[j] => i = j}

ASSUME SetupAssumption ==
  /\ AppRun \subseteq Run /\ TestRun \subseteq Run
  /\ Run \subseteq Key /\ GivenKey \subseteq Key
  /\ UserCount \in Nat \ {0}
  /\ \A p \in Run : TestUsers(p) \subseteq Subject
  /\ Overlap \in BOOLEAN /\ Faults \in BOOLEAN
  /\ NoRun \notin Run
  /\ NoFile \notin Key /\ Incomplete \notin Key /\ NoFile # Incomplete

Ended == {"ok", "failed", "killed"}
Running(p) == setup[p].pc \notin {"idle"} \cup Ended

AppPc == {"migrateLock", "migrateUp", "migrateBody", "migrateClean", "statPub",
          "statPriv", "createPub", "writePub", "createPriv", "writePriv"}
TestPc == {"readKey", "insertUsers", "commitUsers", "createUserFile",
           "writeUserFile", "issueTokens", "createTokenFile", "writeTokenFile"}

\* The key pairs of this deployment.
OwnKey == Run \cup GivenKey

\* What user.json and auth_token.json hold.
UserList == UNION {Order(p) : p \in Run}
TokenList == [1..UserCount -> Claims]

SetupState ==
  [pc        : {"idle"} \cup Ended \cup AppPc \cup TestPc,
   pubExists : BOOLEAN,
   key       : OwnKey \cup {NoRun},
   users     : UserList \cup {<<>>},
   tokens    : TokenList \cup {<<>>}]

Files ==
  LET missing == {NoFile, Incomplete}
  IN  [pub : OwnKey \cup missing, priv : OwnKey \cup missing,
       user : UserList \cup missing, token : TokenList \cup missing]

\* Every variable holds values of its type: whatever was truncated or killed, no
\* run works with a key, a list of users or a list of tokens that is not one.
SetupTypeOK ==
  /\ schema \in {"none", "dirty", "created", "clean"}
  /\ migrationLock \in Run \cup {NoRun}
  /\ batches \subseteq TestRun /\ inserting \subseteq TestRun
  /\ file \in Files
  /\ setup \in [Run -> SetupState]

\* A run that has not started, with the given pc.
Fresh(pc) ==
  [pc |-> pc, pubExists |-> FALSE, key |-> NoRun, users |-> <<>>, tokens |-> <<>>]

SetupInit ==
  /\ schema = "none"
  /\ migrationLock = NoRun
  /\ batches = {} /\ inserting = {}
  /\ \E k \in GivenKey \cup {NoFile} :
       file = [pub |-> k, priv |-> k, user |-> NoFile, token |-> NoFile]
  /\ setup = [p \in Run |-> Fresh("idle")]

-----------------------------------------------------------------------------
(* The end of a run *)

\* Mutant: the database does not notice that a client is gone.
CloseNothing(p) == UNCHANGED <<migrationLock, inserting>>

\* The connections of a run are closed: its lock is free and what it has not
\* committed is rolled back.
CloseConnections(p) ==
  /\ migrationLock' = IF migrationLock = p THEN NoRun ELSE migrationLock
  /\ inserting' = inserting \ {p}

Exit(p, code) ==
  /\ setup' = [setup EXCEPT ![p] = Fresh(code)]
  /\ CloseConnections(p)

\* A run is killed, or one of its calls returns an error (the wait for the
\* migration lock has a time limit, too).
Abort(p) ==
  /\ Faults
  /\ Running(p)
  /\ Exit(p, "killed")
  /\ UNCHANGED <<schema, batches, file, issued>>

-----------------------------------------------------------------------------
(* main *)

GoTo(p, pc) == setup' = [setup EXCEPT ![p].pc = pc]

\* SetupApp is done: -apptest, if that was asked for, too, or exit code 0.
AfterApp(p) ==
  IF p \in TestRun THEN GoTo(p, "readKey")
  ELSE setup' = [setup EXCEPT ![p] = Fresh("ok")]

\* The flags say what is done; without any of them (or without one of the
\* environment variables) the program fails.
Start(p) ==
  /\ setup[p].pc = "idle"
  /\ Overlap \/ \A q \in Run : ~Running(q)
  /\ GoTo(p, IF p \in AppRun THEN "migrateLock"
             ELSE IF p \in TestRun THEN "readKey" ELSE "failed")
  /\ UNCHANGED <<schema, migrationLock, batches, inserting, file, issued>>

-----------------------------------------------------------------------------
(* SetupPostgres: golang-migrate brings the database to version 0. *)

\* Mutant: the migrations run without the lock.
MigrateAtOnce(p) ==
  /\ setup[p].pc = "migrateLock"
  /\ migrationLock' = p
  /\ GoTo(p, "migrateUp")
  /\ UNCHANGED <<schema, batches, inserting, file, issued>>

MigrateLock(p) ==
  /\ setup[p].pc = "migrateLock"
  /\ migrationLock = NoRun
  /\ migrationLock' = p
  /\ GoTo(p, "migrateUp")
  /\ UNCHANGED <<schema, batches, inserting, file, issued>>

\* Mutant: the error of a dirty version is taken for ErrNoChange.
MigrateUpIgnoringDirty(p) ==
  /\ setup[p].pc = "migrateUp"
  /\ \/ /\ schema # "none"
        /\ migrationLock' = NoRun
        /\ GoTo(p, "statPub")
        /\ UNCHANGED <<schema, inserting>>
     \/ /\ schema = "none"
        /\ schema' = "dirty"
        /\ GoTo(p, "migrateBody")
        /\ UNCHANGED <<migrationLock, inserting>>
  /\ UNCHANGED <<batches, file, issued>>

\* Mutant: ErrNoChange is an error like any other.
MigrateUpOnce(p) ==
  /\ setup[p].pc = "migrateUp"
  /\ \/ schema # "none" /\ Exit(p, "failed") /\ UNCHANGED schema
     \/ /\ schema = "none"
        /\ schema' = "dirty"
        /\ GoTo(p, "migrateBody")
        /\ UNCHANGED <<migrationLock, inserting>>
  /\ UNCHANGED <<batches, file, issued>>

\* m.Up reads the version: dirty is an error, the latest one is ErrNoChange,
\* which SetupPostgres ignores; otherwise it sets the version, dirty.
MigrateUp(p) ==
  /\ setup[p].pc = "migrateUp"
  /\ \/ schema \in {"dirty", "created"} /\ Exit(p, "failed") /\ UNCHANGED schema
     \/ /\ schema = "clean"
        /\ migrationLock' = NoRun
        /\ GoTo(p, "statPub")
        /\ UNCHANGED <<schema, inserting>>
     \/ /\ schema = "none"
        /\ schema' = "dirty"
        /\ GoTo(p, "migrateBody")
        /\ UNCHANGED <<migrationLock, inserting>>
  /\ UNCHANGED <<batches, file, issued>>

\* 0_init.up.sql, one transaction.
MigrateBody(p) ==
  /\ setup[p].pc = "migrateBody"
  /\ schema' = "created"
  /\ GoTo(p, "migrateClean")
  /\ UNCHANGED <<migrationLock, batches, inserting, file, issued>>

\* The version is no longer dirty, the lock is given back.
MigrateClean(p) ==
  /\ setup[p].pc = "migrateClean"
  /\ schema' = "clean"
  /\ migrationLock' = NoRun
  /\ GoTo(p, "statPub")
  /\ UNCHANGED <<batches, inserting, file, issued>>

-----------------------------------------------------------------------------
(* SetupJWT *)

fileExists(name) == file[name] # NoFile

StatPub(p) ==
  /\ setup[p].pc = "statPub"
  /\ setup' = [setup EXCEPT ![p].pubExists = fileExists("pub"), ![p].pc = "statPriv"]
  /\ UNCHANGED <<schema, migrationLock, batches, inserting, file, issued>>

\* Mutant: the missing half is made where the other one is there.
StatPrivCompleting(p) ==
  LET privExists == fileExists("priv")
  IN  /\ setup[p].pc = "statPriv"
      /\ \/ setup[p].pubExists /\ privExists /\ AfterApp(p)
         \/ setup[p].pubExists /\ ~privExists /\ GoTo(p, "createPriv")
         \/ ~setup[p].pubExists /\ GoTo(p, "createPub")
      /\ UNCHANGED <<schema, migrationLock, batches, inserting, file, issued>>

\* Mutant: keys are made unless both are there.
StatPrivRegenerating(p) ==
  LET privExists == fileExists("priv")
  IN  /\ setup[p].pc = "statPriv"
      /\ \/ setup[p].pubExists /\ privExists /\ AfterApp(p)
         \/ ~(setup[p].pubExists /\ privExists) /\ GoTo(p, "createPub")
      /\ UNCHANGED <<schema, migrationLock, batches, inserting, file, issued>>

\* With both files there is nothing to do, with one of them the run fails.
StatPriv(p) ==
  LET privExists == fileExists("priv")
  IN  /\ setup[p].pc = "statPriv"
      /\ \/ /\ setup[p].pubExists /\ privExists
            /\ AfterApp(p)
            /\ UNCHANGED <<migrationLock, inserting>>
         \/ setup[p].pubExists # privExists /\ Exit(p, "failed")
         \/ /\ ~setup[p].pubExists /\ ~privExists
            /\ GoTo(p, "createPub")
            /\ UNCHANGED <<migrationLock, inserting>>
      /\ UNCHANGED <<schema, batches, file, issued>>

\* os.WriteFile and os.Create make a file, or truncate it, before a byte of it
\* is written.
CreateFile(p, name, from, to) ==
  /\ setup[p].pc = from
  /\ file' = [file EXCEPT ![name] = Incomplete]
  /\ GoTo(p, to)
  /\ UNCHANGED <<schema, migrationLock, batches, inserting, issued>>

WriteFile(p, name, data, from) ==
  /\ setup[p].pc = from
  /\ file' = [file EXCEPT ![name] = data]
  /\ UNCHANGED <<schema, migrationLock, batches, inserting, issued>>

\* The run's new key pair p goes into the two files, the public key first.
GenerateKeys(p) ==
  \/ CreateFile(p, "pub", "createPub", "writePub")
  \/ WriteFile(p, "pub", p, "writePub") /\ GoTo(p, "createPriv")
  \/ CreateFile(p, "priv", "createPriv", "writePriv")
  \/ WriteFile(p, "priv", p, "writePriv") /\ AfterApp(p)

-----------------------------------------------------------------------------
(* SetupApptest *)

\* Mutant: whatever a key file holds is taken for a key.
ReadFileUnchecked(name) == {file[name]} \ {NoFile}

\* ReadFileED25519PublicKey and ReadFileED25519PrivateKey: the key of a
\* complete file.
ReadFileED25519(name) == {file[name]} \ {NoFile, Incomplete}

ReadKey(p) ==
  /\ setup[p].pc = "readKey"
  /\ \/ /\ ReadFileED25519("priv") = {}
        /\ Exit(p, "failed")
     \/ \E k \in ReadFileED25519("priv") :
          /\ setup' = [setup EXCEPT ![p].key = k, ![p].pc = "insertUsers"]
          /\ UNCHANGED <<migrationLock, inserting>>
  /\ UNCHANGED <<schema, batches, file, issued>>

\* Mutant: nothing keeps a second user of one name out.
InsertAnyUsers(p) ==
  /\ setup[p].pc = "insertUsers"
  /\ \/ schema \in {"none", "dirty"} /\ Exit(p, "failed")
     \/ /\ schema \in {"created", "clean"}
        /\ inserting' = inserting \cup {p}
        /\ \E s \in Order(p) :
             setup' = [setup EXCEPT ![p].users = s, ![p].pc = "commitUsers"]
        /\ UNCHANGED migrationLock
  /\ UNCHANGED <<schema, batches, file, issued>>

\* DataCreator.CreateUsers up to its INSERT.  All runs use the names u0, u1, ...:
\* the unique index makes the INSERT wait for a transaction that has inserted
\* them, and fail (ErrExist) once they are committed.
InsertUsers(p) ==
  /\ setup[p].pc = "insertUsers"
  /\ \/ schema \in {"none", "dirty"} /\ Exit(p, "failed")
     \/ /\ schema \in {"created", "clean"} /\ inserting = {}
        /\ \/ batches # {} /\ Exit(p, "failed")
           \/ /\ batches = {}
              /\ inserting' = {p}
              /\ \E s \in Order(p) :
                   setup' = [setup EXCEPT ![p].users = s, ![p].pc = "commitUsers"]
              /\ UNCHANGED migrationLock
  /\ UNCHANGED <<schema, batches, file, issued>>

CommitUsers(p) ==
  /\ setup[p].pc = "commitUsers"
  /\ batches' = batches \cup {p}
  /\ inserting' = inserting \ {p}
  /\ GoTo(p, "createUserFile")
  /\ UNCHANGED <<schema, migrationLock, file, issued>>

\* GenerateAuthTokens.
IssueTokens(p) ==
  LET tokens == [i \in 1..UserCount |-> IssueToken(setup[p].users[i], setup[p].key)]
  IN  /\ setup[p].pc = "issueTokens"
      /\ setup' = [setup EXCEPT ![p].tokens = tokens, ![p].pc = "createTokenFile"]
      /\ issued' = issued \cup {[token |-> tokens[i], at |-> now] : i \in 1..UserCount}
      /\ UNCHANGED <<schema, migrationLock, batches, inserting, file>>

\* WriteFileJSON of the users, then of their tokens.
WriteTestFiles(p) ==
  \/ CreateFile(p, "user", "createUserFile", "writeUserFile")
  \/ WriteFile(p, "user", setup[p].users, "writeUserFile") /\ GoTo(p, "issueTokens")
  \/ IssueTokens(p)
  \/ CreateFile(p, "token", "createTokenFile", "writeTokenFile")
  \/ /\ WriteFile(p, "token", setup[p].tokens, "writeTokenFile")
     /\ setup' = [setup EXCEPT ![p] = Fresh("ok")]

-----------------------------------------------------------------------------

SetupStep(p) ==
  /\ \/ MigrateLock(p) \/ MigrateUp(p) \/ MigrateBody(p) \/ MigrateClean(p)
     \/ StatPub(p) \/ StatPriv(p) \/ GenerateKeys(p)
     \/ ReadKey(p) \/ InsertUsers(p) \/ CommitUsers(p) \/ WriteTestFiles(p)
  /\ UNCHANGED <<now, call>>

SetupNext ==
  \E p \in Run : \/ SetupStep(p)
                 \/ (Start(p) \/ Abort(p)) /\ UNCHANGED <<now, call>>

\* The program setup alone, without a server.
AloneInit == SetupInit /\ TokenInit

SetupSpec == AloneInit /\ [][SetupNext]_<<setupvars, tokenvars>>

\* A run that has started goes on when it can.
FairSetupSpec ==
  SetupSpec /\ \A p \in Run : WF_<<setupvars, tokenvars>>(SetupStep(p))

-----------------------------------------------------------------------------
(* Properties *)

\* A complete key file.
HasKey(f) == file[f] \in OwnKey

\* A setup that exited with code 0 has migrated the database completely,
\* whatever happened to runs before it: SetupPostgres fails on a version that
\* an interrupted migration left dirty, even if its tables are there.
OkMeansMigrated ==
  (\E p \in AppRun : setup[p].pc = "ok") => schema = "clean"

\* Nobody meets a half-migrated database while it is being migrated: the
\* version is dirty only under the lock of the run that migrates, or because
\* a run was killed.
DirtyIsGuarded ==
  schema \in {"dirty", "created"} =>
    \/ \E p \in Run : /\ setup[p].pc \in {"migrateBody", "migrateClean"}
                      /\ migrationLock = p
    \/ \E p \in Run : setup[p].pc = "killed"

\* The tokens correspond to the users by their index (GenerateAuthTokens), in
\* the files too: whatever overlapped or was killed, two complete files hold
\* users that are in the database and tokens of these users in this order.
TestFilesAgree ==
  file.user \notin {NoFile, Incomplete} /\ file.token \notin {NoFile, Incomplete} =>
    /\ \E p \in batches : file.user \in Order(p)
    /\ \A i \in 1..UserCount : file.token[i].sub = file.user[i]

\* If runs do not overlap, the two key files never hold halves of two pairs,
\* wherever the runs before were killed: SetupJWT makes keys only where there
\* are none and refuses to complete half of a pair.
KeyPairMatches ==
  ~Overlap /\ HasKey("pub") /\ HasKey("priv") =>
    file.pub = file.priv

\* A key that is in its file stays there: tokens that are out go on to be valid
\* after the program setup was run again.
KeysKept ==
  [][\A f \in {"pub", "priv"} :
       HasKey(f) => file'[f] = file[f]]_<<setupvars, tokenvars>>

\* The program setup is idempotent (README): when a run with -app has exited
\* with code 0 and none is running, the database is migrated and there is a key
\* pair that the server can read.
SetupIsIdempotent ==
  (\E p \in AppRun : setup[p].pc = "ok") /\ (\A p \in Run : ~Running(p)) =>
    schema = "clean" /\ HasKey("pub") /\ file.pub = file.priv

\* If no run was killed and runs do not overlap, setup can be run again and again:
\* it is idempotent and an -app run never fails, unless it was to make the test
\* users, too, and they have been made.
RerunsSucceed ==
  ~Overlap /\ (\A p \in Run : setup[p].pc # "killed") =>
    /\ SetupIsIdempotent
    /\ \A p \in AppRun : setup[p].pc = "failed" => batches # {}
    /\ \A p \in AppRun \ TestRun : setup[p].pc # "failed"

\* Every run that starts ends: no run waits forever for the migration lock or
\* for the test users of another, whoever was killed holding them.
EverySetupEnds ==
  \A p \in Run : Running(p) ~> setup[p].pc \in Ended

=============================================================================
