--------------------------- MODULE SetupInvariant ---------------------------
(***************************************************************************)
(* The inductive invariant of the program setup: what each run knows about *)
(* the database, the files and its own variables at the step it is at.     *)
(***************************************************************************)
EXTENDS Setup

\* The steps under the migration lock, and the steps of SetupJWT behind them.
MigratePc == {"migrateUp", "migrateBody", "migrateClean"}
KeyPc == {"statPub", "statPriv", "createPub", "writePub", "createPriv", "writePriv"}

\* The steps of SetupApptest at which a run has a key, its users, its users in the
\* database, the file of them, its tokens.
WithKey == TestPc \ {"readKey"}
WithUsers == WithKey \ {"insertUsers"}
Committed == WithUsers \ {"commitUsers"}
WithUserFile == {"issueTokens", "createTokenFile", "writeTokenFile"}
WithTokens == {"createTokenFile", "writeTokenFile"}

\* The local variables of a run: what has been read or made is there.
LocalsInv ==
  \A p \in Run :
    /\ setup[p].pc \in AppPc => p \in AppRun
    /\ setup[p].pc \in TestPc => p \in TestRun
    /\ setup[p].pc \in WithKey => setup[p].key \in OwnKey
    /\ setup[p].pc \in WithUsers => setup[p].users \in Order(p)
    /\ setup[p].pc \in WithTokens =>
         /\ setup[p].tokens \in TokenList
         /\ \A i \in 1..UserCount : setup[p].tokens[i].sub = setup[p].users[i]

\* The runs whose SetupPostgres has returned without an error.
Migrated(p) ==
  \/ setup[p].pc \in KeyPc
  \/ p \in AppRun /\ setup[p].pc \in TestPc \cup {"ok"}

\* The schema is as dirty as the run under the lock has made it, and clean for
\* every run behind its migration.
MigrationInv ==
  /\ \A p \in Run :
       /\ setup[p].pc \in MigratePc => migrationLock = p
       /\ setup[p].pc = "migrateBody" => schema = "dirty"
       /\ setup[p].pc = "migrateClean" => schema = "created"
       /\ Migrated(p) => schema = "clean"
  /\ DirtyIsGuarded

\* There is at most one set of test users, committed or not; it is the only one
\* whose run writes the two test files.
TestUsersInv ==
  /\ \A p \in Run :
       /\ p \in inserting => setup[p].pc = "commitUsers"
       /\ setup[p].pc = "commitUsers" => inserting = {p} /\ batches = {}
       /\ setup[p].pc \in Committed => batches = {p}
       /\ setup[p].pc \in Committed \ {"writeTokenFile"} => file.token = NoFile
       /\ setup[p].pc \in WithUserFile => file.user = setup[p].users
  /\ batches = {} => file.user = NoFile /\ file.token = NoFile
  /\ file.user \notin {NoFile, Incomplete} => \E p \in batches : file.user \in Order(p)
  /\ file.token \notin {NoFile, Incomplete} =>
       /\ \E p \in batches : file.user \in Order(p)
       /\ \A i \in 1..UserCount : file.token[i].sub = file.user[i]

\* What SetupJWT has found out about the key files is true until it writes them,
\* and what it has written stays until it ends, if no other run is about.
KeysInv ==
  ~Overlap =>
    /\ \A p, q \in Run : Running(p) /\ Running(q) => p = q
    /\ \A p \in Run :
         /\ setup[p].pc = "statPriv" => (setup[p].pubExists <=> file.pub # NoFile)
         /\ setup[p].pc = "createPub" => file.pub = NoFile
         /\ setup[p].pc = "writePub" => file.pub = Incomplete
         /\ setup[p].pc \in {"createPub", "writePub", "createPriv"} => file.priv = NoFile
         /\ setup[p].pc \in {"createPriv", "writePriv"} => file.pub = p
         /\ setup[p].pc = "writePriv" => file.priv = Incomplete
         /\ setup[p].pc \in WithKey => setup[p].key = file.priv
    /\ HasKey("priv") => file.pub = file.priv

\* Where no run was killed the key files are both there or both missing, but for
\* the run that makes them; every -app run behind SetupJWT has left both.
RerunsInv ==
  ~Overlap /\ (\A p \in Run : setup[p].pc # "killed") =>
    /\ \/ file.pub = NoFile /\ file.priv = NoFile
       \/ HasKey("pub") /\ HasKey("priv")
       \/ \E p \in Run : setup[p].pc \in {"writePub", "createPriv", "writePriv"}
    /\ \A p \in AppRun :
         /\ setup[p].pc \in TestPc \cup {"ok"} => HasKey("pub") /\ HasKey("priv")
         /\ setup[p].pc = "failed" => p \in TestRun /\ batches # {}

\* The inductive invariant of the program setup.
SetupInv ==
  /\ TokenTypeOK
  /\ SetupTypeOK
  /\ LocalsInv
  /\ MigrationInv
  /\ TestUsersInv
  /\ KeysInv
  /\ RerunsInv

=============================================================================
