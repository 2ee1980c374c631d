# A TLA+ model of merch

Merch is a shop service written in Go: employees have an account of coins, send coins to each other
(`POST /api/sendCoin`), buy items (`GET /api/buy/{item}`), read a statement (`GET /api/info`), and
authenticate, which creates the account the first time (`POST /api/auth`). All state that matters is in
PostgreSQL; the server keeps none between requests. What is hard about it is therefore what happens when
handlers run concurrently on one pool of connections, when a client goes away in the middle of a
transaction, and when the process dies. Beside the server there is the program setup, which migrates the
database, makes the key pair of the tokens, and test users; it may be run again, killed, and run at the same time.

This directory holds the model, the TLC runs that check it on small instances, and TLAPS proofs of all its
safety properties for every number of users, requests, items, connections and setups. `PROJECT.json` lists the runs,
the mutants that show each property can fail, and the source lines behind every definition.

## 1. Inventory of the system

| Part | State | Operations | Hard about it | What makes it correct |
|---|---|---|---|---|
| Transfers: `cmd/server/send.go`, `internal/transfer` | rows of `users`, `transfers` | `PostAPISendCoin`, `TransferByUsername` | absolute balances are read, computed in Go and written back; two rows locked by one query; early returns after partial writes; COMMIT in doubt | no lost update, all or nothing, answers tell the truth, nobody waits for ever |
| Purchases: `cmd/server/buy.go`, `internal/purchase`, `internal/item` | rows of `users`, `purchases`; `items` is read-only | `GetAPIBuyItem`, `PurchaseByName` | as above, with one row | as above; coins are not spent twice |
| Authentication: `cmd/server/auth.go`, `internal/auth`, `internal/user` | rows of `users`; tokens in the hands of clients | `PostAPIAuth`, `AuthenticatePassword`, `CreateUser`, `IssueToken` | three separate statements; several first authentications of one name; an INSERT whose caller is gone | one account per name; tokens for accounts that exist; the password was checked |
| Statement: `cmd/server/info.go`, the getters | none | `GetAPIInfo` | three queries, no snapshot | the figures add up, apart from operations committed in between |
| Database: `0_init.up.sql`, `postgrespool.go`, PostgreSQL, pgx | tables, row locks, sessions, pool | BEGIN, SELECT ... FOR UPDATE, INSERT, UPDATE, COMMIT, ROLLBACK | lock waits, deadlock victims, orphaned backends, pool exhaustion, 32-bit columns | locks end with their transaction |
| Middleware and tokens: `cmd/server/auth.go`, `internal/auth/token*.go` | key pair, tokens in the hands of clients | `Authentication`, `IssueToken`, `AuthenticateToken` | expiry in whole seconds, two places that decide by route, restarts with other keys, tokens that outlive the database | a protected handler runs only for a user with a token of the last hour; a token is good until then, on every server |
| Password hashing: `internal/user/passwordhasher.go` | none | `Hash`, `Verify`, PHC format and parser | parameters that change between releases and are recovered from the string | `Verify` accepts exactly the hashed password |
| Setup program: `cmd/setup`, `internal/app/*setup.go` | key files, migration version, test users and their files | migrate, generate keys, create test users | crash between two files or between creating and writing one, concurrent setups, "It is idempotent." | a matching key pair that stays, a clean schema version, test files that agree, no run that waits for ever |
| Generated code, tests | none | | | |

How they interact: the router calls the middleware, the middleware the handler, the handler a service
object, the service the pool. Handlers share nothing in memory except the pool. They meet in the database:
through row locks on `users` (transfers and purchases), through the unique index on `users.username`
(authentications), and through connections of the pool (all of them). Setup and server meet in the database and in
the two key files, which setup writes and the server reads when it starts.

The hazards that follow from this are listed in `PROJECT.json` under `hazards`, each with its line and the
properties that would catch it.

## 2. Modules

```
Postgres            tables, pool, sessions, row locks
  Transfer          POST /api/sendCoin
  Purchase          GET /api/buy/{item}
  Auth              POST /api/auth, tokens
  Info              GET /api/info
Server              all of them together, crash, fairness, the properties
Shop                abstract specification: coins, accounts, ledger rows
ServerInvariant     the inductive invariants of Server
DatabaseProofs      lemmas about the operations of Postgres
ServerProofs        types, fresh balances, refinement of Shop
LedgerProofs        the balances and the statements add up
AnswerProofs        answers, accounts and tokens
LockProofs          row locks and who can be in a deadlock
Token               issuing and checking tokens, middleware, router, the clock
  Setup             runs of the program setup
    Deployment      the server process beside them
SetupInvariant      the inductive invariant of Setup
  SetupProofs       its theorems
DeploymentInvariant the inductive invariant of Deployment
  DeploymentProofs  its theorems
PasswordHasher      stored password hashes
  PasswordHasherProofs
MCServer, MCSetup, MCDeployment, MCPasswordHasher
                    values of constants for TLC
```

**Postgres.** `users`, `transfers` and `purchases` are the committed rows. `tx[r]` is the backend session of
request `r`: what it has written so far, the rows `FOR UPDATE` still has to lock and the row its scan is at.
`locks[u]` is the request that holds the row lock of `u`. Isolation is READ COMMITTED, the default, which the
code does not change; since every row a transaction reads and writes is locked first and read after that, a
committed value is what it sees. A scan meets rows in one of the orders of `ScanOrders`: the query has no
ORDER BY, so every run lets each scan choose any order. Only a cycle of waiting
transactions produces a deadlock error. `PoolFree` counts sessions owned by handlers; a statement outside a
transaction needs a free connection for its own duration.
A session passes from "open" to "aborting" or "committing" when its connection is closed under it: pgx closes
the connection when the context of a call is cancelled, when the connection breaks, and when a rollback fails.
The backend then still holds its locks until it notices; if COMMIT had been sent it may execute it.
Connections that are closed no longer count against the pool.

**Transfer, Purchase, Auth, Info.** A handler is a record with a program counter and the local variables of the
Go function. An action is the code between two round trips to the database, with the round trip at its end or
beginning: for instance `CheckBalance` is the return of `getUsersByIDsForUpdate`, the check that both rows are
there, the subtraction, the test for a negative balance and the addition. Every early return is a disjunct; those
inside the transaction include the deferred rollback (`SendFail`, `BuyFail`), which may itself fail. The outcome
names the answer: `"ok"` 200, `"badRequest"`, `"dstUserNotFound"`, `"srcAndDstEqual"`, `"itemNotExist"`,
`"notEnough"` 400, `"unauthorized"` 401, `"internal"` 500, and `"lost"` when the process died. `CancelSend`,
`CancelBuy`, `CancelAuth` and `CancelInfo` are the error returns of whichever database call the handler is in.
The row a request inserts carries the id of the request, so that a property can tell whose row it is.

**Server** runs all requests concurrently. The middleware passes on the subject of a token; `tokens` holds the
subjects of the tokens that are out, at first those `setup -apptest` issued and those issued for an earlier
database (`StaleTokens`). `Crash` ends every handler and closes every connection; the server then goes on with
the requests that have not arrived yet.

**Token.** A token is its claims and the key pair it was signed with; it verifies with that pair only. Time is in
ticks, of which a second has several, so that rounding shows. `ServeHTTP` is the middleware `Authentication`: an
exempt request is dispatched without a user, another one needs a header with a token that is accepted. `Dispatch` is the
router, with the patterns of the generated code (those for GET also take HEAD). `call` remembers the latest request.

**Setup.** Each run `p` of the program is a process. Its steps are what others can see: taking the migration lock,
setting the version dirty, the migration itself, clearing the flag, each `os.Stat`, creating (or truncating) and then
writing each file, the INSERT and the COMMIT of the test users, the signing of their tokens. `schema` is the version
table and the tables together: `"dirty"` before and `"created"` after the SQL file was executed. A file is missing,
incomplete, or holds what was written last. `Abort` ends a run at any point, as a kill or the error of any
call does; its connections are closed, so that its advisory lock is free and its transaction is rolled back. `Overlap`
says whether runs may be under way at the same time, `Faults` whether they may be aborted. Keys may be given by the
operator before the first run (`GivenKey`). golang-migrate is external and modelled from its use: lock, read the
version, error if dirty, set it dirty, run the file, clear it, unlock.

**Deployment** adds the server process, which reads the public and then the private key, ends if one cannot be read,
keeps them while it is up, and may be stopped at any time, and the requests it gets. `IssueForLogin` is the end of
`PostAPIAuth`; how a password is checked is the matter of `Auth`. `OldToken` are tokens from a deployment whose data
were deleted (the README of the repository recommends that between tests).

**PasswordHasher.** A stored string is its five fields. The format writes memory, time and parallelism and not the lengths of
salt and hash, which the parser takes from the decoded bytes. `NewPasswordHasher` is a release with other parameters.
`Auth` abstracts from all of it: `PasswordsKeepWorking` says that a stored hash may stand for its password.

**Shop** is the abstract specification: accounts, transfers and purchases, each taking effect in one step and only
when the coins are there. `RefinesShop` instantiates it with the committed rows.

## 3. Properties and runs

| Run | Instance | Properties | States |
|---|---|---|---|
| `transfers` | 2 transfers, 2 accounts and a token without one, all bodies (empty and unknown names, amounts 0, 1, 3), any scan order, MaxInt32 = 3 | `TypeOK` `FreshBalances` `LedgerBalances` `AnswersInv` `AnswersMatchLedger` `RefinesShop` | 65,593 |
| `checkout` | 2 purchases, 2 items, an unknown and an empty item, a token without account | `FreshBalances` `AnswersMatchLedger` `RefinesShop` | 26,640 |
| `statement` | 1 transfer, 1 purchase, 1 statement | `Inv` `InfoTypeOK` `LedgerInv` `InfoInv` `InfoAddsUp` `RefinesShop` | 166,026 |
| `first_auth` | 3 authentications, 3 names, 2 passwords | `OneAccountPerName` `TokensHaveAccounts` `AccountsHaveOwners` `AccountsKept` | 64,610 |
| `progress` | 2 transfers, 1 statement, any scan order, 2 connections | `EveryRequestAnswered` `LocksReleased` | 118,849 |
| `histories` | 2 transfers, 2 statements, any scan order, 2 connections | `DeadlockVictims` `InfoInv` `HistoriesAgree` | 1,844,781 |
| `one_connection` | 1 transfer, 1 purchase, 1 first authentication, 1 connection | `LedgerBalances` `EveryRequestAnswered` | 58,309 |
| `passwords` | 2 accounts, 2 passwords, 32 sets of parameters | `PasswordsKeepWorking` | 135,200 |
| `deployment` | 2 setups (`-app`; `-app -apptest`) not overlapping, killed anywhere; a server; 5 routes and an unknown path, 3 methods; an hour of 4 ticks, a second of 2, 5 ticks | `DeploymentInv` `DeploymentTypeOK` `RerunsSucceed` `KeyPairMatches` `CallsAreAuthentic` `TokensOutliveRestarts` `KeysKept` | 1,167,290 |
| `setups` | 4 overlapping setups (`-app`; `-app -apptest`; `-apptest`; no flag), killed anywhere, 2 test users | `SetupInv` `SetupTypeOK` `OkMeansMigrated` `DirtyIsGuarded` `TestFilesAgree` `EverySetupEnds` | 20,482 |
| `raced_password` | 2 authentications | `TokenNeedsPassword`, violated | |
| `interrupted_setup` | 2 `-app` setups, one killed | `SetupIsIdempotent`, violated | |

- `FreshBalances`: from the balance check to the end of the transaction, a handler holds the locks of the rows it
  has read and the committed balances are still the ones it computed from. It also holds for a transaction whose
  handler is gone and whose COMMIT is in doubt.
- `LedgerBalances`: every balance is the default balance plus received minus sent minus spent.
- `AnswersMatchLedger`: 200 means the row asked for is there, 400 means it is not and never will be, a request has at
  most one row, and only after 500 or a lost answer the client cannot know.
- `RefinesShop`: all of it is one `Shop` step at a time.
- `InfoTypeOK`: what a statement has collected is well formed at every point of its handler.
- `InfoAddsUp`: a statement's coins are what its lists say, plus whole operations that committed after the list was
  read. The three queries are read in the order purchases, transfers, balance, so the balance can be ahead of
  the lists and never behind.
- `OneAccountPerName`, `TokensHaveAccounts`: the race of first authentications.
- `AccountsHaveOwners`: an account that was not there at first has the password of a caller who asked for its name and who got a
  token for it, or was answered 500 or not at all. A caller who was told 400 or 401 has created nothing, and no INSERT of it is
  executed later. It does not say that every token was given for the password, see `TokenNeedsPassword`.
- `AccountsKept`, an action property: whoever comes later to a name, having lost the race or by an INSERT left behind, changes neither the
  password nor anything else of the account but its balance.
- `DeadlockVictims`: transfers do deadlock. The query that locks two rows has no ORDER BY, and TLC finds cycles in every run with two
  transfers. Whoever is in one is a transfer whose handler still waits for its SELECT and gets the error, which holds one of its two
  accounts, waits for the other one and has written nothing. PostgreSQL may choose any of them, nothing is undone, and a row becomes free. Purchases
  lock one row and are in no cycle, so `Purchase` has no deadlock error; that part is vacuous in the run, which has no purchase, and is what the theorem
  adds. That the others then go on, and the victim is answered, is `EveryRequestAnswered` in `progress`.
- `EveryRequestAnswered`, `LocksReleased`: liveness.
- `HistoriesAgree`: of two statements of a user, one lists everything the other does, in the same order. It does not say that
  the later one only adds at the end: `created_at` is the time of BEGIN, so a transfer that waited for a lock
  is inserted before transfers that a reader has already seen.
- `KeyPairMatches`, `KeysKept`, `TokensOutliveRestarts`: as long as setups do not overlap, the key files never hold halves of two
  pairs and a key is never replaced, wherever runs are killed; so a token is good for its hour (less the second
  its dates are rounded by) on every server started since. With overlapping setups TLC finds both runs ending with code 0 and a
  pair that does not match; nothing in the repository says that setups may overlap.
- `CallsAreAuthentic`: a protected handler, which panics without a user, runs only for the subject of a token that this deployment
  issued less than an hour before. Middleware and router decide by method and path independently of each other.
- `OkMeansMigrated`, `DirtyIsGuarded`: exit code 0 of an `-app` run means a complete migration, also after interrupted ones; a
  half-done migration is seen by nobody as long as the run that does it lives.
- `TestFilesAgree`: the users of `user.json` are in the database and `auth_token.json` has their tokens, by index, although
  runs overlap or die between the COMMIT and the files.
- `EverySetupEnds`: liveness of setups.
- `RerunsSucceed`: as long as no run was killed, and runs do not overlap, setup is idempotent and an `-app` run does not fail.
- `SetupIsIdempotent` does not hold when a run may be killed:
  `os.WriteFile` creates the private key file before it writes it, and later runs take two files for a pair
  (`jwtsetup.go:23`) and exit with code 0. The repository's `README.md:51` says that setup is idempotent.
- `PasswordsKeepWorking`: described with its module.
- `Inv`, `LedgerInv`, `InfoInv`, `AnswersInv`, `SetupInv`, `DeploymentInv`: the inductive invariants of the
  proofs, section 4.
- `TokenNeedsPassword` does not hold. A caller that loses the race to create an account gets it without its password
  being verified (`passwordauthenticator.go:54`). `passwordauthenticator_test.go:64` expects a different password
  to be refused, and reaches only the sequential case.

**Bounds.** Each request is one handler and there are two or three of them, since every race here is between two
transactions, or two and a third party waiting for what they hold. Balances and amounts are small and chosen so that
the cases happen: the default balance covers one operation and not always two, `MaxInt32` is small enough that a
recipient's balance overflows its column in `transfers`, and `PoolSize` is at or below the number of handlers in the
liveness runs. `clock` grows with the number of requests and needs no bound. No symmetry is used.

Setups are bounded by their number: two in `deployment`, since one interrupted run and one after it meet every combination of
files that runs leave, four in `setups`, one for each combination of flags. `MaxTime` lets a token
expire while the clock still runs, `MaxIssued` stops logins (test tokens are issued all the same). Server restarts and
requests are not bounded. In `setups` the clock stands still.
The runs of setups and deployments switch deadlock checking off, since all runs may have ended.

**Fairness.** Weak fairness for the steps of each handler: a goroutine that can run does, and a database call that can
return does. In particular a scan that waits for a lock goes on once the lock stays free, and a deadlock is detected.
Weak fairness for the backends of closed connections: PostgreSQL notices the closed socket and ends the
session. None for arrivals, cancellations, or crashes. In `setups`, weak fairness for the steps of a run that has started; PostgreSQL
ends the session of a run that is gone (`CloseConnections`), which is what frees its lock. None for starts and kills. Weak fairness is enough because the pool and the locks are
contended by a finite number of requests; it does not claim that a handler is served under an endless stream of
new ones.

## 4. Proofs

The theorems hold for all values of the constants that satisfy the named assumptions of the modules (for the server
`ConstantsAssumption`, `ScanAssumption`, `SeedAssumption`, `SendAssumption`, `BuyAssumption`, `AuthAssumption`,
`RequestAssumption`; for setups and tokens those of `Token`, `Setup` and `Deployment`), which say what the constants are
and nothing about behaviour. TLC evaluates them in the runs.

| Module | Theorem | States |
|---|---|---|
| `ServerProofs` | `InvariantHolds` | `Spec => []Inv` |
| | `TypeCorrect` | `Spec => []TypeOK` |
| | `BalancesStayFresh` | `Spec => []FreshBalances` |
| | `ImplementsShop` | `Spec => RefinesShop` |
| `LedgerProofs` | `LedgerInvariantHolds` | `Spec => []LedgerInv` |
| | `CoinsAccountedFor` | `Spec => []LedgerBalances` |
| | `InfoInvariantHolds` | `Spec => []InfoInv` |
| | `StatementsWellFormed` | `Spec => []InfoTypeOK` |
| | `StatementsAddUp` | `Spec => []InfoAddsUp` |
| | `StatementsTellOneHistory` | `Spec => []HistoriesAgree` |
| `AnswerProofs` | `AccountInvariantHolds` | `Spec => []AccountInv` |
| | `NamesAreUnique` | `Spec => []OneAccountPerName` |
| | `TokensAreForAccounts` | `Spec => []TokensHaveAccounts` |
| | `AccountsAreOwned` | `Spec => []AccountsHaveOwners` |
| | `AccountsStayTheSame` | `Spec => AccountsKept` |
| | `AnswersInvariantHolds` | `Spec => []AnswersInv` |
| | `AnswersAreTrue` | `Spec => []AnswersMatchLedger` |
| `LockProofs` | `LockInvariantHolds` | `Spec => []LockInv` |
| | `VictimsLoseNothing` | `Spec => []DeadlockVictims` |
| `SetupProofs` | `SetupInvariantHolds` | `SetupSpec => []SetupInv` |
| | `SetupTypeCorrect` | `SetupSpec => []SetupTypeOK` |
| | `OkIsMigrated` | `SetupSpec => []OkMeansMigrated` |
| | `DirtyUnderLock` | `SetupSpec => []DirtyIsGuarded` |
| | `FilesOfOneBatch` | `SetupSpec => []TestFilesAgree` |
| `DeploymentProofs` | `DeploymentInvariantHolds` | `Spec => []DeploymentInv` |
| | `DeploymentTypeCorrect` | `Spec => []DeploymentTypeOK` |
| | `ProtectedCallsAreAuthentic` | `Spec => []CallsAreAuthentic` |
| | `TokensStayGood` | `Spec => []TokensOutliveRestarts` |
| | `KeyFilesMatch` | `Spec => []KeyPairMatches` |
| | `SetupsRerun` | `Spec => []RerunsSucceed` |
| | `KeysStay` | if setups do not overlap, `Spec => KeysKept` |
| `PasswordHasherProofs` | `PasswordsAlwaysWork` | `HasherSpec => []PasswordsKeepWorking` |

Hypotheses that are not about types are the ones the properties have in the runs, too. `KeysStay` assumes `~Overlap`, which
the other properties of keys have as a premise of their own. Everything about
the server is proved for scans that meet the rows in any order.

**The server.** `TypeOK` and `FreshBalances` are not inductive. That a committed balance keeps its type depends on what COMMIT
copies from the session, and that a computed balance stays right depends on other sessions staging balances only for rows
they have locked. `Inv` (module `ServerInvariant`) says so:
- `DBInv`: locks are on rows that exist; each session inserts rows with its own id and stages balances only for rows
  it has locked.
- `SendInv`, `BuyInv`: for each place of the handler, the status of its session and exactly what it has staged
  (`NothingStaged`, then the ledger row, then one balance, then both), the values it holds (`SendFresh`,
  `BuyFresh`), and that the request has no committed row before it is through.
- `AuthInv`: an authentication past validation, or its orphaned INSERT, has a username and a password.

`DatabaseProofs` proves once what each database operation does to `DBInv` and that it leaves other requests
untouched (`Untouched`: same session, same locks, same committed values of the rows they have locked).
`ServerProofs` then has one lemma per action. The heart of it is that a COMMIT of `r` changes balances of rows locked by
`r` only, hence none that another request relies on. For the refinement, a COMMIT maps to `Shop!Transfer` or
`Shop!Purchase` (also when executed for a handler that is gone), an INSERT into `users` to `Shop!Open`, and everything
else leaves the view unchanged.

The other results about the server stand on `Inv` and on two lemmas: `TablesStep`, a step leaves the tables as they are,
commits one transfer or purchase with the effect of `CommitTransferEffect` or `CommitPurchaseEffect`, or inserts an account; and
`SessionsStay`, a step that is not of request `q` leaves the session and handler of `q` alone (`Alone`).

*Ledger.* A COMMIT adds one row and moves the balances by its amount, so all that is to be shown is that `Amounts` of a set with
one more row is larger by that row. `Amounts` is a fold of the community modules with a CHOOSE in it, and the installed
provers cannot use an induction theorem that takes an operator. Instead `SmallestNat` and `SmallestSet` (from the
well-foundedness of `<` on the naturals) give a finite set of least cardinality for which the sum would depend on the
order of its elements, and there is none. `LedgerInv` adds the foreign keys to `LedgerBalances`: a new account has no
rows, so its sums are 0 and its balance is the default.

*Statements.* A handler of `/api/info` keeps what it has read while others commit, so `InfoAddsUp` and `HistoriesAgree` need to know at
every place of the handler how that relates to the tables. `InfoInv` says so:
- `RowsInv`, about the rows: no two transfers have the same `created_at`, which in turn needs that no two open sessions
  have, and none the time of a committed row (`TimesStep`: only BEGIN takes a time, and a new one; `CommitRows`: COMMIT hands it
  on to the row); a request buys once, at the price of the item;
- `StatementInv`: the counts are those of some purchases `B` of the user, and the list is sorted and of transfers of the user;
- `ListsInv`: of two lists of one user, one contains the other.

The tables only grow, which keeps all of this for the statements a step does not touch (`RightStays`, `AddsUpStays`). Three facts about
the queries carry the rest. `ListOfTransfers`: a finite set of rows with different times has a sorted list, in which each row is at
the place that the number of rows not later than it gives (`SortedListExists`; no induction is needed), so ORDER BY returns
all the rows selected, in order. `InventoryCost`: `count(*)` per item times the price of the item is the sum of what was paid, by
a smallest set of purchases for which it would not be. `StatementAddsUp`: when the balance is read, the transfers not in the list and the
purchases not counted are exactly what the ledger has and the lists have not. Two sorted lists agree on the order of what they have in
common because the times tell it (`PlaceByTime`).

*Accounts.* `AccountInv` adds to `OneAccountPerName` and `TokensHaveAccounts` that a handler has answered nothing before it is through. Names stay
unique because INSERT takes effect only if the name is free, and an answer stays true because no step changes or removes an account
(`AccountsStay`, which also is `AccountsKept`). `AccountsHaveOwners` is not inductive: an INSERT that is still to be executed could be one of a
caller that was refused. `OwnerInv` adds that only a caller answered 500 or not at all has left one behind; what a caller was told stays
(`AnswersStay`), and `TablesChange` says that an account is created for a caller that gets its token in the same step, or by an INSERT left behind.

*Answers.* `AnswersMatchLedger` is not inductive: an answer could be made false later by the session that the handler left behind.
`AnswersInv` says that a session with a COMMIT in doubt is left only after 500 or a crash, that a row is there only with 200, 500
or a lost answer, and that the recipient is still the account of the name asked for. A rolled-back session can never commit, so a
4xx answer is final.

*Locks.* `LockInv` says of each session (`ScanInv`) that it holds nothing before its SELECT and after its end, and, while it waits for a row, that its handler
is in the SELECT, that all it has locked and still wants are rows this SELECT is for, and that it has locked none of those it wants.
The order in which rows are met does not matter. Someone in a cycle waits for one row and holds another that somebody waits for, so its SELECT
is for two: it is a transfer, these are its accounts, and `SendInv` says that nothing is written there yet. Any number of sessions is covered, not only pairs.

**Setups.** `SetupInv` (module `SetupInvariant`) has, for each place of a run, what it may rely on:
- `LocalsInv`: the key, users and tokens in its variables;
- `MigrationInv`: only the holder of the lock is in the migration, the schema is as dirty as that run has made it, and
  clean behind it. `OkMeansMigrated` is not inductive without the places between the migration and the exit;
- `TestUsersInv`: at most one set of test users, staged or committed, and only its run writes the two files. This is the unique index
  at work: a second INSERT waits for the first transaction and then fails;
- `KeysInv`, for runs that do not overlap: what `os.Stat` found is still so when the files are written;
- `RerunsInv`, for runs that neither overlap nor are killed: both key files are complete or both missing, but for the run
  that makes them.

**Deployment.** `DeploymentInv` adds that a server and a token have no key that is not in the files (`FileKeysInv`, without
overlap) and that a token lasts an hour less at most a second (`LifetimeInv`). A step of a setup keeps both because
`KeysInv` says that it writes a key only where none was. `CallsAreAuthentic` also needs that the routes the middleware exempts are
just those whose handler needs no user, for every method and path, which is a case split over the patterns.

**Password hashes.** `HasherInv`: a stored string was formatted from the account's password with some parameters in use once. The lemma
`ParseStored` says that the parser recovers all of them, so that `Verify` computes the same hash again.

TLC checks these invariants as invariants of runs (`Inv`, `LedgerInv` and `InfoInv` in `statement`, `InfoInv` again in `histories` with two statements, `AnswersInv` in `transfers`,
`SetupInv` in `setups`, `DeploymentInv` in `deployment`). `AccountInv`, `OwnerInv` and `LockInv` add little but bookkeeping to the properties they imply, and are
in no run.

**Only model-checked:** liveness (`EveryRequestAnswered`, `LocksReleased`, `EverySetupEnds`), which is out of the prover's reach. Every
other property that a passing run checks is stated by a theorem.

The two properties that do not hold, `TokenNeedsPassword` and `SetupIsIdempotent`, have no theorem; `RerunsSucceed` is what is left of
the second one.

## 5. What is left out

- Usernames, passwords and items are values of small sets; JSON, HTTP headers and the wording of errors are not modelled.
  A body that cannot be decoded is answered 400 before the handler runs and changes nothing.
- In `Server`, `PasswordHash` records which password a hash is of; `PasswordHasher` says why that is enough. Failures of the
  random source are not modelled.
- In `Server`, tokens do not expire, and a request the middleware turns away with 401 changes nothing and is left out; both are in
  `Token` and `Deployment`.
- Tokens that were not made by `IssueToken` are refused, as everything without a valid signature is; the checks of
  `AuthenticateToken` for missing claims have nothing to refuse then. Clocks of setup and server are one clock.
- A file is written by one write; what is on the disk after a power failure, permissions and `MkdirAll` are left out. Two runs
  write the same number of bytes, so the last write wins.
- The time limit of the wait for the migration lock (15 seconds) is one of the ways in which `Abort` ends a run. That a client registers
  one of the test usernames before `setup -apptest` is not modelled: the run then fails as if the users were there.
- Two transactions never begin at the same microsecond: `created_at` decides the order of the history and the tie-break
  by `id` is not used.
- A backend whose connection is closed while it waits for a lock stops waiting at once.
- The error return of the second `GetUserByUsername` when the user is gone cannot happen, since no code deletes users.
- INSERTs take key-share locks on the referenced users and items; the users are locked by the same transaction already and
  key-share locks do not conflict with each other, so they are omitted.
- JSON coding in the generated server code, the generated HTTP client, and the end-to-end and load tests: see `components` in
  `PROJECT.json`.

## 6. Plan

1. `Postgres`, `Transfer`, `Purchase`, `Auth`, `Info`, `Server`, `Shop` and their runs: done.
2. `ServerInvariant`, `DatabaseProofs`, `ServerProofs`: type correctness, fresh balances and the refinement: done.
3. `Token`, `Setup`, `Deployment`: tokens, keys, migration and test users with crashes and overlapping runs: done.
4. `PasswordHasher`, `HistoriesAgree`: done.
5. Theorems about the ledger, the answers, accounts, locks, setups, deployments and password hashes: done.
6. The statement of `/api/info`: `InfoInv` and the theorems about `InfoTypeOK`, `InfoAddsUp` and `HistoriesAgree`: done.

## 7. Running it

```
tlc -config Transfers.cfg MCServer
tlc -config Setups.cfg MCSetup
for m in ServerProofs LedgerProofs AnswerProofs LockProofs SetupProofs DeploymentProofs \
         PasswordHasherProofs; do tlapm $m.tla; done
```
