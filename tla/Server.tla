------------------------------- MODULE Server -------------------------------
(***************************************************************************)
(* The HTTP server: the handlers of all requests run concurrently on one   *)
(* pool and one database.  The Authentication middleware lets a request to *)
(* a protected route through with the subject of a token that is out.      *)
(***************************************************************************)
EXTENDS Transfer, Purchase, Auth, Info

ASSUME RequestAssumption ==
  /\ Request = SendRequest \cup BuyRequest
  /\ SendRequest \cap BuyRequest = {}
  /\ IsFiniteSet(Request)

vars == <<dbvars, send, buy, auth, tokens, info>>

Init == DBInit /\ SendInit /\ BuyInit /\ AuthInit /\ InfoInit

-----------------------------------------------------------------------------

\* Which variables a component's actions leave alone.
OnlySend == UNCHANGED <<buy, auth, tokens, info>>
OnlyBuy  == UNCHANGED <<send, auth, tokens, info>>
OnlyAuth == UNCHANGED <<send, buy, info>>
OnlyInfo == UNCHANGED <<send, buy, auth, tokens>>
OnlyDB   == UNCHANGED <<send, buy, auth, tokens, info>>

\* The backends of closed connections.
OrphanStep(r) == (OrphanRollback(r) \/ OrphanCommit(r)) /\ OnlyDB

\* The server process dies and is started again: every handler is gone and
\* every connection is closed.
Crash ==
  LET committing(r) == \/ r \in SendRequest /\ send[r].pc = "commit"
                       \/ r \in BuyRequest /\ buy[r].pc = "commit"
  IN  /\ \/ \E r \in SendRequest : SendInFlight(r)
         \/ \E r \in BuyRequest : BuyInFlight(r)
         \/ \E r \in AuthRequest : AuthInFlight(r)
         \/ \E r \in InfoRequest : InfoInFlight(r)
      /\ tx' = [r \in Request |->
                  IF tx[r].status = "open"
                  THEN [tx[r] EXCEPT
                          !.status = IF committing(r) THEN "committing" ELSE "aborting",
                          !.want = {}, !.at = NoUser]
                  ELSE tx[r]]
      /\ send' = [r \in SendRequest |->
                    IF SendInFlight(r)
                    THEN [send[r] EXCEPT !.pc = "done", !.resp = "lost"] ELSE send[r]]
      /\ buy' = [r \in BuyRequest |->
                   IF BuyInFlight(r)
                   THEN [buy[r] EXCEPT !.pc = "done", !.resp = "lost"] ELSE buy[r]]
      /\ auth' = [r \in AuthRequest |->
                    IF AuthInFlight(r)
                    THEN [auth[r] EXCEPT !.pc = "done", !.resp = "lost",
                                         !.orphan = (auth[r].pc = "create")]
                    ELSE auth[r]]
      /\ info' = [r \in InfoRequest |->
                    IF InfoInFlight(r)
                    THEN [info[r] EXCEPT !.pc = "done", !.resp = "lost"] ELSE info[r]]
      /\ UNCHANGED <<users, transfers, purchases, locks, clock, tokens>>

\* All requests are answered and nothing is left to do.
AllAnswered ==
  /\ \A r \in SendRequest : send[r].pc = "done"
  /\ \A r \in BuyRequest : buy[r].pc = "done"
  /\ \A r \in AuthRequest : auth[r].pc = "done" /\ ~auth[r].orphan
  /\ \A r \in InfoRequest : info[r].pc = "done"
  /\ \A r \in Request : tx[r].status = "none"

Idle == AllAnswered /\ UNCHANGED vars

Next ==
  \/ \E r \in SendRequest :
       \/ (\E u \in tokens : PostAPISendCoin(r, u)) /\ OnlySend
       \/ SendStep(r) /\ OnlySend
       \/ CancelSend(r) /\ OnlySend
  \/ \E r \in BuyRequest :
       \/ (\E u \in tokens : GetAPIBuyItem(r, u)) /\ OnlyBuy
       \/ BuyStep(r) /\ OnlyBuy
       \/ CancelBuy(r) /\ OnlyBuy
  \/ \E r \in AuthRequest :
       \/ PostAPIAuth(r) /\ OnlyAuth
       \/ AuthStep(r) /\ OnlyAuth
       \/ CancelAuth(r) /\ OnlyAuth
       \/ OrphanInsert(r) /\ OnlyAuth
  \/ \E r \in InfoRequest :
       \/ (\E u \in tokens : GetAPIInfo(r, u)) /\ OnlyInfo
       \/ InfoStep(r) /\ OnlyInfo
       \/ CancelInfo(r) /\ OnlyInfo
  \/ \E r \in Request : OrphanStep(r)
  \/ Crash
  \/ Idle

Spec == Init /\ [][Next]_vars

\* Handlers, the database and the backends of closed connections go on when
\* they can; clients need not send, cancel or crash anything.
Fairness ==
  /\ \A r \in SendRequest : WF_vars(SendStep(r) /\ OnlySend)
  /\ \A r \in BuyRequest : WF_vars(BuyStep(r) /\ OnlyBuy)
  /\ \A r \in AuthRequest : /\ WF_vars(AuthStep(r) /\ OnlyAuth)
                            /\ WF_vars(OrphanInsert(r) /\ OnlyAuth)
  /\ \A r \in InfoRequest : WF_vars(InfoStep(r) /\ OnlyInfo)
  /\ \A r \in Request : WF_vars(OrphanStep(r))

FairSpec == Spec /\ Fairness

-----------------------------------------------------------------------------
(* Invariants *)

\* Every variable holds values of its type.  In particular a staged or committed
\* row satisfies the CHECK constraints of the migration, so that no INSERT the
\* code sends can be refused for its amount.
TypeOK == DBTypeOK /\ SendTypeOK /\ BuyTypeOK /\ AuthTypeOK

\* Between the balance check and the end of the transaction, the balances a
\* handler has computed stay right: the sender, the recipient and the buyer are
\* locked by it, and their committed balances are still the ones that were read.
\* This is what SELECT ... FOR UPDATE is for; without it an update is lost.
SendFresh(r) ==
  LET s == send[r]
  IN  /\ locks[s.src] = r /\ locks[s.dst] = r /\ s.src # s.dst
      /\ s.srcUserBalance = users[s.src].balance - s.amount
      /\ s.dstUserBalance = users[s.dst].balance + s.amount

BuyFresh(r) ==
  /\ locks[buy[r].user] = r
  /\ buy[r].balance = users[buy[r].user].balance - buy[r].price

FreshBalances ==
  /\ \A r \in SendRequest :
       \/ send[r].pc \in {"insert", "updateSrc", "updateDst", "commit"}
       \/ tx[r].status = "committing"
       => SendFresh(r)
  /\ \A r \in BuyRequest :
       \/ buy[r].pc \in {"insert", "update", "commit"}
       \/ tx[r].status = "committing"
       => BuyFresh(r)

\* The sum of the amounts of a set of rows.
Amounts(rows) == MapThenSumSet(LAMBDA row : row.amount, rows)

\* Every coin is accounted for: a balance is what the account was opened with,
\* plus what it received, minus what it sent and spent.
LedgerBalances ==
  \A u \in DOMAIN users :
    users[u].balance = DefaultBalance
      + Amounts({t \in transfers : t.dst_user_id = u})
      - Amounts({t \in transfers : t.src_user_id = u})
      - Amounts({p \in purchases : p.user_id = u})

\* The answer tells what happened: after "ok" the request has exactly the row
\* asked for, after a 4xx answer it has none, now or later, and a row is never
\* there before the handler is through.  Only after an internal error or a crash
\* the client does not know.
AnswersMatchLedger ==
  /\ \A r \in SendRequest :
       LET mine == {t \in transfers : t.id = r}
           asked == [id |-> r, dst_user_id |-> send[r].dst,
                     src_user_id |-> send[r].src, amount |-> send[r].amount]
       IN  /\ send[r].resp = "ok" => mine # {}
           /\ mine # {} => send[r].resp \in {"ok", "internal", "lost"}
           /\ Cardinality(mine) <= 1
           /\ \A t \in mine : \A f \in DOMAIN asked : t[f] = asked[f]
           /\ \A u \in GetUserByUsername(send[r].to) : mine # {} => send[r].dst = u
  /\ \A r \in BuyRequest :
       LET mine == {p \in purchases : p.id = r}
           asked == [id |-> r, user_id |-> buy[r].user, item_id |-> buy[r].item]
       IN  /\ buy[r].resp = "ok" => mine # {}
           /\ mine # {} => buy[r].resp \in {"ok", "internal", "lost"}
           /\ Cardinality(mine) <= 1
           /\ \A p \in mine : /\ p.amount = Price[p.item_id]
                               /\ \A f \in DOMAIN asked : p[f] = asked[f]

\* The query that locks the two rows of a transfer has no ORDER BY, so transfers
\* do wait for each other in cycles.  Only transfers do, and no purchase: each one
\* of a cycle has its handler still waiting for the SELECT, which can be told of
\* the error; it holds one of its two accounts, waits for the other one and has
\* written nothing, so that whichever fails loses nothing and frees a row.
DeadlockVictims ==
  \A r \in Request :
    Deadlocked(r) =>
      /\ r \in SendRequest /\ send[r].pc = "rows"
      /\ tx[r].at \in {send[r].src, send[r].dst}
      /\ LockedRows(r) = {send[r].src, send[r].dst} \ {tx[r].at}
      /\ tx[r].transfers = {} /\ DOMAIN tx[r].balance = {}

\* However many callers authenticate with one username at once, there is one
\* account of that name, all of them get it, and only an account whose password
\* differs turns a caller away.
OneAccountPerName ==
  /\ \A u, v \in DOMAIN users : users[u].username = users[v].username => u = v
  /\ \A r \in AuthRequest :
       /\ auth[r].resp = "ok" => auth[r].user \in GetUserByUsername(auth[r].username)
       /\ auth[r].resp = "unauthorized" =>
            \E u \in GetUserByUsername(auth[r].username) :
              ~Verify(auth[r].password, users[u].password_hash)

\* A token is issued only for an account that is there to stay.
TokensHaveAccounts == tokens \subseteq DOMAIN users \cup StaleTokens

\* r is the caller of /api/auth that the account u was created for: its handler
\* has issued it a token for u, or was cancelled or lost and left its INSERT behind.
CreatedFor(r, u) ==
  /\ auth[r].username = users[u].username
  /\ Verify(auth[r].password, users[u].password_hash)
  /\ \/ auth[r].resp = "ok" /\ auth[r].user = u
     \/ auth[r].resp \in {"internal", "lost"}

\* An account has the password of a caller who asked for its name and who was
\* given it or does not know: whoever was told that the name or the password is
\* invalid has created nothing, now or by an INSERT that is executed later.
AccountsHaveOwners ==
  \A u \in DOMAIN users \ DOMAIN SeededUsers : \E r \in AuthRequest : CreatedFor(r, u)

\* Whoever comes later to the name of an account, by a lost race, an INSERT left
\* behind or a COMMIT of balances, neither removes it nor changes its name or its
\* password.
AccountsKept ==
  [][\A u \in DOMAIN users :
       /\ u \in DOMAIN users'
       /\ users'[u].username = users[u].username
       /\ users'[u].password_hash = users[u].password_hash]_vars

\* A caller who gets a token has given the password of the account.
TokenNeedsPassword ==
  \A r \in AuthRequest :
    auth[r].resp = "ok" => Verify(auth[r].password, users[auth[r].user].password_hash)

\* What the items of an inventory cost.
Inventory(counts) ==
  {[item_id |-> k, amount |-> counts[k] * Price[k]] : k \in DOMAIN counts}

\* The statement i: its coins are what the account was opened with plus received
\* minus sent minus the price of the inventory, apart from whole transfers T and
\* purchases P that are not in its lists.
AddsUp(i) ==
  LET later == TransfersOf(i.user) \ ToSet(i.transfers)
      bought == {p \in purchases : p.user_id = i.user}
  IN  \E T \in SUBSET later, B \in SUBSET bought : \E P \in SUBSET (bought \ B) :
        /\ i.itemCounts = CountItems(B)
        /\ i.coins = DefaultBalance
             + Amounts(Received(i.user, i.transfers))
             - Amounts(Sent(i.user, i.transfers)) - Amounts(Inventory(i.itemCounts))
             + Amounts({t \in T : t.dst_user_id = i.user})
             - Amounts({t \in T : t.src_user_id = i.user}) - Amounts(P)

\* /api/info adds up, but for transfers and purchases that were committed after
\* their list was read: the three queries are not one snapshot, so coins may be
\* ahead of the lists, but never behind them.
InfoAddsUp == \A r \in InfoRequest : info[r].resp = "ok" => AddsUp(info[r])

\* All that y lists is in x too, once, and in the same order.
ListsAllOf(x, y) ==
  /\ ToSet(y) \subseteq ToSet(x)
  /\ \A i, j \in DOMAIN y : \A k, l \in DOMAIN x :
       x[k] = y[i] /\ x[l] = y[j] => (i < j <=> k < l)

\* Two statements of one user tell one history: what one of them lists is in the
\* other too, and in the same order, although a transfer that waited for locks
\* is listed before those that were committed before it.
HistoriesAgree ==
  \A r, q \in InfoRequest :
    /\ info[r].resp = "ok" /\ info[q].resp = "ok"
    /\ info[r].user = info[q].user
    => \/ ListsAllOf(info[r].transfers, info[q].transfers)
       \/ ListsAllOf(info[q].transfers, info[r].transfers)

-----------------------------------------------------------------------------
(* Refinement and liveness *)

\* Behind all the sessions and locks the service is Shop: transfers, purchases
\* and new accounts take effect one at a time, each at once and completely.
ShopView ==
  INSTANCE Shop WITH
    account   <- [u \in DOMAIN users |-> users[u].balance],
    transfers <- {[id |-> t.id, dst_user_id |-> t.dst_user_id,
                   src_user_id |-> t.src_user_id, amount |-> t.amount] : t \in transfers},
    purchases <- {[id |-> p.id, user_id |-> p.user_id, item_id |-> p.item_id,
                   amount |-> p.amount] : p \in purchases},
    OpenAtFirst <- DOMAIN SeededUsers

RefinesShop == ShopView!Spec

\* Every request that has arrived is answered: nobody waits forever for a
\* connection or for a row lock.
EveryRequestAnswered ==
  /\ \A r \in SendRequest : SendInFlight(r) ~> send[r].pc = "done"
  /\ \A r \in BuyRequest : BuyInFlight(r) ~> buy[r].pc = "done"
  /\ \A r \in AuthRequest : AuthInFlight(r) ~> auth[r].pc = "done"
  /\ \A r \in InfoRequest : InfoInFlight(r) ~> info[r].pc = "done"

\* No row lock outlives its request for good, whatever the handler returned and
\* however its connection ended.
LocksReleased ==
  \A u \in UserID : locks[u] # NoRequest ~> locks[u] = NoRequest

=============================================================================
