--------------------------- MODULE ServerInvariant ---------------------------
(***************************************************************************)
(* The inductive invariant of Server: what holds between any two steps of  *)
(* any handlers, strong enough to be preserved by every step on its own.   *)
(* DBInv is about the database alone, SendInv and BuyInv tie the session   *)
(* of a request to the place its handler is at.                            *)
(***************************************************************************)
EXTENDS Server

-----------------------------------------------------------------------------
(* The database *)

\* What a session of r may hold: locks are waited for on rows that exist, new
\* rows carry the id of r, and balances are staged only for rows r has locked.
SessionInv(r, session) ==
  /\ session \in Session
  /\ session.want \subseteq DOMAIN users
  /\ session.at \in session.want \cup {NoUser}
  /\ \A t \in session.transfers : t.id = r
  /\ \A p \in session.purchases : p.id = r
  /\ \A u \in DOMAIN session.balance : locks[u] = r

DBInv ==
  /\ DBTypeOK
  /\ \A u \in UserID : locks[u] # NoRequest => u \in DOMAIN users
  /\ \A r \in Request : SessionInv(r, tx[r])

-----------------------------------------------------------------------------
(* Handlers *)

\* The transaction has nothing to write yet.
NothingStaged(r) ==
  tx[r].transfers = {} /\ tx[r].purchases = {} /\ DOMAIN tx[r].balance = {}

\* The writes of a transfer that is complete.
TransferStaged(r) ==
  /\ tx[r].transfers = {NewTransferRow(r)}
  /\ tx[r].purchases = {}
  /\ DOMAIN tx[r].balance = {send[r].src, send[r].dst}
  /\ tx[r].balance[send[r].src] = send[r].srcUserBalance
  /\ tx[r].balance[send[r].dst] = send[r].dstUserBalance

SendChecked(r) ==
  \/ send[r].pc \in {"insert", "updateSrc", "updateDst", "commit"}
  \/ tx[r].status = "committing"

SendInv(r) ==
  LET pc == send[r].pc
  IN  /\ pc \in {"recv", "lookup", "begin"} => tx[r].status = "none"
      /\ pc \notin {"recv", "lookup", "begin", "done"} => tx[r].status = "open"
      /\ pc = "done" => tx[r].status # "open"
      /\ pc \notin {"recv", "done"} => send[r].src \in UserID /\ send[r].amount > 0
      /\ pc \notin {"recv", "lookup", "done"} =>
           send[r].dst \in UserID /\ send[r].dst # send[r].src
      /\ pc \in {"select", "rows", "insert"} => NothingStaged(r)
      /\ pc \in {"updateSrc", "updateDst"} =>
           /\ tx[r].transfers = {NewTransferRow(r)}
           /\ tx[r].purchases = {}
      /\ pc = "updateSrc" => DOMAIN tx[r].balance = {}
      /\ pc = "updateDst" =>
           /\ DOMAIN tx[r].balance = {send[r].src}
           /\ tx[r].balance[send[r].src] = send[r].srcUserBalance
      /\ pc = "commit" \/ tx[r].status = "committing" =>
           /\ TransferStaged(r)
           /\ send[r].dstUserBalance \in Int32
      /\ SendChecked(r) =>
           /\ SendFresh(r)
           /\ send[r].src \in UserID /\ send[r].dst \in UserID
           /\ send[r].amount \in 1..MaxInt32
           /\ send[r].srcUserBalance \in Int32
      /\ pc # "done" \/ tx[r].status # "none" => \A t \in transfers : t.id # r

\* The writes of a purchase that is complete.
PurchaseStaged(r) ==
  /\ tx[r].transfers = {}
  /\ tx[r].purchases = {NewPurchaseRow(r)}
  /\ DOMAIN tx[r].balance = {buy[r].user}
  /\ tx[r].balance[buy[r].user] = buy[r].balance

BuyChecked(r) ==
  buy[r].pc \in {"insert", "update", "commit"} \/ tx[r].status = "committing"

BuyInv(r) ==
  LET pc == buy[r].pc
  IN  /\ pc \in {"recv", "lookup", "begin"} => tx[r].status = "none"
      /\ pc \notin {"recv", "lookup", "begin", "done"} => tx[r].status = "open"
      /\ pc = "done" => tx[r].status # "open"
      /\ pc \notin {"recv", "done"} => buy[r].user \in UserID
      /\ pc \notin {"recv", "lookup", "done"} =>
           buy[r].item \in Items /\ buy[r].price = Price[buy[r].item]
      /\ pc \in {"select", "rows", "insert"} => NothingStaged(r)
      /\ pc = "update" =>
           /\ tx[r].transfers = {}
           /\ tx[r].purchases = {NewPurchaseRow(r)}
           /\ DOMAIN tx[r].balance = {}
      /\ pc = "commit" \/ tx[r].status = "committing" => PurchaseStaged(r)
      /\ BuyChecked(r) =>
           /\ BuyFresh(r)
           /\ buy[r].user \in UserID
           /\ buy[r].item \in Items /\ buy[r].price = Price[buy[r].item]
           /\ buy[r].balance \in Int32
      /\ pc # "done" \/ tx[r].status # "none" => \A p \in purchases : p.id # r

\* A handler of /api/auth past its validation has a username and a password.
AuthInv ==
  /\ AuthTypeOK
  /\ \A r \in AuthRequest :
       /\ auth[r].orphan => auth[r].pc = "done"
       /\ AuthInFlight(r) \/ auth[r].orphan =>
            auth[r].username \in Username /\ auth[r].password \in Password

\* The inductive invariant: the session of every request holds exactly the
\* writes its handler has made so far, on rows that it has locked, computed
\* from balances that are still the committed ones.
Inv ==
  /\ DBInv
  /\ SendTypeOK /\ BuyTypeOK /\ AuthInv
  /\ \A r \in SendRequest : SendInv(r)
  /\ \A r \in BuyRequest : BuyInv(r)

-----------------------------------------------------------------------------
(* What is kept on top of Inv *)

\* The ledger: the tables are finite, their rows name accounts that exist, as
\* the foreign keys of the migration demand, and the balances add up.  That is
\* what makes an account without rows start with its first balance.
LedgerInv ==
  /\ IsFiniteSet(transfers) /\ IsFiniteSet(purchases)
  /\ \A t \in transfers : {t.src_user_id, t.dst_user_id} \subseteq DOMAIN users
  /\ \A p \in purchases : p.user_id \in DOMAIN users
  /\ LedgerBalances

\* The accounts: one per name, a token only for one that exists, and no answer
\* from /api/auth before its handler is through.
AccountInv ==
  /\ OneAccountPerName
  /\ TokensHaveAccounts
  /\ \A r \in AuthRequest : auth[r].pc # "done" => auth[r].resp = "none"

\* What the client of a transfer has been told and what has become of it.  COMMIT
\* is left to an orphaned session only after an internal error or a crash, the
\* recipient is still the one looked up by name, and a committed row is what the
\* handler has asked for.
SendAnswerInv(r) ==
  LET s == send[r]
      mine == {t \in transfers : t.id = r}
  IN  /\ s.pc # "done" => s.resp = "none"
      /\ tx[r].status = "committing" => s.resp \in {"internal", "lost"}
      /\ s.resp = "ok" => mine # {}
      /\ mine # {} => s.resp \in {"ok", "internal", "lost"}
      /\ \/ s.pc \notin {"recv", "lookup", "done"}
         \/ tx[r].status = "committing"
         \/ mine # {}
         => s.dst \in DOMAIN users /\ users[s.dst].username = s.to
      /\ \A t \in mine : /\ t.dst_user_id = s.dst /\ t.src_user_id = s.src
                         /\ t.amount = s.amount
                         /\ mine = {t}

\* The same for a purchase.
BuyAnswerInv(r) ==
  LET b == buy[r]
      mine == {p \in purchases : p.id = r}
  IN  /\ b.pc # "done" => b.resp = "none"
      /\ tx[r].status = "committing" => b.resp \in {"internal", "lost"}
      /\ b.resp = "ok" => mine # {}
      /\ mine # {} => b.resp \in {"ok", "internal", "lost"}
      /\ \A p \in mine : /\ p.user_id = b.user /\ p.item_id = b.item
                         /\ p.amount = Price[b.item]
                         /\ mine = {p}

AnswersInv ==
  /\ \A r \in SendRequest : SendAnswerInv(r)
  /\ \A r \in BuyRequest : BuyAnswerInv(r)

\* The handler of r is at pc, and the rows its SELECT ... FOR UPDATE is for.
At(r, pc) ==
  \/ r \in SendRequest /\ send[r].pc = pc
  \/ r \in BuyRequest /\ buy[r].pc = pc

Selects(r) ==
  IF r \in SendRequest THEN {send[r].src, send[r].dst} ELSE {buy[r].user}

\* Row locks, in whatever order the rows are met: a session that has not sent its
\* SELECT yet, or is over, holds nothing.  One that waits for a row belongs to a
\* handler in its SELECT, has locked none of the rows it still wants, and has
\* locked and wants no others than the SELECT is for.
HoldsNothing(r) == \A u \in UserID : locks[u] # r

ScanInv(r) ==
  /\ tx[r].status = "none" \/ At(r, "select") => HoldsNothing(r)
  /\ tx[r].at # NoUser =>
       /\ At(r, "rows")
       /\ tx[r].want \subseteq Selects(r)
       /\ LockedRows(r) \subseteq Selects(r) \ tx[r].want

LockInv == \A r \in Request : ScanInv(r)

\* The rows that a statement lists: no two transactions have begun at the same
\* time, a request buys once, and what it pays is the price of the item.
RowsInv ==
  /\ \A s, t \in transfers : s.created_at = t.created_at => s = t
  /\ \A t \in transfers : t.created_at < clock
  /\ \A r \in Request :
       tx[r].status # "none" =>
         /\ tx[r].created_at < clock
         /\ \A t \in transfers : t.created_at # tx[r].created_at
         /\ \A q \in Request \ {r} :
              tx[q].status # "none" => tx[q].created_at # tx[r].created_at
  /\ \A p, q \in purchases : p.id = q.id => p = q
  /\ \A p \in purchases : p.amount = Price[p.item_id]

\* A statement whose list of transfers has been read.
HasList(r) == info[r].pc = "balance" \/ info[r].resp = "ok"

\* What a statement has collected: its inventory counts purchases of its user, its
\* list is of transfers of its user, in order.
StatementInv(r) ==
  /\ info[r].pc # "done" => info[r].resp = "none"
  /\ info[r].pc \in {"transfers", "balance"} =>
       \E B \in SUBSET {p \in purchases : p.user_id = info[r].user} :
         info[r].itemCounts = CountItems(B)
  /\ HasList(r) =>
       /\ Sorted(info[r].transfers)
       /\ ToSet(info[r].transfers) \subseteq TransfersOf(info[r].user)

\* Of two lists of one user, one was read after the other.
ListsInv ==
  \A r, q \in InfoRequest :
    HasList(r) /\ HasList(q) /\ info[r].user = info[q].user =>
      \/ ToSet(info[r].transfers) \subseteq ToSet(info[q].transfers)
      \/ ToSet(info[q].transfers) \subseteq ToSet(info[r].transfers)

InfoInv ==
  /\ RowsInv
  /\ InfoTypeOK
  /\ \A r \in InfoRequest : StatementInv(r)
  /\ ListsInv
  /\ InfoAddsUp

=============================================================================
