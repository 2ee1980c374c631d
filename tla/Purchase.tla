------------------------------ MODULE Purchase ------------------------------
(***************************************************************************)
(* GET /api/buy/{item}: the handler GetAPIBuyItem and the Purchaser it     *)
(* calls.  The table items is filled by the migration and never written    *)
(* afterwards, so that an item is its name and its price.                  *)
(***************************************************************************)
EXTENDS Postgres

CONSTANTS
  BuyRequest,   \* requests to /api/buy/{item}
  BuyItem       \* item names that are asked for

VARIABLE buy    \* state of the handler of each request

ASSUME BuyAssumption == BuyRequest \subseteq Request

BuyRejected == {"badRequest", "itemNotExist", "notEnough"}
BuyOutcome == BuyRejected \cup {"none", "ok", "internal", "lost"}

BuyState ==
  [pc   : {"recv", "lookup", "begin", "select", "rows", "insert", "update",
           "commit", "done"},
   resp : BuyOutcome,
   user : UserID \cup {NoUser},
   item : BuyItem \cup {""},
   price : Int32,
   balance : Int]

BuyTypeOK == buy \in [BuyRequest -> BuyState]

BuyInit ==
  buy = [r \in BuyRequest |->
           [pc |-> "recv", resp |-> "none", user |-> NoUser, item |-> "",
            price |-> 0, balance |-> 0]]

BuyGoto(r, pc) == buy' = [buy EXCEPT ![r].pc = pc]
BuyReturn(r, resp) == buy' = [buy EXCEPT ![r].pc = "done", ![r].resp = resp]
BuyFail(r, resp) == DeferredRollback(r) /\ BuyReturn(r, resp)

-----------------------------------------------------------------------------

\* The request of the authenticated user u arrives and is validated.
GetAPIBuyItem(r, u) ==
  /\ buy[r].pc = "recv"
  /\ \E item \in BuyItem :
       buy' = [buy EXCEPT ![r].user = u, ![r].item = item,
                          ![r].pc = IF item # "" THEN "lookup" ELSE "done",
                          ![r].resp = IF item # "" THEN "none" ELSE "badRequest"]
  /\ UNCHANGED dbvars

\* PurchaseByName up to Begin: item.Getter.GetItemByName, outside a transaction.
LookupItem(r) ==
  /\ buy[r].pc = "lookup"
  /\ PoolFree
  /\ \/ buy[r].item \notin Items /\ BuyReturn(r, "itemNotExist")
     \/ /\ buy[r].item \in Items
        /\ buy' = [buy EXCEPT ![r].price = Price[buy[r].item], ![r].pc = "begin"]
  /\ UNCHANGED dbvars

BeginPurchase(r) ==
  /\ buy[r].pc = "begin"
  /\ Begin(r)
  /\ BuyGoto(r, "select")

\* getUserForUpdate: the query is sent, waits for the row, and returns.
LockBuyer(r) ==
  /\ buy[r].pc = "select"
  /\ SelectForUpdate(r, {buy[r].user})
  /\ BuyGoto(r, "rows")

LockBuyerRow(r) == buy[r].pc = "rows" /\ LockRow(r) /\ UNCHANGED buy

\* Mutant: the balance is read through the pool, on a second connection.
CheckFundsOnPool(r) ==
  /\ buy[r].pc = "rows"
  /\ Selected(r)
  /\ PoolFree
  /\ BuyFail(r, "notEnough")

CheckFunds(r) ==
  /\ buy[r].pc = "rows"
  /\ Selected(r)
  /\ LET b == buy[r]
     IN  \/ /\ b.user \notin LockedRows(r)
            /\ BuyFail(r, "internal")
         \/ /\ b.user \in LockedRows(r)
            /\ users[b.user].balance - b.price < 0
            /\ BuyFail(r, "notEnough")
         \/ /\ b.user \in LockedRows(r)
            /\ users[b.user].balance - b.price >= 0
            /\ buy' = [buy EXCEPT ![r].balance = users[b.user].balance - b.price,
                                  ![r].pc = "insert"]
            /\ UNCHANGED dbvars

NewPurchaseRow(r) ==
  [id |-> r, created_at |-> tx[r].created_at, user_id |-> buy[r].user,
   item_id |-> buy[r].item, amount |-> buy[r].price]

\* Mutant: the INSERT goes to the pool, not to the transaction.
CreatePurchaseOnPool(r) ==
  /\ buy[r].pc = "insert"
  /\ purchases' = purchases \cup {NewPurchaseRow(r)}
  /\ UNCHANGED <<users, transfers, locks, tx, clock>>
  /\ BuyGoto(r, "update")

CreatePurchase(r) ==
  /\ buy[r].pc = "insert"
  /\ Stage(r, [tx[r] EXCEPT !.purchases = @ \cup {NewPurchaseRow(r)}])
  /\ BuyGoto(r, "update")

\* Mutant: the UPDATE is missing.
UpdateBuyerNot(r) == buy[r].pc = "update" /\ BuyGoto(r, "commit") /\ UNCHANGED dbvars

\* updateUserBalance.  The new balance is between 0 and the old one, so that the
\* statement is never refused.
UpdateBuyer(r) ==
  /\ buy[r].pc = "update"
  /\ Stage(r, [tx[r] EXCEPT !.balance = Put(@, buy[r].user, buy[r].balance)])
  /\ BuyGoto(r, "commit")

CommitPurchase(r) ==
  /\ buy[r].pc = "commit"
  /\ Commit(r)
  /\ BuyReturn(r, "ok")

\* The database call the handler waits for fails.
BuyInFlight(r) == buy[r].pc \notin {"recv", "done"}

\* Mutant: the error of Commit is ignored.
CancelBuyCommitOK(r) ==
  /\ BuyInFlight(r)
  /\ \/ tx[r].status = "none" /\ UNCHANGED dbvars /\ BuyReturn(r, "internal")
     \/ /\ tx[r].status = "open"
        /\ Disconnect(r, IF buy[r].pc = "commit" THEN "committing" ELSE "aborting")
        /\ BuyReturn(r, IF buy[r].pc = "commit" THEN "ok" ELSE "internal")

CancelBuy(r) ==
  /\ BuyInFlight(r)
  /\ \/ tx[r].status = "none" /\ UNCHANGED dbvars
     \/ /\ tx[r].status = "open"
        /\ Disconnect(r, IF buy[r].pc = "commit" THEN "committing" ELSE "aborting")
  /\ BuyReturn(r, "internal")

BuyStep(r) ==
  \/ LookupItem(r) \/ BeginPurchase(r) \/ LockBuyer(r) \/ LockBuyerRow(r)
  \/ CheckFunds(r) \/ CreatePurchase(r) \/ UpdateBuyer(r) \/ CommitPurchase(r)

=============================================================================
