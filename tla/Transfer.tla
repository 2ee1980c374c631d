------------------------------ MODULE Transfer ------------------------------
(***************************************************************************)
(* POST /api/sendCoin: the handler PostAPISendCoin and the Transferer it   *)
(* calls.  One process per request; each action is the code between two    *)
(* round trips to the database.                                            *)
(***************************************************************************)
EXTENDS Postgres

CONSTANTS
  SendRequest,  \* requests to /api/sendCoin
  SendBody      \* their JSON bodies

VARIABLE send   \* state of the handler of each request

ASSUME SendAssumption ==
  /\ SendRequest \subseteq Request
  /\ SendBody \subseteq [toUser : Username \cup {""}, amount : Int]

\* Outcomes, one per return of the handler.  "lost": the process died.
SendRejected == {"badRequest", "dstUserNotFound", "srcAndDstEqual", "notEnough"}
SendOutcome == SendRejected \cup {"none", "ok", "internal", "lost"}

SendState ==
  [pc   : {"recv", "lookup", "begin", "select", "rows", "insert",
           "updateSrc", "updateDst", "commit", "done"},
   resp : SendOutcome,
   src  : UserID \cup {NoUser},
   dst  : UserID \cup {NoUser},
   to   : Username \cup {""},
   amount : Int,
   srcUserBalance : Int,
   dstUserBalance : Int]

SendTypeOK == send \in [SendRequest -> SendState]

SendInit ==
  send = [r \in SendRequest |->
            [pc |-> "recv", resp |-> "none", src |-> NoUser, dst |-> NoUser,
             to |-> "", amount |-> 0,
             srcUserBalance |-> 0, dstUserBalance |-> 0]]

\* The handler r goes on to pc, or returns with the outcome resp.
SendGoto(r, pc) == send' = [send EXCEPT ![r].pc = pc]
SendReturn(r, resp) == send' = [send EXCEPT ![r].pc = "done", ![r].resp = resp]

\* Mutant: no deferred rollback.
SendFailLeaks(r, resp) == SendReturn(r, resp) /\ UNCHANGED dbvars

\* An early return inside the transaction.
SendFail(r, resp) == DeferredRollback(r) /\ SendReturn(r, resp)

-----------------------------------------------------------------------------

\* The request of the authenticated user u arrives and is validated.
PostAPISendCoin(r, u) ==
  /\ send[r].pc = "recv"
  /\ \E body \in SendBody :
       LET valid == body.toUser # "" /\ body.amount > 0
       IN  send' = [send EXCEPT
                      ![r].src = u, ![r].to = body.toUser, ![r].amount = body.amount,
                      ![r].pc = IF valid THEN "lookup" ELSE "done",
                      ![r].resp = IF valid THEN "none" ELSE "badRequest"]
  /\ UNCHANGED dbvars

\* TransferByUsername up to Begin: find the recipient, outside a transaction.
LookupDst(r) ==
  /\ send[r].pc = "lookup"
  /\ PoolFree
  /\ LET found == GetUserByUsername(send[r].to)
     IN  \/ found = {} /\ SendReturn(r, "dstUserNotFound")
         \/ send[r].src \in found /\ SendReturn(r, "srcAndDstEqual")
         \/ \E u \in found \ {send[r].src} :
              send' = [send EXCEPT ![r].dst = u, ![r].pc = "begin"]
  /\ UNCHANGED dbvars

BeginTransfer(r) ==
  /\ send[r].pc = "begin"
  /\ Begin(r)
  /\ SendGoto(r, "select")

\* The row of the transfer.
NewTransferRow(r) ==
  [id |-> r, created_at |-> tx[r].created_at, dst_user_id |-> send[r].dst,
   src_user_id |-> send[r].src, amount |-> send[r].amount]

\* Mutant: the row is inserted before the users are locked.
LockUsersAfterInsert(r) ==
  LET rows == {send[r].src, send[r].dst} \cap DOMAIN users
  IN  /\ send[r].pc = "select"
      /\ \E u \in ScanFirst(rows) :
           tx' = [tx EXCEPT ![r].want = rows, ![r].at = u,
                            ![r].transfers = {NewTransferRow(r)}]
      /\ UNCHANGED <<users, transfers, purchases, locks, clock>>
      /\ SendGoto(r, "rows")

\* getUsersByIDsForUpdate: the query is sent ...
LockUsers(r) ==
  /\ send[r].pc = "select"
  /\ SelectForUpdate(r, {send[r].src, send[r].dst})
  /\ SendGoto(r, "rows")

LockUsersRow(r) == send[r].pc = "rows" /\ LockRow(r) /\ UNCHANGED send

\* ... fails as the victim of a deadlock ...
LockUsersDeadlock(r) ==
  /\ send[r].pc = "rows"
  /\ Deadlocked(r)
  /\ SendFail(r, "internal")

\* Mutant: the balances are read through the pool, on a second connection.
CheckBalanceOnPool(r) ==
  /\ send[r].pc = "rows"
  /\ Selected(r)
  /\ PoolFree
  /\ SendFail(r, "notEnough")

\* ... or returns: the rows are checked and the new balances computed.
CheckBalance(r) ==
  /\ send[r].pc = "rows"
  /\ Selected(r)
  /\ LET s == send[r]
     IN  \/ /\ ~({s.src, s.dst} \subseteq LockedRows(r))
            /\ SendFail(r, "internal")
         \/ /\ {s.src, s.dst} \subseteq LockedRows(r)
            /\ users[s.src].balance - s.amount < 0
            /\ SendFail(r, "notEnough")
         \/ /\ {s.src, s.dst} \subseteq LockedRows(r)
            /\ users[s.src].balance - s.amount >= 0
            /\ send' = [send EXCEPT
                          ![r].srcUserBalance = users[s.src].balance - s.amount,
                          ![r].dstUserBalance = users[s.dst].balance + s.amount,
                          ![r].pc = "insert"]
            /\ UNCHANGED dbvars

\* Mutant: the INSERT goes to the pool, not to the transaction.
CreateTransferOnPool(r) ==
  /\ send[r].pc = "insert"
  /\ transfers' = transfers \cup {NewTransferRow(r)}
  /\ UNCHANGED <<users, purchases, locks, tx, clock>>
  /\ SendGoto(r, "updateSrc")

\* createTransfer.  The insert is never refused: the amount is positive and at
\* most the balance of src, so it fits the column (TransferRow in the type
\* invariant).
CreateTransfer(r) ==
  /\ send[r].pc = "insert"
  /\ Stage(r, [tx[r] EXCEPT !.transfers = @ \cup {NewTransferRow(r)}])
  /\ SendGoto(r, "updateSrc")

\* Mutant: no constraint, and a column that takes any integer.
SendUpdateBalanceUnchecked(r, u, balance, pc) ==
  /\ Stage(r, [tx[r] EXCEPT !.balance = Put(@, u, balance)])
  /\ SendGoto(r, pc)

\* updateUserBalance: a value outside the column's type or refused by the
\* constraint users_balance_ge_0 fails the statement.
SendUpdateBalance(r, u, balance, pc) ==
  \/ /\ balance \in Int32
     /\ Stage(r, [tx[r] EXCEPT !.balance = Put(@, u, balance)])
     /\ SendGoto(r, pc)
  \/ /\ balance \notin Int32
     /\ SendFail(r, "internal")

\* Mutant: the recipient is forgotten.
UpdateSrcOnly(r) ==
  /\ send[r].pc = "updateSrc"
  /\ SendUpdateBalance(r, send[r].src, send[r].srcUserBalance, "commit")

UpdateSrc(r) ==
  /\ send[r].pc = "updateSrc"
  /\ SendUpdateBalance(r, send[r].src, send[r].srcUserBalance, "updateDst")

\* Mutant: the recipient gets the balance of the sender.
UpdateDstFromSrc(r) ==
  /\ send[r].pc = "updateDst"
  /\ SendUpdateBalance(r, send[r].dst, send[r].srcUserBalance, "commit")

UpdateDst(r) ==
  /\ send[r].pc = "updateDst"
  /\ SendUpdateBalance(r, send[r].dst, send[r].dstUserBalance, "commit")

CommitTransfer(r) ==
  /\ send[r].pc = "commit"
  /\ Commit(r)
  /\ SendReturn(r, "ok")

\* The database call the handler waits for fails: the client went away and the
\* request's context is cancelled, or the connection broke.
SendInFlight(r) == send[r].pc \notin {"recv", "done"}

\* Mutant: the error of Commit is ignored.
CancelSendCommitOK(r) ==
  /\ SendInFlight(r)
  /\ \/ tx[r].status = "none" /\ UNCHANGED dbvars /\ SendReturn(r, "internal")
     \/ /\ tx[r].status = "open"
        /\ Disconnect(r, IF send[r].pc = "commit" THEN "committing" ELSE "aborting")
        /\ SendReturn(r, IF send[r].pc = "commit" THEN "ok" ELSE "internal")

CancelSend(r) ==
  /\ SendInFlight(r)
  /\ \/ tx[r].status = "none" /\ UNCHANGED dbvars
     \/ /\ tx[r].status = "open"
        /\ Disconnect(r, IF send[r].pc = "commit" THEN "committing" ELSE "aborting")
  /\ SendReturn(r, "internal")

\* The steps the server and the database take by themselves.
SendStep(r) ==
  \/ LookupDst(r) \/ BeginTransfer(r)
  \/ LockUsers(r) \/ LockUsersRow(r) \/ LockUsersDeadlock(r)
  \/ CheckBalance(r) \/ CreateTransfer(r) \/ UpdateSrc(r) \/ UpdateDst(r)
  \/ CommitTransfer(r)

=============================================================================
