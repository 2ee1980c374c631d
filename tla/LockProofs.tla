----------------------------- MODULE LockProofs -----------------------------
(***************************************************************************)
(* Row locks, for scans that meet the rows in any order: the transactions  *)
(* that wait for each other in a cycle are transfers in their SELECT ...   *)
(* FOR UPDATE that have written nothing.                                   *)
(***************************************************************************)
EXTENDS ServerProofs

-----------------------------------------------------------------------------
(* One session *)

\* A step that takes no lock and sends no SELECT keeps ScanInv.
LEMMA ScanKept ==
  ASSUME NEW r \in Request, ScanInv(r), \A u \in UserID : locks'[u] = r => locks[u] = r,
         tx'[r].status = "none" => tx[r].status = "none",
         At(r, "select")' => At(r, "select") \/ tx[r].status = "none",
         \/ tx'[r].at = NoUser
         \/ /\ tx'[r].at = tx[r].at /\ tx'[r].want = tx[r].want
            /\ At(r, "rows") => At(r, "rows")'
            /\ Selects(r)' = Selects(r)
  PROVE  ScanInv(r)'
<1>1. HoldsNothing(r) => HoldsNothing(r)'
  BY DEF HoldsNothing
<1>2. LockedRows(r)' \subseteq LockedRows(r)
  BY DEF LockedRows
<1> QED BY <1>1, <1>2 DEF ScanInv

\* Only a handler in its SELECT waits for rows.
LEMMA WaitsInSelect ==
  ASSUME NEW r \in Request, ScanInv(r), ~At(r, "rows")
  PROVE  tx[r].at = NoUser
  BY DEF ScanInv

\* The end of a transaction releases its locks.
LEMMA ScanEnded ==
  ASSUME Inv, NEW r \in Request, EndSession(r)
  PROVE  ScanInv(r)'
<1>1. /\ tx \in [Request -> Session] /\ locks \in [UserID -> Request \cup {NoRequest}]
      /\ NoRequest # r
  BY ConstantsAssumption DEF Inv, DBInv, DBTypeOK
<1>2. tx'[r] = NoSession /\ tx'[r].at = NoUser
  BY <1>1 DEF EndSession, NoSession
<1>3. HoldsNothing(r)'
  BY <1>1 DEF EndSession, HoldsNothing
<1> QED BY <1>2, <1>3 DEF ScanInv

\* SELECT ... FOR UPDATE is sent by a session that holds nothing.
LEMMA ScanStarts ==
  ASSUME Inv, NEW r \in Request, NEW ids, SelectForUpdate(r, ids), ScanInv(r),
         At(r, "select"), ~At(r, "select")', At(r, "rows")', Selects(r)' = ids,
         tx[r].status # "none"
  PROVE  ScanInv(r)'
<1> DEFINE rows == ids \cap DOMAIN users
<1>1. tx \in [Request -> Session] /\ tx[r] \in Session /\ HoldsNothing(r)
  BY DEF Inv, DBInv, DBTypeOK, ScanInv
<1>2. PICK u \in ScanFirst(rows) :
        /\ tx' = [tx EXCEPT ![r].want = rows, ![r].at = u]
        /\ locks' = locks
  BY DEF SelectForUpdate
<1>3. tx'[r].want = rows /\ tx'[r].at = u /\ tx'[r].status = tx[r].status
  BY <1>1, <1>2 DEF Session
<1>4. LockedRows(r)' = {}
  BY <1>1, <1>2 DEF HoldsNothing, LockedRows
<1> QED BY <1>3, <1>4 DEF ScanInv

\* A lock is granted: a row that was wanted is locked now.
LEMMA ScanGoesOn ==
  ASSUME Inv, NEW r \in Request, LockRow(r), ScanInv(r),
         ~At(r, "select")', At(r, "rows")', Selects(r)' = Selects(r)
  PROVE  ScanInv(r)'
<1>1. /\ tx \in [Request -> Session] /\ tx[r] \in Session
      /\ locks \in [UserID -> Request \cup {NoRequest}]
      /\ tx[r].status = "open" /\ tx[r].at # NoUser
      /\ tx[r].at \in UserID /\ tx[r].at \in tx[r].want
  BY ConstantsAssumption DEF LockRow, Inv, DBInv, DBTypeOK, SessionInv, Session
<1> DEFINE a == tx[r].at
           rest == tx[r].want \ {a}
<1>2. PICK u \in ScanFirst(rest) : tx' = [tx EXCEPT ![r].want = @ \ {a}, ![r].at = u]
  BY DEF LockRow
<1>3. tx'[r].want = rest /\ tx'[r].status = "open"
  BY <1>1, <1>2 DEF Session
<1>4. LockedRows(r)' \subseteq LockedRows(r) \cup {a}
  BY <1>1 DEF LockRow, LockedRows
<1>5. /\ tx[r].want \subseteq Selects(r)
      /\ LockedRows(r) \subseteq Selects(r) \ tx[r].want
  BY <1>1 DEF ScanInv
<1>6. /\ rest \subseteq Selects(r)
      /\ LockedRows(r)' \subseteq Selects(r) \ rest
  BY <1>1, <1>4, <1>5
<1> HIDE DEF rest
<1> QED BY <1>3, <1>6 DEF ScanInv

-----------------------------------------------------------------------------
(* Steps *)

\* A connection is closed: the orphaned session keeps its locks and waits for
\* nothing any more.
LEMMA ScanCut ==
  ASSUME Inv, NEW r \in Request, NEW status \in {"aborting", "committing"},
         Disconnect(r, status), ScanInv(r), ~At(r, "select")'
  PROVE  ScanInv(r)'
<1>1. tx \in [Request -> Session] /\ tx[r] \in Session
  BY DEF Inv, DBInv, DBTypeOK
<1>2. tx'[r].status = status /\ tx'[r].at = NoUser /\ locks' = locks
  BY <1>1 DEF Disconnect, Stage, Session
<1> QED BY <1>2, ScanKept

\* An early return releases the locks, or leaves them to the orphaned session.
LEMMA ScanFailed ==
  ASSUME Inv, NEW r \in Request, DeferredRollback(r), ScanInv(r), ~At(r, "select")'
  PROVE  ScanInv(r)'
  BY ScanEnded, ScanCut DEF DeferredRollback, Rollback

\* A write leaves the scan and the locks as they are.
LEMMA ScanStaged ==
  ASSUME Inv, NEW r \in Request, NEW session, Stage(r, session), ScanInv(r),
         ~At(r, "select")', ~At(r, "rows"), session.status = "open", session.at = tx[r].at
  PROVE  ScanInv(r)'
<1>1. tx'[r] = session /\ locks' = locks
  BY DEF Stage, Inv, DBInv, DBTypeOK
<1> QED BY <1>1, ScanKept, WaitsInSelect

\* BEGIN: the new session holds nothing and waits for nothing.
LEMMA ScanBegun ==
  ASSUME Inv, NEW r \in Request, Begin(r), ScanInv(r), tx[r].status = "none"
  PROVE  ScanInv(r)'
<1>1. tx'[r] = [NoSession EXCEPT !.status = "open", !.created_at = clock] /\ locks' = locks
  BY DEF Begin, Inv, DBInv, DBTypeOK
<1>2. tx'[r].status = "open" /\ tx'[r].at = NoUser
  BY <1>1 DEF NoSession
<1> QED BY <1>1, <1>2, ScanKept

\* A step of a handler of /api/sendCoin.
LEMMA SendScan ==
  ASSUME Inv, NEW r \in SendRequest, ScanInv(r),
         (\E u \in tokens : PostAPISendCoin(r, u)) \/ SendStep(r) \/ CancelSend(r)
  PROVE  ScanInv(r)'
<1>1. /\ r \in Request /\ r \notin BuyRequest
      /\ send \in [SendRequest -> SendState] /\ send[r] \in SendState
      /\ tx \in [Request -> Session] /\ tx[r] \in Session
  BY RequestAssumption DEF Inv, SendTypeOK, DBInv, DBTypeOK
<1>2. send'[r].pc # "select" => ~At(r, "select")'
  BY <1>1 DEF At
<1>2a. send[r].pc # "rows" => ~At(r, "rows")
  BY <1>1 DEF At
<1>3. ASSUME send'[r].pc # "select", UNCHANGED dbvars, send[r].pc # "rows" \/ Selected(r)
      PROVE  ScanInv(r)'
  <2>1. tx'[r] = tx[r] /\ tx[r].at = NoUser /\ locks' = locks
    BY <1>1, <1>2a, <1>3, WaitsInSelect DEF dbvars, Selected
  <2> QED BY <1>1, <1>2, <1>3, <2>1, ScanKept
<1>4. ASSUME NEW resp, SendReturn(r, resp) PROVE ~At(r, "select")'
  <2>1. send'[r].pc = "done"
    BY <1>1, <1>4 DEF SendReturn, SendState
  <2> QED BY <1>2, <2>1
<1>5. ASSUME NEW pc, SendGoto(r, pc), pc # "select" PROVE ~At(r, "select")'
  <2>1. send'[r].pc = pc
    BY <1>1, <1>5 DEF SendGoto, SendState
  <2> QED BY <1>2, <1>5, <2>1
<1>6. ASSUME NEW resp, SendFail(r, resp) PROVE ScanInv(r)'
  BY <1>1, <1>4, <1>6, ScanFailed DEF SendFail
<1>7. CASE \E u \in tokens : PostAPISendCoin(r, u)
  <2>1. PICK u \in tokens, body \in SendBody :
          LET valid == body.toUser # "" /\ body.amount > 0
          IN  send' = [send EXCEPT
                         ![r].src = u, ![r].to = body.toUser, ![r].amount = body.amount,
                         ![r].pc = IF valid THEN "lookup" ELSE "done",
                         ![r].resp = IF valid THEN "none" ELSE "badRequest"]
    BY <1>7 DEF PostAPISendCoin
  <2>2. send'[r].pc # "select"
    <3>1. CASE body.toUser # "" /\ body.amount > 0
      BY <1>1, <2>1, <3>1 DEF SendState
    <3>2. CASE ~(body.toUser # "" /\ body.amount > 0)
      BY <1>1, <2>1, <3>2 DEF SendState
    <3> QED BY <3>1, <3>2
  <2> QED BY <1>3, <1>7, <2>2 DEF PostAPISendCoin
<1>8. CASE LookupDst(r)
  <2>1. CASE SendReturn(r, "dstUserNotFound") \/ SendReturn(r, "srcAndDstEqual")
    <3>1. send'[r].pc = "done"
      <4>1. PICK resp : send'[r] = [send[r] EXCEPT !.pc = "done", !.resp = resp]
        BY <1>1, <2>1 DEF SendReturn
      <4> QED BY <1>1, <4>1 DEF SendState
    <3> QED BY <1>3, <1>8, <3>1 DEF LookupDst
  <2>2. ASSUME NEW u, send' = [send EXCEPT ![r].dst = u, ![r].pc = "begin"]
        PROVE  ScanInv(r)'
    <3>1. send'[r].pc = "begin"
      BY <1>1, <2>2 DEF SendState
    <3> QED BY <1>3, <1>8, <3>1 DEF LookupDst
  <2> QED BY <1>8, <2>1, <2>2 DEF LookupDst
<1>9. CASE BeginTransfer(r)
  BY <1>1, <1>9, ScanBegun DEF BeginTransfer, Inv, SendInv
<1>10. CASE LockUsers(r)
  <2>1. At(r, "select") /\ tx[r].status # "none"
    BY <1>10 DEF LockUsers, At, Inv, SendInv
  <2>2. /\ send'[r].pc = "rows"
        /\ send'[r].src = send[r].src /\ send'[r].dst = send[r].dst
    BY <1>1, <1>10 DEF LockUsers, SendGoto, SendState
  <2>3. ~At(r, "select")' /\ At(r, "rows")' /\ Selects(r)' = {send[r].src, send[r].dst}
    BY <1>2, <2>2 DEF At, Selects
  <2> QED BY <1>1, <1>10, <2>1, <2>3, ScanStarts DEF LockUsers
<1>11. CASE LockUsersRow(r)
  <2>1. ~At(r, "select")' /\ At(r, "rows")' /\ Selects(r)' = Selects(r)
    BY <1>2, <1>11 DEF LockUsersRow, At, Selects
  <2> QED BY <1>1, <1>11, <2>1, ScanGoesOn DEF LockUsersRow
<1>12. CASE LockUsersDeadlock(r)
  BY <1>6, <1>12 DEF LockUsersDeadlock
<1>13. CASE CheckBalance(r)
  <2>1. ASSUME NEW b, NEW c, UNCHANGED dbvars,
               send' = [send EXCEPT ![r].srcUserBalance = b, ![r].dstUserBalance = c,
                                    ![r].pc = "insert"]
        PROVE  ScanInv(r)'
    <3>1. send'[r].pc = "insert"
      BY <1>1, <2>1 DEF SendState
    <3> QED BY <1>3, <1>13, <2>1, <3>1 DEF CheckBalance
  <2> QED BY <1>6, <1>13, <2>1 DEF CheckBalance
<1>14. CASE CreateTransfer(r) \/ UpdateSrc(r) \/ UpdateDst(r)
  <2>1. tx[r].status = "open" /\ ~At(r, "rows")
    BY <1>2a, <1>14 DEF CreateTransfer, UpdateSrc, UpdateDst, Inv, SendInv
  <2>2. ASSUME NEW x
        PROVE  /\ [tx[r] EXCEPT !.transfers = x].status = "open"
               /\ [tx[r] EXCEPT !.transfers = x].at = tx[r].at
               /\ [tx[r] EXCEPT !.balance = x].status = "open"
               /\ [tx[r] EXCEPT !.balance = x].at = tx[r].at
    BY <1>1, <2>1 DEF Session
  <2>3. CASE CreateTransfer(r)
    <3>1. /\ Stage(r, [tx[r] EXCEPT !.transfers = @ \cup {NewTransferRow(r)}])
          /\ ~At(r, "select")'
      BY <1>5, <2>3 DEF CreateTransfer
    <3> QED BY <1>1, <2>1, <2>2, <3>1, ScanStaged
  <2>4. ASSUME NEW u, NEW b, NEW pc, pc # "select", SendUpdateBalance(r, u, b, pc)
        PROVE  ScanInv(r)'
    <3>1. CASE SendFail(r, "internal")
      BY <1>6, <3>1
    <3>2. CASE Stage(r, [tx[r] EXCEPT !.balance = Put(@, u, b)]) /\ SendGoto(r, pc)
      <4>1. ~At(r, "select")'
        BY <1>5, <2>4, <3>2
      <4> QED BY <1>1, <2>1, <2>2, <3>2, <4>1, ScanStaged
    <3> QED BY <2>4, <3>1, <3>2 DEF SendUpdateBalance
  <2> QED BY <1>14, <2>3, <2>4 DEF UpdateSrc, UpdateDst
<1>15. CASE CommitTransfer(r)
  BY <1>1, <1>15, ScanEnded DEF CommitTransfer, Commit
<1>16. CASE CancelSend(r)
  <2>1. ~At(r, "select")' /\ send'[r].pc # "select"
    BY <1>1, <1>4, <1>16 DEF CancelSend, At
  <2>2. tx[r].status = "none" => send[r].pc # "rows"
    BY DEF Inv, SendInv
  <2> QED BY <1>1, <1>3, <1>16, <2>1, <2>2, ScanCut DEF CancelSend
<1> QED BY <1>7, <1>8, <1>9, <1>10, <1>11, <1>12, <1>13, <1>14, <1>15, <1>16 DEF SendStep

\* A step of a handler of /api/buy/{item}.
LEMMA BuyScan ==
  ASSUME Inv, NEW r \in BuyRequest, ScanInv(r),
         (\E u \in tokens : GetAPIBuyItem(r, u)) \/ BuyStep(r) \/ CancelBuy(r)
  PROVE  ScanInv(r)'
<1>1. /\ r \in Request /\ r \notin SendRequest
      /\ buy \in [BuyRequest -> BuyState] /\ buy[r] \in BuyState
      /\ tx \in [Request -> Session] /\ tx[r] \in Session
  BY RequestAssumption DEF Inv, BuyTypeOK, DBInv, DBTypeOK
<1>2. buy'[r].pc # "select" => ~At(r, "select")'
  BY <1>1 DEF At
<1>2a. buy[r].pc # "rows" => ~At(r, "rows")
  BY <1>1 DEF At
<1>3. ASSUME buy'[r].pc # "select", UNCHANGED dbvars, buy[r].pc # "rows" \/ Selected(r)
      PROVE  ScanInv(r)'
  <2>1. tx'[r] = tx[r] /\ tx[r].at = NoUser /\ locks' = locks
    BY <1>1, <1>2a, <1>3, WaitsInSelect DEF dbvars, Selected
  <2> QED BY <1>1, <1>2, <1>3, <2>1, ScanKept
<1>4. ASSUME NEW resp, BuyReturn(r, resp) PROVE ~At(r, "select")'
  <2>1. buy'[r].pc = "done"
    BY <1>1, <1>4 DEF BuyReturn, BuyState
  <2> QED BY <1>2, <2>1
<1>5. ASSUME NEW pc, BuyGoto(r, pc), pc # "select" PROVE ~At(r, "select")'
  <2>1. buy'[r].pc = pc
    BY <1>1, <1>5 DEF BuyGoto, BuyState
  <2> QED BY <1>2, <1>5, <2>1
<1>6. ASSUME NEW resp, BuyFail(r, resp) PROVE ScanInv(r)'
  BY <1>1, <1>4, <1>6, ScanFailed DEF BuyFail
<1>7. CASE \E u \in tokens : GetAPIBuyItem(r, u)
  <2>1. PICK u \in tokens, item \in BuyItem :
          buy' = [buy EXCEPT ![r].user = u, ![r].item = item,
                             ![r].pc = IF item # "" THEN "lookup" ELSE "done",
                             ![r].resp = IF item # "" THEN "none" ELSE "badRequest"]
    BY <1>7 DEF GetAPIBuyItem
  <2>2. buy'[r].pc # "select"
    <3>1. CASE item # ""
      BY <1>1, <2>1, <3>1 DEF BuyState
    <3>2. CASE item = ""
      BY <1>1, <2>1, <3>2 DEF BuyState
    <3> QED BY <3>1, <3>2
  <2> QED BY <1>3, <1>7, <2>2 DEF GetAPIBuyItem
<1>8. CASE LookupItem(r)
  <2>1. buy'[r].pc \in {"begin", "done"}
    <3>1. CASE BuyReturn(r, "itemNotExist")
      BY <1>1, <3>1 DEF BuyReturn, BuyState
    <3>2. CASE buy' = [buy EXCEPT ![r].price = Price[buy[r].item], ![r].pc = "begin"]
      <4>1. buy'[r] = [buy[r] EXCEPT !.price = Price[buy[r].item], !.pc = "begin"]
        BY <1>1, <3>2
      <4> HIDE <3>2
      <4> QED BY <1>1, <4>1 DEF BuyState
    <3> QED BY <1>8, <3>1, <3>2 DEF LookupItem
  <2> QED BY <1>3, <1>8, <2>1 DEF LookupItem
<1>9. CASE BeginPurchase(r)
  BY <1>1, <1>9, ScanBegun DEF BeginPurchase, Inv, BuyInv
<1>10. CASE LockBuyer(r)
  <2>1. At(r, "select") /\ tx[r].status # "none"
    BY <1>10 DEF LockBuyer, At, Inv, BuyInv
  <2>2. buy'[r].pc = "rows" /\ buy'[r].user = buy[r].user
    BY <1>1, <1>10 DEF LockBuyer, BuyGoto, BuyState
  <2>3. ~At(r, "select")' /\ At(r, "rows")' /\ Selects(r)' = {buy[r].user}
    BY <1>1, <1>2, <2>2 DEF At, Selects
  <2> QED BY <1>1, <1>10, <2>1, <2>3, ScanStarts DEF LockBuyer
<1>11. CASE LockBuyerRow(r)
  <2>1. ~At(r, "select")' /\ At(r, "rows")' /\ Selects(r)' = Selects(r)
    BY <1>1, <1>2, <1>11 DEF LockBuyerRow, At, Selects
  <2> QED BY <1>1, <1>11, <2>1, ScanGoesOn DEF LockBuyerRow
<1>12. CASE CheckFunds(r)
  <2>1. ASSUME NEW c, UNCHANGED dbvars,
               buy' = [buy EXCEPT ![r].balance = c, ![r].pc = "insert"]
        PROVE  ScanInv(r)'
    <3>1. buy'[r].pc = "insert"
      BY <1>1, <2>1 DEF BuyState
    <3> QED BY <1>3, <1>12, <2>1, <3>1 DEF CheckFunds
  <2> QED BY <1>6, <1>12, <2>1 DEF CheckFunds
<1>13. CASE CreatePurchase(r) \/ UpdateBuyer(r)
  <2>1. tx[r].status = "open" /\ ~At(r, "rows")
    BY <1>2a, <1>13 DEF CreatePurchase, UpdateBuyer, Inv, BuyInv
  <2>2. ASSUME NEW x
        PROVE  /\ [tx[r] EXCEPT !.purchases = x].status = "open"
               /\ [tx[r] EXCEPT !.purchases = x].at = tx[r].at
               /\ [tx[r] EXCEPT !.balance = x].status = "open"
               /\ [tx[r] EXCEPT !.balance = x].at = tx[r].at
    BY <1>1, <2>1 DEF Session
  <2>3. CASE CreatePurchase(r)
    <3>1. /\ Stage(r, [tx[r] EXCEPT !.purchases = @ \cup {NewPurchaseRow(r)}])
          /\ ~At(r, "select")'
      BY <1>5, <2>3 DEF CreatePurchase
    <3> QED BY <1>1, <2>1, <2>2, <3>1, ScanStaged
  <2>4. CASE UpdateBuyer(r)
    <3>1. /\ Stage(r, [tx[r] EXCEPT !.balance = Put(@, buy[r].user, buy[r].balance)])
          /\ ~At(r, "select")'
      BY <1>5, <2>4 DEF UpdateBuyer
    <3> QED BY <1>1, <2>1, <2>2, <3>1, ScanStaged
  <2> QED BY <1>13, <2>3, <2>4
<1>14. CASE CommitPurchase(r)
  BY <1>1, <1>14, ScanEnded DEF CommitPurchase, Commit
<1>15. CASE CancelBuy(r)
  <2>1. ~At(r, "select")' /\ buy'[r].pc # "select"
    BY <1>1, <1>4, <1>15 DEF CancelBuy, At
  <2>2. tx[r].status = "none" => buy[r].pc # "rows"
    BY DEF Inv, BuyInv
  <2> QED BY <1>1, <1>3, <1>15, <2>1, <2>2, ScanCut DEF CancelBuy
<1> QED BY <1>7, <1>8, <1>9, <1>10, <1>11, <1>12, <1>13, <1>14, <1>15 DEF BuyStep

\* A crash: whoever waited for a lock is gone.
LEMMA CrashScan ==
  ASSUME Inv, Crash, NEW r \in Request, ScanInv(r)
  PROVE  ScanInv(r)'
<1>1. tx[r] \in Session /\ locks' = locks
  BY DEF Inv, DBInv, DBTypeOK, Crash
<1>2. At(r, "select")' => At(r, "select")
  <2>1. ASSUME r \in SendRequest, send'[r].pc = "select" PROVE send[r].pc = "select"
    <3>1. send[r] \in SendState
      BY <2>1 DEF Inv, SendTypeOK
    <3>2. SendInFlight(r) => send'[r].pc = "done"
      BY <2>1, <3>1 DEF Crash, SendState
    <3>3. ~SendInFlight(r) => send'[r] = send[r]
      BY <2>1 DEF Crash
    <3> QED BY <2>1, <3>2, <3>3
  <2>2. ASSUME r \in BuyRequest, buy'[r].pc = "select" PROVE buy[r].pc = "select"
    <3>1. buy[r] \in BuyState
      BY <2>2 DEF Inv, BuyTypeOK
    <3>2. BuyInFlight(r) => buy'[r].pc = "done"
      BY <2>2, <3>1 DEF Crash, BuyState
    <3>3. ~BuyInFlight(r) => buy'[r] = buy[r]
      BY <2>2 DEF Crash
    <3> QED BY <2>2, <3>2, <3>3
  <2> QED BY <2>1, <2>2 DEF At
<1>3. CASE tx[r].status = "open"
  <2>1. PICK status \in {"committing", "aborting"} :
          tx'[r] = [tx[r] EXCEPT !.status = status, !.want = {}, !.at = NoUser]
    BY <1>3 DEF Crash
  <2>2. tx'[r].status = status /\ tx'[r].at = NoUser
    BY <1>1, <2>1 DEF Session
  <2> QED BY <1>1, <1>2, <2>2, ScanKept
<1>4. CASE tx[r].status # "open"
  <2>1. tx'[r] = tx[r]
    BY <1>4 DEF Crash
  <2>2. ~At(r, "rows")
    BY <1>4 DEF At, Inv, SendInv, BuyInv
  <2> QED BY <1>1, <1>2, <2>1, <2>2, ScanKept, WaitsInSelect
<1> QED BY <1>3, <1>4

\* Every step keeps ScanInv of every request.
LEMMA ScanNext ==
  ASSUME Inv, [Next]_vars, NEW r \in Request, ScanInv(r)
  PROVE  ScanInv(r)'
<1>1. ASSUME NEW q \in Request, Alone(q), q # r,
             r \in SendRequest => send'[r] = send[r], r \in BuyRequest => buy'[r] = buy[r]
      PROVE  ScanInv(r)'
  <2>1. tx'[r] = tx[r] /\ \A u \in UserID : locks'[u] = r => locks[u] = r
    BY <1>1 DEF Alone
  <2>2. /\ At(r, "select")' => At(r, "select")
        /\ At(r, "rows") => At(r, "rows")'
    BY <1>1 DEF At
  <2>3. Selects(r)' = Selects(r)
    BY <1>1, RequestAssumption DEF Selects
  <2> QED BY <2>1, <2>2, <2>3, ScanKept
<1>2. ASSUME NEW q \in SendRequest, OnlySend,
             (\E u \in tokens : PostAPISendCoin(q, u)) \/ SendStep(q) \/ CancelSend(q)
      PROVE  ScanInv(r)'
  <2>1. CASE q = r
    BY <1>2, <2>1, SendScan
  <2>2. CASE q # r
    <3>1. Alone(q) /\ q \in Request
      BY <1>2, <2>2, SendAlone, RequestAssumption
    <3>2. (r \in SendRequest => send'[r] = send[r]) /\ buy' = buy
      BY <1>2, <2>2, SendAlone DEF OnlySend
    <3> QED BY <1>1, <2>2, <3>1, <3>2
  <2> QED BY <2>1, <2>2
<1>3. ASSUME NEW q \in BuyRequest, OnlyBuy,
             (\E u \in tokens : GetAPIBuyItem(q, u)) \/ BuyStep(q) \/ CancelBuy(q)
      PROVE  ScanInv(r)'
  <2>1. CASE q = r
    BY <1>3, <2>1, BuyScan
  <2>2. CASE q # r
    <3>1. Alone(q) /\ q \in Request
      BY <1>3, <2>2, BuyAlone, RequestAssumption
    <3>2. (r \in BuyRequest => buy'[r] = buy[r]) /\ send' = send
      BY <1>3, <2>2, BuyAlone DEF OnlyBuy
    <3> QED BY <1>1, <2>2, <3>1, <3>2
  <2> QED BY <2>1, <2>2
<1>4. ASSUME NEW q \in Request, OrphanStep(q) PROVE ScanInv(r)'
  <2>1. CASE q = r
    BY <1>4, <2>1, ScanEnded DEF OrphanStep, OrphanRollback, OrphanCommit, Rollback, Commit
  <2>2. CASE q # r
    <3>1. Alone(q) /\ send' = send /\ buy' = buy
      BY <1>4, OrphanAlone DEF OrphanStep, OnlyDB
    <3> QED BY <1>1, <2>2, <3>1
  <2> QED BY <2>1, <2>2
<1>5. CASE UNCHANGED <<tx, locks, send, buy>>
  <2>1. /\ At(r, "select")' => At(r, "select")
        /\ At(r, "rows") => At(r, "rows")'
        /\ Selects(r)' = Selects(r)
    BY <1>5 DEF At, Selects
  <2> QED BY <1>5, <2>1, ScanKept
<1> QED BY <1>2, <1>3, <1>4, <1>5, CrashScan, SessionsStay
    DEF Next, OnlyAuth, OnlyInfo, Idle, vars, dbvars

-----------------------------------------------------------------------------
(* Deadlocks *)

\* Whoever waits in a cycle holds a row that another one waits for, and not the
\* one it waits for itself: its SELECT is for two rows.
LEMMA VictimsAreTransfers ==
  ASSUME Inv, LockInv
  PROVE  DeadlockVictims
<1>1. SUFFICES ASSUME NEW r \in Request, NEW C \in SUBSET Request, r \in C,
                      \A s \in C : tx[s].at # NoUser,
                      {locks[tx[s].at] : s \in C} = C
               PROVE  /\ r \in SendRequest /\ send[r].pc = "rows"
                      /\ tx[r].at \in {send[r].src, send[r].dst}
                      /\ LockedRows(r) = {send[r].src, send[r].dst} \ {tx[r].at}
                      /\ tx[r].transfers = {} /\ DOMAIN tx[r].balance = {}
  BY DEF DeadlockVictims, Deadlocked
<1>2. PICK w \in C : locks[tx[w].at] = r
  BY <1>1
<1>3. tx[w].at \in LockedRows(r)
  BY <1>1, <1>2 DEF Inv, DBInv, DBTypeOK, Session, LockedRows
<1>4. /\ At(r, "rows") /\ tx[r].at \in tx[r].want
      /\ tx[r].want \subseteq Selects(r)
      /\ LockedRows(r) \subseteq Selects(r) \ tx[r].want
  BY <1>1 DEF LockInv, ScanInv, Inv, DBInv, SessionInv
<1>5. r \in SendRequest /\ send[r].pc = "rows"
  <2>1. r \notin BuyRequest
    BY <1>3, <1>4, RequestAssumption DEF Selects
  <2> QED BY <1>4, <2>1 DEF At
<1>6. /\ tx[r].at \in {send[r].src, send[r].dst}
      /\ LockedRows(r) = {send[r].src, send[r].dst} \ {tx[r].at}
  <2>1. Selects(r) = {send[r].src, send[r].dst}
    BY <1>5 DEF Selects
  <2> QED BY <1>3, <1>4, <2>1
<1>7. tx[r].transfers = {} /\ DOMAIN tx[r].balance = {}
  BY <1>5 DEF Inv, SendInv, NothingStaged
<1> QED BY <1>5, <1>6, <1>7

\* Nobody holds anything at first.
LEMMA ScanInit ==
  ASSUME Init
  PROVE  LockInv
<1>1. /\ locks = [u \in UserID |-> NoRequest] /\ tx = [r \in Request |-> NoSession]
      /\ NoRequest \notin Request
  BY ConstantsAssumption DEF Init, DBInit
<1>2. \A r \in Request : tx[r].at = NoUser
  BY <1>1 DEF NoSession
<1> QED BY <1>1, <1>2 DEF LockInv, ScanInv, HoldsNothing

\* What a session has locked and still wants, in whatever order it meets the rows.
THEOREM LockInvariantHolds == Spec => []LockInv
<1>1. Init => LockInv
  BY ScanInit
<1>2. Inv /\ LockInv /\ [Next]_vars => LockInv'
  <2>1. SUFFICES ASSUME Inv, LockInv, [Next]_vars, NEW r \in Request PROVE ScanInv(r)'
    BY DEF LockInv
  <2> QED BY <2>1, ScanNext DEF LockInv
<1> QED BY <1>1, <1>2, InvariantHolds, PTL DEF Spec

\* However many transfers and purchases wait in a cycle, all of them are transfers
\* in the SELECT of their two accounts, with one account locked and nothing
\* written: failing any of them with an error undoes nothing and frees a row.
THEOREM VictimsLoseNothing == Spec => []DeadlockVictims
<1>1. Inv /\ LockInv => DeadlockVictims
  BY VictimsAreTransfers
<1> QED BY <1>1, InvariantHolds, LockInvariantHolds, PTL

=============================================================================
