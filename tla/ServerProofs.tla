---------------------------- MODULE ServerProofs ----------------------------
(***************************************************************************)
(* Inv is an invariant of Server, and what follows from it.  A step of one *)
(* request is shown to keep the part of Inv about that request; the rest   *)
(* follows from what the lemmas of DatabaseProofs say it leaves untouched. *)
(***************************************************************************)
EXTENDS DatabaseProofs

-----------------------------------------------------------------------------
(* Requests that do not take the step *)

\* A handler that is not touched keeps its invariant.
LEMMA SendFrame ==
  ASSUME NEW s \in SendRequest, SendInv(s), Untouched(s), send'[s] = send[s]
  PROVE  SendInv(s)'
<1>1. /\ tx'[s] = tx[s] /\ send'[s] = send[s]
      /\ \A t \in transfers' : t.id = s => t \in transfers
  BY DEF Untouched
<1>2. NewTransferRow(s)' = NewTransferRow(s)
  BY <1>1 DEF NewTransferRow
<1>3. SendChecked(s) => SendFresh(s)'
  <2>1. SUFFICES ASSUME SendChecked(s) PROVE SendFresh(s)'
    OBVIOUS
  <2>2. SendFresh(s) /\ send[s].src \in UserID /\ send[s].dst \in UserID
    BY <2>1 DEF SendInv
  <2> QED BY <1>1, <2>2 DEF Untouched, SendFresh
<1> QED BY <1>1, <1>2, <1>3 DEF SendInv, SendChecked, NothingStaged, TransferStaged

LEMMA BuyFrame ==
  ASSUME NEW s \in BuyRequest, BuyInv(s), Untouched(s), buy'[s] = buy[s]
  PROVE  BuyInv(s)'
<1>1. /\ tx'[s] = tx[s] /\ buy'[s] = buy[s]
      /\ \A p \in purchases' : p.id = s => p \in purchases
  BY DEF Untouched
<1>2. NewPurchaseRow(s)' = NewPurchaseRow(s)
  BY <1>1 DEF NewPurchaseRow
<1>3. BuyChecked(s) => BuyFresh(s)'
  <2>1. SUFFICES ASSUME BuyChecked(s) PROVE BuyFresh(s)'
    OBVIOUS
  <2>2. BuyFresh(s) /\ buy[s].user \in UserID
    BY <2>1 DEF BuyInv
  <2> QED BY <1>1, <2>2 DEF Untouched, BuyFresh
<1> QED BY <1>1, <1>2, <1>3 DEF BuyInv, BuyChecked, NothingStaged, PurchaseStaged

\* A step of the handler r of /api/sendCoin keeps Inv when it keeps DBInv and
\* the part of Inv about r, and does not touch the others.
LEMMA SendKeepsInv ==
  ASSUME Inv, NEW r \in SendRequest, OnlySend,
         DBInv', OthersUntouched(r),
         SendTypeOK', \A s \in SendRequest \ {r} : send'[s] = send[s],
         SendInv(r)'
  PROVE  Inv'
<1>2. ASSUME NEW s \in SendRequest PROVE SendInv(s)'
  <2>1. CASE s # r
    <3>1. send'[s] = send[s] /\ SendInv(s) /\ Untouched(s)
      BY <2>1, RequestAssumption DEF Inv, SendTypeOK, OthersUntouched
    <3> QED BY <3>1, SendFrame
  <2> QED BY <2>1
<1>3. ASSUME NEW s \in BuyRequest PROVE BuyInv(s)'
  <2>1. buy'[s] = buy[s] /\ BuyInv(s) /\ Untouched(s)
    BY RequestAssumption DEF Inv, OnlySend, OthersUntouched
  <2> QED BY <2>1, BuyFrame
<1>4. BuyTypeOK' /\ AuthInv'
  BY DEF Inv, OnlySend, BuyTypeOK, AuthTypeOK, AuthInv, AuthInFlight
<1> QED BY <1>2, <1>3, <1>4 DEF Inv

LEMMA BuyKeepsInv ==
  ASSUME Inv, NEW r \in BuyRequest, OnlyBuy,
         DBInv', OthersUntouched(r),
         BuyTypeOK', \A s \in BuyRequest \ {r} : buy'[s] = buy[s],
         BuyInv(r)'
  PROVE  Inv'
<1>2. ASSUME NEW s \in BuyRequest PROVE BuyInv(s)'
  <2>1. CASE s # r
    <3>1. buy'[s] = buy[s] /\ BuyInv(s) /\ Untouched(s)
      BY <2>1, RequestAssumption DEF Inv, BuyTypeOK, OthersUntouched
    <3> QED BY <3>1, BuyFrame
  <2> QED BY <2>1
<1>3. ASSUME NEW s \in SendRequest PROVE SendInv(s)'
  <2>1. send'[s] = send[s] /\ SendInv(s) /\ Untouched(s)
    BY RequestAssumption DEF Inv, OnlyBuy, OthersUntouched
  <2> QED BY <2>1, SendFrame
<1>4. SendTypeOK' /\ AuthInv'
  BY DEF Inv, OnlyBuy, SendTypeOK, AuthTypeOK, AuthInv, AuthInFlight
<1> QED BY <1>2, <1>3, <1>4 DEF Inv

\* A step that leaves the handlers of both alone and no session touched.
LEMMA OthersKeepInv ==
  ASSUME Inv, DBInv', \A s \in Request : Untouched(s), UNCHANGED <<send, buy>>, AuthInv'
  PROVE  Inv'
<1>1. ASSUME NEW s \in SendRequest PROVE SendInv(s)'
  <2>1. send'[s] = send[s] /\ SendInv(s) /\ Untouched(s)
    BY RequestAssumption DEF Inv
  <2> QED BY <2>1, SendFrame
<1>2. ASSUME NEW s \in BuyRequest PROVE BuyInv(s)'
  <2>1. buy'[s] = buy[s] /\ BuyInv(s) /\ Untouched(s)
    BY RequestAssumption DEF Inv
  <2> QED BY <2>1, BuyFrame
<1> QED BY <1>1, <1>2 DEF Inv, SendTypeOK, BuyTypeOK

\* A step that leaves the database alone touches no session and keeps DBInv.
LEMMA StutterDB ==
  ASSUME DBInv, UNCHANGED dbvars
  PROVE  DBInv' /\ \A s \in Request : Untouched(s)
<1>1. /\ users' = users /\ transfers' = transfers /\ purchases' = purchases
      /\ locks' = locks /\ tx' = tx /\ clock' = clock
  BY DEF dbvars
<1> QED BY <1>1 DEF DBInv, DBTypeOK, SessionInv, Untouched

-----------------------------------------------------------------------------
(* POST /api/sendCoin *)

\* The handler only moves on or returns: all it remembers stays.
LEMMA SendMoves ==
  ASSUME SendTypeOK, NEW r \in SendRequest,
         NEW pc \in {"recv", "lookup", "begin", "select", "rows", "insert",
                     "updateSrc", "updateDst", "commit", "done"},
         NEW resp \in SendOutcome,
         \/ SendGoto(r, pc)
         \/ SendReturn(r, resp) /\ pc = "done"
  PROVE  /\ SendTypeOK' /\ \A s \in SendRequest \ {r} : send'[s] = send[s]
         /\ send'[r].pc = pc
         /\ send'[r].src = send[r].src /\ send'[r].dst = send[r].dst
         /\ send'[r].amount = send[r].amount
         /\ send'[r].srcUserBalance = send[r].srcUserBalance
         /\ send'[r].dstUserBalance = send[r].dstUserBalance
<1>1. send \in [SendRequest -> SendState] /\ send[r] \in SendState
  BY DEF SendTypeOK
<1>2. CASE SendGoto(r, pc)
  <2>1. send' = [send EXCEPT ![r] = [send[r] EXCEPT !.pc = pc]]
    BY <1>1, <1>2 DEF SendGoto
  <2> QED BY <1>1, <2>1 DEF SendState, SendTypeOK
<1>3. CASE SendReturn(r, resp) /\ pc = "done"
  <2>1. send' = [send EXCEPT ![r] = [send[r] EXCEPT !.pc = pc, !.resp = resp]]
    BY <1>1, <1>3 DEF SendReturn
  <2> QED BY <1>1, <2>1 DEF SendState, SendTypeOK
<1> QED BY <1>2, <1>3

\* An early return inside the transaction, whichever way the rollback goes.
LEMMA SendFailInv ==
  ASSUME Inv, NEW r \in SendRequest, OnlySend, NEW resp \in SendOutcome,
         send[r].pc \notin {"recv", "lookup", "begin", "done"}, SendFail(r, resp)
  PROVE  Inv'
<1>1. r \in Request /\ SendInv(r) /\ DBInv /\ SendTypeOK
  BY RequestAssumption DEF Inv
<1>2. SendReturn(r, resp) /\ (Rollback(r) \/ Disconnect(r, "aborting"))
  BY DEF SendFail, DeferredRollback
<1>3. /\ SendTypeOK' /\ \A s \in SendRequest \ {r} : send'[s] = send[s]
      /\ send'[r].pc = "done"
  BY <1>1, <1>2, SendMoves
<1>4. /\ DBInv' /\ OthersUntouched(r) /\ tx'[r].status \in {"none", "aborting"}
      /\ transfers' = transfers
  <2>1. CASE Rollback(r)
    BY <1>1, <2>1, RollbackDB, NoSessionType DEF Rollback
  <2>2. CASE Disconnect(r, "aborting")
    BY <1>1, <2>2, DisconnectDB
  <2> QED BY <1>2, <2>1, <2>2
<1>5. \A t \in transfers' : t.id # r
  BY <1>1, <1>4 DEF SendInv
<1>6. SendInv(r)'
  BY <1>3, <1>4, <1>5 DEF SendInv, SendChecked
<1> QED BY <1>3, <1>4, <1>6, SendKeepsInv

\* Arrival and validation.
LEMMA PostAPISendCoinInv ==
  ASSUME Inv, NEW r \in SendRequest, OnlySend, NEW u \in tokens, PostAPISendCoin(r, u)
  PROVE  Inv'
<1>1. /\ r \in Request /\ SendInv(r) /\ DBInv /\ SendTypeOK
      /\ u \in UserID /\ send[r].pc = "recv" /\ UNCHANGED dbvars
  BY RequestAssumption DEF Inv, AuthInv, AuthTypeOK, PostAPISendCoin
<1>2. PICK body \in SendBody :
        LET valid == body.toUser # "" /\ body.amount > 0
        IN  send' = [send EXCEPT
                       ![r].src = u, ![r].to = body.toUser, ![r].amount = body.amount,
                       ![r].pc = IF valid THEN "lookup" ELSE "done",
                       ![r].resp = IF valid THEN "none" ELSE "badRequest"]
  BY DEF PostAPISendCoin
<1>3. body.toUser \in Username \cup {""} /\ body.amount \in Int
  BY SendAssumption
<1>4. /\ SendTypeOK' /\ \A s \in SendRequest \ {r} : send'[s] = send[s]
      /\ send'[r].pc \in {"lookup", "done"}
      /\ send'[r].pc = "lookup" => send'[r].src \in UserID /\ send'[r].amount > 0
  <2>1. send \in [SendRequest -> SendState] /\ send[r] \in SendState
    BY <1>1 DEF SendTypeOK
  <2>2. CASE body.toUser # "" /\ body.amount > 0
    <3>1. send' = [send EXCEPT ![r] =
                     [send[r] EXCEPT !.src = u, !.to = body.toUser, !.amount = body.amount,
                                     !.pc = "lookup", !.resp = "none"]]
      BY <1>2, <2>1, <2>2
    <3> QED BY <1>1, <1>3, <2>1, <2>2, <3>1 DEF SendTypeOK, SendState, SendOutcome
  <2>3. CASE ~(body.toUser # "" /\ body.amount > 0)
    <3>1. send' = [send EXCEPT ![r] =
                     [send[r] EXCEPT !.src = u, !.to = body.toUser, !.amount = body.amount,
                                     !.pc = "done", !.resp = "badRequest"]]
      BY <1>2, <2>1, <2>3
    <3> QED BY <1>1, <1>3, <2>1, <3>1 DEF SendTypeOK, SendState, SendOutcome, SendRejected
  <2> QED BY <2>2, <2>3
<1>5. DBInv' /\ OthersUntouched(r) /\ tx' = tx /\ transfers' = transfers
  BY <1>1, StutterDB DEF OthersUntouched, dbvars
<1>6. SendInv(r)'
  BY <1>1, <1>4, <1>5 DEF SendInv, SendChecked
<1> QED BY <1>4, <1>5, <1>6, SendKeepsInv

\* The recipient is found, outside a transaction.
LEMMA LookupDstInv ==
  ASSUME Inv, NEW r \in SendRequest, OnlySend, LookupDst(r)
  PROVE  Inv'
<1>1. /\ r \in Request /\ SendInv(r) /\ DBInv /\ SendTypeOK
      /\ send[r].pc = "lookup" /\ UNCHANGED dbvars
  BY RequestAssumption DEF Inv, LookupDst
<1>2. DBInv' /\ OthersUntouched(r) /\ tx' = tx /\ transfers' = transfers
  BY <1>1, StutterDB DEF OthersUntouched, dbvars
<1>3. \/ SendReturn(r, "dstUserNotFound") \/ SendReturn(r, "srcAndDstEqual")
      \/ \E u \in GetUserByUsername(send[r].to) \ {send[r].src} :
           send' = [send EXCEPT ![r].dst = u, ![r].pc = "begin"]
  BY DEF LookupDst
<1>4. CASE SendReturn(r, "dstUserNotFound") \/ SendReturn(r, "srcAndDstEqual")
  <2>1. /\ SendTypeOK' /\ \A s \in SendRequest \ {r} : send'[s] = send[s]
        /\ send'[r].pc = "done"
    BY <1>1, <1>4, SendMoves DEF SendOutcome, SendRejected
  <2>2. SendInv(r)'
    BY <1>1, <1>2, <2>1 DEF SendInv, SendChecked
  <2> QED BY <1>2, <2>1, <2>2, SendKeepsInv
<1>5. ASSUME NEW u \in GetUserByUsername(send[r].to) \ {send[r].src},
             send' = [send EXCEPT ![r].dst = u, ![r].pc = "begin"]
      PROVE  Inv'
  <2>1. u \in UserID
    BY <1>1 DEF GetUserByUsername, DBInv, DBTypeOK
  <2>2. /\ SendTypeOK' /\ \A s \in SendRequest \ {r} : send'[s] = send[s]
        /\ send'[r].pc = "begin" /\ send'[r].dst = u
        /\ send'[r].src = send[r].src /\ send'[r].amount = send[r].amount
    <3>1. send \in [SendRequest -> SendState] /\ send[r] \in SendState
      BY <1>1 DEF SendTypeOK
    <3>2. /\ send'[r] = [send[r] EXCEPT !.dst = u, !.pc = "begin"]
          /\ send' = [send EXCEPT ![r] = send'[r]]
      BY <1>5, <3>1
    <3>3. /\ send'[r] \in SendState /\ send'[r].pc = "begin" /\ send'[r].dst = u
          /\ send'[r].src = send[r].src /\ send'[r].amount = send[r].amount
      BY <2>1, <3>1, <3>2 DEF SendState
    <3> QED BY <3>1, <3>2, <3>3 DEF SendTypeOK
  <2>3. SendInv(r)'
    BY <1>1, <1>2, <1>5, <2>1, <2>2 DEF SendInv, SendChecked
  <2> QED BY <1>2, <2>2, <2>3, SendKeepsInv
<1> QED BY <1>3, <1>4, <1>5

\* BEGIN.
LEMMA BeginTransferInv ==
  ASSUME Inv, NEW r \in SendRequest, OnlySend, BeginTransfer(r)
  PROVE  Inv'
<1>1. /\ r \in Request /\ SendInv(r) /\ DBInv /\ SendTypeOK
      /\ send[r].pc = "begin" /\ Begin(r) /\ SendGoto(r, "select")
  BY RequestAssumption DEF Inv, BeginTransfer
<1>2. /\ SendTypeOK' /\ \A s \in SendRequest \ {r} : send'[s] = send[s]
      /\ send'[r].pc = "select" /\ send'[r].src = send[r].src
      /\ send'[r].dst = send[r].dst /\ send'[r].amount = send[r].amount
  BY <1>1, SendMoves DEF SendOutcome
<1>3. /\ DBInv' /\ OthersUntouched(r) /\ transfers' = transfers
      /\ tx'[r].status = "open" /\ NothingStaged(r)'
  BY <1>1, BeginDB DEF Begin
<1>4. SendInv(r)'
  BY <1>1, <1>2, <1>3 DEF SendInv, SendChecked
<1> QED BY <1>2, <1>3, <1>4, SendKeepsInv

\* SELECT ... FOR UPDATE is sent.
LEMMA LockUsersInv ==
  ASSUME Inv, NEW r \in SendRequest, OnlySend, LockUsers(r)
  PROVE  Inv'
<1>1. /\ r \in Request /\ SendInv(r) /\ DBInv /\ SendTypeOK
      /\ send[r].pc = "select" /\ SendGoto(r, "rows")
      /\ SelectForUpdate(r, {send[r].src, send[r].dst})
  BY RequestAssumption DEF Inv, LockUsers
<1>2. /\ SendTypeOK' /\ \A s \in SendRequest \ {r} : send'[s] = send[s]
      /\ send'[r].pc = "rows" /\ send'[r].src = send[r].src
      /\ send'[r].dst = send[r].dst /\ send'[r].amount = send[r].amount
  BY <1>1, SendMoves DEF SendOutcome
<1>3. NothingStaged(r) /\ tx[r].status = "open"
  BY <1>1 DEF SendInv
<1>4. /\ DBInv' /\ OthersUntouched(r) /\ transfers' = transfers
      /\ tx'[r].status = "open" /\ NothingStaged(r)'
  BY <1>1, <1>3, SelectDB DEF SelectForUpdate
<1>5. SendInv(r)'
  BY <1>1, <1>2, <1>4 DEF SendInv, SendChecked
<1> QED BY <1>2, <1>4, <1>5, SendKeepsInv

\* One row is locked.
LEMMA LockUsersRowInv ==
  ASSUME Inv, NEW r \in SendRequest, OnlySend, LockUsersRow(r)
  PROVE  Inv'
<1>1. /\ r \in Request /\ SendInv(r) /\ DBInv /\ SendTypeOK
      /\ send[r].pc = "rows" /\ LockRow(r) /\ send' = send
  BY RequestAssumption DEF Inv, LockUsersRow
<1>2. NothingStaged(r) /\ tx[r].status = "open"
  BY <1>1 DEF SendInv
<1>3. /\ DBInv' /\ OthersUntouched(r) /\ transfers' = transfers
      /\ tx'[r].status = "open" /\ NothingStaged(r)'
  BY <1>1, <1>2, LockRowDB DEF LockRow
<1>4. SendInv(r)'
  BY <1>1, <1>3 DEF SendInv, SendChecked
<1>5. SendTypeOK' /\ \A s \in SendRequest \ {r} : send'[s] = send[s]
  BY <1>1 DEF SendTypeOK
<1> QED BY <1>3, <1>4, <1>5, SendKeepsInv

\* The rows have been returned: the balance is checked and the new balances
\* are computed from rows that r has locked.
LEMMA CheckBalanceInv ==
  ASSUME Inv, NEW r \in SendRequest, OnlySend, CheckBalance(r)
  PROVE  Inv'
<1> DEFINE s == send[r]
           locked == {s.src, s.dst} \subseteq LockedRows(r)
<1>1. /\ r \in Request /\ SendInv(r) /\ DBInv /\ SendTypeOK /\ send[r].pc = "rows"
  BY RequestAssumption DEF Inv, CheckBalance
<1>2. \/ SendFail(r, "internal") \/ SendFail(r, "notEnough")
      \/ /\ locked
         /\ users[s.src].balance - s.amount >= 0
         /\ send' = [send EXCEPT
                       ![r].srcUserBalance = users[s.src].balance - s.amount,
                       ![r].dstUserBalance = users[s.dst].balance + s.amount,
                       ![r].pc = "insert"]
         /\ UNCHANGED dbvars
  BY DEF CheckBalance
<1>3. CASE SendFail(r, "internal") \/ SendFail(r, "notEnough")
  BY <1>1, <1>3, SendFailInv DEF SendOutcome, SendRejected
<1>4. CASE /\ locked
           /\ users[s.src].balance - s.amount >= 0
           /\ send' = [send EXCEPT
                         ![r].srcUserBalance = users[s.src].balance - s.amount,
                         ![r].dstUserBalance = users[s.dst].balance + s.amount,
                         ![r].pc = "insert"]
           /\ UNCHANGED dbvars
  <2>1. /\ locks[s.src] = r /\ locks[s.dst] = r /\ s.src # s.dst
        /\ s.src \in UserID /\ s.dst \in UserID /\ s.amount > 0 /\ s.amount \in Int
        /\ s \in SendState
    BY <1>1, <1>4 DEF LockedRows, SendInv, SendTypeOK, SendState
  <2>2. users[s.src].balance \in Int32 /\ users[s.dst].balance \in Int32
    <3>1. s.src \in DOMAIN users /\ s.dst \in DOMAIN users
      BY <1>1, <2>1, ConstantsAssumption DEF DBInv
    <3> QED BY <1>1, <3>1 DEF DBInv, DBTypeOK, UserRow
  <2> DEFINE sb == users[s.src].balance - s.amount
             db == users[s.dst].balance + s.amount
  <2>3. sb \in Int32 /\ db \in Int /\ s.amount \in 1..MaxInt32
    BY <1>4, <2>1, <2>2, ConstantsAssumption DEF Int32
  <2>4. sb \in Int
    BY <2>3, ConstantsAssumption DEF Int32
  <2>5. send' = [send EXCEPT ![r] = [s EXCEPT !.srcUserBalance = sb, !.dstUserBalance = db,
                                              !.pc = "insert"]]
    BY <1>1, <1>4 DEF SendTypeOK
  <2> HIDE DEF sb, db
  <2>6. /\ SendTypeOK' /\ \A q \in SendRequest \ {r} : send'[q] = send[q]
        /\ send'[r].pc = "insert" /\ send'[r].src = s.src /\ send'[r].dst = s.dst
        /\ send'[r].amount = s.amount
        /\ send'[r].srcUserBalance = sb /\ send'[r].dstUserBalance = db
    BY <1>1, <2>1, <2>3, <2>4, <2>5 DEF SendTypeOK, SendState
  <2>7. /\ DBInv' /\ OthersUntouched(r) /\ tx' = tx /\ transfers' = transfers
        /\ users' = users /\ locks' = locks
    BY <1>1, <1>4, StutterDB DEF OthersUntouched, dbvars
  <2>8. SendFresh(r)'
    BY <2>1, <2>6, <2>7 DEF SendFresh, sb, db
  <2>9. NothingStaged(r)' /\ tx'[r].status = "open" /\ \A t \in transfers' : t.id # r
    BY <1>1, <2>7 DEF SendInv, NothingStaged
  <2>10. SendInv(r)'
    BY <2>1, <2>3, <2>6, <2>8, <2>9 DEF SendInv, SendChecked
  <2> QED BY <2>6, <2>7, <2>10, SendKeepsInv
<1> QED BY <1>2, <1>3, <1>4

\* The transfers row is inserted; its amount fits the column.
LEMMA CreateTransferInv ==
  ASSUME Inv, NEW r \in SendRequest, OnlySend, CreateTransfer(r)
  PROVE  Inv'
<1> DEFINE session == [tx[r] EXCEPT !.transfers = @ \cup {NewTransferRow(r)}]
<1>1. /\ r \in Request /\ SendInv(r) /\ DBInv /\ SendTypeOK
      /\ send[r].pc = "insert" /\ Stage(r, session) /\ SendGoto(r, "updateSrc")
  BY RequestAssumption DEF Inv, CreateTransfer
<1>2. /\ SendTypeOK' /\ \A s \in SendRequest \ {r} : send'[s] = send[s]
      /\ send'[r].pc = "updateSrc" /\ send'[r].src = send[r].src
      /\ send'[r].dst = send[r].dst /\ send'[r].amount = send[r].amount
      /\ send'[r].srcUserBalance = send[r].srcUserBalance
      /\ send'[r].dstUserBalance = send[r].dstUserBalance
  BY <1>1, SendMoves DEF SendOutcome
<1>3. /\ SendFresh(r) /\ NothingStaged(r) /\ tx[r].status = "open"
      /\ send[r].src \in UserID /\ send[r].dst \in UserID
      /\ send[r].amount \in 1..MaxInt32 /\ \A t \in transfers : t.id # r
      /\ tx[r] \in Session /\ SessionInv(r, tx[r])
  BY <1>1 DEF SendInv, SendChecked, DBInv, DBTypeOK
<1>4. NewTransferRow(r) \in TransferRow /\ NewTransferRow(r).id = r
  BY <1>1, <1>3, ConstantsAssumption DEF NewTransferRow, TransferRow, Session, Int32
<1>5. /\ session \in Session /\ session.status = tx[r].status
      /\ session.created_at = tx[r].created_at
      /\ session.want = tx[r].want /\ session.at = tx[r].at
      /\ session.transfers = {NewTransferRow(r)}
      /\ session.purchases = {} /\ session.balance = tx[r].balance
      /\ DOMAIN session.balance = {}
  BY <1>3, <1>4 DEF Session, NothingStaged
<1> HIDE DEF session
<1>6. SessionInv(r, session)
  BY <1>3, <1>4, <1>5 DEF SessionInv
<1>7. /\ DBInv' /\ OthersUntouched(r) /\ tx'[r] = session
      /\ UNCHANGED <<users, locks, transfers>>
  BY <1>1, <1>6, StageDB DEF Stage
<1>8. NewTransferRow(r)' = NewTransferRow(r)
  BY <1>2, <1>5, <1>7 DEF NewTransferRow
<1>9. SendFresh(r)'
  BY <1>2, <1>3, <1>7 DEF SendFresh
<1>10. SendInv(r)'
  BY <1>1, <1>2, <1>3, <1>5, <1>7, <1>8, <1>9 DEF SendInv, SendChecked
<1> QED BY <1>2, <1>7, <1>10, SendKeepsInv

\* What Put does to a staged set of balances.
LEMMA PutBalance ==
  ASSUME NEW b \in UNION {[S -> Int32] : S \in SUBSET UserID},
         NEW u \in UserID, NEW v \in Int32
  PROVE  /\ Put(b, u, v) \in UNION {[S -> Int32] : S \in SUBSET UserID}
         /\ DOMAIN Put(b, u, v) = DOMAIN b \cup {u}
         /\ Put(b, u, v)[u] = v
         /\ \A x \in DOMAIN b : x # u => Put(b, u, v)[x] = b[x]
<1>1. DOMAIN b \subseteq UserID /\ b \in [DOMAIN b -> Int32]
  BY BalanceType
<1>2. Put(b, u, v) = [x \in DOMAIN b \cup {u} |-> IF x = u THEN v ELSE b[x]]
  BY DEF Put
<1>3. /\ DOMAIN Put(b, u, v) = DOMAIN b \cup {u}
      /\ Put(b, u, v)[u] = v
      /\ \A x \in DOMAIN b : x # u => Put(b, u, v)[x] = b[x]
      /\ Put(b, u, v) \in [DOMAIN b \cup {u} -> Int32]
  BY <1>1, <1>2
<1>4. Put(b, u, v) \in UNION {[S -> Int32] : S \in SUBSET UserID}
  BY <1>1, <1>3, BalanceType
<1> QED BY <1>3, <1>4

\* UPDATE of a balance that fits, on a row r has locked.
LEMMA UpdateBalanceDB ==
  ASSUME DBInv, NEW r \in Request, NEW u \in UserID, locks[u] = r, NEW v \in Int32,
         Stage(r, [tx[r] EXCEPT !.balance = Put(@, u, v)])
  PROVE  /\ DBInv' /\ OthersUntouched(r)
         /\ UNCHANGED <<users, transfers, purchases, locks>>
         /\ tx'[r].status = tx[r].status
         /\ tx'[r].created_at = tx[r].created_at
         /\ tx'[r].transfers = tx[r].transfers
         /\ tx'[r].purchases = tx[r].purchases
         /\ DOMAIN tx'[r].balance = DOMAIN tx[r].balance \cup {u}
         /\ tx'[r].balance[u] = v
         /\ \A x \in DOMAIN tx[r].balance : x # u => tx'[r].balance[x] = tx[r].balance[x]
<1> DEFINE b == Put(tx[r].balance, u, v)
           session == [tx[r] EXCEPT !.balance = b]
<1>1. tx[r] \in Session /\ SessionInv(r, tx[r])
  BY DEF DBInv, DBTypeOK
<1>2. tx[r].balance \in UNION {[S -> Int32] : S \in SUBSET UserID}
  BY <1>1 DEF Session
<1>3. /\ b \in UNION {[S -> Int32] : S \in SUBSET UserID}
      /\ DOMAIN b = DOMAIN tx[r].balance \cup {u}
      /\ b[u] = v
      /\ \A x \in DOMAIN tx[r].balance : x # u => b[x] = tx[r].balance[x]
  BY <1>2, PutBalance, ZenonT(40)
<1>4. Stage(r, session)
  OBVIOUS
<1> HIDE DEF b
<1>5. /\ session \in Session /\ session.status = tx[r].status
      /\ session.created_at = tx[r].created_at
      /\ session.want = tx[r].want /\ session.at = tx[r].at
      /\ session.transfers = tx[r].transfers
      /\ session.purchases = tx[r].purchases /\ session.balance = b
  BY <1>1, <1>3 DEF Session
<1> HIDE DEF session
<1>6. SessionInv(r, session)
  BY <1>1, <1>3, <1>5 DEF SessionInv
<1>7. DBInv' /\ OthersUntouched(r) /\ tx'[r] = session
  BY <1>4, <1>6, StageDB
<1>8. UNCHANGED <<users, transfers, purchases, locks>>
  BY <1>4 DEF Stage
<1> QED BY <1>3, <1>5, <1>7, <1>8

\* The balance of the sender is updated.
LEMMA UpdateSrcInv ==
  ASSUME Inv, NEW r \in SendRequest, OnlySend, UpdateSrc(r)
  PROVE  Inv'
<1>1. /\ r \in Request /\ SendInv(r) /\ DBInv /\ SendTypeOK /\ send[r].pc = "updateSrc"
      /\ SendUpdateBalance(r, send[r].src, send[r].srcUserBalance, "updateDst")
  BY RequestAssumption DEF Inv, UpdateSrc
<1>2. CASE SendFail(r, "internal")
  BY <1>1, <1>2, SendFailInv DEF SendOutcome
<1>3. CASE /\ Stage(r, [tx[r] EXCEPT !.balance = Put(@, send[r].src, send[r].srcUserBalance)])
           /\ SendGoto(r, "updateDst")
  <2>1. /\ SendTypeOK' /\ \A s \in SendRequest \ {r} : send'[s] = send[s]
        /\ send'[r].pc = "updateDst" /\ send'[r].src = send[r].src
        /\ send'[r].dst = send[r].dst /\ send'[r].amount = send[r].amount
        /\ send'[r].srcUserBalance = send[r].srcUserBalance
        /\ send'[r].dstUserBalance = send[r].dstUserBalance
    BY <1>1, <1>3, SendMoves DEF SendOutcome
  <2>2. /\ SendFresh(r) /\ locks[send[r].src] = r /\ tx[r].status = "open"
        /\ send[r].src \in UserID /\ send[r].srcUserBalance \in Int32
        /\ DOMAIN tx[r].balance = {}
    BY <1>1 DEF SendInv, SendChecked, SendFresh
  <2>3. /\ DBInv' /\ OthersUntouched(r) /\ UNCHANGED <<users, locks, transfers>>
        /\ tx'[r].status = tx[r].status /\ tx'[r].created_at = tx[r].created_at
        /\ tx'[r].transfers = tx[r].transfers /\ tx'[r].purchases = tx[r].purchases
        /\ DOMAIN tx'[r].balance = {send[r].src}
        /\ tx'[r].balance[send[r].src] = send[r].srcUserBalance
    BY <1>1, <1>3, <2>2, UpdateBalanceDB
  <2>4. NewTransferRow(r)' = NewTransferRow(r)
    BY <2>1, <2>3 DEF NewTransferRow
  <2>5. SendFresh(r)'
    BY <2>1, <2>2, <2>3 DEF SendFresh
  <2>6. SendInv(r)'
    BY <1>1, <2>1, <2>2, <2>3, <2>4, <2>5 DEF SendInv, SendChecked
  <2> QED BY <2>1, <2>3, <2>6, SendKeepsInv
<1> QED BY <1>1, <1>2, <1>3 DEF SendUpdateBalance

\* The balance of the recipient is updated, if it fits.
LEMMA UpdateDstInv ==
  ASSUME Inv, NEW r \in SendRequest, OnlySend, UpdateDst(r)
  PROVE  Inv'
<1>1. /\ r \in Request /\ SendInv(r) /\ DBInv /\ SendTypeOK /\ send[r].pc = "updateDst"
      /\ SendUpdateBalance(r, send[r].dst, send[r].dstUserBalance, "commit")
  BY RequestAssumption DEF Inv, UpdateDst
<1>2. CASE SendFail(r, "internal")
  BY <1>1, <1>2, SendFailInv DEF SendOutcome
<1>3. CASE /\ send[r].dstUserBalance \in Int32
           /\ Stage(r, [tx[r] EXCEPT !.balance = Put(@, send[r].dst, send[r].dstUserBalance)])
           /\ SendGoto(r, "commit")
  <2>1. /\ SendTypeOK' /\ \A s \in SendRequest \ {r} : send'[s] = send[s]
        /\ send'[r].pc = "commit" /\ send'[r].src = send[r].src
        /\ send'[r].dst = send[r].dst /\ send'[r].amount = send[r].amount
        /\ send'[r].srcUserBalance = send[r].srcUserBalance
        /\ send'[r].dstUserBalance = send[r].dstUserBalance
    BY <1>1, <1>3, SendMoves DEF SendOutcome
  <2>2. /\ SendFresh(r) /\ locks[send[r].dst] = r /\ tx[r].status = "open"
        /\ send[r].dst \in UserID /\ send[r].src # send[r].dst
        /\ DOMAIN tx[r].balance = {send[r].src}
        /\ tx[r].balance[send[r].src] = send[r].srcUserBalance
    BY <1>1 DEF SendInv, SendChecked, SendFresh
  <2>3. /\ DBInv' /\ OthersUntouched(r) /\ UNCHANGED <<users, locks, transfers>>
        /\ tx'[r].status = tx[r].status /\ tx'[r].created_at = tx[r].created_at
        /\ tx'[r].transfers = tx[r].transfers /\ tx'[r].purchases = tx[r].purchases
        /\ DOMAIN tx'[r].balance = {send[r].src, send[r].dst}
        /\ tx'[r].balance[send[r].dst] = send[r].dstUserBalance
        /\ tx'[r].balance[send[r].src] = send[r].srcUserBalance
    BY <1>1, <1>3, <2>2, UpdateBalanceDB
  <2>4. NewTransferRow(r)' = NewTransferRow(r)
    BY <2>1, <2>3 DEF NewTransferRow
  <2>5. SendFresh(r)'
    BY <2>1, <2>2, <2>3 DEF SendFresh
  <2>6. TransferStaged(r)'
    BY <1>1, <2>1, <2>3, <2>4 DEF TransferStaged, SendInv
  <2>7. SendInv(r)'
    BY <1>1, <1>3, <2>1, <2>2, <2>3, <2>5, <2>6 DEF SendInv, SendChecked
  <2> QED BY <2>1, <2>3, <2>7, SendKeepsInv
<1> QED BY <1>1, <1>2, <1>3 DEF SendUpdateBalance

\* COMMIT.
LEMMA CommitTransferInv ==
  ASSUME Inv, NEW r \in SendRequest, OnlySend, CommitTransfer(r)
  PROVE  Inv'
<1>1. /\ r \in Request /\ SendInv(r) /\ DBInv /\ SendTypeOK
      /\ Commit(r) /\ SendReturn(r, "ok")
  BY RequestAssumption DEF Inv, CommitTransfer
<1>2. /\ SendTypeOK' /\ \A s \in SendRequest \ {r} : send'[s] = send[s]
      /\ send'[r].pc = "done"
  BY <1>1, SendMoves DEF SendOutcome
<1>3. DBInv' /\ OthersUntouched(r) /\ tx'[r].status = "none"
  BY <1>1, CommitDB, NoSessionType
<1>4. SendInv(r)'
  BY <1>2, <1>3 DEF SendInv, SendChecked
<1> QED BY <1>2, <1>3, <1>4, SendKeepsInv

\* The call the handler waits for fails: what was staged stays with the backend.
LEMMA CancelSendInv ==
  ASSUME Inv, NEW r \in SendRequest, OnlySend, CancelSend(r)
  PROVE  Inv'
<1>1. /\ r \in Request /\ SendInv(r) /\ DBInv /\ SendTypeOK
      /\ send[r].pc \notin {"recv", "done"} /\ SendReturn(r, "internal")
  BY RequestAssumption DEF Inv, CancelSend, SendInFlight
<1>2. /\ SendTypeOK' /\ \A s \in SendRequest \ {r} : send'[s] = send[s]
      /\ send'[r].pc = "done" /\ send'[r].src = send[r].src
      /\ send'[r].dst = send[r].dst /\ send'[r].amount = send[r].amount
      /\ send'[r].srcUserBalance = send[r].srcUserBalance
      /\ send'[r].dstUserBalance = send[r].dstUserBalance
  BY <1>1, SendMoves DEF SendOutcome
<1>3. CASE tx[r].status = "none" /\ UNCHANGED dbvars
  <2>1. DBInv' /\ OthersUntouched(r) /\ tx' = tx
    BY <1>1, <1>3, StutterDB DEF OthersUntouched, dbvars
  <2>2. SendInv(r)'
    BY <1>2, <1>3, <2>1 DEF SendInv, SendChecked
  <2> QED BY <1>2, <2>1, <2>2, SendKeepsInv
<1>4. CASE send[r].pc # "commit" /\ Disconnect(r, "aborting")
  <2>1. /\ DBInv' /\ OthersUntouched(r) /\ tx'[r].status = "aborting"
        /\ transfers' = transfers
    BY <1>1, <1>4, DisconnectDB
  <2>2. SendInv(r)'
    BY <1>1, <1>2, <2>1 DEF SendInv, SendChecked
  <2> QED BY <1>2, <2>1, <2>2, SendKeepsInv
<1>5. CASE send[r].pc = "commit" /\ Disconnect(r, "committing")
  <2>1. /\ DBInv' /\ OthersUntouched(r) /\ tx'[r].status = "committing"
        /\ UNCHANGED <<users, transfers, locks>>
        /\ tx'[r].created_at = tx[r].created_at
        /\ tx'[r].transfers = tx[r].transfers /\ tx'[r].purchases = tx[r].purchases
        /\ tx'[r].balance = tx[r].balance
    BY <1>1, <1>5, DisconnectDB
  <2>2. NewTransferRow(r)' = NewTransferRow(r)
    BY <1>2, <2>1 DEF NewTransferRow
  <2>3. SendFresh(r)' /\ TransferStaged(r)'
    BY <1>1, <1>2, <1>5, <2>1, <2>2 DEF SendInv, SendChecked, SendFresh, TransferStaged
  <2>4. SendInv(r)'
    BY <1>1, <1>2, <1>5, <2>1, <2>3 DEF SendInv, SendChecked
  <2> QED BY <1>2, <2>1, <2>4, SendKeepsInv
<1> QED BY <1>3, <1>4, <1>5 DEF CancelSend

-----------------------------------------------------------------------------
(* GET /api/buy/{item} *)

\* The handler only moves on or returns: all it remembers stays.
LEMMA BuyMoves ==
  ASSUME BuyTypeOK, NEW r \in BuyRequest,
         NEW pc \in {"recv", "lookup", "begin", "select", "rows", "insert", "update",
                     "commit", "done"},
         NEW resp \in BuyOutcome,
         \/ BuyGoto(r, pc)
         \/ BuyReturn(r, resp) /\ pc = "done"
  PROVE  /\ BuyTypeOK' /\ \A s \in BuyRequest \ {r} : buy'[s] = buy[s]
         /\ buy'[r].pc = pc
         /\ buy'[r].user = buy[r].user /\ buy'[r].item = buy[r].item
         /\ buy'[r].price = buy[r].price /\ buy'[r].balance = buy[r].balance
<1>1. buy \in [BuyRequest -> BuyState] /\ buy[r] \in BuyState
  BY DEF BuyTypeOK
<1>2. CASE BuyGoto(r, pc)
  <2>1. buy' = [buy EXCEPT ![r] = [buy[r] EXCEPT !.pc = pc]]
    BY <1>1, <1>2 DEF BuyGoto
  <2> QED BY <1>1, <2>1 DEF BuyState, BuyTypeOK
<1>3. CASE BuyReturn(r, resp) /\ pc = "done"
  <2>1. buy' = [buy EXCEPT ![r] = [buy[r] EXCEPT !.pc = pc, !.resp = resp]]
    BY <1>1, <1>3 DEF BuyReturn
  <2> QED BY <1>1, <2>1 DEF BuyState, BuyTypeOK
<1> QED BY <1>2, <1>3

\* An early return inside the transaction, whichever way the rollback goes.
LEMMA BuyFailInv ==
  ASSUME Inv, NEW r \in BuyRequest, OnlyBuy, NEW resp \in BuyOutcome,
         buy[r].pc \notin {"recv", "lookup", "begin", "done"}, BuyFail(r, resp)
  PROVE  Inv'
<1>1. r \in Request /\ BuyInv(r) /\ DBInv /\ BuyTypeOK
  BY RequestAssumption DEF Inv
<1>2. BuyReturn(r, resp) /\ (Rollback(r) \/ Disconnect(r, "aborting"))
  BY DEF BuyFail, DeferredRollback
<1>3. /\ BuyTypeOK' /\ \A s \in BuyRequest \ {r} : buy'[s] = buy[s]
      /\ buy'[r].pc = "done"
  BY <1>1, <1>2, BuyMoves
<1>4. /\ DBInv' /\ OthersUntouched(r) /\ tx'[r].status \in {"none", "aborting"}
      /\ purchases' = purchases
  <2>1. CASE Rollback(r)
    BY <1>1, <2>1, RollbackDB, NoSessionType DEF Rollback
  <2>2. CASE Disconnect(r, "aborting")
    BY <1>1, <2>2, DisconnectDB
  <2> QED BY <1>2, <2>1, <2>2
<1>5. \A p \in purchases' : p.id # r
  BY <1>1, <1>4 DEF BuyInv
<1>6. BuyInv(r)'
  BY <1>3, <1>4, <1>5 DEF BuyInv, BuyChecked
<1> QED BY <1>3, <1>4, <1>6, BuyKeepsInv

\* Arrival and validation.
LEMMA GetAPIBuyItemInv ==
  ASSUME Inv, NEW r \in BuyRequest, OnlyBuy, NEW u \in tokens, GetAPIBuyItem(r, u)
  PROVE  Inv'
<1>1. /\ r \in Request /\ BuyInv(r) /\ DBInv /\ BuyTypeOK
      /\ u \in UserID /\ buy[r].pc = "recv" /\ UNCHANGED dbvars
  BY RequestAssumption DEF Inv, AuthInv, AuthTypeOK, GetAPIBuyItem
<1>2. PICK item \in BuyItem :
        buy' = [buy EXCEPT ![r].user = u, ![r].item = item,
                           ![r].pc = IF item # "" THEN "lookup" ELSE "done",
                           ![r].resp = IF item # "" THEN "none" ELSE "badRequest"]
  BY DEF GetAPIBuyItem
<1>3. /\ BuyTypeOK' /\ \A s \in BuyRequest \ {r} : buy'[s] = buy[s]
      /\ buy'[r].pc \in {"lookup", "done"} /\ buy'[r].user = u
  <2>1. buy \in [BuyRequest -> BuyState] /\ buy[r] \in BuyState
    BY <1>1 DEF BuyTypeOK
  <2>2. CASE item # ""
    <3>1. buy' = [buy EXCEPT ![r] = [buy[r] EXCEPT !.user = u, !.item = item,
                                                   !.pc = "lookup", !.resp = "none"]]
      BY <1>2, <2>1, <2>2
    <3> QED BY <1>1, <2>1, <3>1 DEF BuyTypeOK, BuyState, BuyOutcome
  <2>3. CASE item = ""
    <3>1. buy' = [buy EXCEPT ![r] = [buy[r] EXCEPT !.user = u, !.item = item,
                                                   !.pc = "done", !.resp = "badRequest"]]
      BY <1>2, <2>1, <2>3
    <3> QED BY <1>1, <2>1, <3>1 DEF BuyTypeOK, BuyState, BuyOutcome, BuyRejected
  <2> QED BY <2>2, <2>3
<1>4. DBInv' /\ OthersUntouched(r) /\ tx' = tx /\ purchases' = purchases
  BY <1>1, StutterDB DEF OthersUntouched, dbvars
<1>5. BuyInv(r)'
  BY <1>1, <1>3, <1>4 DEF BuyInv, BuyChecked
<1> QED BY <1>3, <1>4, <1>5, BuyKeepsInv

\* The item is found, outside a transaction.
LEMMA LookupItemInv ==
  ASSUME Inv, NEW r \in BuyRequest, OnlyBuy, LookupItem(r)
  PROVE  Inv'
<1>1. /\ r \in Request /\ BuyInv(r) /\ DBInv /\ BuyTypeOK
      /\ buy[r].pc = "lookup" /\ UNCHANGED dbvars
  BY RequestAssumption DEF Inv, LookupItem
<1>2. DBInv' /\ OthersUntouched(r) /\ tx' = tx /\ purchases' = purchases
  BY <1>1, StutterDB DEF OthersUntouched, dbvars
<1>3. CASE BuyReturn(r, "itemNotExist")
  <2>1. /\ BuyTypeOK' /\ \A s \in BuyRequest \ {r} : buy'[s] = buy[s]
        /\ buy'[r].pc = "done"
    BY <1>1, <1>3, BuyMoves DEF BuyOutcome, BuyRejected
  <2>2. BuyInv(r)'
    BY <1>1, <1>2, <2>1 DEF BuyInv, BuyChecked
  <2> QED BY <1>2, <2>1, <2>2, BuyKeepsInv
<1>4. CASE /\ buy[r].item \in Items
           /\ buy' = [buy EXCEPT ![r].price = Price[buy[r].item], ![r].pc = "begin"]
  <2>1. buy[r] \in BuyState /\ Price[buy[r].item] \in Int32
    BY <1>1, <1>4, ConstantsAssumption DEF BuyTypeOK
  <2>2. buy' = [buy EXCEPT ![r] = [buy[r] EXCEPT !.price = Price[buy[r].item], !.pc = "begin"]]
    BY <1>1, <1>4 DEF BuyTypeOK
  <2>3. /\ BuyTypeOK' /\ \A s \in BuyRequest \ {r} : buy'[s] = buy[s]
        /\ buy'[r].pc = "begin" /\ buy'[r].user = buy[r].user
        /\ buy'[r].item = buy[r].item /\ buy'[r].price = Price[buy[r].item]
    BY <1>1, <2>1, <2>2 DEF BuyTypeOK, BuyState
  <2>4. BuyInv(r)'
    BY <1>1, <1>2, <1>4, <2>3 DEF BuyInv, BuyChecked
  <2> QED BY <1>2, <2>3, <2>4, BuyKeepsInv
<1> QED BY <1>3, <1>4 DEF LookupItem

\* BEGIN.
LEMMA BeginPurchaseInv ==
  ASSUME Inv, NEW r \in BuyRequest, OnlyBuy, BeginPurchase(r)
  PROVE  Inv'
<1>1. /\ r \in Request /\ BuyInv(r) /\ DBInv /\ BuyTypeOK
      /\ buy[r].pc = "begin" /\ Begin(r) /\ BuyGoto(r, "select")
  BY RequestAssumption DEF Inv, BeginPurchase
<1>2. /\ BuyTypeOK' /\ \A s \in BuyRequest \ {r} : buy'[s] = buy[s]
      /\ buy'[r].pc = "select" /\ buy'[r].user = buy[r].user
      /\ buy'[r].item = buy[r].item /\ buy'[r].price = buy[r].price
  BY <1>1, BuyMoves DEF BuyOutcome
<1>3. /\ DBInv' /\ OthersUntouched(r) /\ purchases' = purchases
      /\ tx'[r].status = "open" /\ NothingStaged(r)'
  BY <1>1, BeginDB DEF Begin
<1>4. BuyInv(r)'
  BY <1>1, <1>2, <1>3 DEF BuyInv, BuyChecked
<1> QED BY <1>2, <1>3, <1>4, BuyKeepsInv

\* SELECT ... FOR UPDATE is sent.
LEMMA LockBuyerInv ==
  ASSUME Inv, NEW r \in BuyRequest, OnlyBuy, LockBuyer(r)
  PROVE  Inv'
<1>1. /\ r \in Request /\ BuyInv(r) /\ DBInv /\ BuyTypeOK
      /\ buy[r].pc = "select" /\ BuyGoto(r, "rows")
      /\ SelectForUpdate(r, {buy[r].user})
  BY RequestAssumption DEF Inv, LockBuyer
<1>2. /\ BuyTypeOK' /\ \A s \in BuyRequest \ {r} : buy'[s] = buy[s]
      /\ buy'[r].pc = "rows" /\ buy'[r].user = buy[r].user
      /\ buy'[r].item = buy[r].item /\ buy'[r].price = buy[r].price
  BY <1>1, BuyMoves DEF BuyOutcome
<1>3. NothingStaged(r) /\ tx[r].status = "open"
  BY <1>1 DEF BuyInv
<1>4. /\ DBInv' /\ OthersUntouched(r) /\ purchases' = purchases
      /\ tx'[r].status = "open" /\ NothingStaged(r)'
  BY <1>1, <1>3, SelectDB DEF SelectForUpdate
<1>5. BuyInv(r)'
  BY <1>1, <1>2, <1>4 DEF BuyInv, BuyChecked
<1> QED BY <1>2, <1>4, <1>5, BuyKeepsInv

\* The row of the buyer is locked.
LEMMA LockBuyerRowInv ==
  ASSUME Inv, NEW r \in BuyRequest, OnlyBuy, LockBuyerRow(r)
  PROVE  Inv'
<1>1. /\ r \in Request /\ BuyInv(r) /\ DBInv /\ BuyTypeOK
      /\ buy[r].pc = "rows" /\ LockRow(r) /\ buy' = buy
  BY RequestAssumption DEF Inv, LockBuyerRow
<1>2. NothingStaged(r) /\ tx[r].status = "open"
  BY <1>1 DEF BuyInv
<1>3. /\ DBInv' /\ OthersUntouched(r) /\ purchases' = purchases
      /\ tx'[r].status = "open" /\ NothingStaged(r)'
  BY <1>1, <1>2, LockRowDB DEF LockRow
<1>4. BuyInv(r)'
  BY <1>1, <1>3 DEF BuyInv, BuyChecked
<1>5. BuyTypeOK' /\ \A s \in BuyRequest \ {r} : buy'[s] = buy[s]
  BY <1>1 DEF BuyTypeOK
<1> QED BY <1>3, <1>4, <1>5, BuyKeepsInv

\* The row has been returned: the balance is checked and the new one computed.
LEMMA CheckFundsInv ==
  ASSUME Inv, NEW r \in BuyRequest, OnlyBuy, CheckFunds(r)
  PROVE  Inv'
<1> DEFINE b == buy[r]
<1>1. /\ r \in Request /\ BuyInv(r) /\ DBInv /\ BuyTypeOK /\ buy[r].pc = "rows"
  BY RequestAssumption DEF Inv, CheckFunds
<1>2. CASE BuyFail(r, "internal") \/ BuyFail(r, "notEnough")
  BY <1>1, <1>2, BuyFailInv DEF BuyOutcome, BuyRejected
<1>3. CASE /\ b.user \in LockedRows(r)
           /\ users[b.user].balance - b.price >= 0
           /\ buy' = [buy EXCEPT ![r].balance = users[b.user].balance - b.price,
                                 ![r].pc = "insert"]
           /\ UNCHANGED dbvars
  <2>1. /\ locks[b.user] = r /\ b.user \in UserID /\ b \in BuyState
        /\ b.item \in Items /\ b.price = Price[b.item] /\ b.price \in Int32
    BY <1>1, <1>3 DEF LockedRows, BuyInv, BuyTypeOK, BuyState
  <2>2. users[b.user].balance \in Int32
    <3>1. b.user \in DOMAIN users
      BY <1>1, <2>1, ConstantsAssumption DEF DBInv
    <3> QED BY <1>1, <3>1 DEF DBInv, DBTypeOK, UserRow
  <2> DEFINE nb == users[b.user].balance - b.price
  <2>3. nb \in Int32 /\ nb \in Int
    BY <1>3, <2>1, <2>2, ConstantsAssumption DEF Int32
  <2>4. buy' = [buy EXCEPT ![r] = [b EXCEPT !.balance = nb, !.pc = "insert"]]
    BY <1>1, <1>3 DEF BuyTypeOK
  <2> HIDE DEF nb
  <2>5. /\ BuyTypeOK' /\ \A q \in BuyRequest \ {r} : buy'[q] = buy[q]
        /\ buy'[r].pc = "insert" /\ buy'[r].user = b.user /\ buy'[r].item = b.item
        /\ buy'[r].price = b.price /\ buy'[r].balance = nb
    BY <1>1, <2>1, <2>3, <2>4 DEF BuyTypeOK, BuyState
  <2>6. /\ DBInv' /\ OthersUntouched(r) /\ tx' = tx /\ purchases' = purchases
        /\ users' = users /\ locks' = locks
    BY <1>1, <1>3, StutterDB DEF OthersUntouched, dbvars
  <2>7. BuyFresh(r)'
    BY <2>1, <2>5, <2>6 DEF BuyFresh, nb
  <2>8. NothingStaged(r)' /\ tx'[r].status = "open" /\ \A p \in purchases' : p.id # r
    BY <1>1, <2>6 DEF BuyInv, NothingStaged
  <2>9. BuyInv(r)'
    BY <2>1, <2>3, <2>5, <2>7, <2>8 DEF BuyInv, BuyChecked
  <2> QED BY <2>5, <2>6, <2>9, BuyKeepsInv
<1> QED BY <1>2, <1>3 DEF CheckFunds

\* The purchases row is inserted.
LEMMA CreatePurchaseInv ==
  ASSUME Inv, NEW r \in BuyRequest, OnlyBuy, CreatePurchase(r)
  PROVE  Inv'
<1> DEFINE session == [tx[r] EXCEPT !.purchases = @ \cup {NewPurchaseRow(r)}]
<1>1. /\ r \in Request /\ BuyInv(r) /\ DBInv /\ BuyTypeOK
      /\ buy[r].pc = "insert" /\ Stage(r, session) /\ BuyGoto(r, "update")
  BY RequestAssumption DEF Inv, CreatePurchase
<1>2. /\ BuyTypeOK' /\ \A s \in BuyRequest \ {r} : buy'[s] = buy[s]
      /\ buy'[r].pc = "update" /\ buy'[r].user = buy[r].user
      /\ buy'[r].item = buy[r].item /\ buy'[r].price = buy[r].price
      /\ buy'[r].balance = buy[r].balance
  BY <1>1, BuyMoves DEF BuyOutcome
<1>3. /\ BuyFresh(r) /\ NothingStaged(r) /\ tx[r].status = "open"
      /\ buy[r].user \in UserID /\ buy[r].item \in Items
      /\ \A p \in purchases : p.id # r
      /\ tx[r] \in Session /\ SessionInv(r, tx[r])
      /\ buy[r].price \in Int32
  BY <1>1 DEF BuyInv, BuyChecked, DBInv, DBTypeOK, BuyTypeOK, BuyState
<1>4. NewPurchaseRow(r) \in PurchaseRow /\ NewPurchaseRow(r).id = r
  BY <1>1, <1>3 DEF NewPurchaseRow, PurchaseRow, Session
<1>5. /\ session \in Session /\ session.status = tx[r].status
      /\ session.created_at = tx[r].created_at
      /\ session.want = tx[r].want /\ session.at = tx[r].at
      /\ session.transfers = {} /\ session.purchases = {NewPurchaseRow(r)}
      /\ session.balance = tx[r].balance
      /\ DOMAIN session.balance = {}
  BY <1>3, <1>4 DEF Session, NothingStaged
<1> HIDE DEF session
<1>6. SessionInv(r, session)
  BY <1>3, <1>4, <1>5 DEF SessionInv
<1>7. /\ DBInv' /\ OthersUntouched(r) /\ tx'[r] = session
      /\ UNCHANGED <<users, locks, purchases>>
  BY <1>1, <1>6, StageDB DEF Stage
<1>8. NewPurchaseRow(r)' = NewPurchaseRow(r)
  BY <1>2, <1>5, <1>7 DEF NewPurchaseRow
<1>9. BuyFresh(r)'
  BY <1>2, <1>3, <1>7 DEF BuyFresh
<1>10. BuyInv(r)'
  BY <1>1, <1>2, <1>3, <1>5, <1>7, <1>8, <1>9 DEF BuyInv, BuyChecked
<1> QED BY <1>2, <1>7, <1>10, BuyKeepsInv

\* The balance of the buyer is updated.
LEMMA UpdateBuyerInv ==
  ASSUME Inv, NEW r \in BuyRequest, OnlyBuy, UpdateBuyer(r)
  PROVE  Inv'
<1>1. /\ r \in Request /\ BuyInv(r) /\ DBInv /\ BuyTypeOK /\ buy[r].pc = "update"
      /\ Stage(r, [tx[r] EXCEPT !.balance = Put(@, buy[r].user, buy[r].balance)])
      /\ BuyGoto(r, "commit")
  BY RequestAssumption DEF Inv, UpdateBuyer
<1>2. /\ BuyTypeOK' /\ \A s \in BuyRequest \ {r} : buy'[s] = buy[s]
      /\ buy'[r].pc = "commit" /\ buy'[r].user = buy[r].user
      /\ buy'[r].item = buy[r].item /\ buy'[r].price = buy[r].price
      /\ buy'[r].balance = buy[r].balance
  BY <1>1, BuyMoves DEF BuyOutcome
<1>3. /\ BuyFresh(r) /\ locks[buy[r].user] = r /\ tx[r].status = "open"
      /\ buy[r].user \in UserID /\ buy[r].balance \in Int32
      /\ DOMAIN tx[r].balance = {}
  BY <1>1 DEF BuyInv, BuyChecked, BuyFresh
<1>4. /\ DBInv' /\ OthersUntouched(r) /\ UNCHANGED <<users, locks, purchases>>
      /\ tx'[r].status = tx[r].status /\ tx'[r].created_at = tx[r].created_at
      /\ tx'[r].transfers = tx[r].transfers /\ tx'[r].purchases = tx[r].purchases
      /\ DOMAIN tx'[r].balance = {buy[r].user}
      /\ tx'[r].balance[buy[r].user] = buy[r].balance
  BY <1>1, <1>3, UpdateBalanceDB
<1>5. NewPurchaseRow(r)' = NewPurchaseRow(r)
  BY <1>2, <1>4 DEF NewPurchaseRow
<1>6. BuyFresh(r)'
  BY <1>2, <1>3, <1>4 DEF BuyFresh
<1>7. PurchaseStaged(r)'
  BY <1>1, <1>2, <1>4, <1>5 DEF PurchaseStaged, BuyInv
<1>8. BuyInv(r)'
  BY <1>1, <1>2, <1>3, <1>4, <1>6, <1>7 DEF BuyInv, BuyChecked
<1> QED BY <1>2, <1>4, <1>8, BuyKeepsInv

\* COMMIT.
LEMMA CommitPurchaseInv ==
  ASSUME Inv, NEW r \in BuyRequest, OnlyBuy, CommitPurchase(r)
  PROVE  Inv'
<1>1. /\ r \in Request /\ BuyInv(r) /\ DBInv /\ BuyTypeOK
      /\ Commit(r) /\ BuyReturn(r, "ok")
  BY RequestAssumption DEF Inv, CommitPurchase
<1>2. /\ BuyTypeOK' /\ \A s \in BuyRequest \ {r} : buy'[s] = buy[s]
      /\ buy'[r].pc = "done"
  BY <1>1, BuyMoves DEF BuyOutcome
<1>3. DBInv' /\ OthersUntouched(r) /\ tx'[r].status = "none"
  BY <1>1, CommitDB, NoSessionType
<1>4. BuyInv(r)'
  BY <1>2, <1>3 DEF BuyInv, BuyChecked
<1> QED BY <1>2, <1>3, <1>4, BuyKeepsInv

\* The call the handler waits for fails: what was staged stays with the backend.
LEMMA CancelBuyInv ==
  ASSUME Inv, NEW r \in BuyRequest, OnlyBuy, CancelBuy(r)
  PROVE  Inv'
<1>1. /\ r \in Request /\ BuyInv(r) /\ DBInv /\ BuyTypeOK
      /\ buy[r].pc \notin {"recv", "done"} /\ BuyReturn(r, "internal")
  BY RequestAssumption DEF Inv, CancelBuy, BuyInFlight
<1>2. /\ BuyTypeOK' /\ \A s \in BuyRequest \ {r} : buy'[s] = buy[s]
      /\ buy'[r].pc = "done" /\ buy'[r].user = buy[r].user
      /\ buy'[r].item = buy[r].item /\ buy'[r].price = buy[r].price
      /\ buy'[r].balance = buy[r].balance
  BY <1>1, BuyMoves DEF BuyOutcome
<1>3. CASE tx[r].status = "none" /\ UNCHANGED dbvars
  <2>1. DBInv' /\ OthersUntouched(r) /\ tx' = tx
    BY <1>1, <1>3, StutterDB DEF OthersUntouched, dbvars
  <2>2. BuyInv(r)'
    BY <1>2, <1>3, <2>1 DEF BuyInv, BuyChecked
  <2> QED BY <1>2, <2>1, <2>2, BuyKeepsInv
<1>4. CASE buy[r].pc # "commit" /\ Disconnect(r, "aborting")
  <2>1. /\ DBInv' /\ OthersUntouched(r) /\ tx'[r].status = "aborting"
        /\ purchases' = purchases
    BY <1>1, <1>4, DisconnectDB
  <2>2. BuyInv(r)'
    BY <1>1, <1>2, <2>1 DEF BuyInv, BuyChecked
  <2> QED BY <1>2, <2>1, <2>2, BuyKeepsInv
<1>5. CASE buy[r].pc = "commit" /\ Disconnect(r, "committing")
  <2>1. /\ DBInv' /\ OthersUntouched(r) /\ tx'[r].status = "committing"
        /\ UNCHANGED <<users, purchases, locks>>
        /\ tx'[r].created_at = tx[r].created_at
        /\ tx'[r].transfers = tx[r].transfers /\ tx'[r].purchases = tx[r].purchases
        /\ tx'[r].balance = tx[r].balance
    BY <1>1, <1>5, DisconnectDB
  <2>2. NewPurchaseRow(r)' = NewPurchaseRow(r)
    BY <1>2, <2>1 DEF NewPurchaseRow
  <2>3. BuyFresh(r)' /\ PurchaseStaged(r)'
    BY <1>1, <1>2, <1>5, <2>1, <2>2 DEF BuyInv, BuyChecked, BuyFresh, PurchaseStaged
  <2>4. BuyInv(r)'
    BY <1>1, <1>2, <1>5, <2>1, <2>3 DEF BuyInv, BuyChecked
  <2> QED BY <1>2, <2>1, <2>4, BuyKeepsInv
<1> QED BY <1>3, <1>4, <1>5 DEF CancelBuy

-----------------------------------------------------------------------------
(* POST /api/auth *)

\* The handler moves on, returns or issues a token for an account.
LEMMA AuthMoves ==
  ASSUME AuthInv, NEW r \in AuthRequest, AuthInFlight(r),
         \/ \E pc \in {"create", "reread"} : AuthGoto(r, pc)
         \/ AuthReturn(r, "unauthorized")
         \/ \E u \in UserID : IssueToken(r, u)
  PROVE  AuthInv'
<1>1. /\ auth \in [AuthRequest -> AuthState] /\ auth[r] \in AuthState
      /\ tokens \subseteq UserID
      /\ auth[r].username \in Username /\ auth[r].password \in Password
      /\ ~auth[r].orphan
  BY DEF AuthInv, AuthTypeOK, AuthInFlight, AuthState
<1>2. ASSUME NEW v \in AuthState, auth' = [auth EXCEPT ![r] = v],
             v.username = auth[r].username, v.password = auth[r].password,
             v.orphan = auth[r].orphan, tokens' \subseteq UserID
      PROVE  AuthInv'
  BY <1>1, <1>2 DEF AuthInv, AuthTypeOK, AuthInFlight
<1>3. ASSUME NEW pc \in {"create", "reread"}, AuthGoto(r, pc) PROVE AuthInv'
  <2> DEFINE v == [auth[r] EXCEPT !.pc = pc]
  <2>1. auth' = [auth EXCEPT ![r] = v] /\ tokens' = tokens
    BY <1>1, <1>3 DEF AuthGoto
  <2>2. v \in AuthState /\ v.username = auth[r].username /\ v.password = auth[r].password
        /\ v.orphan = auth[r].orphan
    BY <1>1 DEF AuthState
  <2> QED BY <1>1, <1>2, <2>1, <2>2
<1>4. CASE AuthReturn(r, "unauthorized")
  <2> DEFINE v == [auth[r] EXCEPT !.pc = "done", !.resp = "unauthorized"]
  <2>1. auth' = [auth EXCEPT ![r] = v] /\ tokens' = tokens
    BY <1>1, <1>4 DEF AuthReturn
  <2>2. v \in AuthState /\ v.username = auth[r].username /\ v.password = auth[r].password
        /\ v.orphan = auth[r].orphan
    BY <1>1 DEF AuthState
  <2> QED BY <1>1, <1>2, <2>1, <2>2
<1>5. ASSUME NEW u \in UserID, IssueToken(r, u) PROVE AuthInv'
  <2> DEFINE v == [auth[r] EXCEPT !.pc = "done", !.resp = "ok", !.user = u]
  <2>1. auth' = [auth EXCEPT ![r] = v] /\ tokens' = tokens \cup {u}
    BY <1>1, <1>5 DEF IssueToken
  <2>2. v \in AuthState /\ v.username = auth[r].username /\ v.password = auth[r].password
        /\ v.orphan = auth[r].orphan
    BY <1>1 DEF AuthState
  <2> QED BY <1>1, <1>2, <2>1, <2>2
<1> QED BY <1>3, <1>4, <1>5

\* Arrival and validation: the handler goes on with a username and a password.
LEMMA PostAPIAuthInv ==
  ASSUME Inv, NEW r \in AuthRequest, OnlyAuth, PostAPIAuth(r)
  PROVE  Inv'
<1>1. /\ DBInv /\ AuthInv /\ UNCHANGED dbvars /\ tokens' = tokens
      /\ auth \in [AuthRequest -> AuthState] /\ auth[r] \in AuthState
      /\ auth[r].pc = "recv" /\ ~auth[r].orphan
  BY DEF Inv, AuthInv, AuthTypeOK, AuthState, PostAPIAuth
<1>2. PICK body \in AuthBody :
        LET valid == body.username # "" /\ body.password # ""
        IN  auth' = [auth EXCEPT
                       ![r].username = body.username, ![r].password = body.password,
                       ![r].pc = IF valid THEN "lookup" ELSE "done",
                       ![r].resp = IF valid THEN "none" ELSE "badRequest"]
  BY DEF PostAPIAuth
<1>3. body.username \in Username \cup {""} /\ body.password \in Password \cup {""}
  BY AuthAssumption
<1>4. AuthInv'
  <2>1. CASE body.username # "" /\ body.password # ""
    <3> DEFINE v == [auth[r] EXCEPT !.username = body.username, !.password = body.password,
                                    !.pc = "lookup", !.resp = "none"]
    <3>1. auth' = [auth EXCEPT ![r] = v]
      BY <1>1, <1>2, <2>1
    <3>2. v \in AuthState /\ v.username \in Username /\ v.password \in Password /\ ~v.orphan
      BY <1>1, <1>3, <2>1 DEF AuthState
    <3> HIDE DEF v
    <3> QED BY <1>1, <3>1, <3>2 DEF AuthInv, AuthTypeOK, AuthInFlight
  <2>2. CASE ~(body.username # "" /\ body.password # "")
    <3> DEFINE v == [auth[r] EXCEPT !.username = body.username, !.password = body.password,
                                    !.pc = "done", !.resp = "badRequest"]
    <3>1. auth' = [auth EXCEPT ![r] = v]
      BY <1>1, <1>2, <2>2
    <3>2. v \in AuthState /\ v.pc = "done" /\ ~v.orphan
      BY <1>1, <1>3 DEF AuthState
    <3> HIDE DEF v
    <3> QED BY <1>1, <3>1, <3>2 DEF AuthInv, AuthTypeOK, AuthInFlight
  <2> QED BY <2>1, <2>2
<1> QED BY <1>1, <1>4, StutterDB, OthersKeepInv DEF OnlyAuth

\* The handler answers with an internal error, or the process is gone; the
\* orphan is an INSERT that was sent.
LEMMA AuthCancelled ==
  ASSUME AuthInv, NEW r \in AuthRequest, AuthInFlight(r), NEW resp \in {"internal", "lost"}
  PROVE  LET v == [auth[r] EXCEPT !.pc = "done", !.resp = resp,
                                  !.orphan = (auth[r].pc = "create")]
         IN  /\ v \in AuthState /\ v.pc = "done"
             /\ v.username = auth[r].username /\ v.password = auth[r].password
             /\ v.username \in Username /\ v.password \in Password
<1>1. /\ auth[r] \in AuthState
      /\ auth[r].username \in Username /\ auth[r].password \in Password
  BY DEF AuthInv, AuthTypeOK
<1>2. (auth[r].pc = "create") \in BOOLEAN
  OBVIOUS
<1> QED BY <1>1, <1>2 DEF AuthState

LEMMA CancelAuthInv ==
  ASSUME Inv, NEW r \in AuthRequest, OnlyAuth, CancelAuth(r)
  PROVE  Inv'
<1> DEFINE v == [auth[r] EXCEPT !.pc = "done", !.resp = "internal",
                                !.orphan = (auth[r].pc = "create")]
<1>1. /\ DBInv /\ AuthInv /\ AuthInFlight(r) /\ UNCHANGED dbvars /\ tokens' = tokens
      /\ auth \in [AuthRequest -> AuthState]
  BY DEF Inv, AuthInv, AuthTypeOK, CancelAuth
<1>2. auth' = [auth EXCEPT ![r] = v]
  BY <1>1 DEF CancelAuth
<1>3. v \in AuthState /\ v.pc = "done" /\ v.username \in Username /\ v.password \in Password
  BY <1>1, AuthCancelled
<1> HIDE DEF v
<1>4. AuthInv'
  BY <1>1, <1>2, <1>3 DEF AuthInv, AuthTypeOK, AuthInFlight
<1> QED BY <1>1, <1>4, StutterDB, OthersKeepInv DEF OnlyAuth

\* The steps of a handler: look-up, creation, second look-up.
LEMMA AuthStepInv ==
  ASSUME Inv, NEW r \in AuthRequest, OnlyAuth, AuthStep(r)
  PROVE  Inv'
<1>1. DBInv /\ AuthInv /\ DOMAIN users \subseteq UserID
  BY DEF Inv, DBInv, DBTypeOK
<1>2. CASE AuthLookup(r) \/ AuthReread(r)
  <2>1. AuthInFlight(r) /\ UNCHANGED dbvars
    BY <1>2 DEF AuthLookup, AuthReread, AuthInFlight
  <2>2. \/ AuthGoto(r, "create") \/ AuthReturn(r, "unauthorized")
        \/ \E u \in UserID : IssueToken(r, u)
    BY <1>1, <1>2 DEF AuthLookup, AuthReread, GetUserByUsername
  <2>3. AuthInv'
    BY <1>1, <2>1, <2>2, AuthMoves
  <2> QED BY <1>1, <2>1, <2>3, StutterDB, OthersKeepInv DEF OnlyAuth
<1>3. CASE CreateUser(r)
  <2>1. AuthInFlight(r) /\ auth[r].username \in Username /\ auth[r].password \in Password
    BY <1>1, <1>3 DEF CreateUser, AuthInFlight, AuthInv
  <2>2. ASSUME NEW u \in UserID, InsertUser(r, u), IssueToken(r, u) PROVE Inv'
    <3>1. AuthInv'
      BY <1>1, <2>1, <2>2, AuthMoves
    <3>2. DBInv' /\ \A s \in Request : Untouched(s)
      BY <1>1, <2>1, <2>2, InsertUserDB
    <3> QED BY <3>1, <3>2, OthersKeepInv DEF OnlyAuth
  <2>3. CASE AuthGoto(r, "reread") /\ UNCHANGED dbvars
    <3>1. AuthInv'
      BY <1>1, <2>1, <2>3, AuthMoves
    <3> QED BY <1>1, <2>3, <3>1, StutterDB, OthersKeepInv DEF OnlyAuth
  <2> QED BY <1>3, <2>2, <2>3 DEF CreateUser
<1> QED BY <1>2, <1>3 DEF AuthStep

\* The INSERT of a handler that is gone is executed, or not.
LEMMA OrphanInsertInv ==
  ASSUME Inv, NEW r \in AuthRequest, OnlyAuth, OrphanInsert(r)
  PROVE  Inv'
<1> DEFINE v == [auth[r] EXCEPT !.orphan = FALSE]
<1>1. /\ DBInv /\ AuthInv /\ tokens' = tokens
      /\ auth \in [AuthRequest -> AuthState] /\ auth[r] \in AuthState /\ auth[r].pc = "done"
      /\ auth[r].username \in Username /\ auth[r].password \in Password
  BY DEF Inv, AuthInv, AuthTypeOK, OrphanInsert
<1>2. auth' = [auth EXCEPT ![r] = v] /\ v \in AuthState /\ v.pc = "done" /\ ~v.orphan
  BY <1>1 DEF OrphanInsert, AuthState
<1> HIDE DEF v
<1>3. AuthInv'
  BY <1>1, <1>2 DEF AuthInv, AuthTypeOK, AuthInFlight
<1>4. DBInv' /\ \A s \in Request : Untouched(s)
  <2>1. CASE \E u \in UserID : InsertUser(r, u)
    BY <1>1, <2>1, InsertUserDB
  <2>2. CASE UNCHANGED dbvars
    BY <1>1, <2>2, StutterDB
  <2> QED BY <2>1, <2>2 DEF OrphanInsert
<1> QED BY <1>3, <1>4, OthersKeepInv DEF OnlyAuth

-----------------------------------------------------------------------------
(* Orphans, crashes, and all steps together *)

\* A session without a handler ends.
LEMMA OrphanStepInv ==
  ASSUME Inv, NEW r \in Request, OrphanStep(r)
  PROVE  Inv'
<1>1. DBInv /\ AuthInv /\ tx[r].status \in {"aborting", "committing"}
      /\ UNCHANGED <<send, buy, auth, tokens>>
  BY DEF Inv, OrphanStep, OrphanRollback, OrphanCommit, OnlyDB
<1>2. DBInv' /\ OthersUntouched(r) /\ tx'[r].status = "none"
  <2>1. CASE Rollback(r)
    BY <1>1, <2>1, RollbackDB, NoSessionType
  <2>2. CASE Commit(r)
    BY <1>1, <2>2, CommitDB, NoSessionType
  <2> QED BY <2>1, <2>2 DEF OrphanStep, OrphanRollback, OrphanCommit
<1>3. ASSUME NEW s \in SendRequest PROVE SendInv(s)'
  <2>1. SendInv(s) /\ send'[s] = send[s] /\ s \in Request
    BY <1>1, RequestAssumption DEF Inv
  <2>2. CASE s = r
    <3>1. send[s].pc = "done"
      BY <1>1, <2>1, <2>2 DEF SendInv
    <3> QED BY <1>2, <2>1, <2>2, <3>1 DEF SendInv, SendChecked
  <2>3. CASE s # r
    BY <1>2, <2>1, <2>3, SendFrame DEF OthersUntouched
  <2> QED BY <2>2, <2>3
<1>4. ASSUME NEW s \in BuyRequest PROVE BuyInv(s)'
  <2>1. BuyInv(s) /\ buy'[s] = buy[s] /\ s \in Request
    BY <1>1, RequestAssumption DEF Inv
  <2>2. CASE s = r
    <3>1. buy[s].pc = "done"
      BY <1>1, <2>1, <2>2 DEF BuyInv
    <3> QED BY <1>2, <2>1, <2>2, <3>1 DEF BuyInv, BuyChecked
  <2>3. CASE s # r
    BY <1>2, <2>1, <2>3, BuyFrame DEF OthersUntouched
  <2> QED BY <2>2, <2>3
<1>5. SendTypeOK' /\ BuyTypeOK' /\ AuthInv'
  BY <1>1 DEF Inv, SendTypeOK, BuyTypeOK, AuthInv, AuthTypeOK, AuthInFlight
<1> QED BY <1>2, <1>3, <1>4, <1>5 DEF Inv

\* What a crash does to the session of one request: the connection is closed,
\* the writes and the locks stay with the backend.
LEMMA CrashSession ==
  ASSUME Inv, NEW r \in Request, Crash
  PROVE  /\ tx'[r] \in Session
         /\ tx'[r].created_at = tx[r].created_at
         /\ tx'[r].transfers = tx[r].transfers
         /\ tx'[r].purchases = tx[r].purchases
         /\ tx'[r].balance = tx[r].balance
         /\ tx'[r].want \subseteq tx[r].want
         /\ tx'[r].at \in {tx[r].at, NoUser} /\ (tx'[r].at # NoUser => tx'[r].want = tx[r].want)
         /\ tx[r].status # "open" => tx'[r].status = tx[r].status
         /\ tx[r].status = "open" =>
              tx'[r].status =
                IF \/ r \in SendRequest /\ send[r].pc = "commit"
                   \/ r \in BuyRequest /\ buy[r].pc = "commit"
                THEN "committing" ELSE "aborting"
<1> DEFINE committing == \/ r \in SendRequest /\ send[r].pc = "commit"
                         \/ r \in BuyRequest /\ buy[r].pc = "commit"
           status == IF committing THEN "committing" ELSE "aborting"
<1>1. tx[r] \in Session
  BY DEF Inv, DBInv, DBTypeOK
<1>2. tx'[r] = IF tx[r].status = "open"
               THEN [tx[r] EXCEPT !.status = status, !.want = {}, !.at = NoUser]
               ELSE tx[r]
  BY DEF Crash
<1>3. status \in {"committing", "aborting"}
  OBVIOUS
<1> HIDE DEF status
<1>4. CASE tx[r].status = "open"
  <2>1. tx'[r] = [tx[r] EXCEPT !.status = status, !.want = {}, !.at = NoUser]
    BY <1>2, <1>4
  <2>2. /\ tx'[r] \in Session /\ tx'[r].status = status
        /\ tx'[r].want = {} /\ tx'[r].at = NoUser
        /\ tx'[r].created_at = tx[r].created_at
        /\ tx'[r].transfers = tx[r].transfers
        /\ tx'[r].purchases = tx[r].purchases
        /\ tx'[r].balance = tx[r].balance
    BY <1>1, <1>3, <2>1 DEF Session
  <2> QED BY <1>4, <2>2 DEF status
<1>5. CASE tx[r].status # "open"
  BY <1>1, <1>2, <1>5
<1> QED BY <1>4, <1>5

\* The server crashes: handlers are gone, sessions become orphans.
LEMMA CrashInv ==
  ASSUME Inv, Crash
  PROVE  Inv'
<1>1. /\ DBInv /\ AuthInv /\ SendTypeOK /\ BuyTypeOK
      /\ UNCHANGED <<users, transfers, purchases, locks, clock, tokens>>
      /\ tx' \in [Request -> Session]
  <2>1. DOMAIN tx' = Request /\ tx' = [r \in Request |-> tx'[r]]
    BY DEF Crash
  <2> QED BY <2>1, CrashSession DEF Inv, Crash
<1>2. DBInv'
  <2>1. ASSUME NEW s \in Request PROVE SessionInv(s, tx[s])'
    BY <1>1, CrashSession DEF DBInv, SessionInv
  <2> QED BY <1>1, <2>1 DEF DBInv, DBTypeOK
<1>3. ASSUME NEW s \in SendRequest
      PROVE  send'[s] \in SendState /\ SendInv(s)'
  <2>1. /\ s \in Request /\ s \notin BuyRequest /\ SendInv(s) /\ send[s] \in SendState
        /\ send'[s] = IF SendInFlight(s)
                      THEN [send[s] EXCEPT !.pc = "done", !.resp = "lost"] ELSE send[s]
    BY <1>1, RequestAssumption DEF Inv, SendTypeOK, Crash
  <2>2. CASE ~SendInFlight(s)
    <3>1. send'[s] = send[s] /\ tx[s].status # "open"
      BY <2>1, <2>2 DEF SendInFlight, SendInv
    <3>2. /\ tx'[s].status = tx[s].status /\ tx'[s].created_at = tx[s].created_at
          /\ tx'[s].transfers = tx[s].transfers /\ tx'[s].purchases = tx[s].purchases
          /\ tx'[s].balance = tx[s].balance
      BY <2>1, <3>1, CrashSession
    <3>3. NewTransferRow(s)' = NewTransferRow(s)
      BY <3>1, <3>2 DEF NewTransferRow
    <3>4. SendInv(s)'
      BY <1>1, <2>1, <3>1, <3>2, <3>3
      DEF SendInv, SendChecked, SendFresh, NothingStaged, TransferStaged
    <3> QED BY <2>1, <3>1, <3>4
  <2>3. CASE SendInFlight(s)
    <3>1. /\ send'[s] \in SendState /\ send'[s].pc = "done"
          /\ send'[s].src = send[s].src /\ send'[s].dst = send[s].dst
          /\ send'[s].amount = send[s].amount
          /\ send'[s].srcUserBalance = send[s].srcUserBalance
          /\ send'[s].dstUserBalance = send[s].dstUserBalance
      <4>1. send'[s] = [send[s] EXCEPT !.pc = "done", !.resp = "lost"]
        BY <2>1, <2>3
      <4> QED BY <2>1, <4>1 DEF SendState, SendOutcome
    <3>2. /\ tx'[s].created_at = tx[s].created_at
          /\ tx'[s].transfers = tx[s].transfers /\ tx'[s].purchases = tx[s].purchases
          /\ tx'[s].balance = tx[s].balance
          /\ tx'[s].status \in {"none", "aborting", "committing"}
          /\ tx'[s].status = "committing" => send[s].pc = "commit"
      BY <2>1, <2>3, CrashSession DEF SendInv, SendInFlight
    <3>3. NewTransferRow(s)' = NewTransferRow(s)
      BY <3>1, <3>2 DEF NewTransferRow
    <3>4. \A t \in transfers' : t.id # s
      BY <1>1, <2>1, <2>3 DEF SendInv, SendInFlight
    <3>5. send[s].pc = "commit" => TransferStaged(s)' /\ SendFresh(s)'
      BY <1>1, <2>1, <3>1, <3>2, <3>3 DEF SendInv, SendChecked, SendFresh, TransferStaged
    <3>6. SendInv(s)'
      BY <1>1, <2>1, <3>1, <3>2, <3>4, <3>5 DEF SendInv, SendChecked
    <3> QED BY <3>1, <3>6
  <2> QED BY <2>2, <2>3
<1>4. ASSUME NEW s \in BuyRequest
      PROVE  buy'[s] \in BuyState /\ BuyInv(s)'
  <2>1. /\ s \in Request /\ s \notin SendRequest /\ BuyInv(s) /\ buy[s] \in BuyState
        /\ buy'[s] = IF BuyInFlight(s)
                     THEN [buy[s] EXCEPT !.pc = "done", !.resp = "lost"] ELSE buy[s]
    BY <1>1, RequestAssumption DEF Inv, BuyTypeOK, Crash
  <2>2. CASE ~BuyInFlight(s)
    <3>1. buy'[s] = buy[s] /\ tx[s].status # "open"
      BY <2>1, <2>2 DEF BuyInFlight, BuyInv
    <3>2. /\ tx'[s].status = tx[s].status /\ tx'[s].created_at = tx[s].created_at
          /\ tx'[s].transfers = tx[s].transfers /\ tx'[s].purchases = tx[s].purchases
          /\ tx'[s].balance = tx[s].balance
      BY <2>1, <3>1, CrashSession
    <3>3. NewPurchaseRow(s)' = NewPurchaseRow(s)
      BY <3>1, <3>2 DEF NewPurchaseRow
    <3>4. BuyInv(s)'
      BY <1>1, <2>1, <3>1, <3>2, <3>3
      DEF BuyInv, BuyChecked, BuyFresh, NothingStaged, PurchaseStaged
    <3> QED BY <2>1, <3>1, <3>4
  <2>3. CASE BuyInFlight(s)
    <3>1. /\ buy'[s] \in BuyState /\ buy'[s].pc = "done"
          /\ buy'[s].user = buy[s].user /\ buy'[s].item = buy[s].item
          /\ buy'[s].price = buy[s].price /\ buy'[s].balance = buy[s].balance
      <4>1. buy'[s] = [buy[s] EXCEPT !.pc = "done", !.resp = "lost"]
        BY <2>1, <2>3
      <4>2. buy'[s] \in BuyState
        BY <2>1, <4>1 DEF BuyState, BuyOutcome
      <4>3. /\ buy'[s].pc = "done" /\ buy'[s].user = buy[s].user /\ buy'[s].item = buy[s].item
            /\ buy'[s].price = buy[s].price /\ buy'[s].balance = buy[s].balance
        BY <2>1, <4>1 DEF BuyState
      <4> QED BY <4>2, <4>3
    <3>2. /\ tx'[s].created_at = tx[s].created_at
          /\ tx'[s].transfers = tx[s].transfers /\ tx'[s].purchases = tx[s].purchases
          /\ tx'[s].balance = tx[s].balance
          /\ tx'[s].status \in {"none", "aborting", "committing"}
          /\ tx'[s].status = "committing" => buy[s].pc = "commit"
      BY <2>1, <2>3, CrashSession DEF BuyInv, BuyInFlight
    <3>3. NewPurchaseRow(s)' = NewPurchaseRow(s)
      BY <3>1, <3>2 DEF NewPurchaseRow
    <3>4. \A p \in purchases' : p.id # s
      BY <1>1, <2>1, <2>3 DEF BuyInv, BuyInFlight
    <3>5. buy[s].pc = "commit" => PurchaseStaged(s)' /\ BuyFresh(s)'
      BY <1>1, <2>1, <3>1, <3>2, <3>3 DEF BuyInv, BuyChecked, BuyFresh, PurchaseStaged
    <3>6. BuyInv(s)'
      BY <1>1, <2>1, <3>1, <3>2, <3>4, <3>5 DEF BuyInv, BuyChecked
    <3> QED BY <3>1, <3>6
  <2> QED BY <2>2, <2>3
<1>5. AuthInv'
  <2>1. ASSUME NEW s \in AuthRequest
        PROVE  /\ auth'[s] \in AuthState
               /\ auth'[s].orphan => auth'[s].pc = "done"
               /\ AuthInFlight(s)' \/ auth'[s].orphan =>
                    auth'[s].username \in Username /\ auth'[s].password \in Password
    <3>1. auth'[s] = IF AuthInFlight(s)
                     THEN [auth[s] EXCEPT !.pc = "done", !.resp = "lost",
                                          !.orphan = (auth[s].pc = "create")]
                     ELSE auth[s]
      BY DEF Crash
    <3>2. CASE AuthInFlight(s)
      BY <1>1, <3>1, <3>2, AuthCancelled
    <3>3. CASE ~AuthInFlight(s)
      BY <1>1, <3>1, <3>3 DEF AuthInv, AuthTypeOK, AuthInFlight
    <3> QED BY <3>2, <3>3
  <2>2. DOMAIN auth' = AuthRequest /\ auth' = [s \in AuthRequest |-> auth'[s]]
    BY DEF Crash
  <2>3. auth' \in [AuthRequest -> AuthState]
    BY <2>1, <2>2
  <2> QED BY <1>1, <2>1, <2>3 DEF AuthInv, AuthTypeOK
<1>6. SendTypeOK' /\ BuyTypeOK'
  <2>1. send' = [s \in SendRequest |-> send'[s]] /\ buy' = [s \in BuyRequest |-> buy'[s]]
    BY DEF Crash
  <2> QED BY <1>3, <1>4, <2>1 DEF SendTypeOK, BuyTypeOK
<1> QED BY <1>2, <1>3, <1>4, <1>5, <1>6 DEF Inv

\* The first state satisfies Inv.
LEMMA InitInv ==
  ASSUME Init
  PROVE  Inv
<1>1. /\ DBInit /\ SendInit /\ BuyInit /\ AuthInit
  BY DEF Init
<1>2. DBTypeOK
  <2>1. users \in [DOMAIN users -> UserRow] /\ DOMAIN users \subseteq UserID
    BY <1>1, SeedAssumption, ConstantsAssumption DEF DBInit, UserRow, PasswordHash
  <2> QED BY <1>1, <2>1, NoSessionType DEF DBInit, DBTypeOK
<1>3. \A r \in Request : tx[r] = NoSession
  BY <1>1 DEF DBInit
<1>4. \A r \in Request : SessionInv(r, tx[r])
  BY <1>3, NoSessionType DEF SessionInv
<1>5. DBInv
  BY <1>1, <1>2, <1>4 DEF DBInit, DBInv
<1>6. SendTypeOK /\ \A r \in SendRequest : send[r].pc = "recv"
  <2> DEFINE v == [pc |-> "recv", resp |-> "none", src |-> NoUser, dst |-> NoUser,
                   to |-> "", amount |-> 0, srcUserBalance |-> 0, dstUserBalance |-> 0]
  <2>1. v \in SendState
    BY DEF SendState, SendOutcome
  <2>2. send = [r \in SendRequest |-> v] /\ v.pc = "recv"
    BY <1>1 DEF SendInit
  <2> HIDE DEF v
  <2> QED BY <2>1, <2>2 DEF SendTypeOK
<1>7. BuyTypeOK /\ \A r \in BuyRequest : buy[r].pc = "recv"
  <2> DEFINE v == [pc |-> "recv", resp |-> "none", user |-> NoUser, item |-> "",
                   price |-> 0, balance |-> 0]
  <2>1. v \in BuyState
    BY ConstantsAssumption DEF BuyState, BuyOutcome, Int32
  <2>2. buy = [r \in BuyRequest |-> v] /\ v.pc = "recv"
    BY <1>1 DEF BuyInit
  <2> HIDE DEF v
  <2> QED BY <2>1, <2>2 DEF BuyTypeOK
<1>8. AuthInv
  <2>1. tokens \subseteq UserID
    BY <1>1, SeedAssumption, AuthAssumption DEF AuthInit
  <2>2. /\ auth \in [AuthRequest -> AuthState]
        /\ \A r \in AuthRequest : auth[r].pc = "recv" /\ ~auth[r].orphan
    BY <1>1 DEF AuthInit, AuthState
  <2> QED BY <2>1, <2>2 DEF AuthInv, AuthTypeOK, AuthInFlight
<1>9. transfers = {} /\ purchases = {} /\ \A r \in Request : tx[r].status = "none"
  BY <1>1, <1>3, NoSessionType DEF DBInit
<1>10. \A r \in SendRequest : SendInv(r)
  BY <1>6, <1>9, RequestAssumption DEF SendInv, SendChecked
<1>11. \A r \in BuyRequest : BuyInv(r)
  BY <1>7, <1>9, RequestAssumption DEF BuyInv, BuyChecked
<1> QED BY <1>5, <1>6, <1>7, <1>8, <1>10, <1>11 DEF Inv

\* Every step keeps Inv.
LEMMA NextInv ==
  ASSUME Inv, [Next]_vars
  PROVE  Inv'
<1>1. ASSUME NEW r \in SendRequest, OnlySend,
             (\E u \in tokens : PostAPISendCoin(r, u)) \/ SendStep(r) \/ CancelSend(r)
      PROVE  Inv'
  <2>1. CASE LockUsersDeadlock(r)
    BY <1>1, <2>1, SendFailInv DEF LockUsersDeadlock, SendOutcome
  <2> QED
    BY <1>1, <2>1, PostAPISendCoinInv, LookupDstInv, BeginTransferInv, LockUsersInv,
       LockUsersRowInv, CheckBalanceInv, CreateTransferInv, UpdateSrcInv, UpdateDstInv,
       CommitTransferInv, CancelSendInv DEF SendStep
<1>2. ASSUME NEW r \in BuyRequest, OnlyBuy,
             (\E u \in tokens : GetAPIBuyItem(r, u)) \/ BuyStep(r) \/ CancelBuy(r)
      PROVE  Inv'
  BY <1>2, GetAPIBuyItemInv, LookupItemInv, BeginPurchaseInv, LockBuyerInv,
     LockBuyerRowInv, CheckFundsInv, CreatePurchaseInv, UpdateBuyerInv,
     CommitPurchaseInv, CancelBuyInv DEF BuyStep
<1>3. ASSUME NEW r \in AuthRequest, OnlyAuth,
             PostAPIAuth(r) \/ AuthStep(r) \/ CancelAuth(r) \/ OrphanInsert(r)
      PROVE  Inv'
  BY <1>3, PostAPIAuthInv, AuthStepInv, CancelAuthInv, OrphanInsertInv
<1>4. CASE UNCHANGED <<dbvars, send, buy, auth, tokens>>
  <2>1. AuthInv'
    BY <1>4 DEF Inv, AuthInv, AuthTypeOK, AuthInFlight
  <2> QED BY <1>4, <2>1, StutterDB, OthersKeepInv DEF Inv
<1>5. ASSUME NEW r \in InfoRequest, OnlyInfo,
             (\E u \in tokens : GetAPIInfo(r, u)) \/ InfoStep(r) \/ CancelInfo(r)
      PROVE  Inv'
  <2>1. UNCHANGED dbvars
    BY <1>5 DEF GetAPIInfo, InfoStep, ReadItemCounts, ReadTransfers, ReadBalance, CancelInfo
  <2> QED BY <1>4, <1>5, <2>1 DEF OnlyInfo
<1>6. CASE Idle \/ UNCHANGED vars
  BY <1>4, <1>6 DEF Idle, vars
<1> QED BY <1>1, <1>2, <1>3, <1>5, <1>6, OrphanStepInv, CrashInv DEF Next

\* Inv is an invariant of the server.
THEOREM InvariantHolds == Spec => []Inv
<1>1. Init => Inv
  BY InitInv
<1>2. Inv /\ [Next]_vars => Inv'
  BY NextInv
<1> QED BY <1>1, <1>2, PTL DEF Spec

\* Every variable keeps its type, for any number of users, requests, items and
\* coins: no balance leaves the range of the column, and no row a handler stages
\* violates a CHECK constraint.
THEOREM TypeCorrect == Spec => []TypeOK
<1>1. Inv => TypeOK
  BY DEF Inv, DBInv, AuthInv, TypeOK
<1> QED BY <1>1, InvariantHolds, PTL

\* The balances a handler has computed stay right until its transaction ends,
\* whatever the other handlers, the orphaned sessions and crashes do.
THEOREM BalancesStayFresh == Spec => []FreshBalances
<1>1. Inv => FreshBalances
  BY DEF Inv, SendInv, SendChecked, BuyInv, BuyChecked, FreshBalances
<1> QED BY <1>1, InvariantHolds, PTL

-----------------------------------------------------------------------------
(* What a step does to the tables *)

\* The transaction of r is complete, and COMMIT is what it waits for.
Committing(r) ==
  \/ r \in SendRequest /\ send[r].pc = "commit"
  \/ r \in BuyRequest /\ buy[r].pc = "commit"
  \/ tx[r].status = "committing"

\* COMMIT of a transfer moves the amount and adds the row that says so, the first
\* one of its request.
LEMMA CommitTransferEffect ==
  ASSUME Inv, NEW r \in SendRequest, Commit(r), Committing(r)
  PROVE  LET s == send[r]
         IN  /\ s.src \in UserID /\ s.dst \in UserID /\ s.amount \in 1..MaxInt32
             /\ s.src \in DOMAIN users /\ s.dst \in DOMAIN users /\ s.src # s.dst
             /\ \A t \in transfers : t.id # r
             /\ DOMAIN users' = DOMAIN users
             /\ users'[s.src].balance = users[s.src].balance - s.amount
             /\ users'[s.dst].balance = users[s.dst].balance + s.amount
             /\ \A u \in DOMAIN users \ {s.src, s.dst} : users'[u].balance = users[u].balance
             /\ users[s.src].balance >= s.amount
             /\ users[s.dst].balance + s.amount <= MaxInt32
             /\ transfers' = transfers \cup {NewTransferRow(r)} /\ purchases' = purchases
<1> DEFINE s == send[r]
<1>1. r \in Request /\ SendInv(r) /\ DBInv /\ (send[r].pc = "commit" \/ tx[r].status = "committing")
  BY RequestAssumption DEF Inv, Committing
<1>2. /\ TransferStaged(r) /\ SendFresh(r) /\ s.dstUserBalance \in Int32
      /\ s.srcUserBalance \in Int32 /\ s.amount \in 1..MaxInt32
      /\ s.src \in UserID /\ s.dst \in UserID
      /\ \A t \in transfers : t.id # r
  BY <1>1 DEF SendInv, SendChecked
<1>3. s.src \in DOMAIN users /\ s.dst \in DOMAIN users /\ s.src # s.dst
  BY <1>1, <1>2, ConstantsAssumption DEF SendFresh, DBInv
<1>4. \A u \in DOMAIN users : users[u] \in UserRow /\ users[u].balance \in Int
  BY <1>1, ConstantsAssumption DEF DBInv, DBTypeOK, UserRow, Int32
<1>5. /\ DOMAIN users' = DOMAIN users
      /\ users'[s.src].balance = users[s.src].balance - s.amount
      /\ users'[s.dst].balance = users[s.dst].balance + s.amount
      /\ \A u \in DOMAIN users \ {s.src, s.dst} : users'[u].balance = users[u].balance
  <2>1. users' = [u \in DOMAIN users |->
                    IF u \in {s.src, s.dst}
                    THEN [users[u] EXCEPT !.balance = tx[r].balance[u]]
                    ELSE users[u]]
    BY <1>2 DEF Commit, TransferStaged
  <2>2. \A u \in DOMAIN users : \A b : [users[u] EXCEPT !.balance = b].balance = b
    BY <1>4 DEF UserRow
  <2> QED BY <1>2, <1>3, <2>1, <2>2 DEF TransferStaged, SendFresh
<1>6. transfers' = transfers \cup {NewTransferRow(r)} /\ purchases' = purchases
  BY <1>2 DEF Commit, TransferStaged
<1>7. /\ users[s.src].balance >= s.amount
      /\ users[s.dst].balance + s.amount <= MaxInt32
  BY <1>2, <1>3, <1>4, ConstantsAssumption DEF SendFresh, Int32
<1> QED BY <1>2, <1>3, <1>5, <1>6, <1>7

\* COMMIT of a purchase takes the price and adds the row that says so, the first
\* one of its request.
LEMMA CommitPurchaseEffect ==
  ASSUME Inv, NEW r \in BuyRequest, Commit(r), Committing(r)
  PROVE  LET b == buy[r]
         IN  /\ b.user \in UserID /\ b.user \in DOMAIN users
             /\ b.item \in Items /\ b.price = Price[b.item] /\ b.price \in Int32
             /\ \A p \in purchases : p.id # r
             /\ DOMAIN users' = DOMAIN users
             /\ users'[b.user].balance = users[b.user].balance - b.price
             /\ \A u \in DOMAIN users \ {b.user} : users'[u].balance = users[u].balance
             /\ users[b.user].balance >= b.price
             /\ purchases' = purchases \cup {NewPurchaseRow(r)} /\ transfers' = transfers
<1> DEFINE b == buy[r]
<1>1. r \in Request /\ BuyInv(r) /\ DBInv /\ (buy[r].pc = "commit" \/ tx[r].status = "committing")
  BY RequestAssumption DEF Inv, Committing
<1>2. /\ PurchaseStaged(r) /\ BuyFresh(r) /\ b.balance \in Int32
      /\ b.item \in Items /\ b.price = Price[b.item] /\ b.price \in Int32
      /\ b.user \in UserID
      /\ \A p \in purchases : p.id # r
  BY <1>1 DEF BuyInv, BuyChecked, Inv, BuyTypeOK, BuyState
<1>3. b.user \in DOMAIN users
  BY <1>1, <1>2, ConstantsAssumption DEF BuyFresh, DBInv
<1>4. \A u \in DOMAIN users : users[u] \in UserRow /\ users[u].balance \in Int
  BY <1>1, ConstantsAssumption DEF DBInv, DBTypeOK, UserRow, Int32
<1>5. /\ DOMAIN users' = DOMAIN users
      /\ users'[b.user].balance = users[b.user].balance - b.price
      /\ \A u \in DOMAIN users \ {b.user} : users'[u].balance = users[u].balance
  <2>1. users' = [u \in DOMAIN users |->
                    IF u \in {b.user}
                    THEN [users[u] EXCEPT !.balance = tx[r].balance[u]]
                    ELSE users[u]]
    BY <1>2 DEF Commit, PurchaseStaged
  <2>2. \A u \in DOMAIN users : \A v : [users[u] EXCEPT !.balance = v].balance = v
    BY <1>4 DEF UserRow
  <2> QED BY <1>2, <1>3, <2>1, <2>2 DEF PurchaseStaged, BuyFresh
<1>6. purchases' = purchases \cup {NewPurchaseRow(r)} /\ transfers' = transfers
  BY <1>2 DEF Commit, PurchaseStaged
<1>7. users[b.user].balance >= b.price
  BY <1>2, <1>3, <1>4, ConstantsAssumption DEF BuyFresh, Int32
<1> QED BY <1>2, <1>3, <1>5, <1>6, <1>7

\* The three tables change only when a complete transaction is committed, by its
\* handler or by an orphaned session, or when an account is created, for a caller
\* that gets a token for it or by an INSERT that was left behind.
LEMMA TablesChange ==
  ASSUME Inv, [Next]_vars
  PROVE  \/ UNCHANGED <<users, transfers, purchases>>
         \/ \E r \in Request : Commit(r) /\ Committing(r)
         \/ \E r \in AuthRequest, u \in UserID :
              InsertUser(r, u) /\ (IssueToken(r, u) \/ OrphanInsert(r))
<1> DEFINE Quiet == UNCHANGED <<users, transfers, purchases>>
<1>1. ASSUME NEW r \in Request, DeferredRollback(r) PROVE Quiet
  BY <1>1 DEF DeferredRollback, Rollback, Disconnect, Stage
<1>2. ASSUME NEW r \in SendRequest,
             (\E u \in tokens : PostAPISendCoin(r, u)) \/ SendStep(r) \/ CancelSend(r)
      PROVE  Quiet \/ (Commit(r) /\ Committing(r))
  <2>1. CASE CommitTransfer(r)
    BY <2>1 DEF CommitTransfer, Committing
  <2>2. CASE LockUsers(r) \/ LockUsersRow(r) \/ BeginTransfer(r) \/ CreateTransfer(r)
    BY <2>2 DEF LockUsers, SelectForUpdate, LockUsersRow, LockRow, BeginTransfer, Begin,
                CreateTransfer, Stage
  <2>3. CASE LockUsersDeadlock(r) \/ CheckBalance(r) \/ UpdateSrc(r) \/ UpdateDst(r)
    BY <1>1, <1>2, <2>3, RequestAssumption
    DEF LockUsersDeadlock, CheckBalance, UpdateSrc, UpdateDst, SendUpdateBalance, SendFail,
        Stage, dbvars
  <2>4. CASE (\E u \in tokens : PostAPISendCoin(r, u)) \/ LookupDst(r) \/ CancelSend(r)
    BY <2>4 DEF PostAPISendCoin, LookupDst, CancelSend, Disconnect, Stage, dbvars
  <2> QED BY <1>2, <2>1, <2>2, <2>3, <2>4 DEF SendStep
<1>3. ASSUME NEW r \in BuyRequest,
             (\E u \in tokens : GetAPIBuyItem(r, u)) \/ BuyStep(r) \/ CancelBuy(r)
      PROVE  Quiet \/ (Commit(r) /\ Committing(r))
  <2>1. CASE CommitPurchase(r)
    BY <2>1 DEF CommitPurchase, Committing
  <2>2. CASE LockBuyer(r) \/ LockBuyerRow(r) \/ BeginPurchase(r)
             \/ CreatePurchase(r) \/ UpdateBuyer(r)
    BY <2>2 DEF LockBuyer, SelectForUpdate, LockBuyerRow, LockRow, BeginPurchase, Begin,
                CreatePurchase, UpdateBuyer, Stage
  <2>3. CASE CheckFunds(r)
    BY <1>1, <1>3, <2>3, RequestAssumption DEF CheckFunds, BuyFail, dbvars
  <2>4. CASE (\E u \in tokens : GetAPIBuyItem(r, u)) \/ LookupItem(r) \/ CancelBuy(r)
    BY <2>4 DEF GetAPIBuyItem, LookupItem, CancelBuy, Disconnect, Stage, dbvars
  <2> QED BY <1>3, <2>1, <2>2, <2>3, <2>4 DEF BuyStep
<1>4. ASSUME NEW r \in AuthRequest,
             PostAPIAuth(r) \/ AuthStep(r) \/ CancelAuth(r) \/ OrphanInsert(r)
      PROVE  \/ Quiet
             \/ \E u \in UserID : InsertUser(r, u) /\ (IssueToken(r, u) \/ OrphanInsert(r))
  BY <1>4
  DEF PostAPIAuth, AuthStep, AuthLookup, CreateUser, AuthReread, CancelAuth, OrphanInsert, dbvars
<1>5. ASSUME NEW r \in InfoRequest,
             (\E u \in tokens : GetAPIInfo(r, u)) \/ InfoStep(r) \/ CancelInfo(r)
      PROVE  Quiet
  BY <1>5 DEF GetAPIInfo, InfoStep, ReadItemCounts, ReadTransfers, ReadBalance, CancelInfo, dbvars
<1>6. ASSUME NEW r \in Request, OrphanStep(r)
      PROVE  Quiet \/ (Commit(r) /\ Committing(r))
  BY <1>6 DEF OrphanStep, OrphanRollback, OrphanCommit, Rollback, Committing
<1>7. CASE Crash \/ Idle \/ UNCHANGED vars
  BY <1>7 DEF Crash, Idle, vars, dbvars
<1> QED BY <1>2, <1>3, <1>4, <1>5, <1>6, <1>7, RequestAssumption DEF Next

\* The same, without who an account is created for.
LEMMA TablesStep ==
  ASSUME Inv, [Next]_vars
  PROVE  \/ UNCHANGED <<users, transfers, purchases>>
         \/ \E r \in Request : Commit(r) /\ Committing(r)
         \/ \E r \in AuthRequest, u \in UserID : InsertUser(r, u)
  BY TablesChange

-----------------------------------------------------------------------------
(* What a step leaves alone *)

\* The sessions of all requests but q and the locks they hold stay as they are.
Alone(q) ==
  \A s \in Request \ {q} :
    /\ tx'[s] = tx[s]
    /\ \A u \in UserID : locks'[u] = s <=> locks[u] = s

\* Whatever q does on its session, it does to no other one.
LEMMA SessionAlone ==
  ASSUME DBTypeOK, NEW q \in Request,
         \/ UNCHANGED <<tx, locks>>
         \/ Begin(q) \/ (\E ids : SelectForUpdate(q, ids)) \/ LockRow(q)
         \/ (\E session : Stage(q, session)) \/ EndSession(q)
  PROVE  Alone(q)
<1>1. /\ tx \in [Request -> Session] /\ locks \in [UserID -> Request \cup {NoRequest}]
      /\ NoRequest \notin Request
  BY ConstantsAssumption DEF DBTypeOK
<1>2. CASE UNCHANGED <<tx, locks>>
  BY <1>2 DEF Alone
<1>3. CASE Begin(q)
  BY <1>1, <1>3 DEF Alone, Begin
<1>4. CASE \E ids : SelectForUpdate(q, ids)
  BY <1>1, <1>4 DEF Alone, SelectForUpdate
<1>5. CASE LockRow(q)
  <2>1. tx[q].at \in UserID
    BY <1>1, <1>5 DEF LockRow, Session
  <2> QED BY <1>1, <1>5, <2>1 DEF Alone, LockRow
<1>6. CASE \E session : Stage(q, session)
  BY <1>1, <1>6 DEF Alone, Stage
<1>7. CASE EndSession(q)
  BY <1>1, <1>7 DEF Alone, EndSession
<1> QED BY <1>2, <1>3, <1>4, <1>5, <1>6, <1>7

\* A handler that returns early ends its own session only.
LEMMA RollbackAlone ==
  ASSUME DBTypeOK, NEW q \in Request, DeferredRollback(q)
  PROVE  Alone(q)
  BY SessionAlone DEF DeferredRollback, Rollback, Disconnect

\* A step of one handler of /api/sendCoin leaves the others alone.
LEMMA SendAlone ==
  ASSUME Inv, NEW q \in SendRequest,
         (\E u \in tokens : PostAPISendCoin(q, u)) \/ SendStep(q) \/ CancelSend(q)
  PROVE  Alone(q) /\ \A s \in SendRequest \ {q} : send'[s] = send[s]
<1>1. q \in Request /\ DBTypeOK /\ send \in [SendRequest -> SendState]
  BY RequestAssumption DEF Inv, DBInv, SendTypeOK
<1>2. CASE (\E u \in tokens : PostAPISendCoin(q, u)) \/ LookupDst(q)
  <2>1. tx' = tx /\ locks' = locks /\ Alone(q)
    BY <1>1, <1>2, SessionAlone DEF PostAPISendCoin, LookupDst, dbvars
  <2>2. CASE \E u \in tokens : PostAPISendCoin(q, u)
    BY <1>1, <2>1, <2>2 DEF PostAPISendCoin
  <2>3. CASE LookupDst(q)
    BY <1>1, <2>1, <2>3 DEF LookupDst, SendReturn
  <2> QED BY <1>2, <2>2, <2>3
<1>3. CASE BeginTransfer(q) \/ LockUsers(q) \/ LockUsersRow(q) \/ CreateTransfer(q)
  BY <1>1, <1>3, SessionAlone
  DEF BeginTransfer, LockUsers, LockUsersRow, CreateTransfer, SendGoto
<1>4. CASE LockUsersDeadlock(q) \/ CheckBalance(q)
  BY <1>1, <1>4, SessionAlone, RollbackAlone
  DEF LockUsersDeadlock, CheckBalance, SendFail, SendReturn, dbvars
<1>5. CASE UpdateSrc(q) \/ UpdateDst(q)
  BY <1>1, <1>5, SessionAlone, RollbackAlone
  DEF UpdateSrc, UpdateDst, SendUpdateBalance, SendFail, SendGoto, SendReturn
<1>6. CASE CommitTransfer(q) \/ CancelSend(q)
  BY <1>1, <1>6, SessionAlone
  DEF CommitTransfer, Commit, CancelSend, Disconnect, SendReturn, dbvars
<1> QED BY <1>2, <1>3, <1>4, <1>5, <1>6 DEF SendStep

\* So does a step of one handler of /api/buy/{item}.
LEMMA BuyAlone ==
  ASSUME Inv, NEW q \in BuyRequest,
         (\E u \in tokens : GetAPIBuyItem(q, u)) \/ BuyStep(q) \/ CancelBuy(q)
  PROVE  Alone(q) /\ \A s \in BuyRequest \ {q} : buy'[s] = buy[s]
<1>1. q \in Request /\ DBTypeOK /\ buy \in [BuyRequest -> BuyState]
  BY RequestAssumption DEF Inv, DBInv, BuyTypeOK
<1>2. CASE (\E u \in tokens : GetAPIBuyItem(q, u)) \/ LookupItem(q)
  BY <1>1, <1>2, SessionAlone DEF GetAPIBuyItem, LookupItem, BuyReturn, dbvars
<1>3. CASE BeginPurchase(q) \/ LockBuyer(q) \/ LockBuyerRow(q)
  BY <1>1, <1>3, SessionAlone DEF BeginPurchase, LockBuyer, LockBuyerRow, BuyGoto
<1>4. CASE CheckFunds(q) \/ CreatePurchase(q) \/ UpdateBuyer(q)
  BY <1>1, <1>4, SessionAlone, RollbackAlone
  DEF CheckFunds, CreatePurchase, UpdateBuyer, BuyFail, BuyReturn, BuyGoto, dbvars
<1>5. CASE CommitPurchase(q) \/ CancelBuy(q)
  BY <1>1, <1>5, SessionAlone
  DEF CommitPurchase, Commit, CancelBuy, Disconnect, BuyReturn, dbvars
<1> QED BY <1>2, <1>3, <1>4, <1>5 DEF BuyStep

\* So does the end of an orphaned session.
LEMMA OrphanAlone ==
  ASSUME Inv, NEW q \in Request, OrphanStep(q)
  PROVE  Alone(q)
  BY SessionAlone DEF Inv, DBInv, OrphanStep, OrphanRollback, OrphanCommit, Rollback, Commit

\* /api/auth and /api/info keep no session.
LEMMA SessionsStay ==
  ASSUME \/ \E r \in AuthRequest :
              PostAPIAuth(r) \/ AuthStep(r) \/ CancelAuth(r) \/ OrphanInsert(r)
         \/ \E r \in InfoRequest :
              (\E u \in tokens : GetAPIInfo(r, u)) \/ InfoStep(r) \/ CancelInfo(r)
         \/ Idle \/ UNCHANGED vars
  PROVE  UNCHANGED <<tx, locks, transfers, purchases>>
  BY DEF PostAPIAuth, AuthStep, AuthLookup, CreateUser, InsertUser, AuthReread, CancelAuth,
         OrphanInsert, GetAPIInfo, InfoStep, ReadItemCounts, ReadTransfers, ReadBalance,
         CancelInfo, Idle, vars, dbvars

-----------------------------------------------------------------------------
(* Server implements Shop *)

\* COMMIT of a complete transfer is the abstract transfer, all at once.
LEMMA CommitIsTransfer ==
  ASSUME Inv, NEW r \in SendRequest, Commit(r), Committing(r)
  PROVE  ShopView!Next
<1> DEFINE s == send[r]
           account == [u \in DOMAIN users |-> users[u].balance]
           row(t) == [id |-> t.id, dst_user_id |-> t.dst_user_id,
                      src_user_id |-> t.src_user_id, amount |-> t.amount]
           made(T) == {row(t) : t \in T}
<1>1. account' = [account EXCEPT ![s.src] = @ - s.amount, ![s.dst] = @ + s.amount]
  BY CommitTransferEffect
<1>2. made(transfers') = made(transfers) \cup
        {[id |-> r, dst_user_id |-> s.dst, src_user_id |-> s.src, amount |-> s.amount]}
  <2>1. row(NewTransferRow(r)) =
          [id |-> r, dst_user_id |-> s.dst, src_user_id |-> s.src, amount |-> s.amount]
    BY DEF NewTransferRow
  <2> HIDE DEF row
  <2>2. made(transfers \cup {NewTransferRow(r)}) = made(transfers) \cup {row(NewTransferRow(r))}
    OBVIOUS
  <2> QED BY <2>1, <2>2, CommitTransferEffect
<1>3. \A t \in made(transfers) : t.id # r
  BY CommitTransferEffect
<1>4. PICK src \in UserID, dst \in UserID, amount \in 1..MaxInt32 :
         src = s.src /\ dst = s.dst /\ amount = s.amount
  BY CommitTransferEffect
<1>5. ShopView!Transfer(r, src, dst, amount)
  BY <1>1, <1>2, <1>3, <1>4, CommitTransferEffect DEF ShopView!Transfer
<1> QED BY <1>5, RequestAssumption DEF ShopView!Next

\* COMMIT of a complete purchase is the abstract purchase.
LEMMA CommitIsPurchase ==
  ASSUME Inv, NEW r \in BuyRequest, Commit(r), Committing(r)
  PROVE  ShopView!Next
<1> DEFINE b == buy[r]
           account == [u \in DOMAIN users |-> users[u].balance]
           row(p) == [id |-> p.id, user_id |-> p.user_id, item_id |-> p.item_id,
                      amount |-> p.amount]
           made(P) == {row(p) : p \in P}
<1>1. account' = [account EXCEPT ![b.user] = @ - Price[b.item]]
  BY CommitPurchaseEffect
<1>2. made(purchases') = made(purchases) \cup
        {[id |-> r, user_id |-> b.user, item_id |-> b.item, amount |-> Price[b.item]]}
  <2>1. row(NewPurchaseRow(r)) =
          [id |-> r, user_id |-> b.user, item_id |-> b.item, amount |-> Price[b.item]]
    BY CommitPurchaseEffect DEF NewPurchaseRow
  <2> HIDE DEF row
  <2>2. made(purchases \cup {NewPurchaseRow(r)}) = made(purchases) \cup {row(NewPurchaseRow(r))}
    OBVIOUS
  <2> QED BY <2>1, <2>2, CommitPurchaseEffect
<1>3. \A p \in made(purchases) : p.id # r
  BY CommitPurchaseEffect
<1>4. PICK u \in UserID, item \in Items : u = b.user /\ item = b.item
  BY CommitPurchaseEffect
<1>5. ShopView!Purchase(r, u, item)
  BY <1>1, <1>2, <1>3, <1>4, CommitPurchaseEffect DEF ShopView!Purchase
<1> QED BY <1>5, RequestAssumption DEF ShopView!Next

\* A new row of users is a new account.
LEMMA InsertIsOpen ==
  ASSUME NEW r, NEW u \in UserID, InsertUser(r, u)
  PROVE  ShopView!Next
<1> DEFINE row == [username |-> auth[r].username, password_hash |-> Hash(auth[r].password),
                   balance |-> DefaultBalance]
<1>1. /\ u \notin DOMAIN users
      /\ users' = [x \in DOMAIN users \cup {u} |-> IF x = u THEN row ELSE users[x]]
      /\ UNCHANGED <<transfers, purchases>>
  BY DEF InsertUser, Put
<1>2. row.balance = DefaultBalance
  OBVIOUS
<1> HIDE DEF row
<1> DEFINE account == [v \in DOMAIN users |-> users[v].balance]
<1>3. account' = [v \in DOMAIN account \cup {u} |->
                    IF v = u THEN DefaultBalance ELSE account[v]]
  BY <1>1, <1>2
<1>4. ShopView!Open(u)
  BY <1>1, <1>3 DEF ShopView!Open
<1> QED BY <1>4 DEF ShopView!Next

\* A step that leaves the three tables alone is a stutter of Shop.
LEMMA ShopStutters ==
  ASSUME UNCHANGED <<users, transfers, purchases>>
  PROVE  UNCHANGED ShopView!shopvars
  BY DEF ShopView!shopvars

\* Every step of the server is a step of Shop or a stutter.
LEMMA StepImplementsShop ==
  ASSUME Inv, [Next]_vars
  PROVE  [ShopView!Next]_(ShopView!shopvars)
<1>1. CASE UNCHANGED <<users, transfers, purchases>>
  BY <1>1, ShopStutters
<1>2. ASSUME NEW r \in Request, Commit(r), Committing(r) PROVE ShopView!Next
  BY <1>2, CommitIsTransfer, CommitIsPurchase, RequestAssumption
<1>3. ASSUME NEW r \in AuthRequest, NEW u \in UserID, InsertUser(r, u) PROVE ShopView!Next
  BY <1>3, InsertIsOpen
<1> QED BY <1>1, <1>2, <1>3, TablesStep

\* The server implements Shop: whatever is interleaved, cancelled, orphaned or
\* lost in a crash, transfers, purchases and new accounts take effect one at a
\* time and completely.
THEOREM ImplementsShop == Spec => RefinesShop
<1>1. Init => ShopView!Init
  <2>1. SUFFICES ASSUME Init PROVE ShopView!Init
    OBVIOUS
  <2>2. DOMAIN users = DOMAIN SeededUsers /\ transfers = {} /\ purchases = {}
        /\ \A u \in DOMAIN users : users[u].balance = DefaultBalance
    BY <2>1 DEF Init, DBInit
  <2> QED BY <2>2 DEF ShopView!Init
<1>2. Inv /\ [Next]_vars => [ShopView!Next]_(ShopView!shopvars)
  BY StepImplementsShop
<1> QED BY <1>1, <1>2, InvariantHolds, PTL DEF Spec, RefinesShop, ShopView!Spec

=============================================================================
