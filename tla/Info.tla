-------------------------------- MODULE Info --------------------------------
(***************************************************************************)
(* GET /api/info: the handler GetAPIInfo and the getters it calls.  The    *)
(* three queries run one after the other, each a transaction of its own:   *)
(* other requests may commit between them.                                 *)
(***************************************************************************)
EXTENDS Postgres, SequencesExt

CONSTANT InfoRequest   \* requests to /api/info

VARIABLE info          \* state of the handler of each request

\* The inventory: how many of each item that was bought.
ItemCounts == UNION {[S -> 1..Cardinality(Request)] : S \in SUBSET Items}

InfoState ==
  [pc   : {"recv", "purchases", "transfers", "balance", "done"},
   resp : {"none", "ok", "internal", "lost"},
   user : UserID \cup {NoUser},
   itemCounts : ItemCounts,
   transfers  : Seq(TransferRow),
   coins      : Int32]

\* What /api/info has collected is well formed at every point of the handler: an
\* item is listed only when it was bought, and never more often than there were
\* requests that could buy it.
InfoTypeOK == info \in [InfoRequest -> InfoState]

InfoInit ==
  info = [r \in InfoRequest |->
            [pc |-> "recv", resp |-> "none", user |-> NoUser,
             itemCounts |-> [i \in {} |-> 0], transfers |-> <<>>, coins |-> 0]]

InfoReturn(r, resp) == info' = [info EXCEPT ![r].pc = "done", ![r].resp = resp]

\* Mutant: items LEFT JOIN purchases.
GetItemCountsLeftJoin(u) ==
  [i \in Items |-> Cardinality({p \in purchases : p.user_id = u /\ p.item_id = i})]

\* getItemCountsByUserID: count(*) ... GROUP BY item.
CountItems(rows) ==
  [i \in {p.item_id : p \in rows} |-> Cardinality({p \in rows : p.item_id = i})]

GetItemCountsByUserID(u) == CountItems({p \in purchases : p.user_id = u})

\* getTransfersByUserID: the rows it selects.
TransfersOf(u) == {t \in transfers : u \in {t.dst_user_id, t.src_user_id}}

\* Mutant: a statement lists only the first transfer.
GetFirstTransferByUserID(u) ==
  SetToSeq({t \in TransfersOf(u) : \A s \in TransfersOf(u) : t.created_at <= s.created_at})

\* ORDER BY created_at, id; created_at decides here.
Sorted(ts) == IsSorted(ts, LAMBDA s, t : s.created_at < t.created_at)

GetTransfersByUserID(u) == CHOOSE ts \in SetToSeqs(TransfersOf(u)) : Sorted(ts)

\* Mutant: whoever is not the sender has sent.
SentByOthers(u, ts) == {t \in ToSet(ts) : t.src_user_id # u}

\* The two lists of the response, from the transfers of user u; both keep the
\* order of ts.
Sent(u, ts) == {t \in ToSet(ts) : t.src_user_id = u}
Received(u, ts) == {t \in ToSet(ts) : t.dst_user_id = u}

-----------------------------------------------------------------------------

GetAPIInfo(r, u) ==
  /\ info[r].pc = "recv"
  /\ info' = [info EXCEPT ![r].user = u, ![r].pc = "purchases"]
  /\ UNCHANGED dbvars

ReadItemCounts(r) ==
  /\ info[r].pc = "purchases"
  /\ PoolFree
  /\ info' = [info EXCEPT ![r].itemCounts = GetItemCountsByUserID(info[r].user),
                          ![r].pc = "transfers"]
  /\ UNCHANGED dbvars

ReadTransfers(r) ==
  /\ info[r].pc = "transfers"
  /\ PoolFree
  /\ info' = [info EXCEPT ![r].transfers = GetTransfersByUserID(info[r].user),
                          ![r].pc = "balance"]
  /\ UNCHANGED dbvars

\* coin.Getter.GetBalance, and the response.
ReadBalance(r) ==
  /\ info[r].pc = "balance"
  /\ PoolFree
  /\ LET found == GetUser(info[r].user)
     IN  \/ found = {} /\ InfoReturn(r, "internal")
         \/ \E u \in found :
              info' = [info EXCEPT ![r].coins = users[u].balance,
                                   ![r].pc = "done", ![r].resp = "ok"]
  /\ UNCHANGED dbvars

\* The database call the handler waits for fails.
InfoInFlight(r) == info[r].pc \notin {"recv", "done"}

CancelInfo(r) ==
  /\ InfoInFlight(r)
  /\ InfoReturn(r, "internal")
  /\ UNCHANGED dbvars

InfoStep(r) == ReadItemCounts(r) \/ ReadTransfers(r) \/ ReadBalance(r)

=============================================================================
