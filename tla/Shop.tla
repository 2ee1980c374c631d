-------------------------------- MODULE Shop --------------------------------
(***************************************************************************)
(* What the service promises about coins, without requests, sessions or    *)
(* locks: an account is opened with the default balance, a transfer moves  *)
(* coins from one account to another, and a purchase takes the price of    *)
(* the item.  Each happens at once, together with the one row that         *)
(* records it, and only when the coins are there.  Rows are never changed  *)
(* or removed, and balances change in no other way.                        *)
(***************************************************************************)
EXTENDS Integers

CONSTANTS UserID, Request, Items, Price, DefaultBalance, MaxInt32, OpenAtFirst

VARIABLES
  account,    \* balance of each account that is open
  transfers,  \* transfers made
  purchases   \* purchases made

shopvars == <<account, transfers, purchases>>

Init ==
  /\ account = [u \in OpenAtFirst |-> DefaultBalance]
  /\ transfers = {}
  /\ purchases = {}

Open(u) ==
  /\ u \notin DOMAIN account
  /\ account' = [v \in DOMAIN account \cup {u} |->
                   IF v = u THEN DefaultBalance ELSE account[v]]
  /\ UNCHANGED <<transfers, purchases>>

\* Request id moves amount coins from src to dst.
Transfer(id, src, dst, amount) ==
  /\ src \in DOMAIN account /\ dst \in DOMAIN account /\ src # dst
  /\ account[src] >= amount /\ account[dst] + amount <= MaxInt32
  /\ \A t \in transfers : t.id # id
  /\ account' = [account EXCEPT ![src] = @ - amount, ![dst] = @ + amount]
  /\ transfers' = transfers \cup
       {[id |-> id, dst_user_id |-> dst, src_user_id |-> src, amount |-> amount]}
  /\ UNCHANGED purchases

\* Request id buys item for user u.
Purchase(id, u, item) ==
  /\ u \in DOMAIN account
  /\ account[u] >= Price[item]
  /\ \A p \in purchases : p.id # id
  /\ account' = [account EXCEPT ![u] = @ - Price[item]]
  /\ purchases' = purchases \cup
       {[id |-> id, user_id |-> u, item_id |-> item, amount |-> Price[item]]}
  /\ UNCHANGED transfers

Next ==
  \/ \E u \in UserID : Open(u)
  \/ \E id \in Request, src, dst \in UserID, amount \in 1..MaxInt32 :
       Transfer(id, src, dst, amount)
  \/ \E id \in Request, u \in UserID, item \in Items :
       Purchase(id, u, item)

Spec == Init /\ [][Next]_shopvars

=============================================================================
