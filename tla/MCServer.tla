------------------------------ MODULE MCServer ------------------------------
(***************************************************************************)
(* Values for the constants of Server that a .cfg cannot write down.       *)
(***************************************************************************)
EXTENDS ServerInvariant

CONSTANTS u1, u2, u3, u4, u5

Prices == [cup |-> 1, hoody |-> 3]
Seed2 == u1 :> "alice" @@ u2 :> "bob"

\* All orders of the rows: the queries that lock them have no ORDER BY.
AnyOrder == {o \in [UserID -> 1..Cardinality(UserID)] :
               \A u, v \in UserID : o[u] = o[v] => u = v}

\* Bodies of /api/sendCoin.
AllBodies == [toUser : {"alice", "bob", "nobody", ""}, amount : {0, 1, 3}]
OneCoin == [toUser : {"alice", "bob"}, amount : {1}]

\* Bodies of /api/auth.
AuthBodies == [username : {"alice", "carol", ""}, password : {"secret", "other", ""}]
NewUser == [username : {"carol"}, password : {"secret"}]

=============================================================================
