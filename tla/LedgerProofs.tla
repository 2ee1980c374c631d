---------------------------- MODULE LedgerProofs ----------------------------
(***************************************************************************)
(* Every coin is accounted for, and every statement of /api/info adds up,  *)
(* for any number of users and requests.                                   *)
(*                                                                         *)
(* The first part is about Amounts, the sum of the amounts of a finite set *)
(* of rows: it is defined by taking the rows out in an arbitrary order,    *)
(* and what is needed of it is that the order does not matter.  Each       *)
(* induction is the choice of a smallest counterexample.  Then the ledger, *)
(* then what the queries of a statement return, and last the statements.   *)
(***************************************************************************)
EXTENDS ServerProofs, FiniteSetTheorems, WellFoundedInduction

-----------------------------------------------------------------------------
(* Smallest counterexamples *)

\* A set of natural numbers that has an element has a smallest one.
LEMMA SmallestNat ==
  ASSUME NEW N \in SUBSET Nat, N # {}
  PROVE  \E m \in N : \A n \in N : m <= n
<1>1. \E m \in N : \A n \in N : ~(<<n, m>> \in OpToRel(<, Nat))
  BY NatLessThanWellFounded, WFMin
<1>2. PICK m \in N : \A n \in N : ~(<<n, m>> \in OpToRel(<, Nat))
  BY <1>1
<1>3. ASSUME NEW n \in N PROVE m <= n
  <2>1. ~(n < m)
    BY <1>2, <1>3 DEF OpToRel
  <2> QED BY <2>1
<1> QED BY <1>3

\* Among finite sets there is one that has no proper subset among them.
LEMMA SmallestSet ==
  ASSUME NEW B, B # {}, \A S \in B : IsFiniteSet(S)
  PROVE  \E S \in B : \A T \in B : T \subseteq S => T = S
<1> DEFINE N == {Cardinality(S) : S \in B}
<1>1. N \in SUBSET Nat /\ N # {}
  BY FS_CardinalityType
<1>2. PICK m \in N : \A n \in N : m <= n
  BY <1>1, SmallestNat
<1>3. PICK S \in B : m = Cardinality(S)
  BY <1>2
<1>4. ASSUME NEW T \in B, T \subseteq S PROVE T = S
  <2>1. Cardinality(S) <= Cardinality(T)
    BY <1>2, <1>3
  <2>2. Cardinality(T) \in Nat /\ Cardinality(S) \in Nat
    BY FS_CardinalityType
  <2>3. Cardinality(T) <= Cardinality(S) /\ (Cardinality(T) = Cardinality(S) => T = S)
    BY <1>4, FS_Subset
  <2> QED BY <2>1, <2>2, <2>3
<1> QED BY <1>4

-----------------------------------------------------------------------------
(* Sums of amounts *)

\* The row Amounts takes out of a set first, and the function it is computed
\* with: the sum of every subset of the rows.
Pick(rows) == CHOOSE row \in rows : TRUE

SumsTo(sum, rows) ==
  sum = [S \in SUBSET rows |->
           IF S = {} THEN 0 ELSE Pick(S).amount + sum[S \ {Pick(S)}]]

Sums(rows) == CHOOSE sum : SumsTo(sum, rows)

\* Amounts is what the sums say of the whole set.
LEMMA AmountsAreSums ==
  ASSUME NEW rows
  PROVE  Amounts(rows) = Sums(rows)[rows]
  BY DEF Amounts, Sums, SumsTo, Pick, MapThenSumSet, MapThenFoldSet

\* The row taken out of a set is in it.
LEMMA PickIn == ASSUME NEW S, S # {} PROVE Pick(S) \in S
  BY DEF Pick

\* Taking a row out of a finite set leaves a finite set with one row less.
LEMMA TakeOut ==
  ASSUME NEW S, IsFiniteSet(S), NEW x \in S
  PROVE  /\ IsFiniteSet(S \ {x}) /\ S \ {x} # S
         /\ Cardinality(S) \in Nat /\ Cardinality(S \ {x}) = Cardinality(S) - 1
  BY FS_RemoveElement, FS_CardinalityType

\* The sums exist: they can be computed for larger and larger subsets.
LEMMA SumsExist ==
  ASSUME NEW rows, IsFiniteSet(rows)
  PROVE  SumsTo(Sums(rows), rows)
<1> DEFINE Upto(n) == {S \in SUBSET rows : Cardinality(S) <= n}
           step(sum, S) == IF S = {} THEN 0 ELSE Pick(S).amount + sum[S \ {Pick(S)}]
           Has(n) == \E sum : sum = [S \in Upto(n) |-> step(sum, S)]
           Bad == {n \in Nat : ~Has(n)}
<1>1. \A S \in SUBSET rows : IsFiniteSet(S) /\ Cardinality(S) \in Nat
  BY FS_Subset, FS_CardinalityType
<1>2. Cardinality({}) = 0 /\ \A S \in SUBSET rows : Cardinality(S) = 0 => S = {}
  BY <1>1, FS_EmptySet
<1>3. Has(0)
  <2>1. Upto(0) = {{}}
    BY <1>1, <1>2
  <2>2. [S \in {{}} |-> 0] = [S \in {{}} |-> step([S1 \in {{}} |-> 0], S)]
    OBVIOUS
  <2> QED BY <2>1, <2>2
<1>4. ASSUME NEW n \in Nat, Has(n) PROVE Has(n + 1)
  <2>1. PICK sum : sum = [S \in Upto(n) |-> step(sum, S)]
    BY <1>4
  <2>2. ASSUME NEW S \in Upto(n + 1), S # {}
        PROVE  S \ {Pick(S)} \in Upto(n) /\ (S \in Upto(n) => S \ {Pick(S)} \in Upto(n))
    BY <1>1, <2>2, PickIn, TakeOut
  <2> DEFINE more == [S \in Upto(n + 1) |-> step(sum, S)]
  <2>3. ASSUME NEW S \in Upto(n) PROVE S \in Upto(n + 1) /\ more[S] = sum[S]
    <3>1. S \in Upto(n + 1)
      BY <1>1, <2>3
    <3>2. sum[S] = step(sum, S)
      <4> HIDE DEF step
      <4> QED BY <2>1, <2>3
    <3>3. more[S] = step(sum, S)
      BY <3>1
    <3> QED BY <3>1, <3>2, <3>3
  <2>4. ASSUME NEW S \in Upto(n + 1) PROVE step(sum, S) = step(more, S)
    <3>1. CASE S = {}
      BY <3>1
    <3>2. CASE S # {}
      <4>1. more[S \ {Pick(S)}] = sum[S \ {Pick(S)}]
        BY <2>2, <2>3, <3>2
      <4> QED BY <3>2, <4>1
    <3> QED BY <3>1, <3>2
  <2>5. more = [S \in Upto(n + 1) |-> step(more, S)]
    BY <2>4
  <2> QED BY <2>5
<1>5. Bad = {}
  <2> HIDE DEF Has
  <2>1. SUFFICES ASSUME Bad # {} PROVE FALSE
    OBVIOUS
  <2>2. PICK m \in Bad : \A n \in Bad : m <= n
    BY <2>1, SmallestNat
  <2>3. CASE m = 0
    BY <1>3, <2>2, <2>3
  <2>4. CASE m # 0
    <3>1. m - 1 \in Nat /\ m - 1 \notin Bad
      BY <2>2, <2>4
    <3>2. Has((m - 1) + 1)
      BY <1>4, <3>1
    <3>3. (m - 1) + 1 = m
      BY <2>2
    <3> QED BY <2>2, <3>2, <3>3
  <2> QED BY <2>3, <2>4
<1>6. Has(Cardinality(rows)) /\ Upto(Cardinality(rows)) = SUBSET rows
  <2>1. Cardinality(rows) \in Nat
    BY FS_CardinalityType
  <2>2. Upto(Cardinality(rows)) = SUBSET rows
    BY FS_Subset
  <2> HIDE DEF Has
  <2> QED BY <1>5, <2>1, <2>2
<1>7. \E sum : SumsTo(sum, rows)
  BY <1>6 DEF SumsTo
<1> QED BY <1>7 DEF Sums

\* A set has the same sum in whatever larger set it is looked at.
LEMMA SumsAgree ==
  ASSUME NEW rows, IsFiniteSet(rows), NEW part \in SUBSET rows
  PROVE  Sums(rows)[part] = Amounts(part)
<1> DEFINE a == Sums(rows)
           b == Sums(part)
           Bad == {S \in SUBSET part : a[S] # b[S]}
<1>1. IsFiniteSet(part) /\ \A S \in SUBSET part : IsFiniteSet(S)
  BY FS_Subset
<1>2. SumsTo(a, rows) /\ SumsTo(b, part)
  BY <1>1, SumsExist
<1> HIDE DEF a, b
<1>3. Bad = {}
  <2>1. SUFFICES ASSUME Bad # {} PROVE FALSE
    OBVIOUS
  <2>2. PICK S \in Bad : \A T \in Bad : T \subseteq S => T = S
    <3>1. \A S \in Bad : IsFiniteSet(S)
      BY <1>1
    <3> HIDE DEF Bad
    <3> QED BY <2>1, <3>1, SmallestSet
  <2>3. CASE S = {}
    <3>1. a[{}] = 0 /\ b[{}] = 0
      BY <1>2 DEF SumsTo
    <3> QED BY <2>2, <2>3, <3>1
  <2>4. CASE S # {}
    <3>1. Pick(S) \in S
      BY <2>4, PickIn
    <3>2. S \ {Pick(S)} \in SUBSET part /\ S \ {Pick(S)} \notin Bad
      BY <2>2, <3>1
    <3> QED BY <1>2, <2>2, <2>4, <3>2 DEF SumsTo
  <2> QED BY <2>3, <2>4
<1>4. a[part] = b[part]
  BY <1>3
<1> QED BY <1>4, AmountsAreSums DEF a, b

\* The sum of no rows, and of some rows.
LEMMA AmountsUnfold ==
  /\ Amounts({}) = 0
  /\ \A S : IsFiniteSet(S) /\ S # {} =>
       Amounts(S) = Pick(S).amount + Amounts(S \ {Pick(S)})
<1>1. Amounts({}) = 0
  BY FS_EmptySet, SumsExist, AmountsAreSums DEF SumsTo
<1>2. ASSUME NEW S, IsFiniteSet(S), S # {}
      PROVE  Amounts(S) = Pick(S).amount + Amounts(S \ {Pick(S)})
  <2>1. Sums(S)[S] = Pick(S).amount + Sums(S)[S \ {Pick(S)}]
    BY <1>2, SumsExist DEF SumsTo
  <2> QED BY <1>2, <2>1, SumsAgree, AmountsAreSums
<1> QED BY <1>1, <1>2

\* The order does not matter: any row of the set may be taken out first.
LEMMA AmountsRemove ==
  ASSUME NEW rows, IsFiniteSet(rows), \A row \in rows : row.amount \in Int
  PROVE  /\ Amounts(rows) \in Int
         /\ \A x \in rows : Amounts(rows) = x.amount + Amounts(rows \ {x})
<1> DEFINE Good(S) == /\ Amounts(S) \in Int
                      /\ \A x \in S : Amounts(S) = x.amount + Amounts(S \ {x})
           Bad == {S \in SUBSET rows : ~Good(S)}
<1>1. \A S \in SUBSET rows : IsFiniteSet(S)
  BY FS_Subset
<1>2. Bad = {}
  <2>1. SUFFICES ASSUME Bad # {} PROVE FALSE
    OBVIOUS
  <2>2. PICK S \in Bad : \A T \in Bad : T \subseteq S => T = S
    <3>1. \A S \in Bad : IsFiniteSet(S)
      BY <1>1
    <3> HIDE DEF Bad
    <3> QED BY <2>1, <3>1, SmallestSet
  <2>3. ASSUME NEW x \in S PROVE Good(S \ {x})
    <3> HIDE DEF Good
    <3> QED BY <2>2, <2>3
  <2>4. S # {}
    <3>1. Good({})
      BY AmountsUnfold
    <3> HIDE DEF Good
    <3> QED BY <2>2, <3>1
  <2> DEFINE p == Pick(S)
  <2>5. p \in S /\ p.amount \in Int /\ Amounts(S) = p.amount + Amounts(S \ {p})
    BY <1>1, <2>2, <2>4, PickIn, AmountsUnfold
  <2> HIDE DEF p
  <2>6. Amounts(S) \in Int
    BY <2>3, <2>5
  <2>7. ASSUME NEW x \in S PROVE Amounts(S) = x.amount + Amounts(S \ {x})
    <3>1. CASE x = p
      BY <2>5, <3>1
    <3>2. CASE x # p
      <4>1. Amounts(S \ {p}) = x.amount + Amounts((S \ {p}) \ {x})
        BY <2>3, <2>5, <2>7, <3>2
      <4>2. Amounts(S \ {x}) = p.amount + Amounts((S \ {x}) \ {p})
        BY <2>3, <2>5, <2>7, <3>2
      <4>3. Amounts((S \ {p}) \ {x}) = Amounts((S \ {x}) \ {p})
        <5>1. (S \ {p}) \ {x} = (S \ {x}) \ {p}
          OBVIOUS
        <5> QED BY <5>1, Zenon
      <4>4. Amounts((S \ {x}) \ {p}) \in Int
        <5>1. S \ {x} \in SUBSET rows /\ (S \ {x}) \ {p} \in SUBSET rows
          BY <2>2
        <5>2. (S \ {x}) \ {p} \notin Bad
          BY <2>2, <2>5
        <5> HIDE DEF Good
        <5>3. Good((S \ {x}) \ {p})
          BY <5>1, <5>2
        <5> QED BY <5>3 DEF Good
      <4>5. x.amount \in Int
        BY <2>2, <2>7
      <4> QED BY <2>5, <4>1, <4>2, <4>3, <4>4, <4>5
    <3> QED BY <3>1, <3>2
  <2> QED BY <2>2, <2>6, <2>7
<1>3. Good(rows)
  <2> HIDE DEF Good
  <2> QED BY <1>2
<1> QED BY <1>3

\* A new row adds its amount.
LEMMA AmountsAdd ==
  ASSUME NEW rows, IsFiniteSet(rows), \A row \in rows : row.amount \in Int,
         NEW x, x.amount \in Int, x \notin rows
  PROVE  Amounts(rows \cup {x}) = Amounts(rows) + x.amount
<1>1. IsFiniteSet(rows \cup {x}) /\ Amounts((rows \cup {x}) \ {x}) = Amounts(rows)
  <2>1. (rows \cup {x}) \ {x} = rows
    OBVIOUS
  <2> QED BY <2>1, FS_AddElement, Zenon
<1>2. Amounts(rows) \in Int
  BY AmountsRemove
<1>3. Amounts(rows \cup {x}) = x.amount + Amounts((rows \cup {x}) \ {x})
  BY <1>1, AmountsRemove
<1> QED BY <1>1, <1>2, <1>3

\* The sum of the rows of one user when a new row of that user is added to the
\* table.
LEMMA AmountsOfUser ==
  ASSUME NEW table, IsFiniteSet(table), \A row \in table : row.amount \in Int,
         NEW mine \in SUBSET table,
         NEW x, x.amount \in Int, x \notin table
  PROVE  Amounts(mine \cup {x}) = Amounts(mine) + x.amount
<1>1. IsFiniteSet(mine) /\ (\A row \in mine : row.amount \in Int) /\ x \notin mine
  BY FS_Subset
<1> QED BY <1>1, AmountsAdd

-----------------------------------------------------------------------------
(* The ledger *)

\* The rows of one user, as LedgerBalances adds them up.
ReceivedBy(u, table) == {t \in table : t.dst_user_id = u}
SentBy(u, table) == {t \in table : t.src_user_id = u}
SpentBy(u, table) == {p \in table : p.user_id = u}

\* The amounts in the tables are integers, and so are their sums per user.
LEMMA SumTypes ==
  ASSUME Inv, LedgerInv, NEW u
  PROVE  /\ \A t \in transfers : t.amount \in Int
         /\ \A p \in purchases : p.amount \in Int
         /\ Amounts(ReceivedBy(u, transfers)) \in Int
         /\ Amounts(SentBy(u, transfers)) \in Int
         /\ Amounts(SpentBy(u, purchases)) \in Int
<1>1. \A t \in transfers : t.amount \in Int
  BY ConstantsAssumption DEF Inv, DBInv, DBTypeOK, TransferRow, Int32
<1>2. \A p \in purchases : p.amount \in Int
  BY ConstantsAssumption DEF Inv, DBInv, DBTypeOK, PurchaseRow, Int32
<1>3. /\ IsFiniteSet(ReceivedBy(u, transfers)) /\ IsFiniteSet(SentBy(u, transfers))
      /\ IsFiniteSet(SpentBy(u, purchases))
  <2>1. /\ ReceivedBy(u, transfers) \subseteq transfers
        /\ SentBy(u, transfers) \subseteq transfers
        /\ SpentBy(u, purchases) \subseteq purchases
    BY DEF ReceivedBy, SentBy, SpentBy
  <2>2. IsFiniteSet(transfers) /\ IsFiniteSet(purchases)
    BY DEF LedgerInv
  <2> QED BY <2>1, <2>2, FS_Subset
<1>4. /\ \A t \in ReceivedBy(u, transfers) : t.amount \in Int
      /\ \A t \in SentBy(u, transfers) : t.amount \in Int
      /\ \A p \in SpentBy(u, purchases) : p.amount \in Int
  BY <1>1, <1>2 DEF ReceivedBy, SentBy, SpentBy
<1> QED BY <1>1, <1>2, <1>3, <1>4, AmountsRemove

\* LedgerBalances in those terms.
LEMMA LedgerOfUser ==
  LedgerBalances <=>
    \A u \in DOMAIN users :
      users[u].balance = DefaultBalance + Amounts(ReceivedBy(u, transfers))
        - Amounts(SentBy(u, transfers)) - Amounts(SpentBy(u, purchases))
  BY DEF LedgerBalances, ReceivedBy, SentBy, SpentBy

\* COMMIT of a transfer: what the sender loses and the recipient gets is what the
\* new row says.
LEMMA CommitTransferLedger ==
  ASSUME Inv, LedgerInv, NEW r \in SendRequest, Commit(r), Committing(r)
  PROVE  LedgerInv'
<1> DEFINE s == send[r]
           x == NewTransferRow(r)
<1>1. /\ x.amount = s.amount /\ x.dst_user_id = s.dst /\ x.src_user_id = s.src /\ x.id = r
  BY DEF NewTransferRow
<1>2. /\ s.src \in DOMAIN users /\ s.dst \in DOMAIN users /\ s.src # s.dst
      /\ s.amount \in Int /\ x \notin transfers
      /\ DOMAIN users' = DOMAIN users
      /\ users'[s.src].balance = users[s.src].balance - s.amount
      /\ users'[s.dst].balance = users[s.dst].balance + s.amount
      /\ \A u \in DOMAIN users \ {s.src, s.dst} : users'[u].balance = users[u].balance
      /\ transfers' = transfers \cup {x} /\ purchases' = purchases
  BY <1>1, CommitTransferEffect, ConstantsAssumption
<1> HIDE DEF s, x
<1>3. IsFiniteSet(transfers') /\ IsFiniteSet(purchases')
  BY <1>2, FS_AddElement DEF LedgerInv
<1>4. /\ \A t \in transfers' : {t.src_user_id, t.dst_user_id} \subseteq DOMAIN users'
      /\ \A p \in purchases' : p.user_id \in DOMAIN users'
  BY <1>1, <1>2 DEF LedgerInv
<1>5. ASSUME NEW u \in DOMAIN users
      PROVE  users'[u].balance = DefaultBalance + Amounts(ReceivedBy(u, transfers'))
               - Amounts(SentBy(u, transfers')) - Amounts(SpentBy(u, purchases'))
  <2> DEFINE to == ReceivedBy(u, transfers)
             from == SentBy(u, transfers)
             spent == SpentBy(u, purchases)
  <2>1. /\ to \in SUBSET transfers /\ from \in SUBSET transfers
        /\ s.dst = u => ReceivedBy(u, transfers') = to \cup {x}
        /\ s.dst # u => ReceivedBy(u, transfers') = to
        /\ s.src = u => SentBy(u, transfers') = from \cup {x}
        /\ s.src # u => SentBy(u, transfers') = from
    BY <1>1, <1>2 DEF ReceivedBy, SentBy
  <2>2. Amounts(SpentBy(u, purchases')) = Amounts(spent)
    BY <1>2
  <2>3. users[u].balance = DefaultBalance + Amounts(to) - Amounts(from) - Amounts(spent)
    BY LedgerOfUser DEF LedgerInv
  <2>4. /\ Amounts(to) \in Int /\ Amounts(from) \in Int /\ Amounts(spent) \in Int
        /\ DefaultBalance \in Int
    BY SumTypes, ConstantsAssumption DEF Int32
  <2> HIDE DEF to, from, spent
  <2>5. /\ Amounts(to \cup {x}) = Amounts(to) + s.amount
        /\ Amounts(from \cup {x}) = Amounts(from) + s.amount
    <3>1. IsFiniteSet(transfers) /\ \A t \in transfers : t.amount \in Int
      BY SumTypes DEF LedgerInv
    <3> QED BY <1>1, <1>2, <2>1, <3>1, AmountsOfUser
  <2>6. /\ s.dst = u => Amounts(ReceivedBy(u, transfers')) = Amounts(to \cup {x})
        /\ s.dst # u => Amounts(ReceivedBy(u, transfers')) = Amounts(to)
        /\ s.src = u => Amounts(SentBy(u, transfers')) = Amounts(from \cup {x})
        /\ s.src # u => Amounts(SentBy(u, transfers')) = Amounts(from)
    BY <2>1, Zenon
  <2> QED BY <1>2, <1>5, <2>2, <2>3, <2>4, <2>5, <2>6
<1>6. LedgerBalances'
  BY <1>2, <1>5 DEF LedgerBalances, ReceivedBy, SentBy, SpentBy
<1> QED BY <1>3, <1>4, <1>6 DEF LedgerInv

\* COMMIT of a purchase: what the buyer loses is what the new row says.
LEMMA CommitPurchaseLedger ==
  ASSUME Inv, LedgerInv, NEW r \in BuyRequest, Commit(r), Committing(r)
  PROVE  LedgerInv'
<1> DEFINE b == buy[r]
           x == NewPurchaseRow(r)
<1>1. x.amount = b.price /\ x.user_id = b.user /\ x.id = r
  BY DEF NewPurchaseRow
<1>2. /\ b.user \in DOMAIN users /\ b.price \in Int /\ x \notin purchases
      /\ DOMAIN users' = DOMAIN users
      /\ users'[b.user].balance = users[b.user].balance - b.price
      /\ \A u \in DOMAIN users \ {b.user} : users'[u].balance = users[u].balance
      /\ purchases' = purchases \cup {x} /\ transfers' = transfers
  BY <1>1, CommitPurchaseEffect, ConstantsAssumption DEF Int32
<1> HIDE DEF b, x
<1>3. IsFiniteSet(transfers') /\ IsFiniteSet(purchases')
  BY <1>2, FS_AddElement DEF LedgerInv
<1>4. /\ \A t \in transfers' : {t.src_user_id, t.dst_user_id} \subseteq DOMAIN users'
      /\ \A p \in purchases' : p.user_id \in DOMAIN users'
  BY <1>1, <1>2 DEF LedgerInv
<1>5. ASSUME NEW u \in DOMAIN users
      PROVE  users'[u].balance = DefaultBalance + Amounts(ReceivedBy(u, transfers'))
               - Amounts(SentBy(u, transfers')) - Amounts(SpentBy(u, purchases'))
  <2> DEFINE to == ReceivedBy(u, transfers)
             from == SentBy(u, transfers)
             spent == SpentBy(u, purchases)
  <2>1. /\ spent \in SUBSET purchases
        /\ b.user = u => SpentBy(u, purchases') = spent \cup {x}
        /\ b.user # u => SpentBy(u, purchases') = spent
    BY <1>1, <1>2 DEF SpentBy
  <2>2. /\ Amounts(ReceivedBy(u, transfers')) = Amounts(to)
        /\ Amounts(SentBy(u, transfers')) = Amounts(from)
    BY <1>2
  <2>3. users[u].balance = DefaultBalance + Amounts(to) - Amounts(from) - Amounts(spent)
    BY LedgerOfUser DEF LedgerInv
  <2>4. /\ Amounts(to) \in Int /\ Amounts(from) \in Int /\ Amounts(spent) \in Int
        /\ DefaultBalance \in Int
    BY SumTypes, ConstantsAssumption DEF Int32
  <2> HIDE DEF to, from, spent
  <2>5. Amounts(spent \cup {x}) = Amounts(spent) + b.price
    <3>1. IsFiniteSet(purchases) /\ \A p \in purchases : p.amount \in Int
      BY SumTypes DEF LedgerInv
    <3> QED BY <1>1, <1>2, <2>1, <3>1, AmountsOfUser
  <2>6. /\ b.user = u => Amounts(SpentBy(u, purchases')) = Amounts(spent \cup {x})
        /\ b.user # u => Amounts(SpentBy(u, purchases')) = Amounts(spent)
    BY <2>1, Zenon
  <2> QED BY <1>2, <1>5, <2>2, <2>3, <2>4, <2>5, <2>6
<1>6. LedgerBalances'
  BY <1>2, <1>5 DEF LedgerBalances, ReceivedBy, SentBy, SpentBy
<1> QED BY <1>3, <1>4, <1>6 DEF LedgerInv

\* A new account has no rows, because rows name only accounts that exist, and
\* starts with the balance it is opened with.
LEMMA InsertUserLedger ==
  ASSUME Inv, LedgerInv, NEW r, NEW v \in UserID, InsertUser(r, v)
  PROVE  LedgerInv'
<1>1. /\ v \notin DOMAIN users
      /\ DOMAIN users' = DOMAIN users \cup {v}
      /\ users'[v].balance = DefaultBalance
      /\ \A u \in DOMAIN users : users'[u] = users[u]
      /\ transfers' = transfers /\ purchases' = purchases
  BY DEF InsertUser, Put
<1>2. /\ ReceivedBy(v, transfers) = {} /\ SentBy(v, transfers) = {}
      /\ SpentBy(v, purchases) = {}
  BY <1>1 DEF LedgerInv, ReceivedBy, SentBy, SpentBy
<1>3. /\ Amounts(ReceivedBy(v, transfers)) = 0 /\ Amounts(SentBy(v, transfers)) = 0
      /\ Amounts(SpentBy(v, purchases)) = 0
  BY <1>2, AmountsUnfold, Zenon
<1>4. DefaultBalance \in Int
  BY ConstantsAssumption DEF Int32
<1>5. ASSUME NEW u \in DOMAIN users \cup {v}
      PROVE  users'[u].balance = DefaultBalance + Amounts(ReceivedBy(u, transfers))
               - Amounts(SentBy(u, transfers)) - Amounts(SpentBy(u, purchases))
  <2>1. CASE u = v
    BY <1>1, <1>3, <1>4, <2>1
  <2>2. CASE u # v
    BY <1>1, <1>5, <2>2, LedgerOfUser DEF LedgerInv
  <2> QED BY <2>1, <2>2
<1>6. LedgerBalances'
  BY <1>1, <1>5 DEF LedgerBalances, ReceivedBy, SentBy, SpentBy
<1> QED BY <1>1, <1>6 DEF LedgerInv

\* Every step keeps the ledger.
LEMMA LedgerStep ==
  ASSUME Inv, LedgerInv, [Next]_vars
  PROVE  LedgerInv'
<1>1. CASE UNCHANGED <<users, transfers, purchases>>
  BY <1>1 DEF LedgerInv, LedgerBalances
<1>2. ASSUME NEW r \in Request, Commit(r), Committing(r) PROVE LedgerInv'
  BY <1>2, CommitTransferLedger, CommitPurchaseLedger, RequestAssumption
<1>3. ASSUME NEW r \in AuthRequest, NEW u \in UserID, InsertUser(r, u) PROVE LedgerInv'
  BY <1>3, InsertUserLedger
<1> QED BY <1>1, <1>2, <1>3, TablesStep

\* The first accounts have their first balance and no rows.
LEMMA LedgerInit ==
  ASSUME Init
  PROVE  LedgerInv
<1>1. /\ transfers = {} /\ purchases = {} /\ DefaultBalance \in Int
      /\ \A u \in DOMAIN users : users[u].balance = DefaultBalance
  BY ConstantsAssumption DEF Init, DBInit, Int32
<1>2. ASSUME NEW u PROVE /\ ReceivedBy(u, transfers) = {} /\ SentBy(u, transfers) = {}
                         /\ SpentBy(u, purchases) = {}
  BY <1>1 DEF ReceivedBy, SentBy, SpentBy
<1>3. ASSUME NEW u PROVE /\ Amounts(ReceivedBy(u, transfers)) = 0
                         /\ Amounts(SentBy(u, transfers)) = 0
                         /\ Amounts(SpentBy(u, purchases)) = 0
  BY <1>2, AmountsUnfold, Zenon
<1>4. LedgerBalances
  BY <1>1, <1>3, LedgerOfUser
<1> QED BY <1>1, <1>4, FS_EmptySet DEF LedgerInv

\* The tables stay finite, consistent and balanced.
THEOREM LedgerInvariantHolds == Spec => []LedgerInv
<1>1. Init => LedgerInv
  BY LedgerInit
<1>2. Inv /\ LedgerInv /\ [Next]_vars => LedgerInv'
  BY LedgerStep
<1> QED BY <1>1, <1>2, InvariantHolds, PTL DEF Spec

\* Every coin is accounted for: at any time, whatever is interleaved, cancelled or
\* lost, a balance is what the account was opened with plus what the committed
\* rows say it received, minus what they say it sent and spent.
THEOREM CoinsAccountedFor == Spec => []LedgerBalances
<1>1. LedgerInv => LedgerBalances
  BY DEF LedgerInv
<1> QED BY <1>1, LedgerInvariantHolds, PTL

-----------------------------------------------------------------------------
(* Sorted lists *)

\* The rows that are not later than t; how many they are is the place of t in
\* the list.
Upto(t, rows) == {s \in rows : s.created_at <= t.created_at}

\* A later row has a later place.
LEMMA RankGrows ==
  ASSUME NEW rows, IsFiniteSet(rows), \A t \in rows : t.created_at \in Nat,
         NEW s \in rows, NEW t \in rows, s.created_at < t.created_at
  PROVE  Cardinality(Upto(s, rows)) < Cardinality(Upto(t, rows))
<1>1. /\ Upto(t, rows) \in SUBSET rows /\ Upto(s, rows) \in SUBSET Upto(t, rows)
      /\ t \in Upto(t, rows) /\ t \notin Upto(s, rows)
  BY DEF Upto
<1>2. IsFiniteSet(Upto(t, rows)) /\ IsFiniteSet(Upto(s, rows))
  BY <1>1, FS_Subset
<1>3. Cardinality(Upto(t, rows)) \in Nat /\ Cardinality(Upto(s, rows)) \in Nat
  BY <1>2, FS_CardinalityType
<1>4. /\ Cardinality(Upto(s, rows)) <= Cardinality(Upto(t, rows))
      /\ Cardinality(Upto(t, rows)) # Cardinality(Upto(s, rows))
  BY <1>1, <1>2, FS_Subset
<1> QED BY <1>3, <1>4

\* Rows with different times can be listed in the order of their times: each row
\* at its place.
LEMMA SortedListExists ==
  ASSUME NEW rows, IsFiniteSet(rows), \A t \in rows : t.created_at \in Nat,
         \A s, t \in rows : s.created_at = t.created_at => s = t
  PROVE  \E ts \in SetToSeqs(rows) : Sorted(ts)
<1> DEFINE n == Cardinality(rows)
           rank == [t \in rows |-> Cardinality(Upto(t, rows))]
<1>1. n \in Nat /\ IsFiniteSet(1..n) /\ Cardinality(1..n) = n
  <2>1. n \in Nat
    BY FS_CardinalityType
  <2> HIDE DEF n
  <2> QED BY <2>1, FS_Interval
<1>2. ASSUME NEW t \in rows PROVE rank[t] \in 1..n
  <2>1. Upto(t, rows) \in SUBSET rows /\ t \in Upto(t, rows)
    BY DEF Upto
  <2>2. IsFiniteSet(Upto(t, rows)) /\ Cardinality(Upto(t, rows)) <= n
    BY <2>1, FS_Subset
  <2>3. Cardinality(Upto(t, rows)) \in Nat /\ Cardinality(Upto(t, rows)) # 0
    BY <2>1, <2>2, FS_CardinalityType, FS_EmptySet
  <2> HIDE DEF n
  <2> QED BY <1>1, <2>2, <2>3
<1>3. ASSUME NEW s \in rows, NEW t \in rows, s.created_at < t.created_at
      PROVE  rank[s] < rank[t]
  BY <1>3, RankGrows
<1> HIDE DEF rank, n
<1>4. ASSUME NEW s \in rows, NEW t \in rows, rank[s] = rank[t] PROVE s = t
  <2>1. rank[s] \in Nat /\ ~(s.created_at < t.created_at) /\ ~(t.created_at < s.created_at)
    BY <1>1, <1>2, <1>3, <1>4
  <2> QED BY <2>1
<1>5. rank \in Injection(rows, 1..n)
  <2>1. rank \in [rows -> 1..n]
    BY <1>2 DEF rank
  <2> QED BY <1>4, <2>1 DEF Injection, IsInjective
<1>6. \A i \in 1..n : \E t \in rows : rank[t] = i
  <2>1. rank \in Surjection(rows, 1..n)
    BY <1>1, <1>5, FS_Injection DEF n
  <2> QED BY <2>1 DEF Surjection
<1> DEFINE ts == [i \in 1..n |-> CHOOSE t \in rows : rank[t] = i]
<1>7. \A i \in 1..n : ts[i] \in rows /\ rank[ts[i]] = i
  BY <1>6
<1>8. ts \in [1..n -> rows]
  BY <1>7
<1> HIDE DEF ts
<1>9. ts \in SetToSeqs(rows)
  BY <1>7, <1>8 DEF SetToSeqs, n
<1>10. Len(ts) = n
  BY <1>1, <1>8
<1>11. ASSUME NEW i \in 1..n, NEW j \in 1..n, i < j
       PROVE  ts[i].created_at < ts[j].created_at
  <2>1. ts[i] \in rows /\ ts[j] \in rows /\ rank[ts[i]] = i /\ rank[ts[j]] = j
    BY <1>7
  <2>2. ~(ts[j].created_at < ts[i].created_at) /\ ts[i] # ts[j]
    BY <1>1, <1>3, <1>11, <2>1
  <2> QED BY <2>1, <2>2
<1>12. Sorted(ts)
  BY <1>10, <1>11 DEF Sorted, IsSorted
<1> QED BY <1>9, <1>12

\* What GetTransfersByUserID returns: a list of the selected rows, all of them, in
\* order.
LEMMA ListOfTransfers ==
  ASSUME Inv, IsFiniteSet(transfers), RowsInv, NEW u
  PROVE  LET ts == GetTransfersByUserID(u)
         IN  /\ ts \in Seq(TransferRow) /\ Sorted(ts) /\ ToSet(ts) = TransfersOf(u)
<1> DEFINE rows == TransfersOf(u)
           ts == GetTransfersByUserID(u)
           n == Cardinality(rows)
<1>1. rows \in SUBSET transfers /\ rows \subseteq TransferRow
  BY DEF TransfersOf, Inv, DBInv, DBTypeOK
<1>2. IsFiniteSet(rows) /\ n \in Nat
  BY <1>1, FS_Subset, FS_CardinalityType
<1>3. \A t \in rows : t.created_at \in Nat
  BY <1>1 DEF TransferRow
<1>4. \A s, t \in rows : s.created_at = t.created_at => s = t
  BY <1>1 DEF RowsInv
<1> HIDE DEF rows
<1>5. \E l \in SetToSeqs(rows) : Sorted(l)
  BY <1>2, <1>3, <1>4, SortedListExists
<1>6. ts \in SetToSeqs(rows) /\ Sorted(ts)
  BY <1>5 DEF GetTransfersByUserID, rows
<1> HIDE DEF ts, n
<1>7. ts \in [1..n -> rows] /\ \A i, j \in 1..n : i # j => ts[i] # ts[j]
  BY <1>6 DEF SetToSeqs, n
<1>8. ts \in Injection(1..n, rows)
  BY <1>7 DEF Injection, IsInjective
<1>9. Cardinality(1..n) = n
  BY <1>2, FS_Interval
<1>10. ts \in Surjection(1..n, rows)
  BY <1>2, <1>8, <1>9, FS_Injection DEF n
<1>11. ToSet(ts) = rows
  BY <1>7, <1>10 DEF ToSet, Surjection
<1>12. ts \in Seq(TransferRow)
  BY <1>1, <1>2, <1>7
<1> QED BY <1>6, <1>11, <1>12 DEF ts, rows

-----------------------------------------------------------------------------
(* Inventories *)

\* Sums of disjoint sets of rows add up.
LEMMA AmountsUnion ==
  ASSUME NEW table, IsFiniteSet(table), \A row \in table : row.amount \in Int,
         NEW A \in SUBSET table, NEW C \in SUBSET table, A \cap C = {}
  PROVE  Amounts(A \cup C) = Amounts(A) + Amounts(C)
<1> DEFINE Good(S) == Amounts(A \cup S) = Amounts(A) + Amounts(S)
           Bad == {S \in SUBSET C : ~Good(S)}
<1>1. \A S \in SUBSET table : /\ IsFiniteSet(S) /\ Amounts(S) \in Int
                              /\ \A row \in S : row.amount \in Int
  <2>1. ASSUME NEW S \in SUBSET table
        PROVE  IsFiniteSet(S) /\ \A row \in S : row.amount \in Int
    BY FS_Subset
  <2> QED BY <2>1, AmountsRemove
<1>2. Bad = {}
  <2>1. SUFFICES ASSUME Bad # {} PROVE FALSE
    OBVIOUS
  <2>2. PICK S \in Bad : \A T \in Bad : T \subseteq S => T = S
    <3>1. \A S \in Bad : IsFiniteSet(S)
      BY <1>1
    <3> HIDE DEF Bad
    <3> QED BY <2>1, <3>1, SmallestSet
  <2>3. S \in SUBSET table /\ A \cap S = {}
    BY <2>2
  <2>4. CASE S = {}
    <3>1. A \cup {} = A
      OBVIOUS
    <3>2. Amounts(A \cup {}) = Amounts(A) /\ Amounts({}) = 0
      BY <3>1, AmountsUnfold, Zenon
    <3> QED BY <1>1, <2>2, <2>4, <3>2
  <2>5. CASE S # {}
    <3>1. PICK x \in S : TRUE
      BY <2>5
    <3> DEFINE R == S \ {x}
    <3>2. Good(R)
      <4>1. R \in SUBSET C /\ R \notin Bad
        BY <2>2, <3>1
      <4> HIDE DEF Good
      <4> QED BY <4>1
    <3>3. R \in SUBSET table /\ A \cup R \in SUBSET table /\ x \notin R /\ x \notin A \cup R
      BY <2>3, <3>1
    <3>4. R \cup {x} = S /\ (A \cup R) \cup {x} = A \cup S
      BY <3>1
    <3>5. x.amount \in Int
      BY <2>3, <3>1
    <3> HIDE DEF R
    <3>6. Amounts(R \cup {x}) = Amounts(R) + x.amount
      BY <1>1, <3>3, <3>5, AmountsAdd
    <3>7. Amounts((A \cup R) \cup {x}) = Amounts(A \cup R) + x.amount
      BY <1>1, <3>3, <3>5, AmountsAdd
    <3>8. Amounts(S) = Amounts(R) + x.amount /\ Amounts(A \cup S) = Amounts(A \cup R) + x.amount
      BY <3>4, <3>6, <3>7, Zenon
    <3>9. Amounts(A) \in Int /\ Amounts(R) \in Int
      BY <1>1, <3>3
    <3>10. Good(S)
      BY <3>2, <3>5, <3>8, <3>9
    <3> HIDE DEF Good
    <3> QED BY <2>2, <3>10
  <2> QED BY <2>4, <2>5
<1>3. Good(C)
  <2> HIDE DEF Good
  <2> QED BY <1>2
<1> QED BY <1>3

\* One line of an inventory: n times the item k.
Line(k, n) == [item_id |-> k, amount |-> n * Price[k]]

\* One more of the item k costs its price more, whether there were some before or
\* not.
LEMMA OneMore ==
  ASSUME NEW f, NEW g, NEW k \in Items,
         IsFiniteSet(Inventory(f)), DOMAIN f \subseteq Items,
         \A i \in DOMAIN f : f[i] \in Nat,
         DOMAIN g = DOMAIN f \cup {k},
         \A i \in DOMAIN f \ {k} : g[i] = f[i],
         g[k] = (IF k \in DOMAIN f THEN f[k] ELSE 0) + 1
  PROVE  Amounts(Inventory(g)) = Amounts(Inventory(f)) + Price[k]
<1> DEFINE rest == {Line(i, f[i]) : i \in DOMAIN f \ {k}}
<1>1. \A i \in Items : Price[i] \in Int
  BY ConstantsAssumption DEF Int32
<1>2. \A i \in DOMAIN f : Line(i, f[i]).amount \in Int
  BY <1>1 DEF Line
<1>3. IsFiniteSet(rest) /\ \A row \in rest : row.amount \in Int
  <2>1. rest \in SUBSET Inventory(f)
    BY DEF Inventory, Line
  <2> QED BY <1>2, <2>1, FS_Subset
<1>4. ASSUME NEW n PROVE Line(k, n) \notin rest
  BY DEF Line
<1>5. Inventory(g) = rest \cup {Line(k, g[k])}
  BY DEF Inventory, Line
<1>6. /\ k \in DOMAIN f => Inventory(f) = rest \cup {Line(k, f[k])}
      /\ k \notin DOMAIN f => Inventory(f) = rest
  BY DEF Inventory, Line
<1>7. ASSUME NEW n \in Nat PROVE Line(k, n).amount = n * Price[k] /\ Line(k, n).amount \in Int
  BY <1>1 DEF Line
<1> HIDE DEF rest
<1>8. ASSUME NEW n \in Nat PROVE Amounts(rest \cup {Line(k, n)}) = Amounts(rest) + n * Price[k]
  BY <1>3, <1>4, <1>7, AmountsAdd
<1>9. Amounts(rest) \in Int /\ Price[k] \in Int
  BY <1>1, <1>3, AmountsRemove
<1>10. CASE k \in DOMAIN f
  <2>1. f[k] \in Nat /\ g[k] = f[k] + 1 /\ g[k] \in Nat
    BY <1>10
  <2>2. /\ Amounts(Inventory(g)) = Amounts(rest) + g[k] * Price[k]
        /\ Amounts(Inventory(f)) = Amounts(rest) + f[k] * Price[k]
    BY <1>5, <1>6, <1>8, <1>10, <2>1
  <2>3. g[k] * Price[k] = f[k] * Price[k] + Price[k]
    BY <1>9, <2>1
  <2>4. f[k] * Price[k] \in Int
    BY <1>9, <2>1
  <2> QED BY <1>9, <2>2, <2>3, <2>4
<1>11. CASE k \notin DOMAIN f
  <2>1. g[k] = 1
    BY <1>11
  <2>2. Amounts(Inventory(g)) = Amounts(rest) + 1 * Price[k]
    BY <1>5, <1>8, <2>1
  <2>3. Amounts(Inventory(f)) = Amounts(rest)
    BY <1>6, <1>11
  <2> QED BY <1>9, <2>2, <2>3
<1> QED BY <1>10, <1>11
\* The rows of one item, and what CountItems says in those terms.
OfItem(k, rows) == {p \in rows : p.item_id = k}

LEMMA CountsOf ==
  ASSUME NEW rows, IsFiniteSet(rows)
  PROVE  LET c == CountItems(rows)
         IN  /\ \A k : k \in DOMAIN c <=> OfItem(k, rows) # {}
             /\ \A k \in DOMAIN c : c[k] = Cardinality(OfItem(k, rows)) /\ c[k] \in Nat \ {0}
             /\ IsFiniteSet(Inventory(c))
<1> DEFINE c == CountItems(rows)
<1>1. DOMAIN c = {p.item_id : p \in rows}
  BY DEF CountItems
<1>2. \A k : k \in DOMAIN c <=> OfItem(k, rows) # {}
  BY <1>1 DEF OfItem
<1>3. \A k \in DOMAIN c : c[k] = Cardinality(OfItem(k, rows))
  BY <1>1 DEF CountItems, OfItem
<1> HIDE DEF c
<1>4. ASSUME NEW k \in DOMAIN c PROVE Cardinality(OfItem(k, rows)) \in Nat \ {0}
  <2>1. OfItem(k, rows) \in SUBSET rows
    BY DEF OfItem
  <2>2. IsFiniteSet(OfItem(k, rows))
    BY <2>1, FS_Subset
  <2> QED BY <1>2, <2>2, FS_CardinalityType, FS_EmptySet
<1>5. IsFiniteSet(Inventory(c))
  <2> DEFINE f == [p \in rows |-> [item_id |-> p.item_id, amount |-> c[p.item_id] * Price[p.item_id]]]
  <2>1. f \in [rows -> Inventory(c)]
    BY <1>1 DEF Inventory
  <2>2. \A line \in Inventory(c) : \E p \in rows : f[p] = line
    BY <1>1 DEF Inventory
  <2> HIDE DEF f
  <2>3. f \in Surjection(rows, Inventory(c))
    BY <2>1, <2>2 DEF Surjection
  <2> QED BY <2>3, FS_Surjection
<1> QED BY <1>2, <1>3, <1>4, <1>5 DEF c

\* One more purchase counts its item once more.
LEMMA CountOneMore ==
  ASSUME NEW rows, IsFiniteSet(rows), NEW x, x \notin rows
  PROVE  LET f == CountItems(rows)
             g == CountItems(rows \cup {x})
             k == x.item_id
         IN  /\ DOMAIN g = DOMAIN f \cup {k}
             /\ \A i \in DOMAIN f \ {k} : g[i] = f[i]
             /\ g[k] = (IF k \in DOMAIN f THEN f[k] ELSE 0) + 1
<1> DEFINE f == CountItems(rows)
           more == rows \cup {x}
           g == CountItems(more)
           k == x.item_id
<1>1. IsFiniteSet(more)
  BY FS_AddElement
<1>2. /\ \A i : i # k => OfItem(i, more) = OfItem(i, rows)
      /\ OfItem(k, more) = OfItem(k, rows) \cup {x}
      /\ x \notin OfItem(k, rows) /\ OfItem(k, rows) \in SUBSET rows
  BY DEF OfItem
<1>3. Cardinality(OfItem(k, rows) \cup {x}) = Cardinality(OfItem(k, rows)) + 1
  <2>1. IsFiniteSet(OfItem(k, rows))
    BY <1>2, FS_Subset
  <2> QED BY <1>2, <2>1, FS_AddElement
<1>4. /\ \A i : i \in DOMAIN f <=> OfItem(i, rows) # {}
      /\ \A i \in DOMAIN f : f[i] = Cardinality(OfItem(i, rows))
  BY CountsOf
<1>5. /\ \A i : i \in DOMAIN g <=> OfItem(i, more) # {}
      /\ \A i \in DOMAIN g : g[i] = Cardinality(OfItem(i, more))
  BY <1>1, CountsOf
<1> HIDE DEF f, g, k, more
<1>6. \A i : i \in DOMAIN g <=> i \in DOMAIN f \/ i = k
  <2>1. OfItem(k, more) # {}
    BY <1>2
  <2> QED BY <1>2, <1>4, <1>5, <2>1
<1>7. \A i \in DOMAIN f \ {k} : g[i] = f[i]
  BY <1>2, <1>4, <1>5, <1>6
<1>8. g[k] = Cardinality(OfItem(k, rows)) + 1
  BY <1>2, <1>3, <1>5, <1>6
<1>9. Cardinality(OfItem(k, rows)) = IF k \in DOMAIN f THEN f[k] ELSE 0
  <2>1. CASE k \in DOMAIN f
    BY <1>4, <2>1
  <2>2. CASE k \notin DOMAIN f
    BY <1>4, <2>2, FS_EmptySet
  <2> QED BY <2>1, <2>2
<1>10. DOMAIN g = DOMAIN f \cup {k}
  BY <1>6
<1> QED BY <1>7, <1>8, <1>9, <1>10 DEF f, g, k, more

\* What an inventory costs is what was paid for it, as long as every purchase was
\* paid with the price of its item.
LEMMA InventoryCost ==
  ASSUME NEW rows, IsFiniteSet(rows),
         \A p \in rows : p.item_id \in Items /\ p.amount = Price[p.item_id]
  PROVE  Amounts(Inventory(CountItems(rows))) = Amounts(rows)
<1> DEFINE Good(S) == Amounts(Inventory(CountItems(S))) = Amounts(S)
           Bad == {S \in SUBSET rows : ~Good(S)}
<1>1. \A S \in SUBSET rows : IsFiniteSet(S)
  BY FS_Subset
<1>2. \A p \in rows : p.amount \in Int
  BY ConstantsAssumption DEF Int32
<1>3. Bad = {}
  <2>1. SUFFICES ASSUME Bad # {} PROVE FALSE
    OBVIOUS
  <2>2. PICK S \in Bad : \A T \in Bad : T \subseteq S => T = S
    <3>1. \A S \in Bad : IsFiniteSet(S)
      BY <1>1
    <3> HIDE DEF Bad
    <3> QED BY <2>1, <3>1, SmallestSet
  <2>3. S \in SUBSET rows /\ ~Good(S)
    BY <2>2
  <2>4. CASE S = {}
    <3>1. Inventory(CountItems({})) = {}
      BY DEF Inventory, CountItems
    <3>2. Good({})
      BY <3>1, Zenon
    <3> HIDE DEF Good
    <3> QED BY <2>3, <2>4, <3>2
  <2>5. CASE S # {}
    <3>1. PICK x \in S : TRUE
      BY <2>5
    <3> DEFINE R == S \ {x}
               f == CountItems(R)
               g == CountItems(R \cup {x})
               k == x.item_id
    <3>2. R \in SUBSET rows /\ x \notin R /\ R \cup {x} = S /\ x \in rows
      BY <2>3, <3>1
    <3>3. Good(R)
      <4>1. R \notin Bad
        BY <2>2, <3>1
      <4> HIDE DEF Good
      <4> QED BY <3>2, <4>1
    <3>4. k \in Items /\ x.amount = Price[k] /\ x.amount \in Int
      BY <1>2, <3>2
    <3> HIDE DEF R
    <3>5. IsFiniteSet(R) /\ \A p \in R : p.item_id \in Items /\ p.amount \in Int
      BY <1>1, <1>2, <3>2
    <3>6. /\ DOMAIN g = DOMAIN f \cup {k}
          /\ \A i \in DOMAIN f \ {k} : g[i] = f[i]
          /\ g[k] = (IF k \in DOMAIN f THEN f[k] ELSE 0) + 1
      BY <3>2, <3>5, CountOneMore
    <3>7. /\ IsFiniteSet(Inventory(f)) /\ \A i \in DOMAIN f : f[i] \in Nat
      BY <3>5, CountsOf
    <3>8. DOMAIN f \subseteq Items
      BY <3>5 DEF CountItems
    <3> HIDE DEF f, g, k
    <3>9. Amounts(Inventory(g)) = Amounts(Inventory(f)) + Price[k]
      BY <3>4, <3>6, <3>7, <3>8, OneMore
    <3>10. Amounts(R \cup {x}) = Amounts(R) + x.amount
      BY <3>2, <3>4, <3>5, AmountsAdd
    <3>11. Amounts(Inventory(g)) = Amounts(R \cup {x})
      BY <3>3, <3>4, <3>9, <3>10 DEF f
    <3>12. Good(S)
      BY <3>2, <3>11, Zenon DEF g
    <3> HIDE DEF Good
    <3> QED BY <2>3, <3>12
  <2> QED BY <2>4, <2>5
<1>4. Good(rows)
  <2> HIDE DEF Good
  <2> QED BY <1>3
<1> QED BY <1>4

\* Counts of committed purchases are of the type of a statement: no request buys
\* twice.
LEMMA CountsType ==
  ASSUME Inv, RowsInv, NEW rows \in SUBSET purchases
  PROVE  CountItems(rows) \in ItemCounts
<1> DEFINE c == CountItems(rows)
           n == Cardinality(Request)
<1>1. rows \subseteq PurchaseRow
  BY DEF Inv, DBInv, DBTypeOK
<1>2. IsFiniteSet(Request)
  BY RequestAssumption
<1>3. ASSUME NEW part \in SUBSET rows PROVE IsFiniteSet(part) /\ Cardinality(part) <= n
  <2> DEFINE f == [p \in part |-> p.id]
  <2>1. f \in [part -> Request]
    BY <1>1 DEF PurchaseRow
  <2>2. \A p, q \in part : f[p] = f[q] => p = q
    BY DEF RowsInv
  <2> HIDE DEF f
  <2>3. f \in Injection(part, Request)
    BY <2>1, <2>2 DEF Injection, IsInjective
  <2> QED BY <1>2, <2>3, FS_Injection
<1>4. n \in Nat /\ IsFiniteSet(rows)
  BY <1>2, <1>3, FS_CardinalityType
<1>5. \A k \in DOMAIN c : c[k] = Cardinality(OfItem(k, rows)) /\ c[k] \in Nat \ {0}
  BY <1>4, CountsOf
<1>6. ASSUME NEW k \in DOMAIN c PROVE c[k] \in 1..n
  <2>1. OfItem(k, rows) \in SUBSET rows
    BY DEF OfItem
  <2>2. Cardinality(OfItem(k, rows)) <= n
    BY <1>3, <2>1
  <2> HIDE DEF c, n
  <2> QED BY <1>4, <1>5, <2>2
<1>7. DOMAIN c \in SUBSET Items
  BY <1>1 DEF CountItems, PurchaseRow
<1>8. c = [k \in DOMAIN c |-> c[k]]
  BY DEF CountItems
<1> HIDE DEF c, n
<1>9. c \in [DOMAIN c -> 1..n]
  BY <1>6, <1>8
<1> QED BY <1>7, <1>9 DEF c, n, ItemCounts

-----------------------------------------------------------------------------
(* The times of transactions *)

\* A step of q begins no transaction: time stands still, and the session of q has
\* the time it had, or is over.
Timeless(q) ==
  /\ clock' = clock
  /\ tx'[q].status # "none" =>
       tx[q].status # "none" /\ tx'[q].created_at = tx[q].created_at

\* All that is done on a session but Begin.
LEMMA SessionTimeless ==
  ASSUME DBTypeOK, NEW q \in Request,
         \/ UNCHANGED <<tx, clock>>
         \/ EndSession(q)
         \/ /\ tx[q].status # "none"
            /\ \/ (\E ids : SelectForUpdate(q, ids)) \/ LockRow(q)
               \/ \E b : Stage(q, [tx[q] EXCEPT !.balance = b])
               \/ \E T : Stage(q, [tx[q] EXCEPT !.transfers = T])
               \/ \E P : Stage(q, [tx[q] EXCEPT !.purchases = P])
               \/ \E status : Disconnect(q, status)
  PROVE  Timeless(q)
<1>1. tx \in [Request -> Session] /\ tx[q] \in Session
  BY DEF DBTypeOK
<1>2. CASE UNCHANGED <<tx, clock>>
  BY <1>2 DEF Timeless
<1>3. CASE EndSession(q)
  BY <1>1, <1>3 DEF Timeless, EndSession, NoSession
<1> DEFINE Scan(want, at) == [tx[q] EXCEPT !.want = want, !.at = at]
<1>4. ASSUME NEW want, NEW at
       PROVE  Scan(want, at).status = tx[q].status /\ Scan(want, at).created_at = tx[q].created_at
  BY <1>1 DEF Session
<1>5. CASE tx[q].status # "none" /\ \E ids : SelectForUpdate(q, ids)
  <2>1. PICK ids : SelectForUpdate(q, ids)
    BY <1>5
  <2>2. PICK u : tx' = [tx EXCEPT ![q].want = ids \cap DOMAIN users, ![q].at = u]
    BY <2>1 DEF SelectForUpdate
  <2>3. tx'[q] = Scan(ids \cap DOMAIN users, u)
    BY <1>1, <2>2
  <2>4. clock' = clock
    BY <2>1 DEF SelectForUpdate
  <2> HIDE DEF Scan
  <2> QED BY <1>4, <1>5, <2>3, <2>4 DEF Timeless
<1>6. CASE tx[q].status # "none" /\ LockRow(q)
  <2> DEFINE want == tx[q].want \ {tx[q].at}
  <2>1. PICK u : tx' = [tx EXCEPT ![q].want = want, ![q].at = u]
    BY <1>1, <1>6 DEF LockRow
  <2>2. tx'[q] = Scan(want, u)
    BY <1>1, <2>1
  <2>3. clock' = clock
    BY <1>6 DEF LockRow
  <2> HIDE DEF Scan
  <2> QED BY <1>4, <1>6, <2>2, <2>3 DEF Timeless
<1>7. CASE tx[q].status # "none" /\ \E b : Stage(q, [tx[q] EXCEPT !.balance = b])
  BY <1>1, <1>7 DEF Timeless, Stage, Session
<1>8. CASE tx[q].status # "none" /\ \E T : Stage(q, [tx[q] EXCEPT !.transfers = T])
  BY <1>1, <1>8 DEF Timeless, Stage, Session
<1>9. CASE tx[q].status # "none" /\ \E P : Stage(q, [tx[q] EXCEPT !.purchases = P])
  BY <1>1, <1>9 DEF Timeless, Stage, Session
<1>10. CASE tx[q].status # "none" /\ \E status : Disconnect(q, status)
  <2>1. PICK status : Disconnect(q, status)
    BY <1>10
  <2> DEFINE session == [tx[q] EXCEPT !.status = status, !.want = {}, !.at = NoUser]
  <2>2. session.created_at = tx[q].created_at
    BY <1>1 DEF Session
  <2>3. clock' = clock /\ tx'[q] = session
    BY <1>1, <2>1 DEF Disconnect, Stage
  <2> QED BY <1>10, <2>2, <2>3 DEF Timeless
<1> QED BY <1>2, <1>3, <1>5, <1>6, <1>7, <1>8, <1>9, <1>10

\* Neither does a handler that returns early.
LEMMA FailTimeless ==
  ASSUME DBTypeOK, NEW q \in Request, tx[q].status # "none", DeferredRollback(q)
  PROVE  Timeless(q)
  BY SessionTimeless DEF DeferredRollback, Rollback

\* A handler of /api/sendCoin: only Begin takes a new time.
LEMMA SendTimeless ==
  ASSUME Inv, NEW q \in SendRequest,
         (\E u \in tokens : PostAPISendCoin(q, u)) \/ SendStep(q) \/ CancelSend(q)
  PROVE  Timeless(q) \/ Begin(q)
<1>1. q \in Request /\ DBTypeOK /\ SendInv(q)
  BY RequestAssumption DEF Inv, DBInv
<1>2. send[q].pc \in {"select", "rows", "insert", "updateSrc", "updateDst", "commit"} =>
        tx[q].status # "none"
  BY <1>1 DEF SendInv
<1>3. CASE (\E u \in tokens : PostAPISendCoin(q, u)) \/ LookupDst(q)
  <2>1. UNCHANGED <<tx, clock>>
    BY <1>3 DEF PostAPISendCoin, LookupDst, dbvars
  <2> QED BY <1>1, <2>1, SessionTimeless
<1>4. CASE BeginTransfer(q)
  BY <1>4 DEF BeginTransfer
<1>5. CASE LockUsers(q)
  BY <1>1, <1>2, <1>5, SessionTimeless DEF LockUsers
<1>6. CASE LockUsersRow(q)
  BY <1>1, <1>2, <1>6, SessionTimeless DEF LockUsersRow
<1>7. CASE LockUsersDeadlock(q)
  BY <1>1, <1>2, <1>7, FailTimeless DEF LockUsersDeadlock, SendFail
<1>8. CASE CheckBalance(q)
  <2>1. UNCHANGED <<tx, clock>> \/ DeferredRollback(q)
    BY <1>8 DEF CheckBalance, SendFail, dbvars
  <2>2. tx[q].status # "none"
    BY <1>2, <1>8 DEF CheckBalance
  <2> QED BY <1>1, <2>1, <2>2, SessionTimeless, FailTimeless
<1>9. CASE CreateTransfer(q)
  <2>1. tx[q].status # "none" /\ \E T : Stage(q, [tx[q] EXCEPT !.transfers = T])
    BY <1>2, <1>9 DEF CreateTransfer
  <2> QED BY <1>1, <2>1, SessionTimeless
<1>10. CASE UpdateSrc(q) \/ UpdateDst(q)
  <2>1. tx[q].status # "none"
    BY <1>2, <1>10 DEF UpdateSrc, UpdateDst
  <2>2. (\E b : Stage(q, [tx[q] EXCEPT !.balance = b])) \/ DeferredRollback(q)
    BY <1>10 DEF UpdateSrc, UpdateDst, SendUpdateBalance, SendFail
  <2> QED BY <1>1, <2>1, <2>2, SessionTimeless, FailTimeless
<1>11. CASE CommitTransfer(q)
  BY <1>1, <1>11, SessionTimeless DEF CommitTransfer, Commit
<1>12. CASE CancelSend(q)
  <2>1. \/ UNCHANGED <<tx, clock>>
        \/ tx[q].status # "none" /\ \E status : Disconnect(q, status)
    BY <1>12 DEF CancelSend, dbvars
  <2> QED BY <1>1, <2>1, SessionTimeless
<1> QED BY <1>3, <1>4, <1>5, <1>6, <1>7, <1>8, <1>9, <1>10, <1>11, <1>12 DEF SendStep

\* The same for /api/buy/{item}.
LEMMA BuyTimeless ==
  ASSUME Inv, NEW q \in BuyRequest,
         (\E u \in tokens : GetAPIBuyItem(q, u)) \/ BuyStep(q) \/ CancelBuy(q)
  PROVE  Timeless(q) \/ Begin(q)
<1>1. q \in Request /\ DBTypeOK /\ BuyInv(q)
  BY RequestAssumption DEF Inv, DBInv
<1>2. buy[q].pc \in {"select", "rows", "insert", "update", "commit"} =>
        tx[q].status # "none"
  BY <1>1 DEF BuyInv
<1>3. CASE (\E u \in tokens : GetAPIBuyItem(q, u)) \/ LookupItem(q)
  <2>1. UNCHANGED <<tx, clock>>
    BY <1>3 DEF GetAPIBuyItem, LookupItem, dbvars
  <2> QED BY <1>1, <2>1, SessionTimeless
<1>4. CASE BeginPurchase(q)
  BY <1>4 DEF BeginPurchase
<1>5. CASE LockBuyer(q)
  BY <1>1, <1>2, <1>5, SessionTimeless DEF LockBuyer
<1>6. CASE LockBuyerRow(q)
  BY <1>1, <1>2, <1>6, SessionTimeless DEF LockBuyerRow
<1>7. CASE CheckFunds(q)
  <2>1. UNCHANGED <<tx, clock>> \/ DeferredRollback(q)
    BY <1>7 DEF CheckFunds, BuyFail, dbvars
  <2>2. tx[q].status # "none"
    BY <1>2, <1>7 DEF CheckFunds
  <2> QED BY <1>1, <2>1, <2>2, SessionTimeless, FailTimeless
<1>8. CASE CreatePurchase(q)
  <2>1. tx[q].status # "none" /\ \E P : Stage(q, [tx[q] EXCEPT !.purchases = P])
    BY <1>2, <1>8 DEF CreatePurchase
  <2> QED BY <1>1, <2>1, SessionTimeless
<1>9. CASE UpdateBuyer(q)
  <2>1. tx[q].status # "none" /\ \E b : Stage(q, [tx[q] EXCEPT !.balance = b])
    BY <1>2, <1>9 DEF UpdateBuyer
  <2> QED BY <1>1, <2>1, SessionTimeless
<1>10. CASE CommitPurchase(q)
  BY <1>1, <1>10, SessionTimeless DEF CommitPurchase, Commit
<1>11. CASE CancelBuy(q)
  <2>1. \/ UNCHANGED <<tx, clock>>
        \/ tx[q].status # "none" /\ \E status : Disconnect(q, status)
    BY <1>11 DEF CancelBuy, dbvars
  <2> QED BY <1>1, <2>1, SessionTimeless
<1> QED BY <1>3, <1>4, <1>5, <1>6, <1>7, <1>8, <1>9, <1>10, <1>11 DEF BuyStep

\* No transaction is begun.
Still == clock' = clock /\ \A q \in Request : Timeless(q)

\* A step begins one transaction or none, and no other session changes its time.
LEMMA TimesStep ==
  ASSUME Inv, [Next]_vars
  PROVE  Still \/ (\E q \in Request : Begin(q))
<1>1. ASSUME NEW q \in Request, Alone(q), Timeless(q)
      PROVE  Still
  BY <1>1 DEF Alone, Timeless, Still
<1>2. ASSUME NEW q \in SendRequest,
             (\E u \in tokens : PostAPISendCoin(q, u)) \/ SendStep(q) \/ CancelSend(q)
      PROVE  Still \/ Begin(q)
  <2>1. q \in Request /\ Alone(q) /\ (Timeless(q) \/ Begin(q))
    BY <1>2, SendAlone, SendTimeless, RequestAssumption
  <2> QED BY <1>1, <2>1
<1>3. ASSUME NEW q \in BuyRequest,
             (\E u \in tokens : GetAPIBuyItem(q, u)) \/ BuyStep(q) \/ CancelBuy(q)
      PROVE  Still \/ Begin(q)
  <2>1. q \in Request /\ Alone(q) /\ (Timeless(q) \/ Begin(q))
    BY <1>3, BuyAlone, BuyTimeless, RequestAssumption
  <2> QED BY <1>1, <2>1
<1>4. ASSUME NEW q \in Request, OrphanStep(q)
      PROVE  Still
  <2>1. DBTypeOK /\ EndSession(q)
    BY <1>4 DEF Inv, DBInv, OrphanStep, OrphanRollback, OrphanCommit, Rollback, Commit
  <2>2. Alone(q) /\ Timeless(q)
    BY <1>4, <2>1, OrphanAlone, SessionTimeless
  <2> QED BY <1>1, <2>2
<1>5. ASSUME UNCHANGED <<tx, clock>> PROVE Still
  BY <1>5 DEF Timeless, Still
<1>6. ASSUME NEW r \in AuthRequest,
             PostAPIAuth(r) \/ AuthStep(r) \/ CancelAuth(r) \/ OrphanInsert(r)
      PROVE  UNCHANGED <<tx, clock>>
  BY <1>6 DEF PostAPIAuth, AuthStep, AuthLookup, CreateUser, InsertUser, AuthReread,
              CancelAuth, OrphanInsert, dbvars
<1>7. ASSUME NEW r \in InfoRequest,
             (\E u \in tokens : GetAPIInfo(r, u)) \/ InfoStep(r) \/ CancelInfo(r)
      PROVE  UNCHANGED <<tx, clock>>
  BY <1>7 DEF GetAPIInfo, InfoStep, ReadItemCounts, ReadTransfers, ReadBalance, CancelInfo, dbvars
<1>8. CASE Crash
  <2>1. tx \in [Request -> Session]
    BY DEF Inv, DBInv, DBTypeOK
  <2>2. ASSUME NEW s \in Request PROVE Timeless(s)
    <3>1. tx[s] \in Session
      BY <2>1
    <3>2. CASE tx[s].status # "open"
      BY <1>8, <3>2 DEF Crash, Timeless
    <3>3. CASE tx[s].status = "open"
      BY <1>8, <3>1, <3>3 DEF Crash, Timeless, Session
    <3> QED BY <3>2, <3>3
  <2> QED BY <1>8, <2>2 DEF Crash, Still
<1>9. CASE Idle \/ UNCHANGED vars
  BY <1>5, <1>9 DEF Idle, vars, dbvars
<1> QED BY <1>2, <1>3, <1>4, <1>5, <1>6, <1>7, <1>8, <1>9, RequestAssumption DEF Next

\* A transaction that is committed has a session.
LEMMA CommittingSession ==
  ASSUME Inv, NEW r \in Request, Committing(r)
  PROVE  tx[r].status # "none"
<1>1. r \in SendRequest => SendInv(r)
  BY DEF Inv
<1>2. r \in BuyRequest => BuyInv(r)
  BY DEF Inv
<1>3. CASE r \in SendRequest /\ send[r].pc = "commit"
  BY <1>1, <1>3 DEF SendInv
<1>4. CASE r \in BuyRequest /\ buy[r].pc = "commit"
  BY <1>2, <1>4 DEF BuyInv
<1> QED BY <1>3, <1>4 DEF Committing

\* A step that begins and commits nothing.
LEMMA QuietRows ==
  ASSUME RowsInv, UNCHANGED <<transfers, purchases>>, Still
  PROVE  RowsInv'
<1>1. clock' = clock
  BY DEF Still, Timeless
<1>2. \A q \in Request : tx'[q].status # "none" =>
        tx[q].status # "none" /\ tx'[q].created_at = tx[q].created_at
  BY DEF Still, Timeless
<1>3. ASSUME NEW r \in Request, tx'[r].status # "none"
      PROVE  /\ tx'[r].created_at < clock
             /\ \A t \in transfers : t.created_at # tx'[r].created_at
             /\ \A q \in Request \ {r} :
                  tx'[q].status # "none" => tx'[q].created_at # tx'[r].created_at
  BY <1>2, <1>3 DEF RowsInv
<1> QED BY <1>1, <1>3 DEF RowsInv

\* Begin takes a time that nothing has yet.
LEMMA BeginRows ==
  ASSUME Inv, RowsInv, NEW q \in Request, Begin(q)
  PROVE  RowsInv'
<1>1. /\ transfers' = transfers /\ purchases' = purchases /\ clock \in Nat /\ clock' = clock + 1
      /\ tx \in [Request -> Session] /\ transfers \subseteq TransferRow
  BY DEF Begin, Inv, DBInv, DBTypeOK
<1>2. tx'[q].created_at = clock /\ \A s \in Request \ {q} : tx'[s] = tx[s]
  BY <1>1 DEF Begin, NoSession
<1>3. /\ \A s \in Request : tx[s].created_at \in Nat
      /\ \A t \in transfers : t.created_at \in Nat
  BY <1>1 DEF Session, TransferRow
<1>4. /\ \A t \in transfers : t.created_at < clock
      /\ \A s \in Request : tx[s].status # "none" => tx[s].created_at < clock
  BY DEF RowsInv
<1>5. \A t \in transfers : t.created_at < clock'
  BY <1>1, <1>3, <1>4
<1>6. ASSUME NEW r \in Request, tx'[r].status # "none"
      PROVE  /\ tx'[r].created_at < clock'
             /\ \A t \in transfers : t.created_at # tx'[r].created_at
             /\ \A s \in Request \ {r} :
                  tx'[s].status # "none" => tx'[s].created_at # tx'[r].created_at
  <2>1. CASE r = q
    <3>1. ASSUME NEW s \in Request \ {q}, tx[s].status # "none"
          PROVE  tx[s].created_at # clock
      BY <1>1, <1>3, <1>4, <3>1
    <3> QED BY <1>1, <1>2, <1>3, <1>4, <2>1, <3>1
  <2>2. CASE r # q
    <3>1. tx'[r] = tx[r] /\ tx[r].created_at < clock /\ tx[r].created_at \in Nat
      BY <1>2, <1>3, <1>4, <1>6, <2>2
    <3>2. \A t \in transfers : t.created_at # tx[r].created_at
      BY <1>6, <3>1 DEF RowsInv
    <3>3. ASSUME NEW s \in Request \ {r}, tx'[s].status # "none"
          PROVE  tx'[s].created_at # tx[r].created_at
      <4>1. CASE s = q
        BY <1>1, <1>2, <3>1, <4>1
      <4>2. CASE s # q
        BY <1>2, <1>6, <3>1, <3>3, <4>2 DEF RowsInv
      <4> QED BY <4>1, <4>2
    <3> QED BY <1>1, <3>1, <3>2, <3>3
  <2> QED BY <2>1, <2>2
<1> QED BY <1>1, <1>5, <1>6 DEF RowsInv

\* COMMIT hands the time of the session on to the row.
LEMMA CommitRows ==
  ASSUME Inv, RowsInv, NEW r \in Request, Commit(r), Committing(r)
  PROVE  RowsInv'
<1>1. /\ clock' = clock /\ tx'[r].status = "none"
      /\ \A s \in Request \ {r} : tx'[s] = tx[s]
  BY DEF Commit, EndSession, NoSession, Inv, DBInv, DBTypeOK
<1>2. tx[r].status # "none"
  BY CommittingSession
<1> DEFINE x == NewTransferRow(r)
           y == NewPurchaseRow(r)
<1>3. x.created_at = tx[r].created_at
  BY DEF NewTransferRow
<1>4. \/ transfers' = transfers \cup {x} /\ purchases' = purchases
      \/ /\ transfers' = transfers /\ purchases' = purchases \cup {y}
         /\ y.id = r /\ y.amount = Price[y.item_id] /\ \A p \in purchases : p.id # r
  <2>1. CASE r \in SendRequest
    BY <2>1, CommitTransferEffect
  <2>2. CASE r \in BuyRequest
    BY <2>2, CommitPurchaseEffect DEF NewPurchaseRow
  <2> QED BY <2>1, <2>2, RequestAssumption
<1> HIDE DEF x, y
<1>5. \A t \in transfers' : t \in transfers \/ t = x
  BY <1>4
<1>6. \A p \in purchases' :
        p \in purchases \/ (p = y /\ \A q \in purchases : q.id # p.id)
  BY <1>4
<1>7. /\ tx[r].created_at < clock
      /\ \A t \in transfers : t.created_at # tx[r].created_at
      /\ \A s \in Request \ {r} : tx[s].status # "none" => tx[s].created_at # tx[r].created_at
  BY <1>2 DEF RowsInv
<1>8. \A s, t \in transfers' : s.created_at = t.created_at => s = t
  BY <1>3, <1>5, <1>7 DEF RowsInv
<1>9. \A t \in transfers' : t.created_at < clock'
  BY <1>1, <1>3, <1>5, <1>7 DEF RowsInv
<1>10. ASSUME NEW s \in Request, tx'[s].status # "none"
       PROVE  /\ tx'[s].created_at < clock'
              /\ \A t \in transfers' : t.created_at # tx'[s].created_at
              /\ \A q \in Request \ {s} :
                   tx'[q].status # "none" => tx'[q].created_at # tx'[s].created_at
  <2>1. s # r /\ tx'[s] = tx[s] /\ tx[s].status # "none"
    BY <1>1, <1>10
  <2>2. /\ tx[s].created_at < clock
        /\ \A t \in transfers : t.created_at # tx[s].created_at
        /\ \A q \in Request \ {s} : tx[q].status # "none" => tx[q].created_at # tx[s].created_at
    BY <2>1 DEF RowsInv
  <2>3. tx[s].created_at # tx[r].created_at
    BY <1>7, <2>1
  <2>4. \A t \in transfers' : t.created_at # tx[s].created_at
    BY <1>3, <1>5, <2>2, <2>3
  <2> QED BY <1>1, <2>1, <2>2, <2>4
<1>11. \A p, q \in purchases' : p.id = q.id => p = q
  BY <1>6 DEF RowsInv
<1>12. \A p \in purchases' : p.amount = Price[p.item_id]
  BY <1>4 DEF RowsInv
<1> QED BY <1>8, <1>9, <1>10, <1>11, <1>12 DEF RowsInv

\* Every step keeps RowsInv, and the tables only grow.
LEMMA RowsStep ==
  ASSUME Inv, RowsInv, [Next]_vars
  PROVE  RowsInv' /\ transfers \subseteq transfers' /\ purchases \subseteq purchases'
<1>1. CASE \E r \in Request : Commit(r) /\ Committing(r)
  BY <1>1, CommitRows DEF Commit
<1>2. CASE UNCHANGED <<transfers, purchases>>
  <2>1. CASE Still
    BY <1>2, <2>1, QuietRows
  <2>2. CASE \E q \in Request : Begin(q)
    BY <2>2, BeginRows DEF Begin
  <2> QED BY <1>2, <2>1, <2>2, TimesStep
<1> QED BY <1>1, <1>2, TablesStep DEF InsertUser

-----------------------------------------------------------------------------
(* Statements *)

\* A list of all a user's transfers but T and counts of all purchases but P miss
\* just what T and P say of the balance.
LEMMA StatementAddsUp ==
  ASSUME Inv, LedgerInv, RowsInv, NEW i, i.user \in DOMAIN users,
         ToSet(i.transfers) \subseteq TransfersOf(i.user),
         i.coins = users[i.user].balance,
         NEW B \in SUBSET {p \in purchases : p.user_id = i.user},
         i.itemCounts = CountItems(B)
  PROVE  AddsUp(i)
<1> DEFINE u == i.user
           L == ToSet(i.transfers)
           T == TransfersOf(u) \ L
           bought == {p \in purchases : p.user_id = u}
           P == bought \ B
           ToT == {t \in T : t.dst_user_id = u}
           FromT == {t \in T : t.src_user_id = u}
<1>1. /\ IsFiniteSet(transfers) /\ \A t \in transfers : t.amount \in Int
      /\ IsFiniteSet(purchases) /\ \A p \in purchases : p.amount \in Int
  BY SumTypes DEF LedgerInv
<1>2. /\ Received(u, i.transfers) \in SUBSET transfers /\ ToT \in SUBSET transfers
      /\ Received(u, i.transfers) \cap ToT = {}
      /\ Received(u, i.transfers) \cup ToT = ReceivedBy(u, transfers)
  BY DEF Received, ReceivedBy, TransfersOf
<1>3. /\ Sent(u, i.transfers) \in SUBSET transfers /\ FromT \in SUBSET transfers
      /\ Sent(u, i.transfers) \cap FromT = {}
      /\ Sent(u, i.transfers) \cup FromT = SentBy(u, transfers)
  BY DEF Sent, SentBy, TransfersOf
<1>4. /\ B \in SUBSET purchases /\ P \in SUBSET purchases /\ B \cap P = {}
      /\ B \cup P = SpentBy(u, purchases)
  BY DEF SpentBy
<1>5. T \in SUBSET (TransfersOf(u) \ L) /\ B \in SUBSET bought /\ P \in SUBSET (bought \ B)
  OBVIOUS
<1> HIDE DEF T, P, ToT, FromT
<1>6. /\ Amounts(ReceivedBy(u, transfers)) = Amounts(Received(u, i.transfers)) + Amounts(ToT)
      /\ Amounts(SentBy(u, transfers)) = Amounts(Sent(u, i.transfers)) + Amounts(FromT)
      /\ Amounts(SpentBy(u, purchases)) = Amounts(B) + Amounts(P)
  <2>1. Amounts(Received(u, i.transfers) \cup ToT) = Amounts(Received(u, i.transfers)) + Amounts(ToT)
    BY <1>1, <1>2, AmountsUnion
  <2>2. Amounts(Sent(u, i.transfers) \cup FromT) = Amounts(Sent(u, i.transfers)) + Amounts(FromT)
    BY <1>1, <1>3, AmountsUnion
  <2>3. Amounts(B \cup P) = Amounts(B) + Amounts(P)
    BY <1>1, <1>4, AmountsUnion
  <2> QED BY <1>2, <1>3, <1>4, <2>1, <2>2, <2>3, Zenon
<1>7. Amounts(Inventory(i.itemCounts)) = Amounts(B)
  <2>1. IsFiniteSet(B)
    BY <1>1, <1>4, FS_Subset
  <2>2. \A p \in B : p.item_id \in Items /\ p.amount = Price[p.item_id]
    BY <1>4 DEF RowsInv, Inv, DBInv, DBTypeOK, PurchaseRow
  <2>3. Amounts(Inventory(CountItems(B))) = Amounts(B)
    BY <2>1, <2>2, InventoryCost
  <2> QED BY <2>3, Zenon
<1>8. \A S \in SUBSET transfers : Amounts(S) \in Int
  <2>1. ASSUME NEW S \in SUBSET transfers
        PROVE  IsFiniteSet(S) /\ \A t \in S : t.amount \in Int
    BY <1>1, FS_Subset
  <2> QED BY <2>1, AmountsRemove
<1>9. Amounts(B) \in Int /\ Amounts(P) \in Int
  <2>1. IsFiniteSet(B) /\ IsFiniteSet(P)
    BY <1>1, <1>4, FS_Subset
  <2>2. (\A p \in B : p.amount \in Int) /\ (\A p \in P : p.amount \in Int)
    BY <1>1, <1>4
  <2> QED BY <2>1, <2>2, AmountsRemove
<1>10. DefaultBalance \in Int
  BY ConstantsAssumption DEF Int32
<1>11. i.coins = DefaultBalance + Amounts(ReceivedBy(u, transfers))
                   - Amounts(SentBy(u, transfers)) - Amounts(SpentBy(u, purchases))
  BY LedgerOfUser DEF LedgerInv
<1>12. i.coins = DefaultBalance
         + Amounts(Received(u, i.transfers))
         - Amounts(Sent(u, i.transfers)) - Amounts(Inventory(i.itemCounts))
         + Amounts(ToT) - Amounts(FromT) - Amounts(P)
  <2>1. /\ Amounts(Received(u, i.transfers)) \in Int /\ Amounts(ToT) \in Int
        /\ Amounts(Sent(u, i.transfers)) \in Int /\ Amounts(FromT) \in Int
    BY <1>2, <1>3, <1>8
  <2> QED BY <1>6, <1>7, <1>9, <1>10, <1>11, <2>1
<1>13. i.coins = DefaultBalance
         + Amounts(Received(u, i.transfers))
         - Amounts(Sent(u, i.transfers)) - Amounts(Inventory(i.itemCounts))
         + Amounts({t \in T : t.dst_user_id = u})
         - Amounts({t \in T : t.src_user_id = u}) - Amounts(P)
  BY <1>12, Zenon DEF ToT, FromT
<1> QED BY <1>5, <1>13, Zenon DEF AddsUp

\* A step that only adds rows to the tables.
Grows == transfers \subseteq transfers' /\ purchases \subseteq purchases'

\* A statement that adds up goes on to do so: what is committed later is not in
\* its lists, and need not be.
LEMMA AddsUpStays ==
  ASSUME Grows, NEW r \in InfoRequest, info'[r] = info[r], AddsUp(info[r])
  PROVE  AddsUp(info[r])'
<1> DEFINE i == info[r]
           later == TransfersOf(i.user) \ ToSet(i.transfers)
           bought == {p \in purchases : p.user_id = i.user}
           coins(T, P) == DefaultBalance
             + Amounts(Received(i.user, i.transfers))
             - Amounts(Sent(i.user, i.transfers)) - Amounts(Inventory(i.itemCounts))
             + Amounts({t \in T : t.dst_user_id = i.user})
             - Amounts({t \in T : t.src_user_id = i.user}) - Amounts(P)
<1>1. PICK T \in SUBSET later, B \in SUBSET bought :
        \E P \in SUBSET (bought \ B) : i.itemCounts = CountItems(B) /\ i.coins = coins(T, P)
  BY Zenon DEF AddsUp
<1>2. PICK P \in SUBSET (bought \ B) : i.itemCounts = CountItems(B) /\ i.coins = coins(T, P)
  BY <1>1, Zenon
<1>3. T \in SUBSET later' /\ B \in SUBSET bought' /\ P \in SUBSET (bought' \ B)
  BY <1>1, <1>2 DEF Grows, TransfersOf
<1>4. i' = i
  OBVIOUS
<1>5. i'.itemCounts = CountItems(B) /\ i'.coins = coins(T, P)'
  <2> HIDE DEF i
  <2>1. i'.itemCounts = CountItems(B)
    BY <1>2, <1>4
  <2>2. coins(T, P)' = coins(T, P)
    BY <1>4, Zenon
  <2>3. i'.coins = i.coins
    BY <1>4
  <2> QED BY <1>2, <2>1, <2>2, <2>3, Zenon
<1> QED BY <1>3, <1>5, Zenon DEF AddsUp

\* The statement of r after a step: it is right by itself, and its list of transfers
\* is the one it had, or has all there is to list.
Right(r) ==
  /\ StatementInv(r)'
  /\ info'[r].resp = "ok" => AddsUp(info[r])'
  /\ \/ ~HasList(r)'
     \/ /\ HasList(r)
        /\ info'[r].user = info[r].user /\ info'[r].transfers = info[r].transfers
     \/ ToSet(info'[r].transfers) = TransfersOf(info[r].user)'

\* A statement that the step leaves alone.
LEMMA RightStays ==
  ASSUME InfoInv, Grows, NEW r \in InfoRequest, info'[r] = info[r]
  PROVE  Right(r)
<1>1. StatementInv(r) /\ (info[r].resp = "ok" => AddsUp(info[r]))
  BY DEF InfoInv, InfoAddsUp
<1>2. /\ TransfersOf(info[r].user) \subseteq TransfersOf(info[r].user)'
      /\ {p \in purchases : p.user_id = info[r].user}
           \subseteq {p \in purchases' : p.user_id = info'[r].user}
  BY DEF Grows, TransfersOf
<1>3. HasList(r)' <=> HasList(r)
  BY DEF HasList
<1>4. info'[r].pc # "done" => info'[r].resp = "none"
  BY <1>1 DEF StatementInv
<1>5. info'[r].pc \in {"transfers", "balance"} =>
        \E B \in SUBSET {p \in purchases' : p.user_id = info'[r].user} :
          info'[r].itemCounts = CountItems(B)
  <2>1. SUFFICES ASSUME info'[r].pc \in {"transfers", "balance"}
                 PROVE  \E B \in SUBSET {p \in purchases' : p.user_id = info'[r].user} :
                          info'[r].itemCounts = CountItems(B)
    OBVIOUS
  <2>2. PICK B \in SUBSET {p \in purchases : p.user_id = info[r].user} :
               info[r].itemCounts = CountItems(B)
    BY <1>1, <2>1 DEF StatementInv
  <2>3. B \in SUBSET {p \in purchases' : p.user_id = info'[r].user}
    BY <1>2, <2>2
  <2> QED BY <2>2, <2>3
<1>6. HasList(r)' => /\ Sorted(info'[r].transfers)
                     /\ ToSet(info'[r].transfers) \subseteq TransfersOf(info[r].user)'
  BY <1>1, <1>2, <1>3 DEF StatementInv
<1>7. StatementInv(r)'
  BY <1>4, <1>5, <1>6 DEF StatementInv
<1>8. info'[r].resp = "ok" => AddsUp(info[r])'
  BY <1>1, AddsUpStays
<1> QED BY <1>3, <1>7, <1>8 DEF Right

\* A statement that has collected nothing yet, or is given up.
LEMMA RightWithout ==
  ASSUME NEW r \in InfoRequest, info'[r].pc \notin {"transfers", "balance"},
         info'[r].resp # "ok", info'[r].pc # "done" => info'[r].resp = "none"
  PROVE  Right(r)
  BY DEF Right, StatementInv, HasList

\* Statements that are right by themselves agree: either both lists are old, or
\* one has all there is.
LEMMA RightAll ==
  ASSUME InfoInv, RowsInv', InfoTypeOK', \A r \in InfoRequest : Right(r)
  PROVE  InfoInv'
<1>1. \A r \in InfoRequest : StatementInv(r)'
  BY DEF Right
<1>2. InfoAddsUp'
  BY DEF Right, InfoAddsUp
<1>3. ASSUME NEW r \in InfoRequest, NEW q \in InfoRequest, HasList(r)', HasList(q)',
             info'[r].user = info'[q].user
      PROVE  \/ ToSet(info'[r].transfers) \subseteq ToSet(info'[q].transfers)
             \/ ToSet(info'[q].transfers) \subseteq ToSet(info'[r].transfers)
  <2>1. TransfersOf(info[r].user)' = TransfersOf(info[q].user)'
    BY <1>3 DEF TransfersOf
  <2>2. /\ ToSet(info'[r].transfers) \subseteq TransfersOf(info[r].user)'
        /\ ToSet(info'[q].transfers) \subseteq TransfersOf(info[q].user)'
    BY <1>1, <1>3 DEF StatementInv
  <2>3. CASE \/ ToSet(info'[r].transfers) = TransfersOf(info[r].user)'
             \/ ToSet(info'[q].transfers) = TransfersOf(info[q].user)'
    BY <2>1, <2>2, <2>3
  <2>4. CASE /\ HasList(r) /\ HasList(q)
             /\ info'[r].user = info[r].user /\ info'[r].transfers = info[r].transfers
             /\ info'[q].user = info[q].user /\ info'[q].transfers = info[q].transfers
    BY <1>3, <2>4 DEF InfoInv, ListsInv
  <2> QED BY <1>3, <2>3, <2>4 DEF Right
<1>4. ListsInv'
  BY <1>3 DEF ListsInv
<1> QED BY <1>1, <1>2, <1>4 DEF InfoInv

\* Steps of one handler of /api/info leave the others and the database alone.
LEMMA RightOthers ==
  ASSUME InfoInv, NEW r \in InfoRequest, UNCHANGED dbvars, info' \in [InfoRequest -> InfoState],
         \A q \in InfoRequest \ {r} : info'[q] = info[q], Right(r)
  PROVE  InfoInv'
<1>1. Grows
  BY DEF Grows, dbvars
<1>2. \A q \in InfoRequest : Right(q)
  BY <1>1, RightStays
<1>3. RowsInv'
  BY DEF InfoInv, RowsInv, dbvars
<1> QED BY <1>2, <1>3, RightAll DEF InfoTypeOK

\* A request arrives.
LEMMA GetAPIInfoInv ==
  ASSUME Inv, InfoInv, NEW r \in InfoRequest, NEW u \in tokens, GetAPIInfo(r, u)
  PROVE  InfoInv'
<1>1. info \in [InfoRequest -> InfoState] /\ StatementInv(r) /\ u \in UserID
  BY DEF Inv, AuthInv, AuthTypeOK, InfoInv, InfoTypeOK
<1>2. info[r].resp = "none"
  BY <1>1 DEF StatementInv, GetAPIInfo
<1>3. /\ info' \in [InfoRequest -> InfoState]
      /\ \A q \in InfoRequest \ {r} : info'[q] = info[q]
      /\ info'[r].pc = "purchases" /\ info'[r].resp = info[r].resp
  BY <1>1 DEF GetAPIInfo, InfoState
<1>4. Right(r)
  BY <1>2, <1>3, RightWithout
<1> QED BY <1>3, <1>4, RightOthers DEF GetAPIInfo

\* The inventory is read.
LEMMA ReadItemCountsInv ==
  ASSUME Inv, InfoInv, NEW r \in InfoRequest, ReadItemCounts(r)
  PROVE  InfoInv'
<1> DEFINE B == {p \in purchases : p.user_id = info[r].user}
           c == CountItems(B)
<1>1. info \in [InfoRequest -> InfoState] /\ StatementInv(r) /\ RowsInv
  BY DEF InfoInv, InfoTypeOK
<1>2. info[r].resp = "none"
  BY <1>1 DEF StatementInv, ReadItemCounts
<1>3. c \in ItemCounts
  BY <1>1, CountsType
<1>4. info' = [info EXCEPT ![r].itemCounts = c, ![r].pc = "transfers"]
  BY DEF ReadItemCounts, GetItemCountsByUserID
<1>5. purchases' = purchases
  BY DEF ReadItemCounts, dbvars
<1> HIDE DEF c
<1>6. /\ info' \in [InfoRequest -> InfoState]
      /\ \A q \in InfoRequest \ {r} : info'[q] = info[q]
      /\ info'[r].pc = "transfers" /\ info'[r].resp = info[r].resp
      /\ info'[r].user = info[r].user /\ info'[r].itemCounts = c
  <2> DEFINE i == [info[r] EXCEPT !.itemCounts = c, !.pc = "transfers"]
  <2>1. info[r] \in InfoState
    BY <1>1
  <2>2. /\ i \in InfoState /\ i.pc = "transfers" /\ i.resp = info[r].resp
        /\ i.user = info[r].user /\ i.itemCounts = c
    BY <1>3, <2>1 DEF InfoState
  <2>3. info' = [info EXCEPT ![r] = i]
    BY <1>1, <1>4
  <2> HIDE DEF i
  <2>4. /\ info' \in [InfoRequest -> InfoState] /\ info'[r] = i
        /\ \A q \in InfoRequest \ {r} : info'[q] = info[q]
    BY <1>1, <2>2, <2>3
  <2> QED BY <2>2, <2>4
<1>7. StatementInv(r)'
  BY <1>2, <1>5, <1>6 DEF StatementInv, HasList, c
<1>8. Right(r)
  BY <1>2, <1>6, <1>7 DEF Right, HasList
<1> QED BY <1>6, <1>8, RightOthers DEF ReadItemCounts

\* The list of transfers is read: all there is.
LEMMA ReadTransfersInv ==
  ASSUME Inv, LedgerInv, InfoInv, NEW r \in InfoRequest, ReadTransfers(r)
  PROVE  InfoInv'
<1> DEFINE ts == GetTransfersByUserID(info[r].user)
<1>1. info \in [InfoRequest -> InfoState] /\ StatementInv(r) /\ RowsInv
  BY DEF InfoInv, InfoTypeOK
<1>2. info[r].pc = "transfers" /\ info[r].resp = "none"
  BY <1>1 DEF StatementInv, ReadTransfers
<1>3. ts \in Seq(TransferRow) /\ Sorted(ts) /\ ToSet(ts) = TransfersOf(info[r].user)
  BY <1>1, ListOfTransfers DEF LedgerInv
<1>4. info' = [info EXCEPT ![r].transfers = ts, ![r].pc = "balance"]
  BY DEF ReadTransfers
<1>5. purchases' = purchases /\ transfers' = transfers
  BY DEF ReadTransfers, dbvars
<1> HIDE DEF ts
<1>6. /\ info' \in [InfoRequest -> InfoState]
      /\ \A q \in InfoRequest \ {r} : info'[q] = info[q]
      /\ info'[r].pc = "balance" /\ info'[r].resp = info[r].resp
      /\ info'[r].user = info[r].user /\ info'[r].itemCounts = info[r].itemCounts
      /\ info'[r].transfers = ts
  <2> DEFINE i == [info[r] EXCEPT !.transfers = ts, !.pc = "balance"]
  <2>1. info[r] \in InfoState
    BY <1>1
  <2>2. /\ i \in InfoState /\ i.pc = "balance" /\ i.resp = info[r].resp
        /\ i.user = info[r].user /\ i.itemCounts = info[r].itemCounts /\ i.transfers = ts
    BY <1>3, <2>1 DEF InfoState
  <2>3. info' = [info EXCEPT ![r] = i]
    BY <1>1, <1>4
  <2> HIDE DEF i
  <2>4. /\ info' \in [InfoRequest -> InfoState] /\ info'[r] = i
        /\ \A q \in InfoRequest \ {r} : info'[q] = info[q]
    BY <1>1, <2>2, <2>3
  <2> QED BY <2>2, <2>4
<1>7. TransfersOf(info[r].user)' = TransfersOf(info[r].user)
  BY <1>5, <1>6 DEF TransfersOf
<1>8. ToSet(info'[r].transfers) = TransfersOf(info[r].user)'
  BY <1>3, <1>6, <1>7
<1>9. StatementInv(r)'
  BY <1>1, <1>2, <1>3, <1>5, <1>6, <1>8 DEF StatementInv
<1>10. Right(r)
  BY <1>2, <1>6, <1>8, <1>9 DEF Right
<1> QED BY <1>6, <1>10, RightOthers DEF ReadTransfers

\* The handler of r returns with an error.
LEMMA InfoFails ==
  ASSUME InfoInv, NEW r \in InfoRequest, InfoReturn(r, "internal"), UNCHANGED dbvars
  PROVE  InfoInv'
<1> DEFINE i == [info[r] EXCEPT !.pc = "done", !.resp = "internal"]
<1>1. info \in [InfoRequest -> InfoState] /\ info[r] \in InfoState
  BY DEF InfoInv, InfoTypeOK
<1>2. i \in InfoState /\ i.pc = "done" /\ i.resp = "internal"
  BY <1>1 DEF InfoState
<1>3. info' = [info EXCEPT ![r] = i]
  BY <1>1 DEF InfoReturn
<1> HIDE DEF i
<1>4. /\ info' \in [InfoRequest -> InfoState] /\ info'[r] = i
      /\ \A q \in InfoRequest \ {r} : info'[q] = info[q]
  BY <1>1, <1>2, <1>3
<1>5. Right(r)
  BY <1>2, <1>4, RightWithout
<1> QED BY <1>4, <1>5, RightOthers

\* The balance is read and the request is answered.
LEMMA ReadBalanceInv ==
  ASSUME Inv, LedgerInv, InfoInv, NEW r \in InfoRequest, ReadBalance(r)
  PROVE  InfoInv'
<1>1. info \in [InfoRequest -> InfoState] /\ StatementInv(r) /\ RowsInv
  BY DEF InfoInv, InfoTypeOK
<1>2. info[r].pc = "balance"
  BY DEF ReadBalance
<1>3. CASE InfoReturn(r, "internal")
  BY <1>3, InfoFails DEF ReadBalance
<1>4. CASE \E u \in GetUser(info[r].user) :
             info' = [info EXCEPT ![r].coins = users[u].balance,
                                  ![r].pc = "done", ![r].resp = "ok"]
  <2> DEFINE u == info[r].user
  <2>1. /\ u \in DOMAIN users
        /\ info' = [info EXCEPT ![r].coins = users[u].balance,
                                ![r].pc = "done", ![r].resp = "ok"]
    BY <1>4 DEF GetUser
  <2>2. users[u].balance \in Int32
    BY <2>1 DEF Inv, DBInv, DBTypeOK, UserRow
  <2>3. /\ info' \in [InfoRequest -> InfoState]
        /\ \A q \in InfoRequest \ {r} : info'[q] = info[q]
        /\ info'[r].pc = "done" /\ info'[r].resp = "ok"
        /\ info'[r].user = u /\ info'[r].itemCounts = info[r].itemCounts
        /\ info'[r].transfers = info[r].transfers
        /\ info'[r].coins = users[u].balance
    <3> DEFINE i == [info[r] EXCEPT !.coins = users[u].balance, !.pc = "done", !.resp = "ok"]
    <3>1. info[r] \in InfoState
      BY <1>1
    <3>2. /\ i \in InfoState /\ i.pc = "done" /\ i.resp = "ok" /\ i.user = u
          /\ i.itemCounts = info[r].itemCounts /\ i.transfers = info[r].transfers
          /\ i.coins = users[u].balance
      BY <2>2, <3>1 DEF InfoState
    <3>3. info' = [info EXCEPT ![r] = i]
      BY <1>1, <2>1
    <3> HIDE DEF i
    <3>4. /\ info' \in [InfoRequest -> InfoState] /\ info'[r] = i
          /\ \A q \in InfoRequest \ {r} : info'[q] = info[q]
      BY <1>1, <3>2, <3>3
    <3> QED BY <3>2, <3>4
  <2>4. /\ purchases' = purchases /\ transfers' = transfers
    BY DEF ReadBalance, dbvars
  <2>5. HasList(r) /\ Sorted(info[r].transfers) /\ ToSet(info[r].transfers) \subseteq TransfersOf(u)
    BY <1>1, <1>2 DEF StatementInv, HasList
  <2>6. PICK B \in SUBSET {p \in purchases : p.user_id = u} : info[r].itemCounts = CountItems(B)
    BY <1>1, <1>2 DEF StatementInv
  <2> DEFINE i == info'[r]
  <2>7. AddsUp(i)
    <3>1. /\ i.user \in DOMAIN users /\ ToSet(i.transfers) \subseteq TransfersOf(i.user)
          /\ i.coins = users[i.user].balance /\ i.itemCounts = CountItems(B)
          /\ B \in SUBSET {p \in purchases : p.user_id = i.user}
      BY <2>1, <2>3, <2>5, <2>6
    <3> HIDE DEF i
    <3> QED BY <1>1, <3>1, StatementAddsUp
  <2>8. AddsUp(info[r])'
    BY <2>4, <2>7, Zenon DEF AddsUp, TransfersOf
  <2>9. TransfersOf(info[r].user)' = TransfersOf(u)
    BY <2>3, <2>4 DEF TransfersOf
  <2>10. StatementInv(r)'
    BY <2>3, <2>5, <2>9 DEF StatementInv
  <2>11. Right(r)
    BY <2>3, <2>5, <2>8, <2>10 DEF Right
  <2> QED BY <2>3, <2>11, RightOthers DEF ReadBalance
<1> QED BY <1>3, <1>4 DEF ReadBalance

\* The handler is given up.
LEMMA CancelInfoInv ==
  ASSUME InfoInv, NEW r \in InfoRequest, CancelInfo(r)
  PROVE  InfoInv'
  BY InfoFails DEF CancelInfo

\* All handlers are gone.
LEMMA CrashInfoInv ==
  ASSUME InfoInv, RowsInv', Grows, Crash
  PROVE  InfoInv'
<1>1. info \in [InfoRequest -> InfoState]
  BY DEF InfoInv, InfoTypeOK
<1>2. info' = [r \in InfoRequest |->
                 IF InfoInFlight(r)
                 THEN [info[r] EXCEPT !.pc = "done", !.resp = "lost"] ELSE info[r]]
  BY DEF Crash
<1>3. ASSUME NEW r \in InfoRequest PROVE Right(r) /\ info'[r] \in InfoState
  <2>1. info[r] \in InfoState
    BY <1>1
  <2>2. CASE InfoInFlight(r)
    <3>1. info'[r] = [info[r] EXCEPT !.pc = "done", !.resp = "lost"]
      BY <1>2, <2>2
    <3>2. info'[r].pc = "done" /\ info'[r].resp = "lost" /\ info'[r] \in InfoState
      BY <2>1, <3>1 DEF InfoState
    <3> QED BY <3>2, RightWithout
  <2>3. CASE ~InfoInFlight(r)
    <3>1. info'[r] = info[r]
      BY <1>2, <2>3
    <3> QED BY <2>1, <3>1, RightStays
  <2> QED BY <2>2, <2>3
<1>4. InfoTypeOK'
  BY <1>2, <1>3 DEF InfoTypeOK
<1> QED BY <1>3, <1>4, RightAll

\* All other steps leave the statements alone, and only add to the tables.
LEMMA InfoStepInv ==
  ASSUME Inv, LedgerInv, InfoInv, [Next]_vars
  PROVE  InfoInv'
<1>1. RowsInv' /\ Grows
  BY RowsStep DEF InfoInv, Grows
<1>2. ASSUME NEW r \in InfoRequest,
             (\E u \in tokens : GetAPIInfo(r, u)) \/ InfoStep(r) \/ CancelInfo(r)
      PROVE  InfoInv'
  BY <1>2, GetAPIInfoInv, ReadItemCountsInv, ReadTransfersInv, ReadBalanceInv, CancelInfoInv
  DEF InfoStep
<1>3. CASE Crash
  BY <1>1, <1>3, CrashInfoInv
<1>4. CASE info' = info
  <2>1. \A r \in InfoRequest : Right(r)
    BY <1>1, <1>4, RightStays
  <2>2. InfoTypeOK'
    BY <1>4 DEF InfoInv, InfoTypeOK
  <2> QED BY <1>1, <2>1, <2>2, RightAll
<1>5. \/ info' = info \/ Crash
      \/ \E r \in InfoRequest :
           (\E u \in tokens : GetAPIInfo(r, u)) \/ InfoStep(r) \/ CancelInfo(r)
  BY DEF Next, OnlySend, OnlyBuy, OnlyAuth, OnlyDB, OrphanStep, Idle, vars
<1> QED BY <1>2, <1>3, <1>4, <1>5

\* Nothing has been collected at first.
LEMMA InfoInitInv ==
  ASSUME Init
  PROVE  InfoInv
<1>1. /\ transfers = {} /\ purchases = {} /\ tx = [r \in Request |-> NoSession]
  BY DEF Init, DBInit
<1>2. RowsInv
  BY <1>1 DEF RowsInv, NoSession
<1>3. \A r \in InfoRequest : info[r].pc = "recv" /\ info[r].resp = "none"
  BY DEF Init, InfoInit
<1>4. InfoTypeOK
  <2> DEFINE none == [i \in {} |-> 0]
  <2>1. none \in ItemCounts
    <3>1. none \in [{} -> 1..Cardinality(Request)]
      OBVIOUS
    <3> QED BY <3>1 DEF ItemCounts
  <2>2. 0 \in Int32 /\ <<>> \in Seq(TransferRow)
    BY ConstantsAssumption DEF Int32
  <2> HIDE DEF none
  <2>3. [pc |-> "recv", resp |-> "none", user |-> NoUser,
         itemCounts |-> none, transfers |-> <<>>, coins |-> 0] \in InfoState
    BY <2>1, <2>2 DEF InfoState
  <2> QED BY <2>3 DEF InfoTypeOK, Init, InfoInit, none
<1>5. (\A r \in InfoRequest : StatementInv(r)) /\ ListsInv /\ InfoAddsUp
  BY <1>3 DEF StatementInv, ListsInv, InfoAddsUp, HasList
<1> QED BY <1>2, <1>4, <1>5 DEF InfoInv

\* Rows have one place in a list in order, and which of two comes first is told by
\* their times.
LEMMA PlaceByTime ==
  ASSUME NEW ts \in Seq(TransferRow), Sorted(ts), NEW k \in DOMAIN ts, NEW l \in DOMAIN ts
  PROVE  k < l <=> ts[k].created_at < ts[l].created_at
<1>1. /\ DOMAIN ts = 1..Len(ts) /\ Len(ts) \in Nat
      /\ ts[k].created_at \in Nat /\ ts[l].created_at \in Nat
  <2>1. DOMAIN ts = 1..Len(ts) /\ Len(ts) \in Nat
    OBVIOUS
  <2>2. ts[k] \in TransferRow /\ ts[l] \in TransferRow
    BY <2>1
  <2> QED BY <2>1, <2>2 DEF TransferRow
<1>2. /\ k < l => ts[k].created_at < ts[l].created_at
      /\ l < k => ts[l].created_at < ts[k].created_at
  BY <1>1 DEF Sorted, IsSorted
<1> QED BY <1>1, <1>2

\* So two lists in order list what they have in common in the same order.
LEMMA SameOrderOfLists ==
  ASSUME NEW x \in Seq(TransferRow), NEW y \in Seq(TransferRow), Sorted(x), Sorted(y),
         ToSet(y) \subseteq ToSet(x)
  PROVE  ListsAllOf(x, y)
<1>1. ASSUME NEW i \in DOMAIN y, NEW j \in DOMAIN y, NEW k \in DOMAIN x, NEW l \in DOMAIN x,
             x[k] = y[i], x[l] = y[j]
      PROVE  i < j <=> k < l
  <2>1. i < j <=> y[i].created_at < y[j].created_at
    BY PlaceByTime
  <2>2. k < l <=> x[k].created_at < x[l].created_at
    BY PlaceByTime
  <2> QED BY <1>1, <2>1, <2>2
<1> QED BY <1>1 DEF ListsAllOf

\* What every statement has collected at every point of its handler stays true
\* of the tables, whatever is committed in the meantime.
THEOREM InfoInvariantHolds == Spec => []InfoInv
<1>1. Init => InfoInv
  BY InfoInitInv
<1>2. Inv /\ LedgerInv /\ InfoInv /\ [Next]_vars => InfoInv'
  BY InfoStepInv
<1> QED BY <1>1, <1>2, InvariantHolds, LedgerInvariantHolds, PTL DEF Spec

\* What /api/info has collected is well formed at every point of its handler: the
\* three queries return rows of the types of the migration, an item is listed
\* only when it was bought, and never more often than it can have been.
THEOREM StatementsWellFormed == Spec => []InfoTypeOK
<1>1. InfoInv => InfoTypeOK
  BY DEF InfoInv
<1> QED BY <1>1, InfoInvariantHolds, PTL

\* Every answer of /api/info adds up, although its three queries are not one
\* snapshot: the coins are what the lists explain, but for whole transfers and
\* purchases committed after their list was read.
THEOREM StatementsAddUp == Spec => []InfoAddsUp
<1>1. InfoInv => InfoAddsUp
  BY DEF InfoInv
<1> QED BY <1>1, InfoInvariantHolds, PTL

\* Two answers of /api/info to one user tell one history: one lists all that the
\* other one lists, in the same order, although created_at is the time a
\* transaction began and not the time it was committed.
THEOREM StatementsTellOneHistory == Spec => []HistoriesAgree
<1>1. InfoInv => HistoriesAgree
  <2>1. SUFFICES ASSUME InfoInv, NEW r \in InfoRequest, NEW q \in InfoRequest,
                        info[r].resp = "ok", info[q].resp = "ok",
                        info[r].user = info[q].user
                 PROVE  \/ ListsAllOf(info[r].transfers, info[q].transfers)
                        \/ ListsAllOf(info[q].transfers, info[r].transfers)
    BY DEF HistoriesAgree
  <2>2. HasList(r) /\ HasList(q) /\ StatementInv(r) /\ StatementInv(q)
    BY <2>1 DEF InfoInv, HasList
  <2>3. Sorted(info[r].transfers) /\ Sorted(info[q].transfers)
    BY <2>2 DEF StatementInv
  <2>4. info[r].transfers \in Seq(TransferRow) /\ info[q].transfers \in Seq(TransferRow)
    BY <2>1 DEF InfoInv, InfoTypeOK, InfoState
  <2>5. \/ ToSet(info[r].transfers) \subseteq ToSet(info[q].transfers)
        \/ ToSet(info[q].transfers) \subseteq ToSet(info[r].transfers)
    BY <2>1, <2>2 DEF InfoInv, ListsInv
  <2> QED BY <2>3, <2>4, <2>5, SameOrderOfLists
<1> QED BY <1>1, InfoInvariantHolds, PTL

=============================================================================
