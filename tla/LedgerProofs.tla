---------------------------- MODULE LedgerProofs ----------------------------
(***************************************************************************)
(* Proofs about the ledger, for any addresses, amounts and bounds: the     *)
(* invariant of its operations, and from that, by induction over the       *)
(* links, that get_transaction_history is right for every ledger the       *)
(* server can get to.                                                      *)
(***************************************************************************)
EXTENDS LedgerHistory, SequenceFacts

(***************************************************************************)
(* Links are one-to-one and none is the origin: what SHA-512/2 without     *)
(* collisions and a ledger sequence other than 0 give.                     *)
(***************************************************************************)
LEMMA LinksDiffer ==
  ASSUME NEW x, NEW y
  PROVE  /\ LinkTo(x) # Origin
         /\ LinkTo(x) = LinkTo(y) => x = y
  BY DEF LinkTo, Origin, ledger_sequence, get_sha512_half

(***************************************************************************)
(* What appending to a sequence gives, for elements of no particular set.  *)
(***************************************************************************)
LEMMA AppendFacts ==
  ASSUME NEW S, NEW s \in Seq(S), NEW e
  PROVE  /\ Append(s, e) \in Seq(S \cup {e})
         /\ Len(s) \in Nat
         /\ Len(Append(s, e)) = Len(s) + 1
         /\ DOMAIN s = 1..Len(s)
         /\ DOMAIN Append(s, e) = 1..(Len(s) + 1)
         /\ \A i \in 1..Len(s) : Append(s, e)[i] = s[i]
         /\ Append(s, e)[Len(s) + 1] = e
  <1>1. s \in Seq(S \cup {e})
    OBVIOUS
  <1>2. QED
    BY <1>1

(***************************************************************************)
(* A sequence is one over the set of its own elements.                     *)
(***************************************************************************)
LEMMA SeqOfItsElements ==
  ASSUME NEW S, NEW s \in Seq(S)
  PROVE  s \in Seq({s[i] : i \in DOMAIN s})
  OBVIOUS

(***************************************************************************)
(* Appending a transaction disturbs no link into the transactions before   *)
(* it.                                                                     *)
(***************************************************************************)
LEMMA LinksSurviveAppend ==
  ASSUME NEW S, NEW s \in Seq(S), NEW tx, NEW link, NEW a,
         NEW n \in 0..Len(s), PointsToLast(s, link, a, n)
  PROVE  PointsToLast(Append(s, tx), link, a, n)
  <1>1. \A i \in 1..n : Append(s, tx)[i] = s[i]
    BY AppendFacts
  <1>2. \A i \in 1..n : \A j \in (i + 1)..n : j \in 1..n
    OBVIOUS
  <1>3. QED
    BY <1>1, <1>2 DEF PointsToLast

(***************************************************************************)
(* The links of the two parties of a new transaction lead to it; every     *)
(* other account's link still leads to its last one.                       *)
(***************************************************************************)
LEMMA LinkToNewest ==
  ASSUME NEW S, NEW s \in Seq(S), NEW tx, NEW a, Involves(tx, a)
  PROVE  PointsToLast(Append(s, tx), LinkTo(tx), a, Len(s) + 1)
  <1>1. /\ Append(s, tx)[Len(s) + 1] = tx
        /\ Len(s) + 1 \in 1..(Len(s) + 1)
        /\ ((Len(s) + 1) + 1)..(Len(s) + 1) = {}
    BY AppendFacts
  <1>2. QED
    BY <1>1 DEF PointsToLast

LEMMA LinkOfBystander ==
  ASSUME NEW S, NEW s \in Seq(S), NEW tx, NEW link, NEW a,
         ~ Involves(tx, a), PointsToLast(s, link, a, Len(s))
  PROVE  PointsToLast(Append(s, tx), link, a, Len(s) + 1)
  <1> DEFINE n == Len(s)
             t == Append(s, tx)
  <1>1. /\ n \in Nat
        /\ \A i \in 1..n : t[i] = s[i]
        /\ t[n + 1] = tx
    BY AppendFacts
  <1>2. CASE link = Origin /\ \A i \in 1..n : ~ Involves(s[i], a)
    <2>1. \A i \in 1..(n + 1) : ~ Involves(t[i], a)
      BY <1>1, <1>2
    <2>2. QED
      BY <1>2, <2>1 DEF PointsToLast
  <1>3. CASE \E i \in 1..n : /\ Involves(s[i], a)
                             /\ link = LinkTo(s[i])
                             /\ \A j \in (i + 1)..n : ~ Involves(s[j], a)
    <2>1. PICK i \in 1..n : /\ Involves(s[i], a)
                            /\ link = LinkTo(s[i])
                            /\ \A j \in (i + 1)..n : ~ Involves(s[j], a)
      BY <1>3
    <2>2. Involves(t[i], a) /\ link = LinkTo(t[i])
      BY <1>1, <2>1
    <2>3. \A j \in (i + 1)..(n + 1) : ~ Involves(t[j], a)
      BY <1>1, <2>1
    <2>4. i \in 1..(n + 1)
      BY <1>1
    <2>5. QED
      BY <2>2, <2>3, <2>4 DEF PointsToLast
  <1>4. QED
    BY <1>2, <1>3 DEF PointsToLast

-----------------------------------------------------------------------------
(***************************************************************************)
(* A transaction that add_transaction_entry builds is in the tree at no    *)
(* position.  If it were at i, its source's link would lead to some j at   *)
(* or after i; but the transaction at i carries a link to before i, and    *)
(* the two links are the same.                                             *)
(***************************************************************************)
LEMMA FreshTransaction ==
  ASSUME IInv, NEW s \in DOMAIN account_tree, NEW d, NEW amount,
         NEW i \in 1..Len(transaction_tree)
  PROVE  transaction_tree[i] # Transaction(s, d, amount)
  <1> DEFINE log == transaction_tree
             n == Len(log)
             tx == Transaction(s, d, amount)
             link == account_tree[s].previous
  <1>1. SUFFICES ASSUME log[i] = tx PROVE FALSE
    OBVIOUS
  <1>2. n \in Nat
    BY DEF IInv, TypeOK
  <1>3. tx.source = s /\ tx.source_previous = link
    BY DEF Transaction
  <1>4. Involves(log[i], s)
    BY <1>1, <1>3 DEF Involves
  <1>5. PointsToLast(log, link, s, n)
    BY DEF IInv, Chained
  <1>6. PICK j \in 1..n : link = LinkTo(log[j]) /\ i <= j
    <2>1. PICK j \in 1..n : /\ link = LinkTo(log[j])
                            /\ \A k \in (j + 1)..n : ~ Involves(log[k], s)
      BY <1>4, <1>5 DEF PointsToLast
    <2>2. i <= j
      BY <1>2, <1>4, <2>1
    <2>3. QED
      BY <2>1, <2>2
  <1>7. PointsToLast(log, link, s, i - 1)
    BY <1>1, <1>3 DEF IInv, Chained
  <1>8. PICK k \in 1..(i - 1) : link = LinkTo(log[k])
    BY <1>6, <1>7, LinksDiffer DEF PointsToLast
  <1>9. log[k] = log[j]
    BY <1>6, <1>8, LinksDiffer
  <1>10. k = j
    BY <1>2, <1>9 DEF IInv, Distinct
  <1>11. QED
    BY <1>2, <1>6, <1>8, <1>10

-----------------------------------------------------------------------------
(***************************************************************************)
(* The initial state: no accounts, no transactions, nothing to link.       *)
(***************************************************************************)
LEMMA InitIInv == Init => IInv
  <1> SUFFICES ASSUME Init PROVE IInv
    OBVIOUS
  <1> USE DEF Init
  <1>1. Len(transaction_tree) = 0 /\ DOMAIN account_tree = {}
    OBVIOUS
  <1>2. Entries = {}
    BY DEF Entries
  <1>3. TypeOK
    BY <1>1, <1>2 DEF TypeOK, Status
  <1>4. NoOverdraft /\ PartiesExist /\ Distinct /\ NoDuplicateTransaction
    BY <1>1, <1>2 DEF NoOverdraft, PartiesExist, Distinct,
                      NoDuplicateTransaction
  <1>5. Chained
    BY <1>1 DEF Chained
  <1>6. QED
    BY <1>3, <1>4, <1>5 DEF IInv

(***************************************************************************)
(* A step that at most stops the process, and not for a duplicate          *)
(* transaction, keeps the invariant.                                       *)
(***************************************************************************)
LEMMA StatusOnly ==
  ASSUME IInv, UNCHANGED <<account_tree, transaction_tree>>,
         status' \in {status, "null_account", "duplicate_account"}
  PROVE  IInv'
  <1>1. TypeOK'
    BY DEF IInv, TypeOK, Status, Balance, Entries
  <1>2. NoOverdraft' /\ PartiesExist' /\ Distinct' /\ Chained'
    BY DEF IInv, NoOverdraft, PartiesExist, Distinct, Chained, Balance,
           Entries
  <1>3. NoDuplicateTransaction'
    BY DEF IInv, NoDuplicateTransaction
  <1>4. QED
    BY <1>1, <1>2, <1>3 DEF IInv

(***************************************************************************)
(* create_account: the new account has no past, because every party of     *)
(* every transaction already had an account.                               *)
(***************************************************************************)
LEMMA CreateAccountIInv ==
  ASSUME IInv, NEW a \in Address, CreateAccount(a)
  PROVE  IInv'
  <1> USE DEF IInv, CreateAccount, has_account
  <1>1. /\ DOMAIN account_tree' = DOMAIN account_tree \cup {a}
        /\ account_tree'[a] = [balance |-> InitialBalance, previous |-> Origin]
        /\ \A x \in DOMAIN account_tree : account_tree'[x] = account_tree[x]
    OBVIOUS
  <1>2. InitialBalance \in Int /\ InitialBalance >= 0
    BY LedgerAssumption
  <1>3. \A x \in DOMAIN account_tree' :
          Balance(x)' \in Int /\ Balance(x)' >= 0
    BY <1>1, <1>2 DEF Balance, TypeOK, NoOverdraft
  <1>4. TypeOK' /\ NoOverdraft'
    BY <1>1, <1>3 DEF TypeOK, NoOverdraft, Entries
  <1>5. PartiesExist' /\ Distinct' /\ NoDuplicateTransaction'
    BY <1>1 DEF PartiesExist, Distinct, NoDuplicateTransaction, Entries
  <1>6. \A i \in 1..Len(transaction_tree) : ~ Involves(transaction_tree[i], a)
    BY DEF TypeOK, PartiesExist, Entries, Involves
  <1>7. PointsToLast(transaction_tree, account_tree'[a].previous, a,
                     Len(transaction_tree))
    BY <1>1, <1>6 DEF PointsToLast
  <1>8. Chained'
    BY <1>1, <1>7 DEF Chained
  <1>9. QED
    BY <1>4, <1>5, <1>8

(***************************************************************************)
(* A payment whose transaction is new: where each of its parties' links    *)
(* goes, and what it leaves them with.                                     *)
(***************************************************************************)
LEMMA PaidFacts ==
  ASSUME IInv, NEW s \in DOMAIN account_tree, NEW d \in DOMAIN account_tree,
         NEW amount \in Amount, NEW link, accepts(Balance(s), -amount)
  PROVE  LET tree == Paid(s, d, amount, link)
         IN  /\ DOMAIN tree = DOMAIN account_tree
             /\ \A a \in DOMAIN tree :
                  /\ tree[a].balance \in Int
                  /\ tree[a].balance >= 0
                  /\ a \in {s, d} => tree[a].previous = link
                  /\ a \notin {s, d} => tree[a] = account_tree[a]
             /\ s # d => tree[s].balance = Balance(s) - amount
             /\ amount >= 0 => tree[d].balance = Balance(d) + amount
  <1> USE DEF IInv, TypeOK, NoOverdraft, Balance
  <1>1. amount \in Int
    BY LedgerAssumption
  <1>2. Balance(s) \in Int /\ Balance(d) \in Int /\ Balance(d) >= 0
    OBVIOUS
  <1>3. Balance(s) - amount \in Int /\ Balance(s) - amount >= 0
    BY <1>1, <1>2 DEF accepts
  <1>4. /\ add_balance(Balance(d), amount) \in Int
        /\ add_balance(Balance(d), amount) >= 0
        /\ amount >= 0 => add_balance(Balance(d), amount) = Balance(d) + amount
    BY <1>1, <1>2 DEF add_balance
  <1>5. QED
    BY <1>2, <1>3, <1>4 DEF Paid

(***************************************************************************)
(* add_transaction_entry keeps the invariant; the branch of its assertion  *)
(* is never taken.                                                         *)
(***************************************************************************)
LEMMA AddTransactionEntryIInv ==
  ASSUME IInv, NEW s \in Address, NEW d \in Address, NEW amount \in Amount,
         AddTransactionEntry(s, d, amount)
  PROVE  IInv'
  <1> DEFINE log == transaction_tree
             n == Len(log)
             tx == Transaction(s, d, amount)
  <1>1. /\ s \in DOMAIN account_tree /\ d \in DOMAIN account_tree
        /\ accepts(Balance(s), -amount)
    BY DEF AddTransactionEntry, has_account
  <1>2. log \in Seq(Entries) /\ n \in Nat /\ DOMAIN log = 1..n
    BY DEF IInv, TypeOK
  <1>3. \A i \in 1..n : log[i] # tx
    BY <1>1, FreshTransaction
  <1>4. /\ log' = Append(log, tx)
        /\ account_tree' = Paid(s, d, amount, LinkTo(tx))
        /\ status' = status
    BY <1>2, <1>3 DEF AddTransactionEntry, get_sha512_half
  <1>5. /\ log' \in Seq(Entries \cup {tx})
        /\ Len(log') = n + 1
        /\ DOMAIN log' = 1..(n + 1)
        /\ \A i \in 1..n : log'[i] = log[i]
        /\ log'[n + 1] = tx
    BY <1>2, <1>4, AppendFacts
  <1>6. /\ DOMAIN account_tree' = DOMAIN account_tree
        /\ \A a \in DOMAIN account_tree :
             /\ account_tree'[a].balance \in Int
             /\ account_tree'[a].balance >= 0
             /\ a \in {s, d} => account_tree'[a].previous = LinkTo(tx)
             /\ a \notin {s, d} => account_tree'[a] = account_tree[a]
    BY <1>1, <1>4, PaidFacts
  <1>7. /\ tx.source = s /\ tx.destination = d /\ tx.amount = amount
        /\ tx.source_previous = account_tree[s].previous
        /\ tx.destination_previous = account_tree[d].previous
    BY DEF Transaction
  <1>8. Entries' = Entries \cup {tx}
    <2>1. Entries' = {log'[i] : i \in 1..(n + 1)}
      BY <1>5 DEF Entries
    <2>2. Entries = {log[i] : i \in 1..n}
      BY <1>2 DEF Entries
    <2>3. 1..(n + 1) = 1..n \cup {n + 1}
      BY <1>2
    <2>4. QED
      BY <1>5, <2>1, <2>2, <2>3
  <1>9. TypeOK' /\ NoOverdraft'
    <2>1. amount \in Int
      BY LedgerAssumption
    <2>2. \A e \in Entries' : e.amount \in Int
      BY <1>7, <1>8, <2>1 DEF IInv, TypeOK
    <2>3. QED
      BY <1>4, <1>5, <1>6, <1>8, <2>2 DEF IInv, TypeOK, NoOverdraft, Balance
  <1>10. PartiesExist' /\ NoDuplicateTransaction'
    BY <1>1, <1>4, <1>6, <1>7, <1>8
       DEF IInv, PartiesExist, NoDuplicateTransaction
  <1>11. Distinct'
    BY <1>2, <1>3, <1>5 DEF IInv, Distinct
  <1>12. Chained'
    <2>1. ASSUME NEW a \in DOMAIN account_tree
          PROVE  PointsToLast(log', account_tree'[a].previous, a, n + 1)
      <3>1. PointsToLast(log, account_tree[a].previous, a, n)
        BY DEF IInv, Chained
      <3>2. CASE a \in {s, d}
        BY <1>2, <1>4, <1>6, <1>7, <3>2, LinkToNewest DEF Involves
      <3>3. CASE a \notin {s, d}
        BY <1>2, <1>4, <1>6, <1>7, <3>1, <3>3, LinkOfBystander DEF Involves
      <3>4. QED
        BY <3>2, <3>3
    <2>2. ASSUME NEW i \in 1..n
          PROVE  /\ PointsToLast(log', log'[i].source_previous,
                                 log'[i].source, i - 1)
                 /\ PointsToLast(log', log'[i].destination_previous,
                                 log'[i].destination, i - 1)
      <3>1. /\ PointsToLast(log, log[i].source_previous,
                            log[i].source, i - 1)
            /\ PointsToLast(log, log[i].destination_previous,
                            log[i].destination, i - 1)
        BY DEF IInv, Chained
      <3>2. i - 1 \in 0..n
        BY <1>2
      <3>3. log'[i] = log[i]
        BY <1>5
      <3>4. QED
        BY <1>2, <1>4, <3>1, <3>2, <3>3, LinksSurviveAppend
    <2>3. /\ PointsToLast(log', tx.source_previous, tx.source, n)
          /\ PointsToLast(log', tx.destination_previous, tx.destination, n)
      <3>1. /\ PointsToLast(log, account_tree[s].previous, s, n)
            /\ PointsToLast(log, account_tree[d].previous, d, n)
        BY <1>1 DEF IInv, Chained
      <3>2. n \in 0..n
        BY <1>2
      <3>3. QED
        BY <1>2, <1>4, <1>7, <3>1, <3>2, LinksSurviveAppend
    <2>4. (n + 1) - 1 = n /\ \A i \in 1..(n + 1) : i \in 1..n \/ i = n + 1
      BY <1>2
    <2>5. QED
      BY <1>5, <1>6, <2>1, <2>2, <2>3, <2>4 DEF Chained
  <1>13. QED
    BY <1>9, <1>10, <1>11, <1>12 DEF IInv

-----------------------------------------------------------------------------
(***************************************************************************)
(* Every step of the ledger keeps the inductive invariant.                 *)
(***************************************************************************)
THEOREM IInvInvariant == Spec => []IInv
  <1>1. IInv /\ [Next]_vars => IInv'
    <2> SUFFICES ASSUME IInv, [Next]_vars PROVE IInv'
      OBVIOUS
    <2>1. ASSUME NEW a \in Address, CreateAccount(a) PROVE IInv'
      BY <2>1, CreateAccountIInv
    <2>2. ASSUME NEW a \in Address, CreateAccountAgain(a) PROVE IInv'
      BY <2>2, StatusOnly DEF CreateAccountAgain
    <2>3. ASSUME NEW s \in Address, NEW d \in Address, NEW amount \in Amount,
                 AddTransactionEntry(s, d, amount)
          PROVE  IInv'
      BY <2>3, AddTransactionEntryIInv
    <2>4. ASSUME NEW s \in Address, NEW amount \in Amount,
                 RejectTransaction(s, amount)
          PROVE  IInv'
      BY <2>4, StatusOnly DEF RejectTransaction, vars
    <2>5. ASSUME NEW s \in Address, NEW d \in Address, NEW amount \in Amount,
                 PayWithoutAccount(s, d, amount)
          PROVE  IInv'
      BY <2>5, StatusOnly DEF PayWithoutAccount
    <2>6. ASSUME NEW a \in Address, GetBalance(a) PROVE IInv'
      BY <2>6, StatusOnly DEF GetBalance
    <2>7. CASE UNCHANGED vars
      BY <2>7, StatusOnly DEF vars
    <2>8. QED
      BY <2>1, <2>2, <2>3, <2>4, <2>5, <2>6, <2>7 DEF Next
  <1>2. QED
    BY <1>1, InitIInv, PTL DEF Spec

(***************************************************************************)
(* The type invariant of the ledger.                                       *)
(***************************************************************************)
THEOREM TypeCorrect == Spec => []TypeOK
  BY IInvInvariant, PTL DEF IInv

(***************************************************************************)
(* No sequence of create_account and add_transaction_entry calls, whatever *)
(* their amounts, overdraws an account.                                    *)
(***************************************************************************)
THEOREM NeverOverdrawn == Spec => []NoOverdraft
  BY IInvInvariant, PTL DEF IInv

(***************************************************************************)
(* The back links of accounts and transactions always lead to the newest   *)
(* earlier transaction of the same account.                                *)
(***************************************************************************)
THEOREM AlwaysChained == Spec => []Chained
  BY IInvInvariant, PTL DEF IInv

(***************************************************************************)
(* add_given_item's assertion never fails for a transaction.               *)
(***************************************************************************)
THEOREM NeverDuplicate == Spec => []NoDuplicateTransaction
  BY IInvInvariant, PTL DEF IInv

(***************************************************************************)
(* Only a transaction changes a balance, and one of a non-negative amount  *)
(* between two accounts moves its amount and nothing else: no other        *)
(* operation of the ledger creates or destroys coins.                      *)
(***************************************************************************)
THEOREM CoinsOnlyMove == Spec => PaymentsMoveCoins
  <1>1. IInv /\ [Next]_vars => [MovesCoins]_vars
    <2> SUFFICES ASSUME IInv, Next PROVE MovesCoins
      OBVIOUS
    <2>1. Len(transaction_tree) \in Nat
      BY DEF IInv, TypeOK
    <2>2. CASE UNCHANGED <<account_tree, transaction_tree>>
      BY <2>1, <2>2 DEF MovesCoins, Balance
    <2>3. ASSUME NEW a \in Address, CreateAccount(a) PROVE MovesCoins
      BY <2>1, <2>3 DEF MovesCoins, Balance, CreateAccount, has_account
    <2>4. ASSUME NEW s \in Address, NEW d \in Address, NEW amount \in Amount,
                 AddTransactionEntry(s, d, amount)
          PROVE  MovesCoins
      <3> DEFINE tx == Transaction(s, d, amount)
      <3>1. /\ s \in DOMAIN account_tree /\ d \in DOMAIN account_tree
            /\ accepts(Balance(s), -amount)
        BY <2>4 DEF AddTransactionEntry, has_account
      <3>2. CASE /\ transaction_tree' = Append(transaction_tree, tx)
                 /\ account_tree' = Paid(s, d, amount, LinkTo(tx))
        <4>1. /\ Len(transaction_tree') = Len(transaction_tree) + 1
              /\ transaction_tree'[Len(transaction_tree) + 1] = tx
          BY <3>2, AppendFacts DEF IInv, TypeOK
        <4>2. tx.source = s /\ tx.destination = d /\ tx.amount = amount
          BY DEF Transaction
        <4>3. /\ \A a \in DOMAIN account_tree :
                   a \notin {s, d} => account_tree'[a] = account_tree[a]
              /\ s # d => account_tree'[s].balance = Balance(s) - amount
              /\ amount >= 0 =>
                   account_tree'[d].balance = Balance(d) + amount
          BY <3>1, <3>2, PaidFacts
        <4>4. QED
          BY <2>1, <4>1, <4>2, <4>3 DEF MovesCoins, Involves, Balance
      <3>3. QED
        BY <2>2, <2>4, <3>2 DEF AddTransactionEntry
    <2>5. QED
      BY <2>2, <2>3, <2>4
         DEF Next, CreateAccountAgain, RejectTransaction, PayWithoutAccount,
             GetBalance, vars
  <1>2. QED
    BY <1>1, IInvInvariant, PTL DEF Spec, PaymentsMoveCoins

-----------------------------------------------------------------------------
(***************************************************************************)
(* The reference: f[i] lists the transactions of a among the first i of    *)
(* log, the newest first.                                                  *)
(***************************************************************************)
Lists(f, log, a, n) ==
  f = [i \in 0..n |-> IF i = 0 THEN << >>
                      ELSE IF Involves(log[i], a) THEN <<log[i]>> \o f[i - 1]
                      ELSE f[i - 1]]

\* The recursion has a solution,
LEMMA ListsExists ==
  ASSUME NEW S, NEW log \in Seq(S), NEW a
  PROVE  \E f : Lists(f, log, a, Len(log)) /\ f \in [0..Len(log) -> Seq(S)]
<1> DEFINE n == Len(log)
           G == [p \in (1..n) \X Seq(S) |->
                   IF Involves(log[p[1]], a) THEN <<log[p[1]]>> \o p[2]
                   ELSE p[2]]
<1>1. n \in Nat /\ << >> \in Seq(S)
  OBVIOUS
<1>2. G \in [(1..n) \X Seq(S) -> Seq(S)]
  <2>1. ASSUME NEW p \in (1..n) \X Seq(S)
        PROVE  (IF Involves(log[p[1]], a) THEN <<log[p[1]]>> \o p[2]
                ELSE p[2]) \in Seq(S)
    <3>1. log[p[1]] \in S /\ p[2] \in Seq(S)
      OBVIOUS
    <3>2. <<log[p[1]]>> \in Seq(S)
      BY <3>1
    <3> QED
      BY <3>1, <3>2, ConcatProperties
  <2> QED
    BY <2>1
<1>3. \A i \in 1..n : \A x \in Seq(S) :
        G[<<i, x>>] = IF Involves(log[i], a) THEN <<log[i]>> \o x ELSE x
  OBVIOUS
<1> HIDE DEF G, n
<1>4. PICK f : Recurs(f, << >>, G, Seq(S), n)
  BY <1>1, <1>2, Recursion
<1> DEFINE h == [i \in 0..n |-> IF i = 0 THEN << >>
                      ELSE IF Involves(log[i], a) THEN <<log[i]>> \o f[i - 1]
                      ELSE f[i - 1]]
<1>5. ASSUME NEW i \in 0..n
      PROVE  f[i] = h[i]
  <2>1. CASE i = 0
    BY <1>4, <2>1 DEF Recurs
  <2>2. CASE i # 0
    <3>1. i \in 1..n /\ i - 1 \in 0..n
      BY <1>1, <2>2
    <3>2. f[i - 1] \in Seq(S) /\ f[i] = G[<<i, f[i - 1]>>]
      BY <1>4, <3>1 DEF Recurs
    <3>3. f[i] = IF Involves(log[i], a) THEN <<log[i]>> \o f[i - 1]
                 ELSE f[i - 1]
      BY <1>3, <3>1, <3>2
    <3> QED
      BY <2>2, <3>3
  <2> QED
    BY <2>1, <2>2
<1>6. f \in [0..n -> Seq(S)]
  BY <1>4 DEF Recurs
<1>7. f = h
  BY <1>5, <1>6
<1> QED
  BY <1>6, <1>7 DEF Lists, n

\* and only one, whose first n values depend on the first n transactions.
LEMMA ListsUnique ==
  ASSUME NEW log, NEW other, NEW a, NEW n \in Nat, NEW m \in Nat, n <= m,
         NEW f, NEW g, Lists(f, log, a, n), Lists(g, other, a, m),
         \A i \in 1..n : log[i] = other[i]
  PROVE  \A i \in 0..n : f[i] = g[i]
<1> DEFINE S == {k \in Nat : k <= n => f[k] = g[k]}
<1>1. 0 \in S
  BY DEF Lists
<1>2. \A k \in Nat : k \in S => k + 1 \in S
  <2> SUFFICES ASSUME NEW k \in Nat, k \in S, k + 1 <= n
               PROVE  f[k + 1] = g[k + 1]
    OBVIOUS
  <2>1. f[k] = g[k]
    OBVIOUS
  <2>2. k + 1 \in 1..n /\ k + 1 # 0 /\ (k + 1) - 1 = k
        /\ k + 1 \in 0..n /\ k + 1 \in 0..m
    OBVIOUS
  <2>3. f[k + 1] = IF Involves(log[k + 1], a) THEN <<log[k + 1]>> \o f[k]
                   ELSE f[k]
    BY <2>2 DEF Lists
  <2>4. g[k + 1] = IF Involves(other[k + 1], a)
                   THEN <<other[k + 1]>> \o g[k] ELSE g[k]
    BY <2>2 DEF Lists
  <2> QED
    BY <2>1, <2>2, <2>3, <2>4
<1>3. Nat \subseteq S
  <2> HIDE DEF S
  <2> QED
    BY <1>1, <1>2, SetInduction
<1> QED
  BY <1>3

\* NewestFirst is the last of the lists.
LEMMA NewestFirstIs ==
  ASSUME NEW S, NEW log \in Seq(S), NEW a
  PROVE  \E f : /\ Lists(f, log, a, Len(log))
                /\ f \in [0..Len(log) -> Seq(S)]
                /\ NewestFirst(log, a) = f[Len(log)]
<1> DEFINE n == Len(log)
           g == CHOOSE f :
                  f = [i \in 0..n |->
                         IF i = 0 THEN << >>
                         ELSE IF Involves(log[i], a)
                         THEN <<log[i]>> \o f[i - 1]
                         ELSE f[i - 1]]
<1>1. PICK f : Lists(f, log, a, n) /\ f \in [0..n -> Seq(S)]
  BY ListsExists
<1>2. Lists(g, log, a, n)
  BY <1>1, Zenon DEF Lists
<1>3. NewestFirst(log, a) = g[n]
  BY Zenon DEF NewestFirst
<1> HIDE DEF g
<1>4. n \in Nat /\ n <= n
  OBVIOUS
<1>5. \A i \in 0..n : f[i] = g[i]
  BY <1>1, <1>2, <1>4, ListsUnique
<1>6. f[n] = g[n]
  BY <1>4, <1>5
<1> QED
  BY <1>1, <1>3, <1>6

\* Without transactions of a between i and n, the lists there are the same.
LEMMA ListsSkip ==
  ASSUME NEW log, NEW a, NEW m \in Nat, NEW f, Lists(f, log, a, m)
  PROVE  \A n \in 0..m : \A i \in 0..n :
           (\A j \in (i + 1)..n : ~ Involves(log[j], a)) => f[n] = f[i]
<1> SUFFICES ASSUME NEW n \in 0..m, NEW i \in 0..n,
                    \A j \in (i + 1)..n : ~ Involves(log[j], a)
             PROVE  f[n] = f[i]
  BY Zenon
<1> DEFINE S == {k \in Nat : i + k <= n => f[i + k] = f[i]}
<1>1. 0 \in S
  OBVIOUS
<1>2. \A k \in Nat : k \in S => k + 1 \in S
  <2> SUFFICES ASSUME NEW k \in Nat, k \in S, i + (k + 1) <= n
               PROVE  f[i + (k + 1)] = f[i]
    OBVIOUS
  <2> DEFINE j == i + (k + 1)
  <2>1. f[i + k] = f[i]
    OBVIOUS
  <2>2. j \in (i + 1)..n /\ j \in 0..m /\ j # 0 /\ j - 1 = i + k
    OBVIOUS
  <2> HIDE DEF j
  <2>3. f[j] = IF Involves(log[j], a) THEN <<log[j]>> \o f[j - 1]
               ELSE f[j - 1]
    BY <2>2 DEF Lists
  <2>4. f[j] = f[i]
    BY <2>1, <2>2, <2>3
  <2> QED
    BY <2>4 DEF j
<1>3. Nat \subseteq S
  <2> HIDE DEF S
  <2> QED
    BY <1>1, <1>2, SetInduction
<1>4. n - i \in S /\ i + (n - i) = n
  BY <1>3
<1> QED
  BY <1>4

-----------------------------------------------------------------------------
(***************************************************************************)
(* The loop: f[i] is where it stands after i turns.                        *)
(***************************************************************************)
Walks(f, a, n) ==
  f = [i \in 0..n |-> IF i = 0 THEN Start(a) ELSE Turn(f[i - 1], a)]

\* The loop can take one turn more,
LEMMA WalksFurther ==
  ASSUME NEW a, NEW n \in Nat, NEW f, Walks(f, a, n)
  PROVE  \E g : Walks(g, a, n + 1)
<1> DEFINE last == Turn(f[n], a)
           g == [i \in 0..(n + 1) |-> IF i <= n THEN f[i] ELSE last]
           h == [i \in 0..(n + 1) |->
                   IF i = 0 THEN Start(a) ELSE Turn(g[i - 1], a)]
<1>1. ASSUME NEW i \in 0..(n + 1)
      PROVE  /\ g[i] = IF i <= n THEN f[i] ELSE last
             /\ h[i] = IF i = 0 THEN Start(a) ELSE Turn(g[i - 1], a)
  <2> HIDE DEF last
  <2> QED
    OBVIOUS
<1>2. \A i \in 0..n : f[i] = IF i = 0 THEN Start(a) ELSE Turn(f[i - 1], a)
  BY DEF Walks
<1>3. ASSUME NEW i \in 0..(n + 1)
      PROVE  g[i] = h[i]
  <2> HIDE DEF g, h
  <2>1. CASE i = n + 1
    <3>1. ~ (i <= n) /\ i # 0 /\ i - 1 = n /\ n <= n /\ n \in 0..(n + 1)
      BY <2>1
    <3>2. g[i] = last /\ g[n] = f[n]
      BY <1>1, <3>1
    <3>3. h[i] = Turn(g[n], a)
      BY <1>1, <3>1
    <3> QED
      BY <3>2, <3>3
  <2>2. CASE i \in 0..n /\ i # 0
    <3>1. i <= n /\ i - 1 <= n /\ i - 1 \in 0..(n + 1)
      BY <2>2
    <3>2. g[i] = f[i] /\ g[i - 1] = f[i - 1]
      BY <1>1, <3>1
    <3>3. f[i] = Turn(f[i - 1], a) /\ h[i] = Turn(g[i - 1], a)
      BY <1>1, <1>2, <2>2
    <3> QED
      BY <3>2, <3>3
  <2>3. CASE i = 0
    BY <1>1, <1>2, <2>3
  <2> QED
    BY <2>1, <2>2, <2>3
<1>4. g = h
  BY <1>3
<1> QED
  BY <1>4, Zenon DEF Walks

\* so it can take any number of them.
LEMMA WalksExists ==
  ASSUME NEW a, NEW n \in Nat
  PROVE  \E f : Walks(f, a, n)
<1> DEFINE S == {k \in Nat : \E f : Walks(f, a, k)}
<1>1. 0 \in S
  <2> DEFINE f == [i \in 0..0 |-> Start(a)]
  <2>1. f = [i \in 0..0 |-> IF i = 0 THEN Start(a) ELSE Turn(f[i - 1], a)]
    OBVIOUS
  <2>2. Walks(f, a, 0)
    BY <2>1 DEF Walks
  <2> QED
    BY <2>2
<1>2. \A k \in Nat : k \in S => k + 1 \in S
  BY WalksFurther
<1> HIDE DEF S
<1>3. Nat \subseteq S
  BY <1>1, <1>2, SetInduction
<1> QED
  BY <1>3 DEF S

\* Walk is where it stands in the end.
LEMMA WalkIs ==
  ASSUME NEW a, Len(transaction_tree) \in Nat
  PROVE  \E f : /\ Walks(f, a, Len(transaction_tree) + 1)
                /\ Walk(a) = f[Len(transaction_tree) + 1]
<1> DEFINE n == Len(transaction_tree) + 1
           f == CHOOSE g : g = [i \in 0..n |-> IF i = 0 THEN Start(a)
                                               ELSE Turn(g[i - 1], a)]
<1>1. \E g : g = [i \in 0..n |-> IF i = 0 THEN Start(a)
                                  ELSE Turn(g[i - 1], a)]
  <2>1. n \in Nat
    OBVIOUS
  <2> HIDE DEF n
  <2> QED
    BY <2>1, WalksExists, Zenon DEF Walks
<1>2. Walks(f, a, n)
  BY <1>1, Zenon DEF Walks
<1>3. Walk(a) = f[n]
  BY Zenon DEF Walk
<1> HIDE DEF f
<1> QED
  BY <1>2, <1>3

(***************************************************************************)
(* One turn.  The loop stands between transactions: what its link leads to *)
(* is the last transaction of a up to place p, if there is one.            *)
(***************************************************************************)
Standing(link, found) == [link |-> link, found |-> found, lost |-> FALSE]

\* At the origin the loop stays as it is.
LEMMA TurnAtOrigin ==
  ASSUME NEW a, NEW found
  PROVE  Turn(Standing(Origin, found), a) = Standing(Origin, found)
  BY DEF Turn, Standing, Origin

\* Elsewhere it finds the transaction that the link was made for: hashes are
\* unique, and no transaction is stored twice.
LEMMA TurnAtTransaction ==
  ASSUME IInv, NEW a, NEW found, NEW i \in 1..Len(transaction_tree)
  PROVE  LET tx == transaction_tree[i]
         IN  Turn(Standing(LinkTo(tx), found), a)
               = Standing(PreviousOf(tx, a), Append(found, tx))
<1> DEFINE tx == transaction_tree[i]
           w == Standing(LinkTo(tx), found)
           hits == get_transaction_entry(w.link.hash)
<1>0. DOMAIN transaction_tree = 1..Len(transaction_tree)
  BY DEF IInv, TypeOK
<1>1. w.link.hash = <<tx>> /\ w.link.seq # 0 /\ w.lost = FALSE
      /\ w.found = found
  BY DEF Standing, LinkTo, ledger_sequence, get_sha512_half
<1>2. hits = {i}
  <2>1. \A j \in 1..Len(transaction_tree) :
          <<transaction_tree[j]>> = <<tx>> => j = i
    BY DEF IInv, Distinct
  <2> QED
    BY <1>0, <1>1, <2>1 DEF get_transaction_entry, get_sha512_half
<1>3. (CHOOSE j \in hits : TRUE) = i
  BY <1>2
<1>4. Turn(w, a) = [w EXCEPT !.found = Append(@, tx),
                             !.link = PreviousOf(tx, a)]
  <2> HIDE DEF hits, w
  <2> QED
    BY <1>1, <1>2, <1>3 DEF Turn, hits
<1> QED
  BY <1>4 DEF Standing


\* The links of a transaction, for whichever of its parties walks them.
LEMMA PreviousLink ==
  ASSUME IInv, NEW a, NEW i \in 1..Len(transaction_tree),
         Involves(transaction_tree[i], a)
  PROVE  PointsToLast(transaction_tree, PreviousOf(transaction_tree[i], a),
                      a, i - 1)
<1> DEFINE tx == transaction_tree[i]
<1>1. /\ PointsToLast(transaction_tree, tx.source_previous, tx.source, i - 1)
      /\ PointsToLast(transaction_tree, tx.destination_previous,
                      tx.destination, i - 1)
  BY DEF IInv, Chained
<1>2. a = tx.source \/ a = tx.destination
  BY DEF Involves
<1> QED
  BY <1>1, <1>2, Zenon DEF PreviousOf

(***************************************************************************)
(* After k turns the loop has found what lies behind place p, and each     *)
(* turn moves p down: p + k does not grow beyond the number of             *)
(* transactions until p is 0.                                              *)
(***************************************************************************)
LEMMA HistoryOf ==
  ASSUME IInv, NEW a \in DOMAIN account_tree
  PROVE  /\ Terminates(a)
         /\ get_transaction_history(a) = NewestFirst(transaction_tree, a)
<1> DEFINE log == transaction_tree
           N == Len(log)
<1>0. log \in Seq(Entries) /\ N \in Nat
  BY DEF IInv, TypeOK
<1>1. PICK f : /\ Lists(f, log, a, N) /\ f \in [0..N -> Seq(Entries)]
               /\ NewestFirst(log, a) = f[N]
  BY <1>0, NewestFirstIs
<1>2. PICK w : Walks(w, a, N + 1) /\ Walk(a) = w[N + 1]
  BY <1>0, WalkIs
<1>skip. \A n \in 0..N : \A i \in 0..n :
         (\A j \in (i + 1)..n : ~ Involves(log[j], a)) => f[n] = f[i]
  <2> SUFFICES ASSUME NEW n \in 0..N, NEW i \in 0..n,
                      \A j \in (i + 1)..n : ~ Involves(log[j], a)
               PROVE  f[n] = f[i]
    BY Zenon
  <2>1. N \in Nat /\ Lists(f, log, a, N)
    BY <1>0, <1>1
  <2> HIDE DEF N, log
  <2> QED
    BY <2>1, ListsSkip
<1> DEFINE At(k, p, link, found) ==
             /\ w[k] = Standing(link, found)
             /\ PointsToLast(log, link, a, p)
             /\ found \o f[p] = f[N]
             /\ p = 0 \/ p + k <= N
           S == {k \in Nat : k <= N + 1 =>
                   \E p \in 0..N, found \in Seq(Entries) :
                     \E link : At(k, p, link, found)}
<1>3. 0 \in S
  <2>1. w[0] = Standing(account_tree[a].previous, << >>)
    BY <1>0, <1>2 DEF Walks, Start, Standing
  <2>2. PointsToLast(log, account_tree[a].previous, a, N)
    BY DEF IInv, Chained
  <2>3. << >> \o f[N] = f[N]
    <3>1. f[N] \in Seq(Entries)
      BY <1>0, <1>1
    <3> QED
      BY <3>1, ConcatEmptySeq
  <2>4. At(0, N, account_tree[a].previous, << >>)
    BY <1>0, <2>1, <2>2, <2>3
  <2>5. << >> \in Seq(Entries) /\ N \in 0..N
    BY <1>0
  <2> HIDE DEF At
  <2> QED
    BY <2>4, <2>5
<1>4. \A k \in Nat : k \in S => k + 1 \in S
  <2> SUFFICES ASSUME NEW k \in Nat, k + 1 <= N + 1,
                      NEW p \in 0..N, NEW found \in Seq(Entries),
                      NEW link, At(k, p, link, found)
               PROVE  \E q \in 0..N, more \in Seq(Entries) :
                        \E next : At(k + 1, q, next, more)
    <3> HIDE DEF At
    <3> QED
      BY <1>0
  <2>1. w[k + 1] = Turn(Standing(link, found), a)
    <3>1. k + 1 \in 0..(N + 1) /\ k + 1 # 0 /\ (k + 1) - 1 = k
      BY <1>0
    <3>2. w[k + 1] = Turn(w[k], a)
      BY <1>2, <3>1 DEF Walks
    <3> QED
      BY <3>2
  <2>2. CASE /\ link = Origin
             /\ \A i \in 1..p : ~ Involves(log[i], a)
    <3>1. w[k + 1] = Standing(Origin, found)
      BY <2>1, <2>2, TurnAtOrigin
    <3>2. f[p] = f[0]
      <4>1. 0 \in 0..p /\ \A j \in (0 + 1)..p : ~ Involves(log[j], a)
        BY <1>0, <2>2
      <4> HIDE DEF log, N, At
      <4> QED
        BY <1>skip, <4>1, Zenon
    <3>3. PointsToLast(log, Origin, a, 0)
      BY DEF PointsToLast
    <3>4. At(k + 1, 0, Origin, found)
      BY <3>1, <3>2, <3>3
    <3>5. 0 \in 0..N
      BY <1>0
    <3> HIDE DEF At
    <3> QED
      BY <3>4, <3>5
  <2>3. ASSUME NEW i \in 1..p, Involves(log[i], a), link = LinkTo(log[i]),
               \A j \in (i + 1)..p : ~ Involves(log[j], a)
        PROVE  \E q \in 0..N, more \in Seq(Entries) :
                 \E next : At(k + 1, q, next, more)
    <3> DEFINE tx == log[i]
    <3>1. i \in 1..N /\ i - 1 \in 0..N /\ i \in 0..N /\ p \in Nat /\ i # 0
          /\ i \in 0..p /\ p # 0
      BY <1>0
    <3>2. tx \in Entries
      BY <1>0, <3>1
    <3>3. w[k + 1] = Standing(PreviousOf(tx, a), Append(found, tx))
      BY <2>1, <2>3, <3>1, TurnAtTransaction
    <3>4. PointsToLast(log, PreviousOf(tx, a), a, i - 1)
      BY <2>3, <3>1, PreviousLink
    <3>5. f[p] = f[i]
      <4>1. i \in 0..p /\ \A j \in (i + 1)..p : ~ Involves(log[j], a)
        BY <2>3, <3>1
      <4> HIDE DEF log, N, At
      <4> QED
        BY <1>skip, <4>1, Zenon
    <3>6. f[i] = <<tx>> \o f[i - 1] /\ f[i - 1] \in Seq(Entries)
      BY <1>1, <2>3, <3>1 DEF Lists
    <3>7. Append(found, tx) \o f[i - 1] = f[N]
      <4>1. Append(found, tx) = found \o <<tx>>
        BY <3>2, AppendIsConcat
      <4>2. <<tx>> \in Seq(Entries)
        BY <3>2
      <4> DEFINE one == <<tx>>
                 rest == f[i - 1]
      <4>3. one \in Seq(Entries) /\ rest \in Seq(Entries)
        BY <3>6, <4>2
      <4>4. (found \o one) \o rest = found \o (one \o rest)
        <5> HIDE DEF one, rest, log, N, At
        <5> QED
          BY <4>3, ConcatAssociative, SMTT(30)
      <4>5. found \o f[p] = f[N]
        OBVIOUS
      <4> QED
        BY <3>5, <3>6, <4>1, <4>4, <4>5
    <3>8. i - 1 = 0 \/ (i - 1) + (k + 1) <= N
      BY <1>0, <3>1
    <3>9. At(k + 1, i - 1, PreviousOf(tx, a), Append(found, tx))
      BY <3>3, <3>4, <3>7, <3>8
    <3>10. Append(found, tx) \in Seq(Entries)
      BY <3>2, AppendProperties
    <3> HIDE DEF At, tx
    <3> QED
      BY <3>1, <3>9, <3>10
  <2> QED
    BY <2>2, <2>3 DEF PointsToLast
<1>5. Nat \subseteq S
  <2> HIDE DEF S
  <2> QED
    BY <1>3, <1>4, SetInduction
<1>6. N + 1 \in S
  <2> HIDE DEF S
  <2> QED
    BY <1>0, <1>5
<1>7. PICK p \in 0..N, found \in Seq(Entries) :
        \E link : At(N + 1, p, link, found)
  <2> HIDE DEF At
  <2> QED
    BY <1>0, <1>6
<1>8. PICK link : At(N + 1, p, link, found)
  BY <1>7
<1>9. p = 0
  BY <1>0, <1>8
<1>10. link = Origin
  BY <1>8, <1>9 DEF PointsToLast
<1>11. f[0] = << >>
  BY <1>0, <1>1 DEF Lists
<1>12. found = f[N]
  <2>1. found \o << >> = found
    BY ConcatEmptySeq
  <2> QED
    BY <1>8, <1>9, <1>11, <2>1
<1> QED
  BY <1>1, <1>2, <1>8, <1>10, <1>12
  DEF Terminates, get_transaction_history, Standing, Origin

(***************************************************************************)
(* For every account of every ledger the walk of get_transaction_history   *)
(* (interface.cpp:40) ends, meets no missing transaction, and returns the  *)
(* account's transactions, all of them and the newest first.               *)
(***************************************************************************)
THEOREM HistoriesAreComplete == Spec => []HistoryIsComplete
<1>1. IInv => HistoryIsComplete
  BY HistoryOf DEF HistoryIsComplete
<1> QED
  BY <1>1, IInvInvariant, PTL

-----------------------------------------------------------------------------
(***************************************************************************)
(* What becomes of a list when a transaction is added, and of the audit    *)
(* when an entry is.                                                       *)
(***************************************************************************)
\* A new transaction is put in front of the lists of its parties.
LEMMA NewestOfLonger ==
  ASSUME NEW S, NEW log \in Seq(S), NEW tx \in S, NEW a
  PROVE  NewestFirst(Append(log, tx), a)
           = IF Involves(tx, a) THEN <<tx>> \o NewestFirst(log, a)
             ELSE NewestFirst(log, a)
<1> DEFINE n == Len(log)
           longer == Append(log, tx)
<1>1. /\ n \in Nat /\ longer \in Seq(S) /\ Len(longer) = n + 1
      /\ \A i \in 1..n : log[i] = longer[i]
      /\ longer[n + 1] = tx
  BY AppendProperties
<1> HIDE DEF longer
<1>2. PICK f : Lists(f, log, a, n) /\ NewestFirst(log, a) = f[n]
  BY NewestFirstIs
<1>3. PICK g : Lists(g, longer, a, n + 1) /\ NewestFirst(longer, a) = g[n + 1]
  BY <1>1, NewestFirstIs
<1>4. f[n] = g[n]
  <2> DEFINE m == n + 1
  <2>1. n \in Nat /\ m \in Nat /\ n <= m /\ Lists(g, longer, a, m)
        /\ n \in 0..n
    BY <1>1, <1>3
  <2> HIDE DEF n, m
  <2>2. \A i \in 0..n : f[i] = g[i]
    BY <1>1, <1>2, <2>1, ListsUnique
  <2> QED
    BY <2>1, <2>2
<1>5. g[n + 1] = IF Involves(longer[n + 1], a)
                 THEN <<longer[n + 1]>> \o g[n] ELSE g[n]
  <2>1. n + 1 \in 0..(n + 1) /\ n + 1 # 0 /\ (n + 1) - 1 = n
    BY <1>1
  <2> HIDE DEF n
  <2> QED
    BY <1>3, <2>1 DEF Lists
<1> QED
  BY <1>1, <1>2, <1>3, <1>4, <1>5 DEF longer

\* An account without transactions has an empty list.
LEMMA NewestOfStranger ==
  ASSUME NEW S, NEW log \in Seq(S), NEW a,
         \A i \in 1..Len(log) : ~ Involves(log[i], a)
  PROVE  NewestFirst(log, a) = << >>
<1> DEFINE n == Len(log)
<1>1. n \in Nat
  OBVIOUS
<1>2. PICK f : Lists(f, log, a, n) /\ NewestFirst(log, a) = f[n]
  BY NewestFirstIs
<1>3. f[n] = f[0]
  <2>1. n \in 0..n /\ 0 \in 0..n
        /\ \A j \in (0 + 1)..n : ~ Involves(log[j], a)
    OBVIOUS
  <2> HIDE DEF n
  <2>2. \A k \in 0..n : \A i \in 0..k :
          (\A j \in (i + 1)..k : ~ Involves(log[j], a)) => f[k] = f[i]
    BY <1>1, <1>2, ListsSkip
  <2> QED
    BY <2>1, <2>2, Zenon
<1>4. f[0] = << >>
  BY <1>1, <1>2 DEF Lists
<1> QED
  BY <1>2, <1>3, <1>4

\* A list is a sequence of transactions.
LEMMA NewestType ==
  ASSUME NEW S, NEW log \in Seq(S), NEW a
  PROVE  NewestFirst(log, a) \in Seq(S)
<1>1. PICK f : /\ f \in [0..Len(log) -> Seq(S)]
               /\ NewestFirst(log, a) = f[Len(log)]
  BY NewestFirstIs
<1> QED
  BY <1>1

\* f[i] is what the i oldest entries of history say a holds.
Sums(f, history, a, n) ==
  f = [i \in 0..n |->
         IF i = 0 THEN InitialBalance
         ELSE f[i - 1] + Change(history[Len(history) + 1 - i], a)]

\* That recursion has a solution as well,
LEMMA SumsExists ==
  ASSUME NEW S, \A tx \in S : tx.amount \in Int,
         NEW history \in Seq(S), NEW a
  PROVE  \E f : Sums(f, history, a, Len(history))
                /\ f \in [0..Len(history) -> Int]
<1> DEFINE n == Len(history)
           change(i) == Change(history[n + 1 - i], a)
           G == [p \in (1..n) \X Int |-> p[2] + change(p[1])]
<1>1. n \in Nat /\ InitialBalance \in Int
  BY LedgerAssumption
<1>2. ASSUME NEW i \in 1..n
      PROVE  change(i) \in Int
  <2>1. history[n + 1 - i] \in S
    OBVIOUS
  <2>2. history[n + 1 - i].amount \in Int
    BY <2>1
  <2> QED
    BY <2>2 DEF Change
<1> HIDE DEF change
<1>3. G \in [(1..n) \X Int -> Int]
  <2>1. ASSUME NEW p \in (1..n) \X Int
        PROVE  p[2] + change(p[1]) \in Int
    BY <1>2
  <2> QED
    BY <2>1
<1>4. \A i \in 1..n : \A x \in Int : G[<<i, x>>] = x + change(i)
  OBVIOUS
<1> HIDE DEF G, n
<1>5. PICK f : Recurs(f, InitialBalance, G, Int, n)
  BY <1>1, <1>3, Recursion
<1> DEFINE h == [i \in 0..n |-> IF i = 0 THEN InitialBalance
                                ELSE f[i - 1] + change(i)]
<1>6. ASSUME NEW i \in 0..n
      PROVE  f[i] = h[i]
  <2>1. CASE i = 0
    BY <1>5, <2>1 DEF Recurs
  <2>2. CASE i # 0
    <3>1. i \in 1..n /\ i - 1 \in 0..n
      BY <1>1, <2>2
    <3>2. f[i - 1] \in Int /\ f[i] = G[<<i, f[i - 1]>>]
      BY <1>5, <3>1 DEF Recurs
    <3>3. f[i] = f[i - 1] + change(i)
      BY <1>4, <3>1, <3>2
    <3> QED
      BY <2>2, <3>3
  <2> QED
    BY <2>1, <2>2
<1>7. f \in [0..n -> Int]
  BY <1>5 DEF Recurs
<1>8. f = h
  BY <1>6, <1>7
<1> QED
  BY <1>7, <1>8 DEF Sums, n, change

\* and Audit is its last value.
LEMMA AuditIs ==
  ASSUME NEW S, \A tx \in S : tx.amount \in Int,
         NEW history \in Seq(S), NEW a
  PROVE  \E f : /\ Sums(f, history, a, Len(history))
                /\ Audit(history, a) = f[Len(history)]
<1> DEFINE n == Len(history)
           g == CHOOSE f :
                  f = [i \in 0..n |->
                         IF i = 0 THEN InitialBalance
                         ELSE f[i - 1] + Change(history[n + 1 - i], a)]
<1>1. PICK f : Sums(f, history, a, n)
  BY SumsExists
<1>2. Sums(g, history, a, n)
  BY <1>1, Zenon DEF Sums
<1>3. Audit(history, a) = g[n]
  BY Zenon DEF Audit
<1> HIDE DEF g
<1> QED
  BY <1>2, <1>3

\* A sequence with one more entry in front.
LEMMA InFront ==
  ASSUME NEW S, NEW s \in Seq(S), NEW e \in S
  PROVE  /\ <<e>> \o s \in Seq(S) /\ Len(<<e>> \o s) = Len(s) + 1
         /\ (<<e>> \o s)[1] = e
         /\ \A i \in 1..Len(s) : (<<e>> \o s)[i + 1] = s[i]
<1> DEFINE one == <<e>>
           n == Len(s)
<1>1. one \in Seq(S) /\ Len(one) = 1 /\ one[1] = e /\ n \in Nat
  OBVIOUS
<1> HIDE DEF one
<1>2. /\ one \o s \in Seq(S) /\ Len(one \o s) = 1 + n
      /\ \A i \in 1..(1 + n) : (one \o s)[i] =
           IF i <= 1 THEN one[i] ELSE s[i - 1]
  <2>1. /\ one \o s \in Seq(S) /\ Len(one \o s) = Len(one) + Len(s)
        /\ \A i \in 1..(Len(one) + Len(s)) : (one \o s)[i] =
             IF i <= Len(one) THEN one[i] ELSE s[i - Len(one)]
    BY <1>1, ConcatProperties
  <2> HIDE DEF n
  <2> QED
    BY <1>1, <2>1 DEF n
<1>3. 1 \in 1..(1 + n) /\ 1 <= 1
  BY <1>1
<1>4. (one \o s)[1] = e
  BY <1>1, <1>2, <1>3
<1>5. ASSUME NEW i \in 1..n
      PROVE  (one \o s)[i + 1] = s[i]
  <2>1. i + 1 \in 1..(1 + n) /\ ~ (i + 1 <= 1) /\ (i + 1) - 1 = i
    BY <1>1
  <2> QED
    BY <1>2, <2>1
<1> QED
  BY <1>1, <1>2, <1>4, <1>5 DEF one

\* Without entries there is what create_account put there.
LEMMA AuditNothing ==
  ASSUME NEW a
  PROVE  Audit(<< >>, a) = InitialBalance
<1>1. << >> \in Seq({}) /\ \A tx \in {} : tx.amount \in Int
  OBVIOUS
<1>2. PICK f : Sums(f, << >>, a, Len(<< >>)) /\ Audit(<< >>, a) = f[Len(<< >>)]
  BY <1>1, AuditIs
<1>3. Len(<< >>) = 0
  OBVIOUS
<1>4. f[0] = InitialBalance
  BY <1>2, <1>3 DEF Sums
<1> QED
  BY <1>2, <1>3, <1>4

\* A new entry, in front, adds its change.
LEMMA AuditOneMore ==
  ASSUME NEW S, \A x \in S : x.amount \in Int,
         NEW history \in Seq(S), NEW tx \in S, NEW a
  PROVE  Audit(<<tx>> \o history, a) = Audit(history, a) + Change(tx, a)
<1> DEFINE n == Len(history)
           longer == <<tx>> \o history
<1>1. n \in Nat
  OBVIOUS
<1>2. /\ longer \in Seq(S) /\ Len(longer) = n + 1
      /\ longer[1] = tx
      /\ \A i \in 1..n : longer[i + 1] = history[i]
  BY InFront
<1> HIDE DEF longer
<1>3. PICK f : Sums(f, history, a, n) /\ Audit(history, a) = f[n]
  BY AuditIs
<1>4. PICK g : Sums(g, longer, a, n + 1) /\ Audit(longer, a) = g[n + 1]
  BY <1>2, AuditIs
<1> HIDE DEF n
<1>5. \A i \in 0..n : f[i] = IF i = 0 THEN InitialBalance
                             ELSE f[i - 1] + Change(history[n + 1 - i], a)
  BY <1>3 DEF Sums, n
<1>6. \A i \in 0..(n + 1) :
        g[i] = IF i = 0 THEN InitialBalance
               ELSE g[i - 1] + Change(longer[(n + 1) + 1 - i], a)
  BY <1>2, <1>4 DEF Sums
<1> DEFINE T == {k \in Nat : k <= n => f[k] = g[k]}
<1>7. 0 \in T
  BY <1>1, <1>5, <1>6
<1>8. \A k \in Nat : k \in T => k + 1 \in T
  <2> SUFFICES ASSUME NEW k \in Nat, k \in T, k + 1 <= n
               PROVE  f[k + 1] = g[k + 1]
    OBVIOUS
  <2>1. f[k] = g[k]
    BY <1>1
  <2>2. k + 1 \in 0..n /\ k + 1 \in 0..(n + 1) /\ k + 1 # 0
        /\ (k + 1) - 1 = k
    BY <1>1
  <2>3. n + 1 - (k + 1) \in 1..n
        /\ (n + 1) + 1 - (k + 1) = (n + 1 - (k + 1)) + 1
    BY <1>1
  <2>4. longer[(n + 1) + 1 - (k + 1)] = history[n + 1 - (k + 1)]
    BY <1>2, <2>3
  <2>5. f[k + 1] = f[k] + Change(history[n + 1 - (k + 1)], a)
    BY <1>5, <2>2
  <2>6. g[k + 1] = g[k] + Change(longer[(n + 1) + 1 - (k + 1)], a)
    BY <1>6, <2>2
  <2> QED
    BY <2>1, <2>4, <2>5, <2>6
<1>9. Nat \subseteq T
  <2> HIDE DEF T
  <2> QED
    BY <1>7, <1>8, SetInduction
<1>10. f[n] = g[n]
  BY <1>1, <1>9
<1>11. g[n + 1] = g[n] + Change(longer[1], a)
  <2>1. n + 1 \in 0..(n + 1) /\ n + 1 # 0 /\ (n + 1) - 1 = n
        /\ (n + 1) + 1 - (n + 1) = 1
    BY <1>1
  <2>2. g[n + 1] = g[(n + 1) - 1] + Change(longer[(n + 1) + 1 - (n + 1)], a)
    BY <1>6, <2>1
  <2> QED
    BY <2>1, <2>2
<1> QED
  BY <1>2, <1>3, <1>4, <1>10, <1>11 DEF longer

-----------------------------------------------------------------------------
(***************************************************************************)
(* The audit, with the transactions of each account in place of what the   *)
(* walk finds, is inductive relative to the ledger's invariant.            *)
(***************************************************************************)
Audited ==
  \A a \in DOMAIN account_tree :
    LET history == NewestFirst(transaction_tree, a)
    IN  Plain(history) => Balance(a) = Audit(history, a)

\* There are no accounts at first.
LEMMA AuditedInit == Init => Audited
  BY DEF Init, Audited

\* A new account has no past.
LEMMA AuditedCreate ==
  ASSUME IInv, Audited, NEW a \in Address, CreateAccount(a)
  PROVE  Audited'
<1> SUFFICES ASSUME NEW x \in DOMAIN account_tree',
                    Plain(NewestFirst(transaction_tree', x))
             PROVE  Balance(x)' = Audit(NewestFirst(transaction_tree', x), x)
  BY DEF Audited, Balance
<1>1. /\ transaction_tree' = transaction_tree
      /\ x \in DOMAIN account_tree \cup {a}
      /\ a \notin DOMAIN account_tree
  BY DEF CreateAccount, has_account
<1>2. CASE x # a
  <2>1. x \in DOMAIN account_tree /\ account_tree'[x] = account_tree[x]
    BY <1>1, <1>2 DEF CreateAccount
  <2> QED
    BY <1>1, <2>1 DEF Audited, Balance
<1>3. CASE x = a
  <2>1. transaction_tree \in Seq(Entries)
    BY DEF IInv, TypeOK
  <2>2. \A i \in 1..Len(transaction_tree) :
          ~ Involves(transaction_tree[i], x)
    BY <1>1, <1>3, <2>1 DEF IInv, PartiesExist, Entries, Involves
  <2>3. NewestFirst(transaction_tree, x) = << >>
    BY <2>1, <2>2, NewestOfStranger
  <2>4. account_tree'[x].balance = InitialBalance
    BY <1>3 DEF CreateAccount
  <2> QED
    BY <1>1, <2>3, <2>4, AuditNothing DEF Balance
<1> QED
  BY <1>2, <1>3

\* A payment changes the balances of its parties by what it adds to their
\* histories.
LEMMA AuditedPay ==
  ASSUME IInv, Audited, NEW s \in Address, NEW d \in Address,
         NEW amount \in Amount, AddTransactionEntry(s, d, amount)
  PROVE  Audited'
<1> DEFINE tx == Transaction(s, d, amount)
           log == transaction_tree
<1>1. CASE UNCHANGED <<account_tree, transaction_tree>>
  BY <1>1 DEF Audited, Balance
<1>2. CASE /\ transaction_tree' = Append(log, tx)
           /\ account_tree' = Paid(s, d, amount, LinkTo(tx))
  <2>1. /\ s \in DOMAIN account_tree /\ d \in DOMAIN account_tree
        /\ accepts(Balance(s), -amount) /\ amount \in Int
    BY LedgerAssumption DEF AddTransactionEntry, has_account
  <2>2. tx.source = s /\ tx.destination = d /\ tx.amount = amount
    BY DEF Transaction
  <2> DEFINE S == Entries \cup {tx}
  <2> HIDE DEF tx
  <2>3. log \in Seq(S) /\ tx \in S /\ \A y \in S : y.amount \in Int
    <3>1. log \in Seq(Entries) /\ \A y \in Entries : y.amount \in Int
      BY DEF IInv, TypeOK
    <3>2. log \in Seq(S)
      BY <3>1, SeqMonotonic
    <3> QED
      BY <2>1, <2>2, <3>1, <3>2
  <2> HIDE DEF S
  <2> SUFFICES ASSUME NEW x \in DOMAIN account_tree',
                      Plain(NewestFirst(transaction_tree', x))
               PROVE  Balance(x)'
                        = Audit(NewestFirst(transaction_tree', x), x)
    BY DEF Audited, Balance
  <2> DEFINE old == NewestFirst(log, x)
  <2>4. x \in DOMAIN account_tree /\ old \in Seq(S)
    BY <1>2, <2>3, NewestType DEF Paid
  <2>5. Balance(x) \in Int /\ Balance(x) >= 0
    BY <2>4 DEF IInv, TypeOK, NoOverdraft
  <2>6. NewestFirst(transaction_tree', x)
          = IF Involves(tx, x) THEN <<tx>> \o old ELSE old
    BY <1>2, <2>3, NewestOfLonger
  <2> HIDE DEF old
  <2>7. CASE ~ Involves(tx, x)
    <3>1. x # s /\ x # d
      BY <2>2, <2>7 DEF Involves
    <3>2. Balance(x)' = Balance(x)
      BY <1>2, <2>4, <3>1 DEF Paid, Balance
    <3> QED
      BY <2>4, <2>6, <2>7, <3>2 DEF Audited, old
  <2>8. CASE Involves(tx, x)
    <3> DEFINE new == <<tx>> \o old
    <3>1. /\ DOMAIN new = 1..(Len(old) + 1) /\ new[1] = tx
          /\ \A i \in 1..Len(old) : new[i + 1] = old[i]
          /\ Len(old) \in Nat /\ DOMAIN old = 1..Len(old)
      <4>1. /\ new \in Seq(S) /\ Len(new) = Len(old) + 1
            /\ new[1] = tx
            /\ \A i \in 1..Len(old) : new[i + 1] = old[i]
        BY <2>3, <2>4, InFront
      <4>2. DOMAIN new = 1..(Len(old) + 1)
        <5> HIDE DEF new
        <5> QED
          BY <4>1
      <4> QED
        BY <2>4, <4>1, <4>2
    <3>2. NewestFirst(transaction_tree', x) = new
      BY <2>6, <2>8
    <3>3. Audit(new, x) = Audit(old, x) + Change(tx, x)
      BY <2>3, <2>4, AuditOneMore
    <3> HIDE DEF new
    <3>4. s # d /\ amount >= 0
      <4>1. 1 \in DOMAIN new
        BY <3>1
      <4>2. new[1].source # new[1].destination /\ new[1].amount >= 0
        BY <3>2, <4>1 DEF Plain
      <4> QED
        BY <2>2, <3>1, <4>2
    <3>5. Plain(old)
      <4> SUFFICES ASSUME NEW i \in 1..Len(old)
                   PROVE  /\ old[i].source # old[i].destination
                          /\ old[i].amount >= 0
        BY <3>1 DEF Plain
      <4>1. i + 1 \in DOMAIN new /\ new[i + 1] = old[i]
        BY <3>1
      <4> QED
        BY <3>2, <4>1 DEF Plain
    <3>6. Balance(x) = Audit(old, x)
      BY <2>4, <3>5 DEF Audited, old
    <3>7. CASE x = d
      <4>1. Change(tx, x) = amount
        BY <2>2, <3>4, <3>7 DEF Change
      <4>2. account_tree'[x].balance = add_balance(Balance(x), amount)
        BY <1>2, <2>4, <3>7 DEF Paid
      <4>3. add_balance(Balance(x), amount) = Balance(x) + amount
        BY <2>1, <2>5, <3>4 DEF add_balance
      <4> QED
        BY <3>2, <3>3, <3>6, <4>1, <4>2, <4>3 DEF Balance
    <3>8. CASE x = s
      <4>1. Change(tx, x) = -amount
        BY <2>2, <3>8 DEF Change
      <4>2. account_tree'[x].balance = Balance(x) - amount
        BY <1>2, <2>4, <3>4, <3>8 DEF Paid
      <4>3. Balance(x) - amount = Balance(x) + (-amount)
        BY <2>1, <2>5
      <4> QED
        BY <3>2, <3>3, <3>6, <4>1, <4>2, <4>3 DEF Balance
    <3> QED
      BY <2>2, <2>8, <3>7, <3>8 DEF Involves
  <2> QED
    BY <2>7, <2>8
<1> QED
  BY <1>1, <1>2 DEF AddTransactionEntry

\* The other operations leave accounts and transactions alone.
LEMMA AuditedStep ==
  ASSUME IInv, Audited, [Next]_vars
  PROVE  Audited'
<1>1. CASE UNCHANGED <<account_tree, transaction_tree>>
  BY <1>1 DEF Audited, Balance
<1>2. CASE \E a \in Address : CreateAccount(a)
  BY <1>2, AuditedCreate
<1>3. CASE \E s, d \in Address, amount \in Amount :
             AddTransactionEntry(s, d, amount)
  BY <1>3, AuditedPay
<1> QED
  BY <1>1, <1>2, <1>3
  DEF Next, vars, CreateAccountAgain, RejectTransaction, PayWithoutAccount,
      GetBalance

(***************************************************************************)
(* The balance in an account's leaf is the one that its own history, as    *)
(* get_transaction_history returns it, adds up to from InitialBalance on,  *)
(* unless that history has a payment to oneself or a negative one.         *)
(***************************************************************************)
THEOREM BalancesMatchHistories == Spec => []BalanceMatchesHistory
<1>1. Init => Audited
  BY AuditedInit
<1>2. IInv /\ Audited /\ [Next]_vars => Audited'
  BY AuditedStep
<1>3. IInv /\ Audited => BalanceMatchesHistory
  BY HistoryOf DEF Audited, BalanceMatchesHistory
<1> QED
  BY <1>1, <1>2, <1>3, IInvInvariant, PTL DEF Spec
==============================================================================
