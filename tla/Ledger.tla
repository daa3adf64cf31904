------------------------------- MODULE Ledger -------------------------------
(***************************************************************************)
(* The ledger of one server (src/src/ledger/ledger.cpp) as its callers in  *)
(* src/src/p2p see it: accounts, payments between them and the chain of    *)
(* transactions each account can be traced back along.  Every operation is *)
(* one step: LedgerThreads has them in the grain in which threads meet.    *)
(*                                                                         *)
(* Abstractions.  The two radix Merkle trees are the maps they implement   *)
(* (see RadixMerkleTree): account_tree is a function on the addresses that *)
(* have an account, transaction_tree the transactions in the order they    *)
(* were added (the tree itself keeps no order).  Amounts and balances are  *)
(* integers where the code has doubles, so rounding is left out.           *)
(* SHA-512/2 is a one-to-one constructor.  The cached hashes of the ledger *)
(* are refreshed before every operation returns; LedgerRecovery has them.  *)
(***************************************************************************)
EXTENDS Integers, Sequences

CONSTANTS
  Address,         \* 256-bit account addresses
  Amount,          \* what a payment request may ask for, negative included
  InitialBalance,  \* what create_account puts on a new account (1000)
  MaxTransactions  \* bound on the payments of a behaviour

ASSUME LedgerAssumption ==
  /\ Amount \subseteq Int
  /\ InitialBalance \in Nat
  /\ MaxTransactions \in Nat

VARIABLES
  account_tree,     \* address |-> account, on the addresses that have one
  transaction_tree, \* the transactions, in the order they were added
  status            \* "running", or why the process died

vars == <<account_tree, transaction_tree, status>>

\* What ends the process: a null account is dereferenced, or the assertion
\* of add_given_item meets an index that is already in the tree.
Status == {"running", "null_account", "duplicate_account",
           "duplicate_transaction"}

\* The sequence number of the only ledger the server ever has open.
ledger_sequence == 1

get_sha512_half(x) == <<x>>

\* Where a chain ends: the previous-transaction link of a new account.
Origin == [seq |-> 0, hash |-> << >>]

\* The link that an account keeps to the last transaction it took part in.
LinkTo(tx) == [seq |-> ledger_sequence, hash |-> get_sha512_half(tx)]

Balance(a) == account_tree[a].balance

Involves(tx, a) == a \in {tx.source, tx.destination}

-----------------------------------------------------------------------------
Init ==
  /\ account_tree = [a \in {} |-> Origin]
  /\ transaction_tree = << >>
  /\ status = "running"

has_account(a) == a \in DOMAIN account_tree

\* Mutant of add_balance: without its test.
mutant_add_balance_unchecked(balance, amount) == balance + amount

\* Account::add_balance: the balance it leaves, and whether it accepts.
add_balance(balance, amount) ==
  IF balance + amount < 0 THEN balance ELSE balance + amount

accepts(balance, amount) == balance + amount >= 0

\* create_account and add_account_tree_entry.
CreateAccount(a) ==
  /\ status = "running"
  /\ ~ has_account(a)
  /\ account_tree' = [x \in DOMAIN account_tree \cup {a} |->
                        IF x = a
                        THEN [balance |-> InitialBalance, previous |-> Origin]
                        ELSE account_tree[x]]
  /\ UNCHANGED <<transaction_tree, status>>

\* The same request for an account that exists: add_given_item asserts that
\* the two indices differ.
CreateAccountAgain(a) ==
  /\ status = "running"
  /\ has_account(a)
  /\ status' = "duplicate_account"
  /\ UNCHANGED <<account_tree, transaction_tree>>

Transaction(s, d, amount) ==
  [source               |-> s,
   destination          |-> d,
   amount               |-> amount,
   source_previous      |-> account_tree[s].previous,
   destination_previous |-> account_tree[d].previous]

\* Mutants of Paid: the accounts are stored under the transaction's index;
\* the source is not debited; the link of the destination, or of both, stays
\* where it was.
mutant_Paid_index(s, d, amount, link) ==
  [x \in DOMAIN account_tree \cup {link.hash} |->
     IF x = link.hash THEN [balance  |-> add_balance(Balance(d), amount),
                            previous |-> link]
     ELSE account_tree[x]]
mutant_Paid_no_debit(s, d, amount, link) ==
  [x \in DOMAIN account_tree |->
     IF x = d THEN [balance  |-> add_balance(Balance(d), amount),
                    previous |-> link]
     ELSE IF x = s THEN [account_tree[s] EXCEPT !.previous = link]
     ELSE account_tree[x]]
mutant_Paid_one_link(s, d, amount, link) ==
  [x \in DOMAIN account_tree |->
     IF x = d THEN [account_tree[d] EXCEPT !.balance = add_balance(@, amount)]
     ELSE IF x = s THEN [balance |-> Balance(s) - amount, previous |-> link]
     ELSE account_tree[x]]
mutant_Paid_no_link(s, d, amount, link) ==
  [x \in DOMAIN account_tree |->
     IF x = d THEN [account_tree[d] EXCEPT !.balance = add_balance(@, amount)]
     ELSE IF x = s THEN [account_tree[s] EXCEPT !.balance = @ - amount]
     ELSE account_tree[x]]

\* The account tree after a payment.  Both accounts were read before either
\* is written, and the destination is written last: paying oneself keeps
\* only the credit.
Paid(s, d, amount, link) ==
  LET debited  == [balance  |-> Balance(s) - amount,
                   previous |-> link]
      credited == [balance  |-> add_balance(Balance(d), amount),
                   previous |-> link]
  IN  [x \in DOMAIN account_tree |->
         IF x = d THEN credited
         ELSE IF x = s THEN debited ELSE account_tree[x]]

\* add_transaction_entry when both accounts exist and the source can pay.
\* The transaction goes into its tree first, and add_given_item asserts that
\* its hash is not there yet.
AddTransactionEntry(s, d, amount) ==
  LET tx == Transaction(s, d, amount)
  IN  /\ status = "running"
      /\ Len(transaction_tree) < MaxTransactions
      /\ has_account(s)
      /\ accepts(Balance(s), -amount)
      /\ has_account(d)
      /\ IF \E i \in DOMAIN transaction_tree :
              get_sha512_half(transaction_tree[i]) = get_sha512_half(tx)
         THEN /\ status' = "duplicate_transaction"
              /\ UNCHANGED <<account_tree, transaction_tree>>
         ELSE /\ transaction_tree' = Append(transaction_tree, tx)
              /\ account_tree' = Paid(s, d, amount, LinkTo(tx))
              /\ UNCHANGED status

\* The source cannot pay: add_transaction_entry returns 1 before it looks
\* at the destination.
RejectTransaction(s, amount) ==
  /\ status = "running"
  /\ has_account(s)
  /\ ~ accepts(Balance(s), -amount)
  /\ UNCHANGED vars

\* get_account_entry gave nullptr and add_transaction_entry calls it.
PayWithoutAccount(s, d, amount) ==
  /\ status = "running"
  /\ \/ ~ has_account(s)
     \/ has_account(s) /\ accepts(Balance(s), -amount) /\ ~ has_account(d)
  /\ status' = "null_account"
  /\ UNCHANGED <<account_tree, transaction_tree>>

\* get_balance dereferences what get_account_entry gave it.
GetBalance(a) ==
  /\ status = "running"
  /\ status' = IF has_account(a) THEN status ELSE "null_account"
  /\ UNCHANGED <<account_tree, transaction_tree>>

Next ==
  \/ \E a \in Address : CreateAccount(a)
  \/ \E a \in Address : CreateAccountAgain(a)
  \/ \E s, d \in Address, amount \in Amount : AddTransactionEntry(s, d, amount)
  \/ \E s \in Address, amount \in Amount : RejectTransaction(s, amount)
  \/ \E s, d \in Address, amount \in Amount : PayWithoutAccount(s, d, amount)
  \/ \E a \in Address : GetBalance(a)

Spec == Init /\ [][Next]_vars

-----------------------------------------------------------------------------
Entries == {transaction_tree[i] : i \in DOMAIN transaction_tree}

(***************************************************************************)
(* Type invariant: accounts live on addresses and hold integer balances,   *)
(* the transactions form a sequence of integer payments.                   *)
(***************************************************************************)
TypeOK ==
  /\ DOMAIN account_tree \subseteq Address
  /\ \A a \in DOMAIN account_tree : Balance(a) \in Int
  /\ transaction_tree \in Seq(Entries)
  /\ \A tx \in Entries : tx.amount \in Int
  /\ status \in Status

(***************************************************************************)
(* No account is ever overdrawn, whatever amounts are asked for: the debit *)
(* is tested by add_transaction_entry, the credit (of a negative amount)   *)
(* by add_balance alone, whose refusal the caller ignores.                 *)
(***************************************************************************)
NoOverdraft == \A a \in DOMAIN account_tree : Balance(a) >= 0

(***************************************************************************)
(* Only addresses that have an account pay or are paid.                    *)
(***************************************************************************)
PartiesExist ==
  \A tx \in Entries : {tx.source, tx.destination} \subseteq DOMAIN account_tree

\* link points at the last of the first n transactions of log that involves
\* a, or is the origin when none does.
PointsToLast(log, link, a, n) ==
  \/ /\ link = Origin
     /\ \A i \in 1..n : ~ Involves(log[i], a)
  \/ \E i \in 1..n :
       /\ Involves(log[i], a)
       /\ link = LinkTo(log[i])
       /\ \A j \in (i + 1)..n : ~ Involves(log[j], a)

(***************************************************************************)
(* The back links: an account points at its last transaction, and a        *)
(* transaction points, once for each party, at the one before it.  This is *)
(* what get_transaction_history relies on to find every transaction of an  *)
(* account and to stop.                                                    *)
(***************************************************************************)
Chained ==
  /\ \A a \in DOMAIN account_tree :
       PointsToLast(transaction_tree, account_tree[a].previous, a,
                    Len(transaction_tree))
  /\ \A i \in 1..Len(transaction_tree) :
       LET tx == transaction_tree[i]
       IN  /\ PointsToLast(transaction_tree, tx.source_previous,
                           tx.source, i - 1)
           /\ PointsToLast(transaction_tree, tx.destination_previous,
                           tx.destination, i - 1)

\* Different places of the tree hold different transactions.
Distinct ==
  \A i, j \in 1..Len(transaction_tree) :
    transaction_tree[i] = transaction_tree[j] => i = j

(***************************************************************************)
(* A payment never hashes to an index that is already in the transaction   *)
(* tree, not even one that repeats an earlier payment word for word: the   *)
(* assertion of add_given_item (radix_merkle_tree.cpp:134) cannot fail for *)
(* a transaction.                                                          *)
(***************************************************************************)
NoDuplicateTransaction == status # "duplicate_transaction"

(***************************************************************************)
(* The inductive invariant: the links need the parties to exist (a new     *)
(* account has no past), and a fresh hash needs the links and distinctness.*)
(***************************************************************************)
IInv ==
  /\ TypeOK
  /\ NoOverdraft
  /\ PartiesExist
  /\ Chained
  /\ Distinct
  /\ NoDuplicateTransaction

\* A step leaves the balances of accounts that its transaction, if it has
\* one, does not involve; between two accounts and of an amount that is not
\* negative, the transaction takes from one what it gives to the other.
MovesCoins ==
  LET n == Len(transaction_tree')
      tx == transaction_tree'[n]
      Pays(a) == n > Len(transaction_tree) /\ Involves(tx, a)
  IN  \A a \in DOMAIN account_tree :
        /\ ~ Pays(a) => Balance(a)' = Balance(a)
        /\ Pays(a) /\ tx.source # tx.destination /\ tx.amount >= 0
             => Balance(a)' = IF a = tx.source THEN Balance(a) - tx.amount
                                               ELSE Balance(a) + tx.amount

(***************************************************************************)
(* What a step may do to the balances that exist: nothing, unless it adds  *)
(* a transaction; and a transaction of a non-negative amount between two   *)
(* accounts takes from one exactly what it gives to the other and leaves   *)
(* every third account alone.  (Paying oneself, or a negative amount,      *)
(* creates coins in this code; see README.)                                *)
(***************************************************************************)
PaymentsMoveCoins == [][MovesCoins]_vars
=============================================================================
