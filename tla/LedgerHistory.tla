---------------------------- MODULE LedgerHistory ----------------------------
(***************************************************************************)
(* get_transaction_history (src/src/p2p/interface.cpp) as a recursive      *)
(* function over the ledger's links, compared with what it should return,  *)
(* and the audit that history makes possible.                              *)
(***************************************************************************)
EXTENDS Ledger

\* Positions of the transactions stored under a hash; empty where
\* get_transaction_entry returns nullptr.
get_transaction_entry(hash) ==
  {i \in DOMAIN transaction_tree :
     get_sha512_half(transaction_tree[i]) = hash}

\* Which link the walk of account a follows from tx, and a mutant that takes
\* the source's link whoever is asking.
mutant_PreviousOf(tx, a) == tx.source_previous

PreviousOf(tx, a) ==
  IF tx.source = a THEN tx.source_previous ELSE tx.destination_previous

\* Before the loop: the link to follow next and what has been found.
Start(a) == [link |-> account_tree[a].previous, found |-> << >>,
             lost |-> FALSE]

\* One turn of the loop.  A lookup that fails would be dereferenced; it ends
\* the walk with lost set.
Turn(w, a) ==
  LET hits == get_transaction_entry(w.link.hash)
      tx == transaction_tree[CHOOSE i \in hits : TRUE]
  IN  IF w.link.seq = 0 \/ w.lost THEN w
      ELSE IF hits = {} THEN [w EXCEPT !.lost = TRUE]
      ELSE [w EXCEPT !.found = Append(@, tx),
                     !.link = PreviousOf(tx, a)]

\* The loop, in more turns than there are transactions.
Walk(a) ==
  LET walk[n \in 0..(Len(transaction_tree) + 1)] ==
        IF n = 0 THEN Start(a) ELSE Turn(walk[n - 1], a)
  IN  walk[Len(transaction_tree) + 1]

get_transaction_history(a) == Walk(a).found

Terminates(a) == Walk(a).link.seq = 0 /\ ~ Walk(a).lost

\* The transactions of an account in log, the newest first.
NewestFirst(log, a) ==
  LET upTo[n \in 0..Len(log)] ==
        IF n = 0 THEN << >>
        ELSE IF Involves(log[n], a) THEN <<log[n]>> \o upTo[n - 1]
        ELSE upTo[n - 1]
  IN  upTo[Len(log)]

(***************************************************************************)
(* For every account the history walk ends, dereferences no missing        *)
(* transaction, and returns exactly the account's transactions, newest     *)
(* first.                                                                  *)
(***************************************************************************)
HistoryIsComplete ==
  \A a \in DOMAIN account_tree :
    /\ Terminates(a)
    /\ get_transaction_history(a) = NewestFirst(transaction_tree, a)

\* What a transaction of account a adds to its balance.
Change(tx, a) == IF tx.source = a THEN -tx.amount ELSE tx.amount

\* What a history, read from its oldest entry on, says its account holds.
Audit(history, a) ==
  LET sum[n \in 0..Len(history)] ==
        IF n = 0 THEN InitialBalance
        ELSE sum[n - 1] + Change(history[Len(history) + 1 - n], a)
  IN  sum[Len(history)]

\* No payment to oneself and none of a negative amount.
Plain(history) ==
  \A i \in DOMAIN history : /\ history[i].source # history[i].destination
                            /\ history[i].amount >= 0

(***************************************************************************)
(* The balance kept in the account leaf agrees with the balance recomputed *)
(* from the account's own history, as long as that history has no payment  *)
(* to oneself and none of a negative amount.                               *)
(***************************************************************************)
BalanceMatchesHistory ==
  \A a \in DOMAIN account_tree :
    LET history == get_transaction_history(a)
    IN  Plain(history) => Balance(a) = Audit(history, a)
=============================================================================
