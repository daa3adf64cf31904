----------------------------- MODULE Replication -----------------------------
(***************************************************************************)
(* Two servers, x and y, that take requests from clients and forward them  *)
(* to each other (ParseHandleJsonData and ProcessMessages in               *)
(* src/src/p2p/net.cpp).  Each carries out what reaches it on its own      *)
(* ledger at once: nothing orders the requests of one against those of the *)
(* other, and nobody learns what became of a request elsewhere.            *)
(*                                                                         *)
(* Each ledger is an instance of Ledger.  A connection and its queues are  *)
(* one sequence of requests in order (PeerChannel), which may lose any of  *)
(* them where TCP cuts the stream unluckily; a chunk that mixes two        *)
(* messages is left out.  Replies are left out: nothing is done with them. *)
(***************************************************************************)
EXTENDS Integers, SequencesExt

CONSTANTS Address, Amount, InitialBalance, MaxTransactions,
          MaxRequests  \* bound on what clients ask for in a behaviour

ASSUME ReplicationAssumption ==
  /\ Amount \subseteq Int
  /\ InitialBalance \in Nat
  /\ MaxTransactions \in Nat
  /\ MaxRequests \in Nat

VARIABLES
  account_tree_x, transaction_tree_x, status_x,   \* the ledger of x
  account_tree_y, transaction_tree_y, status_y,   \* and of y
  link_x, link_y,  \* the connection that x, that y has opened to the other
  to_x, to_y,      \* what was forwarded and not carried out yet
  taken,           \* history: requests taken from clients, by x and y
  missed,          \* history: a request was not forwarded, or lost
  refused          \* history: add_balance has refused something

ledger_x == <<account_tree_x, transaction_tree_x, status_x>>
ledger_y == <<account_tree_y, transaction_tree_y, status_y>>
net == <<link_x, link_y, to_x, to_y>>
vars == <<ledger_x, ledger_y, net, taken, missed, refused>>

X == INSTANCE Ledger WITH account_tree <- account_tree_x,
       transaction_tree <- transaction_tree_x, status <- status_x
Y == INSTANCE Ledger WITH account_tree <- account_tree_y,
       transaction_tree <- transaction_tree_y, status <- status_y

Init ==
  /\ X!Init /\ Y!Init
  /\ link_x = "none" /\ link_y = "none"
  /\ to_x = << >> /\ to_y = << >>
  /\ taken = [x |-> 0, y |-> 0]
  /\ missed = FALSE
  /\ refused = FALSE

\* A new account, and a payment.
Account(a) == [command |-> "account", address |-> a]
Payment(s, d, amount) ==
  [command |-> "transaction", source |-> s, destination |-> d,
   amount |-> amount]

Request == {Account(a) : a \in Address} \cup
             {Payment(s, d, amount) : s, d \in Address, amount \in Amount}

-----------------------------------------------------------------------------
\* create_account or add_transaction_entry, on the ledger of x and of y.
CarryOutX(r) ==
  IF r.command = "account"
  THEN X!CreateAccount(r.address) \/ X!CreateAccountAgain(r.address)
  ELSE \/ X!AddTransactionEntry(r.source, r.destination, r.amount)
       \/ X!RejectTransaction(r.source, r.amount)
       \/ X!PayWithoutAccount(r.source, r.destination, r.amount)

CarryOutY(r) ==
  IF r.command = "account"
  THEN Y!CreateAccount(r.address) \/ Y!CreateAccountAgain(r.address)
  ELSE \/ Y!AddTransactionEntry(r.source, r.destination, r.amount)
       \/ Y!RejectTransaction(r.source, r.amount)
       \/ Y!PayWithoutAccount(r.source, r.destination, r.amount)

\* On accounts tree, the debit or the credit of r is refused.  The debit is
\* tried first, before the destination is looked up.
Refuses(tree, r) ==
  /\ r.command = "transaction"
  /\ r.source \in DOMAIN tree
  /\ \/ ~ X!accepts(tree[r.source].balance, -r.amount)
     \/ /\ r.destination \in DOMAIN tree
        /\ ~ X!accepts(tree[r.destination].balance, r.amount)

\* What is forwarded: the request as the client made it (a transaction is
\* serialised before the ledger puts its links in).
Message(r) == r

\* Mutant of Pushed: a new message goes before the others.
mutant_Pushed(r, link, queue) ==
  IF link = "up" THEN <<Message(r)>> \o queue ELSE queue

\* PushMessage to the outbound node, if there is one that is served.
Pushed(r, link, queue) ==
  IF link = "up" THEN Append(queue, Message(r)) ELSE queue

\* ParseHandleJsonData forwards what it has carried out, refused payments
\* included, unless the process died of it.
RequestX(r) ==
  /\ taken.x + taken.y < MaxRequests
  /\ CarryOutX(r)
  /\ to_y' = IF status_x' = "running" THEN Pushed(r, link_x, to_y) ELSE to_y
  /\ taken' = [taken EXCEPT !.x = @ + 1]
  /\ missed' = (missed \/ link_x # "up")
  /\ refused' = (refused \/ Refuses(account_tree_x, r))
  /\ UNCHANGED <<ledger_y, link_x, link_y, to_x>>

RequestY(r) ==
  /\ taken.x + taken.y < MaxRequests
  /\ CarryOutY(r)
  /\ to_x' = IF status_y' = "running" THEN Pushed(r, link_y, to_x) ELSE to_x
  /\ taken' = [taken EXCEPT !.y = @ + 1]
  /\ missed' = (missed \/ link_y # "up")
  /\ refused' = (refused \/ Refuses(account_tree_y, r))
  /\ UNCHANGED <<ledger_x, link_x, link_y, to_y>>

\* Mutant of ProcessX: one message is carried out, and all are erased.
mutant_ProcessX ==
  /\ to_x # << >>
  /\ CarryOutX(Head(to_x))
  /\ to_x' = << >>
  /\ refused' = (refused \/ Refuses(account_tree_x, Head(to_x)))
  /\ UNCHANGED <<ledger_y, link_x, link_y, to_y, taken, missed>>

\* ProcessMessages carries out what the other has forwarded, and forwards it
\* to nobody.
ProcessX ==
  /\ to_x # << >>
  /\ CarryOutX(Head(to_x))
  /\ to_x' = Tail(to_x)
  /\ refused' = (refused \/ Refuses(account_tree_x, Head(to_x)))
  /\ UNCHANGED <<ledger_y, link_x, link_y, to_y, taken, missed>>

ProcessY ==
  /\ to_y # << >>
  /\ CarryOutY(Head(to_y))
  /\ to_y' = Tail(to_y)
  /\ refused' = (refused \/ Refuses(account_tree_y, Head(to_y)))
  /\ UNCHANGED <<ledger_x, link_x, link_y, to_x, taken, missed>>

-----------------------------------------------------------------------------
\* ThreadOpenConnections connects to the other server.
Connect ==
  /\ \/ link_x = "none" /\ link_x' = "up" /\ UNCHANGED link_y
     \/ link_y = "none" /\ link_y' = "up" /\ UNCHANGED link_x
  /\ UNCHANGED <<ledger_x, ledger_y, to_x, to_y, taken, missed, refused>>

\* A connection is lost, with what has not been received yet.  It is opened
\* again only if ThreadOpenConnections has not ended.
DisconnectX ==
  /\ link_x = "up"
  /\ link_x' \in {"none", "lost"}
  /\ \E n \in 0..Len(to_y) :
       /\ to_y' = SubSeq(to_y, 1, n)
       /\ missed' = (missed \/ n < Len(to_y))
  /\ UNCHANGED <<ledger_x, ledger_y, link_y, to_x, taken, refused>>

DisconnectY ==
  /\ link_y = "up"
  /\ link_y' \in {"none", "lost"}
  /\ \E n \in 0..Len(to_x) :
       /\ to_x' = SubSeq(to_x, 1, n)
       /\ missed' = (missed \/ n < Len(to_x))
  /\ UNCHANGED <<ledger_x, ledger_y, link_x, to_y, taken, refused>>

\* A recv returns more or less than one message, and one of them is lost.
Garble ==
  /\ \/ /\ \E i \in DOMAIN to_x : to_x' = RemoveAt(to_x, i)
        /\ UNCHANGED to_y
     \/ /\ \E i \in DOMAIN to_y : to_y' = RemoveAt(to_y, i)
        /\ UNCHANGED to_x
  /\ missed' = TRUE
  /\ UNCHANGED <<ledger_x, ledger_y, link_x, link_y, taken, refused>>

Next ==
  \/ \E r \in Request : RequestX(r) \/ RequestY(r)
  \/ ProcessX \/ ProcessY
  \/ Connect \/ DisconnectX \/ DisconnectY
  \/ Garble

Spec == Init /\ [][Next]_vars

-----------------------------------------------------------------------------
(***************************************************************************)
(* A server that takes no requests itself, and misses none, mirrors the    *)
(* other: its transactions are the first of the other's, hash for hash,    *)
(* refused payments (which are forwarded as well) leave no trace, it never *)
(* dies of what the other has survived, and once it has caught up the two  *)
(* ledgers are the same.                                                   *)
(***************************************************************************)
FollowerMirrors ==
  taken.y = 0 /\ ~ missed =>
    /\ status_y = "running"
    /\ IsPrefix(transaction_tree_y, transaction_tree_x)
    /\ to_y = << >> => /\ account_tree_y = account_tree_x
                       /\ transaction_tree_y = transaction_tree_x

(***************************************************************************)
(* When both take requests they carry them out in different orders, so     *)
(* that links, hashes and roots differ.  Still, as long as both are alive, *)
(* no request was missed and no balance was ever too low, they agree on    *)
(* all balances once nothing is under way.                                 *)
(***************************************************************************)
BalancesAgree ==
  /\ ~ missed /\ ~ refused
  /\ to_x = << >> /\ to_y = << >>
  /\ status_x = "running" /\ status_y = "running"
  => /\ DOMAIN account_tree_x = DOMAIN account_tree_y
     /\ \A a \in DOMAIN account_tree_x :
          account_tree_x[a].balance = account_tree_y[a].balance
==============================================================================
