---------------------------- MODULE LedgerThreads ----------------------------
(***************************************************************************)
(* The ledger operations step by step, as the threads of the server carry  *)
(* them out: ThreadSocketHandler for its clients (net.cpp:259),            *)
(* ThreadMessageHandler for its peers (net.cpp:501), with no lock around   *)
(* an operation, and the SIGALRM handler that prints the balances every    *)
(* five seconds.                                                           *)
(*                                                                         *)
(* A payment reads both accounts, adds the transaction, and writes the     *)
(* source and then the destination.  A change of a tree is two steps, the  *)
(* walk to its place (get_stack) and the change there; child_lock_ guards  *)
(* single node accesses in them and no more.  Two threads that change one  *)
(* tree race: the process may die of it, and the one that changes the tree *)
(* last may undo what another has changed since its walk, or change a node *)
(* that is no longer in the tree.  A walk belongs to the step before it:   *)
(* nothing another thread does in between is thereby left out.             *)
(*                                                                         *)
(* The hashes that the ledger keeps of its trees are in LedgerRecovery.    *)
(***************************************************************************)
EXTENDS Ledger, FiniteSets

CONSTANTS
  Thread,   \* the threads that work on the ledger
  Main,     \* the main thread, which waits in join
  AlarmOn,  \* the threads on which the SIGALRM handler may run
  NoThread

ASSUME ThreadAssumption ==
  /\ AlarmOn \subseteq Thread \cup {Main}
  /\ Main \notin Thread /\ NoThread \notin Thread

VARIABLES
  thread,  \* where each thread is, and its local variables
  stuck    \* the thread that waits for its own child_lock_

tvars == <<vars, thread, stuck>>

Idle == [pc |-> "idle"]

ThreadsInit ==
  /\ Init
  /\ thread = [t \in Thread |-> Idle]
  /\ stuck = NoThread

\* get_account_entry: the account read, none being the empty set.
get_account_entry(a) == {account_tree[x] : x \in {a} \cap DOMAIN account_tree}

Only(S) == CHOOSE x \in S : TRUE

\* The transaction and the two accounts as thread p makes them of what it
\* has read.
Payment(p) ==
  [source               |-> p.s,
   destination          |-> p.d,
   amount               |-> p.amount,
   source_previous      |-> Only(p.src).previous,
   destination_previous |-> Only(p.dst).previous]
\* Mutants of Debited: it takes the amount from the balance of the moment; it
\* links to the hash the transaction has before its own links are set.
mutant_Debited(p) ==
  [balance  |-> account_tree[p.s].balance - p.amount,
   previous |-> LinkTo(Payment(p))]
mutant_Debited_link(p) ==
  [balance  |-> add_balance(Only(p.src).balance, -p.amount),
   previous |-> LinkTo([Payment(p) EXCEPT !.source_previous = Origin])]
Debited(p) ==
  [balance  |-> add_balance(Only(p.src).balance, -p.amount),
   previous |-> LinkTo(Payment(p))]
Credited(p) ==
  [balance  |-> add_balance(Only(p.dst).balance, p.amount),
   previous |-> LinkTo(Payment(p))]

-----------------------------------------------------------------------------
\* The threads that have walked a tree and will change it.
InAccountTree == {t \in Thread : thread[t].pc \in {"put_a", "put_s", "put_d"}}
InTransactionTree == {t \in Thread : thread[t].pc = "put_t"}

\* t goes on as p; the threads in others take note of what it changed.
GoOn(t, p, others, change) ==
  thread' = [u \in Thread |->
               IF u = t THEN p
               ELSE IF u \in others
               THEN [thread[u] EXCEPT !.raced = @ \cup {change}]
               ELSE thread[u]]

GoTo(t, p) == thread' = [thread EXCEPT ![t] = p]

\* Thread t can take a step that takes child_lock_.
Runs(t, pc) == status = "running" /\ stuck = NoThread /\ thread[t].pc = pc

\* The process dies, and its threads with it.
Die(why) ==
  /\ status' = why
  /\ thread' = [t \in Thread |-> Idle]
  /\ UNCHANGED <<account_tree, transaction_tree, stuck>>

\* What a change of the account tree may leave: the change; if others have
\* changed the tree since the walk, also nothing of it, or the change with
\* one of theirs undone.
Undone(tree, w) ==
  [x \in {y \in DOMAIN tree : y = w.address => w.old # {}} |->
     IF x = w.address THEN Only(w.old) ELSE tree[x]]
Changed(a, tree, raced) ==
  {tree} \cup {account_tree : w \in raced}
         \cup {Undone(tree, w) : w \in {x \in raced : x.address # a}}

\* create_account and add_account_tree_entry up to the walk.
BeginCreate(t, a) ==
  /\ Runs(t, "idle")
  /\ GoTo(t, [pc |-> "put_a", a |-> a, raced |-> {}])
  /\ UNCHANGED <<vars, stuck>>

\* add_given_item, of a new account.
AddAccount(t) ==
  LET p == thread[t]
      new == [balance |-> InitialBalance, previous |-> Origin]
      tree == [x \in DOMAIN account_tree \cup {p.a} |->
                 IF x = p.a THEN new ELSE account_tree[x]]
  IN  /\ Runs(t, "put_a")
      /\ has_account(p.a) => \E w \in p.raced : w.address = p.a
      /\ account_tree' \in Changed(p.a, tree, p.raced)
      /\ GoOn(t, [pc |-> "hash_a"], InAccountTree,
              [address |-> p.a, old |-> get_account_entry(p.a)])
      /\ UNCHANGED <<transaction_tree, status, stuck>>

\* Its assertion that the index is new, or the branch empty.
AddAccountAgain(t) ==
  /\ Runs(t, "put_a")
  /\ has_account(thread[t].a)
  /\ Die("duplicate_account")

\* The last update_account_tree_hash of an operation.
EndOperation(t) ==
  /\ status = "running"
  /\ thread[t].pc \in {"hash_a", "hash_d"}
  /\ GoTo(t, Idle)
  /\ UNCHANGED <<vars, stuck>>

-----------------------------------------------------------------------------
Paying == {t \in Thread : thread[t].pc \notin {"idle", "put_a", "hash_a"}}

\* add_transaction_entry reads the source ...
BeginPay(t, s, d, amount) ==
  /\ Runs(t, "idle")
  /\ Len(transaction_tree) + Cardinality(Paying) < MaxTransactions
  /\ GoTo(t, [pc |-> "read_d", s |-> s, d |-> d, amount |-> amount,
              src |-> get_account_entry(s), dst |-> {}, raced |-> {}])
  /\ UNCHANGED <<vars, stuck>>

\* ... and the destination, and looks whether the payment can be made.  The
\* payment made with p.dst is walked to its place in the transaction tree.
ReadDestination(t) ==
  LET p == [thread[t] EXCEPT !.pc = "put_t",
                             !.dst = get_account_entry(thread[t].d)]
      refused == ~ accepts(Only(p.src).balance, -p.amount)
  IN  /\ Runs(t, "read_d")
      /\ IF p.src = {} \/ (~ refused /\ p.dst = {})
         THEN Die("null_account")
         ELSE /\ GoTo(t, IF refused THEN Idle ELSE p)
              /\ UNCHANGED <<vars, stuck>>

\* transaction_tree_->add_item.
AddTransaction(t) ==
  LET p == thread[t]
      tx == Payment(p)
      tree == IF tx \in Entries THEN transaction_tree
                                ELSE Append(transaction_tree, tx)
  IN  /\ Runs(t, "put_t")
      /\ tx \in Entries => tx \in p.raced
      /\ transaction_tree' \in
           {tree} \cup {transaction_tree : w \in p.raced}
                  \cup {SelectSeq(tree, LAMBDA x : x # w) :
                          w \in p.raced \ {tx}}
      /\ GoOn(t, [p EXCEPT !.pc = "hash_t", !.raced = {}],
              InTransactionTree, tx)
      /\ UNCHANGED <<account_tree, status, stuck>>

\* Its assertion that the index is new.
AddTransactionAgain(t) ==
  /\ Runs(t, "put_t")
  /\ Payment(thread[t]) \in Entries
  /\ Die("duplicate_transaction")

\* update_transaction_tree_hash; then update_given_item walks to the source
\* and asserts that it is there.
HashTransaction(t) ==
  /\ Runs(t, "hash_t")
  /\ IF has_account(thread[t].s)
     THEN /\ GoTo(t, [thread[t] EXCEPT !.pc = "put_s"])
          /\ UNCHANGED <<vars, stuck>>
     ELSE Die("tree_race")

\* update_given_item of account a.
UpdateAccount(t, pc, a, account, next) ==
  LET p == thread[t]
  IN  /\ Runs(t, pc)
      /\ account_tree' \in
           Changed(a, [account_tree EXCEPT ![a] = account], p.raced)
      /\ GoOn(t, [p EXCEPT !.pc = next, !.raced = {}], InAccountTree,
              [address |-> a, old |-> get_account_entry(a)])
      /\ UNCHANGED <<transaction_tree, status, stuck>>

\* Mutant: the source is made, but not written.
mutant_UpdateSource(t) ==
  /\ Runs(t, "put_s")
  /\ GoTo(t, [thread[t] EXCEPT !.pc = "hash_s", !.raced = {}])
  /\ UNCHANGED <<vars, stuck>>

UpdateSource(t) ==
  /\ thread[t].pc = "put_s"
  /\ UpdateAccount(t, "put_s", thread[t].s, Debited(thread[t]), "hash_s")

\* update_account_tree_hash, and the walk to the destination.
HashSource(t) ==
  /\ Runs(t, "hash_s")
  /\ IF has_account(thread[t].d)
     THEN /\ GoTo(t, [thread[t] EXCEPT !.pc = "put_d"])
          /\ UNCHANGED <<vars, stuck>>
     ELSE Die("tree_race")

UpdateDestination(t) ==
  /\ thread[t].pc = "put_d"
  /\ UpdateAccount(t, "put_d", thread[t].d, Credited(thread[t]), "hash_d")

-----------------------------------------------------------------------------
\* get_balance, for a client.
QueryBalance(t, a) ==
  /\ Runs(t, "idle")
  /\ GetBalance(a)
  /\ UNCHANGED <<thread, stuck>>

\* A thread in a tree meets a node that another is changing: a leaf without
\* item, a branch that is not empty any more, a hash that did not change.
TreeRace(t) ==
  /\ status = "running"
  /\ stuck = NoThread
  /\ \/ /\ t \notin Paying \/ thread[t].pc \in {"read_d", "put_s", "put_d"}
        /\ InAccountTree \ {t} # {}
     \/ /\ t \in InTransactionTree
        /\ InTransactionTree \ {t} # {}
  /\ Die("tree_race")

\* auto_print_account_balance interrupts thread x and goes through the
\* account tree.  It may meet a half made node there, and if x holds
\* child_lock_ itself, it waits for ever.  (Else it prints, and nothing
\* changes.)
Alarm(x) ==
  /\ status = "running"
  /\ stuck = NoThread
  /\ \/ InAccountTree # {} /\ Die("tree_race")
     \/ /\ x \in Thread
        /\ thread[x].pc \notin {"idle", "hash_a", "hash_d"}
        /\ stuck' = x
        /\ UNCHANGED <<vars, thread>>

\* The steps of an operation that has begun.
Step(t) ==
  \/ AddAccount(t) \/ AddAccountAgain(t)
  \/ ReadDestination(t)
  \/ AddTransaction(t) \/ AddTransactionAgain(t) \/ HashTransaction(t)
  \/ UpdateSource(t) \/ HashSource(t) \/ UpdateDestination(t)
  \/ EndOperation(t)

Begin(t) ==
  \/ \E a \in Address : BeginCreate(t, a) \/ QueryBalance(t, a)
  \/ \E s, d \in Address, amount \in Amount : BeginPay(t, s, d, amount)

ThreadsNext ==
  \/ \E t \in Thread : Begin(t) \/ Step(t) \/ TreeRace(t)
  \/ \E x \in AlarmOn : Alarm(x)

ThreadsSpec == ThreadsInit /\ [][ThreadsNext]_tvars

-----------------------------------------------------------------------------
\* The account tree with what the threads have yet to write of a payment
\* whose transaction is in its tree.
Pending(a) ==
  {Credited(thread[t]) : t \in {u \in Thread :
     /\ thread[u].pc \in {"hash_t", "put_s", "hash_s", "put_d"}
     /\ thread[u].d = a}}
  \cup
  {Debited(thread[t]) : t \in {u \in Thread :
     /\ thread[u].pc \in {"hash_t", "put_s"}
     /\ thread[u].s = a /\ thread[u].d # a}}
Settled ==
  [a \in DOMAIN account_tree |->
     IF Pending(a) = {} THEN account_tree[a] ELSE Only(Pending(a))]

\* The ledger that the operations make if each is taken for one step.
Serial == INSTANCE Ledger WITH account_tree <- Settled
==============================================================================
