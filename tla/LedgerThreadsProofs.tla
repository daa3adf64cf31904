------------------------- MODULE LedgerThreadsProofs -------------------------
(***************************************************************************)
(* No account is overdrawn however many threads race in the ledger: proof  *)
(* for every set of threads, addresses and amounts.  Each write puts an    *)
(* account back that add_balance has made of one that a thread has read,   *)
(* and what a lost race undoes was in the tree before.                     *)
(***************************************************************************)
EXTENDS LedgerThreads, TLAPS

Sound(account) == account.balance \in Int /\ account.balance >= 0

AllSound(accounts) == \A x \in accounts : Sound(x)

SoundTree(tree) == \A a \in DOMAIN tree : Sound(tree[a])

\* What others did to the account tree, as a thread in it has noted it.
SoundChanges(raced) == \A w \in raced : AllSound(w.old)

\* The fields of a thread that makes a payment.
PaymentState(p) ==
  [pc |-> p.pc, s |-> p.s, d |-> p.d, amount |-> p.amount,
   src |-> p.src, dst |-> p.dst, raced |-> p.raced]

MakesPayment(p) ==
  /\ p = PaymentState(p)
  /\ p.pc \in {"read_d", "put_t", "hash_t", "put_s", "hash_s", "put_d",
               "hash_d"}
  /\ p.amount \in Int
  /\ AllSound(p.src) /\ AllSound(p.dst)
  /\ p.pc # "read_d" => p.src # {} /\ p.dst # {}
  /\ p.pc \in {"hash_t", "hash_s", "hash_d"} => p.raced = {}
  /\ p.pc \in {"put_s", "put_d"} => SoundChanges(p.raced)

MakesAccount(p) ==
  /\ p = [pc |-> "put_a", a |-> p.a, raced |-> p.raced]
  /\ SoundChanges(p.raced)

ThreadOK(p) ==
  \/ p = Idle
  \/ p = [pc |-> "hash_a"]
  \/ MakesAccount(p)
  \/ MakesPayment(p)

ThreadsOK ==
  /\ thread = [t \in Thread |-> thread[t]]
  /\ \A t \in Thread : ThreadOK(thread[t])

\* The inductive invariant: the accounts in the tree, those the threads have
\* read and those that a race may bring back are not overdrawn.
TInv == SoundTree(account_tree) /\ ThreadsOK

-----------------------------------------------------------------------------
\* A member of a set that has one.
LEMMA OnlyIsMember ==
  ASSUME NEW S, S # {}
  PROVE  Only(S) \in S
BY DEF Only

\* add_balance never leaves a negative balance.
LEMMA AddBalanceSound ==
  ASSUME NEW b \in Int, b >= 0, NEW m \in Int
  PROVE  add_balance(b, m) \in Int /\ add_balance(b, m) >= 0
BY DEF add_balance

\* The accounts that a payment writes.
LEMMA WrittenSound ==
  ASSUME NEW p, MakesPayment(p), p.pc # "read_d"
  PROVE  Sound(Debited(p)) /\ Sound(Credited(p))
<1>1. Sound(Only(p.src)) /\ Sound(Only(p.dst))
  BY OnlyIsMember DEF MakesPayment, AllSound
<1>2. p.amount \in Int /\ -p.amount \in Int
  BY DEF MakesPayment
<1>3. Debited(p).balance = add_balance(Only(p.src).balance, -p.amount)
  BY DEF Debited
<1>4. Credited(p).balance = add_balance(Only(p.dst).balance, p.amount)
  BY DEF Credited
<1> QED
  BY <1>1, <1>2, <1>3, <1>4, AddBalanceSound DEF Sound

\* What get_account_entry reads in a sound tree.
LEMMA ReadSound ==
  ASSUME SoundTree(account_tree), NEW a
  PROVE  AllSound(get_account_entry(a))
BY DEF SoundTree, AllSound, get_account_entry

\* A change, with or without a lost race, leaves a sound tree.
LEMMA ChangedSound ==
  ASSUME NEW a, NEW tree, NEW raced,
         SoundTree(account_tree), SoundTree(tree), SoundChanges(raced),
         NEW new \in Changed(a, tree, raced)
  PROVE  SoundTree(new)
<1>1. CASE new = tree \/ new = account_tree
  BY <1>1
<1>2. ASSUME NEW w \in raced, new = Undone(tree, w)
      PROVE  SoundTree(new)
  <2> SUFFICES ASSUME NEW x \in DOMAIN new
               PROVE  Sound(new[x])
    BY DEF SoundTree
  <2>1. x \in DOMAIN tree /\ (x = w.address => w.old # {})
    BY <1>2 DEF Undone
  <2>2. new[x] = IF x = w.address THEN Only(w.old) ELSE tree[x]
    BY <1>2, <2>1 DEF Undone
  <2>3. CASE x = w.address
    BY <2>1, <2>2, <2>3, <1>2, OnlyIsMember DEF SoundChanges, AllSound
  <2>4. CASE x # w.address
    BY <2>1, <2>2, <2>4 DEF SoundTree
  <2> QED
    BY <2>3, <2>4
<1> QED
  BY <1>1, <1>2 DEF Changed

-----------------------------------------------------------------------------
\* A thread that takes note of a change stays as it should.
LEMMA NotedOK ==
  ASSUME NEW p, ThreadOK(p), NEW change,
         \/ p.pc \in {"put_a", "put_s", "put_d"} /\ AllSound(change.old)
         \/ p.pc = "put_t"
  PROVE  ThreadOK([p EXCEPT !.raced = @ \cup {change}])
<1> DEFINE q == [p EXCEPT !.raced = @ \cup {change}]
<1>1. CASE MakesAccount(p)
  <2>1. p.pc = "put_a"
    BY <1>1 DEF MakesAccount
  <2>2. q = [pc |-> "put_a", a |-> p.a, raced |-> p.raced \cup {change}]
    BY <1>1 DEF MakesAccount
  <2>3. MakesAccount(q)
    BY <1>1, <2>1, <2>2 DEF MakesAccount, SoundChanges
  <2> QED
    BY <2>3 DEF ThreadOK
<1>2. CASE MakesPayment(p)
  <2>1. q = [pc |-> p.pc, s |-> p.s, d |-> p.d, amount |-> p.amount,
             src |-> p.src, dst |-> p.dst, raced |-> p.raced \cup {change}]
    BY <1>2 DEF MakesPayment, PaymentState
  <2>2. MakesPayment(q)
    BY <1>2, <2>1 DEF MakesPayment, PaymentState, SoundChanges
  <2> QED
    BY <2>2 DEF ThreadOK
<1> QED
  BY <1>1, <1>2 DEF ThreadOK, Idle

\* t goes on, and the threads in one of the trees take note.
LEMMA GoOnOK ==
  ASSUME ThreadsOK, NEW t \in Thread, NEW p, ThreadOK(p), NEW change,
         NEW others,
         \A u \in others :
           \/ /\ thread[u].pc \in {"put_a", "put_s", "put_d"}
              /\ AllSound(change.old)
           \/ thread[u].pc = "put_t",
         GoOn(t, p, others, change)
  PROVE  ThreadsOK'
<1>1. thread' = [u \in Thread |-> thread'[u]]
  BY DEF GoOn
<1>2. ASSUME NEW u \in Thread
      PROVE  ThreadOK(thread'[u])
  <2>1. CASE u = t
    BY <2>1 DEF GoOn
  <2>2. CASE u # t /\ u \notin others
    BY <2>2 DEF GoOn, ThreadsOK
  <2>3. CASE u # t /\ u \in others
    <3>1. thread'[u] = [thread[u] EXCEPT !.raced = @ \cup {change}]
      BY <2>3 DEF GoOn
    <3>2. \/ /\ thread[u].pc \in {"put_a", "put_s", "put_d"}
             /\ AllSound(change.old)
          \/ thread[u].pc = "put_t"
      BY <2>3
    <3>3. ThreadOK(thread[u])
      BY DEF ThreadsOK
    <3> QED
      BY <3>1, <3>2, <3>3, NotedOK
  <2> QED
    BY <2>1, <2>2, <2>3
<1> QED
  BY <1>1, <1>2 DEF ThreadsOK

\* t goes on alone.
LEMMA GoToOK ==
  ASSUME ThreadsOK, NEW t \in Thread, NEW p, ThreadOK(p), GoTo(t, p)
  PROVE  ThreadsOK'
BY DEF ThreadsOK, GoTo

\* The threads of a dead process.
LEMMA DieOK ==
  ASSUME TInv, NEW why, Die(why)
  PROVE  TInv'
<1>1. ThreadsOK'
  BY DEF Die, ThreadsOK, ThreadOK
<1> QED
  BY <1>1 DEF Die, TInv, SoundTree

-----------------------------------------------------------------------------
\* The steps that begin an operation, and end one.
LEMMA BeginOK ==
  ASSUME TInv, NEW t \in Thread, Begin(t)
  PROVE  TInv'
<1>1. ASSUME NEW a \in Address, BeginCreate(t, a)
      PROVE  TInv'
  <2> DEFINE p == [pc |-> "put_a", a |-> a, raced |-> {}]
  <2>1. MakesAccount(p)
    BY DEF MakesAccount, SoundChanges
  <2>2. ThreadsOK'
    BY <1>1, <2>1, GoToOK DEF BeginCreate, TInv, ThreadOK
  <2> QED
    BY <1>1, <2>2 DEF BeginCreate, vars, TInv, SoundTree
<1>2. ASSUME NEW a \in Address, QueryBalance(t, a)
      PROVE  TInv'
  BY <1>2 DEF QueryBalance, GetBalance, TInv, SoundTree, ThreadsOK
<1>3. ASSUME NEW s \in Address, NEW d \in Address, NEW amount \in Amount,
             BeginPay(t, s, d, amount)
      PROVE  TInv'
  <2> DEFINE p == [pc |-> "read_d", s |-> s, d |-> d, amount |-> amount,
                   src |-> get_account_entry(s), dst |-> {}, raced |-> {}]
  <2>1. AllSound(get_account_entry(s))
    BY ReadSound DEF TInv
  <2>2. MakesPayment(p)
    BY <2>1, LedgerAssumption DEF MakesPayment, PaymentState, AllSound
  <2>3. ThreadsOK'
    BY <1>3, <2>2, GoToOK DEF BeginPay, TInv, ThreadOK
  <2> QED
    BY <1>3, <2>3 DEF BeginPay, vars, TInv, SoundTree
<1> QED
  BY <1>1, <1>2, <1>3 DEF Begin

\* A thread whose place tells that it makes a payment.
LEMMA PayingThread ==
  ASSUME ThreadsOK, NEW t \in Thread,
         thread[t].pc \in {"read_d", "put_t", "hash_t", "put_s", "hash_s",
                           "put_d", "hash_d"}
  PROVE  MakesPayment(thread[t])
BY DEF ThreadsOK, ThreadOK, Idle, MakesAccount

\* A payment that goes on, without or with what others did in a tree.
LEMMA GoesOnOK ==
  ASSUME NEW p, MakesPayment(p), p.pc # "read_d",
         NEW pc \in {"hash_t", "put_s", "hash_s", "put_d", "hash_d"}
  PROVE  /\ ThreadOK([p EXCEPT !.pc = pc, !.raced = {}])
         /\ p.raced = {} => ThreadOK([p EXCEPT !.pc = pc])
<1>1. ASSUME NEW q, q = [p EXCEPT !.pc = pc, !.raced = {}]
      PROVE  ThreadOK(q)
  <2>1. q = [pc |-> pc, s |-> p.s, d |-> p.d, amount |-> p.amount,
             src |-> p.src, dst |-> p.dst, raced |-> {}]
    BY <1>1 DEF MakesPayment, PaymentState
  <2>2. MakesPayment(q)
    BY <2>1 DEF MakesPayment, PaymentState, SoundChanges
  <2> QED
    BY <2>2 DEF ThreadOK
<1>2. ASSUME NEW q, q = [p EXCEPT !.pc = pc], p.raced = {}
      PROVE  ThreadOK(q)
  <2>1. q = [pc |-> pc, s |-> p.s, d |-> p.d, amount |-> p.amount,
             src |-> p.src, dst |-> p.dst, raced |-> {}]
    BY <1>2 DEF MakesPayment, PaymentState
  <2>2. MakesPayment(q)
    BY <2>1 DEF MakesPayment, PaymentState, SoundChanges
  <2> QED
    BY <2>2 DEF ThreadOK
<1> QED
  BY <1>1, <1>2

-----------------------------------------------------------------------------
\* A new account is put into the tree with the initial balance.
LEMMA AddAccountOK ==
  ASSUME TInv, NEW t \in Thread, AddAccount(t)
  PROVE  TInv'
<1> DEFINE p == thread[t]
           new == [balance |-> InitialBalance, previous |-> Origin]
           tree == [x \in DOMAIN account_tree \cup {p.a} |->
                      IF x = p.a THEN new ELSE account_tree[x]]
           change == [address |-> p.a, old |-> get_account_entry(p.a)]
<1>1. SoundChanges(p.raced)
  BY DEF AddAccount, Runs, TInv, ThreadsOK, ThreadOK, Idle, MakesAccount,
         MakesPayment
<1>2. Sound(new)
  BY LedgerAssumption DEF Sound
<1>3. SoundTree(tree)
  BY <1>2 DEF SoundTree, TInv
<1>4. account_tree' \in Changed(p.a, tree, p.raced)
  BY DEF AddAccount
<1>5. SoundTree(account_tree')
  BY <1>1, <1>3, <1>4, ChangedSound DEF TInv
<1>6. AllSound(change.old)
  BY ReadSound DEF TInv
<1>7. ThreadOK([pc |-> "hash_a"])
  BY DEF ThreadOK
<1>8. GoOn(t, [pc |-> "hash_a"], InAccountTree, change)
  BY DEF AddAccount
<1>9. ThreadsOK'
  BY <1>6, <1>7, <1>8, GoOnOK DEF TInv, InAccountTree
<1> QED
  BY <1>5, <1>9 DEF TInv

\* A payment that has read its second account.
LEMMA HasReadOK ==
  ASSUME NEW p, MakesPayment(p), NEW dst, AllSound(dst),
         p.src # {}, dst # {}
  PROVE  MakesPayment([p EXCEPT !.pc = "put_t", !.dst = dst])
<1>1. ASSUME NEW q, q = [p EXCEPT !.pc = "put_t", !.dst = dst]
      PROVE  MakesPayment(q)
  <2>1. q = [pc |-> "put_t", s |-> p.s, d |-> p.d, amount |-> p.amount,
             src |-> p.src, dst |-> dst, raced |-> p.raced]
    BY <1>1 DEF MakesPayment, PaymentState
  <2> QED
    BY <2>1 DEF MakesPayment, PaymentState
<1> QED
  BY <1>1

\* A payment that goes on has read both of its accounts.
LEMMA ReadDestinationOK ==
  ASSUME TInv, NEW t \in Thread, ReadDestination(t)
  PROVE  TInv'
<1> DEFINE p == [thread[t] EXCEPT !.pc = "put_t",
                                  !.dst = get_account_entry(thread[t].d)]
           refused == ~ accepts(Only(p.src).balance, -p.amount)
<1>1. CASE p.src = {} \/ (~ refused /\ p.dst = {})
  BY <1>1, DieOK DEF ReadDestination
<1>2. CASE ~ (p.src = {} \/ (~ refused /\ p.dst = {}))
  <2>1. MakesPayment(thread[t])
    BY PayingThread DEF ReadDestination, Runs, TInv
  <2>2. AllSound(get_account_entry(thread[t].d))
    BY ReadSound DEF TInv
  <2>3. ASSUME ~ refused
        PROVE  MakesPayment(p)
    <3>1. p.src # {} /\ p.dst # {}
      BY <1>2, <2>3
    <3>2. p.dst = get_account_entry(thread[t].d) /\ p.src = thread[t].src
      BY <2>1 DEF MakesPayment, PaymentState
    <3> QED
      BY <2>1, <2>2, <3>1, <3>2, HasReadOK
  <2>4. ThreadOK(IF refused THEN Idle ELSE p)
    BY <2>3 DEF ThreadOK
  <2>5. GoTo(t, IF refused THEN Idle ELSE p) /\ UNCHANGED account_tree
    BY <1>2 DEF ReadDestination, vars
  <2>6. ThreadsOK'
    BY <2>4, <2>5, GoToOK DEF TInv
  <2> QED
    BY <2>5, <2>6 DEF TInv, SoundTree
<1> QED
  BY <1>1, <1>2

\* The transaction tree holds no balances.
LEMMA AddTransactionOK ==
  ASSUME TInv, NEW t \in Thread, AddTransaction(t)
  PROVE  TInv'
<1>1. MakesPayment(thread[t]) /\ thread[t].pc = "put_t"
  BY PayingThread DEF AddTransaction, Runs, TInv
<1>2. ThreadOK([thread[t] EXCEPT !.pc = "hash_t", !.raced = {}])
  BY <1>1, GoesOnOK
<1>3. GoOn(t, [thread[t] EXCEPT !.pc = "hash_t", !.raced = {}],
           InTransactionTree, Payment(thread[t]))
  BY DEF AddTransaction
<1>4. ThreadsOK'
  BY <1>2, <1>3, GoOnOK DEF TInv, InTransactionTree
<1> QED
  BY <1>4 DEF AddTransaction, TInv, SoundTree

\* A payment goes on to its source, or the process dies.
LEMMA HashTransactionOK ==
  ASSUME TInv, NEW t \in Thread, HashTransaction(t)
  PROVE  TInv'
<1>1. CASE has_account(thread[t].s)
  <2>1. MakesPayment(thread[t]) /\ thread[t].pc = "hash_t"
    BY PayingThread DEF HashTransaction, Runs, TInv
  <2>2. ThreadOK([thread[t] EXCEPT !.pc = "put_s"])
    BY <2>1, GoesOnOK DEF MakesPayment
  <2>3. ThreadsOK' /\ UNCHANGED account_tree
    BY <1>1, <2>2, GoToOK DEF HashTransaction, vars, TInv
  <2> QED
    BY <2>3 DEF TInv, SoundTree
<1> QED
  BY <1>1, DieOK DEF HashTransaction

\* A payment goes on to its destination, or the process dies.
LEMMA HashSourceOK ==
  ASSUME TInv, NEW t \in Thread, HashSource(t)
  PROVE  TInv'
<1>1. CASE has_account(thread[t].d)
  <2>1. MakesPayment(thread[t]) /\ thread[t].pc = "hash_s"
    BY PayingThread DEF HashSource, Runs, TInv
  <2>2. ThreadOK([thread[t] EXCEPT !.pc = "put_d"])
    BY <2>1, GoesOnOK DEF MakesPayment
  <2>3. ThreadsOK' /\ UNCHANGED account_tree
    BY <1>1, <2>2, GoToOK DEF HashSource, vars, TInv
  <2> QED
    BY <2>3 DEF TInv, SoundTree
<1> QED
  BY <1>1, DieOK DEF HashSource

\* Both writes of a payment.
LEMMA UpdateAccountOK ==
  ASSUME TInv, NEW t \in Thread, NEW a, NEW account, Sound(account),
         NEW pc \in {"put_s", "put_d"}, NEW next \in {"hash_s", "hash_d"},
         UpdateAccount(t, pc, a, account, next)
  PROVE  TInv'
<1> DEFINE p == thread[t]
           tree == [account_tree EXCEPT ![a] = account]
           change == [address |-> a, old |-> get_account_entry(a)]
<1>1. MakesPayment(p) /\ p.pc = pc
  BY PayingThread DEF UpdateAccount, Runs, TInv
<1>2. SoundTree(tree)
  BY DEF SoundTree, TInv
<1>3. account_tree' \in Changed(a, tree, p.raced)
  BY DEF UpdateAccount
<1>4. SoundTree(account_tree')
  BY <1>1, <1>2, <1>3, ChangedSound DEF TInv, MakesPayment
<1>5. AllSound(change.old)
  BY ReadSound DEF TInv
<1>6. ThreadOK([p EXCEPT !.pc = next, !.raced = {}])
  BY <1>1, GoesOnOK
<1>7. GoOn(t, [p EXCEPT !.pc = next, !.raced = {}], InAccountTree, change)
  BY DEF UpdateAccount
<1>8. ThreadsOK'
  BY <1>5, <1>6, <1>7, GoOnOK DEF TInv, InAccountTree
<1> QED
  BY <1>4, <1>8 DEF TInv

\* What a payment writes is what add_balance has made.
LEMMA UpdateOK ==
  ASSUME TInv, NEW t \in Thread, UpdateSource(t) \/ UpdateDestination(t)
  PROVE  TInv'
<1>1. MakesPayment(thread[t]) /\ thread[t].pc \in {"put_s", "put_d"}
  BY PayingThread DEF UpdateSource, UpdateDestination, TInv
<1>2. Sound(Debited(thread[t])) /\ Sound(Credited(thread[t]))
  BY <1>1, WrittenSound
<1> QED
  BY <1>2, UpdateAccountOK DEF UpdateSource, UpdateDestination

(***************************************************************************)
(* The inductive invariant is kept by every step of every thread, by a     *)
(* race and by the SIGALRM handler.                                        *)
(***************************************************************************)
LEMMA TInvStep ==
  ASSUME TInv, [ThreadsNext]_tvars
  PROVE  TInv'
<1>1. CASE UNCHANGED tvars
  BY <1>1 DEF tvars, vars, TInv, SoundTree, ThreadsOK
<1>2. ASSUME NEW t \in Thread, Begin(t)
      PROVE  TInv'
  BY <1>2, BeginOK
<1>3. ASSUME NEW t \in Thread, Step(t)
      PROVE  TInv'
  <2>1. CASE AddAccount(t)
    BY <2>1, AddAccountOK
  <2>2. CASE AddAccountAgain(t) \/ AddTransactionAgain(t)
    BY <2>2, DieOK DEF AddAccountAgain, AddTransactionAgain
  <2>3. CASE ReadDestination(t)
    BY <2>3, ReadDestinationOK
  <2>4. CASE AddTransaction(t)
    BY <2>4, AddTransactionOK
  <2>5. CASE HashTransaction(t)
    BY <2>5, HashTransactionOK
  <2>6. CASE UpdateSource(t) \/ UpdateDestination(t)
    BY <2>6, UpdateOK
  <2>7. CASE HashSource(t)
    BY <2>7, HashSourceOK
  <2>8. CASE EndOperation(t)
    <3>1. ThreadOK(Idle)
      BY DEF ThreadOK
    <3>2. ThreadsOK' /\ UNCHANGED account_tree
      BY <2>8, <3>1, GoToOK DEF EndOperation, vars, TInv
    <3> QED
      BY <3>2 DEF TInv, SoundTree
  <2> QED
    BY <1>3, <2>1, <2>2, <2>3, <2>4, <2>5, <2>6, <2>7, <2>8 DEF Step
<1>4. ASSUME NEW t \in Thread, TreeRace(t)
      PROVE  TInv'
  BY <1>4, DieOK DEF TreeRace
<1>5. ASSUME NEW x \in AlarmOn, Alarm(x)
      PROVE  TInv'
  <2>1. CASE Die("tree_race")
    BY <2>1, DieOK
  <2>2. CASE UNCHANGED <<vars, thread>>
    BY <2>2 DEF vars, TInv, SoundTree, ThreadsOK
  <2> QED
    BY <1>5, <2>1, <2>2 DEF Alarm
<1> QED
  BY <1>1, <1>2, <1>3, <1>4, <1>5 DEF ThreadsNext

(***************************************************************************)
(* No account is ever overdrawn, for any number of threads that change the *)
(* ledger at once without a lock (net.cpp:259 and 501): the test and the   *)
(* debit are made on the same copy of the account.                         *)
(***************************************************************************)
THEOREM NeverOverdrawnByThreads == ThreadsSpec => []NoOverdraft
<1>1. ThreadsInit => TInv
  BY DEF ThreadsInit, Init, TInv, SoundTree, ThreadsOK, ThreadOK
<1>2. TInv /\ [ThreadsNext]_tvars => TInv'
  BY TInvStep
<1>3. TInv => NoOverdraft
  BY DEF TInv, SoundTree, Sound, NoOverdraft, Balance
<1> QED
  BY <1>1, <1>2, <1>3, PTL DEF ThreadsSpec
==============================================================================
