--------------------------- MODULE LedgerRecoveryProofs ---------------------------
(***************************************************************************)
(* Proofs about LedgerRecovery, for any threads, addresses, amounts and    *)
(* bounds.  Until operations overlap there is at most one thread in the    *)
(* middle of an operation, the worker, though not always the same.         *)
(*                                                                         *)
(* Base says what the worker is doing and how far the cached hashes are    *)
(* behind the trees, in every phase.  Whole is the part that holds while   *)
(* the first row was not lost: the accounts in the tree, in the cached     *)
(* root and in the row have no links but to the transaction tree and, to   *)
(* the payment being made, none but the source that it has already         *)
(* debited; so a row that has the roots of the trees again, after work     *)
(* that went on beside the destructors, was written of these trees.        *)
(***************************************************************************)
EXTENDS LedgerRecovery, FiniteSetTheorems, TLAPS

\* Thread w is doing q, and the others nothing.
Just(w, q) == [t \in Thread |-> IF t = w THEN q ELSE Idle]
Alone(th, q) == \E w \in Thread : th = Just(w, q)

\* What the worker is doing.
work == CHOOSE q : Alone(thread, q)

\* The process has a ledger.
Alive == phase \in Serving

\* Sequences, and functions that are nothing but their values.
IsLog(log) == \E S : log \in Seq(S)
IsFcn(f) == f = [x \in DOMAIN f |-> f[x]]

\* Trees of accounts, the entries found in them, and their root hashes.
Accounts(f) == IsFcn(f) /\ \A a \in DOMAIN f : f[a].balance \in Int

Single(S) == \E x : S = {x} /\ x.balance \in Int

IsRoot(f) == IsFcn(f) /\ \A a \in DOMAIN f : f[a] = {} \/ Single(f[a])

\* What is found at an address, what a tree with digests dig has for its
\* root, and all that is in it.
Entry(tree, a) == {tree[x] : x \in {a} \cap DOMAIN tree}
RootOf(tree, dig) == [a \in DOMAIN tree |-> IF a \in dig THEN {tree[a]} ELSE {}]
Leaves(tree) == [a \in DOMAIN tree |-> {tree[a]}]

\* A thread in a payment.
PaymentAt(pc, s, d, amount, src, dst) ==
  [pc |-> pc, s |-> s, d |-> d, amount |-> amount,
   src |-> src, dst |-> dst, raced |-> {}]

\* Payment p at another pc.
At(p, pc) == PaymentAt(pc, p.s, p.d, p.amount, p.src, p.dst)

\* Its places, from read_d on.
PayingPcs == {"read_d", "put_t", "hash_t", "put_s", "hash_s", "put_d", "hash_d"}

\* What the worker has read for a payment.
HasRead(p) ==
  /\ Single(p.src) /\ Single(p.dst)
  /\ accepts(Only(p.src).balance, -p.amount)

\* The payment fits the trees: what it has read is still there, as it has
\* written it.
Pays(p, tree, log, dig) ==
  /\ p.pc \in PayingPcs
  /\ p = At(p, p.pc)
  /\ p.s \in Address /\ p.d \in Address /\ p.amount \in Amount
  /\ p.pc \in {"read_d", "put_t"} => Len(log) < MaxTransactions
  /\ p.pc = "read_d" => p.src = Entry(tree, p.s)
  /\ p.pc # "read_d" =>
       p.s \in DOMAIN tree /\ p.d \in DOMAIN tree /\ HasRead(p)
  /\ p.pc \in {"put_t", "hash_t", "put_s"} =>
       p.src = {tree[p.s]} /\ p.dst = {tree[p.d]}
  /\ p.pc \in {"hash_s", "put_d"} =>
       tree[p.s] = Debited(p) /\ p.s \in dig

Creates(p) ==
  p.pc = "put_a" /\ p.a \in Address /\ p = [pc |-> "put_a", a |-> p.a, raced |-> {}]

WorkOK(p, tree, log, dig) ==
  \/ p = Idle
  \/ p = [pc |-> "hash_a"]
  \/ Creates(p)
  \/ Pays(p, tree, log, dig)

\* The worker and the trees it works on.
WInv ==
  /\ Alone(thread, work)
  /\ WorkOK(work, account_tree, transaction_tree, digested)
  /\ Accounts(account_tree)
  /\ IsLog(transaction_tree)

\* The shapes of the ledger row and of the node database.
IsRow(r) ==
  /\ r = [account |-> r.account, transaction |-> r.transaction]
  /\ IsRoot(r.account) /\ IsLog(r.transaction)
IsDb(d) ==
  /\ d = [account_roots |-> d.account_roots,
          transaction_roots |-> d.transaction_roots,
          index |-> d.index, digest |-> d.digest,
          transactions |-> d.transactions]
  /\ Accounts(d.index)

NoTree == [a \in {} |-> Origin]

\* What there is on disk, and in memory, in each phase.
DInv ==
  /\ row = NoRow \/ IsRow(row)
  /\ IsDb(db)
  /\ phase \in Serving \cup {"down", "root", "loading", "leaving"}
  /\ phase = "root" => row # NoRow
  /\ ~ Alive => /\ account_tree = NoTree
                /\ transaction_tree = << >>
                /\ work = Idle
                /\ digested = {}
  /\ phase \in {"loading", "leaving"} /\ row # NoRow =>
       /\ account_tree_hash = row.account
       /\ transaction_tree_hash = row.transaction
  /\ phase = "loading" /\ row = NoRow =>
       /\ account_tree_hash = RootOf(NoTree, {})
       /\ transaction_tree_hash = << >>

\* How far the hashes are behind the trees.
HOK(p, tree, log, dig, ahash, thash) ==
  /\ p.pc # "hash_t" => thash = log
  /\ p.pc \notin {"hash_a", "hash_s", "hash_d"} => ahash = RootOf(tree, dig)

HInv ==
  phase \notin {"loading", "leaving"} =>
    HOK(work, account_tree, transaction_tree, digested,
        account_tree_hash, transaction_tree_hash)

-----------------------------------------------------------------------------
\* The steps of the worker, each with all that it does to the trees.
Quiet == UNCHANGED <<account_tree, transaction_tree>>
Becomes(q) ==
  \E w \in Thread : thread = Just(w, work) /\ thread' = Just(w, q)
Goes(q) == status' = "running" /\ Quiet /\ Becomes(q)

Dies ==
  /\ status' # "running" /\ Quiet /\ Becomes(Idle)
  /\ work.pc \notin {"hash_t", "hash_s", "hash_a", "hash_d"}
Rests == Quiet /\ thread' = thread
Returns == work.pc \in {"read_d", "hash_a", "hash_d"} /\ Goes(Idle)
BeginsCreate ==
  \E a \in Address : work = Idle /\ Goes([pc |-> "put_a", a |-> a, raced |-> {}])
BeginsPay ==
  \E s, d \in Address, amount \in Amount :
    /\ work = Idle
    /\ Len(transaction_tree) < MaxTransactions
    /\ Goes(PaymentAt("read_d", s, d, amount, Entry(account_tree, s), {}))
Reads ==
  LET q == PaymentAt("put_t", work.s, work.d, work.amount, work.src,
                     Entry(account_tree, work.d))
  IN  /\ work.pc = "read_d"
      /\ q.src # {} /\ q.dst # {}
      /\ accepts(Only(q.src).balance, -q.amount)
      /\ Goes(q)
Hashes(from, to) == work.pc = from /\ Goes(At(work, to))
NewAccount == [balance |-> InitialBalance, previous |-> Origin]
AddsAccount ==
  /\ work.pc = "put_a"
  /\ work.a \notin DOMAIN account_tree
  /\ account_tree' = [x \in DOMAIN account_tree \cup {work.a} |->
                        IF x = work.a THEN NewAccount ELSE account_tree[x]]
  /\ Becomes([pc |-> "hash_a"])
  /\ transaction_tree' = transaction_tree
  /\ status' = "running"
AddsTransaction ==
  /\ work.pc = "put_t"
  /\ \A i \in DOMAIN transaction_tree : transaction_tree[i] # Payment(work)
  /\ transaction_tree' = Append(transaction_tree, Payment(work))
  /\ Becomes(At(work, "hash_t"))
  /\ account_tree' = account_tree
  /\ status' = "running"
Writes(from, to, a, account) ==
  /\ work.pc = from
  /\ account_tree' = [account_tree EXCEPT ![a] = account]
  /\ Becomes(At(work, to))
  /\ transaction_tree' = transaction_tree
  /\ status' = "running"

WorkerStep ==
  \/ Dies \/ Rests \/ Returns \/ BeginsCreate \/ BeginsPay \/ Reads
  \/ Hashes("hash_t", "put_s") \/ Hashes("hash_s", "put_d")
  \/ AddsAccount \/ AddsTransaction
  \/ Writes("put_s", "hash_s", work.s, Debited(work))
  \/ Writes("put_d", "hash_d", work.d, Credited(work))

-----------------------------------------------------------------------------
\* The element of a set of one.
LEMMA OnlySingle ==
  ASSUME NEW x PROVE Only({x}) = x
BY DEF Only

\* Which thread is doing what.
LEMMA JustIs ==
  ASSUME NEW w \in Thread, NEW q
  PROVE  /\ Just(w, q)[w] = q
         /\ \A u \in Thread : u # w => Just(w, q)[u] = Idle
         /\ Alone(Just(w, q), q)
BY DEF Just, Alone

\* There is only one thing that the worker does.
LEMMA AloneOne ==
  ASSUME NEW th, NEW q, NEW r, Alone(th, q), Alone(th, r)
  PROVE  q = r
<1>1. PICK w \in Thread : th = Just(w, q)
  BY DEF Alone
<1>2. PICK v \in Thread : th = Just(v, r)
  BY DEF Alone
<1>3. CASE v = w
  <2>1. th[w] = q
    BY <1>1, JustIs
  <2>2. th[w] = r
    BY <1>2, <1>3, JustIs
  <2> QED
    BY <2>1, <2>2
<1>4. CASE v # w
  <2>1. th[w] = q /\ th[v] = Idle
    BY <1>1, <1>4, JustIs
  <2>2. th[v] = r /\ th[w] = Idle
    BY <1>2, <1>4, JustIs
  <2> QED
    BY <2>1, <2>2
<1> QED
  BY <1>3, <1>4

\* It is what work says, now ...
LEMMA WorkIsThat ==
  ASSUME NEW q, Alone(thread, q)
  PROVE  work = q /\ Alone(thread, work)
<1>1. Alone(thread, work)
  BY DEF work
<1> QED
  BY <1>1, AloneOne

\* ... and next.
LEMMA WorkNext ==
  ASSUME NEW q, Alone(thread', q)
  PROVE  work' = q /\ Alone(thread', work')
<1> PICK th : th = thread'
  OBVIOUS
<1> DEFINE r == CHOOSE x : Alone(th, x)
<1>1. Alone(th, r)
  <2>1. \E x : Alone(th, x)
    OBVIOUS
  <2> QED
    BY <2>1
<1>2. r = q
  BY <1>1, AloneOne
<1>3. work' = r
  BY DEF work
<1> QED
  BY <1>2, <1>3

\* Nobody does anything.
LEMMA NobodyWorks ==
  Alone([t \in Thread |-> Idle], Idle)
<1>1. PICK w : w \in Thread
  BY RecoveryAssumption
<1>2. Just(w, Idle) = [t \in Thread |-> Idle]
  BY DEF Just
<1> QED
  BY <1>1, <1>2 DEF Alone

\* A thread in the middle of an operation is the worker.
LEMMA TheWorker ==
  ASSUME Alone(thread, work), NEW t \in Thread, thread[t] # Idle
  PROVE  thread = Just(t, work) /\ thread[t] = work
<1>1. PICK w \in Thread : thread = Just(w, work)
  BY DEF Alone
<1>2. w = t
  BY <1>1, JustIs
<1> QED
  BY <1>1, <1>2, JustIs

\* What the thread operators of LedgerThreads do to the worker.
LEMMA GoOnIs ==
  ASSUME NEW t \in Thread, thread = Just(t, work),
         NEW q, NEW S, NEW c, S \subseteq {t}, GoOn(t, q, S, c)
  PROVE  Becomes(q)
<1>1. thread' = Just(t, q)
  <2>1. \A u \in Thread : u # t => thread[u] = Idle /\ u \notin S
    BY JustIs
  <2>2. thread' = [u \in Thread |->
                     IF u = t THEN q
                     ELSE IF u \in S
                     THEN [thread[u] EXCEPT !.raced = @ \cup {c}]
                     ELSE thread[u]]
    BY DEF GoOn
  <2>3. \A u \in Thread :
          (IF u = t THEN q
           ELSE IF u \in S
           THEN [thread[u] EXCEPT !.raced = @ \cup {c}]
           ELSE thread[u]) = (IF u = t THEN q ELSE Idle)
    BY <2>1
  <2> QED
    BY <2>2, <2>3 DEF Just
<1> QED
  BY <1>1 DEF Becomes

\* Nobody else has walked a tree.
LEMMA NobodyElse ==
  ASSUME NEW t \in Thread, thread = Just(t, work)
  PROVE  /\ InAccountTree \subseteq {t}
         /\ InTransactionTree \subseteq {t}
<1>1. \A u \in Thread : u # t => thread[u] = Idle
  BY JustIs
<1>2. Idle.pc = "idle"
  BY DEF Idle
<1> QED
  BY <1>1, <1>2 DEF InAccountTree, InTransactionTree

\* ... GoTo, for the next place of an operation.
LEMMA GoToIs ==
  ASSUME NEW t \in Thread, thread = Just(t, work), NEW q, GoTo(t, q)
  PROVE  Becomes(q)
<1>1. thread' = Just(t, q)
  BY DEF GoTo, Just
<1> QED
  BY <1>1 DEF Becomes

\* ... and Die, outside of the places where a hash is refreshed.
LEMMA DieIs ==
  ASSUME NEW why, why # "running", Die(why), Alone(thread, work),
         work.pc \notin {"hash_t", "hash_s", "hash_a", "hash_d"}
  PROVE  Dies
<1>1. PICK w \in Thread : thread = Just(w, work)
  BY DEF Alone
<1>2. thread' = Just(w, Idle)
  BY DEF Die, Just
<1>3. Becomes(Idle)
  BY <1>1, <1>2 DEF Becomes
<1> QED
  BY <1>3 DEF Die, Dies, Quiet

\* What the worker turns to is what it then does.
LEMMA WorkBecomes ==
  ASSUME NEW q, Becomes(q)
  PROVE  work' = q /\ Alone(thread', work')
BY JustIs, WorkNext DEF Becomes

\* The worker rests.
LEMMA BecomesSame ==
  ASSUME Alone(thread, work), thread' = thread
  PROVE  Becomes(work)
BY DEF Alone, Becomes

\* A thread that can take a step at pc is the worker there, if it is in the
\* middle of an operation.
LEMMA RunsAt ==
  ASSUME Alone(thread, work), NEW t \in Thread, NEW pc, pc # "idle",
         thread[t].pc = pc
  PROVE  /\ thread = Just(t, work) /\ thread[t] = work /\ work.pc = pc
         /\ InAccountTree \subseteq {t} /\ InTransactionTree \subseteq {t}
<1>1. thread[t] # Idle
  BY DEF Idle
<1> QED
  BY <1>1, TheWorker, NobodyElse

\* Without a race a change of the tree is exact.
LEMMA AloneChanged ==
  ASSUME NEW a, NEW tree
  PROVE  Changed(a, tree, {}) = {tree}
BY DEF Changed

\* get_account_entry, for a tree that is given.
LEMMA EntryIs ==
  ASSUME NEW a PROVE get_account_entry(a) = Entry(account_tree, a)
BY DEF get_account_entry, Entry

\* The records that a payment goes through are PaymentAt records.
LEMMA PaymentPcDst ==
  ASSUME NEW p, p = At(p, p.pc), NEW e
  PROVE  [p EXCEPT !.pc = "put_t", !.dst = e]
           = PaymentAt("put_t", p.s, p.d, p.amount, p.src, e)
<1>1. ASSUME NEW q, q = [p EXCEPT !.pc = "put_t", !.dst = e]
      PROVE  q = PaymentAt("put_t", p.s, p.d, p.amount, p.src, e)
  <2>1. /\ DOMAIN q = {"pc", "s", "d", "amount", "src", "dst", "raced"}
        /\ q = [x \in DOMAIN q |-> q[x]]
    BY <1>1 DEF PaymentAt, At
  <2>2. /\ q.pc = "put_t" /\ q.s = p.s /\ q.d = p.d /\ q.amount = p.amount
        /\ q.src = p.src /\ q.dst = e /\ q.raced = {}
    BY <1>1 DEF PaymentAt, At
  <2> QED
    BY <2>1, <2>2 DEF PaymentAt
<1> QED
  BY <1>1

\* A payment of which only the place changes ...
LEMMA PaymentPc ==
  ASSUME NEW p, p = At(p, p.pc), NEW pc
  PROVE  [p EXCEPT !.pc = pc] = At(p, pc)
<1>1. ASSUME NEW q, q = [p EXCEPT !.pc = pc]
      PROVE  q = At(p, pc)
  BY <1>1 DEF PaymentAt, At
<1> QED
  BY <1>1

\* ... and one that has changed a tree.
LEMMA PaymentPcRaced ==
  ASSUME NEW p, p = At(p, p.pc), NEW pc
  PROVE  [p EXCEPT !.pc = pc, !.raced = {}] = At(p, pc)
<1>1. ASSUME NEW q, q = [p EXCEPT !.pc = pc, !.raced = {}]
      PROVE  q = At(p, pc)
  BY <1>1 DEF PaymentAt, At
<1> QED
  BY <1>1

\* No thread is in a payment, so no transaction is under way.
LEMMA CardinalityOfNone == Cardinality({}) = 0
BY FS_EmptySet

\* Each step of LedgerThreads that does not overlap is a WorkerStep.  One
\* that begins an operation finds nobody else in the middle of one ...
LEMMA BeginsAlone ==
  ASSUME WInv, NEW t \in Thread, thread[t].pc = "idle", ~ Overlap',
         NEW q, q # Idle, GoTo(t, q)
  PROVE  thread = Just(t, work) /\ work = Idle
<1>1. PICK w \in Thread : thread = Just(w, work)
  BY DEF WInv, Alone
<1>2. thread[w] = work /\ \A u \in Thread : u # w => thread[u] = Idle
  BY <1>1, JustIs
<1>3. work.pc = "idle" => work = Idle
  BY DEF WInv, WorkOK, Creates, Pays, PayingPcs
<1>4. CASE w = t
  BY <1>1, <1>2, <1>3, <1>4
<1>5. CASE w # t
  <2>1. /\ thread' = [thread EXCEPT ![t] = q]
        /\ thread = [u \in Thread |-> IF u = w THEN work ELSE Idle]
    BY <1>1 DEF GoTo, Just
  <2>2. thread'[t] = q /\ thread'[w] = work
    BY <1>5, <2>1
  <2>3. work = Idle
    BY <1>5, <2>2 DEF Overlap
  <2>4. Just(w, Idle) = Just(t, Idle)
    BY DEF Just
  <2> QED
    BY <1>1, <2>3, <2>4
<1> QED
  BY <1>4, <1>5

\* ... and is the worker from then on.
LEMMA BeginIs ==
  ASSUME WInv, NEW t \in Thread, Begin(t), ~ Overlap'
  PROVE  WorkerStep
<1>1. ASSUME NEW a \in Address, BeginCreate(t, a) PROVE BeginsCreate
  <2> DEFINE q == [pc |-> "put_a", a |-> a, raced |-> {}]
  <2>1. q # Idle
    BY DEF Idle
  <2>2. thread[t].pc = "idle" /\ GoTo(t, q)
    BY <1>1 DEF BeginCreate, Runs
  <2> HIDE DEF q
  <2>3. thread = Just(t, work) /\ work = Idle
    BY <2>1, <2>2, BeginsAlone
  <2>4. Becomes(q)
    BY <2>2, <2>3, GoToIs
  <2> QED
    BY <1>1, <2>3, <2>4 DEF BeginCreate, Runs, BeginsCreate, Goes, Quiet, vars, q
<1>2. ASSUME NEW a \in Address, QueryBalance(t, a) PROVE Rests
  BY <1>2 DEF QueryBalance, GetBalance, Rests, Quiet
<1>3. ASSUME NEW s \in Address, NEW d \in Address, NEW amount \in Amount,
             BeginPay(t, s, d, amount)
      PROVE  BeginsPay
  <2> DEFINE q == PaymentAt("read_d", s, d, amount, Entry(account_tree, s), {})
  <2>1. q # Idle
    <3>1. q.pc # Idle.pc
      BY DEF Idle, PaymentAt
    <3> QED
      BY <3>1
  <2>2. thread[t].pc = "idle" /\ GoTo(t, q)
    BY <1>3, EntryIs DEF BeginPay, Runs, PaymentAt
  <2> HIDE DEF q
  <2>3. thread = Just(t, work) /\ work = Idle
    BY <2>1, <2>2, BeginsAlone
  <2>4. Becomes(q)
    BY <2>2, <2>3, GoToIs
  <2>5. Paying = {}
    <3>1. \A u \in Thread : thread[u] = Idle
      BY <2>3, JustIs
    <3> QED
      BY <3>1 DEF Paying, Idle
  <2>6. Len(transaction_tree) < MaxTransactions
    <3>1. Cardinality(Paying) = 0
      BY <2>5, CardinalityOfNone
    <3>2. Len(transaction_tree) \in Nat
      BY DEF WInv, IsLog
    <3> QED
      BY <1>3, <3>1, <3>2 DEF BeginPay
  <2> QED
    BY <1>3, <2>3, <2>4, <2>6
    DEF BeginPay, Runs, BeginsPay, Goes, Quiet, vars, q
<1> QED
  BY <1>1, <1>2, <1>3 DEF Begin, WorkerStep

\* ... create_account: the new leaf, or the assertion ...
LEMMA AddAccountIs ==
  ASSUME WInv, NEW t \in Thread, AddAccount(t) \/ AddAccountAgain(t)
  PROVE  WorkerStep
<1>0. /\ thread = Just(t, work) /\ thread[t] = work /\ work.pc = "put_a"
      /\ InAccountTree \subseteq {t} /\ Alone(thread, work)
  BY RunsAt DEF WInv, AddAccount, AddAccountAgain, Runs
<1>1. CASE AddAccount(t)
  <2>1. work.pc = "put_a" /\ Creates(work)
    BY <1>0 DEF WInv, WorkOK, Idle, Pays, PayingPcs
  <2>2. work.raced = {}
    BY <2>1 DEF Creates
  <2>3. work.a \notin DOMAIN account_tree
    BY <1>0, <1>1, <2>2 DEF AddAccount, has_account
  <2> DEFINE tree == [x \in DOMAIN account_tree \cup {work.a} |->
                        IF x = work.a THEN NewAccount ELSE account_tree[x]]
  <2>4. account_tree' = tree
    <3>1. account_tree' \in Changed(work.a, tree, work.raced)
      BY <1>0, <1>1 DEF AddAccount, NewAccount
    <3> HIDE DEF tree
    <3> QED
      BY <3>1, <2>2, AloneChanged
  <2>5. Becomes([pc |-> "hash_a"])
    BY <1>0, <1>1, GoOnIs DEF AddAccount
  <2> QED
    BY <1>1, <2>1, <2>3, <2>4, <2>5 DEF AddAccount, Runs, AddsAccount, WorkerStep
<1>2. CASE AddAccountAgain(t)
  BY <1>0, <1>2, DieIs DEF AddAccountAgain, WorkerStep
<1> QED
  BY <1>1, <1>2

\* At the places of a payment the worker has a payment.
LEMMA PayingIs ==
  ASSUME WInv, work.pc \in PayingPcs
  PROVE  Pays(work, account_tree, transaction_tree, digested)
BY DEF WInv, WorkOK, Idle, Creates, PayingPcs

\* ... the decision of add_transaction_entry ...
LEMMA ReadDestinationIs ==
  ASSUME WInv, NEW t \in Thread, ReadDestination(t)
  PROVE  WorkerStep
<1>0. thread = Just(t, work) /\ thread[t] = work /\ Alone(thread, work)
  BY RunsAt DEF WInv, ReadDestination, Runs
<1>1. work.pc = "read_d"
  BY <1>0 DEF ReadDestination, Runs
<1>2. work = At(work, work.pc)
  BY <1>1, PayingIs DEF Pays, PayingPcs
<1> DEFINE p == [work EXCEPT !.pc = "put_t", !.dst = get_account_entry(work.d)]
           q == PaymentAt("put_t", work.s, work.d, work.amount, work.src,
                          Entry(account_tree, work.d))
           refused == ~ accepts(Only(p.src).balance, -p.amount)
<1>3. p = q
  <2> DEFINE e == get_account_entry(work.d)
  <2> HIDE DEF e
  <2>1. [work EXCEPT !.pc = "put_t", !.dst = e]
          = PaymentAt("put_t", work.s, work.d, work.amount, work.src, e)
    BY <1>2, PaymentPcDst, Zenon
  <2> QED
    BY <2>1, EntryIs DEF e
<1>4. IF p.src = {} \/ (~ refused /\ p.dst = {})
      THEN Die("null_account")
      ELSE GoTo(t, IF refused THEN Idle ELSE p) /\ UNCHANGED <<vars, stuck>>
  BY <1>0 DEF ReadDestination
<1>5. status = "running"
  BY DEF ReadDestination, Runs
<1> HIDE DEF p
<1>6. CASE Die("null_account")
  BY <1>0, <1>1, <1>6, DieIs DEF WorkerStep
<1>7. CASE GoTo(t, Idle) /\ UNCHANGED <<vars, stuck>>
  BY <1>0, <1>1, <1>5, <1>7, GoToIs DEF WorkerStep, Returns, Goes, Quiet, vars
<1>8. CASE /\ GoTo(t, p) /\ UNCHANGED <<vars, stuck>>
           /\ ~ refused /\ p.src # {} /\ p.dst # {}
  <2>1. Becomes(q)
    BY <1>0, <1>8, <1>3, GoToIs
  <2>2. Reads
    BY <1>1, <1>3, <1>5, <1>8, <2>1 DEF Reads, Goes, Quiet, vars
  <2> QED
    BY <2>2 DEF WorkerStep
<1> QED
  BY <1>4, <1>6, <1>7, <1>8

\* A payment at another place has the same fields.
LEMMA PaymentFields ==
  ASSUME NEW p, NEW pc
  PROVE  /\ At(p, pc).pc = pc
         /\ At(p, pc).s = p.s
         /\ At(p, pc).d = p.d
         /\ At(p, pc).amount = p.amount
         /\ At(p, pc).src = p.src
         /\ At(p, pc).dst = p.dst
         /\ At(p, pc).raced = {}
BY DEF At, PaymentAt

\* ... its transaction ...
LEMMA AddTransactionIs ==
  ASSUME WInv, NEW t \in Thread, AddTransaction(t) \/ AddTransactionAgain(t)
  PROVE  WorkerStep
<1>0. /\ thread = Just(t, work) /\ thread[t] = work /\ work.pc = "put_t"
      /\ InTransactionTree \subseteq {t} /\ Alone(thread, work)
  BY RunsAt DEF WInv, AddTransaction, AddTransactionAgain, Runs
<1>1. CASE AddTransaction(t)
  <2>1. work.pc = "put_t" /\ work = At(work, work.pc)
    BY <1>0, PayingIs DEF Pays, PayingPcs
  <2>2. work.raced = {}
    BY <2>1, PaymentFields
  <2> DEFINE tx == Payment(work)
             tree == IF tx \in Entries THEN transaction_tree
                                       ELSE Append(transaction_tree, tx)
  <2>3. tx \notin Entries
    BY <1>0, <1>1, <2>2 DEF AddTransaction
  <2>4. transaction_tree' = Append(transaction_tree, tx)
    <3> DEFINE p == thread[t]
               new == IF Payment(p) \in Entries THEN transaction_tree
                      ELSE Append(transaction_tree, Payment(p))
    <3>1. transaction_tree' \in
            {new} \cup {transaction_tree : w \in p.raced}
                  \cup {SelectSeq(new, LAMBDA x : x # w) :
                          w \in p.raced \ {Payment(p)}}
      BY <1>1 DEF AddTransaction
    <3>2. p.raced = {} /\ Payment(p) = tx
      BY <1>0, <2>2
    <3> HIDE DEF tx, p
    <3>3. transaction_tree' = new
      BY <3>1, <3>2
    <3> QED
      BY <2>3, <3>2, <3>3
  <2>5. GoOn(t, [work EXCEPT !.pc = "hash_t", !.raced = {}],
             InTransactionTree, tx)
    BY <1>0, <1>1 DEF AddTransaction
  <2>6. Becomes(At(work, "hash_t"))
    <3>1. [work EXCEPT !.pc = "hash_t", !.raced = {}] = At(work, "hash_t")
      BY <2>1, PaymentPcRaced, Zenon
    <3> HIDE DEF tx
    <3> QED
      BY <1>0, <2>5, <3>1, GoOnIs
  <2>7. \A i \in DOMAIN transaction_tree : transaction_tree[i] # Payment(work)
    BY <2>3 DEF Entries
  <2> QED
    BY <1>1, <2>1, <2>4, <2>6, <2>7
    DEF AddTransaction, Runs, AddsTransaction, WorkerStep
<1>2. CASE AddTransactionAgain(t)
  BY <1>0, <1>2, DieIs DEF AddTransactionAgain, WorkerStep
<1> QED
  BY <1>1, <1>2

\* ... the refresh after it ...
LEMMA HashTransactionIs ==
  ASSUME WInv, NEW t \in Thread, HashTransaction(t)
  PROVE  WorkerStep
<1>0. thread = Just(t, work) /\ thread[t] = work
  BY RunsAt DEF WInv, HashTransaction, Runs
<1>1. work.pc = "hash_t" /\ status = "running"
  BY <1>0 DEF HashTransaction, Runs
<1>2. work = At(work, work.pc) /\ work.s \in DOMAIN account_tree
  BY <1>1, PayingIs DEF Pays, PayingPcs
<1>3. GoTo(t, [work EXCEPT !.pc = "put_s"]) /\ UNCHANGED <<vars, stuck>>
  BY <1>0, <1>2 DEF HashTransaction, has_account
<1>4. Becomes(At(work, "put_s"))
  <2>1. [work EXCEPT !.pc = "put_s"] = At(work, "put_s")
    BY <1>2, PaymentPc, Zenon
  <2> QED
    BY <1>0, <1>3, <2>1, GoToIs
<1> QED
  BY <1>1, <1>3, <1>4 DEF WorkerStep, Hashes, Goes, Quiet, vars

\* ... the refresh after the source ...
LEMMA HashSourceIs ==
  ASSUME WInv, NEW t \in Thread, HashSource(t)
  PROVE  WorkerStep
<1>0. thread = Just(t, work) /\ thread[t] = work
  BY RunsAt DEF WInv, HashSource, Runs
<1>1. work.pc = "hash_s" /\ status = "running"
  BY <1>0 DEF HashSource, Runs
<1>2. work = At(work, work.pc) /\ work.d \in DOMAIN account_tree
  BY <1>1, PayingIs DEF Pays, PayingPcs
<1>3. GoTo(t, [work EXCEPT !.pc = "put_d"]) /\ UNCHANGED <<vars, stuck>>
  BY <1>0, <1>2 DEF HashSource, has_account
<1>4. Becomes(At(work, "put_d"))
  <2>1. [work EXCEPT !.pc = "put_d"] = At(work, "put_d")
    BY <1>2, PaymentPc, Zenon
  <2> QED
    BY <1>0, <1>3, <2>1, GoToIs
<1> QED
  BY <1>1, <1>3, <1>4 DEF WorkerStep, Hashes, Goes, Quiet, vars

\* ... an update_account_entry ...
LEMMA UpdateAccountIs ==
  ASSUME WInv, NEW t \in Thread, NEW pc \in {"put_s", "put_d"}, NEW a,
         NEW account, NEW next, UpdateAccount(t, pc, a, account, next)
  PROVE  Writes(pc, next, a, account)
<1>0. /\ thread = Just(t, work) /\ thread[t] = work
      /\ InAccountTree \subseteq {t}
  <2>1. thread[t].pc = pc /\ pc # "idle"
    BY DEF UpdateAccount, Runs
  <2> QED
    BY <2>1, RunsAt DEF WInv
<1>1. work.pc = pc /\ status = "running"
  BY <1>0 DEF UpdateAccount, Runs
<1>2. work = At(work, work.pc)
  BY <1>1, PayingIs DEF Pays, PayingPcs
<1>3. work.raced = {}
  BY <1>2, PaymentFields
<1> DEFINE tree == [account_tree EXCEPT ![a] = account]
           change == [address |-> a, old |-> get_account_entry(a)]
<1>4. account_tree' \in Changed(a, tree, work.raced)
  BY <1>0 DEF UpdateAccount
<1>5. account_tree' = tree
  <2> HIDE DEF tree
  <2> QED
    BY <1>3, <1>4, AloneChanged
<1>6. GoOn(t, [work EXCEPT !.pc = next, !.raced = {}], InAccountTree, change)
  BY <1>0 DEF UpdateAccount
<1>7. Becomes(At(work, next))
  <2>1. [work EXCEPT !.pc = next, !.raced = {}] = At(work, next)
    BY <1>2, PaymentPcRaced, Zenon
  <2> HIDE DEF change
  <2> QED
    BY <1>0, <1>6, <2>1, GoOnIs
<1> QED
  BY <1>1, <1>5, <1>7 DEF UpdateAccount, Writes

\* ... of the source and of the destination.
LEMMA UpdateIs ==
  ASSUME WInv, NEW t \in Thread, UpdateSource(t) \/ UpdateDestination(t)
  PROVE  WorkerStep
<1>1. thread[t] = work
  BY RunsAt DEF WInv, UpdateSource, UpdateDestination
<1> QED
  BY <1>1, UpdateAccountIs DEF UpdateSource, UpdateDestination, WorkerStep

\* All of them, and the alarm.
LEMMA ThreadsNextIs ==
  ASSUME WInv, ThreadsNext, ~ Overlap'
  PROVE  WorkerStep
<1>0. Alone(thread, work)
  BY DEF WInv
<1>1. ASSUME NEW t \in Thread, EndOperation(t) PROVE WorkerStep
  <2>1. thread = Just(t, work) /\ thread[t] = work
    BY <1>0, <1>1, RunsAt DEF EndOperation
  <2> QED
    BY <1>1, <2>1, GoToIs
    DEF EndOperation, WorkerStep, Returns, Goes, Quiet, vars
<1>2. ASSUME NEW t \in Thread, Step(t) PROVE WorkerStep
  BY <1>1, <1>2, AddAccountIs, ReadDestinationIs, AddTransactionIs,
     HashTransactionIs, HashSourceIs, UpdateIs DEF Step
<1>3. ASSUME InAccountTree # {}, Die("tree_race") PROVE Dies
  <2>1. PICK u \in Thread : thread[u].pc \in {"put_a", "put_s", "put_d"}
    BY <1>3 DEF InAccountTree
  <2>2. work.pc \in {"put_a", "put_s", "put_d"}
    BY <1>0, <2>1, RunsAt
  <2> QED
    BY <1>0, <1>3, <2>2, DieIs
<1>4. ASSUME NEW t \in Thread, TreeRace(t) PROVE WorkerStep
  <2>1. ASSUME t \in InTransactionTree, InTransactionTree \ {t} # {}
        PROVE  FALSE
    BY <1>0, <2>1, RunsAt DEF InTransactionTree
  <2> QED
    BY <1>3, <1>4, <2>1 DEF TreeRace, WorkerStep
<1>5. ASSUME NEW x, Alarm(x)
      PROVE  WorkerStep
  <2>1. ASSUME UNCHANGED <<vars, thread>> PROVE Rests
    BY <2>1 DEF Rests, Quiet, vars
  <2> QED
    BY <1>3, <1>5, <2>1 DEF Alarm, WorkerStep
<1> QED
  BY <1>2, <1>4, <1>5, BeginIs DEF ThreadsNext

-----------------------------------------------------------------------------
\* The steps of the worker, with what becomes of the hashes.
Unhashed == UNCHANGED <<digested, account_tree_hash, transaction_tree_hash>>

WHashes(from) ==
  /\ digested' = digested
  /\ transaction_tree_hash' =
       IF from = "hash_t" THEN transaction_tree ELSE transaction_tree_hash
  /\ account_tree_hash' =
       IF from = "hash_t" THEN account_tree_hash
       ELSE RootOf(account_tree, digested)

Digests(more) ==
  /\ digested' = digested \cup more
  /\ UNCHANGED <<account_tree_hash, transaction_tree_hash>>

HashedStep ==
  \/ Dies /\ Unhashed
  \/ Rests /\ Unhashed
  \/ work.pc = "read_d" /\ Goes(Idle) /\ Unhashed
  \/ work.pc \in {"hash_a", "hash_d"} /\ Goes(Idle) /\ WHashes(work.pc)
  \/ BeginsCreate /\ Unhashed
  \/ BeginsPay /\ Unhashed
  \/ Reads /\ Unhashed
  \/ Hashes("hash_t", "put_s") /\ WHashes("hash_t")
  \/ Hashes("hash_s", "put_d") /\ WHashes("hash_s")
  \/ /\ AddsAccount
     /\ digested' \subseteq digested
     /\ UNCHANGED <<account_tree_hash, transaction_tree_hash>>
  \/ AddsTransaction /\ Unhashed
  \/ Writes("put_s", "hash_s", work.s, Debited(work)) /\ Digests({work.s})
  \/ Writes("put_d", "hash_d", work.d, Credited(work)) /\ Digests({work.d})

\* The worker has left its place, or nobody has.
LEMMA LeftIs ==
  ASSUME NEW w \in Thread, thread = Just(w, work), NEW q,
         thread' = Just(w, q), NEW pc, pc # "idle"
  PROVE  Left(pc) = IF work.pc = pc /\ q.pc # pc THEN {w} ELSE {}
<1>1. /\ thread[w] = work /\ thread'[w] = q
      /\ \A u \in Thread : u # w => thread[u] = Idle
  BY JustIs
<1>2. Idle.pc = "idle"
  BY DEF Idle
<1> QED
  BY <1>1, <1>2 DEF Left

\* AccountRoot, for a tree and digests that are given.
LEMMA RootIs == AccountRoot = RootOf(account_tree, digested)
BY DEF AccountRoot, RootOf

\* No thread has left a place where hashes change.
LEMMA HashingNothing ==
  ASSUME NEW q, Becomes(q), Hashing,
         \/ q.pc = work.pc
         \/ work.pc \notin {"put_a", "put_s", "put_d", "hash_t", "hash_a",
                            "hash_s", "hash_d"}
  PROVE  Unhashed
<1>1. \A pc \in {"put_a", "put_s", "put_d", "hash_t", "hash_a", "hash_s",
                 "hash_d"} : Left(pc) = {}
  BY LeftIs DEF Becomes
<1> HIDE DEF Left
<1> QED
  BY <1>1 DEF Hashing, Unhashed

\* The worker has left a place where a cached hash is refreshed.
LEMMA HashingHash ==
  ASSUME NEW q, Becomes(q), Hashing,
         work.pc \in {"hash_t", "hash_a", "hash_s", "hash_d"}, q.pc # work.pc
  PROVE  WHashes(work.pc)
<1>0. PICK w \in Thread : thread = Just(w, work) /\ thread' = Just(w, q)
  BY DEF Becomes
<1>1. \A pc \in {"put_a", "put_s", "put_d"} : Left(pc) = {}
  BY <1>0, LeftIs
<1>2. /\ Left(work.pc) = {w}
      /\ work.pc # "hash_t" => Left("hash_t") = {}
      /\ work.pc = "hash_t" => /\ Left("hash_a") = {}
                               /\ Left("hash_s") = {}
                               /\ Left("hash_d") = {}
  BY <1>0, LeftIs
<1>3. digested' = digested
  BY <1>1 DEF Hashing
<1>4. transaction_tree_hash' =
        IF work.pc = "hash_t" THEN transaction_tree ELSE transaction_tree_hash
  BY <1>2 DEF Hashing, TransactionRoot
<1>5. account_tree_hash' =
        IF work.pc = "hash_t" THEN account_tree_hash
        ELSE RootOf(account_tree, digested)
  <2>1. CASE work.pc = "hash_t"
    BY <1>2, <2>1 DEF Hashing
  <2>2. CASE work.pc # "hash_t"
    <3>1. Left("hash_a") \cup Left("hash_s") \cup Left("hash_d") # {}
      BY <1>2, <2>2
    <3> QED
      BY <2>2, <3>1, RootIs DEF Hashing
  <2> QED
    BY <2>1, <2>2
<1> QED
  BY <1>3, <1>4, <1>5 DEF WHashes

\* The worker has left a place where a tree changes.
LEMMA HashingPut ==
  ASSUME NEW q, Becomes(q), Hashing,
         q.pc # work.pc
  PROVE  /\ work.pc = "put_s" => Digests({work.s})
         /\ work.pc = "put_d" => Digests({work.d})
         /\ work.pc = "put_a" =>
              /\ digested' \subseteq digested
              /\ UNCHANGED <<account_tree_hash, transaction_tree_hash>>
<1>0. PICK w \in Thread : /\ thread = Just(w, work) /\ thread' = Just(w, q)
                          /\ thread[w] = work
  BY JustIs DEF Becomes
<1>1. work.pc \in {"put_a", "put_s", "put_d"} =>
        \A pc \in {"hash_t", "hash_a", "hash_s", "hash_d"} : Left(pc) = {}
  BY <1>0, LeftIs
<1>2. work.pc \in {"put_a", "put_s", "put_d"} =>
        UNCHANGED <<account_tree_hash, transaction_tree_hash>>
  BY <1>1 DEF Hashing
<1>3. ASSUME work.pc = "put_s" PROVE digested' = digested \cup {work.s}
  <2>1. /\ Left("put_a") = {} /\ Left("put_d") = {}
        /\ Left("put_s") = {w}
    BY <1>0, <1>3, LeftIs
  <2> QED
    BY <1>0, <2>1 DEF Hashing
<1>4. ASSUME work.pc = "put_d" PROVE digested' = digested \cup {work.d}
  <2>1. /\ Left("put_a") = {} /\ Left("put_s") = {}
        /\ Left("put_d") = {w}
    BY <1>0, <1>4, LeftIs
  <2> QED
    BY <1>0, <2>1 DEF Hashing
<1>5. ASSUME work.pc = "put_a" PROVE digested' \subseteq digested
  <2>1. Left("put_a") # {}
    BY <1>0, <1>5, LeftIs
  <2> QED
    BY <2>1 DEF Hashing
<1> QED
  BY <1>2, <1>3, <1>4, <1>5 DEF Digests

\* Work takes one of the steps of HashedStep.
LEMMA WorkIs ==
  ASSUME WInv, Work, ~ overlapped'
  PROVE  HashedStep
<1>0. Alone(thread, work)
  BY DEF WInv
<1>1. WorkerStep
  BY ThreadsNextIs DEF Work
<1>2. status' # "running" => Unhashed
  BY DEF Work, Unhashed, hashes
<1>3. status' = "running" => Hashing
  BY DEF Work
<1>4. CASE Dies
  BY <1>2, <1>4 DEF Dies, HashedStep
<1>5. CASE Rests
  BY <1>0, <1>2, <1>3, <1>5, BecomesSame, HashingNothing DEF Rests, HashedStep
<1>6. CASE Returns
  <2>1. status' = "running" /\ Becomes(Idle) /\ Goes(Idle)
    BY <1>6 DEF Returns, Goes
  <2>2. Idle.pc = "idle"
    BY DEF Idle
  <2>3. CASE work.pc = "read_d"
    BY <1>3, <2>1, <2>3, HashingNothing DEF HashedStep
  <2>4. CASE work.pc \in {"hash_a", "hash_d"}
    <3>1. WHashes(work.pc)
      BY <1>3, <2>1, <2>2, <2>4, HashingHash
    <3> QED
      BY <2>1, <2>4, <3>1 DEF HashedStep
  <2> QED
    BY <1>6, <2>3, <2>4 DEF Returns
<1>7. CASE BeginsCreate
  <2>1. PICK q : Becomes(q) /\ status' = "running" /\ work = Idle
    BY <1>7 DEF BeginsCreate, Goes
  <2>2. Unhashed
    BY <1>3, <2>1, HashingNothing DEF Idle
  <2> QED
    BY <1>7, <2>2 DEF HashedStep
<1>8. CASE BeginsPay
  <2>1. PICK q : Becomes(q) /\ status' = "running" /\ work = Idle
    BY <1>8 DEF BeginsPay, Goes
  <2>2. Unhashed
    BY <1>3, <2>1, HashingNothing DEF Idle
  <2> QED
    BY <1>8, <2>2 DEF HashedStep
<1>9. CASE Reads
  <2>1. PICK q : Becomes(q) /\ status' = "running" /\ work.pc = "read_d"
    BY <1>9 DEF Reads, Goes
  <2>2. Unhashed
    BY <1>3, <2>1, HashingNothing
  <2> QED
    BY <1>9, <2>2 DEF HashedStep
<1>10. CASE Hashes("hash_t", "put_s")
  <2>1. /\ Becomes(At(work, "put_s")) /\ status' = "running"
        /\ work.pc = "hash_t"
    BY <1>10 DEF Hashes, Goes
  <2>2. WHashes("hash_t")
    BY <1>3, <2>1, HashingHash, PaymentFields
  <2> QED
    BY <1>10, <2>2 DEF HashedStep
<1>11. CASE Hashes("hash_s", "put_d")
  <2>1. /\ Becomes(At(work, "put_d")) /\ status' = "running"
        /\ work.pc = "hash_s"
    BY <1>11 DEF Hashes, Goes
  <2>2. WHashes("hash_s")
    BY <1>3, <2>1, HashingHash, PaymentFields
  <2> QED
    BY <1>11, <2>2 DEF HashedStep
<1>12. CASE AddsAccount
  <2> DEFINE q == [pc |-> "hash_a"]
  <2>1. Becomes(q) /\ status' = "running" /\ work.pc = "put_a"
    BY <1>12 DEF AddsAccount
  <2>2. q.pc # work.pc
    BY <2>1
  <2> HIDE DEF q
  <2>3. /\ digested' \subseteq digested
        /\ UNCHANGED <<account_tree_hash, transaction_tree_hash>>
    BY <1>3, <2>1, <2>2, HashingPut
  <2> QED
    BY <1>12, <2>3 DEF HashedStep
<1>13. CASE AddsTransaction
  <2>1. PICK q : Becomes(q) /\ status' = "running" /\ work.pc = "put_t"
    BY <1>13 DEF AddsTransaction
  <2>2. Unhashed
    BY <1>3, <2>1, HashingNothing
  <2> QED
    BY <1>13, <2>2 DEF HashedStep
<1>14. CASE Writes("put_s", "hash_s", work.s, Debited(work))
  <2>1. /\ Becomes(At(work, "hash_s")) /\ status' = "running"
        /\ work.pc = "put_s"
    BY <1>14 DEF Writes
  <2>2. Digests({work.s})
    BY <1>3, <2>1, HashingPut, PaymentFields
  <2> QED
    BY <1>14, <2>2 DEF HashedStep
<1>15. CASE Writes("put_d", "hash_d", work.d, Credited(work))
  <2>1. /\ Becomes(At(work, "hash_d")) /\ status' = "running"
        /\ work.pc = "put_d"
    BY <1>15 DEF Writes
  <2>2. Digests({work.d})
    BY <1>3, <2>1, HashingPut, PaymentFields
  <2> QED
    BY <1>15, <2>2 DEF HashedStep
<1> QED
  BY <1>1, <1>4, <1>5, <1>6, <1>7, <1>8, <1>9, <1>10, <1>11, <1>12, <1>13,
     <1>14, <1>15 DEF WorkerStep

-----------------------------------------------------------------------------
\* An entry that was found is that of the tree.
LEMMA EntrySingle ==
  ASSUME NEW tree, NEW a, Entry(tree, a) # {}
  PROVE  a \in DOMAIN tree /\ Entry(tree, a) = {tree[a]}
BY DEF Entry

\* What a payment makes of the accounts it has read.
LEMMA WrittenBalances ==
  ASSUME NEW p, HasRead(p), p.amount \in Amount
  PROVE  Debited(p).balance \in Int /\ Credited(p).balance \in Int
<1>1. Only(p.src).balance \in Int /\ Only(p.dst).balance \in Int
  BY OnlySingle DEF HasRead, Single
<1>2. p.amount \in Int
  BY LedgerAssumption
<1>3. /\ add_balance(Only(p.src).balance, -p.amount) \in Int
      /\ add_balance(Only(p.dst).balance, p.amount) \in Int
  BY <1>1, <1>2 DEF add_balance
<1> QED
  BY <1>3 DEF Debited, Credited

\* A tree of accounts stays one when an account is written.
LEMMA AccountsWritten ==
  ASSUME NEW tree, Accounts(tree), NEW a, NEW account, account.balance \in Int
  PROVE  /\ Accounts([tree EXCEPT ![a] = account])
         /\ DOMAIN [tree EXCEPT ![a] = account] = DOMAIN tree
BY DEF Accounts, IsFcn

\* Appending to a transaction tree.
LEMMA LogAppend ==
  ASSUME NEW log, IsLog(log), NEW tx
  PROVE  /\ IsLog(Append(log, tx))
         /\ Len(log) \in Nat
         /\ DOMAIN log = 1..Len(log)
         /\ Len(Append(log, tx)) = Len(log) + 1
         /\ DOMAIN Append(log, tx) = 1..(Len(log) + 1)
         /\ \A i \in DOMAIN log : Append(log, tx)[i] = log[i]
         /\ Append(log, tx)[Len(log) + 1] = tx
<1>1. PICK S : log \in Seq(S)
  BY DEF IsLog
<1>2. log \in Seq(S \cup {tx})
  BY <1>1
<1>3. Append(log, tx) \in Seq(S \cup {tx})
  BY <1>2
<1> QED
  BY <1>2, <1>3 DEF IsLog

\* What the parts of a payment that were read say of it at another pc.
LEMMA AtHasRead ==
  ASSUME NEW p, NEW pc
  PROVE  /\ HasRead(At(p, pc)) <=> HasRead(p)
         /\ Payment(At(p, pc)) = Payment(p)
         /\ Debited(At(p, pc)) = Debited(p)
         /\ Credited(At(p, pc)) = Credited(p)
         /\ At(At(p, pc), pc) = At(p, pc)
<1> DEFINE q == At(p, pc)
<1>1. /\ q.pc = pc /\ q.s = p.s /\ q.d = p.d /\ q.amount = p.amount
      /\ q.src = p.src /\ q.dst = p.dst
  BY PaymentFields
<1> HIDE DEF q
<1>2. HasRead(q) <=> HasRead(p)
  BY <1>1 DEF HasRead
<1>3. Payment(q) = Payment(p)
  BY <1>1 DEF Payment
<1>4. Debited(q) = Debited(p) /\ Credited(q) = Credited(p)
  BY <1>1, <1>3 DEF Debited, Credited
<1>5. At(q, pc) = At(p, pc)
  BY <1>1 DEF At
<1> QED
  BY <1>2, <1>3, <1>4, <1>5 DEF q

\* WInv, for a worker and trees that are given.
WOK(p, tree, log, dig) ==
  WorkOK(p, tree, log, dig) /\ Accounts(tree) /\ IsLog(log)

\* The worker between two of its places, with the trees as they are.
LEMMA GoesWOK ==
  ASSUME NEW p, NEW tree, NEW log, NEW dig, Pays(p, tree, log, dig)
  PROVE  /\ p.pc = "hash_t" => Pays(At(p, "put_s"), tree, log, dig)
         /\ p.pc = "hash_s" => Pays(At(p, "put_d"), tree, log, dig)
<1>1. p.s \in Address /\ p.d \in Address /\ p.amount \in Amount
  BY DEF Pays
<1>2. ASSUME p.pc = "hash_t" PROVE Pays(At(p, "put_s"), tree, log, dig)
  <2> DEFINE q == At(p, "put_s")
  <2>1. /\ q.pc = "put_s" /\ q.s = p.s /\ q.d = p.d /\ q.amount = p.amount
        /\ q.src = p.src /\ q.dst = p.dst /\ q = At(q, q.pc)
        /\ HasRead(q) <=> HasRead(p)
    BY PaymentFields, AtHasRead
  <2> HIDE DEF q
  <2>2. Pays(q, tree, log, dig)
    BY <1>1, <1>2, <2>1 DEF Pays, PayingPcs
  <2> QED
    BY <2>2 DEF q
<1>3. ASSUME p.pc = "hash_s" PROVE Pays(At(p, "put_d"), tree, log, dig)
  <2> DEFINE q == At(p, "put_d")
  <2>1. /\ q.pc = "put_d" /\ q.s = p.s /\ q.d = p.d /\ q.amount = p.amount
        /\ q.src = p.src /\ q.dst = p.dst /\ q = At(q, q.pc)
        /\ HasRead(q) <=> HasRead(p)
        /\ Debited(q) = Debited(p)
    BY PaymentFields, AtHasRead
  <2> HIDE DEF q
  <2>2. Pays(q, tree, log, dig)
    BY <1>1, <1>3, <2>1 DEF Pays, PayingPcs
  <2> QED
    BY <2>2 DEF q
<1> QED
  BY <1>2, <1>3

\* The payment once its transaction is in the tree.
LEMMA AppendWOK ==
  ASSUME NEW p, NEW tree, NEW log, NEW dig, Pays(p, tree, log, dig),
         p.pc = "put_t"
  PROVE  \A newer : Pays(At(p, "hash_t"), tree, newer, dig)
<1> TAKE newer
<1> DEFINE q == At(p, "hash_t")
<1>1. /\ q.pc = "hash_t" /\ q.s = p.s /\ q.d = p.d /\ q.amount = p.amount
      /\ q.src = p.src /\ q.dst = p.dst /\ q = At(q, q.pc)
      /\ HasRead(q) <=> HasRead(p)
  BY PaymentFields, AtHasRead
<1> HIDE DEF q
<1>2. Pays(q, tree, newer, dig)
  BY <1>1 DEF Pays, PayingPcs
<1> QED
  BY <1>2 DEF q

\* The payment once one of its accounts is updated.
LEMMA WritesWOK ==
  ASSUME NEW p, NEW tree, NEW log, NEW dig, Pays(p, tree, log, dig),
         IsFcn(tree)
  PROVE  /\ p.pc = "put_s" =>
              Pays(At(p, "hash_s"), [tree EXCEPT ![p.s] = Debited(p)], log,
                   dig \cup {p.s})
         /\ p.pc = "put_d" =>
              Pays(At(p, "hash_d"), [tree EXCEPT ![p.d] = Credited(p)], log,
                   dig \cup {p.d})
<1>1. ASSUME p.pc = "put_s"
      PROVE  Pays(At(p, "hash_s"), [tree EXCEPT ![p.s] = Debited(p)], log,
                  dig \cup {p.s})
  <2> DEFINE q == At(p, "hash_s")
             new == [tree EXCEPT ![p.s] = Debited(p)]
  <2>1. /\ q.pc = "hash_s" /\ q.s = p.s /\ q.d = p.d /\ q.amount = p.amount
        /\ q.src = p.src /\ q.dst = p.dst /\ q = At(q, q.pc)
        /\ HasRead(q) <=> HasRead(p)
        /\ Debited(q) = Debited(p)
    BY PaymentFields, AtHasRead
  <2>2. p.s \in DOMAIN tree /\ p.d \in DOMAIN tree /\ HasRead(p)
    BY <1>1 DEF Pays
  <2>3. DOMAIN new = DOMAIN tree /\ new[p.s] = Debited(p)
    BY <2>2
  <2> HIDE DEF q, new
  <2>4. Pays(q, new, log, dig \cup {p.s})
    BY <1>1, <2>1, <2>2, <2>3 DEF Pays, PayingPcs
  <2> QED
    BY <2>4 DEF q, new
<1>2. ASSUME p.pc = "put_d"
      PROVE  Pays(At(p, "hash_d"), [tree EXCEPT ![p.d] = Credited(p)], log,
                  dig \cup {p.d})
  <2> DEFINE q == At(p, "hash_d")
             new == [tree EXCEPT ![p.d] = Credited(p)]
  <2>1. /\ q.pc = "hash_d" /\ q.s = p.s /\ q.d = p.d /\ q.amount = p.amount
        /\ q.src = p.src /\ q.dst = p.dst /\ q = At(q, q.pc)
        /\ HasRead(q) <=> HasRead(p)
    BY PaymentFields, AtHasRead
  <2>2. p.s \in DOMAIN tree /\ p.d \in DOMAIN tree /\ HasRead(p)
    BY <1>2 DEF Pays
  <2>3. DOMAIN new = DOMAIN tree
    OBVIOUS
  <2> HIDE DEF q, new
  <2>4. Pays(q, new, log, dig \cup {p.d})
    BY <1>2, <2>1, <2>2, <2>3 DEF Pays, PayingPcs
  <2> QED
    BY <2>4 DEF q, new
<1> QED
  BY <1>1, <1>2

\* The payment once both of its accounts are read.
LEMMA ReadsWOK ==
  ASSUME NEW p, NEW tree, NEW log, NEW dig, Pays(p, tree, log, dig),
         p.pc = "read_d", Accounts(tree), p.src # {},
         Entry(tree, p.d) # {},
         accepts(Only(p.src).balance, -p.amount)
  PROVE  Pays(PaymentAt("put_t", p.s, p.d, p.amount, p.src, Entry(tree, p.d)),
              tree, log, dig)
<1> DEFINE e == Entry(tree, p.d)
           q == PaymentAt("put_t", p.s, p.d, p.amount, p.src, e)
<1>1. p.s \in DOMAIN tree /\ p.src = {tree[p.s]}
  BY EntrySingle DEF Pays
<1>2. p.d \in DOMAIN tree /\ e = {tree[p.d]}
  BY EntrySingle
<1> HIDE DEF e
<1>3. /\ q.pc = "put_t" /\ q.s = p.s /\ q.d = p.d /\ q.amount = p.amount
      /\ q.src = p.src /\ q.dst = e
  BY DEF PaymentAt
<1>4. q = At(q, "put_t")
  BY <1>3 DEF At
<1>5. Single(p.src) /\ Single(e)
  BY <1>1, <1>2 DEF Single, Accounts
<1> HIDE DEF q
<1>6. HasRead(q)
  BY <1>3, <1>5 DEF HasRead
<1>7. Pays(q, tree, log, dig)
  BY <1>1, <1>2, <1>3, <1>4, <1>6 DEF Pays, PayingPcs
<1> QED
  BY <1>7 DEF q, e

\* The payment once its source is read.
LEMMA BeginsWOK ==
  ASSUME NEW s \in Address, NEW d \in Address, NEW amount \in Amount,
         NEW tree, NEW log, NEW dig, Len(log) < MaxTransactions
  PROVE  Pays(PaymentAt("read_d", s, d, amount, Entry(tree, s), {}),
              tree, log, dig)
<1> DEFINE e == Entry(tree, s)
           q == PaymentAt("read_d", s, d, amount, e, {})
<1> HIDE DEF e
<1>1. /\ q.pc = "read_d" /\ q.s = s /\ q.d = d /\ q.amount = amount
      /\ q.src = e /\ q.dst = {}
  BY DEF PaymentAt
<1>2. q = At(q, "read_d")
  BY <1>1 DEF At
<1> HIDE DEF q
<1>3. Pays(q, tree, log, dig)
  BY <1>1, <1>2 DEF Pays, PayingPcs, e
<1> QED
  BY <1>3 DEF q, e

-----------------------------------------------------------------------------
\* The worker part of the invariant holds of the next state.
LEMMA InvAgain ==
  ASSUME NEW q, NEW tree, NEW log, NEW dig, WOK(q, tree, log, dig),
         Becomes(q), account_tree' = tree,
         transaction_tree' = log, digested' = dig
  PROVE  WInv' /\ work' = q
BY WorkBecomes DEF WInv, WOK

\* What WInv says of a worker in a payment.
LEMMA PaysOK ==
  ASSUME WInv, work.pc \in PayingPcs
  PROVE  /\ Pays(work, account_tree, transaction_tree, digested)
         /\ Accounts(account_tree) /\ IsLog(transaction_tree)
         /\ IsFcn(account_tree)
BY PayingIs DEF WInv, Accounts

\* A step of the worker keeps what is known of it.
LEMMA WorkWInv ==
  ASSUME WInv, HashedStep
  PROVE  WInv'
<1> DEFINE tree == account_tree
           log == transaction_tree
<1>0. /\ Alone(thread, work)
      /\ WOK(work, tree, log, digested)
      /\ Accounts(tree) /\ IsLog(log)
  BY DEF WInv, WOK
<1>1. CASE Dies /\ Unhashed
  BY <1>0, <1>1, InvAgain DEF Dies, Unhashed, Quiet, WOK, WorkOK
<1>2. CASE Rests /\ Unhashed
  BY <1>0, <1>2, BecomesSame, InvAgain DEF Rests, Unhashed, Quiet
<1>3. CASE Goes(Idle) /\ digested' = digested
  BY <1>0, <1>3, InvAgain DEF Goes, Quiet, WOK, WorkOK
<1>4. CASE BeginsCreate /\ Unhashed
  <2>1. PICK a \in Address : Goes([pc |-> "put_a", a |-> a, raced |-> {}])
    BY <1>4 DEF BeginsCreate
  <2> DEFINE q == [pc |-> "put_a", a |-> a, raced |-> {}]
  <2>2. Creates(q)
    BY DEF Creates
  <2> HIDE DEF q
  <2>3. WOK(q, tree, log, digested)
    BY <1>0, <2>2 DEF WOK, WorkOK
  <2> QED
    BY <1>4, <2>1, <2>3, InvAgain DEF Goes, Quiet, Unhashed, q
<1>5. CASE BeginsPay /\ Unhashed
  <2>1. PICK s \in Address, d \in Address, amount \in Amount :
          /\ Len(log) < MaxTransactions
          /\ Goes(PaymentAt("read_d", s, d, amount, Entry(tree, s), {}))
    BY <1>5 DEF BeginsPay
  <2> DEFINE q == PaymentAt("read_d", s, d, amount, Entry(tree, s), {})
  <2>2. Pays(q, tree, log, digested)
    BY <2>1, BeginsWOK
  <2> HIDE DEF q
  <2>3. WOK(q, tree, log, digested)
    BY <1>0, <2>2 DEF WOK, WorkOK
  <2> QED
    BY <1>5, <2>1, <2>3, InvAgain DEF Goes, Quiet, Unhashed, q
<1>6. CASE Reads /\ Unhashed
  <2> DEFINE e == Entry(tree, work.d)
             q == PaymentAt("put_t", work.s, work.d, work.amount, work.src, e)
  <2>1. q.src = work.src /\ q.dst = e /\ q.amount = work.amount
    BY DEF PaymentAt
  <2>2. /\ work.pc = "read_d" /\ q.src # {} /\ q.dst # {}
        /\ accepts(Only(q.src).balance, -q.amount) /\ Goes(q)
    BY <1>6 DEF Reads
  <2>3. Pays(q, tree, log, digested)
    BY <2>1, <2>2, PaysOK, ReadsWOK DEF PayingPcs
  <2> HIDE DEF q
  <2>4. WOK(q, tree, log, digested)
    BY <1>0, <2>3 DEF WOK, WorkOK
  <2> QED
    BY <1>6, <2>2, <2>4, InvAgain DEF Goes, Quiet, Unhashed
<1>7. CASE Hashes("hash_t", "put_s") /\ WHashes("hash_t")
  <2>1. Pays(At(work, "put_s"), tree, log, digested)
    BY <1>7, PaysOK, GoesWOK DEF Hashes, PayingPcs
  <2> QED
    BY <1>0, <1>7, <2>1, InvAgain DEF Hashes, Goes, Quiet, WHashes, WOK, WorkOK
<1>8. CASE Hashes("hash_s", "put_d") /\ WHashes("hash_s")
  <2>1. Pays(At(work, "put_d"), tree, log, digested)
    BY <1>8, PaysOK, GoesWOK DEF Hashes, PayingPcs
  <2> QED
    BY <1>0, <1>8, <2>1, InvAgain DEF Hashes, Goes, Quiet, WHashes, WOK, WorkOK
<1>9. CASE AddsAccount
  <2>1. Accounts(account_tree')
    <3>1. NewAccount.balance \in Int
      BY LedgerAssumption DEF NewAccount
    <3> QED
      BY <1>0, <1>9, <3>1 DEF AddsAccount, Accounts, IsFcn
  <2>2. WorkOK([pc |-> "hash_a"], account_tree', log, digested')
    BY DEF WorkOK
  <2> QED
    BY <1>0, <1>9, <2>1, <2>2, WorkBecomes DEF AddsAccount, WInv
<1>10. CASE AddsTransaction /\ Unhashed
  <2>1. Pays(At(work, "hash_t"), tree, transaction_tree', digested)
    BY <1>10, PaysOK, AppendWOK DEF AddsTransaction, PayingPcs
  <2>2. IsLog(transaction_tree')
    BY <1>0, <1>10, LogAppend DEF AddsTransaction
  <2> QED
    BY <1>0, <1>10, <2>1, <2>2, WorkBecomes
    DEF AddsTransaction, Unhashed, WInv, WorkOK
<1>11. CASE /\ Writes("put_s", "hash_s", work.s, Debited(work))
            /\ Digests({work.s})
  <2>1. /\ Pays(work, tree, log, digested) /\ IsFcn(tree)
        /\ work.pc = "put_s"
    BY <1>11, PaysOK DEF Writes, PayingPcs
  <2>2. Pays(At(work, "hash_s"), account_tree', log, digested')
    BY <1>11, <2>1, WritesWOK DEF Writes, Digests
  <2>3. Debited(work).balance \in Int
    BY <2>1, WrittenBalances DEF Pays
  <2>4. Accounts(account_tree')
    BY <1>0, <1>11, <2>3, AccountsWritten DEF Writes
  <2> QED
    BY <1>0, <1>11, <2>2, <2>4, WorkBecomes DEF Writes, WInv, WorkOK
<1>12. CASE /\ Writes("put_d", "hash_d", work.d, Credited(work))
            /\ Digests({work.d})
  <2>1. /\ Pays(work, tree, log, digested) /\ IsFcn(tree)
        /\ work.pc = "put_d"
    BY <1>12, PaysOK DEF Writes, PayingPcs
  <2>2. Pays(At(work, "hash_d"), account_tree', log, digested')
    BY <1>12, <2>1, WritesWOK DEF Writes, Digests
  <2>3. Credited(work).balance \in Int
    BY <2>1, WrittenBalances DEF Pays
  <2>4. Accounts(account_tree')
    BY <1>0, <1>12, <2>3, AccountsWritten DEF Writes
  <2> QED
    BY <1>0, <1>12, <2>2, <2>4, WorkBecomes DEF Writes, WInv, WorkOK
<1> QED
  BY <1>1, <1>2, <1>3, <1>4, <1>5, <1>6, <1>7, <1>8, <1>9, <1>10, <1>11,
     <1>12 DEF HashedStep, WHashes, Unhashed

\* ... and how far the cached hashes are behind.
LEMMA WorkHInv ==
  ASSUME WInv, HashedStep,
         HOK(work, account_tree, transaction_tree, digested,
             account_tree_hash, transaction_tree_hash)
  PROVE  HOK(work', account_tree', transaction_tree', digested',
             account_tree_hash', transaction_tree_hash')
<1>1. CASE Dies /\ Unhashed
  BY <1>1, WorkBecomes DEF Dies, Unhashed, Quiet, HOK
<1>2. CASE Rests /\ Unhashed
  BY <1>2 DEF Rests, Unhashed, Quiet, HOK, work
<1>3. CASE work.pc = "read_d" /\ Goes(Idle) /\ Unhashed
  BY <1>3, WorkBecomes DEF Goes, Unhashed, Quiet, HOK
<1>4. CASE work.pc \in {"hash_a", "hash_d"} /\ Goes(Idle) /\ WHashes(work.pc)
  BY <1>4, WorkBecomes DEF Goes, WHashes, Quiet, HOK
<1>5. CASE BeginsCreate /\ Unhashed
  BY <1>5, WorkBecomes DEF BeginsCreate, Goes, Unhashed, Quiet, HOK, Idle
<1>6. CASE BeginsPay /\ Unhashed
  BY <1>6, WorkBecomes
  DEF BeginsPay, Goes, Unhashed, Quiet, HOK, Idle, PaymentAt
<1>7. CASE Reads /\ Unhashed
  BY <1>7, WorkBecomes DEF Reads, Goes, Unhashed, Quiet, HOK, PaymentAt
<1>8. CASE Hashes("hash_t", "put_s") /\ WHashes("hash_t")
  BY <1>8, WorkBecomes, PaymentFields DEF Hashes, Goes, WHashes, Quiet, HOK
<1>9. CASE Hashes("hash_s", "put_d") /\ WHashes("hash_s")
  BY <1>9, WorkBecomes, PaymentFields DEF Hashes, Goes, WHashes, Quiet, HOK
<1>10. CASE AddsAccount /\ UNCHANGED <<account_tree_hash, transaction_tree_hash>>
  BY <1>10, WorkBecomes DEF AddsAccount, HOK
<1>11. CASE AddsTransaction /\ Unhashed
  BY <1>11, WorkBecomes, PaymentFields DEF AddsTransaction, Unhashed, HOK
<1>12. CASE /\ Writes("put_s", "hash_s", work.s, Debited(work))
            /\ Digests({work.s})
  BY <1>12, WorkBecomes, PaymentFields DEF Writes, Digests, HOK
<1>13. CASE /\ Writes("put_d", "hash_d", work.d, Credited(work))
            /\ Digests({work.d})
  BY <1>13, WorkBecomes, PaymentFields DEF Writes, Digests, HOK
<1> QED
  BY <1>1, <1>2, <1>3, <1>4, <1>5, <1>6, <1>7, <1>8, <1>9, <1>10, <1>11,
     <1>12, <1>13 DEF HashedStep

-----------------------------------------------------------------------------
\* A process without a ledger.
LEMMA NoTreeFacts ==
  /\ DOMAIN NoTree = {}
  /\ Accounts(NoTree)
  /\ IsLog(<< >>)
  /\ WorkOK(Idle, NoTree, << >>, {})
<1>1. << >> \in Seq({})
  OBVIOUS
<1> QED
  BY <1>1 DEF NoTree, Accounts, IsFcn, IsLog, WorkOK

\* A process that ends leaves nothing in memory.
LEMMA GoneFacts ==
  ASSUME Gone
  PROVE  /\ WInv' /\ HInv'
         /\ phase' = "down"
         /\ account_tree' = NoTree
         /\ transaction_tree' = << >>
         /\ work' = Idle
         /\ digested' = {}
<1>1. Alone(thread', Idle)
  BY NobodyWorks DEF Gone
<1>2. /\ account_tree' = NoTree /\ transaction_tree' = << >>
      /\ digested' = {} /\ phase' = "down"
  BY DEF Gone, NoTree
<1>3. work' = Idle /\ Alone(thread', work')
  BY <1>1, WorkNext
<1>4. WInv'
  BY <1>2, <1>3, NoTreeFacts DEF WInv
<1>5. /\ account_tree_hash' = RootOf(account_tree', digested')
      /\ transaction_tree_hash' = transaction_tree'
  BY <1>2 DEF Gone, AccountRoot, RootOf
<1>6. HInv'
  BY <1>5 DEF HInv, HOK
<1> QED
  BY <1>2, <1>3, <1>4, <1>6

\* A row that was written is a row.
LEMMA NoRowIsNone ==
  ASSUME NEW x, NEW y
  PROVE  [account |-> x, transaction |-> y] # NoRow
<1>1. DOMAIN [account |-> x, transaction |-> y] = {"account", "transaction"}
  OBVIOUS
<1>2. DOMAIN NoRow = {"empty"}
  BY DEF NoRow
<1> QED
  BY <1>1, <1>2

\* The root hashes of a tree of accounts.
LEMMA RootIsRoot ==
  ASSUME NEW tree, NEW dig, Accounts(tree)
  PROVE  IsRoot(RootOf(tree, dig)) /\ DOMAIN RootOf(tree, dig) = DOMAIN tree
<1>1. \A a \in DOMAIN tree : Single({tree[a]})
  BY DEF Accounts, Single
<1> QED
  BY <1>1 DEF RootOf, IsRoot, IsFcn

\* What the ledger has cached are hashes, current or not.
HashesOK == IsRoot(account_tree_hash) /\ IsLog(transaction_tree_hash)

Base == WInv /\ DInv /\ HInv /\ HashesOK

\* Each step of the server keeps Base: work ...
LEMMA BaseWork ==
  ASSUME Base, Work, ~ overlapped'
  PROVE  Base'
<1>1. HashedStep
  BY WorkIs DEF Base
<1>2. WInv'
  BY <1>1, WorkWInv DEF Base
<1>3. /\ phase \in Serving
      /\ phase' = phase /\ row' = row /\ db' = db
  BY DEF Work, disk
<1>4. DInv'
  BY <1>3 DEF Base, DInv, Alive, Serving
<1>5. HInv'
  BY <1>1, <1>3, WorkHInv DEF Base, HInv, Serving
<1>6. HashesOK'
  <2>1. /\ \/ account_tree_hash' = account_tree_hash
           \/ account_tree_hash' = RootOf(account_tree, digested)
        /\ \/ transaction_tree_hash' = transaction_tree_hash
           \/ transaction_tree_hash' = transaction_tree
    BY <1>1 DEF HashedStep, Unhashed, WHashes, Digests
  <2> QED
    BY <2>1, RootIsRoot DEF Base, HashesOK, WInv
<1> QED
  BY <1>2, <1>4, <1>5, <1>6 DEF Base

\* ... the end of the process, in whatever way ...
LEMMA BaseGone ==
  ASSUME Base, Gone, row' = row, IsDb(db')
  PROVE  Base'
<1>1. DInv'
  BY GoneFacts DEF Base, DInv, Alive, Serving
<1>2. HashesOK'
  <2>1. account_tree_hash' = RootOf(account_tree', digested')
    BY DEF Gone, AccountRoot, RootOf
  <2>2. Accounts(account_tree')
    BY GoneFacts, NoTreeFacts
  <2>3. IsRoot(account_tree_hash')
    <3> PICK tree, dig : tree = account_tree' /\ dig = digested'
      OBVIOUS
    <3> QED
      BY <2>1, <2>2, RootIsRoot
  <2> QED
    BY <2>3, NoTreeFacts DEF Gone, HashesOK
<1> QED
  BY <1>1, <1>2, GoneFacts DEF Base

\* A database stays one when a root is fetched or saved.
LEMMA DbRoots ==
  ASSUME NEW d, IsDb(d), NEW e, NEW r,
         \/ e = [d EXCEPT !.account_roots = r]
         \/ e = [d EXCEPT !.transaction_roots = r]
  PROVE  IsDb(e)
<1>1. CASE e = [d EXCEPT !.account_roots = r]
  BY <1>1 DEF IsDb
<1>2. CASE e = [d EXCEPT !.transaction_roots = r]
  BY <1>2 DEF IsDb
<1> QED
  BY <1>1, <1>2

\* ... a start without a row ...
LEMMA BaseStart ==
  ASSUME Base, StartFresh
  PROVE  Base'
<1>1. /\ UNCHANGED <<account_tree, transaction_tree, thread, digested,
                     account_tree_hash, transaction_tree_hash, row, db>>
      /\ phase = "down" /\ phase' = "loading" /\ row = NoRow
  BY DEF StartFresh, tvars, vars, hashes, disk
<1>2. WInv' /\ HashesOK'
  BY <1>1 DEF Base, WInv, HashesOK, work
<1>3. DInv'
  <2>1. /\ account_tree = NoTree /\ transaction_tree = << >>
        /\ work = Idle /\ digested = {} /\ IsDb(db)
    BY <1>1 DEF Base, DInv, Alive, Serving
  <2>2. /\ account_tree_hash = RootOf(NoTree, {})
        /\ transaction_tree_hash = << >>
    BY <1>1, <2>1 DEF Base, HInv, HOK, Idle
  <2>3. work' = Idle
    BY <1>1, <2>1 DEF work
  <2> QED
    BY <1>1, <2>1, <2>2, <2>3 DEF DInv
<1>4. HInv'
  BY <1>1 DEF HInv
<1> QED
  BY <1>2, <1>3, <1>4 DEF Base

\* ... the two root fetches of the constructor of Ledger ...
LEMMA BaseFetchAccountRoot ==
  ASSUME Base, FetchAccountRoot
  PROVE  Base'
<1>1. CASE row.account \in db.account_roots
  <2>1. /\ UNCHANGED <<account_tree, transaction_tree, thread, digested,
                       account_tree_hash, transaction_tree_hash, row>>
        /\ phase = "down" /\ phase' = "root" /\ row # NoRow
        /\ db' = [db EXCEPT !.account_roots = @ \ {row.account}]
    BY <1>1 DEF FetchAccountRoot, tvars, vars, hashes
  <2>2. IsDb(db')
    BY <2>1, DbRoots DEF Base, DInv
  <2>3. WInv' /\ HashesOK'
    BY <2>1 DEF Base, WInv, HashesOK, work
  <2>4. DInv'
    BY <2>1, <2>2 DEF Base, DInv, Alive, Serving, work
  <2>5. HInv'
    BY <2>1 DEF Base, HInv, HOK, work
  <2> QED
    BY <2>3, <2>4, <2>5 DEF Base
<1>2. CASE row.account \notin db.account_roots
  BY <1>2, BaseGone DEF FetchAccountRoot, FetchFails, disk, Base, DInv
<1> QED
  BY <1>1, <1>2

\* ... the second of which fills the cached hashes ...
LEMMA BaseFetchTransactionRoot ==
  ASSUME Base, FetchTransactionRoot
  PROVE  Base'
<1>1. CASE row.transaction \in db.transaction_roots
  <2>1. /\ UNCHANGED <<account_tree, transaction_tree, thread, digested, row>>
        /\ phase = "root" /\ phase' = "loading"
        /\ account_tree_hash' = row.account
        /\ transaction_tree_hash' = row.transaction
        /\ db' = [db EXCEPT !.transaction_roots = @ \ {row.transaction}]
    BY <1>1 DEF FetchTransactionRoot, tvars, vars
  <2>2. row # NoRow /\ IsRow(row)
    BY <2>1 DEF Base, DInv
  <2>3. IsDb(db')
    BY <2>1, DbRoots DEF Base, DInv
  <2>4. WInv'
    BY <2>1 DEF Base, WInv, work
  <2>5. HashesOK'
    BY <2>1, <2>2 DEF HashesOK, IsRow
  <2>6. DInv'
    BY <2>1, <2>2, <2>3 DEF Base, DInv, Alive, Serving, work
  <2>7. HInv'
    BY <2>1 DEF HInv
  <2> QED
    BY <2>4, <2>5, <2>6, <2>7 DEF Base
<1>2. CASE row.transaction \notin db.transaction_roots
  BY <1>2, BaseGone DEF FetchTransactionRoot, FetchFails, disk, Base, DInv
<1> QED
  BY <1>1, <1>2

\* The account tree that fetch_from_db makes of the row and the database.
Fetched(root, index) ==
  [a \in DOMAIN root |-> IF root[a] = {} THEN index[a] ELSE Only(root[a])]
Digested(root) == {a \in DOMAIN root : root[a] # {}}

\* What is fetched from a row has the roots of the row.
LEMMA FetchedFacts ==
  ASSUME NEW root, IsRoot(root), NEW index, Accounts(index),
         \A a \in DOMAIN root : root[a] = {} => a \in DOMAIN index
  PROVE  /\ Accounts(Fetched(root, index))
         /\ RootOf(Fetched(root, index), Digested(root)) = root
<1> DEFINE tree == Fetched(root, index)
<1>1. /\ tree = [a \in DOMAIN root |-> tree[a]]
      /\ DOMAIN tree = DOMAIN root
  BY DEF Fetched
<1>2. \A a \in DOMAIN root : root[a] = {} => tree[a].balance \in Int
  BY DEF Fetched, Accounts
<1>3. \A a \in DOMAIN root :
        root[a] # {} => root[a] = {tree[a]} /\ tree[a].balance \in Int
  <2> TAKE a \in DOMAIN root
  <2> HAVE root[a] # {}
  <2>1. tree[a] = Only(root[a])
    BY DEF Fetched
  <2>2. PICK x : root[a] = {x} /\ x.balance \in Int
    BY DEF IsRoot, Single
  <2> QED
    BY <2>1, <2>2, OnlySingle
<1> HIDE DEF tree
<1>4. Accounts(tree)
  BY <1>1, <1>2, <1>3 DEF Accounts, IsFcn
<1>5. RootOf(tree, Digested(root)) = root
  <2>1. \A a \in DOMAIN root :
          (IF a \in Digested(root) THEN {tree[a]} ELSE {}) = root[a]
    BY <1>3 DEF Digested
  <2>2. RootOf(tree, Digested(root))
          = [a \in DOMAIN root |-> IF a \in Digested(root) THEN {tree[a]} ELSE {}]
    BY <1>1 DEF RootOf
  <2>3. root = [a \in DOMAIN root |-> root[a]]
    BY DEF IsRoot, IsFcn
  <2> QED
    BY <2>1, <2>2, <2>3
<1> QED
  BY <1>4, <1>5 DEF tree

\* What fetch_from_db does when it comes to its end.
FetchesAll ==
  /\ phase = "loading" /\ phase' = "up"
  /\ account_tree' = Fetched(account_tree_hash, db.index)
  /\ transaction_tree' = transaction_tree_hash
  /\ digested' = Digested(account_tree_hash)
  /\ \A a \in DOMAIN account_tree_hash : account_tree_hash[a] = {} => a \in DOMAIN db.index
  /\ UNCHANGED <<thread, account_tree_hash, transaction_tree_hash,
                 row, closed, orphaned>>
  /\ db'.account_roots = db.account_roots
  /\ db'.transaction_roots = db.transaction_roots

\* fetch_from_db comes to its end, or ends the process.
LEMMA FetchFromDbIs ==
  ASSUME Base, FetchFromDb
  PROVE  \/ FetchesAll /\ IsDb(db')
         \/ Gone /\ UNCHANGED disk
<1> DEFINE all == /\ IndexLeaves \subseteq DOMAIN db.index
                  /\ DigestLeaves \subseteq db.digest
                  /\ TransactionLeaves \subseteq db.transactions
<1>1. CASE all
  <2>1. /\ account_tree' = [a \in DOMAIN account_tree_hash |->
                              IF a \in IndexLeaves THEN db.index[a]
                              ELSE Only(account_tree_hash[a])]
        /\ digested' = DOMAIN account_tree_hash \ IndexLeaves
        /\ IndexLeaves \subseteq DOMAIN db.index
    BY <1>1 DEF FetchFromDb
  <2>2. \A a \in DOMAIN account_tree_hash : a \in IndexLeaves <=> account_tree_hash[a] = {}
    BY DEF IndexLeaves
  <2>3. account_tree' = Fetched(account_tree_hash, db.index)
    BY <2>1, <2>2 DEF Fetched
  <2>4. digested' = Digested(account_tree_hash)
    BY <2>1, <2>2 DEF Digested
  <2>5. /\ phase = "loading" /\ phase' = "up"
        /\ transaction_tree' = transaction_tree_hash
        /\ UNCHANGED <<thread, account_tree_hash, transaction_tree_hash,
                       row, closed, orphaned>>
        /\ db' = [db EXCEPT
                    !.index = [a \in DOMAIN @ \ IndexLeaves |-> @[a]],
                    !.digest = @ \ DigestLeaves,
                    !.transactions = @ \ TransactionLeaves]
    BY <1>1 DEF FetchFromDb, hashes
  <2> DEFINE index == [a \in DOMAIN db.index \ IndexLeaves |-> db.index[a]]
  <2>6. Accounts(index)
    BY DEF Base, DInv, IsDb, Accounts, IsFcn
  <2>7. /\ db'.account_roots = db.account_roots
        /\ db'.transaction_roots = db.transaction_roots
        /\ IsDb(db')
    <3> PICK e : e = db'
      OBVIOUS
    <3> DEFINE digest == db.digest \ DigestLeaves
               txs == db.transactions \ TransactionLeaves
    <3>1. e = [db EXCEPT !.index = index, !.digest = digest,
                         !.transactions = txs]
      BY <2>5
    <3> HIDE DEF index, digest, txs
    <3>2. e.account_roots = db.account_roots
          /\ e.transaction_roots = db.transaction_roots
          /\ IsDb(e)
      BY <3>1, <2>6 DEF Base, DInv, IsDb
    <3> QED
      BY <3>2
  <2>8. \A a \in DOMAIN account_tree_hash : account_tree_hash[a] = {} => a \in DOMAIN db.index
    BY <2>1, <2>2
  <2> QED
    BY <2>3, <2>4, <2>5, <2>7, <2>8 DEF FetchesAll
<1>2. CASE ~ all
  BY <1>2 DEF FetchFromDb, FetchFails
<1> QED
  BY <1>1, <1>2

\* ... fetch_from_db ...
LEMMA BaseFetchFromDb ==
  ASSUME Base, FetchFromDb
  PROVE  Base'
<1>1. CASE FetchesAll /\ IsDb(db')
  <2>1. phase = "loading" /\ phase' = "up"
    BY <1>1 DEF FetchesAll
  <2>2. /\ IsRoot(account_tree_hash) /\ IsLog(transaction_tree_hash)
        /\ Accounts(db.index) /\ work = Idle /\ Alone(thread, work)
        /\ row = NoRow \/ IsRow(row)
    BY <2>1 DEF Base, DInv, WInv, IsDb, Alive, Serving, HashesOK
  <2>3. work' = Idle /\ Alone(thread', work')
    BY <1>1, <2>2, WorkNext DEF FetchesAll
  <2>4. /\ Accounts(account_tree')
        /\ RootOf(account_tree', digested') = account_tree_hash
    BY <1>1, <2>2, FetchedFacts DEF FetchesAll
  <2>5. WInv'
    BY <1>1, <2>2, <2>3, <2>4 DEF FetchesAll, WInv, WorkOK
  <2>6. HInv' /\ HashesOK'
    BY <1>1, <2>2, <2>4 DEF FetchesAll, HInv, HOK, HashesOK
  <2>7. DInv'
    BY <1>1, <2>1, <2>2 DEF FetchesAll, DInv, Alive, Serving
  <2> QED
    BY <2>5, <2>6, <2>7 DEF Base
<1>2. CASE Gone /\ UNCHANGED disk
  BY <1>2, BaseGone DEF disk, Base, DInv
<1> QED
  BY <1>1, <1>2, FetchFromDbIs

\* What the exit in fetch_from_db leaves in the database.
PutsBack ==
  /\ phase = "leaving"
  /\ Gone
  /\ UNCHANGED <<row, closed, orphaned>>
  /\ db'.account_roots \subseteq db.account_roots \cup {account_tree_hash}
  /\ db'.transaction_roots
       \subseteq db.transaction_roots \cup {transaction_tree_hash}
  /\ \A a \in DOMAIN db'.index :
       a \in DOMAIN db.index /\ db'.index[a] = db.index[a]

\* The exit in fetch_from_db puts back what it has not lost.
LEMMA ExitLoadingIs ==
  ASSUME Base, ExitLoading
  PROVE  PutsBack /\ IsDb(db')
<1>1. PICK ar \in SUBSET (db.account_roots \cup {account_tree_hash}),
           tr \in SUBSET (db.transaction_roots \cup {transaction_tree_hash}),
           i \in SUBSET IndexLeaves, g \in SUBSET DigestLeaves,
           x \in SUBSET TransactionLeaves :
        db' = [db EXCEPT
                 !.account_roots = ar, !.transaction_roots = tr,
                 !.index = [a \in DOMAIN @ \ i |-> @[a]],
                 !.digest = @ \ g,
                 !.transactions = @ \ x]
  <2>1. PICK held \in {"none", "accounts", "transactions"},
             i \in SUBSET IndexLeaves, g \in SUBSET DigestLeaves,
             x \in SUBSET TransactionLeaves :
          db' = [db EXCEPT
                   !.account_roots = IF held = "accounts" THEN @
                                     ELSE @ \cup {account_tree_hash},
                   !.transaction_roots = IF held = "transactions" THEN @
                                         ELSE @ \cup {transaction_tree_hash},
                   !.index = [a \in DOMAIN @ \ i |-> @[a]],
                   !.digest = @ \ g,
                   !.transactions = @ \ x]
    BY DEF ExitLoading
  <2> DEFINE ar == IF held = "accounts" THEN db.account_roots
                   ELSE db.account_roots \cup {account_tree_hash}
             tr == IF held = "transactions" THEN db.transaction_roots
                   ELSE db.transaction_roots \cup {transaction_tree_hash}
  <2>2. db' = [db EXCEPT
                 !.account_roots = ar, !.transaction_roots = tr,
                 !.index = [a \in DOMAIN @ \ i |-> @[a]],
                 !.digest = @ \ g,
                 !.transactions = @ \ x]
    BY <2>1
  <2>3. /\ ar \in SUBSET (db.account_roots \cup {account_tree_hash})
        /\ tr \in SUBSET (db.transaction_roots \cup {transaction_tree_hash})
    OBVIOUS
  <2> HIDE DEF ar, tr
  <2> QED
    BY <2>2, <2>3
<1> DEFINE index == [a \in DOMAIN db.index \ i |-> db.index[a]]
           digest == db.digest \ g
           txs == db.transactions \ x
<1>2. Accounts(index)
  BY DEF Base, DInv, IsDb, Accounts, IsFcn
<1>3. \A a \in DOMAIN index : a \in DOMAIN db.index /\ index[a] = db.index[a]
  OBVIOUS
<1> PICK e : e = db'
  OBVIOUS
<1>4. e = [db EXCEPT !.account_roots = ar, !.transaction_roots = tr,
                     !.index = index, !.digest = digest, !.transactions = txs]
  BY <1>1
<1> HIDE DEF index, digest, txs
<1>5. /\ e.account_roots = ar /\ e.transaction_roots = tr
      /\ e.index = index /\ IsDb(e)
  BY <1>2, <1>4 DEF Base, DInv, IsDb
<1>6. /\ db'.account_roots = ar /\ db'.transaction_roots = tr
      /\ db'.index = index /\ IsDb(db')
  BY <1>5
<1> QED
  BY <1>3, <1>6 DEF ExitLoading, PutsBack

\* ... the row of ~Ledger ...
LEMMA BaseWriteRow ==
  ASSUME Base, WriteRow \/ WriteRowFails
  PROVE  Base'
<1>1. /\ UNCHANGED <<account_tree, transaction_tree, thread, digested,
                     account_tree_hash, transaction_tree_hash, db>>
      /\ \/ phase = "up" /\ phase' = "row"
         \/ phase = "loading" /\ phase' = "leaving"
      /\ \/ row' = row
         \/ row' = [account     |-> account_tree_hash,
                    transaction |-> transaction_tree_hash]
  BY DEF WriteRow, WriteRowFails, tvars, vars, hashes
<1>2. row' = NoRow \/ IsRow(row')
  <2>1. CASE row' = row
    BY <2>1 DEF Base, DInv
  <2>2. CASE row' = [account     |-> account_tree_hash,
                     transaction |-> transaction_tree_hash]
    BY <2>2 DEF Base, HashesOK, IsRow
  <2> QED
    BY <1>1, <2>1, <2>2
<1>3. WInv' /\ HashesOK'
  BY <1>1 DEF Base, WInv, HashesOK, work
<1>4. CASE phase = "up"
  <2>1. phase' = "row"
    BY <1>1, <1>4
  <2>2. DInv'
    BY <1>1, <1>2, <2>1 DEF Base, DInv, Alive, Serving
  <2>3. HInv'
    BY <1>1, <1>4, <2>1 DEF Base, HInv, HOK, work
  <2> QED
    BY <1>3, <2>2, <2>3 DEF Base
<1>5. CASE phase = "loading"
  <2>1. phase' = "leaving"
    BY <1>1, <1>5
  <2>2. row' # NoRow => /\ account_tree_hash' = row'.account
                        /\ transaction_tree_hash' = row'.transaction
    <3>1. CASE row' = row
      BY <1>1, <1>5, <3>1 DEF Base, DInv
    <3>2. CASE row' = [account     |-> account_tree_hash,
                       transaction |-> transaction_tree_hash]
      BY <1>1, <3>2
    <3> QED
      BY <1>1, <3>1, <3>2
  <2>3. /\ account_tree' = NoTree /\ transaction_tree' = << >>
        /\ work' = Idle /\ digested' = {} /\ IsDb(db')
    BY <1>1, <1>5 DEF Base, DInv, Alive, Serving, work
  <2>4. DInv'
    BY <1>2, <2>1, <2>2, <2>3 DEF DInv
  <2>5. HInv'
    BY <2>1 DEF HInv
  <2> QED
    BY <1>3, <2>4, <2>5 DEF Base
<1> QED
  BY <1>1, <1>4, <1>5

\* What SaveAccounts leaves in the database.
Merged(index, more) ==
  [a \in DOMAIN index \cup DOMAIN more |->
     IF a \in DOMAIN more THEN more[a] ELSE index[a]]

\* What SaveAccounts does to the database, field by field.
LEMMA SaveAccountsIs ==
  ASSUME Base, SaveAccounts
  PROVE  /\ db'.account_roots = db.account_roots
                                  \cup {RootOf(account_tree, digested)}
         /\ db'.transaction_roots = db.transaction_roots
         /\ db'.index = Merged(db.index, ByIndex)
         /\ IsDb(db')
<1>1. db' = [db EXCEPT
               !.account_roots = @ \cup {AccountRoot},
               !.index = [a \in DOMAIN @ \cup DOMAIN ByIndex |->
                            IF a \in DOMAIN ByIndex THEN ByIndex[a] ELSE @[a]],
               !.digest = @ \cup ByDigest]
  BY DEF SaveAccounts
<1> DEFINE index == Merged(db.index, ByIndex)
           ar == db.account_roots \cup {AccountRoot}
           digest == db.digest \cup ByDigest
<1>2. Accounts(index)
  <2>1. Accounts(ByIndex)
    BY DEF Base, WInv, Accounts, IsFcn, ByIndex
  <2>2. Accounts(db.index)
    BY DEF Base, DInv, IsDb
  <2> QED
    BY <2>1, <2>2 DEF Merged, Accounts, IsFcn
<1> PICK e : e = db'
  OBVIOUS
<1>3. e = [db EXCEPT !.account_roots = ar, !.index = index, !.digest = digest]
  BY <1>1 DEF Merged
<1> HIDE DEF index, ar, digest
<1>4. /\ e.account_roots = ar /\ e.transaction_roots = db.transaction_roots
      /\ e.index = index /\ IsDb(e)
  BY <1>2, <1>3 DEF Base, DInv, IsDb
<1>5. /\ db'.account_roots = ar /\ db'.index = index /\ IsDb(db')
      /\ db'.transaction_roots = db.transaction_roots
  BY <1>4
<1> QED
  BY <1>5, RootIs DEF ar, index

\* ... and the backup of the account tree.
LEMMA BaseSaveAccounts ==
  ASSUME Base, SaveAccounts
  PROVE  Base'
<1>1. /\ UNCHANGED <<account_tree, transaction_tree, thread, digested,
                     account_tree_hash, transaction_tree_hash, row>>
      /\ phase = "saving_accounts" /\ phase' = "accounts"
  BY DEF SaveAccounts, tvars, vars, hashes
<1>2. IsDb(db')
  BY SaveAccountsIs
<1>3. WInv' /\ HashesOK'
  BY <1>1 DEF Base, WInv, HashesOK, work
<1>4. DInv'
  BY <1>1, <1>2 DEF Base, DInv, Alive, Serving
<1>5. HInv'
  BY <1>1 DEF Base, HInv, HOK, work
<1> QED
  BY <1>3, <1>4, <1>5 DEF Base

\* A save that begins, and one that waits for ever.
LEMMA BaseBeginSave ==
  ASSUME Base, BeginSaveAccounts \/ BeginSaveTransactions \/ AlarmSaving
  PROVE  Base'
<1>1. /\ UNCHANGED <<account_tree, transaction_tree, thread, digested,
                     account_tree_hash, transaction_tree_hash, row, db>>
      /\ phase \in Serving /\ phase' \in Serving
  BY DEF BeginSaveAccounts, BeginSaveTransactions, AlarmSaving, tvars, vars,
         hashes, disk, Serving
<1>2. WInv' /\ HashesOK'
  BY <1>1 DEF Base, WInv, HashesOK, work
<1>3. DInv'
  BY <1>1 DEF Base, DInv, Alive, Serving
<1>4. HInv'
  BY <1>1 DEF Base, HInv, HOK, work, Serving
<1> QED
  BY <1>2, <1>3, <1>4 DEF Base

\* What SaveTransactions leaves in the database.
LEMMA SaveTransactionsIs ==
  ASSUME Base, SaveTransactions
  PROVE  /\ db'.account_roots = db.account_roots
         /\ db'.transaction_roots = db.transaction_roots
                                      \cup {transaction_tree}
         /\ db'.index = db.index
         /\ IsDb(db')
<1> DEFINE tr == db.transaction_roots \cup {transaction_tree}
           txs == db.transactions \cup Entries
<1> PICK e : e = db'
  OBVIOUS
<1>1. e = [db EXCEPT !.transaction_roots = tr, !.transactions = txs]
  BY DEF SaveTransactions, TransactionRoot
<1> HIDE DEF tr, txs
<1>2. /\ e.account_roots = db.account_roots /\ e.transaction_roots = tr
      /\ e.index = db.index /\ IsDb(e)
  BY <1>1 DEF Base, DInv, IsDb
<1>3. /\ db'.account_roots = db.account_roots /\ db'.transaction_roots = tr
      /\ db'.index = db.index /\ IsDb(db')
  BY <1>2
<1> QED
  BY <1>3 DEF tr

\* Base is inductive until operations overlap.
LEMMA BaseStep ==
  ASSUME Base, [RecoveryNext]_rvars, ~ overlapped'
  PROVE  Base'
<1>1. CASE ExitUnloaded \/ Crash
  BY <1>1, BaseGone DEF ExitUnloaded, Crash, disk, Base, DInv
<1>2. CASE ExitLoading
  BY <1>2, ExitLoadingIs, BaseGone DEF PutsBack
<1>3. CASE SaveTransactions
  BY <1>3, SaveTransactionsIs, BaseGone DEF SaveTransactions
<1>4. CASE UNCHANGED rvars
  BY <1>4 DEF rvars, tvars, vars, hashes, disk, Base, WInv, DInv, HInv,
              HashesOK, work, Alive
<1> QED
  BY <1>1, <1>2, <1>3, <1>4, BaseStart, BaseFetchAccountRoot,
     BaseFetchTransactionRoot, BaseFetchFromDb, BaseWork, BaseWriteRow,
     BaseBeginSave, BaseSaveAccounts DEF RecoveryNext

\* What has overlapped, has.
LEMMA OverlappedStays ==
  ASSUME [RecoveryNext]_rvars, overlapped
  PROVE  overlapped'
BY DEF RecoveryNext, StartFresh, FetchAccountRoot, FetchTransactionRoot,
       FetchFromDb, FetchFails, Work, ExitUnloaded, WriteRow, WriteRowFails,
       ExitLoading, BeginSaveAccounts, SaveAccounts, BeginSaveTransactions,
       SaveTransactions, AlarmSaving, Crash, rvars

\* Base holds before the first start.
LEMMA BaseInit ==
  ASSUME RecoveryInit
  PROVE  Base
<1>1. /\ account_tree = NoTree /\ transaction_tree = << >>
      /\ thread = [t \in Thread |-> Idle] /\ digested = {}
  BY DEF RecoveryInit, ThreadsInit, Init, NoTree
<1>2. work = Idle /\ Alone(thread, work)
  BY <1>1, NobodyWorks, WorkIsThat
<1>3. WInv
  BY <1>1, <1>2, NoTreeFacts DEF WInv
<1>4. /\ account_tree_hash = RootOf(account_tree, digested)
      /\ transaction_tree_hash = transaction_tree
  BY RootIs DEF RecoveryInit, TransactionRoot
<1>5. HInv
  BY <1>4 DEF HInv, HOK
<1>6. HashesOK
  BY <1>3, <1>4, RootIsRoot DEF HashesOK, WInv
<1>7. DInv
  <2>1. Accounts(ByIndex)
    BY <1>3 DEF WInv, Accounts, IsFcn, ByIndex
  <2>2. IsDb(db)
    BY <2>1 DEF RecoveryInit, IsDb
  <2> QED
    BY <1>1, <1>2, <2>2 DEF RecoveryInit, DInv, Alive
<1> QED
  BY <1>3, <1>5, <1>6, <1>7 DEF Base

\* Base is an invariant until operations overlap.
LEMMA BaseInvariant == RecoverySpec => [](overlapped \/ Base)
<1>1. RecoveryInit => overlapped \/ Base
  BY BaseInit
<1>2. (overlapped \/ Base) /\ [RecoveryNext]_rvars
        => (overlapped \/ Base)'
  BY BaseStep, OverlappedStays
<1> QED
  BY <1>1, <1>2, PTL DEF RecoverySpec

(***************************************************************************)
(* Between two operations of a server the hashes that Ledger has cached    *)
(* (account_tree_hash and transaction_tree_hash, which ~Ledger writes to   *)
(* the ledger row) are those of its trees: through any number of stops,    *)
(* crashes and loads, with any threads, addresses and amounts, until two   *)
(* operations overlap.                                                     *)
(***************************************************************************)
THEOREM HashesAreCurrent == RecoverySpec => []HashesCurrent
<1>1. overlapped \/ Base => HashesCurrent
  <2> SUFFICES ASSUME Base, phase = "up", \A t \in Thread : thread[t] = Idle
               PROVE  /\ account_tree_hash = AccountRoot
                      /\ transaction_tree_hash = TransactionRoot
    BY DEF HashesCurrent
  <2>1. work = Idle
    <3>1. PICK w \in Thread : thread = Just(w, work)
      BY DEF Base, WInv, Alone
    <3> QED
      BY <3>1, JustIs
  <2> QED
    BY <2>1, RootIs DEF Base, HInv, HOK, Idle, TransactionRoot
<1> QED
  BY <1>1, BaseInvariant, PTL

-----------------------------------------------------------------------------
\* Settled, for threads and a tree that are given.
PendingIn(th, a) ==
  {Credited(th[t]) : t \in {u \in Thread :
     /\ th[u].pc \in {"hash_t", "put_s", "hash_s", "put_d"}
     /\ th[u].d = a}}
  \cup
  {Debited(th[t]) : t \in {u \in Thread :
     /\ th[u].pc \in {"hash_t", "put_s"}
     /\ th[u].s = a /\ th[u].d # a}}
SettledIn(th, tree) ==
  [a \in DOMAIN tree |->
     IF PendingIn(th, a) = {} THEN tree[a] ELSE Only(PendingIn(th, a))]

\* With one worker: the tree with the rest of its payment.
Settles(p, tree) ==
  [a \in DOMAIN tree |->
     IF p.pc \in {"hash_t", "put_s", "hash_s", "put_d"} /\ p.d = a
     THEN Credited(p)
     ELSE IF p.pc \in {"hash_t", "put_s"} /\ p.s = a THEN Debited(p)
     ELSE tree[a]]

\* With one worker what is pending is one account, or two.
LEMMA SettledInIs ==
  ASSUME NEW th, NEW tree, NEW p, Alone(th, p)
  PROVE  SettledIn(th, tree) = Settles(p, tree)
<1>0. PICK w \in Thread : /\ th[w] = p
                          /\ \A u \in Thread : u # w => th[u].pc = "idle"
  <2>1. PICK w \in Thread : th = Just(w, p)
    BY DEF Alone
  <2> QED
    BY <2>1, JustIs DEF Idle
<1> DEFINE credits(a) == p.pc \in {"hash_t", "put_s", "hash_s", "put_d"} /\ p.d = a
           debits(a) == p.pc \in {"hash_t", "put_s"} /\ p.s = a
<1>1. ASSUME NEW a
      PROVE  PendingIn(th, a) = IF credits(a) THEN {Credited(p)}
                                ELSE IF debits(a) THEN {Debited(p)} ELSE {}
  <2>1. CASE credits(a)
    BY <1>0, <2>1 DEF PendingIn
  <2>2. CASE ~ credits(a) /\ debits(a)
    BY <1>0, <2>2 DEF PendingIn
  <2>3. CASE ~ credits(a) /\ ~ debits(a)
    BY <1>0, <2>3 DEF PendingIn
  <2> QED
    BY <2>1, <2>2, <2>3
<1> DEFINE settled(a) == IF PendingIn(th, a) = {} THEN tree[a]
                         ELSE Only(PendingIn(th, a))
<1>2. ASSUME NEW a
      PROVE  settled(a) = IF credits(a) THEN Credited(p)
                          ELSE IF debits(a) THEN Debited(p) ELSE tree[a]
  BY <1>1, OnlySingle
<1> HIDE DEF settled
<1>3. [a \in DOMAIN tree |-> settled(a)] = Settles(p, tree)
  BY <1>2 DEF Settles
<1> QED
  BY <1>3 DEF settled, SettledIn

\* Settled of LedgerThreads, for the worker.
LEMMA SettledIs ==
  /\ Alone(thread, work) => Settled = Settles(work, account_tree)
  /\ Alone(thread', work') => Settled' = Settles(work', account_tree')
<1>1. Settled = SettledIn(thread, account_tree)
  BY DEF Settled, Pending, SettledIn, PendingIn
<1>2. Settled' = SettledIn(thread', account_tree')
  BY DEF Settled, Pending, SettledIn, PendingIn
<1>3. Alone(thread, work)
        => SettledIn(thread, account_tree) = Settles(work, account_tree)
  BY SettledInIs
<1>4. PICK th, tree, q : th = thread' /\ tree = account_tree' /\ q = work'
  OBVIOUS
<1>5. Alone(th, q) => SettledIn(th, tree) = Settles(q, tree)
  BY SettledInIs
<1> QED
  BY <1>1, <1>2, <1>3, <1>4, <1>5

\* A worker outside of a payment leaves the tree as it is.
LEMMA NothingPending ==
  ASSUME NEW p, NEW tree, IsFcn(tree),
         p.pc \notin {"hash_t", "put_s", "hash_s", "put_d"}
  PROVE  Settles(p, tree) = tree
BY DEF Settles, IsFcn

\* Refreshing a hash settles nothing new.
LEMMA SettlesAt ==
  ASSUME NEW p, NEW tree
  PROVE  /\ p.pc = "hash_t" => Settles(At(p, "put_s"), tree) = Settles(p, tree)
         /\ p.pc = "hash_s" => Settles(At(p, "put_d"), tree) = Settles(p, tree)
<1>1. ASSUME NEW pc, NEW q, q = At(p, pc)
      PROVE  /\ q.pc = pc /\ q.d = p.d /\ q.s = p.s
             /\ Credited(q) = Credited(p) /\ Debited(q) = Debited(p)
  BY <1>1, PaymentFields, AtHasRead
<1> QED
  BY <1>1 DEF Settles

\* Writing what is pending settles nothing new.
LEMMA SettlesWritten ==
  ASSUME NEW p, NEW tree, IsFcn(tree), p.s \in DOMAIN tree, p.d \in DOMAIN tree
  PROVE  /\ p.pc = "put_s" =>
              Settles(At(p, "hash_s"), [tree EXCEPT ![p.s] = Debited(p)])
                = Settles(p, tree)
         /\ p.pc = "put_d" =>
              Settles(At(p, "hash_d"), [tree EXCEPT ![p.d] = Credited(p)])
                = Settles(p, tree)
<1>1. ASSUME NEW pc, NEW q, q = At(p, pc)
      PROVE  /\ q.pc = pc /\ q.d = p.d /\ q.s = p.s
             /\ Credited(q) = Credited(p) /\ Debited(q) = Debited(p)
  BY <1>1, PaymentFields, AtHasRead
<1>2. ASSUME p.pc = "put_s"
      PROVE  Settles(At(p, "hash_s"), [tree EXCEPT ![p.s] = Debited(p)])
               = Settles(p, tree)
  <2> DEFINE new == [tree EXCEPT ![p.s] = Debited(p)]
             q == At(p, "hash_s")
  <2>1. /\ DOMAIN new = DOMAIN tree
        /\ \A a \in DOMAIN tree : new[a] = IF a = p.s THEN Debited(p) ELSE tree[a]
    BY DEF IsFcn
  <2>2. /\ q.pc = "hash_s" /\ q.d = p.d /\ q.s = p.s /\ Credited(q) = Credited(p)
    BY <1>1
  <2> HIDE DEF new, q
  <2> QED
    BY <1>2, <2>1, <2>2 DEF Settles, new, q
<1>3. ASSUME p.pc = "put_d"
      PROVE  Settles(At(p, "hash_d"), [tree EXCEPT ![p.d] = Credited(p)])
               = Settles(p, tree)
  <2> DEFINE new == [tree EXCEPT ![p.d] = Credited(p)]
             q == At(p, "hash_d")
  <2>1. /\ DOMAIN new = DOMAIN tree
        /\ \A a \in DOMAIN tree : new[a] = IF a = p.d THEN Credited(p) ELSE tree[a]
    BY DEF IsFcn
  <2>2. /\ q.pc = "hash_d" /\ q.d = p.d /\ q.s = p.s /\ Credited(q) = Credited(p)
    BY <1>1
  <2> HIDE DEF new, q
  <2> QED
    BY <1>3, <2>1, <2>2 DEF Settles, new, q
<1> QED
  BY <1>2, <1>3

\* The step at which a payment enters the transaction tree pays it.
LEMMA SettlesPayment ==
  ASSUME NEW p, NEW tree, NEW log, NEW dig, Pays(p, tree, log, dig),
         p.pc = "put_t", Accounts(tree)
  PROVE  /\ p.s \in DOMAIN tree /\ p.d \in DOMAIN tree
         /\ accepts(tree[p.s].balance, -p.amount)
         /\ Payment(p) = [source |-> p.s, destination |-> p.d,
                          amount |-> p.amount,
                          source_previous |-> tree[p.s].previous,
                          destination_previous |-> tree[p.d].previous]
         /\ Settles(At(p, "hash_t"), tree) =
              [x \in DOMAIN tree |->
                 IF x = p.d
                 THEN [balance  |-> add_balance(tree[p.d].balance, p.amount),
                       previous |-> LinkTo(Payment(p))]
                 ELSE IF x = p.s
                 THEN [balance  |-> tree[p.s].balance - p.amount,
                       previous |-> LinkTo(Payment(p))]
                 ELSE tree[x]]
<1>1. /\ p.s \in DOMAIN tree /\ p.d \in DOMAIN tree /\ HasRead(p)
      /\ p.src = {tree[p.s]} /\ p.dst = {tree[p.d]} /\ p.amount \in Amount
  BY DEF Pays
<1>2. Only(p.src) = tree[p.s] /\ Only(p.dst) = tree[p.d]
  BY <1>1, OnlySingle
<1>3. accepts(tree[p.s].balance, -p.amount)
  BY <1>1, <1>2 DEF HasRead
<1>4. Payment(p) = [source |-> p.s, destination |-> p.d,
                    amount |-> p.amount,
                    source_previous |-> tree[p.s].previous,
                    destination_previous |-> tree[p.d].previous]
  BY <1>2 DEF Payment
<1>5. add_balance(tree[p.s].balance, -p.amount) = tree[p.s].balance - p.amount
  <2>1. tree[p.s].balance \in Int /\ p.amount \in Int
    BY <1>1, LedgerAssumption DEF Accounts
  <2> QED
    BY <1>3, <2>1 DEF add_balance, accepts
<1>6. /\ Debited(p) = [balance  |-> tree[p.s].balance - p.amount,
                       previous |-> LinkTo(Payment(p))]
      /\ Credited(p) = [balance  |-> add_balance(tree[p.d].balance, p.amount),
                        previous |-> LinkTo(Payment(p))]
  BY <1>2, <1>5 DEF Debited, Credited
<1> DEFINE q == At(p, "hash_t")
<1>7. /\ q.pc = "hash_t" /\ q.d = p.d /\ q.s = p.s
      /\ Credited(q) = Credited(p) /\ Debited(q) = Debited(p)
  BY PaymentFields, AtHasRead
<1> HIDE DEF q
<1>8. Settles(q, tree) =
        [x \in DOMAIN tree |-> IF x = p.d THEN Credited(p)
                               ELSE IF x = p.s THEN Debited(p) ELSE tree[x]]
  BY <1>7 DEF Settles
<1> QED
  BY <1>1, <1>3, <1>4, <1>6, <1>8 DEF q

\* A step that settles nothing new is none of the ledger.
LEMMA SerialStutter ==
  ASSUME status = "running", status' = "running",
         Settled' = Settled, transaction_tree' = transaction_tree
  PROVE  UNCHANGED Serial!vars
BY DEF Serial!vars

\* The worker is not in the middle of writing a payment.
LEMMA NotPending ==
  ASSUME WInv, work.pc \notin {"hash_t", "put_s", "hash_s", "put_d"}
  PROVE  Settled = account_tree
BY SettledIs, NothingPending DEF WInv, Accounts

\* The same of the next state.
LEMMA NotPendingNext ==
  ASSUME WInv', work'.pc \notin {"hash_t", "put_s", "hash_s", "put_d"}
  PROVE  Settled' = account_tree'
<1>1. PICK p, tree : p = work' /\ tree = account_tree'
  OBVIOUS
<1>2. IsFcn(tree)
  BY <1>1 DEF WInv, Accounts
<1>3. Settles(p, tree) = tree
  BY <1>1, <1>2, NothingPending
<1>4. Alone(thread', work')
  BY DEF WInv
<1> QED
  BY <1>1, <1>3, <1>4, SettledIs

\* The running worker takes a step of the ledger, or none.
LEMMA SerialWork ==
  ASSUME WInv, WInv', WorkerStep, status = "running", status' = "running"
  PROVE  [Serial!Next]_(Serial!vars)
<1> DEFINE pending == {"hash_t", "put_s", "hash_s", "put_d"}
<1>0. Alone(thread, work) /\ Alone(thread', work')
  BY DEF WInv
<1>1. CASE /\ Quiet /\ work.pc \notin pending /\ work'.pc \notin pending
  <2>1. Settled = account_tree /\ Settled' = account_tree'
    BY <1>1, NotPending, NotPendingNext
  <2> QED
    BY <1>1, <2>1, SerialStutter DEF Quiet
<1>2. CASE Rests
  <2>1. work' = work /\ account_tree' = account_tree
    BY <1>2 DEF Rests, Quiet, work
  <2> QED
    BY <1>0, <1>2, <2>1, SettledIs, SerialStutter DEF Rests, Quiet
<1>3. CASE Returns
  BY <1>1, <1>3, WorkBecomes DEF Returns, Goes, Idle
<1>4. CASE BeginsCreate
  BY <1>1, <1>4, WorkBecomes DEF BeginsCreate, Goes, Idle
<1>5. CASE BeginsPay
  BY <1>1, <1>5, WorkBecomes DEF BeginsPay, Goes, Idle, PaymentAt
<1>6. CASE Reads
  BY <1>1, <1>6, WorkBecomes DEF Reads, Goes, PaymentAt
<1>7. CASE Hashes("hash_t", "put_s") \/ Hashes("hash_s", "put_d")
  <2>1. Settled' = Settled
    BY <1>0, <1>7, WorkBecomes, SettledIs, SettlesAt DEF Hashes, Goes, Quiet
  <2> QED
    BY <1>7, <2>1, SerialStutter DEF Hashes, Goes, Quiet
<1>8. CASE \/ Writes("put_s", "hash_s", work.s, Debited(work))
           \/ Writes("put_d", "hash_d", work.d, Credited(work))
  <2>1. /\ IsFcn(account_tree)
        /\ work.s \in DOMAIN account_tree /\ work.d \in DOMAIN account_tree
    BY <1>8, PaysOK DEF Writes, Pays, PayingPcs
  <2>2. Settled' = Settled
    <3>1. CASE Writes("put_s", "hash_s", work.s, Debited(work))
      <4>1. Settled' = Settles(At(work, "hash_s"),
                               [account_tree EXCEPT ![work.s] = Debited(work)])
        BY <1>0, <3>1, WorkBecomes, SettledIs DEF Writes
      <4> QED
        BY <1>0, <2>1, <3>1, <4>1, SettledIs, SettlesWritten, Zenon DEF Writes
    <3>2. CASE Writes("put_d", "hash_d", work.d, Credited(work))
      <4>1. Settled' = Settles(At(work, "hash_d"),
                               [account_tree EXCEPT ![work.d] = Credited(work)])
        BY <1>0, <3>2, WorkBecomes, SettledIs DEF Writes
      <4> QED
        BY <1>0, <2>1, <3>2, <4>1, SettledIs, SettlesWritten, Zenon DEF Writes
    <3> QED
      BY <1>8, <3>1, <3>2
  <2> QED
    BY <1>8, <2>2, SerialStutter DEF Writes
<1>9. CASE AddsAccount
  <2>1. work.a \in Address
    BY <1>9 DEF AddsAccount, WInv, WorkOK, Idle, Creates, Pays, PayingPcs
  <2>2. work.pc = "put_a" /\ work'.pc = "hash_a"
    BY <1>9, WorkBecomes DEF AddsAccount
  <2>3. Settled = account_tree /\ Settled' = account_tree'
    BY <2>2, NotPending, NotPendingNext
  <2>4. Serial!CreateAccount(work.a)
    BY <1>9, <2>3 DEF AddsAccount, NewAccount, Serial!CreateAccount,
                      Serial!has_account, Serial!Origin, Origin
  <2> QED
    BY <2>1, <2>4 DEF Serial!Next
<1>10. CASE AddsTransaction
  <2> DEFINE p == work
             tx == Payment(work)
  <2>1. /\ Pays(p, account_tree, transaction_tree, digested)
        /\ p.pc = "put_t" /\ Accounts(account_tree)
        /\ p.s \in Address /\ p.d \in Address /\ p.amount \in Amount
        /\ Len(transaction_tree) < MaxTransactions
    BY <1>10, PaysOK DEF AddsTransaction, Pays, PayingPcs
  <2>2. Settled = account_tree
    BY <2>1, NotPending
  <2>3. Settled' = Settles(At(p, "hash_t"), account_tree)
    BY <1>0, <1>10, WorkBecomes, SettledIs DEF AddsTransaction
  <2>4. /\ p.s \in DOMAIN account_tree /\ p.d \in DOMAIN account_tree
        /\ accepts(account_tree[p.s].balance, -p.amount)
        /\ tx = [source |-> p.s, destination |-> p.d,
                 amount |-> p.amount,
                 source_previous |-> account_tree[p.s].previous,
                 destination_previous |-> account_tree[p.d].previous]
        /\ Settles(At(p, "hash_t"), account_tree) =
             [x \in DOMAIN account_tree |->
                IF x = p.d
                THEN [balance  |-> add_balance(account_tree[p.d].balance, p.amount),
                      previous |-> LinkTo(tx)]
                ELSE IF x = p.s
                THEN [balance  |-> account_tree[p.s].balance - p.amount,
                      previous |-> LinkTo(tx)]
                ELSE account_tree[x]]
    BY <2>1, SettlesPayment
  <2>5. Serial!Transaction(p.s, p.d, p.amount) = tx
    BY <2>2, <2>4 DEF Serial!Transaction
  <2>6. Serial!Paid(p.s, p.d, p.amount, Serial!LinkTo(tx)) = Settled'
    BY <2>2, <2>3, <2>4
    DEF Serial!Paid, Serial!Balance, Serial!add_balance, add_balance,
        Serial!LinkTo, LinkTo, Serial!ledger_sequence, ledger_sequence,
        Serial!get_sha512_half, get_sha512_half
  <2>7. ~ \E i \in DOMAIN transaction_tree :
            Serial!get_sha512_half(transaction_tree[i]) = Serial!get_sha512_half(tx)
    BY <1>10 DEF AddsTransaction, Serial!get_sha512_half
  <2>8. /\ Serial!has_account(p.s) /\ Serial!has_account(p.d)
        /\ Serial!accepts(Serial!Balance(p.s), -p.amount)
    BY <2>2, <2>4 DEF Serial!has_account, Serial!accepts, Serial!Balance, accepts
  <2>9. transaction_tree' = Append(transaction_tree, tx)
    BY <1>10 DEF AddsTransaction
  <2> HIDE DEF tx
  <2>10. Serial!AddTransactionEntry(p.s, p.d, p.amount)
    BY <2>1, <2>5, <2>6, <2>7, <2>8, <2>9 DEF Serial!AddTransactionEntry
  <2> QED
    BY <2>1, <2>10 DEF Serial!Next
<1> QED
  BY <1>2, <1>3, <1>4, <1>5, <1>6, <1>7, <1>8, <1>9, <1>10 DEF WorkerStep, Dies

\* A server that dies of its work does so in a step of the ledger, or of a
\* race of the alarm or of get_balance with the worker.
LEMMA SerialDeath ==
  ASSUME WInv, WInv', ThreadsNext, ~ Overlap', status' # "running"
  PROVE  Serial!Next \/ status' = "tree_race"
<1>0. Alone(thread, work) /\ Alone(thread', work')
  BY DEF WInv
<1>1. ASSUME Die(status')
      PROVE  /\ UNCHANGED <<account_tree, transaction_tree>>
             /\ Settled' = account_tree
  <2>1. /\ thread' = [t \in Thread |-> Idle]
        /\ UNCHANGED <<account_tree, transaction_tree>>
    BY <1>1 DEF Die
  <2>2. work' = Idle
    BY <2>1, NobodyWorks, WorkNext
  <2>3. Settled' = account_tree'
    BY <2>2, NotPendingNext DEF Idle
  <2> QED
    BY <2>1, <2>3
<1>2. ASSUME NEW t \in Thread, AddAccountAgain(t) PROVE Serial!Next
  <2>0. thread[t] = work
    BY <1>0, <1>2, RunsAt DEF AddAccountAgain, Runs
  <2>1. /\ work.pc = "put_a" /\ status = "running" /\ Die("duplicate_account")
        /\ work.a \in DOMAIN account_tree
    BY <1>2, <2>0 DEF AddAccountAgain, Runs, has_account
  <2>2. work.a \in Address
    BY <2>1 DEF WInv, WorkOK, Idle, Creates, Pays, PayingPcs
  <2>3. status' = "duplicate_account"
    BY <2>1 DEF Die
  <2>4. Settled = account_tree
    BY <2>1, NotPending
  <2>5. Serial!CreateAccountAgain(work.a)
    BY <1>1, <2>1, <2>3, <2>4 DEF Serial!CreateAccountAgain, Serial!has_account
  <2> QED
    BY <2>2, <2>5 DEF Serial!Next
<1>3. ASSUME NEW t \in Thread, ReadDestination(t) PROVE Serial!Next
  <2>0. thread[t] = work
    BY <1>0, <1>3, RunsAt DEF ReadDestination, Runs
  <2> DEFINE p == [work EXCEPT !.pc = "put_t", !.dst = get_account_entry(work.d)]
             refused == ~ accepts(Only(p.src).balance, -p.amount)
  <2>1. work.pc = "read_d" /\ status = "running"
    BY <1>3, <2>0 DEF ReadDestination, Runs
  <2>2. Pays(work, account_tree, transaction_tree, digested)
    BY <2>1, PaysOK DEF PayingPcs
  <2>3. /\ p.src = work.src /\ p.dst = get_account_entry(work.d)
        /\ p.amount = work.amount
    BY <2>2 DEF Pays, At, PaymentAt
  <2>4. /\ p.src = {} \/ (~ refused /\ p.dst = {})
        /\ Die("null_account")
    BY <1>3, <2>0, <2>1 DEF ReadDestination, vars
  <2>5. status' = "null_account"
    BY <2>4 DEF Die
  <2>6. Settled = account_tree
    BY <2>1, NotPending
  <2>7. /\ work.s \in Address /\ work.d \in Address /\ work.amount \in Amount
        /\ work.src = Entry(account_tree, work.s)
    BY <2>1, <2>2 DEF Pays
  <2>8. \/ work.s \notin DOMAIN account_tree
        \/ /\ work.s \in DOMAIN account_tree
           /\ accepts(account_tree[work.s].balance, -work.amount)
           /\ work.d \notin DOMAIN account_tree
    <3>1. work.s \in DOMAIN account_tree => Only(work.src) = account_tree[work.s]
      <4>1. work.s \in DOMAIN account_tree => work.src = {account_tree[work.s]}
        BY <2>7 DEF Entry
      <4> QED
        BY <4>1, OnlySingle
    <3>2. work.src = {} => work.s \notin DOMAIN account_tree
      BY <2>7 DEF Entry
    <3>3. p.dst = {} => work.d \notin DOMAIN account_tree
      BY <2>3 DEF get_account_entry
    <3> HIDE DEF p
    <3> QED
      BY <2>3, <2>4, <3>1, <3>2, <3>3
  <2>9. Serial!PayWithoutAccount(work.s, work.d, work.amount)
    BY <1>1, <2>1, <2>4, <2>5, <2>6, <2>8
    DEF Serial!PayWithoutAccount, Serial!has_account, Serial!accepts,
        Serial!Balance, accepts
  <2> QED
    BY <2>7, <2>9 DEF Serial!Next
<1>4. ASSUME NEW t \in Thread, AddTransactionAgain(t) PROVE Serial!Next
  <2>0. thread[t] = work
    BY <1>0, <1>4, RunsAt DEF AddTransactionAgain, Runs
  <2>1. /\ work.pc = "put_t" /\ status = "running"
        /\ Die("duplicate_transaction") /\ Payment(work) \in Entries
    BY <1>4, <2>0 DEF AddTransactionAgain, Runs
  <2>2. status' = "duplicate_transaction"
    BY <2>1 DEF Die
  <2>3. /\ Pays(work, account_tree, transaction_tree, digested)
        /\ Accounts(account_tree)
        /\ work.s \in Address /\ work.d \in Address /\ work.amount \in Amount
        /\ Len(transaction_tree) < MaxTransactions
    BY <2>1, PaysOK DEF Pays, PayingPcs
  <2>4. Settled = account_tree
    BY <2>1, NotPending
  <2>5. /\ work.s \in DOMAIN account_tree /\ work.d \in DOMAIN account_tree
        /\ accepts(account_tree[work.s].balance, -work.amount)
        /\ Payment(work) = [source |-> work.s, destination |-> work.d,
                            amount |-> work.amount,
                            source_previous |-> account_tree[work.s].previous,
                            destination_previous |-> account_tree[work.d].previous]
    BY <2>1, <2>3, SettlesPayment
  <2>6. Serial!Transaction(work.s, work.d, work.amount) = Payment(work)
    BY <2>4, <2>5 DEF Serial!Transaction
  <2>7. \E i \in DOMAIN transaction_tree :
          Serial!get_sha512_half(transaction_tree[i])
            = Serial!get_sha512_half(Payment(work))
    BY <2>1 DEF Entries
  <2>8. /\ Serial!has_account(work.s) /\ Serial!has_account(work.d)
        /\ Serial!accepts(Serial!Balance(work.s), -work.amount)
    BY <2>4, <2>5 DEF Serial!has_account, Serial!accepts, Serial!Balance, accepts
  <2>9. Serial!AddTransactionEntry(work.s, work.d, work.amount)
    BY <1>1, <2>1, <2>2, <2>3, <2>4, <2>6, <2>7, <2>8
    DEF Serial!AddTransactionEntry
  <2> QED
    BY <2>3, <2>9 DEF Serial!Next
<1>5. ASSUME NEW t \in Thread, NEW a \in Address, QueryBalance(t, a)
      PROVE  Serial!Next
  <2>1. GetBalance(a) /\ thread' = thread
    BY <1>5 DEF QueryBalance
  <2>2. work' = work /\ account_tree' = account_tree
    BY <2>1 DEF work, GetBalance
  <2>3. Settled' = Settled
    BY <1>0, <2>2, SettledIs
  <2>4. DOMAIN Settled = DOMAIN account_tree
    BY DEF Settled
  <2>5. Serial!GetBalance(a)
    BY <2>1, <2>3, <2>4
    DEF GetBalance, has_account, Serial!GetBalance, Serial!has_account
  <2> QED
    BY <2>5 DEF Serial!Next
<1>6. ASSUME NEW t \in Thread, Step(t)
      PROVE  Serial!Next \/ status' = "tree_race"
  <2>1. ~ AddAccount(t) /\ ~ AddTransaction(t)
    BY DEF AddAccount, AddTransaction, Runs
  <2>2. ~ UpdateSource(t) /\ ~ UpdateDestination(t)
    BY DEF UpdateSource, UpdateDestination, UpdateAccount, Runs
  <2>3. ~ EndOperation(t)
    BY DEF EndOperation, vars
  <2>4. HashTransaction(t) \/ HashSource(t) => status' = "tree_race"
    BY DEF HashTransaction, HashSource, Runs, Die, vars
  <2> QED
    BY <1>2, <1>3, <1>4, <1>6, <2>1, <2>2, <2>3, <2>4 DEF Step
<1>7. ASSUME NEW t \in Thread, Begin(t) PROVE Serial!Next
  <2>1. \A a \in Address : ~ BeginCreate(t, a)
    BY DEF BeginCreate, Runs, vars
  <2>2. \A s, d \in Address, amount \in Amount :
          ~ BeginPay(t, s, d, amount)
    BY DEF BeginPay, Runs, vars
  <2> QED
    BY <1>5, <1>7, <2>1, <2>2 DEF Begin
<1>8. ASSUME NEW t \in Thread, TreeRace(t) PROVE status' = "tree_race"
  BY <1>8 DEF TreeRace, Die
<1>9. ASSUME NEW x, Alarm(x) PROVE status' = "tree_race"
  BY <1>9 DEF Alarm, Die, vars
<1> QED
  BY <1>6, <1>7, <1>8, <1>9 DEF ThreadsNext

(***************************************************************************)
(* Whatever a server has come up with, each step of its threads through    *)
(* create_account, payment and get_balance is one step of Ledger or none   *)
(* until two operations overlap: the payment is made when                  *)
(* add_transaction_entry has put it into the transaction tree, and what    *)
(* dies, dies as Ledger says.  The SIGALRM handler, which goes through the *)
(* same tree, only adds that the process may die of a node it finds half   *)
(* made, as get_balance on another thread may.                             *)
(***************************************************************************)
THEOREM ServesAsLedgerHolds == RecoverySpec => ServesAsLedger
<1> DEFINE Serves == [Serial!Next]_(Serial!vars) \/ status' = "tree_race"
<1>1. ASSUME Base, Base', [RecoveryNext]_rvars, phase = "up", phase' = "up",
             ~ overlapped'
      PROVE  Serves
  <2>0. Alone(thread, work) /\ Alone(thread', work')
    BY <1>1 DEF Base, WInv
  <2>1. CASE UNCHANGED rvars
    <3>1. /\ work' = work /\ account_tree' = account_tree
          /\ transaction_tree' = transaction_tree /\ status' = status
      BY <2>1 DEF rvars, tvars, vars, work
    <3> QED
      BY <2>0, <3>1, SettledIs DEF Serial!vars
  <2>2. CASE Work
    <3>1. ThreadsNext /\ WInv /\ WInv' /\ ~ Overlap'
      BY <1>1, <2>2 DEF Work, Base
    <3>2. status = "running"
      BY <3>1
      DEF ThreadsNext, Begin, Step, TreeRace, BeginCreate, QueryBalance,
          BeginPay, AddAccount, AddAccountAgain, ReadDestination,
          AddTransaction, AddTransactionAgain, HashTransaction, UpdateSource,
          HashSource, UpdateDestination, UpdateAccount, EndOperation, Runs,
          Alarm
    <3> QED
      BY <3>1, <3>2, ThreadsNextIs, SerialWork, SerialDeath
  <2>3. ~ (\/ StartFresh \/ FetchAccountRoot \/ FetchTransactionRoot
           \/ FetchFromDb \/ ExitUnloaded \/ ExitLoading)
    BY <1>1 DEF StartFresh, FetchAccountRoot, FetchTransactionRoot,
                FetchFromDb, ExitUnloaded, ExitLoading
  <2>4. ~ (\/ WriteRow \/ WriteRowFails \/ BeginSaveAccounts \/ SaveAccounts
           \/ BeginSaveTransactions \/ SaveTransactions \/ AlarmSaving
           \/ Crash)
    BY <1>1 DEF WriteRow, WriteRowFails, BeginSaveAccounts, SaveAccounts,
                BeginSaveTransactions, SaveTransactions, AlarmSaving, Crash,
                Gone
  <2> QED
    BY <1>1, <2>1, <2>2, <2>3, <2>4 DEF RecoveryNext
<1>2. ~ overlapped' /\ [RecoveryNext]_rvars => ~ overlapped
  BY OverlappedStays
<1> DEFINE Up == phase = "up" /\ phase' = "up" /\ ~ overlapped'
<1>3. (overlapped \/ Base) /\ (overlapped \/ Base)' /\ [RecoveryNext]_rvars
        => [Up => Serves]_rvars
  BY <1>1, <1>2
<1> QED
  BY <1>3, BaseInvariant, PTL DEF RecoverySpec, ServesAsLedger

-----------------------------------------------------------------------------
\* The payment of p is in the transaction tree and not yet in both accounts.
InTrees(p) == p.pc \in {"hash_t", "put_s", "hash_s", "put_d"}

Links(link, log) ==
  link = Origin \/ \E i \in DOMAIN log : link = LinkTo(log[i])

\* The accounts of f, some or none to an address, link to transactions of log.
Resolves(f, log) == \A a \in DOMAIN f : \A x \in f[a] : Links(x.previous, log)

\* None of them but the source has a link to the payment that is being made.
Fresh(p, f) ==
  InTrees(p) =>
    \A a \in DOMAIN f : \A x \in f[a] :
      x.previous = LinkTo(Payment(p)) =>
        p.pc \in {"hash_s", "put_d"} /\ a = p.s /\ x = Debited(p)

\* Roots f and h are those of trees that became tree and log.
Behind(p, tree, log, f, h) ==
  /\ Resolves(f, log)
  /\ Fresh(p, f)
  /\ DOMAIN f \subseteq DOMAIN tree
  /\ Len(h) <= Len(log)

Logged(p, log) == InTrees(p) => \E i \in DOMAIN log : log[i] = Payment(p)

\* Links to different transactions are different, and none is the origin.
LEMMA LinksDistinct ==
  ASSUME NEW x, NEW y
  PROVE  LinkTo(x) # Origin /\ (LinkTo(x) = LinkTo(y) => x = y)
<1>1. LinkTo(x).seq = 1 /\ Origin.seq = 0
  BY DEF LinkTo, Origin, ledger_sequence
<1>2. LinkTo(x).hash = <<x>> /\ LinkTo(y).hash = <<y>>
  BY DEF LinkTo, get_sha512_half
<1>3. <<x>> = <<y>> => x = y
  OBVIOUS
<1> QED
  BY <1>1, <1>2, <1>3

\* A link stays one when the transaction tree grows.
LEMMA LinksLonger ==
  ASSUME NEW log, IsLog(log), NEW tx, NEW link, Links(link, log)
  PROVE  Links(link, Append(log, tx))
<1>1. /\ DOMAIN log = 1..Len(log) /\ Len(log) \in Nat
      /\ DOMAIN Append(log, tx) = 1..(Len(log) + 1)
      /\ \A i \in DOMAIN log : Append(log, tx)[i] = log[i]
  BY LogAppend
<1>2. DOMAIN log \subseteq DOMAIN Append(log, tx)
  BY <1>1
<1> QED
  BY <1>1, <1>2 DEF Links

\* A transaction that is not in the log has no links to it.
LEMMA LinksFresh ==
  ASSUME NEW log, NEW tx, \A i \in DOMAIN log : log[i] # tx,
         NEW link, Links(link, log)
  PROVE  link # LinkTo(tx)
BY LinksDistinct DEF Links

\* Between its places in a payment the worker makes the same payment.
LEMMA FreshAt ==
  ASSUME NEW p, NEW f, Fresh(p, f)
  PROVE  /\ p.pc = "hash_t" => Fresh(At(p, "put_s"), f)
         /\ p.pc = "put_s" => Fresh(At(p, "hash_s"), f)
         /\ p.pc = "hash_s" => Fresh(At(p, "put_d"), f)
         /\ Fresh(At(p, "hash_d"), f)
<1>1. ASSUME NEW pc, NEW q, q = At(p, pc)
      PROVE  /\ q.pc = pc /\ q.s = p.s
             /\ Payment(q) = Payment(p) /\ Debited(q) = Debited(p)
  BY <1>1, PaymentFields, AtHasRead
<1>2. ASSUME p.pc = "hash_t" PROVE Fresh(At(p, "put_s"), f)
  BY <1>1, <1>2 DEF Fresh, InTrees
<1>3. ASSUME p.pc = "put_s" PROVE Fresh(At(p, "hash_s"), f)
  BY <1>1, <1>3 DEF Fresh, InTrees
<1>4. ASSUME p.pc = "hash_s" PROVE Fresh(At(p, "put_d"), f)
  BY <1>1, <1>4 DEF Fresh, InTrees
<1>5. Fresh(At(p, "hash_d"), f)
  BY <1>1 DEF Fresh, InTrees
<1> QED
  BY <1>2, <1>3, <1>4, <1>5

\* Between its places in a payment the worker has the same transaction.
LEMMA LoggedAt ==
  ASSUME NEW p, NEW log, Logged(p, log)
  PROVE  /\ p.pc = "hash_t" => Logged(At(p, "put_s"), log)
         /\ p.pc = "put_s" => Logged(At(p, "hash_s"), log)
         /\ p.pc = "hash_s" => Logged(At(p, "put_d"), log)
         /\ Logged(At(p, "hash_d"), log)
<1>1. ASSUME NEW pc, NEW q, q = At(p, pc)
      PROVE  q.pc = pc /\ Payment(q) = Payment(p)
  BY <1>1, PaymentFields, AtHasRead
<1> QED
  BY <1>1 DEF Logged, InTrees

\* Outside of those places there is no payment to have a link to.
LEMMA OutOfTrees ==
  ASSUME Dies \/ Goes(Idle) \/ BeginsCreate \/ BeginsPay \/ Reads \/ AddsAccount
  PROVE  ~ InTrees(work')
<1>1. CASE Dies \/ Goes(Idle)
  BY <1>1, WorkBecomes DEF Dies, Goes, InTrees, Idle
<1>2. CASE BeginsCreate
  BY <1>2, WorkBecomes DEF BeginsCreate, Goes, InTrees
<1>3. CASE BeginsPay
  BY <1>3, WorkBecomes DEF BeginsPay, Goes, InTrees, PaymentAt
<1>4. CASE Reads
  BY <1>4, WorkBecomes DEF Reads, Goes, InTrees, PaymentAt
<1>5. CASE AddsAccount
  BY <1>5, WorkBecomes DEF AddsAccount, InTrees
<1> QED
  BY <1>1, <1>2, <1>3, <1>4, <1>5

\* The payment being made is in the transaction tree.
LEMMA LoggedWork ==
  ASSUME WInv, HashedStep, Logged(work, transaction_tree)
  PROVE  Logged(work', transaction_tree')
<1> DEFINE log == transaction_tree
<1>2. CASE Dies \/ Goes(Idle) \/ BeginsCreate \/ BeginsPay \/ Reads \/ AddsAccount
  BY <1>2, OutOfTrees DEF Logged
<1>3. CASE Rests
  BY <1>3 DEF Rests, Quiet, work
<1>4. CASE Hashes("hash_t", "put_s")
  BY <1>4, WorkBecomes, LoggedAt DEF Hashes, Goes, Quiet
<1>5. CASE Hashes("hash_s", "put_d")
  BY <1>5, WorkBecomes, LoggedAt DEF Hashes, Goes, Quiet
<1>6. CASE AddsTransaction
  <2>1. work' = At(work, "hash_t") /\ transaction_tree' = Append(log, Payment(work))
    BY <1>6, WorkBecomes DEF AddsTransaction
  <2>2. IsLog(log)
    BY DEF WInv
  <2>3. /\ Len(log) + 1 \in DOMAIN Append(log, Payment(work))
        /\ Append(log, Payment(work))[Len(log) + 1] = Payment(work)
    BY <2>2, LogAppend
  <2>4. Payment(At(work, "hash_t")) = Payment(work)
    BY AtHasRead
  <2> QED
    BY <2>1, <2>3, <2>4 DEF Logged
<1>7. CASE Writes("put_s", "hash_s", work.s, Debited(work))
  BY <1>7, WorkBecomes, LoggedAt DEF Writes
<1>8. CASE Writes("put_d", "hash_d", work.d, Credited(work))
  BY <1>8, WorkBecomes, LoggedAt DEF Writes
<1> QED
  BY <1>2, <1>3, <1>4, <1>5, <1>6, <1>7, <1>8 DEF HashedStep

\* The domain of the account tree never shrinks.
LEMMA DomainGrows ==
  ASSUME HashedStep, WInv
  PROVE  DOMAIN account_tree \subseteq DOMAIN account_tree'
<1>1. ASSUME NEW a, NEW account,
             account_tree' = [account_tree EXCEPT ![a] = account]
      PROVE  DOMAIN account_tree \subseteq DOMAIN account_tree'
  BY <1>1
<1>2. CASE AddsAccount
  BY <1>2 DEF AddsAccount
<1>3. CASE account_tree' = account_tree
  BY <1>3
<1> QED
  BY <1>1, <1>2, <1>3
  DEF HashedStep, Dies, Rests, Goes, Quiet, BeginsCreate, BeginsPay, Reads,
      Hashes, AddsTransaction, Writes

\* What was behind the trees stays behind them.
LEMMA BehindWork ==
  ASSUME WInv, HashedStep, NEW f, NEW h,
         Behind(work, account_tree, transaction_tree, f, h), Len(h) \in Nat
  PROVE  Behind(work', account_tree', transaction_tree', f, h)
<1> DEFINE log == transaction_tree
<1>1. DOMAIN f \subseteq DOMAIN account_tree'
  BY DomainGrows DEF Behind
<1>2. ASSUME transaction_tree' = log, Fresh(work', f)
      PROVE  Behind(work', account_tree', transaction_tree', f, h)
  BY <1>1, <1>2 DEF Behind
<1>3. CASE Dies \/ Goes(Idle) \/ BeginsCreate \/ BeginsPay \/ Reads \/ AddsAccount
  <2>1. ~ InTrees(work')
    BY <1>3, OutOfTrees
  <2>2. Fresh(work', f)
    BY <2>1 DEF Fresh
  <2>3. transaction_tree' = log
    BY <1>3 DEF Dies, Goes, BeginsCreate, BeginsPay, Reads, AddsAccount, Quiet
  <2> QED
    BY <1>2, <2>2, <2>3
<1>4. CASE Rests
  BY <1>2, <1>4 DEF Rests, Quiet, work, Behind
<1>5. CASE Hashes("hash_t", "put_s")
  BY <1>2, <1>5, WorkBecomes, FreshAt DEF Hashes, Goes, Quiet, Behind
<1>6. CASE Hashes("hash_s", "put_d")
  BY <1>2, <1>6, WorkBecomes, FreshAt DEF Hashes, Goes, Quiet, Behind
<1>7. CASE Writes("put_s", "hash_s", work.s, Debited(work))
  BY <1>2, <1>7, WorkBecomes, FreshAt DEF Writes, Behind
<1>8. CASE Writes("put_d", "hash_d", work.d, Credited(work))
  BY <1>2, <1>8, WorkBecomes, FreshAt DEF Writes, Behind
<1>9. CASE AddsTransaction
  <2> DEFINE tx == Payment(work)
  <2>1. /\ work' = At(work, "hash_t") /\ transaction_tree' = Append(log, tx)
        /\ \A i \in DOMAIN log : log[i] # tx
    BY <1>9, WorkBecomes DEF AddsTransaction
  <2>2. IsLog(log)
    BY DEF WInv
  <2>3. Payment(At(work, "hash_t")) = tx
    BY AtHasRead
  <2> HIDE DEF tx
  <2>4. Resolves(f, transaction_tree')
    BY <2>1, <2>2, LinksLonger DEF Behind, Resolves
  <2>5. Fresh(work', f)
    BY <2>1, <2>3, LinksFresh DEF Behind, Resolves, Fresh
  <2>6. Len(h) <= Len(transaction_tree')
    BY <2>1, <2>2, LogAppend DEF Behind
  <2> QED
    BY <1>1, <2>4, <2>5, <2>6 DEF Behind
<1> QED
  BY <1>3, <1>4, <1>5, <1>6, <1>7, <1>8, <1>9 DEF HashedStep

\* The roots of a tree have the accounts of the tree, or none.
LEMMA BehindRoot ==
  ASSUME NEW p, NEW tree, NEW log, NEW dig,
         Behind(p, tree, log, Leaves(tree), log)
  PROVE  Behind(p, tree, log, RootOf(tree, dig), log)
<1> DEFINE f == RootOf(tree, dig)
           l == Leaves(tree)
<1>1. /\ DOMAIN f = DOMAIN tree /\ DOMAIN l = DOMAIN tree
      /\ \A a \in DOMAIN tree : f[a] \subseteq l[a]
  BY DEF RootOf, Leaves
<1> HIDE DEF f, l
<1>2. Resolves(l, log) /\ Fresh(p, l) /\ Len(log) <= Len(log)
  BY DEF Behind, l
<1>3. Resolves(f, log)
  BY <1>1, <1>2 DEF Resolves
<1>4. Fresh(p, f)
  BY <1>1, <1>2 DEF Fresh
<1> QED
  BY <1>1, <1>2, <1>3, <1>4 DEF Behind, f

\* The accounts in the tree link to transactions in theirs.
LEMMA LeavesWork ==
  ASSUME WInv, HashedStep, Logged(work, transaction_tree),
         Behind(work, account_tree, transaction_tree, Leaves(account_tree),
                transaction_tree)
  PROVE  Behind(work', account_tree', transaction_tree', Leaves(account_tree'),
                transaction_tree')
<1> DEFINE tree == account_tree
           log == transaction_tree
<1>0. IsLog(log) /\ Len(log) \in Nat /\ IsFcn(tree)
  BY LogAppend DEF WInv, Accounts
<1>1. Behind(work', account_tree', transaction_tree', Leaves(tree), log)
  BY <1>0, BehindWork
<1>2. Len(transaction_tree') <= Len(transaction_tree')
  <2>1. IsLog(transaction_tree')
    BY WorkWInv DEF WInv
  <2>2. Len(transaction_tree') \in Nat
    BY <2>1 DEF IsLog
  <2> QED
    BY <2>2
<1>3. CASE account_tree' = tree
  BY <1>1, <1>2, <1>3 DEF Behind
<1>4. CASE AddsAccount
  <2> DEFINE new == Leaves(account_tree')
  <2>1. /\ DOMAIN new = DOMAIN tree \cup {work.a}
        /\ new[work.a] = {NewAccount}
        /\ \A a \in DOMAIN tree : a # work.a => new[a] = Leaves(tree)[a]
        /\ DOMAIN Leaves(tree) = DOMAIN tree
        /\ DOMAIN account_tree' = DOMAIN tree \cup {work.a}
    BY <1>4 DEF AddsAccount, Leaves
  <2>2. Links(NewAccount.previous, log)
    BY DEF Links, NewAccount
  <2>3. transaction_tree' = log
    BY <1>4 DEF AddsAccount
  <2> HIDE DEF new
  <2>4. Resolves(new, log)
    <3>1. Resolves(Leaves(tree), log)
      BY DEF Behind
    <3> QED
      BY <2>1, <2>2, <3>1 DEF Resolves
  <2>5. Fresh(work', new)
    BY <1>4, OutOfTrees DEF Fresh
  <2> QED
    BY <1>2, <2>1, <2>3, <2>4, <2>5 DEF Behind, new
<1>5. ASSUME NEW a \in DOMAIN tree, NEW account,
             account.previous = LinkTo(Payment(work)),
             InTrees(work), transaction_tree' = log,
             account_tree' = [tree EXCEPT ![a] = account],
             InTrees(work') => /\ Payment(work') = Payment(work)
                               /\ work'.pc \in {"hash_s", "put_d"}
                               /\ a = work'.s /\ account = Debited(work')
      PROVE  Behind(work', account_tree', transaction_tree',
                    Leaves(account_tree'), transaction_tree')
  <2> DEFINE new == Leaves(account_tree')
  <2>1. /\ DOMAIN new = DOMAIN tree /\ DOMAIN account_tree' = DOMAIN tree
        /\ DOMAIN Leaves(tree) = DOMAIN tree
        /\ new[a] = {account}
        /\ \A x \in DOMAIN tree : x # a => new[x] = Leaves(tree)[x]
    <3>1. PICK n : n = account_tree'
      OBVIOUS
    <3>2. n = [tree EXCEPT ![a] = account]
      BY <1>5, <3>1
    <3>3. /\ DOMAIN Leaves(n) = DOMAIN tree /\ DOMAIN n = DOMAIN tree
          /\ DOMAIN Leaves(tree) = DOMAIN tree
          /\ Leaves(n)[a] = {account}
          /\ \A x \in DOMAIN tree : x # a => Leaves(n)[x] = Leaves(tree)[x]
      BY <1>0, <3>2 DEF Leaves, IsFcn
    <3> QED
      BY <3>1, <3>3
  <2>2. Links(account.previous, log)
    BY <1>5 DEF Logged, Links
  <2> HIDE DEF new
  <2>3. Resolves(new, log)
    <3>1. Resolves(Leaves(tree), log)
      BY DEF Behind
    <3> QED
      BY <2>1, <2>2, <3>1 DEF Resolves
  <2>4. Fresh(work', new)
    <3>1. Fresh(work', Leaves(tree))
      BY <1>1 DEF Behind
    <3> QED
      BY <1>5, <2>1, <3>1 DEF Fresh
  <2> QED
    BY <1>2, <1>5, <2>1, <2>3, <2>4 DEF Behind, new
<1>6. CASE Writes("put_s", "hash_s", work.s, Debited(work))
  <2>1. work.pc = "put_s" /\ work.s \in DOMAIN tree
    BY <1>6, PaysOK DEF Writes, Pays, PayingPcs
  <2>2. /\ work' = At(work, "hash_s") /\ transaction_tree' = log
        /\ account_tree' = [tree EXCEPT ![work.s] = Debited(work)]
    BY <1>6, WorkBecomes DEF Writes
  <2>3. /\ Payment(work') = Payment(work) /\ Debited(work') = Debited(work)
        /\ work'.pc = "hash_s" /\ work'.s = work.s
    BY <2>2, AtHasRead, PaymentFields
  <2>4. Debited(work).previous = LinkTo(Payment(work))
    BY DEF Debited
  <2> QED
    BY <1>5, <2>1, <2>2, <2>3, <2>4 DEF InTrees
<1>7. CASE Writes("put_d", "hash_d", work.d, Credited(work))
  <2>1. work.pc = "put_d" /\ work.d \in DOMAIN tree
    BY <1>7, PaysOK DEF Writes, Pays, PayingPcs
  <2>2. /\ work' = At(work, "hash_d") /\ transaction_tree' = log
        /\ account_tree' = [tree EXCEPT ![work.d] = Credited(work)]
    BY <1>7, WorkBecomes DEF Writes
  <2>3. work'.pc = "hash_d"
    BY <2>2, PaymentFields
  <2>4. Credited(work).previous = LinkTo(Payment(work))
    BY DEF Credited
  <2> QED
    BY <1>5, <2>1, <2>2, <2>3, <2>4 DEF InTrees
<1> QED
  BY <1>3, <1>4, <1>6, <1>7
  DEF HashedStep, Dies, Rests, Goes, Quiet, BeginsCreate, BeginsPay, Reads,
      Hashes, AddsTransaction

\* The hashes that the ledger has cached are behind the trees.
LEMMA HashesWork ==
  ASSUME WInv, HashedStep, HashesOK,
         Behind(work, account_tree, transaction_tree, Leaves(account_tree),
                transaction_tree),
         Behind(work, account_tree, transaction_tree, account_tree_hash,
                transaction_tree_hash)
  PROVE  Behind(work', account_tree', transaction_tree', account_tree_hash',
                transaction_tree_hash')
<1> DEFINE tree == account_tree
           log == transaction_tree
<1>0. Len(log) \in Nat /\ Len(transaction_tree_hash) \in Nat
  BY DEF WInv, IsLog, HashesOK
<1>1. Behind(work', account_tree', transaction_tree', account_tree_hash,
             transaction_tree_hash)
  BY <1>0, BehindWork
<1>2. Behind(work, tree, log, RootOf(tree, digested), log)
  BY BehindRoot
<1>3. Behind(work', account_tree', transaction_tree', RootOf(tree, digested), log)
  BY <1>0, <1>2, BehindWork
<1>4. /\ \/ account_tree_hash' = account_tree_hash
         \/ account_tree_hash' = RootOf(account_tree, digested)
      /\ \/ transaction_tree_hash' = transaction_tree_hash
         \/ transaction_tree_hash' = transaction_tree
  BY DEF HashedStep, Unhashed, WHashes, Digests
<1> QED
  BY <1>1, <1>3, <1>4 DEF Behind

-----------------------------------------------------------------------------
\* What the history variable closed keeps.
Trees(tree, log) == [accounts |-> tree, transactions |-> log]

\* Links: those of the tree, of its cached root and of the row.
LInv ==
  /\ Logged(work, transaction_tree)
  /\ Behind(work, account_tree, transaction_tree, Leaves(account_tree),
            transaction_tree)
  /\ Alive => Behind(work, account_tree, transaction_tree,
                     account_tree_hash, transaction_tree_hash)
  /\ Alive /\ row # NoRow => Behind(work, account_tree, transaction_tree,
                                    row.account, row.transaction)

AtMostOne(S) == \A x, y \in S : x = y

\* The database holds at most one root of each tree, when the process holds
\* none of that tree.
Roots ==
  /\ phase \in (Serving \ {"accounts", "saving_transactions"})
                \cup {"root", "loading", "leaving"}
       => db.account_roots = {}
  /\ phase \in Serving \cup {"loading", "leaving"}
       => db.transaction_roots = {}
  /\ AtMostOne(db.account_roots) /\ AtMostOne(db.transaction_roots)
  /\ row = NoRow => /\ phase \in {"down", "loading", "up"}
                    /\ db.account_roots = {} /\ db.transaction_roots = {}

\* Trees that were there together resolve.
ClosedOK(c) ==
  /\ c = Trees(c.accounts, c.transactions)
  /\ IsFcn(c.accounts)
  /\ Resolves(Leaves(c.accounts), c.transactions)

\* From row r, fetch_from_db makes the trees of c, if it finds the leaves.
Restores(c, r, index) ==
  /\ c.transactions = r.transaction
  /\ DOMAIN c.accounts = DOMAIN r.account
  /\ \A a \in DOMAIN r.account :
       /\ r.account[a] # {} => r.account[a] = {c.accounts[a]}
       /\ r.account[a] = {} /\ a \in DOMAIN index => index[a] = c.accounts[a]

\* Row r has the roots of the trees.
Fits(r, tree, dig, log) == r.account = RootOf(tree, dig) /\ r.transaction = log

\* Both roots of the row are, or are about to be, in the database, or have
\* been fetched from it.
Recoverable ==
  \/ /\ phase \in {"accounts", "saving_transactions"}
     /\ row.account \in db.account_roots /\ row.transaction = transaction_tree
  \/ /\ phase = "down"
     /\ row.account \in db.account_roots
     /\ row.transaction \in db.transaction_roots
  \/ phase = "root" /\ row.transaction \in db.transaction_roots
  \/ phase \in {"loading", "leaving"}

\* What the row stands for are the trees that were there when it was written.
CInv ==
  row # NoRow =>
    /\ ClosedOK(closed)
    /\ (/\ phase \in {"up", "row", "saving_accounts"}
        /\ Fits(row, account_tree, digested, transaction_tree))
         => closed = Trees(account_tree, transaction_tree)
    /\ Recoverable => Restores(closed, row, db.index)

Whole == ~ orphaned => LInv /\ Roots /\ CInv

\* A step of the worker after which the trees have the roots of the row has
\* changed nothing.
LEMMA FitsWork ==
  ASSUME Base, LInv, HashedStep, Alive, row # NoRow,
         Fits(row, account_tree', digested', transaction_tree')
  PROVE  /\ Fits(row, account_tree, digested, transaction_tree)
         /\ UNCHANGED <<account_tree, transaction_tree>>
<1> DEFINE tree == account_tree
           log == transaction_tree
<1>0. /\ Behind(work, tree, log, row.account, row.transaction)
      /\ IsRow(row) /\ IsFcn(tree) /\ IsLog(log)
  BY DEF LInv, Base, DInv, WInv, Accounts
<1>1. /\ row.account = RootOf(account_tree', digested')
      /\ row.transaction = transaction_tree'
      /\ DOMAIN row.account \subseteq DOMAIN tree
      /\ Len(row.transaction) <= Len(log)
      /\ Fresh(work, row.account)
  BY <1>0 DEF Fits, Behind
<1>2. DOMAIN row.account = DOMAIN account_tree'
  BY <1>1 DEF RootOf
<1>3. CASE Quiet /\ digested' = digested
  BY <1>3 DEF Quiet, Fits
<1>4. ~ AddsAccount
  BY <1>1, <1>2 DEF AddsAccount
<1>5. ~ AddsTransaction
  BY <1>0, <1>1, LogAppend DEF AddsTransaction
<1>6. ~ (/\ Writes("put_s", "hash_s", work.s, Debited(work))
         /\ Digests({work.s}))
  <2> SUFFICES ASSUME Writes("put_s", "hash_s", work.s, Debited(work)),
                      Digests({work.s})
               PROVE  FALSE
    OBVIOUS
  <2>1. /\ work.pc = "put_s" /\ work.s \in DOMAIN tree
    BY PaysOK DEF Base, Writes, Pays, PayingPcs
  <2>2. /\ account_tree' = [tree EXCEPT ![work.s] = Debited(work)]
        /\ work.s \in digested'
    BY DEF Writes, Digests
  <2>3. work.s \in DOMAIN account_tree' /\ account_tree'[work.s] = Debited(work)
    BY <2>1, <2>2
  <2>4. RootOf(account_tree', digested')[work.s] = {Debited(work)}
    BY <2>2, <2>3 DEF RootOf
  <2>5. Debited(work) \in row.account[work.s] /\ work.s \in DOMAIN row.account
    BY <1>1, <1>2, <2>3, <2>4
  <2>6. Debited(work).previous = LinkTo(Payment(work))
    BY DEF Debited
  <2> QED
    BY <1>1, <2>1, <2>5, <2>6 DEF Fresh, InTrees
<1>7. CASE /\ Writes("put_d", "hash_d", work.d, Credited(work))
           /\ Digests({work.d})
  <2>1. /\ work.pc = "put_d" /\ work.d \in DOMAIN tree /\ work.s \in DOMAIN tree
        /\ tree[work.s] = Debited(work) /\ work.s \in digested
    BY <1>7, PaysOK DEF Base, Writes, Pays, PayingPcs
  <2>2. /\ account_tree' = [tree EXCEPT ![work.d] = Credited(work)]
        /\ digested' = digested \cup {work.d}
        /\ transaction_tree' = log
    BY <1>7 DEF Writes, Digests
  <2>3. work.d \in DOMAIN account_tree' /\ account_tree'[work.d] = Credited(work)
    BY <2>1, <2>2
  <2>4. RootOf(account_tree', digested')[work.d] = {Credited(work)}
    BY <2>2, <2>3 DEF RootOf
  <2>5. Credited(work) \in row.account[work.d] /\ work.d \in DOMAIN row.account
    BY <1>1, <1>2, <2>3, <2>4
  <2>6. Credited(work).previous = LinkTo(Payment(work))
    BY DEF Credited
  <2>7. work.d = work.s /\ Credited(work) = Debited(work)
    BY <1>1, <2>1, <2>5, <2>6 DEF Fresh, InTrees
  <2>8. account_tree' = tree
    <3>1. tree = [x \in DOMAIN tree |-> tree[x]]
      BY <1>0 DEF IsFcn
    <3> QED
      BY <2>1, <2>2, <2>7, <3>1
  <2>9. digested' = digested
    BY <2>1, <2>2, <2>7
  <2> QED
    BY <2>2, <2>8, <2>9 DEF Fits
<1> QED
  BY <1>3, <1>4, <1>5, <1>6, <1>7
  DEF HashedStep, Dies, Rests, Goes, BeginsCreate, BeginsPay, Reads, Hashes,
      Unhashed, WHashes

\* The log never gets shorter, and stays itself when it does not grow.
LEMMA LogWork ==
  ASSUME Base, LInv, HashedStep, Alive, row # NoRow,
         row.transaction = transaction_tree'
  PROVE  row.transaction = transaction_tree
<1>1. ~ AddsTransaction
  <2>1. IsLog(transaction_tree) /\ Len(row.transaction) <= Len(transaction_tree)
    BY DEF Base, WInv, LInv, Behind
  <2> QED
    BY <2>1, LogAppend DEF AddsTransaction
<1> QED
  BY <1>1 DEF HashedStep, Dies, Rests, Goes, BeginsCreate, BeginsPay, Reads,
              Hashes, AddsAccount, Writes, Quiet

\* Each step of the server keeps Whole: work ...
LEMMA WholeWork ==
  ASSUME Base, Whole, Work, ~ overlapped'
  PROVE  Whole'
<1>1. HashedStep
  BY WorkIs DEF Base
<1>2. /\ phase \in Serving
      /\ UNCHANGED <<phase, row, db, closed, orphaned>>
  BY DEF Work, disk
<1> SUFFICES ASSUME ~ orphaned PROVE LInv' /\ Roots' /\ CInv'
  BY <1>2 DEF Whole
<1>3. LInv /\ Roots /\ CInv /\ Alive /\ WInv /\ HashesOK
  BY <1>2 DEF Whole, Alive, Base
<1>4. LInv'
  <2>1. Logged(work', transaction_tree')
    BY <1>1, <1>3, LoggedWork DEF LInv
  <2>2. Behind(work', account_tree', transaction_tree', Leaves(account_tree'),
               transaction_tree')
    BY <1>1, <1>3, LeavesWork DEF LInv
  <2>3. Behind(work', account_tree', transaction_tree',
               account_tree_hash', transaction_tree_hash')
    BY <1>1, <1>3, HashesWork DEF LInv
  <2>4. ASSUME row # NoRow
        PROVE  Behind(work', account_tree', transaction_tree',
                      row.account, row.transaction)
    <3>1. Behind(work, account_tree, transaction_tree, row.account,
                 row.transaction)
      BY <1>3, <2>4 DEF LInv
    <3>2. Len(row.transaction) \in Nat
      BY <2>4 DEF Base, DInv, IsRow, IsLog
    <3> QED
      BY <1>1, <1>3, <3>1, <3>2, BehindWork
  <2> QED
    BY <1>2, <2>1, <2>2, <2>3, <2>4 DEF LInv
<1>5. Roots'
  BY <1>2, <1>3 DEF Roots
<1>6. CInv'
  <2> SUFFICES ASSUME row # NoRow
               PROVE  /\ ClosedOK(closed)
                      /\ (/\ phase \in {"up", "row", "saving_accounts"}
                          /\ Fits(row, account_tree', digested',
                                  transaction_tree'))
                           => closed = Trees(account_tree', transaction_tree')
                      /\ Recoverable' => Restores(closed, row, db.index)
    BY <1>2 DEF CInv
  <2>1. ClosedOK(closed)
    BY <1>3 DEF CInv
  <2>2. ASSUME phase \in {"up", "row", "saving_accounts"},
               Fits(row, account_tree', digested', transaction_tree')
        PROVE  closed = Trees(account_tree', transaction_tree')
    <3>1. /\ Fits(row, account_tree, digested, transaction_tree)
          /\ UNCHANGED <<account_tree, transaction_tree>>
      BY <1>1, <1>3, <2>2, FitsWork
    <3> QED
      BY <1>3, <2>2, <3>1 DEF CInv
  <2>3. Recoverable' => Recoverable
    BY <1>1, <1>2, <1>3, LogWork DEF Recoverable
  <2>4. Recoverable' => Restores(closed, row, db.index)
    BY <1>3, <2>3 DEF CInv
  <2> QED
    BY <2>1, <2>2, <2>4
<1> QED
  BY <1>4, <1>5, <1>6

-----------------------------------------------------------------------------
\* Accounts without links to a payment that nobody makes.
LEMMA BehindIdle ==
  ASSUME NEW tree, NEW log, IsLog(log), Resolves(Leaves(tree), log)
  PROVE  /\ Logged(Idle, log)
         /\ Behind(Idle, tree, log, Leaves(tree), log)
<1>1. ~ InTrees(Idle)
  BY DEF InTrees, Idle
<1>2. Len(log) <= Len(log)
  BY DEF IsLog
<1>3. DOMAIN Leaves(tree) = DOMAIN tree
  BY DEF Leaves
<1> QED
  BY <1>1, <1>2, <1>3 DEF Logged, Behind, Fresh

\* A process that has ended has no links.
LEMMA LInvGone ==
  ASSUME Gone
  PROVE  LInv'
<1>1. Resolves(Leaves(NoTree), << >>)
  BY NoTreeFacts DEF Resolves, Leaves
<1>2. /\ Logged(Idle, << >>)
      /\ Behind(Idle, NoTree, << >>, Leaves(NoTree), << >>)
  BY <1>1, NoTreeFacts, BehindIdle
<1>3. /\ phase' = "down" /\ account_tree' = NoTree
      /\ transaction_tree' = << >> /\ work' = Idle
  BY GoneFacts
<1> QED
  BY <1>2, <1>3 DEF LInv, Alive, Serving

\* A process that ends in any other way than by its destructors.
LEMMA WholeGone ==
  ASSUME Base, Whole, Gone, UNCHANGED disk,
         phase # "down" \/ row.account \notin db.account_roots
  PROVE  Whole'
<1>1. UNCHANGED <<row, db, closed, orphaned>> /\ phase' = "down"
  BY DEF disk, Gone
<1> SUFFICES ASSUME ~ orphaned PROVE LInv' /\ Roots' /\ CInv'
  BY <1>1 DEF Whole
<1>2. /\ Roots /\ CInv
      /\ phase \in Serving \cup {"down", "root", "loading", "leaving"}
  BY DEF Whole, Base, DInv
<1>3. Roots'
  BY <1>1, <1>2 DEF Roots, Serving
<1>4. ~ Recoverable'
  BY <1>1, <1>2 DEF Roots, Recoverable, Serving
<1>5. CInv'
  BY <1>1, <1>2, <1>4 DEF CInv
<1> QED
  BY <1>3, <1>5, LInvGone

\* Links of a process without a ledger.
LEMMA LInvAsleep ==
  ASSUME LInv, ~ Alive', UNCHANGED <<account_tree, transaction_tree, thread>>
  PROVE  LInv'
<1>1. work' = work
  BY DEF work
<1> QED
  BY <1>1 DEF LInv

\* load_last_ledger without a row.
LEMMA WholeStart ==
  ASSUME Base, Whole, StartFresh
  PROVE  Whole'
<1>1. /\ UNCHANGED <<account_tree, transaction_tree, thread,
                     row, db, closed, orphaned>>
      /\ phase = "down" /\ phase' = "loading" /\ row = NoRow
  BY DEF StartFresh, tvars, vars, disk
<1> SUFFICES ASSUME ~ orphaned PROVE LInv' /\ Roots' /\ CInv'
  BY <1>1 DEF Whole
<1>2. LInv /\ Roots
  BY DEF Whole
<1>3. LInv'
  BY <1>1, <1>2, LInvAsleep DEF Alive, Serving
<1>4. Roots' /\ CInv'
  BY <1>1, <1>2 DEF Roots, CInv
<1> QED
  BY <1>3, <1>4

\* There was one root, and it was fetched.
LEMMA FewerRoots ==
  ASSUME NEW S, AtMostOne(S), NEW x \in S
  PROVE  S \ {x} = {}
BY DEF AtMostOne

\* The constructor of Ledger fetches the root of the account tree ...
LEMMA WholeFetchAccountRoot ==
  ASSUME Base, Whole, FetchAccountRoot
  PROVE  Whole'
<1>1. CASE row.account \in db.account_roots
  <2>1. /\ UNCHANGED <<account_tree, transaction_tree, thread,
                       row, closed, orphaned>>
        /\ phase = "down" /\ phase' = "root" /\ row # NoRow
        /\ db' = [db EXCEPT !.account_roots = @ \ {row.account}]
    BY <1>1 DEF FetchAccountRoot, tvars, vars, hashes
  <2> SUFFICES ASSUME ~ orphaned PROVE LInv' /\ Roots' /\ CInv'
    BY <2>1 DEF Whole
  <2>2. LInv /\ Roots /\ CInv
    BY DEF Whole
  <2>3. /\ db'.account_roots = {}
        /\ db'.transaction_roots = db.transaction_roots
        /\ db'.index = db.index
    BY <1>1, <2>1, <2>2, FewerRoots DEF Roots, Base, DInv, IsDb
  <2>4. LInv'
    BY <2>1, <2>2, LInvAsleep DEF Alive, Serving
  <2>5. Roots'
    BY <2>1, <2>2, <2>3 DEF Roots, AtMostOne, Serving
  <2>6. Recoverable' => Recoverable
    BY <1>1, <2>1, <2>3 DEF Recoverable
  <2>7. CInv'
    BY <2>1, <2>2, <2>3, <2>6 DEF CInv, Serving
  <2> QED
    BY <2>4, <2>5, <2>7
<1>2. CASE row.account \notin db.account_roots
  BY <1>2, WholeGone DEF FetchAccountRoot, FetchFails
<1> QED
  BY <1>1, <1>2

\* ... and that of the transaction tree.
LEMMA WholeFetchTransactionRoot ==
  ASSUME Base, Whole, FetchTransactionRoot
  PROVE  Whole'
<1>1. CASE row.transaction \in db.transaction_roots
  <2>1. /\ UNCHANGED <<account_tree, transaction_tree, thread,
                       row, closed, orphaned>>
        /\ phase = "root" /\ phase' = "loading"
        /\ db' = [db EXCEPT !.transaction_roots = @ \ {row.transaction}]
    BY <1>1 DEF FetchTransactionRoot, tvars, vars
  <2> SUFFICES ASSUME ~ orphaned PROVE LInv' /\ Roots' /\ CInv'
    BY <2>1 DEF Whole
  <2>2. LInv /\ Roots /\ CInv /\ row # NoRow
    BY <2>1 DEF Whole, Base, DInv
  <2>3. /\ db'.transaction_roots = {}
        /\ db'.account_roots = db.account_roots
        /\ db'.index = db.index
    BY <1>1, <2>1, <2>2, FewerRoots DEF Roots, Base, DInv, IsDb
  <2>4. LInv'
    BY <2>1, <2>2, LInvAsleep DEF Alive, Serving
  <2>5. Roots'
    BY <2>1, <2>2, <2>3 DEF Roots, AtMostOne, Serving
  <2>6. Recoverable
    BY <1>1, <2>1 DEF Recoverable
  <2>7. CInv'
    BY <2>1, <2>2, <2>3, <2>6 DEF CInv, Serving
  <2> QED
    BY <2>4, <2>5, <2>7
<1>2. CASE row.transaction \notin db.transaction_roots
  BY <1>2, WholeGone DEF FetchTransactionRoot, FetchFails
<1> QED
  BY <1>1, <1>2

\* What fetch_from_db makes of a row that can be restored are the trees that
\* were there when it was written.
LEMMA FetchedAsClosed ==
  ASSUME NEW c, NEW r, NEW index,
         IsFcn(c.accounts), IsRow(r), Restores(c, r, index),
         \A a \in DOMAIN r.account : r.account[a] = {} => a \in DOMAIN index
  PROVE  Fetched(r.account, index) = c.accounts
<1>1. \A a \in DOMAIN r.account :
        (IF r.account[a] = {} THEN index[a] ELSE Only(r.account[a]))
          = c.accounts[a]
  BY OnlySingle DEF Restores
<1>2. c.accounts = [a \in DOMAIN r.account |-> c.accounts[a]]
  BY DEF IsFcn, Restores
<1> QED
  BY <1>1, <1>2 DEF Fetched

\* A server that comes up from a row has the trees of its writing.
LEMMA ComesUp ==
  ASSUME Base, Whole, ~ orphaned, FetchesAll, row # NoRow
  PROVE  /\ ClosedOK(closed)
         /\ closed = Trees(account_tree', transaction_tree')
<1>1. /\ phase = "loading" /\ IsRow(row) /\ CInv
      /\ account_tree_hash = row.account
      /\ transaction_tree_hash = row.transaction
  BY DEF FetchesAll, Base, DInv, Whole
<1>2. ClosedOK(closed) /\ Restores(closed, row, db.index)
  BY <1>1 DEF CInv, Recoverable
<1>3. account_tree' = closed.accounts
  BY <1>1, <1>2, FetchedAsClosed DEF FetchesAll, ClosedOK
<1>4. transaction_tree' = closed.transactions
  BY <1>1, <1>2 DEF FetchesAll, Restores
<1> QED
  BY <1>2, <1>3, <1>4 DEF ClosedOK

\* One that comes up without a row has nothing.
LEMMA ComesUpFresh ==
  ASSUME Base, FetchesAll, row = NoRow
  PROVE  Resolves(Leaves(account_tree'), transaction_tree')
<1>1. account_tree_hash = RootOf(NoTree, {})
  BY DEF FetchesAll, Base, DInv
<1>2. DOMAIN account_tree_hash = {}
  BY <1>1, NoTreeFacts DEF RootOf
<1>3. DOMAIN Leaves(account_tree') = {}
  BY <1>2 DEF FetchesAll, Fetched, Leaves
<1> QED
  BY <1>3 DEF Resolves

\* fetch_from_db.
LEMMA WholeFetchFromDb ==
  ASSUME Base, Whole, FetchFromDb
  PROVE  Whole'
<1>1. CASE FetchesAll /\ IsDb(db')
  <2>1. /\ phase = "loading" /\ phase' = "up"
        /\ UNCHANGED <<thread, row, closed, orphaned>>
        /\ db'.account_roots = db.account_roots
        /\ db'.transaction_roots = db.transaction_roots
    BY <1>1 DEF FetchesAll
  <2> SUFFICES ASSUME ~ orphaned PROVE LInv' /\ Roots' /\ CInv'
    BY <2>1 DEF Whole
  <2>2. LInv /\ Roots /\ CInv
    BY DEF Whole
  <2>3. /\ IsRoot(account_tree_hash) /\ IsLog(transaction_tree_hash)
        /\ Accounts(db.index) /\ work = Idle
        /\ row # NoRow => /\ account_tree_hash = row.account
                          /\ transaction_tree_hash = row.transaction
    BY <2>1 DEF Base, DInv, IsDb, Alive, Serving, HashesOK
  <2>4. work' = Idle
    BY <2>1, <2>3 DEF work
  <2>5. row # NoRow =>
          /\ ClosedOK(closed)
          /\ closed = Trees(account_tree', transaction_tree')
    BY <1>1, ComesUp
  <2>6. Resolves(Leaves(account_tree'), transaction_tree')
    <3>1. CASE row # NoRow
      <4>1. /\ closed.accounts = account_tree'
            /\ closed.transactions = transaction_tree'
        BY <2>5, <3>1 DEF Trees
      <4> QED
        BY <2>5, <3>1, <4>1 DEF ClosedOK
    <3>2. CASE row = NoRow
      BY <1>1, <3>2, ComesUpFresh
    <3> QED
      BY <3>1, <3>2
  <2>7. /\ account_tree_hash' = RootOf(account_tree', digested')
        /\ transaction_tree_hash' = transaction_tree'
        /\ row' # NoRow => /\ row'.account = RootOf(account_tree', digested')
                           /\ row'.transaction = transaction_tree'
    BY <1>1, <2>3, FetchedFacts DEF FetchesAll
  <2>8. LInv'
    <3>1. IsLog(transaction_tree')
      BY <1>1, <2>3 DEF FetchesAll
    <3> PICK tree, log, dig : /\ tree = account_tree'
                              /\ log = transaction_tree'
                              /\ dig = digested'
      OBVIOUS
    <3>2. /\ Logged(Idle, log)
          /\ Behind(Idle, tree, log, Leaves(tree), log)
          /\ Behind(Idle, tree, log, RootOf(tree, dig), log)
      BY <2>6, <3>1, BehindIdle, BehindRoot
    <3> QED
      BY <2>4, <2>7, <3>2 DEF LInv
  <2>9. Roots'
    BY <2>1, <2>2 DEF Roots
  <2>10. CInv'
    BY <2>1, <2>5 DEF CInv, Recoverable
  <2> QED
    BY <2>8, <2>9, <2>10
<1>2. CASE Gone /\ UNCHANGED disk
  BY <1>2, WholeGone DEF FetchFromDb
<1> QED
  BY <1>1, <1>2, FetchFromDbIs

\* The exit in fetch_from_db.
LEMMA WholeExitLoading ==
  ASSUME Base, Whole, ExitLoading
  PROVE  Whole'
<1>1. PutsBack
  BY ExitLoadingIs
<1>2. /\ phase = "leaving" /\ phase' = "down" /\ Gone
      /\ UNCHANGED <<row, closed, orphaned>>
  BY <1>1 DEF PutsBack, Gone
<1> SUFFICES ASSUME ~ orphaned PROVE LInv' /\ Roots' /\ CInv'
  BY <1>2 DEF Whole
<1>3. Roots /\ CInv /\ row # NoRow
  BY <1>2 DEF Whole, Roots
<1>4. /\ db'.account_roots \subseteq {account_tree_hash}
      /\ db'.transaction_roots \subseteq {transaction_tree_hash}
  BY <1>1, <1>2, <1>3 DEF PutsBack, Roots
<1>5. Roots'
  BY <1>2, <1>3, <1>4 DEF Roots, AtMostOne, Serving
<1>6. Restores(closed, row, db'.index)
  <2>1. Restores(closed, row, db.index)
    BY <1>2, <1>3 DEF CInv, Recoverable
  <2>2. \A a \in DOMAIN db'.index :
          a \in DOMAIN db.index /\ db'.index[a] = db.index[a]
    BY <1>1 DEF PutsBack
  <2> PICK index : index = db'.index
    OBVIOUS
  <2> QED
    BY <2>1, <2>2 DEF Restores
<1>7. CInv'
  BY <1>2, <1>3, <1>6 DEF CInv
<1> QED
  BY <1>2, <1>5, <1>7, LInvGone

\* ~Ledger of a server that is up writes the row, or fails to.
LEMMA WholeWriteRowUp ==
  ASSUME Base, Whole, WriteRow \/ WriteRowFails, phase = "up"
  PROVE  Whole'
<1>1. /\ UNCHANGED <<account_tree, transaction_tree, thread, digested,
                     account_tree_hash, transaction_tree_hash, db>>
      /\ phase' = "row" /\ work' = work
  BY DEF WriteRow, WriteRowFails, tvars, vars, hashes, work
<1>2. CASE WriteRow
  <2>1. /\ row' = [account     |-> account_tree_hash,
                   transaction |-> transaction_tree_hash]
        /\ closed' = Trees(account_tree, transaction_tree)
        /\ orphaned' = orphaned
    BY <1>2 DEF WriteRow, Trees
  <2> SUFFICES ASSUME ~ orphaned PROVE LInv' /\ Roots' /\ CInv'
    BY <2>1 DEF Whole
  <2>2. LInv /\ Roots
    BY DEF Whole
  <2>3. row' # NoRow /\ row'.account = account_tree_hash
        /\ row'.transaction = transaction_tree_hash
    BY <2>1, NoRowIsNone
  <2>4. LInv'
    BY <1>1, <2>2, <2>3 DEF LInv, Alive, Serving
  <2>5. Roots'
    BY <1>1, <2>2, <2>3 DEF Roots, Serving
  <2>6. CInv'
    <3>1. IsFcn(account_tree)
          /\ Resolves(Leaves(account_tree), transaction_tree)
      BY <2>2 DEF LInv, Behind, Base, WInv, Accounts
    <3>2. ClosedOK(closed')
      BY <2>1, <3>1 DEF ClosedOK, Trees
    <3>3. ~ Recoverable'
      BY <1>1 DEF Recoverable
    <3> QED
      BY <1>1, <2>1, <3>2, <3>3 DEF CInv
  <2> QED
    BY <2>4, <2>5, <2>6
<1>3. CASE WriteRowFails
  <2>1. /\ UNCHANGED <<row, closed>>
        /\ orphaned' = (orphaned \/ row = NoRow)
    BY <1>3 DEF WriteRowFails
  <2> SUFFICES ASSUME ~ orphaned, row # NoRow PROVE LInv' /\ Roots' /\ CInv'
    BY <2>1 DEF Whole
  <2>2. LInv /\ Roots /\ CInv
    BY DEF Whole
  <2>3. LInv'
    BY <1>1, <2>1, <2>2 DEF LInv, Alive, Serving
  <2>4. Roots'
    BY <1>1, <2>1, <2>2 DEF Roots, Serving
  <2>5. ~ Recoverable'
    BY <1>1 DEF Recoverable
  <2>6. CInv'
    BY <1>1, <2>1, <2>2, <2>5 DEF CInv
  <2> QED
    BY <2>3, <2>4, <2>6
<1> QED
  BY <1>2, <1>3

\* ~Ledger in fetch_from_db: the row is that of the last time, or the first.
LEMMA WholeWriteRowLoading ==
  ASSUME Base, Whole, WriteRow \/ WriteRowFails, phase = "loading"
  PROVE  Whole'
<1>1. /\ UNCHANGED <<account_tree, transaction_tree, thread, digested,
                     account_tree_hash, transaction_tree_hash, db>>
      /\ phase' = "leaving"
  BY DEF WriteRow, WriteRowFails, tvars, vars, hashes
<1>2. /\ account_tree = NoTree /\ transaction_tree = << >>
      /\ row # NoRow => /\ IsRow(row)
                        /\ account_tree_hash = row.account
                        /\ transaction_tree_hash = row.transaction
      /\ row = NoRow => /\ account_tree_hash = RootOf(NoTree, {})
                        /\ transaction_tree_hash = << >>
  BY DEF Base, DInv, Alive, Serving
<1>3. ASSUME ~ orphaned, row # NoRow, UNCHANGED <<row, closed>>
      PROVE  LInv' /\ Roots' /\ CInv'
  <2>1. LInv /\ Roots /\ CInv
    BY <1>3 DEF Whole
  <2>2. LInv'
    BY <1>1, <2>1, LInvAsleep DEF Alive, Serving
  <2>3. Roots' /\ CInv'
    BY <1>1, <1>3, <2>1 DEF Roots, CInv, Recoverable, Serving
  <2> QED
    BY <2>2, <2>3
<1>4. ASSUME ~ orphaned, row = NoRow, WriteRow
      PROVE  LInv' /\ Roots' /\ CInv'
  <2>1. LInv /\ Roots
    BY <1>4 DEF Whole
  <2>2. /\ row' # NoRow
        /\ row'.account = RootOf(NoTree, {}) /\ row'.transaction = << >>
        /\ closed' = Trees(NoTree, << >>)
    BY <1>2, <1>4, NoRowIsNone DEF WriteRow, Trees
  <2>3. LInv'
    BY <1>1, <2>1, LInvAsleep DEF Alive, Serving
  <2>4. Roots'
    BY <1>1, <2>1, <2>2 DEF Roots, Serving
  <2>5. ClosedOK(closed')
    BY <2>2, NoTreeFacts DEF ClosedOK, Trees, Resolves, Leaves, Accounts
  <2>6. Restores(closed', row', db'.index)
    <3>1. DOMAIN RootOf(NoTree, {}) = {}
      BY NoTreeFacts DEF RootOf
    <3> QED
      BY <2>2, <3>1, NoTreeFacts DEF Restores, Trees
  <2>7. CInv'
    BY <1>1, <2>5, <2>6 DEF CInv
  <2> QED
    BY <2>3, <2>4, <2>7
<1>5. CASE WriteRow
  <2>1. /\ orphaned' = orphaned
        /\ row # NoRow => UNCHANGED <<row, closed>>
    <3>1. row # NoRow => row' = row
      BY <1>2, <1>5 DEF WriteRow, IsRow
    <3> QED
      BY <1>5, <3>1 DEF WriteRow
  <2> QED
    BY <1>3, <1>4, <1>5, <2>1 DEF Whole
<1>6. CASE WriteRowFails
  BY <1>3, <1>6 DEF WriteRowFails, Whole
<1> QED
  BY <1>5, <1>6

\* A save that begins, and one that waits for ever.
LEMMA WholeBeginSave ==
  ASSUME Base, Whole,
         BeginSaveAccounts \/ BeginSaveTransactions \/ AlarmSaving
  PROVE  Whole'
<1>1. /\ UNCHANGED <<account_tree, transaction_tree, thread, digested,
                     account_tree_hash, transaction_tree_hash,
                     row, db, closed, orphaned>>
      /\ \/ phase = "row" /\ phase' = "saving_accounts"
         \/ phase = "accounts" /\ phase' = "saving_transactions"
         \/ phase \in {"saving_accounts", "saving_transactions"}
              /\ phase' = phase
      /\ work' = work
  BY DEF BeginSaveAccounts, BeginSaveTransactions, AlarmSaving, tvars, vars,
         hashes, disk, work
<1> SUFFICES ASSUME ~ orphaned PROVE LInv' /\ Roots' /\ CInv'
  BY <1>1 DEF Whole
<1>2. LInv /\ Roots /\ CInv
  BY DEF Whole
<1>3. LInv'
  BY <1>1, <1>2 DEF LInv, Alive, Serving
<1>4. Roots'
  BY <1>1, <1>2 DEF Roots, Serving
<1>5. Recoverable' => Recoverable
  BY <1>1 DEF Recoverable
<1>6. CInv'
  BY <1>1, <1>2, <1>5 DEF CInv
<1> QED
  BY <1>3, <1>4, <1>6

\* backup_to_database of the account tree ...
LEMMA WholeSaveAccounts ==
  ASSUME Base, Whole, SaveAccounts
  PROVE  Whole'
<1>1. /\ UNCHANGED <<account_tree, transaction_tree, thread, digested,
                     account_tree_hash, transaction_tree_hash,
                     row, closed, orphaned>>
      /\ phase = "saving_accounts" /\ phase' = "accounts" /\ work' = work
  BY DEF SaveAccounts, tvars, vars, hashes, work
<1> SUFFICES ASSUME ~ orphaned PROVE LInv' /\ Roots' /\ CInv'
  BY <1>1 DEF Whole
<1>2. LInv /\ Roots /\ CInv /\ row # NoRow
  BY <1>1 DEF Whole, Roots
<1>3. /\ db'.account_roots = {RootOf(account_tree, digested)}
      /\ db'.transaction_roots = {}
      /\ db'.index = Merged(db.index, ByIndex)
  BY <1>1, <1>2, SaveAccountsIs DEF Roots, Serving
<1>4. LInv'
  BY <1>1, <1>2 DEF LInv, Alive, Serving
<1>5. Roots'
  BY <1>1, <1>2, <1>3 DEF Roots, AtMostOne, Serving
<1>6. ASSUME Recoverable'
      PROVE  Restores(closed, row, db'.index)
  <2>1. Fits(row, account_tree, digested, transaction_tree)
    BY <1>1, <1>3, <1>6 DEF Recoverable, Fits
  <2>2. closed = Trees(account_tree, transaction_tree)
    BY <1>1, <1>2, <2>1 DEF CInv
  <2>3. /\ closed.accounts = account_tree
        /\ closed.transactions = transaction_tree
        /\ row.account = RootOf(account_tree, digested)
        /\ row.transaction = transaction_tree
    BY <2>1, <2>2 DEF Trees, Fits
  <2>4. \A a \in DOMAIN account_tree :
          a \notin digested => Merged(db.index, ByIndex)[a] = account_tree[a]
    BY DEF Merged, ByIndex
  <2>5. \A a \in DOMAIN account_tree :
          row.account[a] = IF a \in digested THEN {account_tree[a]} ELSE {}
    BY <2>3 DEF RootOf
  <2>6. DOMAIN row.account = DOMAIN account_tree
    BY <2>3 DEF RootOf
  <2> HIDE DEF Merged
  <2> QED
    BY <1>3, <2>3, <2>4, <2>5, <2>6 DEF Restores
<1>7. CInv'
  BY <1>1, <1>2, <1>6 DEF CInv
<1> QED
  BY <1>4, <1>5, <1>7

\* ... and backup_to_database of the transaction tree.
LEMMA WholeSaveTransactions ==
  ASSUME Base, Whole, SaveTransactions
  PROVE  Whole'
<1>1. /\ phase = "saving_transactions" /\ phase' = "down" /\ Gone
      /\ UNCHANGED <<row, closed, orphaned>>
  BY DEF SaveTransactions, Gone
<1> SUFFICES ASSUME ~ orphaned PROVE LInv' /\ Roots' /\ CInv'
  BY <1>1 DEF Whole
<1>2. Roots /\ CInv /\ row # NoRow
  BY <1>1 DEF Whole, Roots
<1>3. /\ db'.account_roots = db.account_roots
      /\ db'.transaction_roots = {transaction_tree}
      /\ db'.index = db.index
  BY <1>1, <1>2, SaveTransactionsIs DEF Roots, Serving
<1>4. Roots'
  BY <1>1, <1>2, <1>3 DEF Roots, AtMostOne, Serving
<1>5. Recoverable' => Recoverable
  BY <1>1, <1>3 DEF Recoverable
<1>6. CInv'
  BY <1>1, <1>2, <1>3, <1>5 DEF CInv
<1> QED
  BY <1>1, <1>4, <1>6, LInvGone

\* Whole is inductive with Base until operations overlap.
LEMMA WholeStep ==
  ASSUME Base, Whole, [RecoveryNext]_rvars, ~ overlapped'
  PROVE  Whole'
<1>1. CASE ExitUnloaded
  BY <1>1, WholeGone DEF ExitUnloaded
<1>2. CASE Crash
  BY <1>2, WholeGone DEF Crash
<1>3. CASE UNCHANGED rvars
  BY <1>3 DEF rvars, tvars, vars, hashes, disk, Whole, LInv, Roots, CInv,
              Recoverable, work, Alive
<1>4. CASE WriteRow \/ WriteRowFails
  BY <1>4, WholeWriteRowUp, WholeWriteRowLoading DEF WriteRow, WriteRowFails
<1> QED
  BY <1>1, <1>2, <1>3, <1>4, WholeStart, WholeFetchAccountRoot,
     WholeFetchTransactionRoot, WholeFetchFromDb, WholeWork,
     WholeExitLoading, WholeBeginSave, WholeSaveAccounts,
     WholeSaveTransactions DEF RecoveryNext

\* Whole holds before the first start.
LEMMA WholeInit ==
  ASSUME RecoveryInit
  PROVE  Whole
<1>1. /\ account_tree = NoTree /\ transaction_tree = << >>
      /\ thread = [t \in Thread |-> Idle] /\ phase = "down" /\ row = NoRow
  BY DEF RecoveryInit, ThreadsInit, Init, NoTree
<1>2. work = Idle
  BY <1>1, NobodyWorks, WorkIsThat
<1>3. LInv
  <2>1. Resolves(Leaves(NoTree), << >>)
    BY NoTreeFacts DEF Resolves, Leaves
  <2> QED
    BY <1>1, <1>2, <2>1, NoTreeFacts, BehindIdle DEF LInv, Alive, Serving
<1>4. Roots
  BY <1>1 DEF RecoveryInit, Roots, AtMostOne, Serving
<1>5. CInv
  BY <1>1 DEF CInv
<1> QED
  BY <1>3, <1>4, <1>5 DEF Whole

\* Whole is an invariant until operations overlap.
LEMMA WholeInvariant == RecoverySpec => [](overlapped \/ (Base /\ Whole))
<1> DEFINE Inv2 == overlapped \/ (Base /\ Whole)
<1>1. RecoveryInit => Inv2
  BY BaseInit, WholeInit
<1>2. Inv2 /\ [RecoveryNext]_rvars => Inv2'
  BY BaseStep, WholeStep, OverlappedStays
<1> QED
  BY <1>1, <1>2, PTL DEF RecoverySpec

(***************************************************************************)
(* The last transaction of each account of a running server is in its      *)
(* transaction tree: what get_transaction_history looks up is there, with  *)
(* any threads, addresses, amounts and lengths of the tree, and after any  *)
(* number of crashes, exits and failed writes of the row (but of the       *)
(* first), until operations overlap.                                       *)
(***************************************************************************)
THEOREM LinksAlwaysResolve == RecoverySpec => []LinksResolve
<1>1. overlapped \/ (Base /\ Whole) => LinksResolve
  <2> SUFFICES ASSUME Base, Whole, phase = "up", ~ orphaned,
                      NEW a \in DOMAIN account_tree,
                      account_tree[a].previous # Origin
               PROVE  \E tx \in Entries :
                        account_tree[a].previous = LinkTo(tx)
    BY DEF LinksResolve
  <2>1. Resolves(Leaves(account_tree), transaction_tree)
    BY DEF Whole, LInv, Behind
  <2>2. Links(account_tree[a].previous, transaction_tree)
    BY <2>1 DEF Resolves, Leaves
  <2>3. PICK i \in DOMAIN transaction_tree :
          account_tree[a].previous = LinkTo(transaction_tree[i])
    BY <2>2 DEF Links
  <2> QED
    BY <2>3 DEF Entries
<1> QED
  BY <1>1, WholeInvariant, PTL

(***************************************************************************)
(* A server that comes up from a row has exactly the trees that were there *)
(* when ~Ledger wrote the row, however the process that wrote it, and the  *)
(* ones that tried to load it, have ended (unless the first row was lost,  *)
(* or operations have overlapped with each other or with the saving).      *)
(***************************************************************************)
THEOREM ComesUpAsItClosed == RecoverySpec => ComesUpAsClosed
<1> DEFINE Up == phase = "loading" /\ phase' = "up" /\ row # NoRow
                   /\ ~ orphaned /\ ~ overlapped
                   => closed = [accounts |-> account_tree',
                                transactions |-> transaction_tree']
<1>1. (overlapped \/ (Base /\ Whole)) /\ [RecoveryNext]_rvars => [Up]_rvars
  <2> SUFFICES ASSUME Base, Whole, RecoveryNext, row # NoRow,
                      phase = "loading", phase' = "up", ~ orphaned
               PROVE  closed = [accounts |-> account_tree',
                                transactions |-> transaction_tree']
    OBVIOUS
  <2>1. FetchFromDb
    BY DEF RecoveryNext, StartFresh, FetchAccountRoot, FetchTransactionRoot,
           Work, Serving, ExitUnloaded, ExitLoading, WriteRow, WriteRowFails,
           BeginSaveAccounts, SaveAccounts, BeginSaveTransactions,
           SaveTransactions, AlarmSaving, Crash, Gone
  <2>2. FetchesAll
    BY <2>1, FetchFromDbIs DEF Gone
  <2> QED
    BY <2>2, ComesUp DEF Trees
<1> QED
  BY <1>1, WholeInvariant, PTL DEF RecoverySpec, ComesUpAsClosed
===============================================================================
