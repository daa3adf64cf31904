-------------------------- MODULE ReplicationProofs --------------------------
(***************************************************************************)
(* What two servers that forward to each other agree on, for every set of  *)
(* addresses and amounts and any number of requests.                       *)
(***************************************************************************)
EXTENDS Replication, TLAPS

\* What carrying out r does to a ledger, as a function of its accounts and
\* its log: whether the process survives, and what it leaves.
Survives(tree, log, r) ==
  IF r.command = "account"
  THEN r.address \notin DOMAIN tree
  ELSE /\ r.source \in DOMAIN tree
       /\ X!accepts(tree[r.source].balance, -r.amount) =>
            r.destination \in DOMAIN tree

Accepted(tree, r) ==
  r.command # "account" /\ X!accepts(tree[r.source].balance, -r.amount)

Entry(tree, r) ==
  [source |-> r.source, destination |-> r.destination, amount |-> r.amount,
   source_previous      |-> tree[r.source].previous,
   destination_previous |-> tree[r.destination].previous]

Fresh(tree, log, r) ==
  ~ \E i \in DOMAIN log :
      X!get_sha512_half(log[i]) = X!get_sha512_half(Entry(tree, r))

TreeAfter(tree, r) ==
  IF r.command = "account"
  THEN [x \in DOMAIN tree \cup {r.address} |->
          IF x = r.address
          THEN [balance |-> InitialBalance, previous |-> X!Origin]
          ELSE tree[x]]
  ELSE IF ~ Accepted(tree, r) THEN tree
  ELSE [x \in DOMAIN tree |->
          IF x = r.destination
          THEN [balance  |-> X!add_balance(tree[r.destination].balance,
                                           r.amount),
                previous |-> X!LinkTo(Entry(tree, r))]
          ELSE IF x = r.source
          THEN [balance  |-> tree[r.source].balance - r.amount,
                previous |-> X!LinkTo(Entry(tree, r))]
          ELSE tree[x]]

LogAfter(tree, log, r) ==
  IF Accepted(tree, r) THEN Append(log, Entry(tree, r)) ELSE log

\* A ledger on which r is carried out and survived becomes this one.
Goes(tree, log, r, tree_, log_) ==
  /\ Survives(tree, log, r)
  /\ Accepted(tree, r) => Fresh(tree, log, r)
  /\ tree_ = TreeAfter(tree, r)
  /\ log_ = LogAfter(tree, log, r)

-----------------------------------------------------------------------------
\* Carrying out a request on either ledger is that function.
LEMMA CarryOutXGoes ==
  ASSUME NEW r, CarryOutX(r)
  PROVE  /\ status_x = "running"
         /\ status_x' = "running" =>
              Goes(account_tree_x, transaction_tree_x, r,
                   account_tree_x', transaction_tree_x')
         /\ status_x' # "running" =>
              UNCHANGED <<account_tree_x, transaction_tree_x>>
         /\ \A tree_, log_ :
              Goes(account_tree_x, transaction_tree_x, r, tree_, log_)
                => /\ status_x' = "running"
                   /\ account_tree_x' = tree_
                   /\ transaction_tree_x' = log_
<1> USE DEF Goes, Survives, Accepted, Fresh, TreeAfter, LogAfter, Entry,
            X!has_account, X!accepts, X!Balance
<1>1. ASSUME r.command = "account", X!CreateAccount(r.address)
      PROVE  /\ status_x = "running" /\ status_x' = "running"
             /\ Goes(account_tree_x, transaction_tree_x, r,
                     account_tree_x', transaction_tree_x')
  BY <1>1 DEF X!CreateAccount
<1>2. ASSUME r.command = "account", X!CreateAccountAgain(r.address)
      PROVE  /\ status_x = "running" /\ status_x' # "running"
             /\ UNCHANGED <<account_tree_x, transaction_tree_x>>
             /\ ~ Survives(account_tree_x, transaction_tree_x, r)
  BY <1>2 DEF X!CreateAccountAgain
<1>3. ASSUME r.command # "account",
             X!AddTransactionEntry(r.source, r.destination, r.amount),
             status_x' = "running"
      PROVE  /\ status_x = "running"
             /\ Goes(account_tree_x, transaction_tree_x, r,
                     account_tree_x', transaction_tree_x')
  BY <1>3 DEF X!AddTransactionEntry, X!Transaction, X!Paid
<1>4. ASSUME r.command # "account",
             X!AddTransactionEntry(r.source, r.destination, r.amount),
             status_x' # "running"
      PROVE  /\ status_x = "running"
             /\ UNCHANGED <<account_tree_x, transaction_tree_x>>
             /\ Accepted(account_tree_x, r)
             /\ ~ Fresh(account_tree_x, transaction_tree_x, r)
  BY <1>4 DEF X!AddTransactionEntry, X!Transaction
<1>5. ASSUME r.command # "account", X!RejectTransaction(r.source, r.amount)
      PROVE  /\ status_x = "running" /\ status_x' = "running"
             /\ Goes(account_tree_x, transaction_tree_x, r,
                     account_tree_x', transaction_tree_x')
  BY <1>5 DEF X!RejectTransaction, X!vars
<1>6. ASSUME r.command # "account",
             X!PayWithoutAccount(r.source, r.destination, r.amount)
      PROVE  /\ status_x = "running" /\ status_x' # "running"
             /\ UNCHANGED <<account_tree_x, transaction_tree_x>>
             /\ ~ Survives(account_tree_x, transaction_tree_x, r)
  BY <1>6 DEF X!PayWithoutAccount
<1> USE DEF CarryOutX
<1> HIDE DEF Survives, Accepted, Fresh, TreeAfter, LogAfter, Entry,
             X!has_account, X!accepts, X!Balance
<1> QED
  BY <1>1, <1>2, <1>3, <1>4, <1>5, <1>6

LEMMA CarryOutYGoes ==
  ASSUME NEW r, CarryOutY(r)
  PROVE  /\ status_y = "running"
         /\ status_y' = "running" =>
              Goes(account_tree_y, transaction_tree_y, r,
                   account_tree_y', transaction_tree_y')
         /\ status_y' # "running" =>
              UNCHANGED <<account_tree_y, transaction_tree_y>>
         /\ \A tree_, log_ :
              Goes(account_tree_y, transaction_tree_y, r, tree_, log_)
                => /\ status_y' = "running"
                   /\ account_tree_y' = tree_
                   /\ transaction_tree_y' = log_
<1> USE DEF Goes, Survives, Accepted, Fresh, TreeAfter, LogAfter, Entry,
            Y!has_account, Y!accepts, Y!Balance, X!accepts, X!Origin, Y!Origin,
            X!LinkTo, Y!LinkTo, X!add_balance, Y!add_balance,
            X!get_sha512_half, Y!get_sha512_half,
            X!ledger_sequence, Y!ledger_sequence
<1>1. ASSUME r.command = "account", Y!CreateAccount(r.address)
      PROVE  /\ status_y = "running" /\ status_y' = "running"
             /\ Goes(account_tree_y, transaction_tree_y, r,
                     account_tree_y', transaction_tree_y')
  BY <1>1 DEF Y!CreateAccount
<1>2. ASSUME r.command = "account", Y!CreateAccountAgain(r.address)
      PROVE  /\ status_y = "running" /\ status_y' # "running"
             /\ UNCHANGED <<account_tree_y, transaction_tree_y>>
             /\ ~ Survives(account_tree_y, transaction_tree_y, r)
  BY <1>2 DEF Y!CreateAccountAgain
<1>3. ASSUME r.command # "account",
             Y!AddTransactionEntry(r.source, r.destination, r.amount),
             status_y' = "running"
      PROVE  /\ status_y = "running"
             /\ Goes(account_tree_y, transaction_tree_y, r,
                     account_tree_y', transaction_tree_y')
  BY <1>3 DEF Y!AddTransactionEntry, Y!Transaction, Y!Paid
<1>4. ASSUME r.command # "account",
             Y!AddTransactionEntry(r.source, r.destination, r.amount),
             status_y' # "running"
      PROVE  /\ status_y = "running"
             /\ UNCHANGED <<account_tree_y, transaction_tree_y>>
             /\ Accepted(account_tree_y, r)
             /\ ~ Fresh(account_tree_y, transaction_tree_y, r)
  BY <1>4 DEF Y!AddTransactionEntry, Y!Transaction
<1>5. ASSUME r.command # "account", Y!RejectTransaction(r.source, r.amount)
      PROVE  /\ status_y = "running" /\ status_y' = "running"
             /\ Goes(account_tree_y, transaction_tree_y, r,
                     account_tree_y', transaction_tree_y')
  BY <1>5 DEF Y!RejectTransaction, Y!vars
<1>6. ASSUME r.command # "account",
             Y!PayWithoutAccount(r.source, r.destination, r.amount)
      PROVE  /\ status_y = "running" /\ status_y' # "running"
             /\ UNCHANGED <<account_tree_y, transaction_tree_y>>
             /\ ~ Survives(account_tree_y, transaction_tree_y, r)
  BY <1>6 DEF Y!PayWithoutAccount
<1> USE DEF CarryOutY
<1> HIDE DEF Survives, Accepted, Fresh, TreeAfter, LogAfter, Entry,
             Y!has_account, Y!accepts, Y!Balance
<1> QED
  BY <1>1, <1>2, <1>3, <1>4, <1>5, <1>6

-----------------------------------------------------------------------------
(***************************************************************************)
(* What is under way is well formed, balances are integers, logs are       *)
(* sequences.                                                              *)
(***************************************************************************)
SoundTree(tree) ==
  /\ DOMAIN tree \subseteq Address
  /\ \A a \in DOMAIN tree : tree[a].balance \in Int

IsLog(log) == \E S : log \in Seq(S)

RTyped ==
  /\ to_x \in Seq(Request) /\ to_y \in Seq(Request)
  /\ taken \in [x : Nat, y : Nat]
  /\ missed \in BOOLEAN /\ refused \in BOOLEAN
  /\ SoundTree(account_tree_x) /\ SoundTree(account_tree_y)
  /\ IsLog(transaction_tree_x)

LEMMA RequestFields ==
  ASSUME NEW r \in Request
  PROVE  /\ r.command \in {"account", "transaction"}
         /\ r.command = "account" => r.address \in Address
         /\ r.command = "transaction" =>
              /\ r.source \in Address /\ r.destination \in Address
              /\ r.amount \in Int
  BY ReplicationAssumption DEF Request, Account, Payment

LEMMA GoesSound ==
  ASSUME NEW tree, NEW log, NEW r \in Request, NEW tree_, NEW log_,
         Goes(tree, log, r, tree_, log_), SoundTree(tree)
  PROVE  SoundTree(tree_)
<1>1. CASE r.command = "account"
  BY <1>1, RequestFields, ReplicationAssumption
  DEF Goes, TreeAfter, SoundTree
<1>2. CASE r.command # "account" /\ ~ Accepted(tree, r)
  BY <1>2 DEF Goes, TreeAfter
<1>3. CASE r.command # "account" /\ Accepted(tree, r)
  <2>1. /\ r.source \in DOMAIN tree /\ r.destination \in DOMAIN tree
        /\ r.amount \in Int
    BY <1>3, RequestFields DEF Goes, Survives, Accepted
  <2>2. X!add_balance(tree[r.destination].balance, r.amount) \in Int
    BY <2>1 DEF X!add_balance, SoundTree
  <2>3. DOMAIN tree_ = DOMAIN tree
    BY <1>3 DEF Goes, TreeAfter
  <2>4. \A a \in DOMAIN tree : tree_[a].balance \in Int
    BY <1>3, <2>1, <2>2 DEF Goes, TreeAfter, SoundTree
  <2> QED
    BY <2>3, <2>4 DEF SoundTree
<1> QED
  BY <1>1, <1>2, <1>3

LEMMA GoesIsLog ==
  ASSUME NEW tree, NEW log, NEW r, NEW tree_, NEW log_,
         Goes(tree, log, r, tree_, log_), IsLog(log)
  PROVE  IsLog(log_)
<1>1. PICK S : log \in Seq(S)
  BY DEF IsLog
<1>2. log \in Seq(S \cup {Entry(tree, r)})
  BY <1>1
<1>3. Append(log, Entry(tree, r)) \in Seq(S \cup {Entry(tree, r)})
  BY <1>2
<1> QED
  BY <1>2, <1>3 DEF Goes, LogAfter, IsLog

LEMMA RTypedInit ==
  ASSUME Init
  PROVE  RTyped
<1>1. SoundTree(account_tree_x) /\ SoundTree(account_tree_y)
  BY DEF Init, X!Init, Y!Init, SoundTree
<1>2. IsLog(transaction_tree_x)
  <2>1. transaction_tree_x \in Seq({})
    BY DEF Init, X!Init
  <2> QED
    BY <2>1 DEF IsLog
<1>3. to_x \in Seq(Request) /\ to_y \in Seq(Request)
  BY DEF Init
<1> QED
  BY <1>1, <1>2, <1>3 DEF Init, RTyped

LEMMA RTypedStep ==
  ASSUME RTyped, [Next]_vars
  PROVE  RTyped'
<1> USE DEF RTyped
<1>1. ASSUME NEW r \in Request, CarryOutX(r)
      PROVE  SoundTree(account_tree_x)' /\ IsLog(transaction_tree_x)'
  <2>1. CASE status_x' = "running"
    BY <1>1, <2>1, CarryOutXGoes, GoesSound, GoesIsLog
  <2>2. CASE status_x' # "running"
    BY <1>1, <2>2, CarryOutXGoes
  <2> QED
    BY <2>1, <2>2
<1>2. ASSUME NEW r \in Request, CarryOutY(r)
      PROVE  SoundTree(account_tree_y)'
  <2>1. CASE status_y' = "running"
    BY <1>2, <2>1, CarryOutYGoes, GoesSound
  <2>2. CASE status_y' # "running"
    BY <1>2, <2>2, CarryOutYGoes
  <2> QED
    BY <2>1, <2>2
<1>3. ASSUME NEW r \in Request, RequestX(r)
      PROVE  RTyped'
  BY <1>1, <1>3 DEF RequestX, Pushed, Message, ledger_y
<1>4. ASSUME NEW r \in Request, RequestY(r)
      PROVE  RTyped'
  BY <1>2, <1>4, SMTT(30) DEF RequestY, Pushed, Message, ledger_x
<1>5. CASE ProcessX
  BY <1>1, <1>5 DEF ProcessX, ledger_y
<1>6. CASE ProcessY
  BY <1>2, <1>6 DEF ProcessY, ledger_x
<1>7. CASE Connect
  BY <1>7 DEF Connect, ledger_x, ledger_y
<1>8. CASE DisconnectX
  BY <1>8 DEF DisconnectX, ledger_x, ledger_y
<1>9. CASE DisconnectY
  BY <1>9 DEF DisconnectY, ledger_x, ledger_y
<1>10. CASE Garble
  <2>1. ASSUME NEW s \in Seq(Request), NEW i \in DOMAIN s
        PROVE  RemoveAt(s, i) \in Seq(Request)
    <3>1. SubSeq(s, 1, i - 1) \in Seq(Request)
      OBVIOUS
    <3>2. SubSeq(s, i + 1, Len(s)) \in Seq(Request)
      OBVIOUS
    <3> QED
      BY <3>1, <3>2 DEF RemoveAt
  <2> QED
    BY <1>10, <2>1 DEF Garble, ledger_x, ledger_y
<1>11. CASE UNCHANGED vars
  BY <1>11 DEF vars, ledger_x, ledger_y, net
<1> QED
  BY <1>3, <1>4, <1>5, <1>6, <1>7, <1>8, <1>9, <1>10, <1>11 DEF Next

-----------------------------------------------------------------------------
(***************************************************************************)
(* A follower.  Behind what is forwarded to y stand the ledgers that y     *)
(* will go through: from its own, request by request, to the one of x.     *)
(* Their logs are all beginnings of the log of x.                          *)
(***************************************************************************)
Starts(log, longer) == \E m \in 0..Len(longer) : log = SubSeq(longer, 1, m)

Leads(h, g) ==
  /\ h[0] = account_tree_y /\ g[0] = transaction_tree_y
  /\ h[Len(to_y)] = account_tree_x /\ g[Len(to_y)] = transaction_tree_x
  /\ \A i \in 1..Len(to_y) : Goes(h[i - 1], g[i - 1], to_y[i], h[i], g[i])
  /\ \A i \in 0..Len(to_y) : Starts(g[i], transaction_tree_x)

Follows ==
  taken.y = 0 /\ ~ missed =>
    /\ to_x = << >>
    /\ status_y = "running"
    /\ \E h, g : Leads(h, g)

LEMMA StartsAppend ==
  ASSUME NEW S, NEW log \in Seq(S), NEW e
  PROVE  /\ Starts(log, log)
         /\ \A l : Starts(l, log) => Starts(l, Append(log, e))
<1>1. log \in Seq(S \cup {e}) /\ Append(log, e) \in Seq(S \cup {e})
  OBVIOUS
<1>2. \A m \in 0..Len(log) : SubSeq(Append(log, e), 1, m) = SubSeq(log, 1, m)
  BY <1>1
<1>3. log = SubSeq(log, 1, Len(log)) /\ Len(log) \in 0..Len(log)
  OBVIOUS
<1>4. 0..Len(log) \subseteq 0..Len(Append(log, e))
  BY <1>1
<1> QED
  BY <1>2, <1>3, <1>4 DEF Starts

LEMMA StartsAfter ==
  ASSUME NEW tree, NEW log, NEW r, NEW tree_, NEW log_,
         Goes(tree, log, r, tree_, log_), IsLog(log)
  PROVE  /\ Starts(log_, log_)
         /\ \A l : Starts(l, log) => Starts(l, log_)
<1>1. IsLog(log_)
  BY GoesIsLog
<1>2. Starts(log_, log_)
  BY <1>1, StartsAppend DEF IsLog
<1>3. \A l : Starts(l, log) => Starts(l, log_)
  BY StartsAppend DEF IsLog, Goes, LogAfter
<1> QED
  BY <1>2, <1>3

LEMMA StartsIsPrefix ==
  ASSUME NEW S, NEW log \in Seq(S), NEW l, Starts(l, log)
  PROVE  IsPrefix(l, log)
<1>1. PICK m \in 0..Len(log) : l = SubSeq(log, 1, m)
  BY DEF Starts
<1>2. l \in Seq(S) /\ Len(l) = m /\ Len(l) <= Len(log)
  BY <1>1
<1>3. SubSeq(l, 1, Len(l)) = l
  BY <1>2
<1> QED
  BY <1>1, <1>2, <1>3 DEF IsPrefix

\* A request that x takes extends the ledgers that y will go through.
LEMMA FollowsRequest ==
  ASSUME RTyped, Follows, NEW r \in Request, RequestX(r)
  PROVE  Follows'
<1> SUFFICES ASSUME taken'.y = 0, ~ missed'
             PROVE  /\ to_x' = << >> /\ status_y' = "running"
                    /\ \E h, g : Leads(h, g)'
  BY DEF Follows
<1>1. /\ taken.y = 0 /\ ~ missed /\ link_x = "up"
      /\ UNCHANGED <<account_tree_y, transaction_tree_y, status_y, to_x>>
      /\ CarryOutX(r)
      /\ to_y' = IF status_x' = "running" THEN Append(to_y, r) ELSE to_y
  BY DEF RequestX, RTyped, Pushed, Message, ledger_y
<1>2. PICK h, g : Leads(h, g)
  BY <1>1 DEF Follows
<1>3. CASE status_x' # "running"
  <2>1. UNCHANGED <<account_tree_x, transaction_tree_x, to_y>>
    BY <1>1, <1>3, CarryOutXGoes
  <2>2. Leads(h, g)'
    BY <1>1, <1>2, <2>1 DEF Leads
  <2> QED
    BY <1>1, <2>2 DEF Follows
<1>4. CASE status_x' = "running"
  <2> DEFINE n == Len(to_y)
  <2>1. /\ n \in Nat /\ to_y' = Append(to_y, r) /\ Len(to_y') = n + 1
        /\ \A i \in 1..n : to_y'[i] = to_y[i]
        /\ to_y'[n + 1] = r
    BY <1>1, <1>4 DEF RTyped
  <2>2. Goes(account_tree_x, transaction_tree_x, r,
             account_tree_x', transaction_tree_x')
    BY <1>1, <1>4, CarryOutXGoes
  <2>3. PICK h_, g_ :
          /\ h_ = [i \in 0..(n + 1) |->
                     IF i = n + 1 THEN account_tree_x' ELSE h[i]]
          /\ g_ = [i \in 0..(n + 1) |->
                     IF i = n + 1 THEN transaction_tree_x' ELSE g[i]]
    OBVIOUS
  <2>4. h_[0] = account_tree_y' /\ g_[0] = transaction_tree_y'
    BY <1>1, <1>2, <2>1, <2>3 DEF Leads
  <2>5. \A i \in 1..(n + 1) :
          Goes(h_[i - 1], g_[i - 1], to_y'[i], h_[i], g_[i])
    <3>1. ASSUME NEW i \in 1..n
          PROVE  Goes(h_[i - 1], g_[i - 1], to_y'[i], h_[i], g_[i])
      BY <1>2, <2>1, <2>3 DEF Leads
    <3>2. Goes(h_[n], g_[n], to_y'[n + 1], h_[n + 1], g_[n + 1])
      BY <1>2, <2>1, <2>2, <2>3 DEF Leads
    <3>3. (n + 1) - 1 = n
      BY <2>1
    <3> QED
      BY <2>1, <3>1, <3>2, <3>3
  <2>6. \A i \in 0..(n + 1) : Starts(g_[i], transaction_tree_x')
    <3>1. /\ Starts(transaction_tree_x', transaction_tree_x')
          /\ \A l : Starts(l, transaction_tree_x)
                      => Starts(l, transaction_tree_x')
      BY <2>2, StartsAfter DEF RTyped
    <3> QED
      BY <1>2, <2>1, <2>3, <3>1 DEF Leads
  <2>7. /\ h_[Len(to_y')] = account_tree_x'
        /\ g_[Len(to_y')] = transaction_tree_x'
    BY <2>1, <2>3
  <2>8. Leads(h_, g_)'
    <3> HIDE DEF n
    <3>1. Len(to_y)' = n + 1
      BY <2>1
    <3> QED
      BY <2>4, <2>5, <2>6, <2>7, <3>1 DEF Leads
  <2> QED
    BY <1>1, <2>8 DEF Follows
<1> QED
  BY <1>3, <1>4

\* What y carries out takes it to the next of the ledgers before it.
LEMMA FollowsProcess ==
  ASSUME RTyped, Follows, ProcessY
  PROVE  Follows'
<1> SUFFICES ASSUME taken'.y = 0, ~ missed'
             PROVE  /\ to_x' = << >> /\ status_y' = "running"
                    /\ \E h, g : Leads(h, g)'
  BY DEF Follows
<1>1. /\ taken.y = 0 /\ ~ missed /\ to_y # << >> /\ to_y' = Tail(to_y)
      /\ UNCHANGED <<account_tree_x, transaction_tree_x, to_x>>
      /\ CarryOutY(Head(to_y))
  BY DEF ProcessY, ledger_x
<1>2. PICK h, g : Leads(h, g)
  BY <1>1 DEF Follows
<1> DEFINE n == Len(to_y)
<1>3. /\ n \in Nat /\ n > 0 /\ Len(to_y') = n - 1 /\ Head(to_y) = to_y[1]
      /\ \A i \in 1..(n - 1) : to_y'[i] = to_y[i + 1]
  BY <1>1 DEF RTyped
<1>4. Goes(account_tree_y, transaction_tree_y, Head(to_y), h[1], g[1])
  BY <1>2, <1>3 DEF Leads
<1>5. /\ status_y' = "running"
      /\ account_tree_y' = h[1] /\ transaction_tree_y' = g[1]
  BY <1>1, <1>4, CarryOutYGoes
<1>6. PICK h_, g_ : /\ h_ = [i \in 0..(n - 1) |-> h[i + 1]]
                    /\ g_ = [i \in 0..(n - 1) |-> g[i + 1]]
  OBVIOUS
<1>7. \A i \in 1..(n - 1) :
        Goes(h_[i - 1], g_[i - 1], to_y'[i], h_[i], g_[i])
  <2> TAKE i \in 1..(n - 1)
  <2>1. i + 1 \in 1..n /\ i - 1 \in 0..(n - 1) /\ i \in 0..(n - 1)
    BY <1>3
  <2>2. (i + 1) - 1 = i /\ (i - 1) + 1 = i
    BY <1>3
  <2> QED
    BY <1>2, <1>3, <1>6, <2>1, <2>2 DEF Leads
<1>8. \A i \in 0..(n - 1) : Starts(g_[i], transaction_tree_x')
  BY <1>1, <1>2, <1>3, <1>6 DEF Leads
<1>9. /\ h_[0] = account_tree_y' /\ g_[0] = transaction_tree_y'
      /\ h_[n - 1] = account_tree_x' /\ g_[n - 1] = transaction_tree_x'
  BY <1>1, <1>2, <1>3, <1>5, <1>6 DEF Leads
<1>10. Leads(h_, g_)'
  <2> HIDE DEF n
  <2>1. Len(to_y)' = n - 1
    BY <1>3
  <2> QED
    BY <1>7, <1>8, <1>9, <2>1 DEF Leads
<1> QED
  BY <1>1, <1>5, <1>10 DEF Follows

\* A connection that is lost with nothing of its queue missing.
LEMMA WholeQueueKept ==
  ASSUME RTyped, DisconnectX \/ DisconnectY, ~ missed'
  PROVE  ~ missed /\ UNCHANGED <<to_x, to_y>>
<1>1. \A s \in Seq(Request) : \A n \in 0..Len(s) :
        ~ (n < Len(s)) => SubSeq(s, 1, n) = s
  OBVIOUS
<1> QED
  BY <1>1 DEF DisconnectX, DisconnectY, RTyped

LEMMA FollowsStep ==
  ASSUME RTyped, Follows, [Next]_vars
  PROVE  Follows'
<1>1. CASE \E r \in Request : RequestX(r)
  BY <1>1, FollowsRequest
<1>2. CASE \E r \in Request : RequestY(r)
  BY <1>2 DEF RTyped, RequestY, Follows
<1>3. CASE ProcessX
  BY <1>3 DEF ProcessX, Follows
<1>4. CASE ProcessY
  BY <1>4, FollowsProcess
<1>5. ASSUME UNCHANGED <<ledger_x, ledger_y, taken>>,
             ~ missed' => ~ missed /\ UNCHANGED <<to_x, to_y>>
      PROVE  Follows'
  BY <1>5 DEF Follows, Leads, ledger_x, ledger_y
<1>6. CASE Connect
  BY <1>5, <1>6 DEF Connect
<1>7. CASE DisconnectX \/ DisconnectY
  BY <1>5, <1>7, WholeQueueKept DEF DisconnectX, DisconnectY
<1>8. CASE Garble
  BY <1>5, <1>8 DEF Garble
<1>9. CASE UNCHANGED vars
  BY <1>5, <1>9 DEF vars, net
<1> QED
  BY <1>1, <1>2, <1>3, <1>4, <1>6, <1>7, <1>8, <1>9 DEF Next

(***************************************************************************)
(* A server that takes no requests itself and misses none is a mirror of   *)
(* the other one, for every number of requests.                            *)
(***************************************************************************)
THEOREM FollowerIsMirror == Spec => []FollowerMirrors
<1>1. Init => RTyped /\ Follows
  <2> SUFFICES ASSUME Init PROVE Follows
    BY RTypedInit
  <2>1. Leads([i \in {0} |-> account_tree_y], [i \in {0} |-> << >>])
    <3>1. Starts(<< >>, << >>)
      BY DEF Starts
    <3> QED
      BY <3>1 DEF Init, X!Init, Y!Init, X!Origin, Y!Origin, Leads
  <2> QED
    BY <2>1 DEF Init, Y!Init, Follows
<1>2. RTyped /\ Follows /\ [Next]_vars => RTyped' /\ Follows'
  BY RTypedStep, FollowsStep
<1>3. RTyped /\ Follows => FollowerMirrors
  <2> SUFFICES ASSUME RTyped, Follows, taken.y = 0, ~ missed
               PROVE  /\ status_y = "running"
                      /\ IsPrefix(transaction_tree_y, transaction_tree_x)
                      /\ to_y = << >> =>
                           /\ account_tree_y = account_tree_x
                           /\ transaction_tree_y = transaction_tree_x
    BY DEF FollowerMirrors
  <2>1. PICK h, g : Leads(h, g)
    BY DEF Follows
  <2>2. Starts(transaction_tree_y, transaction_tree_x)
    BY <2>1 DEF Leads, RTyped
  <2>3. IsPrefix(transaction_tree_y, transaction_tree_x)
    BY <2>2, StartsIsPrefix DEF RTyped, IsLog
  <2> QED
    BY <2>1, <2>3 DEF Leads, Follows
<1> QED
  BY <1>1, <1>2, <1>3, PTL DEF Spec

-----------------------------------------------------------------------------
(***************************************************************************)
(* Agreement.  While nothing is refused a request adds to each balance an  *)
(* amount that depends on the request alone, an account that is not there  *)
(* yet counting as 0.  So the order is all the same: on both sides, what   *)
(* an account holds and what the requests under way will add come to the   *)
(* same sum.                                                               *)
(***************************************************************************)
Total(tree, a) == IF a \in DOMAIN tree THEN tree[a].balance ELSE 0

Adds(r, a) ==
  IF r.command = "account"
  THEN IF r.address = a THEN InitialBalance ELSE 0
  ELSE IF r.destination = a THEN r.amount
  ELSE IF r.source = a THEN -r.amount ELSE 0

Opens(r) == IF r.command = "account" THEN {r.address} ELSE {}

Opened(queue) == UNION {Opens(queue[i]) : i \in 1..Len(queue)}

\* sum[i] is the total of a after the first i requests of the queue.
SumsUp(sum, queue, tree, a) ==
  /\ sum \in [0..Len(queue) -> Int]
  /\ sum[0] = Total(tree, a)
  /\ \A i \in 1..Len(queue) : sum[i] = sum[i - 1] + Adds(queue[i], a)

Agree(tree1, queue1, tree2, queue2) ==
  /\ DOMAIN tree1 \cup Opened(queue1) = DOMAIN tree2 \cup Opened(queue2)
  /\ \A a \in Address : \E sum1, sum2 :
       /\ SumsUp(sum1, queue1, tree1, a)
       /\ SumsUp(sum2, queue2, tree2, a)
       /\ sum1[Len(queue1)] = sum2[Len(queue2)]

Agreed ==
  /\ ~ missed /\ ~ refused
  /\ status_x = "running" /\ status_y = "running"
  => Agree(account_tree_x, to_x, account_tree_y, to_y)

LEMMA AddsIsInt ==
  ASSUME NEW r \in Request, NEW a
  PROVE  Adds(r, a) \in Int
  BY RequestFields, ReplicationAssumption DEF Adds

LEMMA GoesOpens ==
  ASSUME NEW tree, NEW log, NEW r, NEW tree_, NEW log_,
         Goes(tree, log, r, tree_, log_)
  PROVE  DOMAIN tree_ = DOMAIN tree \cup Opens(r)
  BY DEF Goes, TreeAfter, Opens

LEMMA GoesAdds ==
  ASSUME NEW tree, NEW log, NEW r \in Request, NEW tree_, NEW log_,
         Goes(tree, log, r, tree_, log_), SoundTree(tree),
         ~ Refuses(tree, r), NEW a
  PROVE  Total(tree_, a) = Total(tree, a) + Adds(r, a)
<1>1. CASE r.command = "account"
  BY <1>1, ReplicationAssumption
  DEF Goes, Survives, TreeAfter, Opens, Total, Adds, SoundTree
<1>2. CASE r.command # "account"
  <2>1. /\ r.command = "transaction" /\ r.amount \in Int
        /\ r.source \in DOMAIN tree /\ r.destination \in DOMAIN tree
        /\ Accepted(tree, r)
        /\ tree[r.source].balance \in Int
        /\ tree[r.destination].balance \in Int
        /\ X!accepts(tree[r.destination].balance, r.amount)
    BY <1>2, RequestFields
    DEF Goes, Survives, Refuses, Accepted, SoundTree
  <2>2. X!add_balance(tree[r.destination].balance, r.amount)
          = tree[r.destination].balance + r.amount
    BY <2>1 DEF X!add_balance, X!accepts
  <2>3. /\ DOMAIN tree_ = DOMAIN tree
        /\ tree_[r.destination].balance
             = tree[r.destination].balance + r.amount
        /\ r.source # r.destination =>
             tree_[r.source].balance = tree[r.source].balance - r.amount
        /\ \A x \in DOMAIN tree \ {r.source, r.destination} :
             tree_[x] = tree[x]
    BY <1>2, <2>1, <2>2 DEF Goes, TreeAfter
  <2> QED
    BY <1>2, <2>1, <2>3 DEF Total, Adds, SoundTree
<1> QED
  BY <1>1, <1>2

\* The two sides change places.
LEMMA AgreeSymmetric ==
  ASSUME NEW tree1, NEW queue1, NEW tree2, NEW queue2,
         Agree(tree1, queue1, tree2, queue2)
  PROVE  Agree(tree2, queue2, tree1, queue1)
  BY DEF Agree

\* One side takes r and forwards it.
LEMMA AgreeRequest ==
  ASSUME NEW tree1, NEW queue1 \in Seq(Request),
         NEW tree2, NEW queue2 \in Seq(Request),
         Agree(tree1, queue1, tree2, queue2),
         NEW r \in Request, NEW tree_,
         DOMAIN tree_ = DOMAIN tree1 \cup Opens(r),
         \A a : Total(tree_, a) = Total(tree1, a) + Adds(r, a)
  PROVE  Agree(tree_, queue1, tree2, Append(queue2, r))
<1> DEFINE longer == Append(queue2, r)
           n == Len(queue2)
<1>1. /\ n \in Nat /\ Len(longer) = n + 1 /\ longer[n + 1] = r
      /\ \A i \in 1..n : longer[i] = queue2[i]
  OBVIOUS
<1> HIDE DEF longer, n
<1>2. Opened(longer) = Opened(queue2) \cup Opens(r)
  BY <1>1 DEF Opened, n
<1>3. DOMAIN tree_ \cup Opened(queue1) = DOMAIN tree2 \cup Opened(longer)
  BY <1>2 DEF Agree
<1>4. ASSUME NEW a \in Address
      PROVE  \E sum1, sum2 :
               /\ SumsUp(sum1, queue1, tree_, a)
               /\ SumsUp(sum2, longer, tree2, a)
               /\ sum1[Len(queue1)] = sum2[Len(longer)]
  <2>1. PICK sum1, sum2 : /\ SumsUp(sum1, queue1, tree1, a)
                          /\ SumsUp(sum2, queue2, tree2, a)
                          /\ sum1[Len(queue1)] = sum2[n]
    BY DEF Agree, n
  <2>2. PICK d \in Int : d = Adds(r, a)
    BY AddsIsInt
  <2>3. PICK new1 : new1 = [i \in 0..Len(queue1) |-> sum1[i] + d]
    OBVIOUS
  <2>4. PICK new2 : new2 = [i \in 0..(n + 1) |->
                              IF i = n + 1 THEN sum2[n] + d ELSE sum2[i]]
    OBVIOUS
  <2>5. Len(queue1) \in Nat
    OBVIOUS
  <2>6. SumsUp(new1, queue1, tree_, a)
    <3>1. new1 \in [0..Len(queue1) -> Int] /\ new1[0] = Total(tree_, a)
      BY <2>1, <2>2, <2>3, <2>5 DEF SumsUp
    <3>2. ASSUME NEW i \in 1..Len(queue1)
          PROVE  new1[i] = new1[i - 1] + Adds(queue1[i], a)
      <4>1. /\ i \in 0..Len(queue1) /\ i - 1 \in 0..Len(queue1)
            /\ queue1[i] \in Request
        BY <2>5
      <4>2. /\ new1[i] = sum1[i] + d /\ new1[i - 1] = sum1[i - 1] + d
            /\ sum1[i] = sum1[i - 1] + Adds(queue1[i], a)
            /\ sum1[i - 1] \in Int /\ Adds(queue1[i], a) \in Int
        BY <2>1, <2>3, <4>1, AddsIsInt DEF SumsUp
      <4> QED
        BY <2>2, <4>2
    <3> QED
      BY <3>1, <3>2 DEF SumsUp
  <2>7. SumsUp(new2, longer, tree2, a)
    <3>1. sum2 \in [0..n -> Int] /\ sum2[0] = Total(tree2, a)
      BY <2>1 DEF SumsUp, n
    <3>2. new2 \in [0..(n + 1) -> Int] /\ new2[0] = Total(tree2, a)
      BY <1>1, <2>2, <2>4, <3>1
    <3>3. ASSUME NEW i \in 1..(n + 1)
          PROVE  new2[i] = new2[i - 1] + Adds(longer[i], a)
      <4>1. CASE i = n + 1
        BY <1>1, <2>2, <2>4, <4>1
      <4>2. CASE i \in 1..n
        <5>1. sum2[i] = sum2[i - 1] + Adds(queue2[i], a)
          BY <2>1, <4>2 DEF SumsUp, n
        <5> QED
          BY <1>1, <2>4, <4>2, <5>1
      <4> QED
        BY <1>1, <4>1, <4>2
    <3> QED
      BY <1>1, <3>2, <3>3 DEF SumsUp
  <2>8. new1[Len(queue1)] = new2[Len(longer)]
    BY <1>1, <2>1, <2>3, <2>4, <2>5
  <2> QED
    BY <2>6, <2>7, <2>8
<1> QED
  BY <1>3, <1>4 DEF Agree, longer

\* One side carries out the first request that waits for it.
LEMMA AgreeProcess ==
  ASSUME NEW tree1, NEW queue1 \in Seq(Request), queue1 # << >>,
         NEW tree2, NEW queue2 \in Seq(Request),
         Agree(tree1, queue1, tree2, queue2), NEW tree_,
         DOMAIN tree_ = DOMAIN tree1 \cup Opens(Head(queue1)),
         \A a : Total(tree_, a) = Total(tree1, a) + Adds(Head(queue1), a)
  PROVE  Agree(tree_, Tail(queue1), tree2, queue2)
<1> DEFINE rest == Tail(queue1)
           n == Len(queue1)
<1>1. /\ n \in Nat /\ n > 0 /\ Len(rest) = n - 1 /\ Head(queue1) = queue1[1]
      /\ \A i \in 1..(n - 1) : rest[i] = queue1[i + 1]
  OBVIOUS
<1> HIDE DEF rest, n
<1>2. Opened(queue1) = Opens(Head(queue1)) \cup Opened(rest)
  <2>1. \A i \in 1..n : i = 1 \/ (i - 1 \in 1..(n - 1) /\ i = (i - 1) + 1)
    BY <1>1
  <2>2. \A i \in 1..n : i = 1 \/ (i - 1 \in 1..(n - 1)
                                   /\ queue1[i] = rest[i - 1])
    BY <1>1, <2>1
  <2>3. \A i \in 1..(n - 1) : i + 1 \in 1..n /\ rest[i] = queue1[i + 1]
    BY <1>1
  <2>4. Opened(queue1) \subseteq Opens(Head(queue1)) \cup Opened(rest)
    BY <1>1, <2>2 DEF Opened, n
  <2>5. Opens(Head(queue1)) \cup Opened(rest) \subseteq Opened(queue1)
    BY <1>1, <2>3 DEF Opened, n
  <2> QED
    BY <2>4, <2>5
<1>3. DOMAIN tree_ \cup Opened(rest) = DOMAIN tree2 \cup Opened(queue2)
  BY <1>2 DEF Agree
<1>4. ASSUME NEW a \in Address
      PROVE  \E sum1, sum2 :
               /\ SumsUp(sum1, rest, tree_, a)
               /\ SumsUp(sum2, queue2, tree2, a)
               /\ sum1[Len(rest)] = sum2[Len(queue2)]
  <2>1. PICK sum1, sum2 : /\ SumsUp(sum1, queue1, tree1, a)
                          /\ SumsUp(sum2, queue2, tree2, a)
                          /\ sum1[n] = sum2[Len(queue2)]
    BY DEF Agree, n
  <2>2. PICK new1 : new1 = [i \in 0..(n - 1) |-> sum1[i + 1]]
    OBVIOUS
  <2>3. /\ sum1 \in [0..n -> Int] /\ sum1[0] = Total(tree1, a)
        /\ \A i \in 1..n : sum1[i] = sum1[i - 1] + Adds(queue1[i], a)
    BY <2>1 DEF SumsUp, n
  <2>4. new1 \in [0..(n - 1) -> Int]
    BY <1>1, <2>2, <2>3
  <2>5. new1[0] = Total(tree_, a)
    BY <1>1, <2>2, <2>3
  <2>6. ASSUME NEW i \in 1..(n - 1)
        PROVE  new1[i] = new1[i - 1] + Adds(rest[i], a)
    <3>1. /\ i + 1 \in 1..n /\ (i + 1) - 1 = i /\ (i - 1) + 1 = i
          /\ i \in 0..(n - 1) /\ i - 1 \in 0..(n - 1)
      BY <1>1
    <3> QED
      BY <1>1, <2>2, <2>3, <3>1
  <2>7. SumsUp(new1, rest, tree_, a)
    BY <1>1, <2>4, <2>5, <2>6 DEF SumsUp
  <2>8. new1[Len(rest)] = sum1[n]
    BY <1>1, <2>2
  <2> QED
    BY <2>1, <2>7, <2>8
<1> QED
  BY <1>3, <1>4 DEF Agree, rest

LEMMA AgreedInit ==
  ASSUME Init
  PROVE  Agreed
<1>1. Opened(<< >>) = {}
  BY DEF Opened
<1>2. DOMAIN account_tree_x = {} /\ DOMAIN account_tree_y = {}
  BY DEF Init, X!Init, Y!Init
<1>3. ASSUME NEW tree, DOMAIN tree = {}, NEW a
      PROVE  SumsUp([i \in {0} |-> 0], << >>, tree, a)
  BY <1>3 DEF SumsUp, Total
<1>4. to_x = << >> /\ to_y = << >>
  BY DEF Init
<1>5. Agree(account_tree_x, << >>, account_tree_y, << >>)
  BY <1>1, <1>2, <1>3 DEF Agree
<1> QED
  BY <1>4, <1>5 DEF Agreed

LEMMA AgreedStep ==
  ASSUME RTyped, Agreed, [Next]_vars
  PROVE  Agreed'
<1> SUFFICES ASSUME ~ missed', ~ refused',
                    status_x' = "running", status_y' = "running"
             PROVE  Agree(account_tree_x', to_x', account_tree_y', to_y')
  BY DEF Agreed
<1> USE DEF RTyped
<1>1. ASSUME NEW r \in Request, CarryOutX(r), ~ Refuses(account_tree_x, r)
      PROVE  /\ status_x = "running"
             /\ DOMAIN account_tree_x' = DOMAIN account_tree_x \cup Opens(r)
             /\ \A a : Total(account_tree_x', a)
                         = Total(account_tree_x, a) + Adds(r, a)
  <2>1. /\ status_x = "running"
        /\ Goes(account_tree_x, transaction_tree_x, r,
                account_tree_x', transaction_tree_x')
    BY <1>1, CarryOutXGoes
  <2>2. SoundTree(account_tree_x)
    OBVIOUS
  <2> HIDE DEF RTyped
  <2>3. DOMAIN account_tree_x' = DOMAIN account_tree_x \cup Opens(r)
    BY <2>1, GoesOpens
  <2>4. ASSUME NEW a
        PROVE  Total(account_tree_x', a)
                 = Total(account_tree_x, a) + Adds(r, a)
    BY <1>1, <2>1, <2>2, GoesAdds
  <2> QED
    BY <2>1, <2>3, <2>4
<1>2. ASSUME NEW r \in Request, CarryOutY(r), ~ Refuses(account_tree_y, r)
      PROVE  /\ status_y = "running"
             /\ DOMAIN account_tree_y' = DOMAIN account_tree_y \cup Opens(r)
             /\ \A a : Total(account_tree_y', a)
                         = Total(account_tree_y, a) + Adds(r, a)
  <2>1. /\ status_y = "running"
        /\ Goes(account_tree_y, transaction_tree_y, r,
                account_tree_y', transaction_tree_y')
    BY <1>2, CarryOutYGoes
  <2>2. SoundTree(account_tree_y)
    OBVIOUS
  <2> HIDE DEF RTyped
  <2>3. DOMAIN account_tree_y' = DOMAIN account_tree_y \cup Opens(r)
    BY <2>1, GoesOpens
  <2>4. ASSUME NEW a
        PROVE  Total(account_tree_y', a)
                 = Total(account_tree_y, a) + Adds(r, a)
    BY <1>2, <2>1, <2>2, GoesAdds
  <2> QED
    BY <2>1, <2>3, <2>4
<1>3. ASSUME NEW r \in Request, RequestX(r)
      PROVE  Agree(account_tree_x', to_x', account_tree_y', to_y')
  <2>1. /\ CarryOutX(r) /\ ~ missed /\ ~ refused
        /\ ~ Refuses(account_tree_x, r)
        /\ to_y' = Append(to_y, r)
        /\ UNCHANGED <<account_tree_y, status_y, to_x>>
    BY <1>3 DEF RequestX, Pushed, Message, ledger_y
  <2>2. Agree(account_tree_x, to_x, account_tree_y, to_y)
    BY <1>1, <2>1 DEF Agreed
  <2> QED
    BY <1>1, <2>1, <2>2, AgreeRequest
<1>4. ASSUME NEW r \in Request, RequestY(r)
      PROVE  Agree(account_tree_x', to_x', account_tree_y', to_y')
  <2>1. /\ CarryOutY(r) /\ ~ missed /\ ~ refused
        /\ ~ Refuses(account_tree_y, r)
        /\ to_x' = Append(to_x, r)
        /\ UNCHANGED <<account_tree_x, status_x, to_y>>
    BY <1>4 DEF RequestY, Pushed, Message, ledger_x
  <2>2. Agree(account_tree_y, to_y, account_tree_x, to_x)
    BY <1>2, <2>1, AgreeSymmetric DEF Agreed
  <2>3. Agree(account_tree_y', to_y, account_tree_x, to_x')
    BY <1>2, <2>1, <2>2, AgreeRequest
  <2> QED
    BY <2>1, <2>3, AgreeSymmetric
<1>5. CASE ProcessX
  <2>1. /\ to_x # << >> /\ Head(to_x) \in Request
        /\ CarryOutX(Head(to_x)) /\ ~ missed /\ ~ refused
        /\ ~ Refuses(account_tree_x, Head(to_x))
        /\ to_x' = Tail(to_x)
        /\ UNCHANGED <<account_tree_y, status_y, to_y>>
    <3>1. ~ refused /\ ~ Refuses(account_tree_x, Head(to_x))
      BY <1>5 DEF ProcessX
    <3>2. to_x # << >> /\ Head(to_x) \in Request
      BY <1>5 DEF ProcessX
    <3> QED
      BY <1>5, <3>1, <3>2 DEF ProcessX, ledger_y
  <2>2. Agree(account_tree_x, to_x, account_tree_y, to_y)
    BY <1>1, <2>1 DEF Agreed
  <2> QED
    BY <1>1, <2>1, <2>2, AgreeProcess
<1>6. CASE ProcessY
  <2>1. /\ to_y # << >> /\ Head(to_y) \in Request
        /\ CarryOutY(Head(to_y)) /\ ~ missed /\ ~ refused
        /\ ~ Refuses(account_tree_y, Head(to_y))
        /\ to_y' = Tail(to_y)
        /\ UNCHANGED <<account_tree_x, status_x, to_x>>
    <3>1. ~ refused /\ ~ Refuses(account_tree_y, Head(to_y))
      BY <1>6 DEF ProcessY
    <3>2. to_y # << >> /\ Head(to_y) \in Request
      BY <1>6 DEF ProcessY
    <3> QED
      BY <1>6, <3>1, <3>2 DEF ProcessY, ledger_x
  <2>2. Agree(account_tree_y, to_y, account_tree_x, to_x)
    BY <1>2, <2>1, AgreeSymmetric DEF Agreed
  <2>3. Agree(account_tree_y', to_y', account_tree_x, to_x)
    BY <1>2, <2>1, <2>2, AgreeProcess
  <2> QED
    BY <2>1, <2>3, AgreeSymmetric
<1>7. ASSUME UNCHANGED <<ledger_x, ledger_y, refused>>,
             ~ missed /\ UNCHANGED <<to_x, to_y>>
      PROVE  Agree(account_tree_x', to_x', account_tree_y', to_y')
  BY <1>7 DEF Agreed, ledger_x, ledger_y
<1>8. CASE Connect
  BY <1>7, <1>8 DEF Connect
<1>9. CASE DisconnectX \/ DisconnectY
  BY <1>7, <1>9, WholeQueueKept DEF DisconnectX, DisconnectY
<1>10. CASE Garble
  BY <1>10 DEF Garble
<1>11. CASE UNCHANGED vars
  BY <1>7, <1>11 DEF vars, net
<1> QED
  BY <1>3, <1>4, <1>5, <1>6, <1>8, <1>9, <1>10, <1>11 DEF Next

(***************************************************************************)
(* Two servers that take requests concurrently agree on every balance once *)
(* all is carried out, in whatever orders each has done so, unless a       *)
(* request was missed or a balance was too low for one.                    *)
(***************************************************************************)
THEOREM OrderDoesNotMatter == Spec => []BalancesAgree
<1>1. Init => RTyped /\ Agreed
  BY RTypedInit, AgreedInit
<1>2. RTyped /\ Agreed /\ [Next]_vars => RTyped' /\ Agreed'
  BY RTypedStep, AgreedStep
<1>3. RTyped /\ Agreed => BalancesAgree
  <2> SUFFICES ASSUME RTyped, Agreed, ~ missed, ~ refused,
                      to_x = << >>, to_y = << >>,
                      status_x = "running", status_y = "running"
               PROVE  /\ DOMAIN account_tree_x = DOMAIN account_tree_y
                      /\ \A a \in DOMAIN account_tree_x :
                           account_tree_x[a].balance
                             = account_tree_y[a].balance
    BY DEF BalancesAgree
  <2>1. Opened(<< >>) = {} /\ Len(<< >>) = 0
    BY DEF Opened
  <2>2. Agree(account_tree_x, << >>, account_tree_y, << >>)
    BY DEF Agreed
  <2>3. DOMAIN account_tree_x = DOMAIN account_tree_y
    BY <2>1, <2>2 DEF Agree
  <2>4. ASSUME NEW a \in DOMAIN account_tree_x
        PROVE  account_tree_x[a].balance = account_tree_y[a].balance
    <3>1. a \in Address
      BY DEF RTyped, SoundTree
    <3>2. Total(account_tree_x, a) = Total(account_tree_y, a)
      BY <2>1, <2>2, <3>1 DEF Agree, SumsUp
    <3> QED
      BY <2>3, <3>2 DEF Total
  <2> QED
    BY <2>3, <2>4
<1> QED
  BY <1>1, <1>2, <1>3, PTL DEF Spec

-----------------------------------------------------------------------------
(***************************************************************************)
(* Whatever reaches a server, from its clients or from the other server    *)
(* and in whatever order, its ledger goes through a behaviour of Ledger.   *)
(* So everything proved of Ledger!Spec holds in each of the two servers.   *)
(***************************************************************************)
THEOREM EachServerIsALedger == Spec => X!Spec /\ Y!Spec
<1>1. Init => X!Init /\ Y!Init
  BY DEF Init
<1>2. RTyped /\ [Next]_vars => [X!Next]_X!vars /\ [Y!Next]_Y!vars
  <2> SUFFICES ASSUME RTyped, [Next]_vars
               PROVE  [X!Next]_X!vars /\ [Y!Next]_Y!vars
    OBVIOUS
  <2>1. ASSUME NEW r \in Request, CarryOutX(r)
        PROVE  X!Next
    BY <2>1 DEF CarryOutX, X!Next, Request, Account, Payment
  <2>2. ASSUME NEW r \in Request, CarryOutY(r)
        PROVE  Y!Next
    BY <2>2 DEF CarryOutY, Y!Next, Request, Account, Payment
  <2>3. UNCHANGED ledger_x => UNCHANGED X!vars
    BY DEF ledger_x, X!vars
  <2>4. UNCHANGED ledger_y => UNCHANGED Y!vars
    BY DEF ledger_y, Y!vars
  <2>5. CASE \E r \in Request : RequestX(r) \/ RequestY(r)
    BY <2>1, <2>2, <2>3, <2>4, <2>5 DEF RequestX, RequestY
  <2>6. CASE ProcessX
    BY <2>1, <2>4, <2>6 DEF ProcessX, RTyped
  <2>7. CASE ProcessY
    BY <2>2, <2>3, <2>7 DEF ProcessY, RTyped
  <2>8. CASE \/ Connect \/ DisconnectX \/ DisconnectY \/ Garble
             \/ UNCHANGED vars
    BY <2>3, <2>4, <2>8
    DEF Connect, DisconnectX, DisconnectY, Garble, vars
  <2> QED
    BY <2>5, <2>6, <2>7, <2>8 DEF Next
<1>3. Init => RTyped
  BY RTypedInit
<1>4. RTyped /\ [Next]_vars => RTyped'
  BY RTypedStep
<1> QED
  BY <1>1, <1>2, <1>3, <1>4, PTL DEF Spec, X!Spec, Y!Spec
==============================================================================
