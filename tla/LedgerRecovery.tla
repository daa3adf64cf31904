---------------------------- MODULE LedgerRecovery ----------------------------
(***************************************************************************)
(* The ledger of LedgerThreads through stop and start of the server: the   *)
(* SIGINT handler exits (Test/bubi_server.cpp) while the threads go on,    *)
(* ~Ledger writes the cached root hashes into the SQLite row, the trees    *)
(* are saved one after the other, and the next process loads both of them  *)
(* from those hashes, deleting what it reads.  A process that is stopped   *)
(* while it loads a tree does not save that tree: fetch_from_db still      *)
(* holds it, so that its destructor does not run.                          *)
(*                                                                         *)
(* A leaf has its index for its hash until it is updated, then a digest,   *)
(* and the index again once add_given_item has split it off beside a new   *)
(* leaf.  A root stands for the hashes of the leaves below it, and for the *)
(* inner nodes on the way to them.  The server has two threads at work;    *)
(* when their operations overlap, the hashes race as the trees do, and     *)
(* when one changes a tree that is just being saved (store_batch encodes   *)
(* it node by node, the key of a node before its data), old and new are    *)
(* mixed in the database.  Neither is followed: overlapped says that it    *)
(* has happened, and the module is exact until then.                       *)
(*                                                                         *)
(* A crash is a process that dies without its destructors: any death of    *)
(* LedgerThreads, or a signal.  The write of the row may fail, which       *)
(* add_ledger_to_database only logs.                                       *)
(***************************************************************************)
EXTENDS LedgerThreads

CONSTANTS
  MaxCrashes,      \* bound on the crashes of a behaviour
  MaxRowFailures   \* bound on the row writes that fail

ASSUME RecoveryAssumption ==
  /\ MaxCrashes \in Nat /\ MaxRowFailures \in Nat
  /\ Thread # {}

VARIABLES
  digested,               \* accounts whose leaf hash is a digest
  account_tree_hash, transaction_tree_hash,   \* cached by the ledger
  row,     \* the ledger row: the root hashes of the two trees
  db,      \* the node database
  phase,   \* what the process is doing
  crashes, row_failures,   \* how many there have been
  closed,  \* history: the trees when the row was written
  orphaned,  \* history: trees were saved that no row was ever written for
  overlapped \* history: an operation has overlapped with another one, or
             \* with the saving of the tree it changes

\* No row in the ledger table yet.
NoRow == [empty |-> TRUE]

hashes == <<account_tree_hash, transaction_tree_hash>>
disk == <<row, db, closed, orphaned>>
faults == <<crashes, row_failures>>
rvars == <<tvars, digested, hashes, disk, phase, faults, overlapped>>

\* The root hashes of the trees as they are.
AccountRoot == [a \in DOMAIN account_tree |->
                  IF a \in digested THEN {account_tree[a]} ELSE {}]
TransactionRoot == transaction_tree

\* The leaves of the account tree as the database keeps them: under the
\* index, or under a digest, by which they are all told apart.
ByIndex == [a \in DOMAIN account_tree \ digested |-> account_tree[a]]
ByDigest == {<<a, account_tree[a]>> : a \in digested}

RecoveryInit ==
  /\ ThreadsInit
  /\ digested = {}
  /\ account_tree_hash = AccountRoot
  /\ transaction_tree_hash = TransactionRoot
  /\ row = NoRow
  /\ db = [account_roots |-> {}, transaction_roots |-> {},
           index |-> ByIndex, digest |-> {}, transactions |-> {}]
  /\ phase = "down"
  /\ crashes = 0
  /\ row_failures = 0
  /\ closed = NoRow
  /\ orphaned = FALSE
  /\ overlapped = FALSE

\* The process ends: a new one starts with nothing in memory.
Gone ==
  /\ phase' = "down"
  /\ account_tree' = [a \in {} |-> Origin]
  /\ transaction_tree' = << >>
  /\ thread' = [t \in Thread |-> Idle]
  /\ stuck' = NoThread
  /\ digested' = {}
  /\ account_tree_hash' = AccountRoot'
  /\ transaction_tree_hash' = << >>

-----------------------------------------------------------------------------
\* load_last_ledger without a row: a ledger with two empty trees, which
\* fetch_from_db goes through as well.
StartFresh ==
  /\ phase = "down"
  /\ row = NoRow
  /\ phase' = "loading"
  /\ UNCHANGED <<tvars, digested, hashes, disk, faults, overlapped>>

\* The assertion of RocksdbImp::fetch.
FetchFails ==
  /\ status' = "fetch_failed"
  /\ Gone
  /\ UNCHANGED <<disk, faults, overlapped>>

\* The constructor of Ledger fetches the root of the account tree ...
FetchAccountRoot ==
  /\ phase = "down"
  /\ row # NoRow
  /\ status = "running"
  /\ IF row.account \in db.account_roots
     THEN /\ db' = [db EXCEPT !.account_roots = @ \ {row.account}]
          /\ phase' = "root"
          /\ UNCHANGED <<tvars, digested, hashes,
                         row, closed, orphaned, faults, overlapped>>
     ELSE FetchFails

\* ... and that of the transaction tree.
FetchTransactionRoot ==
  /\ phase = "root"
  /\ IF row.transaction \in db.transaction_roots
     THEN /\ db' = [db EXCEPT !.transaction_roots = @ \ {row.transaction}]
          /\ phase' = "loading"
          /\ account_tree_hash' = row.account
          /\ transaction_tree_hash' = row.transaction
          /\ UNCHANGED <<tvars, digested,
                         row, closed, orphaned, faults, overlapped>>
     ELSE FetchFails

\* The leaves that the roots of the ledger ask for.
IndexLeaves == {a \in DOMAIN account_tree_hash : account_tree_hash[a] = {}}
DigestLeaves == {<<a, Only(account_tree_hash[a])>> :
                   a \in DOMAIN account_tree_hash \ IndexLeaves}
TransactionLeaves ==
  {transaction_tree_hash[i] : i \in DOMAIN transaction_tree_hash}

\* Mutant: a leaf that is hashed by its index is taken for a new account.
mutant_FetchFromDb ==
  /\ phase = "loading"
  /\ IF /\ IndexLeaves \subseteq DOMAIN db.index
        /\ DigestLeaves \subseteq db.digest
        /\ TransactionLeaves \subseteq db.transactions
     THEN /\ account_tree' = [a \in DOMAIN account_tree_hash |->
                                IF a \in IndexLeaves
                                THEN [balance |-> InitialBalance,
                                      previous |-> Origin]
                                ELSE Only(account_tree_hash[a])]
          /\ transaction_tree' = transaction_tree_hash
          /\ digested' = DOMAIN account_tree_hash \ IndexLeaves
          /\ db' = [db EXCEPT
                      !.index = [a \in DOMAIN @ \ IndexLeaves |-> @[a]],
                      !.digest = @ \ DigestLeaves,
                      !.transactions = @ \ TransactionLeaves]
          /\ phase' = "up"
          /\ UNCHANGED <<status, thread, stuck, hashes,
                         row, closed, orphaned, faults, overlapped>>
     ELSE FetchFails

\* fetch_from_db, to its end or to a leaf that is not there.  (What a process
\* that ends in it has lost, besides the roots, no later one asks for; see
\* WriteRow and ExitLoading for the end by exit.)
FetchFromDb ==
  /\ phase = "loading"
  /\ IF /\ IndexLeaves \subseteq DOMAIN db.index
        /\ DigestLeaves \subseteq db.digest
        /\ TransactionLeaves \subseteq db.transactions
     THEN /\ account_tree' = [a \in DOMAIN account_tree_hash |->
                                IF a \in IndexLeaves THEN db.index[a]
                                ELSE Only(account_tree_hash[a])]
          /\ transaction_tree' = transaction_tree_hash
          /\ digested' = DOMAIN account_tree_hash \ IndexLeaves
          /\ db' = [db EXCEPT
                      !.index = [a \in DOMAIN @ \ IndexLeaves |-> @[a]],
                      !.digest = @ \ DigestLeaves,
                      !.transactions = @ \ TransactionLeaves]
          /\ phase' = "up"
          /\ UNCHANGED <<status, thread, stuck, hashes,
                         row, closed, orphaned, faults, overlapped>>
     ELSE FetchFails

-----------------------------------------------------------------------------
\* The threads that have just done what they were about to do at pc.
Left(pc) == {t \in Thread : thread[t].pc = pc /\ thread'[t].pc # pc}

\* Mutant: the hash of the account tree is not refreshed at the end of a
\* payment.
mutant_Hashing ==
  /\ digested' \in
       IF Left("put_a") = {}
       THEN {digested \cup {thread[t].s : t \in Left("put_s")}
                      \cup {thread[t].d : t \in Left("put_d")}}
       ELSE {digested \ S : S \in {{}} \cup {{a} : a \in digested}}
  /\ transaction_tree_hash' =
       IF Left("hash_t") = {} THEN transaction_tree_hash ELSE TransactionRoot
  /\ account_tree_hash' =
       IF Left("hash_a") \cup Left("hash_s") = {}
       THEN account_tree_hash ELSE AccountRoot

\* What a step of a thread does to the hashes.  A leaf that is updated is
\* digested; a new leaf is not, nor the one that is split beside it.
Hashing ==
  /\ digested' \in
       IF Left("put_a") = {}
       THEN {digested \cup {thread[t].s : t \in Left("put_s")}
                      \cup {thread[t].d : t \in Left("put_d")}}
       ELSE {digested \ S : S \in {{}} \cup {{a} : a \in digested}}
  /\ transaction_tree_hash' =
       IF Left("hash_t") = {} THEN transaction_tree_hash ELSE TransactionRoot
  /\ account_tree_hash' =
       IF Left("hash_a") \cup Left("hash_s") \cup Left("hash_d") = {}
       THEN account_tree_hash ELSE AccountRoot

\* The phases in which the process has its ledger, and threads.
Serving == {"up", "row", "saving_accounts", "accounts", "saving_transactions"}

\* Two threads are in the middle of an operation.
Overlap == \E t, u \in Thread : t # u /\ thread[t] # Idle /\ thread[u] # Idle

\* The threads work until the process is gone; once the destructors run, in
\* what may be freed memory.  It may die of what they do.
Work ==
  /\ phase \in Serving
  /\ ThreadsNext
  /\ IF status' = "running" THEN Hashing
     ELSE crashes < MaxCrashes /\ UNCHANGED <<digested, hashes>>
  /\ overlapped' =
       (\/ overlapped \/ Overlap'
        \/ phase = "saving_accounts" /\ account_tree' # account_tree
        \/ phase = "saving_transactions"
             /\ transaction_tree' # transaction_tree)
  /\ UNCHANGED <<disk, phase, faults>>

\* exit in the SIGINT handler.  Before last_ledger is there, nothing is
\* destroyed, and what was fetched is lost.
ExitUnloaded ==
  /\ phase = "root"
  /\ Gone
  /\ UNCHANGED <<status, disk, faults, overlapped>>

\* From then on it runs ~Ledger: add_ledger_to_database.  In fetch_from_db
\* the cached hashes are those of the last row, if there is one.
WriteRow ==
  /\ phase \in {"loading", "up"}
  /\ status = "running"
  /\ row' = [account     |-> account_tree_hash,
             transaction |-> transaction_tree_hash]
  /\ closed' = IF phase = "loading" /\ row # NoRow THEN closed
               ELSE [accounts     |-> account_tree,
                     transactions |-> transaction_tree]
  /\ phase' = IF phase = "up" THEN "row" ELSE "leaving"
  /\ UNCHANGED <<tvars, digested, hashes, db, orphaned, faults, overlapped>>

\* ... which may fail, and is logged.
WriteRowFails ==
  /\ phase \in {"loading", "up"}
  /\ status = "running"
  /\ row_failures < MaxRowFailures
  /\ row_failures' = row_failures + 1
  /\ orphaned' = (orphaned \/ row = NoRow)
  /\ phase' = IF phase = "up" THEN "row" ELSE "leaving"
  /\ UNCHANGED <<tvars, digested, hashes, row, db, closed, crashes,
                 overlapped>>

\* The rest of an exit that was called in fetch_from_db: the destructors of
\* the trees put back what was fetched, but not for the tree that the local
\* variable of fetch_from_db holds (none before the first assignment), of
\* which the root and the leaves it has got to are lost.
ExitLoading ==
  /\ phase = "leaving"
  /\ \E held \in {"none", "accounts", "transactions"},
        index \in SUBSET IndexLeaves, digest \in SUBSET DigestLeaves,
        transactions \in SUBSET TransactionLeaves :
       /\ held # "accounts" => index = {} /\ digest = {}
       /\ held # "transactions" => transactions = {}
       /\ db' = [db EXCEPT
                   !.account_roots = IF held = "accounts" THEN @
                                     ELSE @ \cup {account_tree_hash},
                   !.transaction_roots = IF held = "transactions" THEN @
                                         ELSE @ \cup {transaction_tree_hash},
                   !.index = [a \in DOMAIN @ \ index |-> @[a]],
                   !.digest = @ \ digest,
                   !.transactions = @ \ transactions]
  /\ Gone
  /\ UNCHANGED <<status, row, closed, orphaned, faults, overlapped>>

\* Of a ledger that was up: backup_to_database of the account tree, whose
\* destructor runs first.  It takes child_lock_ at every node ...
BeginSaveAccounts ==
  /\ phase = "row"
  /\ status = "running"
  /\ stuck = NoThread
  /\ phase' = "saving_accounts"
  /\ UNCHANGED <<tvars, digested, hashes, disk, faults, overlapped>>

\* ... and writes them in one batch at the end ...
SaveAccounts ==
  /\ phase = "saving_accounts"
  /\ status = "running"
  /\ stuck = NoThread
  /\ db' = [db EXCEPT
              !.account_roots = @ \cup {AccountRoot},
              !.index = [a \in DOMAIN @ \cup DOMAIN ByIndex |->
                           IF a \in DOMAIN ByIndex THEN ByIndex[a] ELSE @[a]],
              !.digest = @ \cup ByDigest]
  /\ phase' = "accounts"
  /\ UNCHANGED <<tvars, digested, hashes, row, closed, orphaned, faults,
                 overlapped>>

\* ... then of the transaction tree ...
BeginSaveTransactions ==
  /\ phase = "accounts"
  /\ status = "running"
  /\ stuck = NoThread
  /\ phase' = "saving_transactions"
  /\ UNCHANGED <<tvars, digested, hashes, disk, faults, overlapped>>

\* ... and the process is gone.
SaveTransactions ==
  /\ phase = "saving_transactions"
  /\ status = "running"
  /\ stuck = NoThread
  /\ db' = [db EXCEPT !.transaction_roots = @ \cup {TransactionRoot},
                      !.transactions = @ \cup Entries]
  /\ Gone
  /\ UNCHANGED <<status, row, closed, orphaned, faults, overlapped>>

\* The SIGALRM handler interrupts the main thread, which runs exit, while it
\* holds child_lock_: it waits for ever.
AlarmSaving ==
  /\ phase \in {"saving_accounts", "saving_transactions"}
  /\ status = "running"
  /\ stuck = NoThread
  /\ Main \in AlarmOn
  /\ stuck' = Main
  /\ UNCHANGED <<vars, thread, digested, hashes, disk, phase, faults,
                 overlapped>>

\* The process is killed, or has died of its work: no destructors.
Crash ==
  /\ phase # "down"
  /\ crashes < MaxCrashes
  /\ crashes' = crashes + 1
  /\ status' = "running"
  /\ Gone
  /\ UNCHANGED <<disk, row_failures, overlapped>>

RecoveryNext ==
  \/ StartFresh
  \/ FetchAccountRoot \/ FetchTransactionRoot \/ FetchFromDb
  \/ Work
  \/ ExitUnloaded \/ WriteRow \/ WriteRowFails \/ ExitLoading
  \/ BeginSaveAccounts \/ SaveAccounts
  \/ BeginSaveTransactions \/ SaveTransactions
  \/ AlarmSaving \/ Crash

RecoverySpec == RecoveryInit /\ [][RecoveryNext]_rvars

-----------------------------------------------------------------------------
(***************************************************************************)
(* Between two operations the cached hashes, which ~Ledger writes to the   *)
(* ledger row, are those of the trees, as long as no two operations have   *)
(* overlapped.                                                             *)
(***************************************************************************)
HashesCurrent ==
  phase = "up" /\ ~ overlapped /\ (\A t \in Thread : thread[t] = Idle) =>
    /\ account_tree_hash = AccountRoot
    /\ transaction_tree_hash = TransactionRoot

(***************************************************************************)
(* However the processes before ended, in the middle of a payment too, the *)
(* last transaction of each account of a running server is in its          *)
(* transaction tree: get_transaction_history never meets a null            *)
(* transaction (interface.cpp:51).  The row may fail to be written, as     *)
(* long as it is not the first, and nothing may have overlapped.           *)
(***************************************************************************)
LinksResolve ==
  phase = "up" /\ ~ orphaned /\ ~ overlapped =>
    \A a \in DOMAIN account_tree :
      account_tree[a].previous # Origin =>
        \E tx \in Entries : account_tree[a].previous = LinkTo(tx)

(***************************************************************************)
(* A server that comes up from a row has exactly the trees that were there *)
(* when the row was written, although the row holds cached hashes, the row *)
(* and the two trees are written one after the other while threads go on   *)
(* changing them, a later row may fail to be written (ledger.cpp:62), and  *)
(* a root says nothing of the data of leaves that are hashed by index.     *)
(* Again unless the first row was not written, or operations overlapped    *)
(* with each other or with the saving of the very tree they change.        *)
(***************************************************************************)
ComesUpAsClosed ==
  [][phase = "loading" /\ phase' = "up" /\ row # NoRow
       /\ ~ orphaned /\ ~ overlapped
       => closed = [accounts |-> account_tree',
                    transactions |-> transaction_tree']]_rvars

(***************************************************************************)
(* Whatever it has come up with, half a payment of the last process        *)
(* included, the running server behaves as Ledger until two operations     *)
(* overlap: the steps of an operation amount to the one step that Ledger   *)
(* makes of it, at the moment its transaction enters the transaction tree. *)
(* Only the SIGALRM handler or get_balance on another thread, when it      *)
(* meets a node that is being changed, may end the process otherwise.      *)
(***************************************************************************)
ServesAsLedger ==
  [][phase = "up" /\ phase' = "up" /\ ~ overlapped'
       => [Serial!Next]_(Serial!vars) \/ status' = "tree_race"]_rvars

(***************************************************************************)
(* The assertion of RocksdbImp::fetch (rocksdb_imp.cpp:65): a node that is *)
(* asked for is in the database.                                           *)
(***************************************************************************)
FetchFinds == status # "fetch_failed"
===============================================================================
