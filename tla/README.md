# Verification of the `digital` server

`digital` (`src/src/{base,database,ledger,p2p}`, started by
`src/Test/bubi_server.cpp`) is a payment ledger replicated between peers. A
server keeps accounts and payments in two radix Merkle trees, stores the trees
in RocksDB and one summary row in SQLite, takes JSON requests from clients, and
forwards new accounts and payments to the peers of `peers.dat`. The vendored
protobuf, RocksDB and SQLite trees, the generated `*.pb.*` files and the samples
(`src/src/main.cpp`, `src/src/test.cpp`, `src/Test/main.cpp`) are not part of
what is verified.

This directory holds TLA+ modules for the server's own logic, TLC
configurations, and TLAPS proofs. `PROJECT.json` maps every definition to its
source lines and lists runs, mutants, hazards, findings and theorems.

## 1. Inventory

| Component | State | Operations | What makes it correct |
|---|---|---|---|
| ledger (`ledger/ledger.cpp`, `account.*`, `transaction.*`) | account tree, transaction tree, sequence number, hashes | `add_account_tree_entry`, `add_transaction_entry`, `get_*_entry`, row written by the destructor | no overdraft; money only moves; each account can be traced back through all its transactions |
| radix Merkle tree (`ledger/radix_merkle_tree*.cpp`) | nodes, hashes of children, leaf items | `add_given_item` (with leaf splitting), `update_given_item`, `get_stack`, `walk_to_leaf`, `descend`, `dirty_up`, `backup_to_database` | it is a map; hashes follow contents up to the root; no two nodes share a hash; none of its assertions fails |
| node and ledger databases (`database/*`) | RocksDB hash → node, SQLite row | `fetch` (reads **and deletes**), `store_batch`, `exec_sql` | what was stored is found again |
| start and stop (`Test/bubi_server.cpp`) | – | `recover_ledger`, `fetch_from_db`, SIGINT → `exit`, SIGALRM prints balances | a restart sees the ledger that was closed |
| request interface (`p2p/interface.cpp`) | – | `create_account`, `get_balance`, `get_transaction_history` | histories are complete and end |
| peer threads (`p2p/net.cpp`) | `vNodes`, the `BNode`s with two queues each, `mu_vNodes`, `mu_vSendMsg_`, `mu_vRecvMsg_` | `ThreadSocketHandler`, `ThreadOpenConnections`, `ThreadMessageHandler` | no deadlock, no use of a deleted node, limits kept, nobody waits for ever |
| send queue (`PushMessage`, `SocketSendData`) | `vSendMsg_`, `nSendOffset_` | push, partial send | the byte stream is the messages in order |
| JSON requests (`ParseHandleJsonData`) | – | `methodType` 1000 balance, 1001 payment, 1004 new account | a request does what it names once |
| receive framing (`SocketRecvData`, `BNetMessage`, `ProcessMessages`) | `vRecvMsg_` | one `recv` = one message | messages are acted on in order, at most once |
| gossip (`ParseHandleJsonData`, `ProcessMessages`) | the ledgers of two servers, the connections between them | carry out and forward, carry out what was forwarded | servers that hear of the same requests agree |
| sockets, 256-bit numbers, serialiser | – | system calls, byte buffers, SHA-512 | – |
| vendored protobuf, RocksDB, SQLite, JsonCpp | – | used through the calls above | – |

**Interaction.** `ThreadSocketHandler` receives; JSON requests are carried out
at once on its own thread (`ParseHandleJsonData` changes the ledger and pushes a
message to every outbound node, under `mu_vNodes`), peer messages are queued in
`vRecvMsg_`. `ThreadMessageHandler` drains those queues, changes the same ledger
and pushes an answer. `ThreadOpenConnections` adds nodes for configured peers
and ends when all are connected. At exit the static `last_ledger` is destroyed:
`Ledger::~Ledger` writes the row, then the destructor of each tree, unless
somebody else still has a pointer to it, writes the tree's nodes.

**What is hard here.** Two threads that change one ledger with no lock around
an operation, while a timer signal reads it and `exit` destroys it; three
threads over one node list with a mixture of `lock_guard`, `try_lock` and no
lock at all; a database in which reading a node deletes it, so that every
process that ends without all of its destructors loses something; cached root hashes
that are written without regard to the trees; hashes that are sometimes a digest
and sometimes an index; partial sends, and a byte stream without message
boundaries; servers that nothing orders against each other; links that only make
sense after long sequences of payments.

## 2. Modules

| Module | Models | Uses |
|---|---|---|
| `Ledger` | accounts, payments and links of one server, one step per request | – |
| `LedgerHistory` | `get_transaction_history` as the loop it is, compared with its meaning; the balance audit | `Ledger` |
| `LedgerThreads` | the same operations step by step, on any number of threads without a lock, with races in the trees and the SIGALRM handler | extends `Ledger` |
| `LedgerRecovery` | both trees, the cached hashes, the row and the database through stops, crashes and starts | extends `LedgerThreads`, refines `Ledger` while up |
| `Replication` | two servers that take requests and forward them to each other | two instances of `Ledger` |
| `DurableStore` | abstract specification: a map that survives close and open | – |
| `RadixMerkleTree` | one tree with its part of the database and the row: start, load, add, split, update, close, crash, stop during the load | refines `DurableStore` |
| `PeerThreads` | the three threads, `vNodes`, the locks and the lengths of the queues | – |
| `SendQueue` | one send queue, byte by byte | – |
| `PeerChannel` | send queue, byte stream, `recv`, parser and `ProcessMessages` of the other side | extends `SendQueue` |
| `LedgerProofs` | TLAPS proofs | `Ledger`, `LedgerHistory`, `SequenceFacts` |
| `LedgerThreadsProofs` | TLAPS proofs | `LedgerThreads` |
| `LedgerRecoveryProofs` | TLAPS proofs, the refinement of `Ledger` included | `LedgerRecovery` |
| `ReplicationProofs` | TLAPS proofs | `Replication` |
| `PeerThreadsProofs` | TLAPS proofs | `PeerThreads` |
| `PeerChannelProofs` | TLAPS proofs | `SendQueue`, `PeerChannel`, `SequenceFacts` |
| `RadixMerkleTreeProofs` | TLAPS proofs, the refinement of `DurableStore` included | `RadixMerkleTree`, `SequenceFacts` |
| `SequenceFacts` | induction over sets, recursive functions and flattened sequences: lemmas for the proofs | – |
| `MC*` | the small instances | – |

### Ledger
`account_tree` and `transaction_tree` are the maps that the two trees implement
(`RadixMerkleTree` shows that one tree is a map). `AddTransactionEntry` is
`add_transaction_entry` after its two early outcomes: the source cannot pay
(`RejectTransaction`, the code returns 1) or an account is missing
(`PayWithoutAccount`, a null pointer is dereferenced). The order of the code is
kept: both accounts are read, the transaction is added, the source is written,
then the destination from its earlier copy, which is why paying oneself ends
with the credit only. `status` records what ends the process. `Init` is the
freshly created ledger (sequence number 1). Balances are integers; the code uses
doubles, and rounding is not modelled. SHA-512/2 is one-to-one.

In `LedgerHistory` the loop of `get_transaction_history` is `Walk`: `Start` is
what it looks up before the first turn, `Turn` what one turn does with the
transaction it looks at, and the walk ends at the origin or where a transaction
is not found. `NewestFirst` is what it should return, defined without links;
`Audit` recomputes a balance from a history.

### LedgerThreads
Each thread has a place and the local variables of its operation: a payment
reads the source, reads the destination and decides, adds the transaction,
refreshes that tree's hash, writes the source, refreshes, writes the destination
from its copy, refreshes. A change of a tree is a walk (`get_stack`) and a change;
`child_lock_` protects single node accesses only. What a race of two changes
leaves is a choice, on the level of the map: the process dies in one of the
assertions, or of the node it met (`TreeRace`); the later change is lost because
its node is no longer in the tree; it undoes one that was made since its walk
(`Changed`). `raced` is what others have done to the tree since a thread's walk,
so without a race a change is exact. `Alarm` is `auto_print_account_balance` on
top of whichever thread the signal interrupts; if that thread may hold
`child_lock_` (not recursive) it waits for itself: `stuck`.

### LedgerRecovery
Adds what survives a process. A root hash stands for what it commits to:
per account the digested entry, or nothing while the leaf is hashed by its
index. The database keeps the leaves apart accordingly (`index`, `digest`),
since an index-hashed leaf is overwritten by the next one of the same account
and a digest is not. `account_tree_hash` and `transaction_tree_hash` are
refreshed where the code does so and not elsewhere.

A stop is `exit` in the SIGINT handler. Of a server that is up it is `WriteRow`,
then `BeginSaveAccounts`, `SaveAccounts`, `BeginSaveTransactions`,
`SaveTransactions`, in the order of the destructors, with the threads still at
work between and during the saves; an alarm that interrupts a save finds
`child_lock_` taken by its own thread and blocks the exit for ever
(`AlarmSaving`). In the constructor of the ledger it is `ExitUnloaded`: nothing
is destroyed. In `fetch_from_db` it is `WriteRow` and `ExitLoading`: the row is
written, but the local variable `tree` (`bubi_server.cpp:179`, reassigned at 197)
is a second owner of the tree being loaded, so that one of the two trees is not
destroyed and its root, deleted by the fetch, is lost; only between the
assignment of `last_ledger` and line 179 are both put back. A fresh ledger goes
through `fetch_from_db` too. `WriteRowFails` is a failing SQLite statement, which
is logged. `Crash` is a kill, or the end of a process that died of its work
(`Work` with a `status'` other than running).

Any number of threads may work. The history variable `overlapped` becomes true
when two of them are in the middle of an operation at once, or when one changes
a tree that is just being saved: `store_batch` encodes the tree node by node
without a lock, the key of a node before its data, so that the batch mixes old
and new. What the hashes and the database are after that is not modelled; the
module is exact, and its properties are stated, until then.

### Replication
The ledgers of two servers, `x` and `y`, are instances of `Ledger`. A server
carries a client's request out and then forwards it over the connection it has
opened itself (`link_x`, `link_y`), refused payments too; what was forwarded is
carried out and not forwarded again. The debit is tried before the destination
is looked at, so a payment can be refused although its destination does not
exist; `Refuses` counts such a payment too. Connections are opened, lost with what is
under way, and opened again or not (`"lost"`: the opener has ended). `Garble`
loses a message as a badly cut stream does.

### RadixMerkleTree
A node is addressed by the prefix of the indices below it, so `tree` is a
partial function from prefixes to nodes. `get_stack` is the depth at which the
descent stops. `AddItem` and `SplitLeaf` are the two branches of
`add_given_item`, `Chain` its loop over shared nibbles, `dirty_up` the walk back
to the root. Hashes keep what the code does with them: a new leaf's hash is its
index, an updated leaf's a digest, a split turns the old leaf's digest back into
its index. The code's assertions are `fault` values. `Fetched` is RocksDB's
`fetch`, which deletes. `SaveRow` and `backup_to_database` are the two halves of
a shutdown, and a crash can come between them. A load is the window of
`fetch_from_db` for this tree: a shutdown that comes before it (the other tree
is loaded first) finds only the root in memory and writes it back, one that
comes inside it writes the row and loses the tree (`ExitLoading`). `losses`
counts the processes that ended without this tree's destructor. The branch bit mask is the set of
branches with a non-zero hash.

### PeerThreads
Each thread has a program counter, the nodes it has still to visit and its
current node. Steps are as fine as the locks and the unlocked tests: the two
emptiness tests of a disconnected node are separate steps, as are `FindNode` and
the use of its result. `try_lock` may fail at any time (another thread may hold
the lock for an instant, and C++ lets it fail for no reason); `lock_guard`
waits. Queues are lengths. Use of a deleted `BNode` may kill the process or go
unnoticed (`Use`), and so may two unsynchronised pushes to one queue (`Pushing`).
Any message may come in on any connection, JSON included: the code looks at the
command only, so requests are answered on outbound nodes too (`LockSendQueue`),
and what is neither request nor known is passed over (`PassOver`). In
`SocketSendData` a send takes a message, fails for good (`SendError`), or fails
with `EWOULDBLOCK` or `EINTR`, after which the loop goes round with the lock
held (`SendRetry`). `vAddrToConnect` is a list, in which a peer may stand twice:
the opener then never ends, because it compares the number of lines with the
number of nodes. What a message does to the ledger is not repeated here.

### SendQueue and PeerChannel
Bytes are pairs of message and position. `Send(n)` offers `data.size()` bytes
from `nSendOffset_` on, as line 348 does, and reads `Junk` behind the message.
`PeerChannel` puts a receiver behind it: `SocketRecvData(n)` takes any `n` bytes
of the stream for one message; `unserializer` is what Protocol Buffers leave in
the object after such a chunk. Byte 1 of a message is its header up to the end
of the command, byte 2 the rest of the header, byte 3 the tag and length of the
data, the others its content. The last field of each number counts (`Fields`),
what was parsed before an error stays, since the error is only logged, and a
chunk may end inside a field (`ParsedFrom`): the parser keeps the command of a
cut header, with the data of the message before, or has not come to it, or has
cleared the one it had; a string that is cut short keeps what was there of it. A
chunk that begins inside a message is skipped up to some field, or given up
(`Nothing`). When its first byte may be `{` (`MayBeBrace`), it is handed to the
JSON parser instead and leaves no message; that it would be a valid request is
excluded. `ProcessMessages` acts on messages with a known command.

## 3. Runs

| Run | Bounds | Distinct states | Result |
|---|---|---|---|
| `ledger` | 3 addresses, amounts −2, 0, 1, 2, initial balance 2, 3 payments | 18,323 | pass |
| `ledger_threads` | 2 threads, 2 addresses, amount 1, initial balance 1, 2 payments, the alarm on the main thread or on a worker | 550,352 | pass |
| `ledger_recovery` | 2 threads, the alarm on the main thread, 3 addresses, amount 1, initial balance 1, 2 payments, any number of stops, 1 crash, 1 failing row | 1,647,206 | pass |
| `tree` | binary branches, depth 3, 4 indices, 2 data, account and transaction flags, any number of restarts, 2 losses | 90,630 | pass |
| `replication` | 2 servers, 2 addresses, amounts −2 and 1, initial balance 1, 5 requests | 2,365,227 | pass |
| `peer_safety` | 2 nodes, 2 peers, `MAXINBOUND` 1 | 2,996,925 | pass |
| `peer_liveness` | 2 nodes, 1 peer, `MAXINBOUND` 0 | 235,682 | pass |
| `peer_channel` | 3 messages of 3 or 4 bytes, `recv` of up to 8 | 925,443 | pass |
| `ledger_duplicate`, `ledger_close`, `peer_delete`, `send_offset` | smaller | – | violation |

What they show:

* **`ledger`** – `NoOverdraft` for every amount, negative ones included;
  `Chained`: the link of an account, and the two links of a transaction, lead to
  the newest earlier transaction of that account; `NoDuplicateTransaction`: a
  repeated payment never gets the hash of the first, so the assertion of
  `add_given_item` cannot fail for a transaction; `HistoryIsComplete`: the walk
  of `get_transaction_history` ends and returns exactly the account's
  transactions, newest first; `BalanceMatchesHistory`: the stored balance equals
  the one recomputed from that history; `PaymentsMoveCoins`.
* **`ledger_threads`** – of these, what survives two threads without a lock:
  `NoOverdraft`, since the test and the debit are made on one copy of the
  account. (Updates are lost, so `PaymentsMoveCoins`, `Chained` and the history
  do not survive, and `ledger_duplicate` shows that `NoDuplicateTransaction`
  does not either.)
* **`ledger_recovery`** – `HashesCurrent`: between operations the cached hashes
  are those of the trees. `ComesUpAsClosed`: a server that comes up from a row
  has exactly the trees there were when the row was written, after any stops, the
  crash and the failing row, although the account root does not commit to the
  balances of leaves hashed by index and threads work on beside the
  destructors. `LinksResolve`: every account's last transaction is
  there, so `get_transaction_history` never dereferences null. `ServesAsLedger`:
  while it is up the server implements `Ledger`; the mapping
  `Settled` takes a payment for done once its transaction is in the tree, and
  the refinement is stated as an action property because a restart is no step of
  `Ledger`. All four hold until operations overlap; only a reader of the tree
  (`get_balance` or the alarm) may then end the process as `Ledger` does not.
* **`tree`** – `IsDurableStore`: each tree with its database, row, loading and
  destructors implements `DurableStore`, in which only a process that ends
  without closing the map may lose anything, and then all of it: a crash, a
  failed assertion, or a stop during the load;
  `MerkleLinks`, `UniqueHash`, `LookupsFindLeaves`; `NoFault`: until that has
  happened no assertion fails, and none of `set_child` ever, since each changes
  a hash; `WholeOrNothing`: between two processes the database
  holds the row's whole tree and nothing else, or not even its root; a start
  never comes up on part of a tree.
* **`replication`** – `FollowerMirrors`: a server without clients of its own
  that misses nothing is a copy, hash for hash, and never dies of what the other
  survived. `BalancesAgree`: two servers with clients agree on balances once
  nothing is under way, if nothing was missed or refused.
* **`peer_safety`** – no deadlock; locks are held exactly where intended
  (`TypeOK`); `OneNodePerPeer`, although `ConnectNode` looks
  and inserts in separate critical sections; `ProcessedQueueIsStable`, across
  the three threads; `EndsConnected`: the opener
  ends only when each peer has a node.
* **`peer_liveness`** – `HandlerComesBack` and `DisconnectedIsReaped`, unless the
  socket thread goes round in `SocketSendData` for ever. That exception is what
  the code needs, and a peer that stops reading brings it about (section 6).
* **`peer_channel`** – `NothingLost` while no send reads behind a message,
  `JunkEndsTheStream` afterwards; `InOrder`: however TCP cuts the stream, inside
  a field too, no command is acted on twice or after a later one, and no data is
  acted on twice; `LosslessIfPaced`: nothing is
  lost while each `recv` returns one message.
* The four violations are the findings of section 6. `ledger_close` excludes
  stops during a load (`ACTION_CONSTRAINT MCLoads`): without it TLC reports a
  shorter way to the same assertion, the loss of the tree that is being loaded
  (section 6, *Restarts*).

**Why the bounds are enough.** Three payments between three accounts contain a
repeated payment, a payment to oneself, a chain through a third account, a
payment that empties an account and one of a negative amount. Two threads with
two payments race in either tree, on one account or on two, with a payment
refused after another has been made. In `ledger_recovery` two payments and three
accounts give a leaf that is digested, split back to its index and digested
again across restarts, by either thread; stops are not bounded. Indices of three bits contain a
new leaf below an inner node, a split with one and with several shared nibbles,
and a split of a leaf that had been updated; more branches or depth repeat
these. Two losses allow one in a process that started after another. Five
requests to two servers are two accounts and three payments that meet in every
order. Two nodes allow two clients, a client and a peer, or two peers, and a
node that is deleted while another thread uses it or its successor connects; two
peers allow a round in which one is found and the other is not. A `recv` of
eight bytes takes two whole messages, or parts of three.
`MaxTransactions`, `MaxRequests`, `MaxCrashes`, `MaxLosses`, `MaxRowFailures`, `MaxSend`
(what waits in the queues of one node), `MaxMessages`, `MaxRecv` and the set
`Node` (connections in the life of a server) are bounds of the model;
`MAXRECVSIZE` counts messages instead of bytes. Only the peer-thread and the
tree runs check for deadlock: in the others a process that has died, or a
behaviour that has used its requests, stops.

`ledger_recovery` is not followed (`CONSTRAINT MCFollowed`) past a process whose
*first* row was not written, nor past operations that overlap. The trees of the
former are saved and no row names them, so the
next process starts from nothing among their leftovers; TLC shows that a later
row can then pick up a leftover leaf, so that `LinksResolve` and
`ComesUpAsClosed` are stated with `~ orphaned`.

**Fairness.** Only `peer_liveness` needs any: weak fairness of the message
handler and of the socket thread outside the loop of `SocketSendData`
(`SocketWork`), because the operating system runs both. Of that loop nothing is
assumed: whether it ends is up to the peer. Strong fairness of `CopyNodes`
and `LockSendQueue`: the handler waits for a lock that the socket thread takes
and releases each turn; between two turns that thread blocks in `select` for up
to a second, during which a waiting thread gets the lock. Nothing is assumed of
the connecting thread, of peers or of clients.

## 4. Proofs

What a run shows for one small instance, the theorems below show for every value
of the constants. No theorem has a hypothesis besides the named assumptions on
constants, which TLC evaluates in every run.

| Module | Theorem | Statement |
|---|---|---|
| `LedgerProofs` | `IInvInvariant` | `Spec => []IInv` |
| | `TypeCorrect`, `NeverOverdrawn`, `AlwaysChained`, `NeverDuplicate` | `Spec =>` always `TypeOK`, `NoOverdraft`, `Chained`, `NoDuplicateTransaction` |
| | `CoinsOnlyMove` | `Spec => PaymentsMoveCoins` |
| | `HistoriesAreComplete`, `BalancesMatchHistories` | `Spec =>` always `HistoryIsComplete`, `BalanceMatchesHistory` |
| `RadixMerkleTreeProofs` | `TreeInvariant` | `Spec => []TreeInv` |
| | `TypeCorrect`, `MerkleLinksHold`, `HashesUnique`, `LookupsAreRight`, `NoAssertionFails`, `DiskIsWholeOrNothing` | `Spec =>` always `TypeOK`, `MerkleLinks`, `UniqueHash`, `LookupsFindLeaves`, `NoFault`, `WholeOrNothing` |
| | `TreeIsDurableStore` | `Spec => IsDurableStore`, a refinement |
| `LedgerThreadsProofs` | `NeverOverdrawnByThreads` | `ThreadsSpec => []NoOverdraft` |
| `LedgerRecoveryProofs` | `HashesAreCurrent`, `LinksAlwaysResolve` | `RecoverySpec =>` always `HashesCurrent`, `LinksResolve` |
| | `ComesUpAsItClosed` | `RecoverySpec => ComesUpAsClosed` |
| | `ServesAsLedgerHolds` | `RecoverySpec => ServesAsLedger`, a refinement |
| `ReplicationProofs` | `FollowerIsMirror`, `OrderDoesNotMatter` | `Spec =>` always `FollowerMirrors`, `BalancesAgree` |
| | `EachServerIsALedger` | `Spec => X!Spec /\ Y!Spec`, a refinement |
| `PeerThreadsProofs` | `PeerInvariant` | `Spec => []PInv` |
| | `PeerTypeCorrect`, `OneConnectionPerPeer`, `InboundNeverExceeds` | `Spec =>` always `TypeOK`, `OneNodePerPeer`, `InboundAtMostOneOver` |
| | `ProcessedQueueStable`, `OpenerEndsConnected` | `Spec => ProcessedQueueIsStable`, `Spec => EndsConnected` |
| `PeerChannelProofs` | `QueueInvariant` | `Spec => []QueueInv` |
| | `SendQueueTypeCorrect`, `NothingBehindJunk`, `NoByteLost` | `ChannelSpec =>` always `TypeOK`, `JunkEndsTheStream`, `NothingLost` |
| | `DeliveredInOrder`, `PacedIsLossless` | `ChannelSpec =>` always `InOrder`, `LosslessIfPaced` |

**Assumptions.** Amounts are integers, the initial balance and the bounds are
natural numbers (`LedgerAssumption`, `ReplicationAssumption`); `Main` and
`NoThread` are no workers (`ThreadAssumption`); the limits are natural numbers,
the configured peers are a list, and `Free`, `NoService` are not names of
threads and peers (`PeerAssumption`); messages have a header and data, so that
their size is not 0, 1 or 2, and `Junk` is not a
byte of a message (`SendAssumption`, `ChannelAssumption`); an index has at least
one nibble and there is an index (`TreeAssumption`); there is a thread
(`RecoveryAssumption`). SHA-512/2 is taken to
be free of collisions. Addresses, threads, nodes and sizes are arbitrary sets.

**Induction over data.** The library's induction theorems take an operator as
a parameter and cannot be used. `SequenceFacts` states instead, from the
well-foundedness of the natural numbers, that a *set* which contains 0 and with
each number the next contains them all (`SetInduction`), and that a recursion
over `0..n` with a step given as a function has a solution (`Recursion`). The
history walk, the audit, the sums over queues, the flattened sequences, the
walk of `dirty_up` and the levels of a load are handled with these two.

**Ledger.** `IInv` adds two parts to the checked properties. `PartiesExist`: all
parties of transactions have accounts; without it a new account, whose link is
the origin, might already have transactions. `Distinct`: no transaction occurs
twice; a link then identifies one position. The argument for a fresh hash: a new
transaction equal to an old one would carry the same source link; that link is
the source's current one, so it leads to the newest transaction of the source,
which is the old one itself or a later one; but the old one's link leads to
something strictly before it. Links are one-to-one and none is the origin
(`LinksDiffer`), and distinctness turns equal transactions into equal positions:
a contradiction.

**Histories.** `HistoryOf` is the loop invariant of `get_transaction_history`:
after `k` turns the loop stands at a place `p` of the log, its link leads to the
account's last transaction up to `p`, and what it has found, followed by the
list of that account's transactions up to `p`, is the whole list. Each turn
moves `p` down, so it ends within as many turns as there are transactions.
`Audited` adds to `IInv` that the sum over that list is the balance; a new
transaction is put in front of the lists of its two parties and of nobody else
(`NewestOfLonger`).

**Tree.** `Whole(t)` says what a tree without a gap is: every node is at a
prefix of an index, below inner nodes only; an inner node is hashed over what it
holds, has exactly its children's hashes and, except for the root, a child; a
leaf is hashed by its index or over its data. A node is then determined by its
hash (`HashUnique`): two leaves with one hash have one index, and two inner
nodes with one hash have the same children hashes, hence, from the deepest
upwards, a leaf in common. `get_stack` stops at the only node on the path of an
index that can hold it (`Stack`, `WalkIs`). An operation first changes one place
and leaves the hashes above it open (`WholeBut`); `dirty_up` is shown to be a
recursion from below (`Refreshed`) that closes them (`Closes`) and changes each
of them (`AllChange`), which is why no `set_child` is refused.
`AddIsWhole`, `SplitIsWhole` and `UpdateIsWhole` put this together. `TreeInv`
then says where the tree is: there is a whole tree whose nodes are, each, either
in memory or, encoded, in the database, and nothing else is in the database; in
memory altogether while the server is up; with the row at its root whenever the
server is not up; or else (`Gone`) the server is down and the row's root cannot
be fetched, which takes a loss: a crash, or a stop during the load. That whole tree is no variable, so it is
quantified (`\E full`); `descend` and the destructor move nodes of it without
changing it, and that is what makes a restart invisible in `DurableStore`. That
there is an index at all is needed because the root, too, is described as a
prefix of one.

**Threads.** `NoOverdraft` alone is not inductive: an overdrawn account might
come from a copy in a thread or be brought back by a race. `TInv` adds that the
accounts each thread has read, and those it has noted as changed by others since
its walk, are not overdrawn either (`SoundChanges`), that a payment past its
reads has both accounts, and that no change is noted where a thread is not in a
tree. What `add_balance` makes of a sound account is sound (`AddBalanceSound`),
each write is one of those (`WrittenSound`), and what a race leaves is made of
sound accounts only (`ChangedSound`).

**Recovery.** Two invariants, each inductive with the one before, and each in
the form `overlapped \/ ...`, since what has overlapped stays so
(`OverlappedStays`). Until then at most one thread is in the middle of an
operation (`Alone`), though not always the same: `work` is what it is doing, and
a thread that begins is the only one (`BeginsAlone`). First the
steps of `LedgerThreads` are brought into a form without races
(`ThreadsNextIs`) and with all they do to the hashes (`HashedStep`, `WorkIs`).
`Base` then says, at each place of an operation, what the worker has read and
written and that this is what the trees hold (`WInv`), that each cached hash is
current except at the place right before its refresh (`HInv`), and what is in
memory and on disk in each phase (`DInv`). `HashesCurrent` is a special case.
`ServesAsLedger` follows step by step: `Settles` is the account tree with what
the payment has still to write, and only the step that adds the transaction
changes it (`SettlesPayment`, `SettlesWritten`).

`Whole` holds unless the first row was lost. Its difficulty is that work goes on
between the row, the save of the accounts and the save of the transactions, and
that a failed write leaves the row of an earlier process in place. The database
holds at most one root of each tree (`Roots`), so a later start finds both roots
of the row only if the trees as saved have exactly these roots (`Recoverable`);
then they must be shown to be the trees as closed, although roots say nothing of
leaves hashed by index.
`Fits` is that situation and `FitsWork` the key lemma: a step after which the
trees have the roots of the row has changed nothing. A new account enlarges the
domain and a transaction the log, and the row has neither, because it is behind
both (`Behind`); an updated account carries a link to the payment being made,
and no account in the row has such a link (`Fresh`) but the source that has
already been debited, which a payment of nothing to oneself writes a second
time with the same value. `Fresh` in turn needs that the accounts of the row link only to
transactions of the present log (`Resolves`, hence `LinksResolve`), so that a
transaction that is new has no links to it. `Restores` carries the result
through the saves, the fetches and an interrupted load to the next start; a
load that is stopped can lose a root, after which no start comes up, but it
never puts one back that was not there.

**Replication.** What a request does to a ledger is a function of the ledger
(`Goes`, shared by `CarryOutXGoes` and `CarryOutYGoes`). `Follows`: there is a
sequence of ledgers that leads from the follower's own, request by request of
what is under way, to the other server's; a request at `x` extends it at the
end, one carried out at `y` takes away its beginning. `Agreed`: for each address,
what an account holds and what the requests under way to that server will add
come to the same sum on both sides, and the same accounts are open or on the way.
The proof attempt of `OrderDoesNotMatter` found a mistake in an earlier form of
the model: a payment whose source cannot pay *and* whose destination is missing
was not counted as refused.

**Peer threads.** `PInv` says who holds which lock at which program counter
(`Locked`); that a node which `select` watches for reading still has room until
it is served (`HasRoom`), since the test and the growth are in different steps;
what the nodes in `vNodes` are and which nodes the handler may know (`Listed`);
and that while `ConnectNode` is about to insert a node for a peer nobody else
has (`Alone`). `OpenerEndsConnected` is a counting argument: `FindNode` is
one-to-one on outbound nodes by `OneNodePerPeer`, so equally many nodes as peers
leave out no peer.

**Send queue and channel.** `QueueInv` is `NothingLost` with the position inside
the queue made explicit (`Whole`: what is on the wire and what is left to send
are all bytes pushed) and `JunkLast`: junk can only be at the end of the wire,
and then the offset is behind its message. `StreamInv`: the bytes on the wire
are in order and without a gap, whatever `Send` cuts off. `OrderInv`: every
message in the receive queue was taken from later bytes than what has been
acted on (`Behind`), from which `InOrder` follows for any cutting of the stream.
`PaceInv`: while every `recv` has returned one message, the receiver stands at
the end of a message, and each message taken has the command and the data of
the one sent (`InStep`).

**Only model-checked.** Liveness (`HandlerComesBack`, `DisconnectedIsReaped`),
which is out of the prover's reach. Every invariant and
every action property of a passing run is a theorem.

## 5. Mutants

Each property of a passing run has a mutant in `PROJECT.json`: a plausible bug
(a dropped test, a stale hash, a forgotten unlock) under which TLC finds that
property violated. The mutated operators are named `mutant_...` and stand
before the definition they replace.

## 6. Findings and observations

Findings, each shown by a run:

1. `ledger_duplicate` – two threads that make the same payment at once read the
   same links and make the same transaction; the second fails the assertion at
   `radix_merkle_tree.cpp:134`.
2. `ledger_close` – `exit` in the middle of an operation writes a row whose
   hashes are not those of the trees that are then saved; every later start
   fails the assertion at `rocksdb_imp.cpp:65`.
3. `peer_delete` – a disconnected node is deleted while the message handler
   works on it, against the comment at `net.cpp:576`.
4. `send_offset` – a send that resumes a message is offered too many bytes and
   the assertion at `net.cpp:347` fails in the next call.

Observations, which the models reach and which no run is about:

* *Accounts and payments.* `create_account` for an existing account fails the
  assertion at `radix_merkle_tree.cpp:134`. Paying oneself, and paying a
  negative amount that the destination cannot bear, create coins.
* *Threads.* Racing payments lose updates. Two equal accounts or payments added
  at once may also meet the assertion at `radix_merkle_tree.cpp:124` instead of
  the one at 134. The SIGALRM handler blocks for ever
  when it interrupts a thread that holds `child_lock_` (`stuck`): a worker, or
  the main thread while `exit` saves a tree, so that the server never ends.
* *Restarts.* A stop while `fetch_from_db` loads a tree (`bubi_server.cpp:179`,
  197, 363) writes the row and loses that tree, whose second owner keeps it from
  its destructor; the next start fails at `rocksdb_imp.cpp:65`. It takes neither
  a crash nor any work: the first start of a server is enough
  (`LedgerRecovery.ExitLoading`). After a crash the row names a root that is gone, and every later
  start fails at `rocksdb_imp.cpp:65`. A stop between the refresh of the
  transaction hash and the write of the source leaves half a payment for good:
  the transaction is there and no balance has changed; `Chained` and
  `NoDuplicateTransaction` can fail from then on.
* *Hashes.* A fresh leaf's hash is its index, so the account root does not
  commit to the balances of fresh and of split leaves and depends on history;
  the transaction root depends on the order of insertion (only the first node of
  a chain keeps the tree's flag).
* *Replicas.* A rejected payment is forwarded all the same. Two servers differ
  for good after a payment that one refuses and the other does not, or after a
  missed message; a server that missed a new account dies of the first payment
  to it.
* *Connections.* `AcceptSocket` counts before it adds and tests with `>`
  (`net.cpp:165`), so it admits `MAXINBOUND + 1` connections, while
  `netbase.h:22` calls `MAXINBOUND` "the max number this node can accept peers";
  that it is never more than one too many is proved (`InboundNeverExceeds`).
  `ParseHandleJsonData` pushes to a send queue without its lock (`net.cpp:278`,
  308), against the comment at `net.cpp:334`, "require lock mu_vSendmsg", while
  the message handler may be pushing an answer to it, which it does on
  connections that this server opened too. When a send fails, `EWOULDBLOCK` and `EINTR` included,
  `SocketSendData` neither breaks nor advances (`net.cpp:365-374`): a peer that
  does not read keeps the socket thread spinning with the queue's lock held, and
  the message handler waits for that lock. A node that disconnects with messages
  queued for it is never removed. Once all peers are connected, lost connections
  are not opened again, and a peer listed twice keeps the opener from ever
  ending. A message that is cut may give its command the data of an earlier one,
  and a chunk that starts with `{` in the middle of a message is taken for JSON.
* *By reading only.* A tree that is
  changed while `store_batch` encodes it is saved torn, with nodes under keys
  that are not their hashes. `nRefCount_` starts uninitialised; `recover_ledger` and
  `ParseHandleJsonData` can fall off their end without a value; the order in
  which the database singletons and `last_ledger` are destroyed is not
  determined by the code.

## 7. Not modelled, and the plan

Left out for good: the vendored libraries, which are nearly all of the
repository's 318,000 lines (so that the map, which covers about half of
the files it names, generated ones included, is a small share of the whole); the text of JSON and logs,
the 256-bit and byte-buffer classes, socket wrappers (their outcomes are choices
of the models), generated code, samples, rounding of doubles, the row's other
columns, `Discover` (I/O) and `SendMessages` (nothing calls it).

Left out, and with an effect: races inside a tree are modelled by what they may
leave of the map, not node by node; a failing RocksDB batch, a failing read of
the row, and a power cut that loses accepted writes; hashes and saved trees once
operations overlap (`LedgerRecovery` is exact until then); chunks that mix messages (`PeerChannel`
has them, `Replication` does not).

Of the plan nothing else is left: each component has its module, its runs and
the proofs of its safety properties.
