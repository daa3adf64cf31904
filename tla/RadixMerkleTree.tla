--------------------------- MODULE RadixMerkleTree ---------------------------
(***************************************************************************)
(* One radix Merkle tree of the ledger (radix_merkle_tree.cpp and its node *)
(* class in src/src/ledger) with the database its nodes are kept in        *)
(* (src/src/database), through the life of the server: start, load,        *)
(* change, shut down, crash, start again.                                  *)
(*                                                                         *)
(* Abstractions.  A node lives at the prefix of the indices below it, so   *)
(* tree is a partial function on prefixes and holds the nodes in memory;   *)
(* db maps hashes to encoded nodes.  SHA-512/2 is a one-to-one             *)
(* constructor.  A branch is empty exactly when no hash was ever put       *)
(* there, which is what branch_mask_ records.  row is the root hash in the *)
(* ledger's SQLite row.  A crash is a signal or a failed assertion: memory *)
(* is lost, what the operating system was given is not (the writes are not *)
(* synced, so a power cut is another matter).  So it is when the server is *)
(* stopped before last_ledger is set, or while fetch_from_db has a pointer *)
(* to the tree, which keeps the tree from its destructor.  The operations  *)
(* of this module do not overlap each other or a shutdown; LedgerThreads   *)
(* and LedgerRecovery are about those that do.                             *)
(***************************************************************************)
EXTENDS Naturals, Sequences, FiniteSetsExt, Functions

CONSTANTS
  Branch,      \* the branches of an inner node (0..15)
  Depth,       \* nibbles of an index (64)
  Key,         \* indices: sequences of branches
  Data,        \* what a leaf of the account tree holds
  MaxLosses    \* bound on the losses of a behaviour

ASSUME TreeAssumption ==
  /\ Depth \in Nat \ {0}
  /\ Key \subseteq [1..Depth -> Branch] /\ Key # {}
  /\ MaxLosses \in Nat

VARIABLES
  tree,    \* prefix |-> node, for the nodes in memory
  db,      \* hash |-> encoded node
  row,     \* root hash in the ledger table, or NoRow
  phase,   \* what the server is doing
  fault,   \* the assertion that ended the last process, or "none"
  losses,  \* how often a process has ended without this tree's destructor
  is_transaction_tree  \* which of the ledger's two trees this is

vars == <<tree, db, row, phase, fault, losses, is_transaction_tree>>

Empty == [x \in {} |-> x]

Prefix(k, depth) == SubSeq(k, 1, depth)

select_branch(k, tree_depth) == k[tree_depth + 1]

\* The data that comes with an index: an account has any, a transaction is
\* the one that hashes to its index.
DataOf(k) == IF is_transaction_tree THEN {k} ELSE Data

-----------------------------------------------------------------------------
\* Hashes: zero, the index a new leaf takes for its hash, and digests.
Zero == [tag |-> "zero"]
Index(k) == [tag |-> "index", index |-> k]

\* In place of a root hash: there is no row in the ledger table yet.
NoRow == [tag |-> "none"]

is_inner(node) == node.type = "inner"

is_empty_branch(node, b) == node.children_hash[b] = Zero

\* A transaction leaf is hashed without its index, an account leaf with it.
update_hash(node) ==
  IF is_inner(node)
  THEN [tag |-> "node", flag |-> node.flag, children |-> node.children_hash]
  ELSE IF is_transaction_tree
  THEN [tag |-> "txleaf", data |-> node.item.data]
  ELSE [tag |-> "acleaf", data |-> node.item.data, index |-> node.item.index]

Hashed(node) == [node EXCEPT !.hash = update_hash(node)]

\* Mutant of NewLeaf: hashed as update_hash would without the index.
mutant_NewLeaf(item) ==
  [type |-> "leaf", flag |-> is_transaction_tree, item |-> item,
   hash |-> [tag |-> "acleaf", data |-> item.data]]

\* The leaf constructor computes a hash and then takes the index instead.
NewLeaf(item) ==
  [type |-> "leaf", flag |-> is_transaction_tree, item |-> item,
   hash |-> Index(item.index)]

\* make_inner; flag is what is_transaction_tree_ happens to be.
MadeInner(flag) ==
  [type |-> "inner", flag |-> flag,
   children_hash |-> [b \in Branch |-> Zero], hash |-> Zero]

NewRoot == Hashed(MadeInner(is_transaction_tree))

set_child(node, hash, b) == Hashed([node EXCEPT !.children_hash[b] = hash])

\* EncodeNode and RadixMerkleTreeNode::decode: the hash is the key, the rest
\* the value; pointers to children are not stored.
encode(node) == Restrict(node, DOMAIN node \ {"hash"})

\* Mutants of decode: the flag keeps the constructor's default; the data of
\* a leaf is read where the index is.
mutant_decode(hash, value) ==
  [f \in DOMAIN value \cup {"hash"} |->
     CASE f = "hash" -> hash [] f = "flag" -> FALSE [] OTHER -> value[f]]

mutant_decode_offset(hash, value) ==
  [f \in DOMAIN value \cup {"hash"} |->
     CASE f = "hash" -> hash
       [] f = "item" -> [value[f] EXCEPT !.data = value[f].index]
       [] OTHER -> value[f]]

decode(hash, value) ==
  [f \in DOMAIN value \cup {"hash"} |->
     IF f = "hash" THEN hash ELSE value[f]]

-----------------------------------------------------------------------------
\* Depth at which get_stack stops: a leaf, or an inner node whose branch
\* towards k is empty.  fetch_from_db has brought the whole tree into memory
\* before any operation, so descend finds every child there.
StopsAt(k, depth) ==
  LET node == tree[Prefix(k, depth)]
  IN  ~ is_inner(node) \/ is_empty_branch(node, select_branch(k, depth))

get_stack(k) == Min({depth \in 0..Depth : /\ Prefix(k, depth) \in DOMAIN tree
                                          /\ StopsAt(k, depth)})

\* walk_to_leaf, get_account_entry, get_transaction_entry: the item stored
\* under k, none being the empty set.
walk_to_leaf(k) ==
  LET node == tree[Prefix(k, get_stack(k))]
  IN  IF ~ is_inner(node) /\ node.item.index = k THEN {node.item} ELSE {}

Put(t, p, node) == [x \in DOMAIN t \cup {p} |-> IF x = p THEN node ELSE t[x]]

\* Mutant of dirty_up: each parent takes the hash its child had before.
mutant_dirty_up(t, k, depth) ==
  LET up[d \in 0..depth] ==
        IF d = depth THEN t
        ELSE Put(up[d + 1], Prefix(k, d),
                 set_child(t[Prefix(k, d)],
                           t[Prefix(k, d + 1)].hash,
                           select_branch(k, d)))
  IN  up[0]

\* dirty_up: from the node at depth upwards each parent takes the new hash
\* of its child.
dirty_up(t, k, depth) ==
  LET up[d \in 0..depth] ==
        IF d = depth THEN t
        ELSE Put(up[d + 1], Prefix(k, d),
                 set_child(t[Prefix(k, d)],
                           up[d + 1][Prefix(k, d + 1)].hash,
                           select_branch(k, d)))
  IN  up[0]

\* set_child reports a hash that did not change, and its callers assert that
\* this never happens.
Refused(before, after, k, depth) ==
  \E d \in 0..depth :
    after[Prefix(k, d)].hash = before[Prefix(k, d)].hash

\* The first nibble at or below depth in which two indices differ.
Diverge(j, k, depth) ==
  Min({d \in depth..(Depth - 1) : select_branch(j, d) # select_branch(k, d)})

\* The leaf at depth becomes a chain of inner nodes down to where its index
\* and k part; only its first node keeps the flag of the leaf.
Chain(k, depth, end) ==
  [p \in DOMAIN tree \cup {Prefix(k, d) : d \in depth..end} |->
     IF Len(p) = depth /\ p = Prefix(k, depth) THEN MadeInner(tree[p].flag)
     ELSE IF p \in DOMAIN tree THEN tree[p]
     ELSE MadeInner(FALSE)]

\* Hang item below the inner node of t at depth end.
Hang(t, item, end) ==
  LET p == Prefix(item.index, end)
      leaf == NewLeaf(item)
      parent == set_child(t[p], leaf.hash, select_branch(item.index, end))
  IN  Put(Put(t, p, parent), Prefix(item.index, end + 1), leaf)

-----------------------------------------------------------------------------
Init ==
  /\ tree = Empty
  /\ db = Empty
  /\ row = NoRow
  /\ phase = "down"
  /\ fault = "none"
  /\ losses = 0
  /\ is_transaction_tree \in BOOLEAN

\* The process is gone, its memory with it.
Die(why) ==
  /\ tree' = Empty
  /\ phase' = "down"
  /\ fault' = why

\* Mutant of Fetched: the node stays in the database.
mutant_Fetched(hash) == db

\* RocksdbImp::fetch deletes what it reads.
Fetched(hash) == Restrict(db, DOMAIN db \ {hash})

\* load_last_ledger: a fresh tree when there is no row, else the root that
\* the row names.  A hash that is not in the database ends the process.
\* fetch_from_db then goes over the tree, a fresh one too.
StartFresh ==
  /\ phase = "down"
  /\ row = NoRow
  /\ tree' = Put(Empty, << >>, NewRoot)
  /\ phase' = "loading"
  /\ fault' = "none"
  /\ UNCHANGED <<db, row, losses, is_transaction_tree>>

StartFromRow ==
  /\ phase = "down"
  /\ row # NoRow
  /\ row \in DOMAIN db
  /\ tree' = Put(Empty, << >>, decode(row, db[row]))
  /\ db' = Fetched(row)
  /\ phase' = "loading"
  /\ fault' = "none"
  /\ UNCHANGED <<row, losses, is_transaction_tree>>

StartFails ==
  /\ phase = "down"
  /\ row # NoRow
  /\ row \notin DOMAIN db
  /\ Die("fetch")
  /\ UNCHANGED <<db, row, losses, is_transaction_tree>>

\* The branches of p that fetch_from_db has yet to bring in.
Missing(p) ==
  {b \in Branch : /\ is_inner(tree[p])
                  /\ ~ is_empty_branch(tree[p], b)
                  /\ Append(p, b) \notin DOMAIN tree}

\* One turn of fetch_from_db: descend fetches a child and canonicalize hangs
\* it into its parent.  (The code goes breadth first; here any order.)
descend(p, b) ==
  LET hash == tree[p].children_hash[b]
  IN  /\ phase = "loading"
      /\ b \in Missing(p)
      /\ IF hash \in DOMAIN db
         THEN /\ tree' = Put(tree, Append(p, b), decode(hash, db[hash]))
              /\ db' = Fetched(hash)
              /\ UNCHANGED <<phase, fault>>
         ELSE Die("fetch") /\ UNCHANGED db
      /\ UNCHANGED <<row, losses, is_transaction_tree>>

FetchFromDbDone ==
  /\ phase = "loading"
  /\ \A p \in DOMAIN tree : Missing(p) = {}
  /\ phase' = "up"
  /\ UNCHANGED <<tree, db, row, fault, losses, is_transaction_tree>>

\* Finish an operation that changed the path of k down to depth: the new
\* tree, or the end of the process if set_child reported no change.
Finish(before, after, k, depth) ==
  /\ IF Refused(before, after, k, depth)
     THEN Die("set_child")
     ELSE tree' = after /\ UNCHANGED <<phase, fault>>
  /\ UNCHANGED <<db, row, losses, is_transaction_tree>>

\* add_given_item, below an inner node and in place of another leaf.
AddItem(k, data) ==
  LET depth == get_stack(k)
      item == [index |-> k, data |-> data]
  IN  /\ phase = "up"
      /\ is_inner(tree[Prefix(k, depth)])
      /\ Finish(tree, dirty_up(Hang(tree, item, depth), k, depth), k, depth)

SplitLeaf(k, data) ==
  LET depth == get_stack(k)
      other == tree[Prefix(k, depth)].item
      end == Diverge(k, other.index, depth)
      item == [index |-> k, data |-> data]
      chain == Chain(k, depth, end)
  IN  /\ phase = "up"
      /\ ~ is_inner(tree[Prefix(k, depth)])
      /\ other.index # k
      /\ Finish(chain, dirty_up(Hang(Hang(chain, item, end), other, end),
                                k, end), k, end)

\* add_given_item asserts that the index is new; create_account does not
\* look.
AddItemAgain(k) ==
  /\ phase = "up"
  /\ walk_to_leaf(k) # {}
  /\ losses < MaxLosses
  /\ losses' = losses + 1
  /\ Die("add")
  /\ UNCHANGED <<db, row, is_transaction_tree>>

\* Mutant of Unchanged: set_item's answer is not looked at.
mutant_Unchanged(old, new) == FALSE

\* set_item: the leaf hashes to what it did before.
Unchanged(old, new) == old.hash = new.hash

\* update_given_item for an index that is there; the ledger updates accounts
\* only.  Without a change of hash nothing else is touched.
UpdateItem(k, data) ==
  LET depth == get_stack(k)
      p == Prefix(k, depth)
      leaf == Hashed([tree[p] EXCEPT !.item.data = data])
      t == Put(tree, p, leaf)
  IN  /\ phase = "up"
      /\ ~ is_transaction_tree
      /\ walk_to_leaf(k) # {}
      /\ IF Unchanged(tree[p], leaf)
         THEN /\ tree' = t
              /\ UNCHANGED <<db, row, phase, fault, losses,
                             is_transaction_tree>>
         ELSE Finish(tree, dirty_up(t, k, depth), k, depth - 1)

\* exit runs Ledger::~Ledger, which writes the row, and then the destructors
\* of the trees, each of which writes its nodes in one batch.  During a load
\* only before fetch_from_db has come to this tree.
SaveRow ==
  /\ phase = "up" \/ (phase = "loading" /\ DOMAIN tree = {<< >>})
  /\ row' = tree[<< >>].hash
  /\ phase' = "closing"
  /\ UNCHANGED <<tree, db, fault, losses, is_transaction_tree>>

\* Mutant of Batch: only the inner nodes.
mutant_Batch == {p \in DOMAIN tree : is_inner(tree[p])}

\* The nodes that backup_to_database visits.
Batch == DOMAIN tree

backup_to_database ==
  /\ phase = "closing"
  /\ db' = [h \in DOMAIN db \cup {tree[p].hash : p \in Batch} |->
              IF h \in {tree[p].hash : p \in Batch}
              THEN encode(tree[CHOOSE p \in Batch : tree[p].hash = h])
              ELSE db[h]]
  /\ tree' = Empty
  /\ phase' = "down"
  /\ UNCHANGED <<row, fault, losses, is_transaction_tree>>

\* exit while fetch_from_db has its pointer to this tree: ~Ledger writes the
\* row, but the tree and what was fetched of it go with the process.
ExitLoading ==
  /\ phase = "loading"
  /\ losses < MaxLosses
  /\ losses' = losses + 1
  /\ row' = tree[<< >>].hash
  /\ Die("exit")
  /\ UNCHANGED <<db, is_transaction_tree>>

\* The process is killed, or stopped before last_ledger is set.
Crash ==
  /\ phase # "down"
  /\ losses < MaxLosses
  /\ losses' = losses + 1
  /\ Die("killed")
  /\ UNCHANGED <<db, row, is_transaction_tree>>

Next ==
  \/ StartFresh
  \/ StartFromRow
  \/ StartFails
  \/ \E p \in DOMAIN tree, b \in Branch : descend(p, b)
  \/ FetchFromDbDone
  \/ \E k \in Key : \E data \in DataOf(k) : AddItem(k, data)
  \/ \E k \in Key : \E data \in DataOf(k) : SplitLeaf(k, data)
  \/ \E k \in Key : AddItemAgain(k)
  \/ \E k \in Key, data \in Data : UpdateItem(k, data)
  \/ SaveRow
  \/ backup_to_database
  \/ ExitLoading
  \/ Crash

Spec == Init /\ [][Next]_vars

-----------------------------------------------------------------------------
\* The leaves of memory and of the database, as items.
Items ==
  {tree[p].item : p \in {x \in DOMAIN tree : ~ is_inner(tree[x])}}
    \cup {db[h].item : h \in {x \in DOMAIN db : ~ is_inner(db[x])}}

\* The map those items make, for the refinement.
Content ==
  [k \in {item.index : item \in Items} |->
     (CHOOSE item \in Items : item.index = k).data]

\* A start from here comes up: there is no row, or its root can be fetched.
Readable == phase # "down" \/ row = NoRow \/ row \in DOMAIN db

Store == INSTANCE DurableStore WITH
           Data  <- Data \cup Key,
           store <- IF Readable THEN Content ELSE Empty,
           open  <- phase = "up"

(***************************************************************************)
(* Type invariant: a node lives at a prefix of keys, a leaf at a prefix of *)
(* its own; memory is empty exactly when the server is down.               *)
(***************************************************************************)
TypeOK ==
  /\ \A p \in DOMAIN tree :
       /\ \E k \in Key : p = Prefix(k, Len(p))
       /\ ~ is_inner(tree[p]) =>
            LET item == tree[p].item
            IN  /\ item.index \in Key
                /\ p = Prefix(item.index, Len(p))
                /\ item.data \in DataOf(item.index)
  /\ phase \in {"down", "loading", "up", "closing"}
  /\ (phase = "down") = (tree = Empty)
  /\ fault \in {"none", "fetch", "add", "set_child", "exit", "killed"}
  /\ losses \in 0..MaxLosses

(***************************************************************************)
(* The Merkle property of the nodes in memory: an inner node's hash is the *)
(* digest of what it holds, and the hash it keeps for a child in memory is *)
(* that child's; so a change anywhere below has reached the root.          *)
(***************************************************************************)
MerkleLinks ==
  \A p \in DOMAIN tree :
    is_inner(tree[p]) =>
      /\ tree[p].hash = update_hash(tree[p])
      /\ \A b \in Branch :
           Append(p, b) \in DOMAIN tree =>
             tree[p].children_hash[b] = tree[Append(p, b)].hash

(***************************************************************************)
(* No two nodes, in memory or in the database, share a hash.  Nodes are    *)
(* stored by hash and deleted when read, so two nodes that shared one      *)
(* would overwrite and delete each other.                                  *)
(***************************************************************************)
UniqueHash ==
  \A p \in DOMAIN tree :
    /\ tree[p].hash \notin DOMAIN db
    /\ \A q \in DOMAIN tree : tree[p].hash = tree[q].hash => p = q

(***************************************************************************)
(* Every lookup of the running server walks to the leaf it should: what    *)
(* walk_to_leaf finds for an index is what the leaves hold for it.         *)
(***************************************************************************)
LookupsFindLeaves ==
  phase = "up" =>
    \A k \in Key : walk_to_leaf(k) = {item \in Items : item.index = k}

(***************************************************************************)
(* Every set_child on the way up changes a hash (the assertions at         *)
(* radix_merkle_tree.cpp:127, 152, 157, 176), and until a process has      *)
(* ended without this tree's destructor (killed, aborted, or stopped       *)
(* before last_ledger was set or while fetch_from_db was at this tree)     *)
(* every hash the code asks the database for is there (rocksdb_imp.cpp:65) *)
(* and every index it adds is new (134).                                   *)
(***************************************************************************)
NoFault == fault # "set_child" /\ (losses = 0 => fault = "none")

(***************************************************************************)
(* The tree is a durable map: over any number of restarts, stops and       *)
(* crashes it implements DurableStore.  A stop and a start bring back      *)
(* exactly what was there; a process that ends without the destructor of   *)
(* the tree, be it killed or stopped before last_ledger is set or while    *)
(* fetch_from_db is at the tree, loses all of it and never a part.         *)
(***************************************************************************)
IsDurableStore == Store!Spec

\* The hashes of the children of stored nodes.
Below(hashes) ==
  {h \in {db[g].children_hash[b] :
            g \in {x \in hashes \cap DOMAIN db : is_inner(db[x])},
            b \in Branch} : h # Zero}

\* The hashes that a load from the row would ask the database for.
Reachable ==
  LET level[n \in 0..Depth] ==
        IF n = 0 THEN {row} ELSE Below(level[n - 1])
  IN  UNION {level[n] : n \in 0..Depth}

(***************************************************************************)
(* Even so: what is on disk between two processes is nothing yet, the      *)
(* whole tree of the row and nothing else, or a tree without its root.  So *)
(* a start either comes up on all of the tree or not at all, never on a    *)
(* part of it or with nodes of an older tree left over.                    *)
(***************************************************************************)
WholeOrNothing ==
  phase = "down" =>
    \/ row = NoRow /\ db = Empty
    \/ row # NoRow /\ row \notin DOMAIN db
    \/ row # NoRow /\ DOMAIN db = Reachable
==============================================================================
