------------------------ MODULE RadixMerkleTreeProofs ------------------------
(***************************************************************************)
(* The radix Merkle tree for every branching, depth, set of indices and    *)
(* data: what its operations compute, that every step keeps one whole      *)
(* tree between memory and disk, and that it is a durable map.             *)
(*                                                                         *)
(* In order: prefixes and nodes; what dirty_up, get_stack, Hang and Chain  *)
(* compute; that adding, splitting and updating keep the tree whole; where *)
(* its nodes are between a start and a shutdown; the theorems.             *)
(***************************************************************************)
EXTENDS RadixMerkleTree, SequenceFacts, TLAPS

-----------------------------------------------------------------------------
\* What prefixes of an index are.
LEMMA KeyIsSeq ==
  ASSUME NEW k \in Key
  PROVE  k \in Seq(Branch) /\ Len(k) = Depth /\ k \in [1..Depth -> Branch]
<1>1. k \in [1..Depth -> Branch] /\ Depth \in Nat
  BY TreeAssumption
<1> QED
  BY <1>1

LEMMA PrefixIs ==
  ASSUME NEW k \in Key, NEW d \in 0..Depth
  PROVE  /\ Prefix(k, d) = [i \in 1..d |-> k[i]]
         /\ Prefix(k, d) \in Seq(Branch)
         /\ Len(Prefix(k, d)) = d
<1>1. k \in Seq(Branch) /\ Len(k) = Depth /\ k \in [1..Depth -> Branch]
  BY KeyIsSeq
<1>2. Depth \in Nat
  BY TreeAssumption
<1>3. Prefix(k, d) = [i \in 1..d |-> k[i]]
  BY <1>1, <1>2 DEF Prefix
<1>4. [i \in 1..d |-> k[i]] \in Seq(Branch)
  BY <1>1, <1>2
<1> QED
  BY <1>1, <1>2, <1>3, <1>4 DEF Prefix

\* The root.
LEMMA PrefixZero ==
  ASSUME NEW k \in Key
  PROVE  Prefix(k, 0) = << >>
<1>1. 0 \in 0..Depth
  BY TreeAssumption
<1>2. Prefix(k, 0) \in Seq(Branch) /\ Len(Prefix(k, 0)) = 0
  BY <1>1, PrefixIs
<1> QED
  BY <1>2

\* Prefixes of one index are told apart by their lengths.
LEMMA PrefixSame ==
  ASSUME NEW j \in Key, NEW k \in Key, NEW c \in 0..Depth, NEW d \in 0..Depth,
         Prefix(j, c) = Prefix(k, d)
  PROVE  c = d /\ \A i \in 1..d : j[i] = k[i]
<1>1. /\ Len(Prefix(j, c)) = c /\ Len(Prefix(k, d)) = d
      /\ Prefix(j, c) = [i \in 1..c |-> j[i]]
      /\ Prefix(k, d) = [i \in 1..d |-> k[i]]
  BY PrefixIs
<1>2. c = d
  BY <1>1
<1> QED
  BY <1>1, <1>2

LEMMA SamePrefix ==
  ASSUME NEW j \in Key, NEW k \in Key, NEW d \in 0..Depth,
         \A i \in 1..d : j[i] = k[i]
  PROVE  Prefix(j, d) = Prefix(k, d)
<1>1. /\ Prefix(j, d) = [i \in 1..d |-> j[i]]
      /\ Prefix(k, d) = [i \in 1..d |-> k[i]]
  BY PrefixIs
<1> QED
  BY <1>1

\* Prefixes that agree agree in what is before.
LEMMA PrefixShorter ==
  ASSUME NEW j \in Key, NEW k \in Key, NEW d \in 0..Depth,
         Prefix(j, d) = Prefix(k, d), NEW c \in 0..d
  PROVE  Prefix(j, c) = Prefix(k, c)
<1>1. \A i \in 1..d : j[i] = k[i]
  BY PrefixSame
<1>2. c \in 0..Depth /\ \A i \in 1..c : i \in 1..d
  BY TreeAssumption
<1> QED
  BY <1>1, <1>2, SamePrefix

\* The next prefix is the child in the branch that is selected.
LEMMA PrefixNext ==
  ASSUME NEW k \in Key, NEW d \in 0..(Depth - 1)
  PROVE  /\ select_branch(k, d) \in Branch
         /\ Append(Prefix(k, d), select_branch(k, d)) = Prefix(k, d + 1)
<1>1. d \in 0..Depth /\ d + 1 \in 0..Depth /\ d + 1 \in 1..Depth
  BY TreeAssumption
<1>2. k \in [1..Depth -> Branch]
  BY KeyIsSeq
<1>3. /\ Prefix(k, d) = [i \in 1..d |-> k[i]]
      /\ Prefix(k, d) \in Seq(Branch) /\ Len(Prefix(k, d)) = d
      /\ Prefix(k, d + 1) = [i \in 1..(d + 1) |-> k[i]]
      /\ Prefix(k, d + 1) \in Seq(Branch) /\ Len(Prefix(k, d + 1)) = d + 1
  BY <1>1, PrefixIs
<1>4. select_branch(k, d) \in Branch /\ select_branch(k, d) = k[d + 1]
  BY <1>1, <1>2 DEF select_branch
<1> DEFINE p == Prefix(k, d)
           q == Prefix(k, d + 1)
           r == Append(p, select_branch(k, d))
<1>5. /\ r \in Seq(Branch) /\ Len(r) = d + 1
      /\ \A i \in 1..(d + 1) : r[i] = q[i]
  <2>1. r \in Seq(Branch) /\ Len(r) = Len(p) + 1
    <3> HIDE DEF p
    <3> QED
      BY <1>3, <1>4 DEF p
  <2>2. \A i \in 1..(d + 1) : r[i] = IF i = d + 1 THEN k[d + 1] ELSE p[i]
    <3> HIDE DEF p
    <3> QED
      BY <1>3, <1>4 DEF p
  <2> QED
    BY <1>3, <2>1, <2>2
<1> HIDE DEF p, q, r
<1>6. r = q
  <2>1. q \in Seq(Branch) /\ Len(q) = d + 1
    BY <1>3 DEF q
  <2> QED
    BY <1>5, <2>1
<1> QED
  BY <1>4, <1>6 DEF p, q, r

\* A child determines its parent and its branch.
LEMMA ChildInjective ==
  ASSUME NEW p \in Seq(Branch), NEW q \in Seq(Branch), NEW b \in Branch,
         NEW c \in Branch, Append(p, b) = Append(q, c)
  PROVE  p = q /\ b = c
<1>1. Len(p) = Len(q) /\ b = c
  OBVIOUS
<1>2. \A i \in 1..Len(p) : p[i] = q[i]
  BY <1>1
<1> QED
  BY <1>1, <1>2

\* A child on the path of k.
LEMMA PrefixChild ==
  ASSUME NEW k \in Key, NEW d \in 0..Depth, NEW p \in Seq(Branch),
         NEW b \in Branch, Append(p, b) = Prefix(k, d)
  PROVE  d # 0 /\ p = Prefix(k, d - 1) /\ b = select_branch(k, d - 1)
<1>1. /\ Prefix(k, d) = [i \in 1..d |-> k[i]]
      /\ Prefix(k, d) \in Seq(Branch) /\ Len(Prefix(k, d)) = d
  BY PrefixIs
<1>2. d = Len(p) + 1
  BY <1>1
<1>3. d - 1 \in 0..(Depth - 1) /\ d - 1 \in 0..Depth /\ (d - 1) + 1 = d
  BY <1>2, TreeAssumption
<1>4. /\ select_branch(k, d - 1) \in Branch
      /\ Append(Prefix(k, d - 1), select_branch(k, d - 1)) = Prefix(k, d)
      /\ Prefix(k, d - 1) \in Seq(Branch)
      /\ Len(Prefix(k, d - 1)) = d - 1
  BY <1>3, PrefixNext, PrefixIs
<1> DEFINE q == Prefix(k, d - 1)
           c == select_branch(k, d - 1)
<1>5. q \in Seq(Branch) /\ c \in Branch /\ Append(p, b) = Append(q, c)
  BY <1>4
<1> HIDE DEF q, c
<1>6. p = q /\ b = c
  BY <1>5, ChildInjective
<1>7. d # 0
  BY <1>2
<1> QED
  BY <1>6, <1>7 DEF q, c

-----------------------------------------------------------------------------
(***************************************************************************)
(* Nodes as records.                                                       *)
(***************************************************************************)
InnerNode(n) ==
  /\ n = [type |-> "inner", flag |-> n.flag,
          children_hash |-> n.children_hash, hash |-> n.hash]
  /\ n.children_hash = [b \in Branch |-> n.children_hash[b]]

LeafNode(n) ==
  n = [type |-> "leaf", flag |-> n.flag,
       item |-> [index |-> n.item.index, data |-> n.item.data],
       hash |-> n.hash]

LEMMA NodeKinds ==
  ASSUME NEW n
  PROVE  /\ InnerNode(n) => is_inner(n) /\ ~ LeafNode(n)
         /\ LeafNode(n) => ~ is_inner(n)
<1>1. InnerNode(n) => n.type = "inner"
  BY DEF InnerNode
<1>2. LeafNode(n) => n.type = "leaf"
  BY DEF LeafNode
<1> QED
  BY <1>1, <1>2 DEF is_inner

LEMMA SetChildIs ==
  ASSUME NEW n, InnerNode(n), NEW h, NEW b \in Branch,
         NEW s, s = set_child(n, h, b)
  PROVE  /\ InnerNode(s)
         /\ s.children_hash[b] = h
         /\ \A c \in Branch : c # b => s.children_hash[c] = n.children_hash[c]
         /\ s.flag = n.flag
         /\ s.hash = update_hash(s)
<1> DEFINE ch == [n.children_hash EXCEPT ![b] = h]
           m == [n EXCEPT !.children_hash[b] = h]
           g == [tag |-> "node", flag |-> n.flag, children |-> ch]
<1>1. m = [type |-> "inner", flag |-> n.flag, children_hash |-> ch,
           hash |-> n.hash]
  <2>1. m = [n EXCEPT !.children_hash = ch]
    BY DEF InnerNode
  <2> HIDE DEF ch
  <2> QED
    BY <2>1 DEF InnerNode
<1>2. ch = [c \in Branch |-> IF c = b THEN h ELSE n.children_hash[c]]
  BY DEF InnerNode
<1> HIDE DEF ch
<1>3. update_hash(m) = g
  <2> HIDE DEF m
  <2> QED
    BY <1>1 DEF update_hash, is_inner
<1>4. set_child(n, h, b) = [m EXCEPT !.hash = g]
  BY <1>3 DEF set_child, Hashed
<1>5. set_child(n, h, b) = [type |-> "inner", flag |-> n.flag,
                            children_hash |-> ch, hash |-> g]
  <2> HIDE DEF m, g
  <2> QED
    BY <1>1, <1>4
<1> HIDE DEF m
<1>6. s = [type |-> "inner", flag |-> n.flag, children_hash |-> ch,
           hash |-> g]
  BY <1>5
<1>7. s.children_hash = ch /\ s.flag = n.flag /\ s.hash = g
      /\ s.type = "inner"
  BY <1>6
<1>8. InnerNode(s)
  <2>1. ch = [c \in Branch |-> ch[c]]
    BY <1>2
  <2> QED
    BY <1>6, <1>7, <2>1 DEF InnerNode
<1>9. s.hash = update_hash(s)
  BY <1>7 DEF update_hash, is_inner
<1> QED
  BY <1>2, <1>7, <1>8, <1>9

LEMMA MadeInnerIs ==
  ASSUME NEW flag
  PROVE  /\ InnerNode(MadeInner(flag))
         /\ MadeInner(flag).hash = Zero
         /\ \A b \in Branch : MadeInner(flag).children_hash[b] = Zero
  BY DEF MadeInner, InnerNode, Zero

LEMMA NewRootIs ==
  /\ InnerNode(NewRoot)
  /\ NewRoot.hash = update_hash(NewRoot)
  /\ \A b \in Branch : NewRoot.children_hash[b] = Zero
<1> DEFINE ch == [b \in Branch |-> Zero]
           m == [type |-> "inner", flag |-> is_transaction_tree,
                 children_hash |-> ch, hash |-> Zero]
           g == [tag |-> "node", flag |-> is_transaction_tree,
                 children |-> ch]
<1>1. MadeInner(is_transaction_tree) = m
  BY DEF MadeInner
<1>2. update_hash(m) = g
  BY DEF update_hash, is_inner
<1>3. NewRoot = [m EXCEPT !.hash = g]
  BY <1>1, <1>2 DEF NewRoot, Hashed
<1>4. ch = [b \in Branch |-> ch[b]] /\ \A b \in Branch : ch[b] = Zero
  OBVIOUS
<1> HIDE DEF g, ch
<1>5. NewRoot = [type |-> "inner", flag |-> is_transaction_tree,
                 children_hash |-> ch, hash |-> g]
  BY <1>3
<1>6. update_hash(NewRoot) = g
  BY <1>5 DEF update_hash, is_inner, g
<1> QED
  BY <1>4, <1>5, <1>6 DEF InnerNode

LEMMA NewLeafIs ==
  ASSUME NEW k, NEW data
  PROVE  LET leaf == NewLeaf([index |-> k, data |-> data])
         IN  /\ LeafNode(leaf)
             /\ leaf.item = [index |-> k, data |-> data]
             /\ leaf.hash = Index(k)
  BY DEF NewLeaf, LeafNode

\* What UpdateItem makes of a leaf of the account tree.
LEMMA UpdatedLeafIs ==
  ASSUME NEW n, LeafNode(n), NEW data, ~ is_transaction_tree
  PROVE  LET leaf == Hashed([n EXCEPT !.item.data = data])
         IN  /\ LeafNode(leaf)
             /\ leaf.item = [index |-> n.item.index, data |-> data]
             /\ leaf.flag = n.flag
             /\ leaf.hash = [tag |-> "acleaf", data |-> data,
                             index |-> n.item.index]
<1> DEFINE m == [n EXCEPT !.item.data = data]
           item == [index |-> n.item.index, data |-> data]
           g == [tag |-> "acleaf", data |-> data, index |-> n.item.index]
<1>1. [n.item EXCEPT !.data = data] = item
  <2>1. n.item = [index |-> n.item.index, data |-> n.item.data]
    BY DEF LeafNode
  <2> QED
    BY <2>1
<1>2. m = [n EXCEPT !.item = item]
  BY <1>1
<1>3. item.index = n.item.index /\ item.data = data
  OBVIOUS
<1> HIDE DEF item
<1>4. m = [type |-> "leaf", flag |-> n.flag, item |-> item, hash |-> n.hash]
  BY <1>2 DEF LeafNode
<1> HIDE DEF m
<1>5. update_hash(m) = g
  <2>1. m.type = "leaf" /\ m.item = item
    BY <1>4
  <2> QED
    BY <1>3, <2>1 DEF update_hash, is_inner
<1>6. Hashed(m) = [m EXCEPT !.hash = g]
  BY <1>5 DEF Hashed
<1> HIDE DEF g
<1>7. Hashed(m) = [type |-> "leaf", flag |-> n.flag, item |-> item,
                   hash |-> g]
  BY <1>4, <1>6
<1> DEFINE l == Hashed(m)
<1> HIDE DEF l
<1>8. l.flag = n.flag /\ l.item = item /\ l.hash = g
      /\ l = [type |-> "leaf", flag |-> n.flag, item |-> item, hash |-> g]
  BY <1>7 DEF l
<1>9. LeafNode(l)
  BY <1>3, <1>8 DEF LeafNode, item
<1> QED
  BY <1>8, <1>9 DEF l, m, item, g

\* A node that was stored and fetched is the same.
LEMMA StoredAndFetched ==
  ASSUME NEW n, InnerNode(n) \/ LeafNode(n)
  PROVE  /\ decode(n.hash, encode(n)) = n
         /\ is_inner(encode(n)) <=> is_inner(n)
         /\ LeafNode(n) => encode(n).item = n.item
         /\ InnerNode(n) => encode(n).children_hash = n.children_hash
<1>1. "hash" \in DOMAIN n /\ n = [f \in DOMAIN n |-> n[f]] /\ "type" \in DOMAIN n
      /\ (InnerNode(n) => "children_hash" \in DOMAIN n)
      /\ (LeafNode(n) => "item" \in DOMAIN n)
  BY DEF InnerNode, LeafNode
<1> DEFINE e == encode(n)
<1>2. e = [f \in DOMAIN n \ {"hash"} |-> n[f]]
  BY DEF encode, Restrict
<1>3. DOMAIN e = DOMAIN n \ {"hash"} /\ \A f \in DOMAIN e : e[f] = n[f]
  BY <1>2
<1> HIDE DEF e
<1>4. decode(n.hash, e) =
        [f \in DOMAIN n |-> IF f = "hash" THEN n.hash ELSE e[f]]
  <2>1. DOMAIN e \cup {"hash"} = DOMAIN n
    BY <1>1, <1>3
  <2> QED
    BY <2>1 DEF decode
<1>5. [f \in DOMAIN n |-> IF f = "hash" THEN n.hash ELSE e[f]]
        = [f \in DOMAIN n |-> n[f]]
  BY <1>3
<1>6. "type" \in DOMAIN e /\ (InnerNode(n) => "children_hash" \in DOMAIN e)
      /\ (LeafNode(n) => "item" \in DOMAIN e)
  BY <1>1, <1>3
<1>7. e.type = n.type /\ (InnerNode(n) => e.children_hash = n.children_hash)
      /\ (LeafNode(n) => e.item = n.item)
  BY <1>3, <1>6
<1> QED
  BY <1>1, <1>4, <1>5, <1>7 DEF e, is_inner

-----------------------------------------------------------------------------
(***************************************************************************)
(* What dirty_up computes: on the path of k down to depth, each node gets  *)
(* the hash of its child on the path, as it is in the end.                 *)
(***************************************************************************)
OneUp(u, t, k, d) ==
  Put(u, Prefix(k, d), set_child(t[Prefix(k, d)], u[Prefix(k, d + 1)].hash,
                                 select_branch(k, d)))

Ups(f, t, k, n, depth) ==
  f = [d \in n..depth |-> IF d = depth THEN t ELSE OneUp(f[d + 1], t, k, d)]

LEMMA UpsFurther ==
  ASSUME NEW t, NEW k, NEW depth \in Nat, NEW n \in 1..depth, NEW f,
         Ups(f, t, k, n, depth)
  PROVE  \E g : Ups(g, t, k, n - 1, depth)
<1> DEFINE last == OneUp(f[n], t, k, n - 1)
           g == [d \in (n - 1)..depth |-> IF d >= n THEN f[d] ELSE last]
           h == [d \in (n - 1)..depth |->
                   IF d = depth THEN t ELSE OneUp(g[d + 1], t, k, d)]
<1>0. /\ \A d \in n..depth : g[d] = f[d]
      /\ g[n - 1] = last
      /\ \A d \in (n - 1)..depth :
           h[d] = IF d = depth THEN t ELSE OneUp(g[d + 1], t, k, d)
  <2> HIDE DEF last
  <2>1. \A d \in n..depth : g[d] = f[d]
    OBVIOUS
  <2>2. g[n - 1] = last
    OBVIOUS
  <2>3. \A d \in (n - 1)..depth :
           h[d] = IF d = depth THEN t ELSE OneUp(g[d + 1], t, k, d)
    <3> HIDE DEF g
    <3> QED
      OBVIOUS
  <2> HIDE DEF g, h
  <2> QED
    BY <2>1, <2>2, <2>3
<1>1. ASSUME NEW d \in (n - 1)..depth
      PROVE  g[d] = h[d]
  <2>1. CASE d = n - 1
    <3>1. d # depth /\ d + 1 = n /\ n \in n..depth
      BY <2>1
    <3>2. h[d] = OneUp(f[n], t, k, n - 1)
      <4> HIDE DEF g, h
      <4> QED
        BY <1>0, <2>1, <3>1
    <3>3. g[d] = last
      <4> HIDE DEF g, h, last
      <4> QED
        BY <1>0, <2>1
    <3> QED
      BY <3>2, <3>3
  <2>2. CASE d \in n..depth
    <3>1. f[d] = IF d = depth THEN t ELSE OneUp(f[d + 1], t, k, d)
      BY <2>2 DEF Ups
    <3>2. d # depth => d + 1 \in n..depth
      BY <2>2
    <3> HIDE DEF g, h
    <3> QED
      BY <1>0, <2>2, <3>1, <3>2
  <2> QED
    BY <2>1, <2>2
<1>2. g = h
  <2>1. g = [d \in (n - 1)..depth |-> g[d]] /\ h = [d \in (n - 1)..depth |-> h[d]]
    OBVIOUS
  <2> HIDE DEF g, h
  <2> QED
    BY <1>1, <2>1
<1> QED
  BY <1>2, Zenon DEF Ups

LEMMA UpsExists ==
  ASSUME NEW t, NEW k, NEW depth \in Nat
  PROVE  \E f : Ups(f, t, k, 0, depth)
<1> DEFINE S == {m \in Nat : m <= depth => \E f : Ups(f, t, k, depth - m, depth)}
<1>1. 0 \in S
  <2> DEFINE f == [d \in depth..depth |-> t]
  <2>1. f = [d \in depth..depth |->
               IF d = depth THEN t ELSE OneUp(f[d + 1], t, k, d)]
    OBVIOUS
  <2>2. Ups(f, t, k, depth, depth)
    BY <2>1 DEF Ups
  <2> HIDE DEF f
  <2> QED
    BY <2>2
<1>2. \A m \in Nat : m \in S => m + 1 \in S
  <2> SUFFICES ASSUME NEW m \in Nat, m \in S, m + 1 <= depth
               PROVE  \E f : Ups(f, t, k, depth - (m + 1), depth)
    OBVIOUS
  <2> DEFINE n == depth - m
  <2>1. n \in 1..depth /\ depth - (m + 1) = n - 1
    OBVIOUS
  <2>2. PICK f : Ups(f, t, k, n, depth)
    OBVIOUS
  <2> HIDE DEF n
  <2> QED
    BY <2>1, <2>2, UpsFurther
<1>3. Nat \subseteq S
  <2> HIDE DEF S
  <2> QED
    BY <1>1, <1>2, SetInduction
<1>4. depth \in S /\ depth - depth = 0
  BY <1>3
<1> QED
  BY <1>4

LEMMA DirtyUpIs ==
  ASSUME NEW t, NEW k, NEW depth \in Nat
  PROVE  \E f : Ups(f, t, k, 0, depth) /\ dirty_up(t, k, depth) = f[0]
<1> DEFINE up == CHOOSE f : f = [d \in 0..depth |->
                   IF d = depth THEN t
                   ELSE Put(f[d + 1], Prefix(k, d),
                            set_child(t[Prefix(k, d)],
                                      f[d + 1][Prefix(k, d + 1)].hash,
                                      select_branch(k, d)))]
<1>1. \E f : f = [d \in 0..depth |->
                   IF d = depth THEN t
                   ELSE Put(f[d + 1], Prefix(k, d),
                            set_child(t[Prefix(k, d)],
                                      f[d + 1][Prefix(k, d + 1)].hash,
                                      select_branch(k, d)))]
  <2>1. \E f : Ups(f, t, k, 0, depth)
    BY UpsExists
  <2> QED
    BY <2>1, Zenon DEF Ups, OneUp
<1>2. Ups(up, t, k, 0, depth)
  BY <1>1, Zenon DEF Ups, OneUp
<1>3. dirty_up(t, k, depth) = up[0]
  BY Zenon DEF dirty_up
<1> HIDE DEF up
<1> QED
  BY <1>2, <1>3

Refreshed(a, t, k, n, depth) ==
  /\ DOMAIN a = DOMAIN t
  /\ a = [p \in DOMAIN a |-> a[p]]
  /\ \A p \in DOMAIN t : (\A d \in n..(depth - 1) : p # Prefix(k, d)) => a[p] = t[p]
  /\ \A d \in n..(depth - 1) :
       a[Prefix(k, d)] = set_child(t[Prefix(k, d)], a[Prefix(k, d + 1)].hash,
                                   select_branch(k, d))

LEMMA PutIs ==
  ASSUME NEW t, NEW p, NEW n
  PROVE  /\ DOMAIN Put(t, p, n) = DOMAIN t \cup {p}
         /\ Put(t, p, n) = [x \in DOMAIN Put(t, p, n) |-> Put(t, p, n)[x]]
         /\ Put(t, p, n)[p] = n
         /\ \A x \in DOMAIN t : x # p => Put(t, p, n)[x] = t[x]
  BY DEF Put

LEMMA DirtyUpRefreshes ==
  ASSUME NEW t, t = [p \in DOMAIN t |-> t[p]], NEW k \in Key,
         NEW depth \in 0..Depth,
         \A d \in 0..depth : Prefix(k, d) \in DOMAIN t
  PROVE  Refreshed(dirty_up(t, k, depth), t, k, 0, depth)
<1> depth \in Nat /\ Depth \in Nat
  BY TreeAssumption
<1>1. PICK f : Ups(f, t, k, 0, depth) /\ dirty_up(t, k, depth) = f[0]
  BY DirtyUpIs
<1>2. /\ f[depth] = t
      /\ \A d \in 0..(depth - 1) : f[d] = OneUp(f[d + 1], t, k, d)
  BY <1>1 DEF Ups
<1> DEFINE S == {m \in Nat : m <= depth =>
                   Refreshed(f[depth - m], t, k, depth - m, depth)}
<1>3. 0 \in S
  BY <1>2 DEF Refreshed
<1>4. \A m \in Nat : m \in S => m + 1 \in S
  <2> SUFFICES ASSUME NEW m \in Nat, m \in S, m + 1 <= depth
               PROVE  Refreshed(f[depth - (m + 1)], t, k, depth - (m + 1), depth)
    OBVIOUS
  <2> DEFINE n == depth - m
             e == n - 1
             u == f[n]
             a == f[e]
  <2>1. /\ n \in 1..depth /\ e \in 0..(depth - 1) /\ e + 1 = n
        /\ depth - (m + 1) = e /\ e \in 0..depth
    OBVIOUS
  <2>2. Refreshed(u, t, k, n, depth)
    OBVIOUS
  <2> DEFINE q == Prefix(k, e)
             new == set_child(t[q], u[Prefix(k, n)].hash, select_branch(k, e))
  <2>3. a = Put(u, q, new)
    <3>1. a = OneUp(f[e + 1], t, k, e)
      BY <1>2, <2>1
    <3> QED
      BY <2>1, <3>1 DEF OneUp
  <2>4. q \in DOMAIN t
    BY <2>1
  <2>5. \A d \in n..depth : Prefix(k, d) # q /\ Prefix(k, d) \in DOMAIN t
    <3> SUFFICES ASSUME NEW d \in n..depth
                 PROVE  Prefix(k, d) # q /\ Prefix(k, d) \in DOMAIN t
      OBVIOUS
    <3>1. d \in 0..Depth /\ e \in 0..Depth /\ d # e /\ d \in 0..depth
      BY <2>1
    <3> QED
      BY <3>1, PrefixSame
  <2> HIDE DEF n, e, u, a, q, new
  <2>6. /\ DOMAIN a = DOMAIN u \cup {q}
        /\ a = [x \in DOMAIN a |-> a[x]]
        /\ a[q] = new
        /\ \A x \in DOMAIN u : x # q => a[x] = u[x]
    <3> DEFINE r == Put(u, q, new)
    <3>1. /\ DOMAIN r = DOMAIN u \cup {q}
          /\ r = [x \in DOMAIN r |-> r[x]]
          /\ r[q] = new
          /\ \A x \in DOMAIN u : x # q => r[x] = u[x]
      BY DEF Put
    <3> HIDE DEF r
    <3>2. a = r
      BY <2>3 DEF r
    <3> QED
      BY <3>1, <3>2
  <2>7. DOMAIN a = DOMAIN t /\ DOMAIN u = DOMAIN t
    BY <2>2, <2>4, <2>6 DEF Refreshed
  <2>8. ASSUME NEW p \in DOMAIN t, \A d \in e..(depth - 1) : p # Prefix(k, d)
        PROVE  a[p] = t[p]
    <3>1. p # q
      BY <2>1, <2>8 DEF q
    <3>2. \A d \in n..(depth - 1) : p # Prefix(k, d)
      BY <2>1, <2>8
    <3> QED
      BY <2>2, <2>6, <2>7, <3>1, <3>2 DEF Refreshed
  <2>9. ASSUME NEW d \in e..(depth - 1)
        PROVE  a[Prefix(k, d)] = set_child(t[Prefix(k, d)],
                                           a[Prefix(k, d + 1)].hash,
                                           select_branch(k, d))
    <3>0. d + 1 \in n..depth
      BY <2>1
    <3>1. a[Prefix(k, d + 1)] = u[Prefix(k, d + 1)]
      BY <2>5, <2>6, <2>7, <3>0
    <3>2. CASE d = e
      BY <2>1, <2>6, <3>1, <3>2 DEF new, q
    <3>3. CASE d \in n..(depth - 1)
      <4>1. u[Prefix(k, d)] = set_child(t[Prefix(k, d)],
                                        u[Prefix(k, d + 1)].hash,
                                        select_branch(k, d))
        BY <2>2, <3>3 DEF Refreshed
      <4>2. a[Prefix(k, d)] = u[Prefix(k, d)]
        <5>1. d \in n..depth
          BY <3>3
        <5> QED
          BY <2>5, <2>6, <2>7, <5>1
      <4> QED
        BY <3>1, <4>1, <4>2
    <3> QED
      BY <2>1, <3>2, <3>3
  <2>10. Refreshed(a, t, k, e, depth)
    BY <2>6, <2>7, <2>8, <2>9 DEF Refreshed
  <2> QED
    BY <2>1, <2>10 DEF a
<1>5. Nat \subseteq S
  <2> HIDE DEF S
  <2> QED
    BY <1>3, <1>4, SetInduction
<1>6. depth \in S /\ depth - depth = 0
  BY <1>5
<1> QED
  BY <1>1, <1>6

-----------------------------------------------------------------------------
(***************************************************************************)
(* A whole tree, all nodes of it: each is at a prefix of an index, below   *)
(* inner nodes; inner nodes are hashed, have the hashes of their children  *)
(* and, but for the root, a child; a leaf is at a prefix of its index and  *)
(* hashed by that index or as a digest.                                    *)
(***************************************************************************)
Fcn(f) == f = [x \in DOMAIN f |-> f[x]]

Digest(item) ==
  [tag |-> "acleaf", data |-> item.data, index |-> item.index]

Place(t, p) ==
  \E k \in Key, d \in 0..Depth :
    /\ p = Prefix(k, d)
    /\ \A c \in 0..(d - 1) : Prefix(k, c) \in DOMAIN t
                             /\ is_inner(t[Prefix(k, c)])

Linked(t, p, b) ==
  t[p].children_hash[b] =
    IF Append(p, b) \in DOMAIN t THEN t[Append(p, b)].hash ELSE Zero

InnerAt(t, p) ==
  /\ InnerNode(t[p])
  /\ t[p].hash = update_hash(t[p])
  /\ Len(p) < Depth
  /\ \A b \in Branch : Linked(t, p, b)
  /\ p = << >> \/ \E b \in Branch : Append(p, b) \in DOMAIN t

LeafAt(t, p) ==
  /\ LeafNode(t[p])
  /\ t[p].item.index \in Key
  /\ t[p].item.data \in DataOf(t[p].item.index)
  /\ p = Prefix(t[p].item.index, Len(p))
  /\ t[p].hash \in {Index(t[p].item.index), Digest(t[p].item)}

Whole(t) ==
  /\ Fcn(t)
  /\ << >> \in DOMAIN t /\ is_inner(t[<< >>])
  /\ \A p \in DOMAIN t : Place(t, p) /\ (InnerAt(t, p) \/ LeafAt(t, p))

\* The same but for the nodes above depth e on the path of k: their hashes,
\* and what they have for the hash of their child on the path, are open.
OpenAt(t, p, b) ==
  /\ InnerNode(t[p])
  /\ Len(p) < Depth
  /\ \A c \in Branch : c # b => Linked(t, p, c)

OnPath(p, k, e) == \E d \in 0..(e - 1) : p = Prefix(k, d)

WholeBut(t, k, e) ==
  /\ Fcn(t)
  /\ << >> \in DOMAIN t /\ is_inner(t[<< >>])
  /\ \A d \in 0..e : Prefix(k, d) \in DOMAIN t
  /\ \A d \in 0..(e - 1) : OpenAt(t, Prefix(k, d), select_branch(k, d))
  /\ \A p \in DOMAIN t :
       Place(t, p) /\ (OnPath(p, k, e) \/ InnerAt(t, p) \/ LeafAt(t, p))

\* The items of the leaves.
ItemsOf(t) == {t[p].item : p \in {x \in DOMAIN t : ~ is_inner(t[x])}}

\* A prefix in the tree is a sequence of branches.
LEMMA PlaceIs ==
  ASSUME NEW t, NEW p, Place(t, p)
  PROVE  /\ p \in Seq(Branch) /\ Len(p) \in 0..Depth
         /\ \E k \in Key : p = Prefix(k, Len(p))
<1>1. PICK k \in Key, d \in 0..Depth : p = Prefix(k, d)
  BY DEF Place
<1>2. p \in Seq(Branch) /\ Len(p) = d
  BY <1>1, PrefixIs
<1> QED
  BY <1>1, <1>2

\* dirty_up makes such a tree whole.
LEMMA Closes ==
  ASSUME NEW t, NEW a, NEW k \in Key, NEW e \in 0..Depth,
         WholeBut(t, k, e), Refreshed(a, t, k, 0, e)
  PROVE  Whole(a) /\ DOMAIN a = DOMAIN t /\ ItemsOf(a) = ItemsOf(t)
<1> Depth \in Nat
  BY TreeAssumption
<1>1. DOMAIN a = DOMAIN t /\ Fcn(a)
  BY DEF Refreshed, Fcn
<1>2. ASSUME NEW p \in DOMAIN t, ~ OnPath(p, k, e)
      PROVE  a[p] = t[p]
  BY <1>2 DEF Refreshed, OnPath
<1>3. ASSUME NEW d \in 0..(e - 1)
      PROVE  LET p == Prefix(k, d)
                 b == select_branch(k, d)
                 h == a[Prefix(k, d + 1)].hash
             IN  /\ p \in DOMAIN t /\ b \in Branch
                 /\ Append(p, b) = Prefix(k, d + 1)
                 /\ Append(p, b) \in DOMAIN t
                 /\ OpenAt(t, p, b)
                 /\ InnerNode(t[p]) /\ InnerNode(a[p])
                 /\ a[p].hash = update_hash(a[p])
                 /\ a[p].children_hash[b] = h
                 /\ \A c \in Branch : c # b =>
                      a[p].children_hash[c] = t[p].children_hash[c]
  <2> DEFINE p == Prefix(k, d)
             b == select_branch(k, d)
             h == a[Prefix(k, d + 1)].hash
  <2>1. d \in 0..e /\ d + 1 \in 0..e /\ d \in 0..(Depth - 1)
    OBVIOUS
  <2>2. /\ b \in Branch /\ Append(p, b) = Prefix(k, d + 1)
    BY <2>1, PrefixNext
  <2>3. p \in DOMAIN t /\ Prefix(k, d + 1) \in DOMAIN t
    BY <2>1 DEF WholeBut
  <2>4. OpenAt(t, p, b)
    BY DEF WholeBut
  <2>5. InnerNode(t[p])
    BY <2>4 DEF OpenAt
  <2>6. a[p] = set_child(t[p], h, b)
    BY DEF Refreshed
  <2> HIDE DEF p, b, h
  <2>7. /\ InnerNode(a[p])
        /\ a[p].hash = update_hash(a[p])
        /\ a[p].children_hash[b] = h
        /\ \A c \in Branch : c # b =>
             a[p].children_hash[c] = t[p].children_hash[c]
    <3> DEFINE n == t[p]
               s == a[p]
    <3>1. InnerNode(n) /\ s = set_child(n, h, b)
      BY <2>5, <2>6
    <3> HIDE DEF n, s
    <3>2. /\ InnerNode(s)
          /\ s.hash = update_hash(s)
          /\ s.children_hash[b] = h
          /\ \A c \in Branch : c # b => s.children_hash[c] = n.children_hash[c]
      BY <2>2, <3>1, SetChildIs
    <3> QED
      BY <3>2 DEF n, s
  <2> QED
    BY <2>2, <2>3, <2>4, <2>5, <2>7 DEF p, b, h
<1>4. ASSUME NEW p \in DOMAIN t
      PROVE  is_inner(a[p]) <=> is_inner(t[p])
  <2>1. CASE OnPath(p, k, e)
    <3>1. PICK d \in 0..(e - 1) : p = Prefix(k, d)
      BY <2>1 DEF OnPath
    <3>2. InnerNode(t[p]) /\ InnerNode(a[p])
      BY <1>3, <3>1
    <3> QED
      BY <3>2, NodeKinds
  <2>2. CASE ~ OnPath(p, k, e)
    BY <1>2, <2>2
  <2> QED
    BY <2>1, <2>2
<1>5. ASSUME NEW p \in DOMAIN t
      PROVE  Place(a, p) /\ p \in Seq(Branch)
  <2>1. Place(t, p)
    BY DEF WholeBut
  <2>2. PICK j \in Key, d \in 0..Depth :
          /\ p = Prefix(j, d)
          /\ \A c \in 0..(d - 1) : Prefix(j, c) \in DOMAIN t
                                   /\ is_inner(t[Prefix(j, c)])
    BY <2>1 DEF Place
  <2>3. \A c \in 0..(d - 1) : Prefix(j, c) \in DOMAIN a
                              /\ is_inner(a[Prefix(j, c)])
    BY <1>1, <1>4, <2>2
  <2> QED
    BY <2>1, <2>2, <2>3, PlaceIs DEF Place
\* A child off the path is as it was.
<1>6. ASSUME NEW p \in DOMAIN t, NEW b \in Branch, Linked(t, p, b),
             Append(p, b) \in DOMAIN t => ~ OnPath(Append(p, b), k, e),
             a[p].children_hash[b] = t[p].children_hash[b]
      PROVE  Linked(a, p, b)
  BY <1>1, <1>2, <1>6 DEF Linked
<1>7. ASSUME NEW p \in DOMAIN t, NEW b \in Branch,
             OnPath(Append(p, b), k, e)
      PROVE  \E d \in 0..(e - 1) : p = Prefix(k, d) /\ b = select_branch(k, d)
  <2>1. PICK d \in 0..(e - 1) : Append(p, b) = Prefix(k, d)
    BY <1>7 DEF OnPath
  <2>2. d \in 0..Depth /\ p \in Seq(Branch)
    BY <1>5
  <2>3. d # 0 /\ p = Prefix(k, d - 1) /\ b = select_branch(k, d - 1)
    BY <2>1, <2>2, PrefixChild
  <2>4. d - 1 \in 0..(e - 1)
    BY <2>3
  <2> QED
    BY <2>3, <2>4
<1>8. ASSUME NEW p \in DOMAIN t
      PROVE  InnerAt(a, p) \/ LeafAt(a, p)
  <2>1. CASE OnPath(p, k, e)
    <3>1. PICK d \in 0..(e - 1) : p = Prefix(k, d)
      BY <2>1 DEF OnPath
    <3> DEFINE b == select_branch(k, d)
               h == a[Prefix(k, d + 1)].hash
    <3>2. /\ b \in Branch
          /\ Append(p, b) = Prefix(k, d + 1)
          /\ Append(p, b) \in DOMAIN t
          /\ OpenAt(t, p, b)
          /\ InnerNode(t[p]) /\ InnerNode(a[p])
          /\ a[p].hash = update_hash(a[p])
          /\ a[p].children_hash[b] = h
          /\ \A c \in Branch : c # b =>
               a[p].children_hash[c] = t[p].children_hash[c]
      BY <1>3, <3>1
    <3> HIDE DEF b
    <3>3. /\ a[p].children_hash[b] = h
          /\ \A c \in Branch : c # b =>
               a[p].children_hash[c] = t[p].children_hash[c]
      BY <3>2
    <3>4. Linked(a, p, b)
      BY <1>1, <3>2, <3>3 DEF Linked
    <3>5. ASSUME NEW c \in Branch, c # b
          PROVE  Linked(a, p, c)
      <4>1. Linked(t, p, c)
        BY <3>2, <3>5 DEF OpenAt
      <4>2. ~ OnPath(Append(p, c), k, e)
        <5> SUFFICES ASSUME OnPath(Append(p, c), k, e) PROVE FALSE
          OBVIOUS
        <5>1. PICK f \in 0..(e - 1) : p = Prefix(k, f) /\ c = select_branch(k, f)
          BY <1>7
        <5>2. f \in 0..Depth /\ d \in 0..Depth
          OBVIOUS
        <5>3. f = d
          BY <3>1, <5>1, <5>2, PrefixSame, ZenonT(60)
        <5> QED
          BY <3>5, <5>1, <5>3 DEF b
      <4> QED
        BY <1>6, <3>3, <3>5, <4>1, <4>2
    <3>6. Len(p) < Depth
      BY <3>2 DEF OpenAt
    <3> QED
      BY <1>1, <3>2, <3>4, <3>5, <3>6 DEF InnerAt
  <2>2. CASE ~ OnPath(p, k, e)
    <3>1. a[p] = t[p]
      BY <1>2, <2>2
    <3>2. CASE LeafAt(t, p)
      BY <3>1, <3>2 DEF LeafAt
    <3>3. CASE InnerAt(t, p)
      <4>1. ASSUME NEW b \in Branch
            PROVE  Linked(a, p, b)
        <5>1. Linked(t, p, b)
          BY <3>3 DEF InnerAt
        <5>2. ~ OnPath(Append(p, b), k, e)
          BY <1>7, <2>2 DEF OnPath
        <5> QED
          BY <1>6, <3>1, <5>1, <5>2
      <4> QED
        BY <1>1, <3>1, <3>3, <4>1 DEF InnerAt
    <3> QED
      BY <2>2, <3>2, <3>3 DEF WholeBut
  <2> QED
    BY <2>1, <2>2
<1> QED
  <2>1. << >> \in DOMAIN a /\ is_inner(a[<< >>])
    BY <1>1, <1>4 DEF WholeBut
  <2>2. ASSUME NEW p \in DOMAIN t, ~ is_inner(t[p])
        PROVE  a[p] = t[p]
    <3>1. ~ OnPath(p, k, e)
      <4> SUFFICES ASSUME OnPath(p, k, e) PROVE FALSE
        OBVIOUS
      <4>1. PICK d \in 0..(e - 1) : p = Prefix(k, d)
        BY DEF OnPath
      <4>2. InnerNode(t[p])
        BY <1>3, <4>1
      <4> QED
        BY <2>2, <4>2, NodeKinds
    <3> QED
      BY <1>2, <3>1
  <2>3. ItemsOf(a) = ItemsOf(t)
    BY <1>1, <1>4, <2>2 DEF ItemsOf
  <2> QED
    BY <1>1, <1>5, <1>8, <2>1, <2>3 DEF Whole

-----------------------------------------------------------------------------
(***************************************************************************)
(* Facts about whole trees.                                                *)
(***************************************************************************)
LEMMA WholeNode ==
  ASSUME NEW t, Whole(t), NEW p \in DOMAIN t
  PROVE  /\ p \in Seq(Branch) /\ Len(p) \in 0..Depth
         /\ \E k \in Key : p = Prefix(k, Len(p))
         /\ InnerNode(t[p]) \/ LeafNode(t[p])
         /\ is_inner(t[p]) => InnerAt(t, p) /\ InnerNode(t[p])
         /\ ~ is_inner(t[p]) => LeafAt(t, p) /\ LeafNode(t[p])
         /\ InnerAt(t, p) => is_inner(t[p])
         /\ LeafAt(t, p) => ~ is_inner(t[p])
<1>1. Place(t, p) /\ (InnerAt(t, p) \/ LeafAt(t, p))
  BY DEF Whole
<1>2. InnerAt(t, p) => InnerNode(t[p]) /\ is_inner(t[p])
  BY NodeKinds DEF InnerAt
<1>3. LeafAt(t, p) => LeafNode(t[p]) /\ ~ is_inner(t[p])
  BY NodeKinds DEF LeafAt
<1> QED
  BY <1>1, <1>2, <1>3, PlaceIs

\* The hashes of inner nodes and of leaves.
LEMMA InnerHash ==
  ASSUME NEW t, NEW p, InnerAt(t, p)
  PROVE  /\ t[p].hash.tag = "node"
         /\ t[p].hash.children = t[p].children_hash
<1>1. is_inner(t[p]) /\ t[p].hash = update_hash(t[p])
  BY NodeKinds DEF InnerAt
<1> QED
  BY <1>1 DEF update_hash

LEMMA HashTags ==
  ASSUME NEW t, NEW p
  PROVE  /\ InnerAt(t, p) => t[p].hash.tag = "node" /\ t[p].hash # Zero
                             /\ t[p].hash # NoRow
         /\ LeafAt(t, p) => /\ t[p].hash.tag \in {"index", "acleaf"}
                            /\ t[p].hash.index = t[p].item.index
                            /\ t[p].hash # Zero
<1>1. InnerAt(t, p) => t[p].hash.tag = "node"
  BY InnerHash
<1>2. LeafAt(t, p) => /\ t[p].hash.tag \in {"index", "acleaf"}
                      /\ t[p].hash.index = t[p].item.index
  <2> DEFINE i == t[p].item
  <2> HIDE DEF i
  <2>1. /\ Index(i.index).tag = "index" /\ Index(i.index).index = i.index
        /\ Digest(i).tag = "acleaf" /\ Digest(i).index = i.index
    BY DEF Index, Digest
  <2> QED
    BY <2>1 DEF LeafAt, i
<1>3. Zero.tag = "zero" /\ NoRow.tag = "none"
  BY DEF Zero, NoRow
<1> QED
  BY <1>1, <1>2, <1>3

\* An inner node has the hash of a child exactly where there is one.
LEMMA ChildLink ==
  ASSUME NEW t, Whole(t), NEW p \in DOMAIN t, InnerAt(t, p), NEW b \in Branch
  PROVE  /\ Append(p, b) \in DOMAIN t =>
              /\ t[p].children_hash[b] = t[Append(p, b)].hash
              /\ t[p].children_hash[b] # Zero
         /\ Append(p, b) \notin DOMAIN t => t[p].children_hash[b] = Zero
<1>1. Linked(t, p, b)
  BY DEF InnerAt
<1>2. Append(p, b) \in DOMAIN t => t[Append(p, b)].hash # Zero
  BY WholeNode, HashTags
<1> QED
  BY <1>1, <1>2 DEF Linked

\* Above a node on the path of k there are inner nodes.
LEMMA Ancestors ==
  ASSUME NEW t, Whole(t), NEW k \in Key, NEW d \in 0..Depth,
         Prefix(k, d) \in DOMAIN t, NEW c \in 0..(d - 1)
  PROVE  Prefix(k, c) \in DOMAIN t /\ is_inner(t[Prefix(k, c)])
<1>1. Place(t, Prefix(k, d))
  BY DEF Whole
<1>2. PICK j \in Key, e \in 0..Depth :
        /\ Prefix(k, d) = Prefix(j, e)
        /\ \A i \in 0..(e - 1) : Prefix(j, i) \in DOMAIN t
                                 /\ is_inner(t[Prefix(j, i)])
  BY <1>1, Zenon DEF Place
<1>3. e = d
  BY <1>2, PrefixSame
<1>4. Prefix(j, c) = Prefix(k, c)
  <2>1. c \in 0..d
    BY TreeAssumption
  <2> QED
    BY <1>2, <1>3, <2>1, PrefixShorter
<1> QED
  BY <1>2, <1>3, <1>4

\* There is one leaf of an index.
LEMMA LeafAlone ==
  ASSUME NEW t, Whole(t), NEW p \in DOMAIN t, NEW q \in DOMAIN t,
         ~ is_inner(t[p]), ~ is_inner(t[q]),
         t[p].item.index = t[q].item.index
  PROVE  p = q
<1> DEFINE k == t[p].item.index
           c == Len(p)
           d == Len(q)
<1>1. LeafAt(t, p) /\ LeafAt(t, q) /\ c \in 0..Depth /\ d \in 0..Depth
  BY WholeNode
<1>2. k \in Key /\ p = Prefix(k, c) /\ q = Prefix(k, d)
  BY <1>1 DEF LeafAt
<1> HIDE DEF k, c, d
<1>3. ~ (c \in 0..(d - 1)) /\ ~ (d \in 0..(c - 1))
  BY <1>1, <1>2, Ancestors
<1>4. c = d
  BY <1>1, <1>3, TreeAssumption
<1> QED
  BY <1>2, <1>4

\* No two nodes of a whole tree share a hash.
LEMMA HashUnique ==
  ASSUME NEW t, Whole(t), NEW p \in DOMAIN t, NEW q \in DOMAIN t,
         t[p].hash = t[q].hash
  PROVE  p = q
<1> Depth \in Nat
  BY TreeAssumption
<1> DEFINE Same(n) == \A x, y \in DOMAIN t :
                        Len(x) = Depth - n /\ t[x].hash = t[y].hash => x = y
           S == {n \in Nat : n <= Depth => Same(n)}
<1>1. ASSUME NEW x \in DOMAIN t, NEW y \in DOMAIN t, t[x].hash = t[y].hash
      PROVE  is_inner(t[x]) <=> is_inner(t[y])
  <2>1. is_inner(t[x]) => t[x].hash.tag = "node"
    BY WholeNode, HashTags
  <2>2. is_inner(t[y]) => t[y].hash.tag = "node"
    BY WholeNode, HashTags
  <2>3. ~ is_inner(t[x]) => t[x].hash.tag \in {"index", "acleaf"}
    BY WholeNode, HashTags
  <2>4. ~ is_inner(t[y]) => t[y].hash.tag \in {"index", "acleaf"}
    BY WholeNode, HashTags
  <2> QED
    BY <1>1, <2>1, <2>2, <2>3, <2>4
<1>2. ASSUME NEW x \in DOMAIN t, NEW y \in DOMAIN t, t[x].hash = t[y].hash,
             ~ is_inner(t[x])
      PROVE  x = y
  <2>1. ~ is_inner(t[y])
    BY <1>1, <1>2
  <2>2. t[x].hash.index = t[x].item.index /\ t[y].hash.index = t[y].item.index
    BY <1>2, <2>1, WholeNode, HashTags
  <2>3. t[x].item.index = t[y].item.index
    BY <1>2, <2>2
  <2> QED
    BY <1>2, <2>1, <2>3, LeafAlone
<1>3. 0 \in S
  <2> SUFFICES ASSUME NEW x \in DOMAIN t, NEW y \in DOMAIN t, Len(x) = Depth,
                      t[x].hash = t[y].hash
               PROVE  x = y
    OBVIOUS
  <2>1. ~ is_inner(t[x])
    <3>1. is_inner(t[x]) => InnerAt(t, x)
      BY WholeNode
    <3> QED
      BY <3>1 DEF InnerAt
  <2> QED
    BY <1>2, <2>1
<1>4. \A n \in Nat : n \in S => n + 1 \in S
  <2> SUFFICES ASSUME NEW n \in Nat, n \in S, n + 1 <= Depth,
                      NEW x \in DOMAIN t, NEW y \in DOMAIN t,
                      Len(x) = Depth - (n + 1), t[x].hash = t[y].hash
               PROVE  x = y
    OBVIOUS
  <2>1. Same(n)
    OBVIOUS
  <2>2. CASE is_inner(t[x])
    <3>1. InnerAt(t, x) /\ InnerAt(t, y) /\ x \in Seq(Branch) /\ y \in Seq(Branch)
      BY <1>1, <2>2, WholeNode
    <3>2. t[x].children_hash = t[y].children_hash
      <4>1. /\ t[x].hash.children = t[x].children_hash
            /\ t[y].hash.children = t[y].children_hash
        BY <3>1, InnerHash
      <4> QED
        BY <4>1
    <3>4. ASSUME NEW b \in Branch, Append(x, b) \in DOMAIN t \/ Append(y, b) \in DOMAIN t
          PROVE  x = y
      <4>1. /\ Append(x, b) \in DOMAIN t /\ Append(y, b) \in DOMAIN t
            /\ t[Append(x, b)].hash = t[Append(y, b)].hash
        BY <3>1, <3>2, <3>4, ChildLink
      <4>2. Len(Append(x, b)) = Depth - n
        BY <3>1
      <4>3. Append(x, b) = Append(y, b)
        BY <2>1, <4>1, <4>2
      <4> QED
        BY <3>1, <4>3, ChildInjective
    <3>5. CASE \A b \in Branch : Append(x, b) \notin DOMAIN t /\ Append(y, b) \notin DOMAIN t
      BY <3>1, <3>5 DEF InnerAt
    <3> QED
      BY <3>4, <3>5
  <2>3. CASE ~ is_inner(t[x])
    BY <1>2, <2>3
  <2> QED
    BY <2>2, <2>3
<1>5. Nat \subseteq S
  <2> HIDE DEF S
  <2> QED
    BY <1>3, <1>4, SetInduction
<1>6. Len(p) \in 0..Depth
  BY WholeNode
<1> DEFINE n == Depth - Len(p)
<1>7. n \in Nat /\ n <= Depth /\ Len(p) = Depth - n
  BY <1>6
<1>8. n \in S
  BY <1>5, <1>7
<1> HIDE DEF n
<1> QED
  BY <1>7, <1>8

-----------------------------------------------------------------------------
(***************************************************************************)
(* Where get_stack stops, and what walk_to_leaf finds there.               *)
(***************************************************************************)
LEMMA MinIs ==
  ASSUME NEW S, S \subseteq Nat, S # {}
  PROVE  Min(S) \in S /\ \A y \in S : Min(S) <= y
<1>1. \E x \in S : \A y \in S : ~ (<<y, x>> \in OpToRel(<, Nat))
  BY WFMin, NatLessThanWellFounded
<1>2. PICK x \in S : \A y \in S : ~ (<<y, x>> \in OpToRel(<, Nat))
  BY <1>1
<1>3. \A y \in S : x <= y
  <2> SUFFICES ASSUME NEW y \in S, y < x PROVE FALSE
    OBVIOUS
  <2>1. x \in Nat /\ y \in Nat
    OBVIOUS
  <2> QED
    BY <1>2, <2>1 DEF OpToRel
<1> QED
  BY <1>3, Zenon DEF Min

LEMMA Stack ==
  ASSUME Whole(tree), NEW k \in Key, NEW d, d = get_stack(k)
  PROVE  /\ d \in 0..Depth
         /\ Prefix(k, d) \in DOMAIN tree
         /\ \A c \in 0..(d - 1) : Prefix(k, c) \in DOMAIN tree
                                  /\ is_inner(tree[Prefix(k, c)])
         /\ \A c \in (d + 1)..Depth : Prefix(k, c) \notin DOMAIN tree
         /\ is_inner(tree[Prefix(k, d)]) => d \in 0..(Depth - 1)
<1> Depth \in Nat
  BY TreeAssumption
<1> DEFINE M == {c \in Nat : c <= Depth /\ Prefix(k, Depth - c) \in DOMAIN tree}
           m == Depth - Min(M)
           S == {depth \in 0..Depth : /\ Prefix(k, depth) \in DOMAIN tree
                                      /\ StopsAt(k, depth)}
<1>1. /\ m \in 0..Depth /\ Prefix(k, m) \in DOMAIN tree
      /\ \A c \in (m + 1)..Depth : Prefix(k, c) \notin DOMAIN tree
  <2>1. Depth \in M
    <3>1. Prefix(k, 0) \in DOMAIN tree
      BY PrefixZero DEF Whole
    <3>2. Depth - Depth = 0
      OBVIOUS
    <3> QED
      BY <3>1, <3>2
  <2>2. M \subseteq Nat /\ M # {}
    BY <2>1
  <2> DEFINE x == Min(M)
  <2>3. x \in M /\ \A y \in M : x <= y
    <3> HIDE DEF M
    <3> QED
      BY <2>2, MinIs
  <2> HIDE DEF x
  <2>4. m = Depth - x
    BY DEF x
  <2>5. ASSUME NEW c \in (m + 1)..Depth, Prefix(k, c) \in DOMAIN tree
        PROVE  FALSE
    <3>1. Depth - c \in Nat /\ Depth - (Depth - c) = c /\ Depth - c <= Depth
          /\ Depth - c < x
      BY <2>3, <2>4
    <3>2. Depth - c \in M
      BY <2>5, <3>1
    <3> QED
      BY <2>3, <3>1, <3>2
  <2> HIDE DEF m
  <2> QED
    BY <2>3, <2>4, <2>5
<1> HIDE DEF m
\* An inner node on the path has the child on the path unless it stops there.
<1>2. ASSUME NEW c \in 0..Depth, Prefix(k, c) \in DOMAIN tree,
             is_inner(tree[Prefix(k, c)])
      PROVE  /\ c \in 0..(Depth - 1)
             /\ StopsAt(k, c) <=> Prefix(k, c + 1) \notin DOMAIN tree
  <2> DEFINE p == Prefix(k, c)
             b == select_branch(k, c)
  <2>1. InnerAt(tree, p) /\ Len(p) = c
    BY <1>2, WholeNode, PrefixIs
  <2>2. c \in 0..(Depth - 1)
    BY <2>1 DEF InnerAt
  <2>3. b \in Branch /\ Append(p, b) = Prefix(k, c + 1)
    BY <2>2, PrefixNext
  <2>4. StopsAt(k, c) <=> tree[p].children_hash[b] = Zero
    BY <1>2 DEF StopsAt, is_empty_branch
  <2>5. p \in DOMAIN tree
    BY <1>2
  <2> HIDE DEF p, b
  <2>6. tree[p].children_hash[b] = Zero <=> Append(p, b) \notin DOMAIN tree
    BY <2>1, <2>3, <2>5, ChildLink
  <2> QED
    BY <2>2, <2>3, <2>4, <2>6
<1>3. m \in S
  <2>1. StopsAt(k, m)
    <3>1. CASE is_inner(tree[Prefix(k, m)])
      <4>1. /\ m \in 0..(Depth - 1)
            /\ StopsAt(k, m) <=> Prefix(k, m + 1) \notin DOMAIN tree
        BY <1>1, <1>2, <3>1
      <4>2. m + 1 \in (m + 1)..Depth
        BY <4>1
      <4> QED
        BY <1>1, <4>1, <4>2
    <3>2. CASE ~ is_inner(tree[Prefix(k, m)])
      BY <3>2 DEF StopsAt
    <3> QED
      BY <3>1, <3>2
  <2> QED
    BY <1>1, <2>1
<1>4. d \in S
  <2>1. S \subseteq Nat /\ S # {} /\ d = Min(S)
    BY <1>3 DEF get_stack
  <2> HIDE DEF S
  <2> QED
    BY <2>1, MinIs
<1>5. d \in 0..Depth /\ Prefix(k, d) \in DOMAIN tree /\ StopsAt(k, d)
  BY <1>4
<1> HIDE DEF S
<1>6. \A c \in 0..(d - 1) : Prefix(k, c) \in DOMAIN tree
                            /\ is_inner(tree[Prefix(k, c)])
  BY <1>5, Ancestors
<1>7. is_inner(tree[Prefix(k, d)]) =>
        d \in 0..(Depth - 1) /\ Prefix(k, d + 1) \notin DOMAIN tree
  BY <1>2, <1>5
<1>8. ASSUME NEW c \in (d + 1)..Depth, Prefix(k, c) \in DOMAIN tree
      PROVE  FALSE
  <2>1. c \in 0..Depth /\ d \in 0..(c - 1)
    BY <1>5
  <2>2. is_inner(tree[Prefix(k, d)])
    BY <1>8, <2>1, Ancestors
  <2>3. d + 1 # c
    BY <1>7, <1>8, <2>2
  <2>4. d + 1 \in 0..(c - 1)
    BY <1>5, <2>3
  <2>5. Prefix(k, d + 1) \in DOMAIN tree
    BY <1>8, <2>1, <2>4, Ancestors
  <2> QED
    BY <1>7, <2>2, <2>5
<1> QED
  BY <1>5, <1>6, <1>7, <1>8

\* A leaf of k is where get_stack stops for k, and nowhere else.
LEMMA LeafOnStack ==
  ASSUME Whole(tree), NEW p \in DOMAIN tree, ~ is_inner(tree[p]),
         NEW k, k = tree[p].item.index
  PROVE  k \in Key /\ p = Prefix(k, get_stack(k))
<1> DEFINE c == Len(p)
           d == get_stack(k)
<1>1. LeafAt(tree, p) /\ c \in 0..Depth
  BY WholeNode
<1>2. k \in Key /\ p = Prefix(k, c)
  BY <1>1 DEF LeafAt
<1> HIDE DEF c, d
<1>3. /\ d \in 0..Depth
      /\ Prefix(k, d) \in DOMAIN tree
      /\ \A i \in 0..(d - 1) : Prefix(k, i) \in DOMAIN tree
                               /\ is_inner(tree[Prefix(k, i)])
      /\ \A i \in (d + 1)..Depth : Prefix(k, i) \notin DOMAIN tree
  BY <1>2, Stack DEF d
<1>4. ~ (c \in (d + 1)..Depth) /\ ~ (c \in 0..(d - 1))
  BY <1>2, <1>3
<1>5. c = d
  BY <1>1, <1>3, <1>4, TreeAssumption
<1> QED
  BY <1>2, <1>5 DEF d

\* What walk_to_leaf finds is the item of that index.
LEMMA WalkIs ==
  ASSUME Whole(tree), NEW k \in Key
  PROVE  walk_to_leaf(k) = {item \in ItemsOf(tree) : item.index = k}
<1> DEFINE p == Prefix(k, get_stack(k))
<1>1. p \in DOMAIN tree
  BY Stack
<1>2. walk_to_leaf(k) =
        IF ~ is_inner(tree[p]) /\ tree[p].item.index = k
        THEN {tree[p].item} ELSE {}
  BY DEF walk_to_leaf
<1>3. ASSUME NEW q \in DOMAIN tree, ~ is_inner(tree[q]),
             tree[q].item.index = k
      PROVE  q = p
  BY <1>3, LeafOnStack
<1> HIDE DEF p
<1> QED
  BY <1>1, <1>2, <1>3 DEF ItemsOf

\* A change below reaches the root: every hash on the path is a new one.
LEMMA AllChange ==
  ASSUME NEW t, Whole(t), NEW a, NEW k \in Key, NEW e \in 0..Depth,
         Prefix(k, e) \in DOMAIN t,
         \A d \in 0..(e - 1) :
           a[Prefix(k, d)] = set_child(t[Prefix(k, d)],
                                       a[Prefix(k, d + 1)].hash,
                                       select_branch(k, d)),
         a[Prefix(k, e)].hash # t[Prefix(k, e)].hash
  PROVE  \A d \in 0..e : a[Prefix(k, d)].hash # t[Prefix(k, d)].hash
<1> Depth \in Nat
  BY TreeAssumption
<1> DEFINE S == {m \in Nat : m <= e =>
                   a[Prefix(k, e - m)].hash # t[Prefix(k, e - m)].hash}
<1>1. 0 \in S
  <2>1. e - 0 = e
    OBVIOUS
  <2> QED
    BY <2>1
<1>2. \A m \in Nat : m \in S => m + 1 \in S
  <2> SUFFICES ASSUME NEW m \in Nat, m \in S, m + 1 <= e
               PROVE  a[Prefix(k, e - (m + 1))].hash
                        # t[Prefix(k, e - (m + 1))].hash
    OBVIOUS
  <2> DEFINE d == e - (m + 1)
             p == Prefix(k, d)
             q == Prefix(k, d + 1)
             b == select_branch(k, d)
  <2>1. d \in 0..(e - 1) /\ d + 1 = e - m /\ d \in 0..(Depth - 1) /\ d + 1 \in 0..e
    OBVIOUS
  <2>2. a[q].hash # t[q].hash
    <3>1. m <= e
      OBVIOUS
    <3> QED
      BY <2>1, <3>1
  <2>3. a[p] = set_child(t[p], a[q].hash, b)
    BY <2>1
  <2> HIDE DEF d
  <2>4. p \in DOMAIN t /\ is_inner(t[p]) /\ q \in DOMAIN t
    <3>1. d + 1 \in 0..(e - 1) \/ d + 1 = e
      BY <2>1
    <3> QED
      BY <2>1, <3>1, Ancestors
  <2>5. InnerAt(t, p) /\ InnerNode(t[p])
    BY <2>4, WholeNode
  <2>6. b \in Branch /\ Append(p, b) = q
    BY <2>1, PrefixNext
  <2> HIDE DEF p, q, b
  <2>7. t[p].children_hash[b] = t[q].hash
    BY <2>4, <2>5, <2>6, ChildLink
  <2>8. InnerNode(a[p]) /\ a[p].children_hash[b] = a[q].hash
        /\ a[p].hash = update_hash(a[p])
    <3> DEFINE n == t[p]
               s == a[p]
               h == a[q].hash
    <3>1. InnerNode(n) /\ s = set_child(n, h, b)
      BY <2>3, <2>5
    <3> HIDE DEF n, s, h
    <3>2. InnerNode(s) /\ s.children_hash[b] = h /\ s.hash = update_hash(s)
      BY <2>6, <3>1, SetChildIs
    <3> QED
      BY <3>2 DEF s, h
  <2>9. a[p].hash.children = a[p].children_hash
    <3>1. is_inner(a[p])
      BY <2>8, NodeKinds
    <3> QED
      BY <2>8, <3>1 DEF update_hash
  <2>10. t[p].hash.children = t[p].children_hash
    BY <2>5, InnerHash
  <2> QED
    BY <2>2, <2>7, <2>8, <2>9, <2>10 DEF d, p
<1>3. Nat \subseteq S
  <2> HIDE DEF S
  <2> QED
    BY <1>1, <1>2, SetInduction
<1> SUFFICES ASSUME NEW d \in 0..e
             PROVE  a[Prefix(k, d)].hash # t[Prefix(k, d)].hash
  OBVIOUS
<1>4. e - d \in S /\ e - (e - d) = d /\ e - d <= e
  BY <1>3
<1> QED
  BY <1>4

-----------------------------------------------------------------------------
(***************************************************************************)
(* Operations.  t is u changed at C, which is at depth and below it on the *)
(* path of k.                                                              *)
(***************************************************************************)
Grafted(t, u, k, depth, C) ==
  /\ Fcn(t)
  /\ DOMAIN t = DOMAIN u \cup C
  /\ \A x \in DOMAIN u \ C : t[x] = u[x]
  /\ \A x \in DOMAIN u \cap C : is_inner(u[x]) => is_inner(t[x])
  /\ \A x \in DOMAIN u \ C : \A c \in Branch :
       Append(x, c) \in C =>
         /\ depth # 0
         /\ x = Prefix(k, depth - 1)
         /\ c = select_branch(k, depth - 1)
  /\ \A d \in 0..(depth - 1) : Prefix(k, d) \notin C

\* What is not in C stays as it is in a whole tree.
Kept(t, u, k, depth, C) ==
  /\ << >> \in DOMAIN t /\ is_inner(t[<< >>])
  /\ \A d \in 0..(depth - 1) :
       /\ Prefix(k, d) \in DOMAIN t
       /\ t[Prefix(k, d)] = u[Prefix(k, d)]
       /\ OpenAt(t, Prefix(k, d), select_branch(k, d))
  /\ \A x \in DOMAIN u : Place(t, x)
  /\ \A x \in DOMAIN u \ C :
       OnPath(x, k, depth) \/ InnerAt(t, x) \/ LeafAt(t, x)

LEMMA GraftKeeps ==
  ASSUME NEW t, NEW u, Whole(u), NEW k \in Key, NEW depth \in 0..Depth,
         NEW C, Grafted(t, u, k, depth, C), Prefix(k, depth) \in DOMAIN u
  PROVE  Kept(t, u, k, depth, C)
<1> Depth \in Nat
  BY TreeAssumption
<1>1. ASSUME NEW x \in DOMAIN u, is_inner(u[x])
      PROVE  x \in DOMAIN t /\ is_inner(t[x])
  BY <1>1 DEF Grafted
<1>2. << >> \in DOMAIN t /\ is_inner(t[<< >>])
  BY <1>1 DEF Whole
<1>3. ASSUME NEW x \in DOMAIN u
      PROVE  Place(t, x)
  <2>1. Place(u, x)
    BY DEF Whole
  <2>2. PICK j \in Key, d \in 0..Depth :
          /\ x = Prefix(j, d)
          /\ \A c \in 0..(d - 1) : Prefix(j, c) \in DOMAIN u
                                   /\ is_inner(u[Prefix(j, c)])
    BY <2>1 DEF Place
  <2>3. \A c \in 0..(d - 1) : Prefix(j, c) \in DOMAIN t
                              /\ is_inner(t[Prefix(j, c)])
    BY <1>1, <2>2
  <2> QED
    BY <2>2, <2>3 DEF Place
\* A child outside C is as it was, and linked.
<1>4. ASSUME NEW x \in DOMAIN u \ C, InnerAt(u, x), NEW c \in Branch,
             Append(x, c) \notin C
      PROVE  Linked(t, x, c)
  <2>1. Linked(u, x, c)
    BY <1>4 DEF InnerAt
  <2>2. t[x] = u[x]
    BY DEF Grafted
  <2>3. /\ Append(x, c) \in DOMAIN t <=> Append(x, c) \in DOMAIN u
        /\ Append(x, c) \in DOMAIN u => t[Append(x, c)] = u[Append(x, c)]
    BY <1>4 DEF Grafted
  <2> QED
    BY <2>1, <2>2, <2>3 DEF Linked
<1>5. ASSUME NEW d \in 0..(depth - 1)
      PROVE  /\ Prefix(k, d) \in DOMAIN t
             /\ t[Prefix(k, d)] = u[Prefix(k, d)]
             /\ OpenAt(t, Prefix(k, d), select_branch(k, d))
  <2> DEFINE x == Prefix(k, d)
  <2>1. x \in DOMAIN u /\ is_inner(u[x])
    BY Ancestors
  <2>2. x \in DOMAIN u \ C
    BY <2>1 DEF Grafted
  <2>3. InnerAt(u, x)
    BY <2>1, WholeNode
  <2>4. t[x] = u[x] /\ x \in DOMAIN t
    BY <2>2 DEF Grafted
  <2>5. ASSUME NEW c \in Branch, c # select_branch(k, d)
        PROVE  Linked(t, x, c)
    <3>1. Append(x, c) \notin C
      <4> SUFFICES ASSUME Append(x, c) \in C PROVE FALSE
        OBVIOUS
      <4>1. /\ depth # 0 /\ x = Prefix(k, depth - 1)
            /\ c = select_branch(k, depth - 1)
        BY <2>2 DEF Grafted
      <4>2. d \in 0..Depth /\ depth - 1 \in 0..Depth
        BY <4>1
      <4>3. d = depth - 1
        BY <4>1, <4>2, PrefixSame
      <4> QED
        BY <2>5, <4>1, <4>3
    <3> HIDE DEF x
    <3> QED
      BY <1>4, <2>2, <2>3, <3>1
  <2> HIDE DEF x
  <2>6. OpenAt(t, x, select_branch(k, d))
    BY <2>3, <2>4, <2>5 DEF OpenAt, InnerAt
  <2> QED
    BY <2>4, <2>6 DEF x
<1>6. ASSUME NEW x \in DOMAIN u \ C, ~ OnPath(x, k, depth)
      PROVE  InnerAt(t, x) \/ LeafAt(t, x)
  <2>1. t[x] = u[x]
    BY DEF Grafted
  <2>2. CASE is_inner(u[x])
    <3>1. InnerAt(u, x)
      BY <2>2, WholeNode
    <3>2. ASSUME NEW c \in Branch
          PROVE  Linked(t, x, c)
      <4>1. Append(x, c) \notin C
        <5> SUFFICES ASSUME Append(x, c) \in C PROVE FALSE
          OBVIOUS
        <5>1. depth # 0 /\ x = Prefix(k, depth - 1)
          BY DEF Grafted
        <5>2. depth - 1 \in 0..(depth - 1)
          BY <5>1
        <5> QED
          BY <1>6, <5>1, <5>2 DEF OnPath
      <4> QED
        BY <1>4, <3>1, <4>1
    <3>3. x = << >> \/ \E b \in Branch : Append(x, b) \in DOMAIN t
      BY <3>1 DEF InnerAt, Grafted
    <3> QED
      BY <2>1, <3>1, <3>2, <3>3 DEF InnerAt
  <2>3. CASE ~ is_inner(u[x])
    <3>1. LeafAt(u, x)
      BY <2>3, WholeNode
    <3> QED
      BY <2>1, <3>1 DEF LeafAt
  <2> QED
    BY <2>2, <2>3
<1> QED
  BY <1>2, <1>3, <1>5, <1>6 DEF Kept

\* Hang puts a leaf below the inner node at depth end.
Hung(t, u, k, v, end) ==
  LET p == Prefix(k, end)
      q == Prefix(k, end + 1)
  IN  /\ Fcn(t)
      /\ DOMAIN t = DOMAIN u \cup {p, q}
      /\ q # p
      /\ t[q] = NewLeaf([index |-> k, data |-> v])
      /\ t[p] = set_child(u[p], Index(k), select_branch(k, end))
      /\ \A x \in DOMAIN u : x # p /\ x # q => t[x] = u[x]

LEMMA HangIs ==
  ASSUME NEW u, NEW k \in Key, NEW v, NEW end \in 0..(Depth - 1),
         Prefix(k, end) \in DOMAIN u
  PROVE  Hung(Hang(u, [index |-> k, data |-> v], end), u, k, v, end)
<1> DEFINE t == Hang(u, [index |-> k, data |-> v], end)
           p == Prefix(k, end)
           q == Prefix(k, end + 1)
           leaf == NewLeaf([index |-> k, data |-> v])
           parent == set_child(u[p], Index(k), select_branch(k, end))
<1>1. p # q
  <2>1. end \in 0..Depth /\ end + 1 \in 0..Depth /\ end # end + 1
    BY TreeAssumption
  <2> QED
    BY <2>1, PrefixSame
<1>2. leaf.hash = Index(k)
  BY NewLeafIs
<1>3. t = Put(Put(u, p, parent), q, leaf)
  BY <1>2 DEF Hang
<1> HIDE DEF p, q, leaf, parent, t
<1>4. Fcn(t) /\ DOMAIN t = DOMAIN u \cup {p, q} /\ t[q] = leaf /\ t[p] = parent
      /\ \A x \in DOMAIN u : x # p /\ x # q => t[x] = u[x]
  BY <1>1, <1>3 DEF Put, Fcn
<1> QED
  <2>1. Hung(t, u, k, v, end)
    BY <1>1, <1>4 DEF Hung, p, q, leaf, parent
  <2> QED
    BY <2>1 DEF t

\* add_given_item below an inner node.
LEMMA AddIsWhole ==
  ASSUME Whole(tree), NEW k \in Key, NEW v \in DataOf(k),
         NEW depth, depth = get_stack(k), is_inner(tree[Prefix(k, depth)]),
         NEW item, item = [index |-> k, data |-> v],
         NEW a, a = dirty_up(Hang(tree, item, depth), k, depth)
  PROVE  /\ Whole(a)
         /\ ~ Refused(tree, a, k, depth)
         /\ ItemsOf(a) = ItemsOf(tree) \cup {item}
<1> Depth \in Nat
  BY TreeAssumption
<1> DEFINE p == Prefix(k, depth)
           q == Prefix(k, depth + 1)
           b == select_branch(k, depth)
           t == Hang(tree, item, depth)
           C == {p, q}
<1>1. /\ depth \in 0..(Depth - 1) /\ depth \in 0..Depth
      /\ depth + 1 \in 0..Depth
      /\ p \in DOMAIN tree /\ q \notin DOMAIN tree
      /\ \A c \in 0..(depth - 1) : Prefix(k, c) \in DOMAIN tree
                                   /\ is_inner(tree[Prefix(k, c)])
  <2>1. /\ depth \in 0..(Depth - 1) /\ depth \in 0..Depth
        /\ p \in DOMAIN tree
        /\ \A c \in 0..(depth - 1) : Prefix(k, c) \in DOMAIN tree
                                     /\ is_inner(tree[Prefix(k, c)])
        /\ \A c \in (depth + 1)..Depth : Prefix(k, c) \notin DOMAIN tree
    BY Stack
  <2>2. depth + 1 \in (depth + 1)..Depth /\ depth + 1 \in 0..Depth
    BY <2>1
  <2> QED
    BY <2>1, <2>2
<1>2. b \in Branch /\ Append(p, b) = q /\ p \in Seq(Branch) /\ Len(p) = depth
  BY <1>1, PrefixNext, PrefixIs
<1>3. /\ Fcn(t)
      /\ DOMAIN t = DOMAIN tree \cup {p, q}
      /\ q # p
      /\ t[q] = NewLeaf([index |-> k, data |-> v])
      /\ t[p] = set_child(tree[p], Index(k), b)
      /\ \A x \in DOMAIN tree : x # p /\ x # q => t[x] = tree[x]
  <2>1. Hung(t, tree, k, v, depth)
    BY <1>1, HangIs
  <2> HIDE DEF t
  <2> QED
    BY <2>1 DEF Hung
<1>4. InnerAt(tree, p) /\ InnerNode(tree[p])
  BY <1>1, WholeNode
<1>5. LeafNode(t[q]) /\ t[q].item = item /\ t[q].hash = Index(k)
  BY <1>3, NewLeafIs
<1> HIDE DEF t, b
<1>6. /\ InnerNode(t[p])
      /\ t[p].children_hash[b] = Index(k)
      /\ \A c \in Branch : c # b =>
           t[p].children_hash[c] = tree[p].children_hash[c]
      /\ t[p].hash = update_hash(t[p])
  <2> DEFINE n == tree[p]
             s == t[p]
             h == Index(k)
  <2>1. InnerNode(n) /\ s = set_child(n, h, b)
    BY <1>3, <1>4
  <2> HIDE DEF n, s, h
  <2>2. /\ InnerNode(s)
        /\ s.children_hash[b] = h
        /\ \A c \in Branch : c # b => s.children_hash[c] = n.children_hash[c]
        /\ s.hash = update_hash(s)
    BY <1>2, <2>1, SetChildIs
  <2> QED
    BY <2>2 DEF n, s, h
<1>7. is_inner(t[p]) /\ ~ is_inner(t[q])
  BY <1>5, <1>6, NodeKinds
<1>8. Grafted(t, tree, k, depth, C)
  <2>1. ASSUME NEW x \in DOMAIN tree \ C, NEW c \in Branch, Append(x, c) \in C
        PROVE  /\ depth # 0 /\ x = Prefix(k, depth - 1)
               /\ c = select_branch(k, depth - 1)
    <3>1. x \in Seq(Branch)
      BY WholeNode
    <3>2. Append(x, c) # q
      <4>1. Append(x, c) = Append(p, b) => x = p
        <5> HIDE DEF p, q
        <5> QED
          BY <1>2, <3>1, ChildInjective
      <4> QED
        BY <1>2, <4>1
    <3>3. Append(x, c) = Prefix(k, depth)
      BY <2>1, <3>2
    <3> QED
      BY <1>1, <3>1, <3>3, PrefixChild, ZenonT(60)
  <2>2. ASSUME NEW d \in 0..(depth - 1)
        PROVE  Prefix(k, d) \notin C
    <3>1. d \in 0..Depth /\ d # depth /\ d # depth + 1
      BY <1>1
    <3> QED
      BY <1>1, <3>1, PrefixSame
  <2> HIDE DEF p, q
  <2> QED
    BY <1>1, <1>3, <1>7, <2>1, <2>2 DEF Grafted
<1>9. /\ << >> \in DOMAIN t /\ is_inner(t[<< >>])
      /\ \A d \in 0..(depth - 1) :
           /\ Prefix(k, d) \in DOMAIN t
           /\ t[Prefix(k, d)] = tree[Prefix(k, d)]
           /\ OpenAt(t, Prefix(k, d), select_branch(k, d))
      /\ \A x \in DOMAIN tree : Place(t, x)
      /\ \A x \in DOMAIN tree \ C :
           OnPath(x, k, depth) \/ InnerAt(t, x) \/ LeafAt(t, x)
  <2>1. Kept(t, tree, k, depth, C)
    <3> HIDE DEF C
    <3> QED
      BY <1>1, <1>8, GraftKeeps
  <2> QED
    BY <2>1 DEF Kept
<1>10. InnerAt(t, p)
  <2>1. Linked(t, p, b)
    BY <1>2, <1>3, <1>5, <1>6 DEF Linked
  <2>2. ASSUME NEW c \in Branch, c # b
        PROVE  Linked(t, p, c)
    <3>1. Append(p, c) # q
      <4>1. Append(p, c) = Append(p, b) => c = b
        BY <1>2, ChildInjective
      <4> QED
        BY <1>2, <2>2, <4>1
    <3>2. Append(p, c) # p
      BY <1>2
    <3>3. Linked(tree, p, c)
      BY <1>4 DEF InnerAt
    <3> HIDE DEF p, q
    <3> QED
      BY <1>3, <1>6, <2>2, <3>1, <3>2, <3>3 DEF Linked
  <2>3. Append(p, b) \in DOMAIN t
    BY <1>2, <1>3
  <2>4. Len(p) < Depth
    BY <1>1, <1>2
  <2> HIDE DEF p
  <2> QED
    BY <1>2, <1>6, <2>1, <2>2, <2>3, <2>4 DEF InnerAt
<1>11. Place(t, q)
  <2>1. ASSUME NEW c \in 0..((depth + 1) - 1)
        PROVE  Prefix(k, c) \in DOMAIN t /\ is_inner(t[Prefix(k, c)])
    <3>1. CASE c = depth
      BY <1>3, <1>7, <3>1
    <3>2. CASE c \in 0..(depth - 1)
      BY <1>1, <1>9, <3>2
    <3> QED
      BY <1>1, <3>1, <3>2
  <2> QED
    BY <1>1, <2>1 DEF Place
<1>12. LeafAt(t, q)
  <2>1. item.index = k /\ item.data = v
    OBVIOUS
  <2>2. q = Prefix(k, Len(q))
    BY <1>1, PrefixIs
  <2> HIDE DEF q
  <2> QED
    BY <1>5, <2>1, <2>2 DEF LeafAt
<1>13. WholeBut(t, k, depth)
  <2>1. \A d \in 0..depth : Prefix(k, d) \in DOMAIN t
    <3> SUFFICES ASSUME NEW d \in 0..depth PROVE Prefix(k, d) \in DOMAIN t
      OBVIOUS
    <3>1. d = depth \/ d \in 0..(depth - 1)
      BY <1>1
    <3> QED
      BY <1>3, <1>9, <3>1
  <2>2. ASSUME NEW x \in DOMAIN t
        PROVE  Place(t, x) /\ (OnPath(x, k, depth) \/ InnerAt(t, x) \/ LeafAt(t, x))
    <3> HIDE DEF p, q
    <3> QED
      BY <1>1, <1>3, <1>9, <1>10, <1>11, <1>12
  <2> QED
    BY <1>3, <1>9, <2>1, <2>2 DEF WholeBut
<1>14. Refreshed(a, t, k, 0, depth)
  <2>1. a = dirty_up(t, k, depth)
    BY DEF t
  <2>2. \A d \in 0..depth : Prefix(k, d) \in DOMAIN t
    BY <1>13 DEF WholeBut
  <2>3. t = [x \in DOMAIN t |-> t[x]]
    BY <1>3 DEF Fcn
  <2> QED
    BY <1>1, <2>1, <2>2, <2>3, DirtyUpRefreshes
<1>15. Whole(a) /\ DOMAIN a = DOMAIN t /\ ItemsOf(a) = ItemsOf(t)
  BY <1>1, <1>13, <1>14, Closes
<1>16. ItemsOf(t) = ItemsOf(tree) \cup {item}
  <2> HIDE DEF p, q
  <2> QED
    BY <1>1, <1>3, <1>5, <1>7 DEF ItemsOf, p
<1>17. a[p].hash # tree[p].hash
  <2>1. a[p] = t[p]
    <3>1. \A d \in 0..(depth - 1) : p # Prefix(k, d)
      BY <1>8 DEF Grafted
    <3>2. p \in DOMAIN t
      BY <1>3
    <3> HIDE DEF p
    <3> QED
      BY <1>14, <3>1, <3>2 DEF Refreshed
  <2>2. t[p].hash.children = t[p].children_hash
    BY <1>10, InnerHash
  <2>3. tree[p].hash.children = tree[p].children_hash
    BY <1>4, InnerHash
  <2>4. tree[p].children_hash[b] = Zero
    BY <1>1, <1>2, <1>4, ChildLink
  <2>5. Index(k) # Zero
    <3>1. Index(k).tag = "index" /\ Zero.tag = "zero"
      BY DEF Index, Zero
    <3> QED
      BY <3>1
  <2> HIDE DEF p
  <2> QED
    BY <1>6, <2>1, <2>2, <2>3, <2>4, <2>5
<1>18. \A d \in 0..(depth - 1) :
         a[Prefix(k, d)] = set_child(tree[Prefix(k, d)],
                                     a[Prefix(k, d + 1)].hash,
                                     select_branch(k, d))
  BY <1>9, <1>14 DEF Refreshed
<1>19. \A d \in 0..depth : a[Prefix(k, d)].hash # tree[Prefix(k, d)].hash
  BY <1>1, <1>17, <1>18, AllChange
<1> QED
  BY <1>15, <1>16, <1>19 DEF Refused

\* update_given_item.
LEMMA UpdateIsWhole ==
  ASSUME Whole(tree), NEW k \in Key, NEW v \in Data, ~ is_transaction_tree,
         walk_to_leaf(k) # {},
         NEW depth, depth = get_stack(k), NEW p, p = Prefix(k, depth),
         NEW leaf, leaf = Hashed([tree[p] EXCEPT !.item.data = v]),
         NEW t, t = Put(tree, p, leaf),
         NEW a, a = dirty_up(t, k, depth)
  PROVE  /\ p \in DOMAIN tree /\ ~ is_inner(tree[p]) /\ tree[p].item.index = k
         /\ ItemsOf(t) = (ItemsOf(tree) \ {tree[p].item})
                           \cup {[index |-> k, data |-> v]}
         /\ leaf.hash = tree[p].hash => t = tree
         /\ leaf.hash # tree[p].hash =>
              /\ Whole(a)
              /\ ~ Refused(tree, a, k, depth - 1)
              /\ ItemsOf(a) = ItemsOf(t)
<1> Depth \in Nat
  BY TreeAssumption
<1>1. /\ depth \in 0..Depth
      /\ p \in DOMAIN tree
      /\ \A c \in 0..(depth - 1) : Prefix(k, c) \in DOMAIN tree
                                   /\ is_inner(tree[Prefix(k, c)])
  BY Stack
<1>2. ~ is_inner(tree[p]) /\ tree[p].item.index = k
  BY DEF walk_to_leaf
<1>3. LeafAt(tree, p) /\ LeafNode(tree[p])
  BY <1>1, <1>2, WholeNode
<1>4. /\ LeafNode(leaf)
      /\ leaf.item = [index |-> k, data |-> v]
      /\ leaf.flag = tree[p].flag
      /\ leaf.hash = [tag |-> "acleaf", data |-> v, index |-> k]
  <2> DEFINE n == tree[p]
  <2>1. LeafNode(n) /\ n.item.index = k
    BY <1>2, <1>3
  <2> HIDE DEF n
  <2>2. leaf = Hashed([n EXCEPT !.item.data = v])
    BY DEF n
  <2>3. /\ LeafNode(leaf)
        /\ leaf.item = [index |-> n.item.index, data |-> v]
        /\ leaf.flag = n.flag
        /\ leaf.hash = [tag |-> "acleaf", data |-> v, index |-> n.item.index]
    BY <2>1, <2>2, UpdatedLeafIs
  <2> QED
    BY <2>1, <2>3 DEF n
<1>5. leaf.item.index = k /\ leaf.item.data = v /\ leaf.hash = Digest(leaf.item)
  BY <1>4 DEF Digest
<1>6. /\ Fcn(t) /\ DOMAIN t = DOMAIN tree /\ t[p] = leaf
      /\ \A x \in DOMAIN tree : x # p => t[x] = tree[x]
  BY <1>1 DEF Put, Fcn
<1>7. ~ is_inner(t[p])
  BY <1>4, <1>6, NodeKinds
<1>8. ItemsOf(t) = (ItemsOf(tree) \ {tree[p].item})
                     \cup {[index |-> k, data |-> v]}
  <2> DEFINE new == [index |-> k, data |-> v]
             old == tree[p].item
  <2>1. ASSUME NEW x \in DOMAIN tree, ~ is_inner(tree[x]), x # p
        PROVE  tree[x].item # old
    BY <1>1, <1>2, <2>1, LeafAlone
  <2>2. leaf.item = new
    BY <1>4
  <2>3. \A x \in DOMAIN t : is_inner(t[x]) <=> is_inner(tree[x])
    BY <1>2, <1>6, <1>7
  <2> HIDE DEF new, old
  <2>4. ItemsOf(t) \subseteq (ItemsOf(tree) \ {old}) \cup {new}
    BY <1>6, <2>1, <2>2, <2>3 DEF ItemsOf
  <2>5. new \in ItemsOf(t)
    BY <1>1, <1>6, <1>7, <2>2 DEF ItemsOf
  <2>6. ASSUME NEW i \in ItemsOf(tree), i # old
        PROVE  i \in ItemsOf(t)
    <3>1. PICK x \in DOMAIN tree : ~ is_inner(tree[x]) /\ i = tree[x].item
      BY DEF ItemsOf
    <3>2. x # p
      BY <2>6, <3>1 DEF old
    <3> QED
      BY <1>6, <2>3, <3>1, <3>2 DEF ItemsOf
  <2>7. ItemsOf(t) = (ItemsOf(tree) \ {old}) \cup {new}
    BY <2>4, <2>5, <2>6
  <2> QED
    BY <2>7 DEF new, old
<1>9. ASSUME leaf.hash = tree[p].hash
      PROVE  t = tree
  <2> DEFINE n == tree[p]
  <2>1. n.hash \in {Index(n.item.index), Digest(n.item)} /\ LeafNode(n)
        /\ n.item.index = k
    BY <1>2, <1>3 DEF LeafAt
  <2> HIDE DEF n
  <2>2. leaf.hash = n.hash /\ leaf.flag = n.flag
    BY <1>4, <1>9 DEF n
  <2>3. leaf.hash.tag = "acleaf" /\ leaf.hash.data = v
    BY <1>4
  <2>4. Index(n.item.index).tag = "index" /\ Digest(n.item).data = n.item.data
    BY DEF Index, Digest
  <2>5. n.item.data = v
    BY <2>1, <2>2, <2>3, <2>4
  <2>6. leaf = n
    <3>1. leaf = [type |-> "leaf", flag |-> n.flag,
                  item |-> [index |-> k, data |-> v], hash |-> n.hash]
      BY <1>4, <1>5, <2>2 DEF LeafNode
    <3>2. n = [type |-> "leaf", flag |-> n.flag,
               item |-> [index |-> k, data |-> v], hash |-> n.hash]
      BY <2>1, <2>5 DEF LeafNode
    <3> QED
      BY <3>1, <3>2
  <2>7. \A x \in DOMAIN tree : t[x] = tree[x]
    BY <1>6, <2>6 DEF n
  <2>8. Fcn(tree)
    BY DEF Whole
  <2> QED
    BY <1>6, <2>7, <2>8 DEF Fcn
<1>10. ASSUME leaf.hash # tree[p].hash
       PROVE  /\ Whole(a)
              /\ ~ Refused(tree, a, k, depth - 1)
              /\ ItemsOf(a) = ItemsOf(t)
  <2> DEFINE C == {p}
  <2>1. Grafted(t, tree, k, depth, C)
    <3>1. ASSUME NEW x \in DOMAIN tree \ C, NEW c \in Branch, Append(x, c) \in C
          PROVE  /\ depth # 0 /\ x = Prefix(k, depth - 1)
                 /\ c = select_branch(k, depth - 1)
      <4>1. x \in Seq(Branch) /\ Append(x, c) = Prefix(k, depth)
        BY <3>1, WholeNode
      <4> QED
        BY <1>1, <4>1, PrefixChild
    <3>2. ASSUME NEW d \in 0..(depth - 1)
          PROVE  Prefix(k, d) \notin C
      <4>1. d \in 0..Depth /\ d # depth
        BY <1>1
      <4> QED
        BY <1>1, <4>1, PrefixSame
    <3> QED
      BY <1>1, <1>2, <1>6, <3>1, <3>2 DEF Grafted
  <2>2. /\ << >> \in DOMAIN t /\ is_inner(t[<< >>])
        /\ \A d \in 0..(depth - 1) :
             /\ Prefix(k, d) \in DOMAIN t
             /\ t[Prefix(k, d)] = tree[Prefix(k, d)]
             /\ OpenAt(t, Prefix(k, d), select_branch(k, d))
        /\ \A x \in DOMAIN tree : Place(t, x)
        /\ \A x \in DOMAIN tree \ C :
             OnPath(x, k, depth) \/ InnerAt(t, x) \/ LeafAt(t, x)
    <3>1. Prefix(k, depth) \in DOMAIN tree
      BY <1>1
    <3>2. Kept(t, tree, k, depth, C)
      <4> HIDE DEF C
      <4> QED
        BY <1>1, <2>1, <3>1, GraftKeeps
    <3> QED
      BY <3>2 DEF Kept
  <2>3. LeafAt(t, p)
    <3>1. p = Prefix(k, Len(p))
      BY <1>2, <1>3 DEF LeafAt
    <3>2. v \in DataOf(k)
      BY DEF DataOf
    <3> QED
      BY <1>4, <1>5, <1>6, <3>1, <3>2 DEF LeafAt
  <2>4. WholeBut(t, k, depth)
    <3>1. \A d \in 0..depth : Prefix(k, d) \in DOMAIN t
      <4> SUFFICES ASSUME NEW d \in 0..depth PROVE Prefix(k, d) \in DOMAIN t
        OBVIOUS
      <4>1. d = depth \/ d \in 0..(depth - 1)
        BY <1>1
      <4> QED
        BY <1>1, <1>6, <2>2, <4>1
    <3>2. ASSUME NEW x \in DOMAIN t
          PROVE  /\ Place(t, x)
                 /\ OnPath(x, k, depth) \/ InnerAt(t, x) \/ LeafAt(t, x)
      BY <1>6, <2>2, <2>3
    <3> QED
      BY <1>6, <2>2, <3>1, <3>2 DEF WholeBut
  <2>5. Refreshed(a, t, k, 0, depth)
    <3>1. \A d \in 0..depth : Prefix(k, d) \in DOMAIN t
      BY <2>4 DEF WholeBut
    <3>2. t = [x \in DOMAIN t |-> t[x]]
      BY <1>6 DEF Fcn
    <3> QED
      BY <1>1, <3>1, <3>2, DirtyUpRefreshes
  <2>6. Whole(a) /\ DOMAIN a = DOMAIN t /\ ItemsOf(a) = ItemsOf(t)
    BY <1>1, <2>4, <2>5, Closes
  <2>7. a[p] = leaf
    <3>1. \A d \in 0..(depth - 1) : p # Prefix(k, d)
      BY <2>1 DEF Grafted
    <3> QED
      BY <1>1, <1>6, <2>5, <3>1 DEF Refreshed
  <2>8. \A d \in 0..(depth - 1) :
          a[Prefix(k, d)] = set_child(tree[Prefix(k, d)],
                                      a[Prefix(k, d + 1)].hash,
                                      select_branch(k, d))
    BY <2>2, <2>5 DEF Refreshed
  <2>9. \A d \in 0..depth : a[Prefix(k, d)].hash # tree[Prefix(k, d)].hash
    <3>1. /\ Prefix(k, depth) \in DOMAIN tree
          /\ a[Prefix(k, depth)].hash # tree[Prefix(k, depth)].hash
      BY <1>1, <1>10, <2>7
    <3> QED
      BY <1>1, <2>8, <3>1, AllChange, SMTT(60)
  <2>10. \A d \in 0..(depth - 1) : d \in 0..depth
    BY <1>1
  <2> QED
    BY <2>6, <2>9, <2>10 DEF Refused
<1> QED
  BY <1>1, <1>2, <1>8, <1>9, <1>10

\* Where two indices part.
LEMMA DivergeIs ==
  ASSUME NEW j \in Key, NEW k \in Key, j # k, NEW depth \in 0..Depth,
         Prefix(k, depth) = Prefix(j, depth),
         NEW end, end = Diverge(k, j, depth)
  PROVE  /\ end \in depth..(Depth - 1)
         /\ select_branch(k, end) # select_branch(j, end)
         /\ \A d \in 0..end : Prefix(k, d) = Prefix(j, d)
<1> Depth \in Nat
  BY TreeAssumption
<1> DEFINE S == {d \in depth..(Depth - 1) :
                   select_branch(k, d) # select_branch(j, d)}
<1>1. \A i \in 1..depth : k[i] = j[i]
  BY PrefixSame
<1>2. \E i \in 1..Depth : k[i] # j[i]
  <2>1. j \in [1..Depth -> Branch] /\ k \in [1..Depth -> Branch]
    BY KeyIsSeq
  <2> QED
    BY <2>1
<1>3. S # {}
  <2>1. PICK i \in 1..Depth : k[i] # j[i]
    BY <1>2
  <2>2. ~ (i \in 1..depth)
    BY <1>1, <2>1
  <2>3. i - 1 \in depth..(Depth - 1) /\ (i - 1) + 1 = i
    BY <2>2
  <2> QED
    BY <2>1, <2>3 DEF select_branch
<1>4. end \in S /\ \A y \in S : end <= y
  <2>1. S \subseteq Nat /\ end = Min(S)
    BY DEF Diverge
  <2> HIDE DEF S
  <2> QED
    BY <1>3, <2>1, MinIs
<1>5. ASSUME NEW i \in 1..end
      PROVE  k[i] = j[i]
  <2>1. CASE i \in 1..depth
    BY <1>1, <2>1
  <2>2. CASE ~ (i \in 1..depth)
    <3>1. i - 1 \in depth..(Depth - 1) /\ (i - 1) + 1 = i /\ ~ (end <= i - 1)
      BY <1>4, <2>2
    <3>2. i - 1 \notin S
      BY <1>4, <3>1
    <3> QED
      BY <3>1, <3>2 DEF select_branch
  <2> QED
    BY <2>1, <2>2
<1>6. ASSUME NEW d \in 0..end
      PROVE  Prefix(k, d) = Prefix(j, d)
  <2>1. d \in 0..Depth /\ \A i \in 1..d : i \in 1..end
    BY <1>4
  <2> QED
    BY <1>5, <2>1, SamePrefix
<1> QED
  BY <1>4, <1>6

\* Below a leaf there is nothing.
LEMMA NothingBelow ==
  ASSUME NEW t, Whole(t), NEW k \in Key, NEW depth \in 0..Depth,
         Prefix(k, depth) \in DOMAIN t, ~ is_inner(t[Prefix(k, depth)]),
         NEW d \in depth..Depth, NEW c \in Branch
  PROVE  Append(Prefix(k, d), c) \notin DOMAIN t
<1> Depth \in Nat
  BY TreeAssumption
<1> DEFINE p == Prefix(k, d)
           x == Append(p, c)
<1> SUFFICES ASSUME x \in DOMAIN t PROVE FALSE
  OBVIOUS
<1>1. d \in 0..Depth /\ p \in Seq(Branch) /\ Len(p) = d
  BY PrefixIs
<1>2. Len(x) = d + 1 /\ Len(x) \in 0..Depth
  <2> HIDE DEF p
  <2>1. Len(x) = d + 1
    BY <1>1
  <2> HIDE DEF x
  <2> QED
    BY <2>1, WholeNode
<1>3. PICK i \in Key : x = Prefix(i, d + 1)
  <2>1. \E i \in Key : x = Prefix(i, Len(x))
    <3> HIDE DEF x
    <3> QED
      BY WholeNode
  <2> HIDE DEF x
  <2> QED
    BY <1>2, <2>1
<1>4. p = Prefix(i, d)
  <2>1. d + 1 \in 0..Depth /\ (d + 1) - 1 = d
    BY <1>2
  <2> DEFINE f == d + 1
  <2>2. f \in 0..Depth /\ Append(p, c) = Prefix(i, f) /\ f - 1 = d
    BY <1>3, <2>1
  <2> HIDE DEF f, p
  <2>3. p = Prefix(i, f - 1)
    BY <1>1, <2>2, PrefixChild
  <2> QED
    BY <2>2, <2>3
<1>5. Prefix(i, depth) = Prefix(k, depth)
  <2>1. depth \in 0..d
    BY <1>1
  <2> QED
    BY <1>1, <1>4, <2>1, PrefixShorter
<1>6. is_inner(t[Prefix(i, depth)])
  <2> DEFINE f == d + 1
  <2>1. f \in 0..Depth /\ Prefix(i, f) \in DOMAIN t /\ depth \in 0..(f - 1)
    BY <1>1, <1>2, <1>3
  <2> HIDE DEF f
  <2> QED
    BY <2>1, Ancestors
<1> QED
  BY <1>5, <1>6

\* The inner nodes that add_given_item makes, with nothing below them yet.
Chained(u, k, depth, end) ==
  /\ Fcn(u)
  /\ DOMAIN u = DOMAIN tree \cup {Prefix(k, d) : d \in depth..end}
  /\ \A d \in depth..end :
       /\ InnerNode(u[Prefix(k, d)])
       /\ u[Prefix(k, d)].hash = Zero
       /\ \A c \in Branch : u[Prefix(k, d)].children_hash[c] = Zero
  /\ \A x \in DOMAIN tree : x # Prefix(k, depth) => u[x] = tree[x]

LEMMA ChainIs ==
  ASSUME Whole(tree), NEW k \in Key, NEW depth, depth = get_stack(k),
         NEW end \in depth..(Depth - 1)
  PROVE  Chained(Chain(k, depth, end), k, depth, end)
<1> Depth \in Nat
  BY TreeAssumption
<1> DEFINE u == Chain(k, depth, end)
           P == {Prefix(k, d) : d \in depth..end}
<1>1. /\ depth \in 0..Depth
      /\ \A c \in (depth + 1)..Depth : Prefix(k, c) \notin DOMAIN tree
  BY Stack
<1>2. /\ Fcn(u) /\ DOMAIN u = DOMAIN tree \cup P
      /\ \A x \in DOMAIN tree \cup P :
           u[x] = IF Len(x) = depth /\ x = Prefix(k, depth)
                  THEN MadeInner(tree[x].flag)
                  ELSE IF x \in DOMAIN tree THEN tree[x]
                  ELSE MadeInner(FALSE)
  <2> HIDE DEF P
  <2> QED
    BY DEF Chain, Fcn, P
<1> HIDE DEF u
<1>3. ASSUME NEW d \in depth..end
      PROVE  \E flag : u[Prefix(k, d)] = MadeInner(flag)
  <2>1. d \in 0..Depth
    BY <1>1
  <2>2. Prefix(k, d) \in P /\ Len(Prefix(k, d)) = d
    BY <2>1, PrefixIs
  <2>3. CASE d = depth
    BY <1>2, <2>2, <2>3
  <2>4. CASE d # depth
    <3>1. d \in (depth + 1)..Depth
      BY <1>1, <2>4
    <3>2. Prefix(k, d) \notin DOMAIN tree
      BY <1>1, <3>1
    <3> QED
      BY <1>2, <2>2, <2>4, <3>2
  <2> QED
    BY <2>3, <2>4
<1>4. ASSUME NEW d \in depth..end
      PROVE  /\ InnerNode(u[Prefix(k, d)])
             /\ u[Prefix(k, d)].hash = Zero
             /\ \A c \in Branch : u[Prefix(k, d)].children_hash[c] = Zero
  <2>1. PICK flag : u[Prefix(k, d)] = MadeInner(flag)
    BY <1>3
  <2> DEFINE m == MadeInner(flag)
  <2>2. InnerNode(m) /\ m.hash = Zero
        /\ \A c \in Branch : m.children_hash[c] = Zero
    BY MadeInnerIs
  <2> HIDE DEF m
  <2>3. u[Prefix(k, d)] = m
    BY <2>1 DEF m
  <2> QED
    BY <2>2, <2>3
<1>5. \A x \in DOMAIN tree : x # Prefix(k, depth) => u[x] = tree[x]
  BY <1>2
<1>6. Chained(u, k, depth, end)
  BY <1>2, <1>4, <1>5 DEF Chained
<1> QED
  BY <1>6 DEF u

\* add_given_item in place of another leaf.  First the tree that dirty_up
\* starts from,
Split(t, u, k, j, v, w, end) ==
  LET z == Prefix(k, end)
      x == Prefix(k, end + 1)
      y == Prefix(j, end + 1)
  IN  /\ Fcn(t)
      /\ DOMAIN t = DOMAIN u \cup {x, y}
      /\ x # y /\ x # z /\ y # z
      /\ t[x] = NewLeaf([index |-> k, data |-> v])
      /\ t[y] = NewLeaf([index |-> j, data |-> w])
      /\ \A p \in DOMAIN u : p \notin {x, y, z} => t[p] = u[p]
      /\ InnerNode(t[z])
      /\ t[z].hash = update_hash(t[z])
      /\ t[z].children_hash[select_branch(k, end)] = Index(k)
      /\ t[z].children_hash[select_branch(j, end)] = Index(j)
      /\ \A c \in Branch \ {select_branch(k, end), select_branch(j, end)} :
           t[z].children_hash[c] = u[z].children_hash[c]

LEMMA SplitIs ==
  ASSUME NEW u, NEW k \in Key, NEW j \in Key, NEW v, NEW w,
         NEW end \in 0..(Depth - 1),
         select_branch(k, end) # select_branch(j, end),
         Prefix(k, end) = Prefix(j, end),
         Prefix(k, end) \in DOMAIN u, InnerNode(u[Prefix(k, end)])
  PROVE  Split(Hang(Hang(u, [index |-> k, data |-> v], end),
                    [index |-> j, data |-> w], end), u, k, j, v, w, end)
<1> Depth \in Nat
  BY TreeAssumption
<1> DEFINE t1 == Hang(u, [index |-> k, data |-> v], end)
           t2 == Hang(t1, [index |-> j, data |-> w], end)
           z == Prefix(k, end)
           x == Prefix(k, end + 1)
           y == Prefix(j, end + 1)
           bk == select_branch(k, end)
           bj == select_branch(j, end)
<1>1. /\ Fcn(t1)
      /\ DOMAIN t1 = DOMAIN u \cup {z, x}
      /\ x # z
      /\ t1[x] = NewLeaf([index |-> k, data |-> v])
      /\ t1[z] = set_child(u[z], Index(k), bk)
      /\ \A p \in DOMAIN u : p # z /\ p # x => t1[p] = u[p]
  <2>1. Hung(t1, u, k, v, end)
    BY HangIs
  <2> HIDE DEF t1
  <2> QED
    BY <2>1 DEF Hung
<1> HIDE DEF t1
<1>2. /\ Fcn(t2)
      /\ DOMAIN t2 = DOMAIN t1 \cup {z, y}
      /\ y # z
      /\ t2[y] = NewLeaf([index |-> j, data |-> w])
      /\ t2[z] = set_child(t1[z], Index(j), bj)
      /\ \A p \in DOMAIN t1 : p # z /\ p # y => t2[p] = t1[p]
  <2>1. Prefix(j, end) \in DOMAIN t1
    BY <1>1
  <2>2. Hung(t2, t1, j, w, end)
    BY <2>1, HangIs
  <2> HIDE DEF t2
  <2> QED
    BY <2>2 DEF Hung
<1> HIDE DEF t2
<1>3. bk \in Branch /\ bj \in Branch /\ bk # bj /\ Append(z, bk) = x
      /\ Append(z, bj) = y /\ z \in Seq(Branch)
  <2>1. bk \in Branch /\ Append(z, bk) = x
    BY PrefixNext
  <2>2. bj \in Branch /\ Append(Prefix(j, end), bj) = y
    BY PrefixNext
  <2>3. end \in 0..Depth
    OBVIOUS
  <2>4. z \in Seq(Branch)
    BY <2>3, PrefixIs
  <2> QED
    BY <2>1, <2>2, <2>4
<1>4. x # y
  <2> HIDE DEF z, bk, bj
  <2>1. Append(z, bk) # Append(z, bj)
    BY <1>3, ChildInjective
  <2> QED
    BY <1>3, <2>1
<1>5. InnerNode(u[z]) /\ z \in DOMAIN u
  OBVIOUS
<1> HIDE DEF z, x, y, bk, bj
<1>6. /\ InnerNode(t1[z])
      /\ t1[z].children_hash[bk] = Index(k)
      /\ \A c \in Branch : c # bk =>
           t1[z].children_hash[c] = u[z].children_hash[c]
  <2> DEFINE n == u[z]
             s == t1[z]
             h == Index(k)
  <2>1. InnerNode(n) /\ s = set_child(n, h, bk)
    BY <1>1, <1>5
  <2> HIDE DEF n, s, h
  <2>2. /\ InnerNode(s) /\ s.children_hash[bk] = h
        /\ \A c \in Branch : c # bk => s.children_hash[c] = n.children_hash[c]
    BY <1>3, <2>1, SetChildIs
  <2> QED
    BY <2>2 DEF n, s, h
<1>7. /\ InnerNode(t2[z])
      /\ t2[z].hash = update_hash(t2[z])
      /\ t2[z].children_hash[bj] = Index(j)
      /\ \A c \in Branch : c # bj =>
           t2[z].children_hash[c] = t1[z].children_hash[c]
  <2> DEFINE n == t1[z]
             s == t2[z]
             h == Index(j)
  <2>1. InnerNode(n) /\ s = set_child(n, h, bj)
    BY <1>2, <1>6
  <2> HIDE DEF n, s, h
  <2>2. /\ InnerNode(s) /\ s.children_hash[bj] = h
        /\ s.hash = update_hash(s)
        /\ \A c \in Branch : c # bj => s.children_hash[c] = n.children_hash[c]
    BY <1>3, <2>1, SetChildIs
  <2> QED
    BY <2>2 DEF n, s, h
<1>8. DOMAIN t2 = DOMAIN u \cup {x, y}
  BY <1>1, <1>2, <1>5
<1>9. t2[x] = NewLeaf([index |-> k, data |-> v])
  BY <1>1, <1>2, <1>4
<1>10. \A p \in DOMAIN u : p \notin {x, y, z} => t2[p] = u[p]
  BY <1>1, <1>2
<1>11. /\ t2[z].children_hash[bk] = Index(k)
       /\ \A c \in Branch \ {bk, bj} :
            t2[z].children_hash[c] = u[z].children_hash[c]
  BY <1>3, <1>6, <1>7
<1>12. Split(t2, u, k, j, v, w, end)
  BY <1>1, <1>2, <1>4, <1>7, <1>8, <1>9, <1>10, <1>11
  DEF Split, z, x, y, bk, bj
<1> QED
  BY <1>12 DEF t2, t1

\* and then what dirty_up makes of it.
LEMMA SplitIsWhole ==
  ASSUME Whole(tree), NEW k \in Key, NEW v \in DataOf(k),
         NEW depth, depth = get_stack(k), ~ is_inner(tree[Prefix(k, depth)]),
         NEW other, other = tree[Prefix(k, depth)].item, other.index # k,
         NEW end, end = Diverge(k, other.index, depth),
         NEW item, item = [index |-> k, data |-> v],
         NEW chain, chain = Chain(k, depth, end),
         NEW a, a = dirty_up(Hang(Hang(chain, item, end), other, end), k, end)
  PROVE  /\ Whole(a)
         /\ ~ Refused(chain, a, k, end)
         /\ ItemsOf(a) = ItemsOf(tree) \cup {item}
<1> Depth \in Nat
  BY TreeAssumption
<1> DEFINE j == other.index
           w == other.data
           t == Hang(Hang(chain, item, end), other, end)
           r == Prefix(k, depth)
           z == Prefix(k, end)
           x == Prefix(k, end + 1)
           y == Prefix(j, end + 1)
           P == {Prefix(k, d) : d \in depth..end}
           C == P \cup {x, y}
<1>1. /\ depth \in 0..Depth
      /\ r \in DOMAIN tree
      /\ \A c \in 0..(depth - 1) : Prefix(k, c) \in DOMAIN tree
                                   /\ is_inner(tree[Prefix(k, c)])
      /\ \A c \in (depth + 1)..Depth : Prefix(k, c) \notin DOMAIN tree
  BY Stack
<1>2. LeafAt(tree, r) /\ LeafNode(tree[r]) /\ Len(r) = depth
  BY <1>1, WholeNode, PrefixIs
<1>3. /\ j \in Key /\ w \in DataOf(j) /\ r = Prefix(j, depth)
      /\ other = [index |-> j, data |-> w]
  BY <1>2 DEF LeafAt, LeafNode
<1>4. /\ end \in depth..(Depth - 1)
      /\ select_branch(k, end) # select_branch(j, end)
      /\ \A d \in 0..end : Prefix(k, d) = Prefix(j, d)
  <2>1. /\ j \in Key /\ j # k /\ Prefix(k, depth) = Prefix(j, depth)
        /\ end = Diverge(k, j, depth)
    BY <1>3
  <2> HIDE DEF j
  <2> QED
    BY <1>1, <2>1, DivergeIs
<1>5. /\ end \in 0..(Depth - 1) /\ end \in 0..Depth /\ end + 1 \in 0..Depth
      /\ end \in 0..end /\ end \in depth..end /\ depth \in depth..end
  BY <1>1, <1>4
<1>6. /\ Fcn(chain)
      /\ DOMAIN chain = DOMAIN tree \cup P
      /\ \A d \in depth..end :
           /\ InnerNode(chain[Prefix(k, d)])
           /\ chain[Prefix(k, d)].hash = Zero
           /\ \A c \in Branch : chain[Prefix(k, d)].children_hash[c] = Zero
      /\ \A p \in DOMAIN tree : p # r => chain[p] = tree[p]
  <2>1. Chained(chain, k, depth, end)
    BY <1>4, ChainIs
  <2> QED
    BY <2>1 DEF Chained
<1>zero. ASSUME NEW d \in depth..end, NEW c \in Branch
         PROVE  chain[Prefix(k, d)].children_hash[c] = Zero
  <2> HIDE DEF P, C, r, z, x, y
  <2> QED
    BY <1>6
<1>7. Split(t, chain, k, j, v, w, end)
  <2>1. Prefix(k, end) = Prefix(j, end) /\ Prefix(k, end) \in DOMAIN chain
        /\ InnerNode(chain[Prefix(k, end)])
    BY <1>4, <1>5, <1>6
  <2>2. t = Hang(Hang(chain, [index |-> k, data |-> v], end),
                 [index |-> j, data |-> w], end)
    BY <1>3
  <2>3. Split(Hang(Hang(chain, [index |-> k, data |-> v], end),
                   [index |-> j, data |-> w], end), chain, k, j, v, w, end)
    <3> HIDE DEF j, w
    <3> QED
      BY <1>3, <1>4, <1>5, <2>1, SplitIs
  <2> HIDE DEF t
  <2> QED
    BY <2>2, <2>3
<1>8. a = dirty_up(t, k, end)
  OBVIOUS
<1> HIDE DEF t, j, w
<1>9. /\ Fcn(t)
      /\ DOMAIN t = DOMAIN chain \cup {x, y}
      /\ x # y /\ x # z /\ y # z
      /\ t[x] = NewLeaf([index |-> k, data |-> v])
      /\ t[y] = NewLeaf([index |-> j, data |-> w])
      /\ \A p \in DOMAIN chain : p \notin {x, y, z} => t[p] = chain[p]
      /\ InnerNode(t[z])
      /\ t[z].hash = update_hash(t[z])
      /\ t[z].children_hash[select_branch(k, end)] = Index(k)
      /\ t[z].children_hash[select_branch(j, end)] = Index(j)
      /\ \A c \in Branch \ {select_branch(k, end), select_branch(j, end)} :
           t[z].children_hash[c] = chain[z].children_hash[c]
  BY <1>7 DEF Split
<1>10. /\ select_branch(k, end) \in Branch /\ select_branch(j, end) \in Branch
       /\ x = Append(z, select_branch(k, end))
       /\ y = Append(z, select_branch(j, end))
       /\ z \in Seq(Branch) /\ Len(z) = end
  <2>1. z = Prefix(j, end)
    BY <1>4, <1>5
  <2>2. select_branch(k, end) \in Branch /\ x = Append(z, select_branch(k, end))
    BY <1>5, PrefixNext
  <2>3. /\ select_branch(j, end) \in Branch
        /\ y = Append(Prefix(j, end), select_branch(j, end))
    BY <1>3, <1>5, PrefixNext
  <2>4. z \in Seq(Branch) /\ Len(z) = end
    BY <1>5, PrefixIs
  <2> HIDE DEF z, x, y
  <2> QED
    BY <2>1, <2>2, <2>3, <2>4
\* Nothing was below the leaf.
<1>11. ASSUME NEW d \in depth..end, NEW c \in Branch
       PROVE  Append(Prefix(k, d), c) \notin DOMAIN tree
  <2>1. d \in depth..Depth
    BY <1>5
  <2> QED
    BY <1>1, <2>1, NothingBelow
<1>12. x \notin DOMAIN tree /\ y \notin DOMAIN tree
  BY <1>5, <1>10, <1>11
<1>13. /\ LeafNode(t[x]) /\ t[x].item = item /\ t[x].hash = Index(k)
       /\ LeafNode(t[y]) /\ t[y].item = other /\ t[y].hash = Index(j)
  <2> DEFINE m == NewLeaf([index |-> k, data |-> v])
             n == NewLeaf([index |-> j, data |-> w])
  <2>1. LeafNode(m) /\ m.item = [index |-> k, data |-> v] /\ m.hash = Index(k)
    BY NewLeafIs
  <2>2. LeafNode(n) /\ n.item = [index |-> j, data |-> w] /\ n.hash = Index(j)
    BY NewLeafIs
  <2> HIDE DEF m, n, x, y
  <2>3. t[x] = m /\ t[y] = n
    BY <1>9 DEF m, n
  <2> QED
    BY <1>3, <2>1, <2>2, <2>3
<1>14. DOMAIN t = DOMAIN tree \cup C
  BY <1>6, <1>9
\* Prefixes on the path, told apart by their lengths.
<1>15. ASSUME NEW c \in 0..end, NEW d \in 0..end, Prefix(k, c) = Prefix(k, d)
       PROVE  c = d
  <2>1. c \in 0..Depth /\ d \in 0..Depth
    BY <1>5
  <2> QED
    BY <1>15, <2>1, PrefixSame
<1>16. ASSUME NEW d \in 0..end
       PROVE  Prefix(k, d) # x /\ Prefix(k, d) # y
  <2>1. d \in 0..Depth /\ d # end + 1
    BY <1>5
  <2> QED
    BY <1>3, <1>5, <2>1, PrefixSame
<1>17. ASSUME NEW d \in depth..(end - 1)
       PROVE  t[Prefix(k, d)] = chain[Prefix(k, d)]
  <2>1. d \in 0..end /\ d # end /\ d \in depth..end
    BY <1>1, <1>5
  <2>2. Prefix(k, d) \notin {x, y, z}
    BY <1>5, <1>15, <1>16, <2>1
  <2>3. Prefix(k, d) \in DOMAIN chain
    BY <1>6, <2>1
  <2> QED
    BY <1>9, <2>2, <2>3
<1>18. ASSUME NEW d \in depth..end
       PROVE  InnerNode(t[Prefix(k, d)])
  <2>1. d = end \/ d \in depth..(end - 1)
    BY <1>1, <1>4
  <2> QED
    BY <1>6, <1>9, <1>17, <2>1
<1>19. ASSUME NEW p \in DOMAIN tree, p \notin C
       PROVE  t[p] = tree[p]
  <2>1. p \notin {x, y, z} /\ p # r
    BY <1>5, <1>19
  <2> HIDE DEF x, y, z, r, P
  <2>2. p \in DOMAIN chain /\ chain[p] = tree[p]
    BY <1>6, <2>1
  <2> QED
    BY <1>9, <2>1, <2>2
<1>20. Grafted(t, tree, k, depth, C)
  <2>1. ASSUME NEW p \in DOMAIN tree \ C, NEW c \in Branch, Append(p, c) \in C
        PROVE  /\ depth # 0 /\ p = Prefix(k, depth - 1)
               /\ c = select_branch(k, depth - 1)
    <3>1. p \in Seq(Branch)
      BY WholeNode
    <3>2. Append(p, c) # x /\ Append(p, c) # y
      <4>1. z \in C
        BY <1>5
      <4> HIDE DEF z, x, y, C
      <4>2. \A c1 \in Branch : Append(p, c) = Append(z, c1) => p = z
        BY <1>10, <3>1, ChildInjective
      <4>3. p # z
        BY <4>1
      <4> QED
        BY <1>10, <4>2, <4>3
    <3>3. PICK d \in depth..end : Append(p, c) = Prefix(k, d)
      BY <2>1, <3>2
    <3>4. d \in 0..Depth
      BY <1>1, <1>5
    <3>5. d # 0 /\ p = Prefix(k, d - 1) /\ c = select_branch(k, d - 1)
      BY <3>1, <3>3, <3>4, PrefixChild
    <3>6. d = depth
      <4> SUFFICES ASSUME d # depth PROVE FALSE
        OBVIOUS
      <4>1. d - 1 \in depth..end
        BY <1>1, <1>5
      <4>2. p \in C
        BY <3>5, <4>1
      <4> QED
        BY <2>1, <4>2
    <3> QED
      BY <3>5, <3>6
  <2>2. ASSUME NEW d \in 0..(depth - 1)
        PROVE  Prefix(k, d) \notin C
    <3>1. d \in 0..end /\ \A c \in depth..end : c \in 0..end /\ c # d
      BY <1>1, <1>5
    <3> QED
      BY <1>15, <1>16, <3>1
  <2>3. ASSUME NEW p \in DOMAIN tree \cap C, is_inner(tree[p])
        PROVE  is_inner(t[p])
    <3>1. PICK d \in depth..end : p = Prefix(k, d)
      BY <1>12, <2>3
    <3> QED
      BY <1>18, <3>1, NodeKinds
  <2> HIDE DEF C
  <2> QED
    BY <1>9, <1>14, <1>19, <2>1, <2>2, <2>3, ZenonT(60) DEF Grafted
<1>21. /\ << >> \in DOMAIN t /\ is_inner(t[<< >>])
       /\ \A d \in 0..(depth - 1) :
            /\ Prefix(k, d) \in DOMAIN t
            /\ t[Prefix(k, d)] = tree[Prefix(k, d)]
            /\ OpenAt(t, Prefix(k, d), select_branch(k, d))
       /\ \A p \in DOMAIN tree : Place(t, p)
       /\ \A p \in DOMAIN tree \ C :
            OnPath(p, k, depth) \/ InnerAt(t, p) \/ LeafAt(t, p)
  <2>1. Kept(t, tree, k, depth, C)
    <3> HIDE DEF C
    <3> QED
      BY <1>1, <1>20, GraftKeeps
  <2> QED
    BY <2>1 DEF Kept
\* The path down to end is there, of inner nodes.
<1>22. ASSUME NEW d \in 0..end
       PROVE  Prefix(k, d) \in DOMAIN t /\ is_inner(t[Prefix(k, d)])
  <2>1. CASE d \in 0..(depth - 1)
    BY <1>1, <1>21, <2>1
  <2>2. CASE d \in depth..end
    BY <1>14, <1>18, <2>2, NodeKinds
  <2> QED
    BY <1>1, <1>5, <2>1, <2>2
\* Off the path nothing hangs below the new nodes.
<1>23. ASSUME NEW d \in depth..end, NEW c \in Branch,
              Append(Prefix(k, d), c) \in DOMAIN t
       PROVE  \/ c = select_branch(k, d)
              \/ d = end /\ c = select_branch(j, d)
  <2> DEFINE p == Prefix(k, d)
  <2>1. d \in 0..Depth /\ d \in 0..end
    BY <1>1, <1>5
  <2>2. p \in Seq(Branch)
    BY <2>1, PrefixIs
  <2>3. Append(p, c) \in C
    BY <1>11, <1>14, <1>23
  <2>4. CASE Append(p, c) = y
    <3>1. p = z /\ c = select_branch(j, end)
      <4> HIDE DEF p, z, y
      <4> QED
        BY <1>10, <2>2, <2>4, ChildInjective
    <3>2. d = end
      BY <1>5, <1>15, <2>1, <3>1
    <3> QED
      BY <3>1, <3>2
  <2>5. ASSUME NEW f \in depth..(end + 1), Append(p, c) = Prefix(k, f)
        PROVE  c = select_branch(k, d)
    <3>1. f \in 0..Depth
      BY <1>1, <1>5
    <3>2. f # 0 /\ p = Prefix(k, f - 1) /\ c = select_branch(k, f - 1)
      <4> HIDE DEF p
      <4> QED
        BY <2>2, <2>5, <3>1, PrefixChild
    <3>3. f - 1 = d
      <4>1. f - 1 \in 0..Depth
        BY <3>1, <3>2
      <4> QED
        BY <2>1, <3>2, <4>1, PrefixSame
    <3> QED
      BY <3>2, <3>3
  <2>6. CASE Append(p, c) = x
    <3>1. end + 1 \in depth..(end + 1)
      BY <1>1, <1>5
    <3> QED
      BY <2>5, <2>6, <3>1
  <2>7. CASE Append(p, c) \in P
    <3>1. PICK f \in depth..end : Append(p, c) = Prefix(k, f)
      BY <2>7
    <3>2. f \in depth..(end + 1)
      BY <1>1, <1>5
    <3> QED
      BY <2>5, <3>1, <3>2
  <2> QED
    BY <2>3, <2>4, <2>6, <2>7
<1>24. ASSUME NEW d \in depth..(end - 1)
       PROVE  OpenAt(t, Prefix(k, d), select_branch(k, d))
  <2>1. d \in depth..end /\ d # end /\ d \in 0..Depth
    BY <1>1, <1>5
  <2>2. Len(Prefix(k, d)) < Depth
    BY <1>5, <2>1, PrefixIs
  <2>3. ASSUME NEW c \in Branch, c # select_branch(k, d)
        PROVE  Linked(t, Prefix(k, d), c)
    <3>1. Append(Prefix(k, d), c) \notin DOMAIN t
      BY <1>23, <2>1, <2>3
    <3>2. t[Prefix(k, d)].children_hash[c] = Zero
      <4>1. t[Prefix(k, d)] = chain[Prefix(k, d)]
        BY <1>17
      <4>2. chain[Prefix(k, d)].children_hash[c] = Zero
        BY <1>zero, <2>1
      <4> QED
        BY <4>1, <4>2
    <3> QED
      BY <3>1, <3>2 DEF Linked
  <2> QED
    BY <1>18, <2>1, <2>2, <2>3 DEF OpenAt
<1>25. InnerAt(t, z)
  <2>1. ASSUME NEW c \in Branch
        PROVE  Linked(t, z, c)
    <3>1. CASE c = select_branch(k, end)
      <4> HIDE DEF z, x, y
      <4> QED
        BY <1>9, <1>10, <1>13, <3>1 DEF Linked
    <3>2. CASE c = select_branch(j, end)
      <4> HIDE DEF z, x, y
      <4> QED
        BY <1>9, <1>10, <1>13, <3>2 DEF Linked
    <3>3. CASE c \notin {select_branch(k, end), select_branch(j, end)}
      <4>1. Append(z, c) \notin DOMAIN t
        BY <1>5, <1>23, <3>3
      <4>2. t[z].children_hash[c] = Zero
        <5>1. chain[z].children_hash[c] = Zero
          BY <1>5, <1>zero
        <5> HIDE DEF z, x, y
        <5> QED
          BY <1>9, <3>3, <5>1
      <4> QED
        BY <4>1, <4>2 DEF Linked
    <3> QED
      BY <3>1, <3>2, <3>3
  <2>2. Append(z, select_branch(k, end)) \in DOMAIN t
    BY <1>9, <1>10
  <2>3. Len(z) < Depth
    <3>1. end < Depth /\ end \in Nat
      BY <1>5
    <3>2. Len(z) = end
      BY <1>10
    <3> QED
      BY <3>1, <3>2
  <2> HIDE DEF z
  <2> QED
    BY <1>9, <1>10, <2>1, <2>2, <2>3 DEF InnerAt
<1>26. ASSUME NEW i \in {k, j}
       PROVE  /\ Place(t, Prefix(i, end + 1))
              /\ LeafAt(t, Prefix(i, end + 1))
  <2> DEFINE p == Prefix(i, end + 1)
  <2>1. i \in Key
    BY <1>3
  <2>2. ASSUME NEW c \in 0..((end + 1) - 1)
        PROVE  Prefix(i, c) \in DOMAIN t /\ is_inner(t[Prefix(i, c)])
    <3>1. c \in 0..end
      BY <1>5
    <3>2. Prefix(i, c) = Prefix(k, c)
      BY <1>4, <3>1
    <3> QED
      BY <1>22, <3>1, <3>2
  <2>3. Place(t, p)
    BY <1>5, <2>1, <2>2 DEF Place
  <2>4. Len(p) = end + 1
    BY <1>5, <2>1, PrefixIs
  <2>5. /\ LeafNode(t[p]) /\ t[p].item.index = i
        /\ t[p].item.data \in DataOf(i) /\ t[p].hash = Index(i)
    <3>1. item.index = k /\ item.data = v /\ other.index = j /\ other.data = w
      BY DEF j, w
    <3>2. CASE i = k
      BY <1>13, <3>1, <3>2
    <3>3. CASE i = j
      BY <1>3, <1>13, <3>1, <3>3
    <3> QED
      BY <3>2, <3>3
  <2>6. p = Prefix(i, Len(p))
    BY <2>4
  <2> HIDE DEF p
  <2>7. LeafAt(t, p)
    BY <2>1, <2>5, <2>6 DEF LeafAt
  <2> QED
    BY <2>3, <2>7 DEF p
<1>27. WholeBut(t, k, end)
  <2>1. ASSUME NEW d \in 0..(end - 1)
        PROVE  OpenAt(t, Prefix(k, d), select_branch(k, d))
    <3>1. d \in 0..(depth - 1) \/ d \in depth..(end - 1)
      BY <1>1, <1>5
    <3> QED
      BY <1>21, <1>24, <3>1
  <2>2. ASSUME NEW d \in depth..end
        PROVE  Place(t, Prefix(k, d))
    <3>1. d \in 0..Depth /\ \A c \in 0..(d - 1) : c \in 0..end
      BY <1>1, <1>5
    <3> QED
      BY <1>22, <3>1 DEF Place
  <2>3. ASSUME NEW p \in DOMAIN t
        PROVE  Place(t, p) /\ (OnPath(p, k, end) \/ InnerAt(t, p) \/ LeafAt(t, p))
    <3>1. CASE p \in {x, y}
      BY <1>26, <3>1
    <3>2. CASE p \in P
      <4>1. PICK d \in depth..end : p = Prefix(k, d)
        BY <3>2
      <4>2. d = end \/ d \in 0..(end - 1)
        BY <1>1, <1>5
      <4> QED
        BY <1>25, <2>2, <4>1, <4>2 DEF OnPath
    <3>3. CASE p \in DOMAIN tree \ C
      <4>1. OnPath(p, k, depth) => OnPath(p, k, end)
        <5>1. \A d \in 0..(depth - 1) : d \in 0..(end - 1)
          BY <1>1, <1>5
        <5> QED
          BY <5>1 DEF OnPath
      <4> QED
        BY <1>21, <3>3, <4>1
    <3> QED
      BY <1>14, <3>1, <3>2, <3>3
  <2> QED
    BY <1>9, <1>21, <1>22, <2>1, <2>3 DEF WholeBut
<1>28. Refreshed(a, t, k, 0, end)
  <2>1. t = [p \in DOMAIN t |-> t[p]]
    BY <1>9 DEF Fcn
  <2>2. \A d \in 0..end : Prefix(k, d) \in DOMAIN t
    BY <1>22
  <2> QED
    BY <1>5, <1>8, <2>1, <2>2, DirtyUpRefreshes
<1>29. Whole(a) /\ DOMAIN a = DOMAIN t /\ ItemsOf(a) = ItemsOf(t)
  BY <1>5, <1>27, <1>28, Closes
<1>30. ItemsOf(t) = ItemsOf(tree) \cup {item}
  <2>1. ~ is_inner(t[x]) /\ ~ is_inner(t[y])
    BY <1>13, NodeKinds
  <2>2. \A p \in P : is_inner(t[p])
    BY <1>18, NodeKinds
  <2>3. other \in ItemsOf(tree)
    BY <1>1 DEF ItemsOf
  <2>4. x \in DOMAIN t /\ y \in DOMAIN t /\ r \in P
    BY <1>5, <1>14
  <2>5. tree[r].item = other /\ r \in DOMAIN tree
    BY <1>1
  <2>6. ASSUME NEW p \in DOMAIN tree, p \in C
        PROVE  p = r
    <3>1. PICK d \in depth..end : p = Prefix(k, d)
      BY <1>12, <2>6
    <3>2. d = depth \/ d \in (depth + 1)..Depth
      BY <1>1, <1>5
    <3> QED
      BY <1>1, <2>6, <3>1, <3>2
  <2> HIDE DEF x, y, r, P
  <2>7. ItemsOf(t) \subseteq ItemsOf(tree) \cup {item}
    <3> SUFFICES ASSUME NEW p \in DOMAIN t, ~ is_inner(t[p])
                 PROVE  t[p].item \in ItemsOf(tree) \cup {item}
      BY DEF ItemsOf
    <3>1. CASE p \in C
      BY <1>13, <2>2, <2>3, <3>1
    <3>2. CASE p \notin C
      <4>1. p \in DOMAIN tree /\ t[p] = tree[p]
        BY <1>14, <1>19, <3>2
      <4> QED
        BY <4>1 DEF ItemsOf
    <3> QED
      BY <3>1, <3>2
  <2>8. item \in ItemsOf(t) /\ other \in ItemsOf(t)
    BY <1>13, <2>1, <2>4 DEF ItemsOf
  <2>9. ASSUME NEW p \in DOMAIN tree, ~ is_inner(tree[p])
        PROVE  tree[p].item \in ItemsOf(t)
    <3>1. CASE p \in C
      BY <2>5, <2>6, <2>8, <3>1
    <3>2. CASE p \notin C
      <4>1. p \in DOMAIN t /\ t[p] = tree[p]
        BY <1>14, <1>19, <3>2
      <4> QED
        BY <2>9, <4>1 DEF ItemsOf
    <3> QED
      BY <3>1, <3>2
  <2>10. ItemsOf(tree) \subseteq ItemsOf(t)
    <3> DEFINE I == ItemsOf(t)
    <3>1. \A p \in DOMAIN tree : ~ is_inner(tree[p]) => tree[p].item \in I
      BY <2>9
    <3> HIDE DEF I
    <3>2. ItemsOf(tree) \subseteq I
      BY <3>1 DEF ItemsOf
    <3> QED
      BY <3>2 DEF I
  <2> QED
    BY <2>7, <2>8, <2>10
<1>31. \A d \in 0..depth : a[Prefix(k, d)].hash # tree[Prefix(k, d)].hash
  <2>1. \A d \in 0..(depth - 1) :
          a[Prefix(k, d)] = set_child(tree[Prefix(k, d)],
                                      a[Prefix(k, d + 1)].hash,
                                      select_branch(k, d))
    <3> SUFFICES ASSUME NEW d \in 0..(depth - 1)
                 PROVE  a[Prefix(k, d)] = set_child(tree[Prefix(k, d)],
                                                    a[Prefix(k, d + 1)].hash,
                                                    select_branch(k, d))
      OBVIOUS
    <3>1. d \in 0..(end - 1)
      BY <1>1, <1>5
    <3>2. t[Prefix(k, d)] = tree[Prefix(k, d)]
      BY <1>21
    <3>3. a[Prefix(k, d)] = set_child(t[Prefix(k, d)],
                                      a[Prefix(k, d + 1)].hash,
                                      select_branch(k, d))
      BY <1>28, <3>1 DEF Refreshed
    <3> QED
      BY <3>2, <3>3
  <2>2. a[r].hash.tag = "node"
    <3> DEFINE f == end + 1
    <3>1. f \in 0..Depth /\ depth \in 0..(f - 1) /\ Prefix(k, f) \in DOMAIN a
      <4>1. f \in 0..Depth /\ depth \in 0..(f - 1)
        BY <1>1, <1>5
      <4>2. x \in DOMAIN a
        <5> HIDE DEF x, y
        <5> QED
          BY <1>9, <1>29
      <4> QED
        BY <4>1, <4>2
    <3> HIDE DEF f
    <3>2. r \in DOMAIN a /\ is_inner(a[r])
      BY <1>29, <3>1, Ancestors
    <3> HIDE DEF r
    <3> QED
      <4>1. InnerAt(a, r)
        BY <1>29, <3>2, WholeNode
      <4> QED
        BY <4>1, HashTags
  <2>3. tree[r].hash.tag \in {"index", "acleaf"}
    BY <1>2, HashTags
  <2>4. a[r].hash # tree[r].hash
    BY <2>2, <2>3
  <2> QED
    BY <1>1, <2>1, <2>4, AllChange
<1>32. ASSUME NEW d \in 0..end
       PROVE  a[Prefix(k, d)].hash # chain[Prefix(k, d)].hash
  <2>1. CASE d \in 0..(depth - 1)
    <3>1. d \in 0..depth /\ d \in 0..end /\ d # depth /\ depth \in 0..end
      BY <1>1, <1>5, <2>1
    <3>2. Prefix(k, d) # r
      BY <1>15, <3>1
    <3>3. chain[Prefix(k, d)] = tree[Prefix(k, d)]
      BY <1>1, <1>6, <2>1, <3>2
    <3> QED
      BY <1>31, <3>1, <3>3
  <2>2. CASE d \in depth..end
    <3>1. Prefix(k, d) \in DOMAIN a
      BY <1>22, <1>29
    <3>2. a[Prefix(k, d)].hash # Zero
      BY <1>29, <3>1, WholeNode, HashTags
    <3> QED
      BY <1>6, <2>2, <3>2
  <2> QED
    BY <1>1, <1>5, <2>1, <2>2
<1> QED
  BY <1>29, <1>30, <1>32 DEF Refused

-----------------------------------------------------------------------------
(***************************************************************************)
(* Where a whole tree is: the nodes of full that are not in memory (t) are *)
(* in the database (d), and nothing else is.                               *)
(***************************************************************************)
Stored(full, t, d) ==
  /\ Whole(full)
  /\ Fcn(t) /\ Fcn(d)
  /\ DOMAIN t \subseteq DOMAIN full
  /\ \A p \in DOMAIN t : t[p] = full[p]
  /\ DOMAIN d = {full[p].hash : p \in DOMAIN full \ DOMAIN t}
  /\ \A p \in DOMAIN full \ DOMAIN t : d[full[p].hash] = encode(full[p])

\* The server is down and the root that r names cannot be fetched.
Gone(t, d, r, ph) ==
  /\ ph = "down" /\ t = Empty
  /\ r = NoRow => d = Empty
  /\ r \notin DOMAIN d

\* The server has the tree full, in memory or on disk.  Its root is the one
\* that r names, unless the tree has changed or was never saved.
Holds(full, t, d, r, ph) ==
  /\ Stored(full, t, d)
  /\ ph = "down" => t = Empty
  /\ ph # "down" => << >> \in DOMAIN t
  /\ ph = "up" => t = full
  /\ ph # "up" => \/ r = full[<< >>].hash
                  \/ ph = "loading" /\ r = NoRow /\ t = full

Good(t, d, r, ph, cr) ==
  \/ Gone(t, d, r, ph) /\ (r # NoRow => cr > 0)
  \/ \E full : Holds(full, t, d, r, ph)

(***************************************************************************)
(* The inductive invariant.  (The tree it speaks of is not a variable: in  *)
(* the middle of a load a part of it is in memory and the rest on disk.)   *)
(***************************************************************************)
TreeInv ==
  /\ phase \in {"down", "loading", "up", "closing"}
  /\ fault \in {"none", "fetch", "add", "set_child", "exit", "killed"}
  /\ losses \in 0..MaxLosses
  /\ fault # "set_child"
  /\ losses = 0 => fault = "none"
  /\ Good(tree, db, row, phase, losses)

\* That a tree is whole is a matter of the tree and of which of the two it is.
LEMMA WholeKept ==
  ASSUME NEW t, is_transaction_tree' = is_transaction_tree, Whole(t)
  PROVE  Whole(t)'
<1>1. \A p : update_hash(t[p])' = update_hash(t[p])
  BY DEF update_hash, is_inner
<1>2. \A p : InnerAt(t, p)' <=> InnerAt(t, p)
  BY <1>1 DEF InnerAt, InnerNode, Linked, Zero
<1>3. \A p : LeafAt(t, p)' <=> LeafAt(t, p)
  BY DEF LeafAt, LeafNode, DataOf, Index, Digest, Prefix
<1>4. \A p : Place(t, p)' <=> Place(t, p)
  BY DEF Place, Prefix, is_inner
<1> QED
  BY <1>2, <1>3, <1>4 DEF Whole, Fcn, is_inner

\* In a tree that is stored, the node that is next fetched.
LEMMA FetchOne ==
  ASSUME NEW full, NEW t, NEW d, Stored(full, t, d),
         NEW q \in DOMAIN full \ DOMAIN t, NEW h, h = full[q].hash
  PROVE  /\ h \in DOMAIN d
         /\ Stored(full, Put(t, q, decode(h, d[h])), Restrict(d, DOMAIN d \ {h}))
<1> DEFINE n == decode(h, d[h])
           u == Put(t, q, n)
           e == Restrict(d, DOMAIN d \ {h})
<1>1. /\ Whole(full)
      /\ Fcn(t) /\ Fcn(d)
      /\ DOMAIN t \subseteq DOMAIN full
      /\ \A p \in DOMAIN t : t[p] = full[p]
      /\ DOMAIN d = {full[p].hash : p \in DOMAIN full \ DOMAIN t}
      /\ \A p \in DOMAIN full \ DOMAIN t : d[full[p].hash] = encode(full[p])
  BY DEF Stored
<1>2. h \in DOMAIN d
  BY <1>1
<1>3. n = full[q]
  <2>1. d[h] = encode(full[q])
    BY <1>1
  <2>2. InnerNode(full[q]) \/ LeafNode(full[q])
    BY <1>1, WholeNode
  <2>3. decode(full[q].hash, encode(full[q])) = full[q]
    BY <2>2, StoredAndFetched
  <2> QED
    BY <2>1, <2>3
<1> HIDE DEF n
<1>4. /\ DOMAIN u = DOMAIN t \cup {q}
      /\ u = [x \in DOMAIN u |-> u[x]]
      /\ u[q] = n
      /\ \A x \in DOMAIN t : x # q => u[x] = t[x]
  BY DEF Put
<1>5. /\ DOMAIN e = DOMAIN d \ {h}
      /\ e = [x \in DOMAIN e |-> e[x]]
      /\ \A x \in DOMAIN e : e[x] = d[x]
  BY DEF Restrict
<1> HIDE DEF u, e
<1>6. \A p \in DOMAIN full : full[p].hash = h => p = q
  <2> SUFFICES ASSUME NEW p \in DOMAIN full, full[p].hash = full[q].hash
               PROVE  p = q
    OBVIOUS
  <2> QED
    BY <1>1, HashUnique
<1>7. \A p \in DOMAIN u : u[p] = full[p]
  BY <1>1, <1>3, <1>4
<1>8. DOMAIN u \subseteq DOMAIN full
  BY <1>1, <1>4
<1>9. DOMAIN e = {full[p].hash : p \in DOMAIN full \ DOMAIN u}
  BY <1>1, <1>4, <1>5, <1>6
<1>10. \A p \in DOMAIN full \ DOMAIN u : e[full[p].hash] = encode(full[p])
  <2> SUFFICES ASSUME NEW p \in DOMAIN full \ DOMAIN u
               PROVE  e[full[p].hash] = encode(full[p])
    OBVIOUS
  <2>1. full[p].hash \in DOMAIN e
    BY <1>9
  <2>2. e[full[p].hash] = d[full[p].hash]
    BY <1>5, <2>1
  <2>3. p \in DOMAIN full \ DOMAIN t
    BY <1>4
  <2> QED
    BY <1>1, <2>2, <2>3
<1>11. Stored(full, u, e)
  BY <1>1, <1>4, <1>5, <1>7, <1>8, <1>9, <1>10 DEF Stored, Fcn
<1> QED
  BY <1>2, <1>11 DEF u, e, n

\* A tree none of whose nodes misses a child is in memory.
LEMMA AllLoaded ==
  ASSUME NEW full, Stored(full, tree, db), << >> \in DOMAIN tree,
         \A p \in DOMAIN tree : Missing(p) = {}
  PROVE  tree = full
<1> Depth \in Nat
  BY TreeAssumption
<1>1. /\ Whole(full) /\ Fcn(tree) /\ DOMAIN tree \subseteq DOMAIN full
      /\ \A p \in DOMAIN tree : tree[p] = full[p]
  BY DEF Stored
<1> DEFINE S == {n \in Nat : \A k \in Key : n <= Depth /\ Prefix(k, n) \in DOMAIN full
                                 => Prefix(k, n) \in DOMAIN tree}
<1>2. 0 \in S
  BY PrefixZero
<1>3. \A n \in Nat : n \in S => n + 1 \in S
  <2> SUFFICES ASSUME NEW n \in Nat, n \in S, NEW k \in Key, n + 1 <= Depth,
                      Prefix(k, n + 1) \in DOMAIN full
               PROVE  Prefix(k, n + 1) \in DOMAIN tree
    OBVIOUS
  <2> DEFINE p == Prefix(k, n)
             b == select_branch(k, n)
             q == Prefix(k, n + 1)
  <2>1. n \in 0..(Depth - 1) /\ n + 1 \in 0..Depth /\ n \in 0..((n + 1) - 1)
    OBVIOUS
  <2>2. b \in Branch /\ Append(p, b) = q
    BY <2>1, PrefixNext
  <2>3. p \in DOMAIN full /\ is_inner(full[p])
    <3> DEFINE m == n + 1
    <3>1. m \in 0..Depth /\ n \in 0..(m - 1) /\ Prefix(k, m) \in DOMAIN full
      BY <2>1
    <3> HIDE DEF m
    <3> QED
      BY <1>1, <3>1, Ancestors
  <2>4. p \in DOMAIN tree
    BY <2>1, <2>3
  <2>5. InnerAt(full, p)
    BY <1>1, <2>3, WholeNode
  <2> HIDE DEF p, b, q
  <2>6. full[p].children_hash[b] # Zero
    <3>1. Append(p, b) \in DOMAIN full
      BY <2>2 DEF q
    <3> QED
      BY <1>1, <2>2, <2>3, <2>5, <3>1, ChildLink, ZenonT(60)
  <2>7. tree[p] = full[p] /\ Missing(p) = {}
    BY <1>1, <2>4
  <2>8. b \notin Missing(p)
    BY <2>7
  <2>9. Append(p, b) \in DOMAIN tree
    BY <2>2, <2>3, <2>6, <2>7, <2>8 DEF Missing, is_empty_branch
  <2> QED
    BY <2>2, <2>9 DEF q
<1>4. Nat \subseteq S
  <2> HIDE DEF S
  <2> QED
    BY <1>2, <1>3, SetInduction
<1>5. DOMAIN full \subseteq DOMAIN tree
  <2> SUFFICES ASSUME NEW p \in DOMAIN full
               PROVE  p \in DOMAIN tree
    OBVIOUS
  <2>1. /\ Len(p) \in 0..Depth
        /\ \E k \in Key : p = Prefix(k, Len(p))
    BY <1>1, WholeNode
  <2>2. PICK k \in Key : p = Prefix(k, Len(p))
    BY <2>1
  <2>3. Len(p) \in S /\ Len(p) <= Depth
    BY <1>4, <2>1
  <2> QED
    BY <2>2, <2>3
<1>6. Fcn(full)
  BY <1>1 DEF Whole
<1> QED
  BY <1>1, <1>5, <1>6 DEF Fcn

\* What backup_to_database leaves is the whole tree.
LEMMA SaveAll ==
  ASSUME NEW full, Stored(full, tree, db), NEW d,
         d = [h \in DOMAIN db \cup {tree[p].hash : p \in Batch} |->
                IF h \in {tree[p].hash : p \in Batch}
                THEN encode(tree[CHOOSE p \in Batch : tree[p].hash = h])
                ELSE db[h]]
  PROVE  Stored(full, Empty, d)
<1> DEFINE H == {tree[p].hash : p \in DOMAIN tree}
<1>1. /\ Whole(full)
      /\ Fcn(tree) /\ Fcn(db)
      /\ DOMAIN tree \subseteq DOMAIN full
      /\ \A p \in DOMAIN tree : tree[p] = full[p]
      /\ DOMAIN db = {full[p].hash : p \in DOMAIN full \ DOMAIN tree}
      /\ \A p \in DOMAIN full \ DOMAIN tree :
           db[full[p].hash] = encode(full[p])
  BY DEF Stored
<1>2. \A p, q \in DOMAIN full : full[p].hash = full[q].hash => p = q
  BY <1>1, HashUnique
<1>3. /\ Fcn(d)
      /\ DOMAIN d = DOMAIN db \cup H
      /\ \A h \in DOMAIN db \ H : d[h] = db[h]
  BY DEF Batch, Fcn
<1>4. DOMAIN d = {full[p].hash : p \in DOMAIN full}
  <2>1. H = {full[p].hash : p \in DOMAIN tree}
    BY <1>1
  <2>2. DOMAIN full = DOMAIN tree \cup (DOMAIN full \ DOMAIN tree)
    BY <1>1
  <2>3. {full[p].hash : p \in DOMAIN full}
        = {full[p].hash : p \in DOMAIN tree}
            \cup {full[p].hash : p \in DOMAIN full \ DOMAIN tree}
    BY <2>2
  <2> QED
    BY <1>1, <1>3, <2>1, <2>3, Zenon
<1>5. ASSUME NEW p \in DOMAIN full
      PROVE  d[full[p].hash] = encode(full[p])
  <2> DEFINE h == full[p].hash
  <2>1. CASE p \in DOMAIN tree
    <3>1. h \in H /\ tree[p].hash = h /\ tree[p] = full[p]
      BY <1>1, <2>1
    <3> DEFINE r == CHOOSE q \in DOMAIN tree : tree[q].hash = h
    <3>2. r \in DOMAIN tree /\ tree[r].hash = h
      BY <2>1, <3>1, Zenon
    <3> HIDE DEF r
    <3>3. r = p
      BY <1>1, <1>2, <3>2
    <3>4. d[h] = encode(tree[r])
      BY <1>3, <3>1 DEF Batch, r
    <3> QED
      BY <3>1, <3>3, <3>4
  <2>2. CASE p \notin DOMAIN tree
    <3>1. h \notin H
      BY <1>1, <1>2, <2>2
    <3>2. h \in DOMAIN db
      BY <1>1, <2>2
    <3> QED
      BY <1>1, <1>3, <2>2, <3>1, <3>2
  <2> QED
    BY <2>1, <2>2
<1>6. Fcn(Empty) /\ DOMAIN Empty = {}
  BY DEF Fcn, Empty
<1> QED
  BY <1>1, <1>3, <1>4, <1>5, <1>6 DEF Stored

-----------------------------------------------------------------------------
(***************************************************************************)
(* The map that the refinement sees.                                       *)
(***************************************************************************)
MapOf(I) ==
  [k \in {item.index : item \in I} |->
     (CHOOSE item \in I : item.index = k).data]

StoreOf(t, d, r, ph) ==
  IF ph # "down" \/ r = NoRow \/ r \in DOMAIN d
  THEN MapOf(ItemsOf(t) \cup ItemsOf(d))
  ELSE Empty

LEMMA ItemsAre ==
  ASSUME NEW t, Whole(t), NEW item \in ItemsOf(t)
  PROVE  /\ item = [index |-> item.index, data |-> item.data]
         /\ item.index \in Key
         /\ \A other \in ItemsOf(t) : other.index = item.index => other = item
<1>1. PICK p \in DOMAIN t : ~ is_inner(t[p]) /\ item = t[p].item
  BY DEF ItemsOf
<1>2. LeafAt(t, p) /\ LeafNode(t[p])
  BY <1>1, WholeNode
<1>3. item.index \in Key
  BY <1>1, <1>2 DEF LeafAt
<1>4. item = [index |-> item.index, data |-> item.data]
  <2> DEFINE n == t[p]
             i == [index |-> n.item.index, data |-> n.item.data]
  <2>1. LeafNode(n)
    BY <1>2
  <2> HIDE DEF n
  <2>2. n.item = i
    BY <2>1 DEF LeafNode
  <2> QED
    BY <1>1, <2>2 DEF n
<1>5. ASSUME NEW other \in ItemsOf(t), other.index = item.index
      PROVE  other = item
  <2>1. PICK q \in DOMAIN t : ~ is_inner(t[q]) /\ other = t[q].item
    BY DEF ItemsOf
  <2>2. p = q
    BY <1>1, <1>5, <2>1, LeafAlone
  <2> QED
    BY <1>1, <2>1, <2>2
<1> QED
  BY <1>3, <1>4, <1>5

Maps(m, t) ==
  /\ Fcn(m)
  /\ DOMAIN m = {item.index : item \in ItemsOf(t)}
  /\ \A item \in ItemsOf(t) : m[item.index] = item.data

LEMMA MapIs ==
  ASSUME NEW t, Whole(t), NEW m, m = MapOf(ItemsOf(t))
  PROVE  Maps(m, t)
<1> DEFINE I == ItemsOf(t)
<1>1. Fcn(m) /\ DOMAIN m = {item.index : item \in I}
  BY DEF MapOf, Fcn
<1>2. ASSUME NEW item \in I
      PROVE  m[item.index] = item.data
  <2> DEFINE other == CHOOSE x \in I : x.index = item.index
  <2>1. other \in I /\ other.index = item.index
    BY Zenon
  <2>2. m[item.index] = other.data
    BY DEF MapOf
  <2> HIDE DEF other
  <2>3. other = item
    BY <2>1, ItemsAre
  <2> QED
    BY <2>2, <2>3
<1> QED
  BY <1>1, <1>2 DEF Maps

\* The leaves in memory and on disk are those of the tree.
LEMMA StoredItems ==
  ASSUME NEW full, NEW t, NEW d, Stored(full, t, d)
  PROVE  ItemsOf(t) \cup ItemsOf(d) = ItemsOf(full)
<1>1. /\ Whole(full)
      /\ DOMAIN t \subseteq DOMAIN full
      /\ \A p \in DOMAIN t : t[p] = full[p]
      /\ DOMAIN d = {full[p].hash : p \in DOMAIN full \ DOMAIN t}
      /\ \A p \in DOMAIN full \ DOMAIN t : d[full[p].hash] = encode(full[p])
  BY DEF Stored
<1>2. ASSUME NEW p \in DOMAIN full \ DOMAIN t
      PROVE  LET h == full[p].hash
             IN  /\ h \in DOMAIN d
                 /\ is_inner(d[h]) <=> is_inner(full[p])
                 /\ ~ is_inner(full[p]) => d[h].item = full[p].item
  <2> DEFINE n == full[p]
  <2>1. InnerNode(n) \/ LeafNode(n)
    BY <1>1, WholeNode
  <2>2. n.hash \in DOMAIN d /\ d[n.hash] = encode(n)
    BY <1>1
  <2>3. ~ is_inner(n) => LeafNode(n)
    BY <1>1, WholeNode
  <2> HIDE DEF n
  <2>4. /\ is_inner(encode(n)) <=> is_inner(n)
        /\ ~ is_inner(n) => encode(n).item = n.item
    BY <2>1, <2>3, StoredAndFetched
  <2> QED
    BY <2>2, <2>4 DEF n
<1>3. ASSUME NEW i \in ItemsOf(full)
      PROVE  i \in ItemsOf(t) \cup ItemsOf(d)
  <2>1. PICK p \in DOMAIN full : ~ is_inner(full[p]) /\ i = full[p].item
    BY DEF ItemsOf
  <2>2. CASE p \in DOMAIN t
    BY <1>1, <2>1, <2>2 DEF ItemsOf
  <2>3. CASE p \notin DOMAIN t
    BY <1>2, <2>1, <2>3 DEF ItemsOf
  <2> QED
    BY <2>2, <2>3
<1>4. ASSUME NEW i \in ItemsOf(t)
      PROVE  i \in ItemsOf(full)
  BY <1>1 DEF ItemsOf
<1>5. ASSUME NEW i \in ItemsOf(d)
      PROVE  i \in ItemsOf(full)
  <2>1. PICK h \in DOMAIN d : ~ is_inner(d[h]) /\ i = d[h].item
    BY DEF ItemsOf
  <2>2. PICK p \in DOMAIN full \ DOMAIN t : h = full[p].hash
    BY <1>1
  <2>3. ~ is_inner(full[p]) /\ i = full[p].item
    BY <1>2, <2>1, <2>2
  <2> QED
    BY <2>3 DEF ItemsOf
<1> QED
  BY <1>3, <1>4, <1>5

LEMMA HoldsStore ==
  ASSUME NEW full, NEW t, NEW d, NEW r, NEW ph, Holds(full, t, d, r, ph)
  PROVE  StoreOf(t, d, r, ph) = MapOf(ItemsOf(full))
<1>1. Stored(full, t, d)
  BY DEF Holds
<1>2. ItemsOf(t) \cup ItemsOf(d) = ItemsOf(full)
  BY <1>1, StoredItems
<1>3. ph # "down" \/ r \in DOMAIN d
  <2> SUFFICES ASSUME ph = "down"
               PROVE  r \in DOMAIN d
    OBVIOUS
  <2>1. t = Empty /\ r = full[<< >>].hash
    BY DEF Holds
  <2>2. DOMAIN d = {full[p].hash : p \in DOMAIN full \ DOMAIN t}
        /\ << >> \in DOMAIN full
    BY <1>1 DEF Stored, Whole
  <2>3. << >> \notin DOMAIN t
    BY <2>1 DEF Empty
  <2> QED
    BY <2>1, <2>2, <2>3
<1> QED
  BY <1>2, <1>3 DEF StoreOf

LEMMA GoneStore ==
  ASSUME NEW t, NEW d, NEW r, NEW ph, Gone(t, d, r, ph)
  PROVE  StoreOf(t, d, r, ph) = Empty
<1>1. CASE r # NoRow
  BY <1>1 DEF Gone, StoreOf
<1>2. CASE r = NoRow
  <2>1. t = Empty /\ d = Empty
    BY <1>2 DEF Gone
  <2>2. ItemsOf(t) \cup ItemsOf(d) = {}
    BY <2>1 DEF ItemsOf, Empty
  <2>3. MapOf({}) = Empty
    BY DEF MapOf, Empty
  <2> QED
    BY <1>2, <2>2, <2>3 DEF StoreOf
<1> QED
  BY <1>1, <1>2

\* n is m with v for k, which is new.
Extended(n, m, k, v) ==
  /\ k \notin DOMAIN m
  /\ n = [x \in DOMAIN m \cup {k} |-> IF x = k THEN v ELSE m[x]]

LEMMA AddedMap ==
  ASSUME NEW t, Whole(t), NEW a, Whole(a), NEW k, NEW v,
         ItemsOf(a) = ItemsOf(t) \cup {[index |-> k, data |-> v]},
         k \notin {item.index : item \in ItemsOf(t)},
         NEW m, m = MapOf(ItemsOf(t)), NEW n, n = MapOf(ItemsOf(a))
  PROVE  Extended(n, m, k, v)
<1>1. /\ Fcn(m)
      /\ DOMAIN m = {item.index : item \in ItemsOf(t)}
      /\ \A item \in ItemsOf(t) : m[item.index] = item.data
  <2>1. Maps(m, t)
    BY MapIs
  <2> QED
    BY <2>1 DEF Maps
<1>2. /\ Fcn(n)
      /\ DOMAIN n = {item.index : item \in ItemsOf(a)}
      /\ \A item \in ItemsOf(a) : n[item.index] = item.data
  <2>1. Maps(n, a)
    BY MapIs
  <2> QED
    BY <2>1 DEF Maps
<1> DEFINE new == [index |-> k, data |-> v]
           I == ItemsOf(t)
           J == ItemsOf(a)
<1>3. new.index = k /\ new.data = v /\ J = I \cup {new}
  OBVIOUS
<1> HIDE DEF new, I, J
<1>4. DOMAIN n = DOMAIN m \cup {k}
  <2>1. /\ \A x : x \in DOMAIN m <=> \E item \in I : x = item.index
        /\ \A x : x \in DOMAIN n <=> \E item \in J : x = item.index
    BY <1>1, <1>2 DEF I, J
  <2>2. \A x : x \in DOMAIN n <=> x \in DOMAIN m \/ x = k
    BY <1>3, <2>1, Zenon
  <2> QED
    BY <2>2
<1>5. n[k] = v
  BY <1>2, <1>3 DEF I, J
<1>6. ASSUME NEW x \in DOMAIN m
      PROVE  n[x] = m[x]
  <2>1. PICK item \in I : x = item.index
    BY <1>1 DEF I
  <2> QED
    BY <1>1, <1>2, <1>3, <2>1 DEF I, J
<1>7. k \notin DOMAIN m
  BY <1>1
<1> QED
  BY <1>2, <1>4, <1>5, <1>6, <1>7 DEF Fcn, Extended

LEMMA UpdatedMap ==
  ASSUME NEW t, Whole(t), NEW a, Whole(a), NEW k, NEW v,
         NEW old \in ItemsOf(t), old.index = k,
         ItemsOf(a) = (ItemsOf(t) \ {old}) \cup {[index |-> k, data |-> v]},
         NEW m, m = MapOf(ItemsOf(t)), NEW n, n = MapOf(ItemsOf(a))
  PROVE  /\ k \in DOMAIN m
         /\ n = [m EXCEPT ![k] = v]
<1>1. /\ Fcn(m)
      /\ DOMAIN m = {item.index : item \in ItemsOf(t)}
      /\ \A item \in ItemsOf(t) : m[item.index] = item.data
  <2>1. Maps(m, t)
    BY MapIs
  <2> QED
    BY <2>1 DEF Maps
<1>2. /\ Fcn(n)
      /\ DOMAIN n = {item.index : item \in ItemsOf(a)}
      /\ \A item \in ItemsOf(a) : n[item.index] = item.data
  <2>1. Maps(n, a)
    BY MapIs
  <2> QED
    BY <2>1 DEF Maps
<1> DEFINE new == [index |-> k, data |-> v]
           I == ItemsOf(t)
           J == ItemsOf(a)
<1>3. new.index = k /\ new.data = v /\ J = (I \ {old}) \cup {new}
  OBVIOUS
<1>4. \A item \in I : item.index = k => item = old
  BY ItemsAre
<1> HIDE DEF new, I, J
<1>5. DOMAIN n = DOMAIN m /\ k \in DOMAIN m
  <2>1. /\ \A x : x \in DOMAIN m <=> \E item \in I : x = item.index
        /\ \A x : x \in DOMAIN n <=> \E item \in J : x = item.index
        /\ old \in I
    BY <1>1, <1>2 DEF I, J
  <2>2. k \in DOMAIN m /\ k \in DOMAIN n
    BY <1>3, <2>1
  <2>3. \A x : x # k => (x \in DOMAIN n <=> x \in DOMAIN m)
    <3> SUFFICES ASSUME NEW x, x # k
                 PROVE  x \in DOMAIN n <=> x \in DOMAIN m
      OBVIOUS
    <3>1. ASSUME NEW item, x = item.index
          PROVE  item \in I <=> item \in J
      BY <1>3, <3>1
    <3> QED
      BY <2>1, <3>1
  <2>4. \A x : x \in DOMAIN n <=> x \in DOMAIN m
    BY <2>2, <2>3
  <2> QED
    BY <2>2, <2>4
<1>6. n[k] = v
  BY <1>2, <1>3 DEF I, J
<1>7. ASSUME NEW x \in DOMAIN m, x # k
      PROVE  n[x] = m[x]
  <2>1. PICK item \in I : x = item.index
    BY <1>1 DEF I
  <2>2. item \in J
    BY <1>3, <1>7, <2>1
  <2> QED
    BY <1>1, <1>2, <2>1, <2>2 DEF I, J
<1> QED
  BY <1>1, <1>2, <1>5, <1>6, <1>7 DEF Fcn

-----------------------------------------------------------------------------
(***************************************************************************)
(* What each step does to the tree and to the map it stands for.           *)
(***************************************************************************)
Silent == StoreOf(tree', db', row', phase') = StoreOf(tree, db, row, phase)

LEMMA EmptyIs == Fcn(Empty) /\ DOMAIN Empty = {} /\ ItemsOf(Empty) = {}
  BY DEF Fcn, Empty, ItemsOf

\* Down and readable.
LEMMA DownHolds ==
  ASSUME NEW full, NEW t, NEW d, NEW r, Holds(full, t, d, r, "down")
  PROVE  /\ t = Empty /\ r = full[<< >>].hash /\ Whole(full)
         /\ r \in DOMAIN d /\ r # NoRow
         /\ << >> \in DOMAIN full
<1>1. /\ t = Empty /\ r = full[<< >>].hash /\ Whole(full)
      /\ DOMAIN d = {full[p].hash : p \in DOMAIN full \ DOMAIN t}
  BY DEF Holds, Stored
<1>2. << >> \in DOMAIN full /\ is_inner(full[<< >>])
  BY <1>1 DEF Whole
<1>3. r \in DOMAIN d
  BY <1>1, <1>2, EmptyIs
<1>4. InnerAt(full, << >>)
  BY <1>1, <1>2, WholeNode
<1>5. full[<< >>].hash # NoRow
  BY <1>4, HashTags
<1> QED
  BY <1>1, <1>2, <1>3, <1>5

\* In memory, whole or in part.
LEMMA AwayHolds ==
  ASSUME NEW full, NEW t, NEW d, NEW r, NEW ph, ph # "down",
         Holds(full, t, d, r, ph)
  PROVE  /\ << >> \in DOMAIN t /\ Whole(full) /\ << >> \in DOMAIN full
         /\ t[<< >>] = full[<< >>]
         /\ full[<< >>].hash \notin DOMAIN d
         /\ ph = "up" => t = full
         /\ t = full => d = Empty
<1>1. /\ << >> \in DOMAIN t /\ Whole(full) /\ DOMAIN t \subseteq DOMAIN full
      /\ Fcn(d)
      /\ \A p \in DOMAIN t : t[p] = full[p]
      /\ DOMAIN d = {full[p].hash : p \in DOMAIN full \ DOMAIN t}
      /\ ph = "up" => t = full
  BY DEF Holds, Stored
<1>2. \A p \in DOMAIN full : full[p].hash = full[<< >>].hash => p = << >>
  BY <1>1, HashUnique
<1>3. full[<< >>].hash \notin DOMAIN d
  BY <1>1, <1>2
<1>4. t = full => d = Empty
  BY <1>1 DEF Fcn, Empty
<1> QED
  BY <1>1, <1>3, <1>4

\* The server ends with a tree in memory, with the row as it was or naming
\* the root of that tree.
LEMMA Lost ==
  ASSUME NEW full, NEW t, NEW d, NEW old, NEW ph, ph # "down",
         Holds(full, t, d, old, ph),
         NEW r, r = old \/ r = full[<< >>].hash
  PROVE  Gone(Empty, d, r, "down")
<1>1. /\ full[<< >>].hash \notin DOMAIN d
      /\ ph = "up" => t = full
      /\ t = full => d = Empty
  BY AwayHolds
<1>2. r = full[<< >>].hash \/ t = full
  BY <1>1 DEF Holds
<1>3. r \notin DOMAIN d
  BY <1>1, <1>2, EmptyIs
<1>4. r = NoRow => d = Empty
  <2>1. Whole(full) /\ << >> \in DOMAIN full /\ is_inner(full[<< >>])
    BY DEF Holds, Stored, Whole
  <2>2. InnerAt(full, << >>)
    BY <2>1, WholeNode
  <2>3. full[<< >>].hash # NoRow
    BY <2>2, HashTags
  <2> QED
    BY <1>1, <1>2, <2>3
<1> QED
  BY <1>3, <1>4 DEF Gone

\* The tree of a server that comes up for the first time.
LEMMA FreshIs ==
  ASSUME NEW full, full = Put(Empty, << >>, NewRoot)
  PROVE  Holds(full, full, Empty, NoRow, "loading") /\ ItemsOf(full) = {}
<1> Depth \in Nat \ {0}
  BY TreeAssumption
<1>1. /\ Fcn(full) /\ DOMAIN full = {<< >>} /\ full[<< >>] = NewRoot
  BY EmptyIs DEF Put, Fcn
<1>2. /\ InnerNode(full[<< >>])
      /\ full[<< >>].hash = update_hash(full[<< >>])
      /\ \A b \in Branch : full[<< >>].children_hash[b] = Zero
  BY <1>1, NewRootIs
<1>3. is_inner(full[<< >>])
  BY <1>2, NodeKinds
<1>4. \A b : Append(<< >>, b) # << >>
  OBVIOUS
<1>5. InnerAt(full, << >>)
  <2>1. \A b \in Branch : Linked(full, << >>, b)
    BY <1>1, <1>2, <1>4 DEF Linked
  <2>2. Len(<< >>) < Depth
    OBVIOUS
  <2> QED
    BY <1>2, <2>1, <2>2 DEF InnerAt
<1>6. Place(full, << >>)
  <2>1. PICK k \in Key : TRUE
    BY TreeAssumption
  <2>2. << >> = Prefix(k, 0)
    BY PrefixZero
  <2>3. 0 \in 0..Depth /\ 0..(0 - 1) = {}
    OBVIOUS
  <2> QED
    BY <2>2, <2>3 DEF Place
<1>7. Whole(full)
  BY <1>1, <1>3, <1>5, <1>6 DEF Whole
<1>8. Stored(full, full, Empty)
  BY <1>1, <1>7, EmptyIs DEF Stored
<1> QED
  BY <1>1, <1>3, <1>8 DEF Holds, ItemsOf

LEMMA StartFreshStep ==
  ASSUME TreeInv, StartFresh
  PROVE  Good(tree', db', row', phase', losses') /\ Silent
<1>1. Gone(tree, db, row, phase)
  BY DownHolds DEF TreeInv, Good, StartFresh
<1>2. db = Empty /\ StoreOf(tree, db, row, phase) = Empty
  BY <1>1, GoneStore DEF Gone, StartFresh
<1> DEFINE full == Put(Empty, << >>, NewRoot)
<1>3. Holds(full, full, Empty, NoRow, "loading") /\ ItemsOf(full) = {}
  BY FreshIs
<1>4. tree' = full /\ db' = Empty /\ row' = NoRow /\ phase' = "loading"
  BY <1>2 DEF StartFresh
<1> HIDE DEF full
<1>5. StoreOf(full, Empty, NoRow, "loading") = MapOf({})
  BY <1>3, HoldsStore
<1>6. MapOf({}) = Empty
  BY DEF MapOf, Empty
<1> QED
  BY <1>2, <1>3, <1>4, <1>5, <1>6 DEF Good, Silent

LEMMA StartFromRowStep ==
  ASSUME TreeInv, StartFromRow
  PROVE  Good(tree', db', row', phase', losses') /\ Silent
<1>1. PICK full : Holds(full, tree, db, row, phase)
  BY DEF TreeInv, Good, Gone, StartFromRow
<1>2. phase = "down" /\ phase' = "loading" /\ row' = row
  BY DEF StartFromRow
<1>3. /\ tree = Empty /\ row = full[<< >>].hash /\ << >> \in DOMAIN full
  BY <1>1, <1>2, DownHolds
<1>4. Stored(full, tree, db) /\ << >> \in DOMAIN full \ DOMAIN tree
  BY <1>1, <1>3, EmptyIs DEF Holds
<1> DEFINE t == Put(tree, << >>, decode(row, db[row]))
           d == Restrict(db, DOMAIN db \ {row})
<1>5. Stored(full, t, d)
  BY <1>3, <1>4, FetchOne
<1>6. tree' = t /\ db' = d
  BY <1>3 DEF StartFromRow, Fetched
<1>7. << >> \in DOMAIN t
  BY DEF Put
<1> HIDE DEF t, d
<1>8. Holds(full, t, d, row, "loading")
  BY <1>3, <1>5, <1>7 DEF Holds
<1>9. StoreOf(t, d, row, "loading") = StoreOf(tree, db, row, phase)
  BY <1>1, <1>8, HoldsStore
<1> QED
  BY <1>2, <1>6, <1>8, <1>9 DEF Good, Silent

\* Until a process has died there is nothing that a start could miss.
LEMMA StartFailsStep ==
  ASSUME TreeInv, StartFails
  PROVE  Good(tree', db', row', phase', losses') /\ Silent /\ losses > 0
<1>1. Gone(tree, db, row, phase) /\ losses > 0
  BY DownHolds DEF TreeInv, Good, StartFails
<1>2. tree' = tree /\ db' = db /\ row' = row /\ phase' = phase
      /\ losses' = losses
  BY <1>1 DEF StartFails, Die, Gone
<1> QED
  BY <1>1, <1>2 DEF Good, Silent

\* descend finds every child that is missing.
LEMMA DescendStep ==
  ASSUME TreeInv, NEW p \in DOMAIN tree, NEW b \in Branch, descend(p, b)
  PROVE  /\ Good(tree', db', row', phase', losses') /\ Silent
         /\ phase' = phase /\ fault' = fault
<1>1. phase = "loading" /\ b \in Missing(p) /\ row' = row
  BY DEF descend
<1>2. PICK full : Holds(full, tree, db, row, phase)
  BY <1>1 DEF TreeInv, Good, Gone
<1>3. /\ Stored(full, tree, db) /\ Whole(full) /\ DOMAIN tree \subseteq DOMAIN full
      /\ tree[p] = full[p]
      /\ row = full[<< >>].hash \/ tree = full
      /\ << >> \in DOMAIN tree
  BY <1>1, <1>2 DEF Holds, Stored
<1> DEFINE q == Append(p, b)
           h == tree[p].children_hash[b]
           t == Put(tree, q, decode(h, db[h]))
           d == Restrict(db, DOMAIN db \ {h})
<1>4. is_inner(full[p]) /\ h # Zero /\ q \notin DOMAIN tree
  BY <1>1, <1>3 DEF Missing, is_empty_branch
<1>5. p \in DOMAIN full /\ InnerAt(full, p)
  BY <1>3, <1>4, WholeNode
<1>6. q \in DOMAIN full /\ h = full[q].hash
  BY <1>3, <1>4, <1>5, ChildLink
<1>13. row = full[<< >>].hash
  BY <1>3, <1>4, <1>6
<1>7. tree' = IF h \in DOMAIN db THEN t ELSE Empty
  BY DEF descend, Fetched, Die
<1>8. h \in DOMAIN db => db' = d /\ phase' = phase /\ fault' = fault
  BY DEF descend, Fetched, Die
<1> HIDE DEF q, h
<1>9. h \in DOMAIN db /\ Stored(full, t, d)
  BY <1>3, <1>4, <1>6, FetchOne
<1>10. << >> \in DOMAIN t
  BY <1>3 DEF Put
<1> HIDE DEF t, d
<1>11. Holds(full, t, d, row, phase)
  BY <1>1, <1>3, <1>9, <1>10, <1>13 DEF Holds
<1>12. StoreOf(t, d, row, phase) = StoreOf(tree, db, row, phase)
  BY <1>2, <1>11, HoldsStore
<1> QED
  BY <1>1, <1>7, <1>8, <1>9, <1>11, <1>12 DEF Good, Silent

LEMMA FetchFromDbDoneStep ==
  ASSUME TreeInv, FetchFromDbDone
  PROVE  Good(tree', db', row', phase', losses') /\ Silent
<1>1. phase = "loading" /\ phase' = "up" /\ row' = row /\ tree' = tree /\ db' = db
  BY DEF FetchFromDbDone
<1>2. PICK full : Holds(full, tree, db, row, phase)
  BY <1>1 DEF TreeInv, Good, Gone
<1>3. Stored(full, tree, db) /\ << >> \in DOMAIN tree
  BY <1>1, <1>2 DEF Holds
<1>4. tree = full
  BY <1>3, AllLoaded DEF FetchFromDbDone
<1>5. Holds(full, tree, db, row, "up")
  BY <1>3, <1>4 DEF Holds
<1>6. StoreOf(tree, db, row, "up") = StoreOf(tree, db, row, phase)
  BY <1>2, <1>5, HoldsStore
<1> QED
  BY <1>1, <1>5, <1>6 DEF Good, Silent

Added(k, v) ==
  LET m == StoreOf(tree, db, row, phase)
  IN  /\ k \notin DOMAIN m
      /\ StoreOf(tree', db', row', phase') =
           [x \in DOMAIN m \cup {k} |-> IF x = k THEN v ELSE m[x]]

Updated(k, v) ==
  LET m == StoreOf(tree, db, row, phase)
  IN  /\ k \in DOMAIN m
      /\ StoreOf(tree', db', row', phase') = [m EXCEPT ![k] = v]

LEMMA UpIs ==
  ASSUME TreeInv, phase = "up"
  PROVE  /\ Whole(tree) /\ db = Empty
         /\ StoreOf(tree, db, row, phase) = MapOf(ItemsOf(tree))
<1>1. PICK full : Holds(full, tree, db, row, phase)
  BY DEF TreeInv, Good, Gone
<1>2. Whole(full) /\ tree = full /\ db = Empty
  BY <1>1, AwayHolds
<1>3. StoreOf(tree, db, row, phase) = MapOf(ItemsOf(full))
  BY <1>1, HoldsStore
<1> QED
  BY <1>2, <1>3

LEMMA UpWith ==
  ASSUME NEW a, Whole(a), NEW r
  PROVE  /\ Holds(a, a, Empty, r, "up")
         /\ StoreOf(a, Empty, r, "up") = MapOf(ItemsOf(a))
<1>1. Fcn(a) /\ << >> \in DOMAIN a
  BY DEF Whole
<1>2. Stored(a, a, Empty)
  BY <1>1, EmptyIs DEF Stored
<1>3. Holds(a, a, Empty, r, "up")
  BY <1>1, <1>2 DEF Holds
<1> QED
  BY <1>3, HoldsStore

\* The index is new where add_given_item finds an inner node or another leaf.
LEMMA AddItemStep ==
  ASSUME TreeInv, NEW k \in Key, NEW v \in DataOf(k), AddItem(k, v)
  PROVE  /\ Good(tree', db', row', phase', losses') /\ Added(k, v)
         /\ phase' = phase /\ fault' = fault
<1> DEFINE depth == get_stack(k)
           item == [index |-> k, data |-> v]
           a == dirty_up(Hang(tree, item, depth), k, depth)
<1>1. /\ phase = "up" /\ is_inner(tree[Prefix(k, depth)])
      /\ Finish(tree, a, k, depth)
  BY DEF AddItem
<1>2. /\ Whole(tree) /\ db = Empty
      /\ StoreOf(tree, db, row, phase) = MapOf(ItemsOf(tree))
  BY <1>1, UpIs
<1>3. walk_to_leaf(k) = {}
  BY <1>1 DEF walk_to_leaf
<1>4. k \notin {i.index : i \in ItemsOf(tree)}
  BY <1>2, <1>3, WalkIs
<1>5. Whole(a) /\ ~ Refused(tree, a, k, depth) /\ ItemsOf(a) = ItemsOf(tree) \cup {item}
  BY <1>1, <1>2, AddIsWhole
<1> HIDE DEF a
<1>6. /\ tree' = a /\ db' = Empty /\ row' = row /\ phase' = "up"
      /\ fault' = fault
  BY <1>1, <1>2, <1>5 DEF Finish
<1>7. /\ Holds(a, a, Empty, row, "up")
      /\ StoreOf(a, Empty, row, "up") = MapOf(ItemsOf(a))
  BY <1>5, UpWith
<1> DEFINE m == MapOf(ItemsOf(tree))
           n == MapOf(ItemsOf(a))
<1> HIDE DEF m, n, depth
<1>8. /\ k \notin DOMAIN m
      /\ n = [x \in DOMAIN m \cup {k} |-> IF x = k THEN v ELSE m[x]]
  <2>1. m = MapOf(ItemsOf(tree)) /\ n = MapOf(ItemsOf(a))
    BY DEF m, n
  <2>2. Extended(n, m, k, v)
    BY <1>2, <1>4, <1>5, <2>1, AddedMap
  <2> QED
    BY <2>2 DEF Extended
<1> HIDE DEF item
<1>9. StoreOf(tree, db, row, phase) = m /\ StoreOf(tree', db', row', phase') = n
  BY <1>2, <1>6, <1>7 DEF m, n
<1>10. Added(k, v)
  BY <1>8, <1>9 DEF Added
<1>11. Good(tree', db', row', phase', losses')
  BY <1>6, <1>7 DEF Good
<1> QED
  BY <1>1, <1>6, <1>10, <1>11

LEMMA SplitLeafStep ==
  ASSUME TreeInv, NEW k \in Key, NEW v \in DataOf(k), SplitLeaf(k, v)
  PROVE  /\ Good(tree', db', row', phase', losses') /\ Added(k, v)
         /\ phase' = phase /\ fault' = fault
<1> DEFINE depth == get_stack(k)
           other == tree[Prefix(k, depth)].item
           end == Diverge(k, other.index, depth)
           item == [index |-> k, data |-> v]
           chain == Chain(k, depth, end)
           a == dirty_up(Hang(Hang(chain, item, end), other, end), k, end)
<1>1. /\ phase = "up" /\ ~ is_inner(tree[Prefix(k, depth)])
      /\ other.index # k
      /\ Finish(chain, a, k, end)
  BY DEF SplitLeaf
<1>2. /\ Whole(tree) /\ db = Empty
      /\ StoreOf(tree, db, row, phase) = MapOf(ItemsOf(tree))
  BY <1>1, UpIs
<1>3. walk_to_leaf(k) = {}
  BY <1>1 DEF walk_to_leaf
<1>4. k \notin {i.index : i \in ItemsOf(tree)}
  BY <1>2, <1>3, WalkIs
<1>5. Whole(a) /\ ~ Refused(chain, a, k, end) /\ ItemsOf(a) = ItemsOf(tree) \cup {item}
  BY <1>1, <1>2, SplitIsWhole
<1> HIDE DEF a, chain, end, other
<1>6. /\ tree' = a /\ db' = Empty /\ row' = row /\ phase' = "up"
      /\ fault' = fault
  BY <1>1, <1>2, <1>5 DEF Finish
<1>7. /\ Holds(a, a, Empty, row, "up")
      /\ StoreOf(a, Empty, row, "up") = MapOf(ItemsOf(a))
  BY <1>5, UpWith
<1> DEFINE m == MapOf(ItemsOf(tree))
           n == MapOf(ItemsOf(a))
<1> HIDE DEF m, n, depth
<1>8. /\ k \notin DOMAIN m
      /\ n = [x \in DOMAIN m \cup {k} |-> IF x = k THEN v ELSE m[x]]
  <2>1. m = MapOf(ItemsOf(tree)) /\ n = MapOf(ItemsOf(a))
    BY DEF m, n
  <2>2. Extended(n, m, k, v)
    BY <1>2, <1>4, <1>5, <2>1, AddedMap
  <2> QED
    BY <2>2 DEF Extended
<1> HIDE DEF item
<1>9. StoreOf(tree, db, row, phase) = m /\ StoreOf(tree', db', row', phase') = n
  BY <1>2, <1>6, <1>7 DEF m, n
<1>10. Added(k, v)
  BY <1>8, <1>9 DEF Added
<1>11. Good(tree', db', row', phase', losses')
  BY <1>6, <1>7 DEF Good
<1> QED
  BY <1>1, <1>6, <1>10, <1>11

LEMMA UpdateItemStep ==
  ASSUME TreeInv, NEW k \in Key, NEW v \in Data, UpdateItem(k, v)
  PROVE  /\ Good(tree', db', row', phase', losses') /\ Updated(k, v)
         /\ phase' = phase /\ fault' = fault
<1> DEFINE depth == get_stack(k)
           p == Prefix(k, depth)
           leaf == Hashed([tree[p] EXCEPT !.item.data = v])
           t == Put(tree, p, leaf)
           a == dirty_up(t, k, depth)
           old == tree[p].item
<1>1. /\ phase = "up" /\ ~ is_transaction_tree /\ walk_to_leaf(k) # {}
      /\ leaf.hash = tree[p].hash =>
           tree' = t /\ UNCHANGED <<db, row, phase, fault>>
      /\ leaf.hash # tree[p].hash => Finish(tree, a, k, depth - 1)
  BY DEF UpdateItem, Unchanged
<1>2. /\ Whole(tree) /\ db = Empty
      /\ StoreOf(tree, db, row, phase) = MapOf(ItemsOf(tree))
  BY <1>1, UpIs
<1>3. /\ p \in DOMAIN tree /\ ~ is_inner(tree[p]) /\ tree[p].item.index = k
      /\ ItemsOf(t) = (ItemsOf(tree) \ {tree[p].item})
                        \cup {[index |-> k, data |-> v]}
      /\ leaf.hash = tree[p].hash => t = tree
      /\ leaf.hash # tree[p].hash =>
           /\ Whole(a)
           /\ ~ Refused(tree, a, k, depth - 1)
           /\ ItemsOf(a) = ItemsOf(t)
  BY <1>1, <1>2, UpdateIsWhole
<1> HIDE DEF a, t, leaf, p
<1>4. PICK s : /\ s = tree'
               /\ Whole(s) /\ ItemsOf(s) = ItemsOf(t)
               /\ db' = Empty /\ row' = row /\ phase' = "up" /\ fault' = fault
  BY <1>1, <1>2, <1>3 DEF Finish
<1>5. old \in ItemsOf(tree) /\ old.index = k
  BY <1>3 DEF ItemsOf
<1>6. ItemsOf(s) = (ItemsOf(tree) \ {old}) \cup {[index |-> k, data |-> v]}
  BY <1>3, <1>4
<1>7. /\ Holds(s, s, Empty, row, "up")
      /\ StoreOf(s, Empty, row, "up") = MapOf(ItemsOf(s))
  BY <1>4, UpWith
<1> DEFINE m == MapOf(ItemsOf(tree))
           n == MapOf(ItemsOf(s))
<1> HIDE DEF old
<1>8. k \in DOMAIN m /\ n = [m EXCEPT ![k] = v]
  BY <1>2, <1>4, <1>5, <1>6, UpdatedMap
<1> HIDE DEF m, n, depth
<1>9. StoreOf(tree, db, row, phase) = m /\ StoreOf(tree', db', row', phase') = n
  BY <1>2, <1>4, <1>7 DEF m, n
<1>10. Updated(k, v)
  BY <1>8, <1>9 DEF Updated
<1>11. Good(tree', db', row', phase', losses')
  BY <1>4, <1>7 DEF Good
<1> QED
  BY <1>1, <1>4, <1>10, <1>11

LEMMA SaveRowStep ==
  ASSUME TreeInv, SaveRow
  PROVE  Good(tree', db', row', phase', losses') /\ Silent
<1>1. /\ phase # "down" /\ row' = tree[<< >>].hash /\ phase' = "closing"
      /\ tree' = tree /\ db' = db
  BY DEF SaveRow
<1>2. PICK full : Holds(full, tree, db, row, phase)
  BY <1>1 DEF TreeInv, Good, Gone
<1>3. << >> \in DOMAIN tree /\ tree[<< >>] = full[<< >>]
  BY <1>1, <1>2, AwayHolds
<1> DEFINE r == tree[<< >>].hash
<1>4. Holds(full, tree, db, r, "closing")
  BY <1>2, <1>3 DEF Holds
<1>5. StoreOf(tree, db, r, "closing") = StoreOf(tree, db, row, phase)
  BY <1>2, <1>4, HoldsStore
<1> QED
  BY <1>1, <1>4, <1>5 DEF Good, Silent

LEMMA BackupStep ==
  ASSUME TreeInv, backup_to_database
  PROVE  Good(tree', db', row', phase', losses') /\ Silent
<1>1. phase = "closing" /\ row' = row /\ phase' = "down" /\ tree' = Empty
  BY DEF backup_to_database
<1>2. PICK full : Holds(full, tree, db, row, phase)
  BY <1>1 DEF TreeInv, Good, Gone
<1>3. Stored(full, tree, db) /\ row = full[<< >>].hash
  BY <1>1, <1>2 DEF Holds
<1>4. PICK d : d = db'
  OBVIOUS
<1>5. Stored(full, Empty, d)
  BY <1>3, <1>4, SaveAll DEF backup_to_database
<1>6. Holds(full, Empty, d, row, "down")
  BY <1>3, <1>5 DEF Holds
<1>7. StoreOf(Empty, d, row, "down") = StoreOf(tree, db, row, phase)
  BY <1>2, <1>6, HoldsStore
<1> QED
  BY <1>1, <1>4, <1>6, <1>7 DEF Good, Silent

\* A process that ends without the destructor takes all of the tree with it.
LEMMA DieStep ==
  ASSUME TreeInv, phase # "down", losses' = losses + 1,
         tree' = Empty, phase' = "down", db' = db,
         row' = row \/ row' = tree[<< >>].hash
  PROVE  /\ Good(tree', db', row', phase', losses')
         /\ StoreOf(tree', db', row', phase') = Empty
<1>1. PICK full : Holds(full, tree, db, row, phase)
  BY DEF TreeInv, Good, Gone
<1>5. PICK r : r = row'
  OBVIOUS
<1>6. r = row \/ r = full[<< >>].hash
  BY <1>1, <1>5, AwayHolds
<1>2. Gone(Empty, db, r, "down")
  BY <1>1, <1>6, Lost
<1>3. losses' > 0
  BY TreeAssumption DEF TreeInv
<1>4. StoreOf(Empty, db, r, "down") = Empty
  BY <1>2, GoneStore
<1> QED
  BY <1>2, <1>3, <1>4, <1>5 DEF Good

-----------------------------------------------------------------------------
LEMMA GoodKept ==
  ASSUME is_transaction_tree' = is_transaction_tree,
         Good(tree', db', row', phase', losses')
  PROVE  Good(tree, db, row, phase, losses)'
<1>1. CASE Gone(tree', db', row', phase') /\ (row' # NoRow => losses' > 0)
  BY <1>1 DEF Good, Gone, NoRow, Empty
<1>2. ASSUME NEW full, Holds(full, tree', db', row', phase')
      PROVE  Good(tree, db, row, phase, losses)'
  <2>1. Whole(full)'
    BY <1>2, WholeKept DEF Holds, Stored
  <2>2. Holds(full, tree, db, row, phase)'
    BY <1>2, <2>1 DEF Holds, Stored, Fcn, Empty, encode, Restrict
  <2> QED
    BY <2>2 DEF Good
<1> QED
  BY <1>1, <1>2 DEF Good

\* One step, of any kind.
LEMMA Step ==
  ASSUME TreeInv, Next
  PROVE  TreeInv'
<1> Depth \in Nat /\ MaxLosses \in Nat
  BY TreeAssumption
<1> DEFINE Control ==
      /\ phase' \in {"down", "loading", "up", "closing"}
      /\ fault' \in {"none", "fetch", "add", "set_child", "exit", "killed"}
      /\ losses' \in 0..MaxLosses
      /\ fault' # "set_child"
      /\ losses' = 0 => fault' = "none"
      /\ is_transaction_tree' = is_transaction_tree
<1>1. CASE StartFresh
  <2>1. Control
    BY <1>1 DEF StartFresh, TreeInv
  <2> QED
    BY <1>1, <2>1, StartFreshStep, GoodKept DEF TreeInv
<1>2. CASE StartFromRow
  <2>1. Control
    BY <1>2 DEF StartFromRow, TreeInv
  <2> QED
    BY <1>2, <2>1, StartFromRowStep, GoodKept DEF TreeInv
<1>3. CASE StartFails
  <2>1. Control
    BY <1>3, StartFailsStep DEF StartFails, Die, TreeInv
  <2> QED
    BY <1>3, <2>1, StartFailsStep, GoodKept DEF TreeInv
<1>4. ASSUME NEW p \in DOMAIN tree, NEW b \in Branch, descend(p, b)
      PROVE  TreeInv'
  <2>1. /\ Good(tree', db', row', phase', losses')
        /\ phase' = phase /\ fault' = fault
    BY <1>4, DescendStep
  <2>2. Control
    BY <1>4, <2>1 DEF descend, TreeInv
  <2> QED
    BY <2>1, <2>2, GoodKept DEF TreeInv
<1>5. CASE FetchFromDbDone
  <2>1. Control
    BY <1>5 DEF FetchFromDbDone, TreeInv
  <2> QED
    BY <1>5, <2>1, FetchFromDbDoneStep, GoodKept DEF TreeInv
<1>6. ASSUME NEW k \in Key, NEW v \in DataOf(k), AddItem(k, v)
      PROVE  TreeInv'
  <2>1. /\ Good(tree', db', row', phase', losses')
        /\ phase' = phase /\ fault' = fault
    BY <1>6, AddItemStep
  <2>2. Control
    BY <1>6, <2>1 DEF AddItem, Finish, TreeInv
  <2> QED
    BY <2>1, <2>2, GoodKept DEF TreeInv
<1>7. ASSUME NEW k \in Key, NEW v \in DataOf(k), SplitLeaf(k, v)
      PROVE  TreeInv'
  <2>1. /\ Good(tree', db', row', phase', losses')
        /\ phase' = phase /\ fault' = fault
    BY <1>7, SplitLeafStep
  <2>2. Control
    BY <1>7, <2>1 DEF SplitLeaf, Finish, TreeInv
  <2> QED
    BY <2>1, <2>2, GoodKept DEF TreeInv
<1>8. ASSUME NEW k \in Key, AddItemAgain(k)
      PROVE  TreeInv'
  <2>1. Good(tree', db', row', phase', losses')
    BY <1>8, DieStep DEF AddItemAgain, Die
  <2>2. Control
    BY <1>8 DEF AddItemAgain, Die, TreeInv
  <2> QED
    BY <2>1, <2>2, GoodKept DEF TreeInv
<1>9. ASSUME NEW k \in Key, NEW v \in Data, UpdateItem(k, v)
      PROVE  TreeInv'
  <2>1. /\ Good(tree', db', row', phase', losses')
        /\ phase' = phase /\ fault' = fault
    BY <1>9, UpdateItemStep
  <2>2. Control
    BY <1>9, <2>1 DEF UpdateItem, Finish, TreeInv
  <2> QED
    BY <2>1, <2>2, GoodKept DEF TreeInv
<1>10. CASE SaveRow
  <2>1. Control
    BY <1>10 DEF SaveRow, TreeInv
  <2> QED
    BY <1>10, <2>1, SaveRowStep, GoodKept DEF TreeInv
<1>11. CASE backup_to_database
  <2>1. Control
    BY <1>11 DEF backup_to_database, TreeInv
  <2> QED
    BY <1>11, <2>1, BackupStep, GoodKept DEF TreeInv
<1>12. CASE Crash
  <2>1. Good(tree', db', row', phase', losses')
    BY <1>12, DieStep DEF Crash, Die
  <2>2. Control
    BY <1>12 DEF Crash, Die, TreeInv
  <2> QED
    BY <2>1, <2>2, GoodKept DEF TreeInv
<1>13. CASE ExitLoading
  <2>1. Good(tree', db', row', phase', losses')
    BY <1>13, DieStep DEF ExitLoading, Die
  <2>2. Control
    BY <1>13 DEF ExitLoading, Die, TreeInv
  <2> QED
    BY <2>1, <2>2, GoodKept DEF TreeInv
<1> QED
  BY <1>1, <1>2, <1>3, <1>4, <1>5, <1>6, <1>7, <1>8, <1>9, <1>10, <1>11,
     <1>12, <1>13 DEF Next

(***************************************************************************)
(* In every state there is one whole tree, each node of it either in       *)
(* memory or in the database and nowhere else, or the root that the row    *)
(* names has gone with a process that was killed, or stopped while         *)
(* fetch_from_db was at the tree; so the operations of                     *)
(* radix_merkle_tree.cpp always start from a tree without a gap.           *)
(***************************************************************************)
THEOREM TreeInvariant == Spec => []TreeInv
<1>1. Init => TreeInv
  <2> SUFFICES ASSUME Init PROVE TreeInv
    OBVIOUS
  <2>1. Gone(tree, db, row, phase)
    BY EmptyIs DEF Init, Gone
  <2> QED
    BY <2>1, TreeAssumption DEF Init, TreeInv, Good
<1>2. TreeInv /\ [Next]_vars => TreeInv'
  <2> SUFFICES ASSUME TreeInv, [Next]_vars PROVE TreeInv'
    OBVIOUS
  <2>1. CASE Next
    BY <2>1, Step
  <2>2. CASE UNCHANGED vars
    <3>1. /\ tree' = tree /\ db' = db /\ row' = row /\ phase' = phase
          /\ fault' = fault /\ losses' = losses
          /\ is_transaction_tree' = is_transaction_tree
      BY <2>2 DEF vars
    <3>2. Good(tree', db', row', phase', losses')
      BY <3>1 DEF TreeInv
    <3> QED
      BY <3>1, <3>2, GoodKept DEF TreeInv
  <2> QED
    BY <2>1, <2>2
<1> QED
  BY <1>1, <1>2, PTL DEF Spec

-----------------------------------------------------------------------------
\* The nodes in memory are nodes of one whole tree.
LEMMA InMemory ==
  ASSUME TreeInv
  PROVE  \/ tree = Empty /\ phase = "down"
         \/ \E full : /\ Whole(full) /\ Stored(full, tree, db)
                      /\ DOMAIN tree \subseteq DOMAIN full
                      /\ \A p \in DOMAIN tree : tree[p] = full[p]
                      /\ << >> \in DOMAIN tree /\ phase # "down"
  BY DEF TreeInv, Good, Gone, Holds, Stored

(***************************************************************************)
(* Nodes are at prefixes of the indices below them, leaves with data of    *)
(* their kind of tree, and memory is empty exactly while the server is     *)
(* down.                                                                   *)
(***************************************************************************)
THEOREM TypeCorrect == Spec => []TypeOK
<1>1. TreeInv => TypeOK
  <2> SUFFICES ASSUME TreeInv PROVE TypeOK
    OBVIOUS
  <2>1. /\ phase \in {"down", "loading", "up", "closing"}
        /\ fault \in {"none", "fetch", "add", "set_child", "exit", "killed"}
        /\ losses \in 0..MaxLosses
    BY DEF TreeInv
  <2>2. CASE tree = Empty /\ phase = "down"
    BY <2>1, <2>2, EmptyIs DEF TypeOK
  <2>3. ASSUME NEW full, Whole(full), DOMAIN tree \subseteq DOMAIN full,
               \A p \in DOMAIN tree : tree[p] = full[p],
               << >> \in DOMAIN tree, phase # "down"
        PROVE  TypeOK
    <3>1. tree # Empty
      BY <2>3, EmptyIs
    <3>2. ASSUME NEW p \in DOMAIN tree
          PROVE  /\ \E k \in Key : p = Prefix(k, Len(p))
                 /\ ~ is_inner(tree[p]) =>
                      LET item == tree[p].item
                      IN  /\ item.index \in Key
                          /\ p = Prefix(item.index, Len(p))
                          /\ item.data \in DataOf(item.index)
      <4>1. p \in DOMAIN full /\ tree[p] = full[p]
        BY <2>3
      <4>2. /\ \E k \in Key : p = Prefix(k, Len(p))
            /\ ~ is_inner(full[p]) => LeafAt(full, p)
        BY <2>3, <4>1, WholeNode
      <4> QED
        BY <4>1, <4>2 DEF LeafAt
    <3> QED
      BY <2>1, <2>3, <3>1, <3>2 DEF TypeOK
  <2> QED
    BY <2>2, <2>3, InMemory
<1> QED
  BY <1>1, TreeInvariant, PTL

(***************************************************************************)
(* Whatever dirty_up and the splitting of leaves did, every inner node in  *)
(* memory is hashed over what it holds and holds the hashes that its       *)
(* children have.                                                          *)
(***************************************************************************)
THEOREM MerkleLinksHold == Spec => []MerkleLinks
<1>1. TreeInv => MerkleLinks
  <2> SUFFICES ASSUME TreeInv, NEW p \in DOMAIN tree, is_inner(tree[p])
               PROVE  /\ tree[p].hash = update_hash(tree[p])
                      /\ \A b \in Branch :
                           Append(p, b) \in DOMAIN tree =>
                             tree[p].children_hash[b] = tree[Append(p, b)].hash
    BY DEF MerkleLinks
  <2>1. PICK full : /\ Whole(full) /\ DOMAIN tree \subseteq DOMAIN full
                    /\ \A x \in DOMAIN tree : tree[x] = full[x]
    BY InMemory, EmptyIs
  <2>2. p \in DOMAIN full /\ tree[p] = full[p]
    BY <2>1
  <2>3. InnerAt(full, p)
    BY <2>1, <2>2, WholeNode
  <2>4. ASSUME NEW b \in Branch, Append(p, b) \in DOMAIN tree
        PROVE  tree[p].children_hash[b] = tree[Append(p, b)].hash
    <3>1. Append(p, b) \in DOMAIN full /\ tree[Append(p, b)] = full[Append(p, b)]
      BY <2>1, <2>4
    <3>2. full[p].children_hash[b] = full[Append(p, b)].hash
      BY <2>1, <2>2, <2>3, <3>1, ChildLink
    <3> QED
      BY <2>2, <3>1, <3>2
  <2> QED
    BY <2>2, <2>3, <2>4 DEF InnerAt
<1> QED
  BY <1>1, TreeInvariant, PTL

(***************************************************************************)
(* No two nodes share a hash, in memory or in the database: not two        *)
(* leaves, though a leaf is hashed by its index when it is made and over   *)
(* its data when it is changed, and not two inner nodes, each of which     *)
(* holds some leaf that the other does not.                                *)
(***************************************************************************)
THEOREM HashesUnique == Spec => []UniqueHash
<1>1. TreeInv => UniqueHash
  <2> SUFFICES ASSUME TreeInv, NEW p \in DOMAIN tree
               PROVE  /\ tree[p].hash \notin DOMAIN db
                      /\ \A q \in DOMAIN tree : tree[p].hash = tree[q].hash => p = q
    BY DEF UniqueHash
  <2>1. PICK full : /\ Whole(full) /\ DOMAIN tree \subseteq DOMAIN full
                    /\ \A x \in DOMAIN tree : tree[x] = full[x]
                    /\ Stored(full, tree, db)
    BY InMemory, EmptyIs
  <2>2. \A q \in DOMAIN full : full[p].hash = full[q].hash => p = q
    BY <2>1, HashUnique
  <2>3. DOMAIN db = {full[x].hash : x \in DOMAIN full \ DOMAIN tree}
    BY <2>1 DEF Stored
  <2> QED
    BY <2>1, <2>2, <2>3
<1> QED
  BY <1>1, TreeInvariant, PTL

(***************************************************************************)
(* get_stack and walk_to_leaf of the running server find for every index   *)
(* what the leaves hold for it, and nothing where there is no such leaf.   *)
(***************************************************************************)
THEOREM LookupsAreRight == Spec => []LookupsFindLeaves
<1>1. TreeInv => LookupsFindLeaves
  <2> SUFFICES ASSUME TreeInv, phase = "up", NEW k \in Key
               PROVE  walk_to_leaf(k) = {item \in Items : item.index = k}
    BY DEF LookupsFindLeaves
  <2>1. Whole(tree) /\ db = Empty
    BY UpIs
  <2>2. Items = ItemsOf(tree) \cup ItemsOf(db)
    BY DEF Items, ItemsOf
  <2>3. Items = ItemsOf(tree)
    BY <2>1, <2>2, EmptyIs
  <2> QED
    BY <2>1, <2>3, WalkIs
<1> QED
  BY <1>1, TreeInvariant, PTL

(***************************************************************************)
(* No assertion on set_child (radix_merkle_tree.cpp:127, 152, 157, 176)    *)
(* ever fails, and as long as every process has ended with the destructor  *)
(* of the tree, a stop during fetch_from_db not being one that does,       *)
(* neither does a fetch from the database (rocksdb_imp.cpp:65) or the      *)
(* check that an index is new.                                             *)
(***************************************************************************)
THEOREM NoAssertionFails == Spec => []NoFault
<1>1. TreeInv => NoFault
  BY DEF TreeInv, NoFault
<1> QED
  BY <1>1, TreeInvariant, PTL

-----------------------------------------------------------------------------
\* The hashes at depth n of a tree.
HashesAt(full, n) == {full[p].hash : p \in {x \in DOMAIN full : Len(x) = n}}

LEMMA OnDisk ==
  ASSUME NEW full, Stored(full, Empty, db)
  PROVE  /\ Whole(full)
         /\ DOMAIN db = {full[p].hash : p \in DOMAIN full}
         /\ \A p \in DOMAIN full :
              /\ full[p].hash \in DOMAIN db
              /\ is_inner(db[full[p].hash]) <=> is_inner(full[p])
              /\ is_inner(full[p]) =>
                   /\ InnerAt(full, p)
                   /\ db[full[p].hash].children_hash = full[p].children_hash
<1>1. /\ Whole(full)
      /\ DOMAIN db = {full[p].hash : p \in DOMAIN full}
      /\ \A p \in DOMAIN full : db[full[p].hash] = encode(full[p])
  BY EmptyIs DEF Stored
<1>2. ASSUME NEW p \in DOMAIN full
      PROVE  /\ full[p].hash \in DOMAIN db
             /\ is_inner(db[full[p].hash]) <=> is_inner(full[p])
             /\ is_inner(full[p]) =>
                  /\ InnerAt(full, p)
                  /\ db[full[p].hash].children_hash = full[p].children_hash
  <2> DEFINE n == full[p]
  <2>1. /\ InnerNode(n) \/ LeafNode(n)
        /\ is_inner(n) => InnerNode(n) /\ InnerAt(full, p)
    BY <1>1, WholeNode
  <2>2. n.hash \in DOMAIN db /\ db[n.hash] = encode(n)
    BY <1>1
  <2> HIDE DEF n
  <2>3. /\ is_inner(encode(n)) <=> is_inner(n)
        /\ is_inner(n) => encode(n).children_hash = n.children_hash
    BY <2>1, StoredAndFetched
  <2> QED
    BY <2>1, <2>2, <2>3 DEF n
<1> QED
  BY <1>1, <1>2

LEMMA NextLevel ==
  ASSUME NEW full, Stored(full, Empty, db), NEW n \in 0..(Depth - 1)
  PROVE  Below(HashesAt(full, n)) = HashesAt(full, n + 1)
<1> Depth \in Nat
  BY TreeAssumption
<1>1. /\ Whole(full)
      /\ \A p \in DOMAIN full :
           /\ full[p].hash \in DOMAIN db
           /\ is_inner(db[full[p].hash]) <=> is_inner(full[p])
           /\ is_inner(full[p]) =>
                /\ InnerAt(full, p)
                /\ db[full[p].hash].children_hash = full[p].children_hash
  BY OnDisk
<1>2. ASSUME NEW h \in Below(HashesAt(full, n))
      PROVE  h \in HashesAt(full, n + 1)
  <2>1. h # Zero /\ \E x \in HashesAt(full, n), b \in Branch :
                      is_inner(db[x]) /\ h = db[x].children_hash[b]
    BY DEF Below
  <2>2. PICK x \in HashesAt(full, n), b \in Branch :
               is_inner(db[x]) /\ h = db[x].children_hash[b]
    BY <2>1
  <2>3. PICK p \in DOMAIN full : Len(p) = n /\ x = full[p].hash
    BY DEF HashesAt
  <2>4. InnerAt(full, p) /\ h = full[p].children_hash[b]
    BY <1>1, <2>2, <2>3
  <2>5. Append(p, b) \in DOMAIN full /\ h = full[Append(p, b)].hash
    BY <1>1, <2>1, <2>4, ChildLink
  <2>6. p \in Seq(Branch)
    BY <1>1, WholeNode
  <2>7. Len(Append(p, b)) = n + 1
    BY <2>3, <2>6
  <2> QED
    BY <2>5, <2>7 DEF HashesAt
<1>3. ASSUME NEW h \in HashesAt(full, n + 1)
      PROVE  h \in Below(HashesAt(full, n))
  <2>1. PICK q \in DOMAIN full : Len(q) = n + 1 /\ h = full[q].hash
    BY DEF HashesAt
  <2>2. PICK k \in Key : q = Prefix(k, n + 1)
    BY <1>1, <2>1, WholeNode
  <2> DEFINE m == n + 1
             p == Prefix(k, n)
             b == select_branch(k, n)
  <2>3. m \in 0..Depth /\ n \in 0..(m - 1) /\ n \in 0..Depth
    OBVIOUS
  <2>4. Append(p, b) = q /\ b \in Branch /\ Len(p) = n
    BY <2>2, <2>3, PrefixNext, PrefixIs
  <2>5. p \in DOMAIN full /\ is_inner(full[p])
    <3>1. Prefix(k, m) \in DOMAIN full
      BY <2>2
    <3> HIDE DEF m
    <3> QED
      BY <1>1, <2>3, <3>1, Ancestors
  <2> HIDE DEF p, b, m
  <2>6. InnerAt(full, p)
    BY <1>1, <2>5
  <2>7. full[p].children_hash[b] = h /\ h # Zero
    <3>1. Append(p, b) \in DOMAIN full /\ full[Append(p, b)].hash = h
      BY <2>1, <2>4
    <3>2. /\ full[p].children_hash[b] = full[Append(p, b)].hash
          /\ full[p].children_hash[b] # Zero
      BY <1>1, <2>4, <2>5, <2>6, <3>1, ChildLink
    <3> QED
      BY <3>1, <3>2
  <2> DEFINE x == full[p].hash
  <2>8. x \in HashesAt(full, n) \cap DOMAIN db /\ is_inner(db[x])
        /\ h = db[x].children_hash[b]
    BY <1>1, <2>4, <2>5, <2>7 DEF HashesAt
  <2> HIDE DEF x
  <2> QED
    BY <2>4, <2>7, <2>8 DEF Below
<1> QED
  BY <1>2, <1>3

\* What a load from the row asks for is what is on disk.
LEMMA ReachableIs ==
  ASSUME NEW full, Stored(full, Empty, db), row = full[<< >>].hash
  PROVE  Reachable = DOMAIN db
<1> Depth \in Nat
  BY TreeAssumption
<1>1. Whole(full) /\ DOMAIN db = {full[p].hash : p \in DOMAIN full}
  BY OnDisk
<1> DEFINE Levels(g) ==
             g = [n \in 0..Depth |-> IF n = 0 THEN {row} ELSE Below(g[n - 1])]
           At(n) == HashesAt(full, n)
           f == [n \in 0..Depth |-> At(n)]
           level == CHOOSE g : Levels(g)
<1>2. At(0) = {row}
  <2>1. << >> \in DOMAIN full /\ Len(<< >>) = 0
    BY <1>1 DEF Whole
  <2>2. \A p \in DOMAIN full : Len(p) = 0 => p = << >>
    <3> SUFFICES ASSUME NEW p \in DOMAIN full, Len(p) = 0
                 PROVE  p = << >>
      OBVIOUS
    <3>1. p \in Seq(Branch)
      BY <1>1, WholeNode
    <3> QED
      BY <3>1
  <2> QED
    BY <2>1, <2>2 DEF HashesAt
<1>3. \A n \in 1..Depth : At(n) = Below(At(n - 1))
  <2> SUFFICES ASSUME NEW n \in 1..Depth
               PROVE  At(n) = Below(At(n - 1))
    OBVIOUS
  <2> DEFINE m == n - 1
  <2>1. m \in 0..(Depth - 1) /\ m + 1 = n
    OBVIOUS
  <2> HIDE DEF m
  <2>2. Below(HashesAt(full, m)) = HashesAt(full, m + 1)
    BY <2>1, NextLevel
  <2> QED
    BY <2>1, <2>2 DEF m
<1> HIDE DEF At
<1>4. Levels(f)
  <2> DEFINE F(n) == IF n = 0 THEN {row} ELSE Below(f[n - 1])
  <2> SUFFICES \A n \in 0..Depth : At(n) = F(n)
    OBVIOUS
  <2> SUFFICES ASSUME NEW n \in 0..Depth
               PROVE  At(n) = F(n)
    OBVIOUS
  <2>1. CASE n = 0
    BY <1>2, <2>1
  <2>2. CASE n # 0
    <3>1. n \in 1..Depth /\ n - 1 \in 0..Depth
      BY <2>2
    <3>2. f[n - 1] = At(n - 1)
      BY <3>1
    <3> QED
      BY <1>3, <2>2, <3>1, <3>2
  <2> QED
    BY <2>1, <2>2
<1>5. Levels(level)
  <2> HIDE DEF Levels
  <2> QED
    BY <1>4, Zenon
<1>6. Reachable = UNION {level[n] : n \in 0..Depth}
  BY Zenon DEF Reachable
<1> HIDE DEF level
<1>7. /\ \A n \in 1..Depth : level[n] = Below(level[n - 1])
      /\ level[0] = {row}
  <2> DEFINE G(n) == IF n = 0 THEN {row} ELSE Below(level[n - 1])
             F == [n \in 0..Depth |-> G(n)]
  <2>1. level = F
    BY <1>5
  <2> HIDE DEF G
  <2>2. \A n \in 0..Depth : F[n] = G(n)
    OBVIOUS
  <2> HIDE DEF F
  <2>3. \A n \in 0..Depth : level[n] = G(n)
    BY <2>1, <2>2
  <2>4. \A n \in 1..Depth : n \in 0..Depth /\ n # 0
    OBVIOUS
  <2> QED
    <3>1. level[0] = {row}
      BY <2>3 DEF G
    <3>2. ASSUME NEW n \in 1..Depth
          PROVE  level[n] = Below(level[n - 1])
      <4>1. level[n] = G(n) /\ n # 0
        BY <2>3, <2>4
      <4> QED
        BY <4>1 DEF G
    <3> QED
      BY <3>1, <3>2
<1> HIDE DEF Levels
<1> DEFINE S == {n \in Nat : n <= Depth => level[n] = At(n)}
<1>8. Nat \subseteq S
  <2>1. 0 \in S
    BY <1>2, <1>7
  <2>2. \A n \in Nat : n \in S => n + 1 \in S
    <3> SUFFICES ASSUME NEW n \in Nat, n \in S, n + 1 <= Depth
                 PROVE  level[n + 1] = At(n + 1)
      OBVIOUS
    <3> DEFINE m == n + 1
    <3>1. m \in 1..Depth /\ m - 1 = n /\ level[n] = At(n)
      OBVIOUS
    <3> HIDE DEF m
    <3>2. level[m] = Below(level[m - 1]) /\ At(m) = Below(At(m - 1))
      BY <1>3, <1>7, <3>1
    <3> QED
      BY <3>1, <3>2 DEF m
  <2> HIDE DEF S
  <2> QED
    BY <2>1, <2>2, SetInduction
<1>9. \A n \in 0..Depth : level[n] = At(n)
  BY <1>8
<1>10. \A p \in DOMAIN full : Len(p) \in 0..Depth
  BY <1>1, WholeNode
<1>11. \A h : h \in Reachable <=> \E n \in 0..Depth : h \in At(n)
  BY <1>6, <1>9
<1>12. \A h : h \in DOMAIN db <=> \E n \in 0..Depth : h \in At(n)
  BY <1>1, <1>10 DEF At, HashesAt
<1> QED
  BY <1>11, <1>12

(***************************************************************************)
(* Between two processes the disk holds nothing, the whole tree of the row *)
(* and nothing else, or a tree whose root is missing: backup_to_database   *)
(* leaves no node out, and because fetch deletes what it reads, no node of *)
(* an older tree stays behind.                                             *)
(***************************************************************************)
THEOREM DiskIsWholeOrNothing == Spec => []WholeOrNothing
<1>1. TreeInv => WholeOrNothing
  <2> SUFFICES ASSUME TreeInv, phase = "down"
               PROVE  \/ row = NoRow /\ db = Empty
                      \/ row # NoRow /\ row \notin DOMAIN db
                      \/ row # NoRow /\ DOMAIN db = Reachable
    BY DEF WholeOrNothing
  <2>1. CASE Gone(tree, db, row, phase)
    BY <2>1 DEF Gone
  <2>2. ASSUME NEW full, Holds(full, tree, db, row, phase)
        PROVE  row # NoRow /\ DOMAIN db = Reachable
    <3>1. tree = Empty /\ row = full[<< >>].hash /\ row # NoRow
      BY <2>2, DownHolds
    <3>2. Stored(full, Empty, db)
      BY <2>2, <3>1 DEF Holds
    <3> QED
      BY <3>1, <3>2, ReachableIs
  <2> QED
    BY <2>1, <2>2 DEF TreeInv, Good
<1> QED
  BY <1>1, TreeInvariant, PTL

-----------------------------------------------------------------------------
\* The refinement mapping, spelled out.
LEMMA StoreIs ==
  /\ (IF Readable THEN Content ELSE Empty) = StoreOf(tree, db, row, phase)
  /\ (IF Readable THEN Content ELSE Empty)' = StoreOf(tree', db', row', phase')
<1>1. Items = ItemsOf(tree) \cup ItemsOf(db)
  BY DEF Items, ItemsOf
<1>2. Items' = ItemsOf(tree') \cup ItemsOf(db')
  BY DEF Items, ItemsOf, is_inner
<1>3. Content = MapOf(Items) /\ Content' = MapOf(Items')
  BY Zenon DEF Content, MapOf
<1>4. Readable <=> phase # "down" \/ row = NoRow \/ row \in DOMAIN db
  BY DEF Readable
<1>5. Readable' <=> phase' # "down" \/ row' = NoRow \/ row' \in DOMAIN db'
  BY DEF Readable, NoRow
<1>6. Empty' = Empty
  BY DEF Empty
<1> QED
  BY <1>1, <1>2, <1>3, <1>4, <1>5, <1>6 DEF StoreOf

(***************************************************************************)
(* The tree with its database, the row and the start and stop of the       *)
(* server is a durable map: add_given_item adds an index that is new,      *)
(* update_given_item replaces, a shutdown and a start change nothing, and  *)
(* a process that is killed, or is stopped while fetch_from_db is at the   *)
(* tree, empties the map as a whole.                                       *)
(***************************************************************************)
THEOREM TreeIsDurableStore == Spec => IsDurableStore
<1> DEFINE s == IF Readable THEN Content ELSE Empty
<1>1. Init => Store!Init
  <2> SUFFICES ASSUME Init PROVE Store!Init
    OBVIOUS
  <2>1. Gone(tree, db, row, phase)
    BY EmptyIs DEF Init, Gone
  <2>2. s = Empty
    BY <2>1, StoreIs, GoneStore
  <2> QED
    BY <2>2 DEF Init, Store!Init, Empty
<1>2. TreeInv /\ [Next]_vars => [Store!Next]_Store!vars
  <2> SUFFICES ASSUME TreeInv, [Next]_vars
               PROVE  [Store!Next]_Store!vars
    OBVIOUS
  <2>1. /\ s = StoreOf(tree, db, row, phase)
        /\ s' = StoreOf(tree', db', row', phase')
    BY StoreIs
  <2> HIDE DEF s
  <2>2. ASSUME s' = s, losses' = losses
        PROVE  [Store!Next]_Store!vars
    <3>1. CASE phase = "up" /\ phase' # "up"
      BY <2>2, <3>1 DEF Store!Next, Store!Close, s
    <3>2. CASE phase # "up" /\ phase' = "up"
      BY <2>2, <3>2 DEF Store!Next, Store!Open, s
    <3>3. CASE (phase = "up") = (phase' = "up")
      BY <2>2, <3>3 DEF Store!vars, s
    <3> QED
      BY <3>1, <3>2, <3>3
  <2>3. ASSUME NEW k \in Key, NEW v \in Data \cup Key, Added(k, v),
               phase = "up", phase' = phase, losses' = losses
        PROVE  Store!Next
    <3>1. Store!Add(k, v)
      BY <2>1, <2>3 DEF Added, Store!Add, s
    <3> QED
      BY <3>1 DEF Store!Next
  <2>4. ASSUME NEW k \in Key, NEW v \in Data, Updated(k, v),
               phase = "up", phase' = phase, losses' = losses
        PROVE  Store!Next
    <3>1. Store!Update(k, v)
      BY <2>1, <2>4 DEF Updated, Store!Update, s
    <3> QED
      BY <3>1 DEF Store!Next
  <2>5. ASSUME phase # "down", losses' = losses + 1,
               tree' = Empty, phase' = "down", db' = db,
               row' = row \/ row' = tree[<< >>].hash
        PROVE  Store!Next
    <3>1. s' = Empty
      BY <2>1, <2>5, DieStep
    <3> QED
      BY <2>5, <3>1 DEF Store!Next, Store!Lose, Empty, s
  <2>6. \A k \in Key : DataOf(k) \subseteq Data \cup Key
    BY DEF DataOf
  <2>7. CASE StartFresh
    BY <2>1, <2>2, <2>7, StartFreshStep DEF Silent, StartFresh
  <2>8. CASE StartFromRow
    BY <2>1, <2>2, <2>8, StartFromRowStep DEF Silent, StartFromRow
  <2>9. CASE StartFails
    BY <2>1, <2>2, <2>9, StartFailsStep DEF Silent, StartFails
  <2>10. ASSUME NEW p \in DOMAIN tree, NEW b \in Branch, descend(p, b)
         PROVE  [Store!Next]_Store!vars
    <3>1. Silent /\ losses' = losses
      BY <2>10, DescendStep DEF descend
    <3> QED
      BY <2>1, <2>2, <3>1 DEF Silent
  <2>11. CASE FetchFromDbDone
    BY <2>1, <2>2, <2>11, FetchFromDbDoneStep DEF Silent, FetchFromDbDone
  <2>12. ASSUME NEW k \in Key, NEW v \in DataOf(k), AddItem(k, v)
         PROVE  Store!Next
    <3>1. Added(k, v) /\ phase' = phase
      BY <2>12, AddItemStep
    <3>2. phase = "up" /\ losses' = losses
      BY <2>12 DEF AddItem, Finish
    <3> QED
      BY <2>3, <2>6, <3>1, <3>2
  <2>13. ASSUME NEW k \in Key, NEW v \in DataOf(k), SplitLeaf(k, v)
         PROVE  Store!Next
    <3>1. Added(k, v) /\ phase' = phase
      BY <2>13, SplitLeafStep
    <3>2. phase = "up" /\ losses' = losses
      BY <2>13 DEF SplitLeaf, Finish
    <3> QED
      BY <2>3, <2>6, <3>1, <3>2
  <2>14. ASSUME NEW k \in Key, AddItemAgain(k)
         PROVE  Store!Next
    BY <2>5, <2>14 DEF AddItemAgain, Die
  <2>15. ASSUME NEW k \in Key, NEW v \in Data, UpdateItem(k, v)
         PROVE  Store!Next
    <3>1. Updated(k, v) /\ phase' = phase
      BY <2>15, UpdateItemStep
    <3>2. phase = "up" /\ losses' = losses
      BY <2>15 DEF UpdateItem, Finish
    <3> QED
      BY <2>4, <3>1, <3>2
  <2>16. CASE SaveRow
    BY <2>1, <2>2, <2>16, SaveRowStep DEF Silent, SaveRow
  <2>17. CASE backup_to_database
    BY <2>1, <2>2, <2>17, BackupStep DEF Silent, backup_to_database
  <2>18. CASE Crash
    BY <2>5, <2>18 DEF Crash, Die
  <2>20. CASE ExitLoading
    BY <2>5, <2>20 DEF ExitLoading, Die
  <2>19. CASE UNCHANGED vars
    <3>1. s' = s /\ losses' = losses
      BY <2>1, <2>19 DEF vars
    <3> QED
      BY <2>2, <3>1
  <2> QED
    BY <2>7, <2>8, <2>9, <2>10, <2>11, <2>12, <2>13, <2>14, <2>15, <2>16,
       <2>17, <2>18, <2>19, <2>20 DEF Next
<1> QED
  BY <1>1, <1>2, TreeInvariant, PTL DEF Spec, IsDurableStore, Store!Spec
==============================================================================
