---------------------------- MODULE SequenceFacts ----------------------------
(***************************************************************************)
(* Induction over the numbers, and from it what FlattenSeq of the          *)
(* community modules computes.                                             *)
(***************************************************************************)
EXTENDS Integers, SequencesExt, SequenceTheorems, WellFoundedInduction, TLAPS

\* A set with 0 and, with each number, the next one holds all of them.
LEMMA SetInduction ==
  ASSUME NEW S, 0 \in S, \A n \in Nat : n \in S => n + 1 \in S
  PROVE  Nat \subseteq S
<1> DEFINE T == Nat \ S
<1> SUFFICES ASSUME T # {} PROVE FALSE
  OBVIOUS
<1>1. \E x \in T : \A y \in T : ~ (<<y, x>> \in OpToRel(<, Nat))
  BY WFMin, NatLessThanWellFounded
<1>2. PICK x \in T : \A y \in T : ~ (<<y, x>> \in OpToRel(<, Nat))
  BY <1>1
<1>3. \A y \in T : ~ (y < x)
  BY <1>2 DEF OpToRel
<1>4. x # 0 /\ x - 1 \in Nat
  OBVIOUS
<1>5. x - 1 \in T
  BY <1>4
<1> QED
  BY <1>3, <1>5

\* f is the recursion on 0..n from b with the step G.
Recurs(f, b, G, S, n) ==
  /\ f \in [0..n -> S]
  /\ f[0] = b
  /\ \A i \in 1..n : f[i] = G[<<i, f[i - 1]>>]

\* A function on a segment of the numbers can be defined by recursion.
LEMMA Recursion ==
  ASSUME NEW S, NEW b \in S, NEW N \in Nat, NEW G \in [(1..N) \X S -> S]
  PROVE  \E f : Recurs(f, b, G, S, N)
<1> DEFINE T == {n \in Nat : n <= N => \E f : Recurs(f, b, G, S, n)}
<1>1. 0 \in T
  <2> DEFINE f == [i \in 0..0 |-> b]
  <2>1. Recurs(f, b, G, S, 0)
    BY DEF Recurs
  <2> QED
    BY <2>1
<1>2. \A n \in Nat : n \in T => n + 1 \in T
  <2> SUFFICES ASSUME NEW n \in Nat, n \in T, n + 1 <= N
               PROVE  \E g : Recurs(g, b, G, S, n + 1)
    OBVIOUS
  <2>1. PICK f : Recurs(f, b, G, S, n)
    OBVIOUS
  <2> DEFINE last == G[<<n + 1, f[n]>>]
             g == [i \in 0..(n + 1) |-> IF i = n + 1 THEN last ELSE f[i]]
  <2>2. f[n] \in S /\ n + 1 \in 1..N
    BY <2>1 DEF Recurs
  <2>3. last \in S
    BY <2>2
  <2> HIDE DEF last
  <2>4. g \in [0..(n + 1) -> S] /\ g[0] = b
    BY <2>1, <2>3 DEF Recurs
  <2>5. ASSUME NEW i \in 1..(n + 1)
        PROVE  g[i] = G[<<i, g[i - 1]>>]
    <3>1. CASE i = n + 1
      <4>1. g[i] = last /\ g[i - 1] = f[n]
        BY <3>1
      <4> HIDE DEF g
      <4> QED
        BY <3>1, <4>1 DEF last
    <3>2. CASE i \in 1..n
      <4>1. g[i] = f[i] /\ g[i - 1] = f[i - 1]
        BY <3>2
      <4>2. f[i] = G[<<i, f[i - 1]>>]
        BY <2>1, <3>2 DEF Recurs
      <4> HIDE DEF g
      <4> QED
        BY <4>1, <4>2
    <3> QED
      BY <3>1, <3>2
  <2> HIDE DEF g
  <2> QED
    BY <2>4, <2>5 DEF Recurs
<1>3. Nat \subseteq T
  <2> HIDE DEF T
  <2> QED
    BY <1>1, <1>2, SetInduction
<1> QED
  BY <1>3

\* f holds what FlattenSeq makes of the first i sequences, for i up to n.
Flattens(f, s, n) ==
  f = [i \in 1..n |-> IF i = 1 THEN s[i] ELSE f[i - 1] \o s[i]]

\* Such a function can be had for one sequence more.
LEMMA FlattensFurther ==
  ASSUME NEW s, NEW n \in Nat, NEW f, Flattens(f, s, n)
  PROVE  \E g : Flattens(g, s, n + 1)
<1> DEFINE last == IF n = 0 THEN s[1] ELSE f[n] \o s[n + 1]
           g == [i \in 1..(n + 1) |-> IF i <= n THEN f[i] ELSE last]
           h == [i \in 1..(n + 1) |-> IF i = 1 THEN s[i] ELSE g[i - 1] \o s[i]]
<1>0. ASSUME NEW i \in 1..(n + 1)
      PROVE  /\ i > n => g[i] = last
             /\ h[i] = IF i = 1 THEN s[i] ELSE g[i - 1] \o s[i]
  <2> HIDE DEF last
  <2> QED
    OBVIOUS
<1>1. ASSUME NEW i \in 1..(n + 1)
      PROVE  g[i] = h[i]
  <2>1. CASE i = n + 1
    <3>1. CASE n = 0
      BY <2>1, <3>1
    <3>2. CASE n # 0
      <4>1. g[n] = f[n]
        BY <3>2
      <4>2. g[i] = last /\ last = f[n] \o s[n + 1]
        <5>1. last = f[n] \o s[n + 1]
          BY <3>2
        <5>2. i > n
          BY <2>1
        <5> HIDE DEF g, h, last
        <5> QED
          BY <1>0, <5>1, <5>2
      <4>3. h[i] = g[n] \o s[n + 1]
        <5>1. i # 1 /\ i - 1 = n /\ i = n + 1
          BY <2>1, <3>2
        <5> HIDE DEF g, h
        <5> QED
          BY <1>0, <5>1
      <4> HIDE DEF g, h, last
      <4> QED
        BY <4>1, <4>2, <4>3
    <3> QED
      BY <3>1, <3>2
  <2>2. CASE i \in 1..n
    <3>1. f[i] = IF i = 1 THEN s[i] ELSE f[i - 1] \o s[i]
      BY <2>2 DEF Flattens
    <3>2. g[i] = f[i]
      BY <2>2
    <3>3. i # 1 => g[i - 1] = f[i - 1]
      BY <2>2
    <3>4. h[i] = IF i = 1 THEN s[i] ELSE g[i - 1] \o s[i]
      OBVIOUS
    <3> QED
      BY <3>1, <3>2, <3>3, <3>4
  <2> QED
    BY <2>1, <2>2
<1>2. g = h
  BY <1>1
<1> QED
  BY <1>2, Zenon DEF Flattens

\* So there is one for any number of sequences.
LEMMA FlattensExists ==
  ASSUME NEW s, NEW n \in Nat
  PROVE  \E f : Flattens(f, s, n)
<1> DEFINE S == {k \in Nat : \E f : Flattens(f, s, k)}
<1>1. 0 \in S
  <2> DEFINE empty == [i \in 1..0 |-> i]
  <2>1. empty = [i \in 1..0 |-> IF i = 1 THEN s[i] ELSE empty[i - 1] \o s[i]]
    OBVIOUS
  <2>2. Flattens(empty, s, 0)
    BY <2>1 DEF Flattens
  <2> QED
    BY <2>2
<1>2. \A k \in Nat : k \in S => k + 1 \in S
  BY FlattensFurther
<1> HIDE DEF S
<1>3. Nat \subseteq S
  BY <1>1, <1>2, SetInduction
<1> QED
  BY <1>3 DEF S

\* FlattenSeq chooses one, and takes its last value.
LEMMA FlattenSeqIs ==
  ASSUME NEW s, Len(s) \in Nat, Len(s) # 0
  PROVE  \E f : Flattens(f, s, Len(s)) /\ FlattenSeq(s) = f[Len(s)]
<1> DEFINE f == CHOOSE g :
                  g = [i \in 1..Len(s) |->
                         IF i = 1 THEN s[i] ELSE g[i - 1] \o s[i]]
<1>1. \E g : g = [i \in 1..Len(s) |-> IF i = 1 THEN s[i] ELSE g[i - 1] \o s[i]]
  BY FlattensExists DEF Flattens
<1>2. Flattens(f, s, Len(s))
  BY <1>1, Zenon DEF Flattens
<1>3. FlattenSeq(s) = f[Len(s)]
  BY Zenon DEF FlattenSeq
<1> HIDE DEF f
<1> QED
  BY <1>2, <1>3

\* Only the first n sequences count for the first n values.
LEMMA FlattensUnique ==
  ASSUME NEW s, NEW t, NEW n \in Nat, NEW m \in Nat, NEW f, NEW g,
         Flattens(f, s, n), Flattens(g, t, m), n <= m,
         \A i \in 1..n : s[i] = t[i]
  PROVE  \A i \in 1..n : f[i] = g[i]
<1> DEFINE S == {k \in Nat : k + 1 <= n => f[k + 1] = g[k + 1]}
<1>0. ASSUME NEW i \in 1..n
      PROVE  /\ f[i] = IF i = 1 THEN s[i] ELSE f[i - 1] \o s[i]
             /\ g[i] = IF i = 1 THEN s[i] ELSE g[i - 1] \o s[i]
  <2>1. i \in 1..m
    OBVIOUS
  <2> QED
    BY <2>1 DEF Flattens
<1>1. 0 \in S
  BY <1>0
<1>2. \A k \in Nat : k \in S => k + 1 \in S
  <2> SUFFICES ASSUME NEW k \in Nat, k \in S, k + 2 <= n
               PROVE  f[k + 2] = g[k + 2]
    OBVIOUS
  <2>1. f[k + 1] = g[k + 1]
    OBVIOUS
  <2>2. k + 2 \in 1..n /\ k + 2 # 1 /\ (k + 2) - 1 = k + 1
    OBVIOUS
  <2> QED
    BY <1>0, <2>1, <2>2
<1>3. Nat \subseteq S
  <2> HIDE DEF S
  <2> QED
    BY <1>1, <1>2, SetInduction
<1> SUFFICES ASSUME NEW i \in 1..n PROVE f[i] = g[i]
  OBVIOUS
<1>4. i - 1 \in S
  BY <1>3
<1> QED
  BY <1>4

\* A sequence more is concatenated at the end.
LEMMA FlattenSeqAppend ==
  ASSUME NEW s, NEW t, NEW n \in Nat, Len(s) = n, Len(t) = n + 1, n # 0,
         \A i \in 1..n : s[i] = t[i]
  PROVE  FlattenSeq(t) = FlattenSeq(s) \o t[n + 1]
<1>1. PICK f : Flattens(f, s, n) /\ FlattenSeq(s) = f[n]
  BY FlattenSeqIs
<1>2. PICK g : Flattens(g, t, n + 1) /\ FlattenSeq(t) = g[n + 1]
  BY FlattenSeqIs
<1>3. f[n] = g[n]
  <2>1. \A i \in 1..n : f[i] = g[i]
    <3> DEFINE m == n + 1
    <3>1. m \in Nat /\ n <= m /\ Flattens(g, t, m)
      BY <1>2
    <3> HIDE DEF m
    <3> QED
      BY <1>1, <3>1, FlattensUnique
  <2> QED
    BY <2>1
<1>4. g[n + 1] = g[n] \o t[n + 1]
  <2>1. \A i \in 1..(n + 1) :
          g[i] = IF i = 1 THEN t[i] ELSE g[i - 1] \o t[i]
    BY <1>2 DEF Flattens
  <2>2. n + 1 \in 1..(n + 1) /\ n + 1 # 1 /\ (n + 1) - 1 = n
    OBVIOUS
  <2> QED
    BY <2>1, <2>2
<1> QED
  BY <1>1, <1>2, <1>3, <1>4

\* A single sequence is what remains of it.
LEMMA FlattenSeqOne ==
  ASSUME NEW t, Len(t) = 1
  PROVE  FlattenSeq(t) = t[1]
<1>1. Len(t) \in Nat /\ Len(t) # 0
  OBVIOUS
<1>2. \E g : Flattens(g, t, Len(t)) /\ FlattenSeq(t) = g[Len(t)]
  BY <1>1, FlattenSeqIs
<1>3. PICK g : Flattens(g, t, 1) /\ FlattenSeq(t) = g[1]
  BY <1>2
<1> QED
  BY <1>3 DEF Flattens
==============================================================================
