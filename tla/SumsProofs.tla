----------------------------- MODULE SumsProofs -----------------------------
(***************************************************************************)
(* Three facts about sums that a ledger needs: nothing adds up to zero, no *)
(* entry exceeds the sum, and changing one entry changes the sum by as     *)
(* much.  They are shown for the witness: the same order, and the partial  *)
(* sums moved from that entry on.  That these stay natural numbers needs   *)
(* that they ascend.                                                       *)
(***************************************************************************)
EXTENDS Sums, FiniteSetTheorems, TLAPS

\* The witness: an order of S and ascending partial sums that end at the total.
Witness(f, S, total, e, p) ==
  /\ e \in Enumerations(S)
  /\ p \in [0..Cardinality(S) -> Nat]
  /\ PartialSums(f, S, e, p)
  /\ \A i, j \in 0..Cardinality(S) : i <= j => p[i] <= p[j]
  /\ p[Cardinality(S)] = total

AddsUp(f, S, total) == \E e, p : Witness(f, S, total, e, p)

\* The witness is one of the definition.
LEMMA AddsUpIsSum ==
  ASSUME NEW S, IsFiniteSet(S), NEW f, NEW total, AddsUp(f, S, total)
  PROVE  IsSum(f, S, total)
<1>1. PICK e, p : Witness(f, S, total, e, p)
  BY DEF AddsUp
<1>2. Cardinality(S) \in Nat
  BY FS_CardinalityType
<1>3. p \in [0..Cardinality(S) -> 0..total]
  <2>1. p \in [0..Cardinality(S) -> Nat]
    BY <1>1 DEF Witness
  <2>2. ASSUME NEW i \in 0..Cardinality(S)
        PROVE  p[i] \in 0..total
    <3>1. p[i] <= total /\ total \in Nat /\ p[i] \in Nat
      BY <1>1, <1>2 DEF Witness
    <3> QED
      BY <3>1
  <2> QED
    BY <2>1, <2>2
<1> QED
  BY <1>1, <1>3 DEF Witness, IsSum

\* Nothing adds up to zero.
LEMMA NothingIsZero ==
  ASSUME NEW S, IsFiniteSet(S), NEW f, \A a \in S : f[a] = 0
  PROVE  AddsUp(f, S, 0)
<1>1. Cardinality(S) \in Nat /\ ExistsBijection(1..Cardinality(S), S)
  BY FS_CardinalityType
<1>2. PICK e \in Bijection(1..Cardinality(S), S) : TRUE
  BY <1>1 DEF ExistsBijection
<1>3. e \in Enumerations(S)
  BY <1>2 DEF Enumerations
<1> DEFINE p == [i \in 0..Cardinality(S) |-> 0]
<1>4. p \in [0..Cardinality(S) -> Nat]
  OBVIOUS
<1>5. PartialSums(f, S, e, p)
  <2>1. \A i \in 1..Cardinality(S) : e[i] \in S
    BY <1>3 DEF Enumerations, Bijection, Injection
  <2> QED
    BY <1>1, <2>1 DEF PartialSums
<1>6. Witness(f, S, 0, e, p)
  BY <1>1, <1>3, <1>4, <1>5 DEF Witness
<1> QED
  BY <1>6 DEF AddsUp

\* No entry exceeds the sum.
LEMMA EntryFits ==
  ASSUME NEW S, IsFiniteSet(S), NEW f \in [S -> Nat], NEW total, AddsUp(f, S, total),
         NEW k \in S
  PROVE  total \in Nat /\ f[k] <= total
<1> DEFINE n == Cardinality(S)
<1>1. n \in Nat
  BY FS_CardinalityType
<1>2. PICK e, p : Witness(f, S, total, e, p)
  BY DEF AddsUp
<1>3. PICK j \in 1..n : e[j] = k
  BY <1>2 DEF Witness, Enumerations, Bijection, Surjection
<1>4. j \in 0..n /\ j - 1 \in 0..n /\ n \in 0..n /\ j <= n
  BY <1>1
<1>5. p[j] \in Nat /\ p[j - 1] \in Nat /\ total \in Nat /\ p[j] <= total
  BY <1>2, <1>4 DEF Witness
<1>6. p[j] = p[j - 1] + f[k]
  BY <1>2, <1>3 DEF Witness, PartialSums
<1>7. f[k] \in Nat
  OBVIOUS
<1> QED
  BY <1>5, <1>6, <1>7

\* Changing the entry of k changes the sum by as much.
LEMMA OneEntryChanges ==
  ASSUME NEW S, IsFiniteSet(S), NEW f \in [S -> Nat], NEW g \in [S -> Nat], NEW total,
         AddsUp(f, S, total), NEW k \in S, \A a \in S \ {k} : g[a] = f[a]
  PROVE  total \in Nat /\ AddsUp(g, S, total + g[k] - f[k])
<1> DEFINE n == Cardinality(S)
<1>1. n \in Nat
  BY FS_CardinalityType
<1>2. PICK e, p : Witness(f, S, total, e, p)
  BY DEF AddsUp
<1>3. /\ e \in [1..n -> S]
      /\ \A i, j \in 1..n : e[i] = e[j] => i = j
  BY <1>2 DEF Witness, Enumerations, Bijection, Injection, IsInjective
<1>4. /\ p \in [0..n -> Nat]
      /\ p[0] = 0
      /\ \A i \in 1..n : p[i] = p[i - 1] + f[e[i]]
      /\ \A i, j \in 0..n : i <= j => p[i] <= p[j]
      /\ p[n] = total
  BY <1>2 DEF Witness, PartialSums
<1>5. PICK j \in 1..n : e[j] = k
  BY <1>2 DEF Witness, Enumerations, Bijection, Surjection
<1>6. f[k] \in Nat /\ g[k] \in Nat /\ total \in Nat
  BY <1>1, <1>4
<1> DEFINE d == g[k] - f[k]
           q == [i \in 0..n |-> IF i < j THEN p[i] ELSE p[i] + d]
<1>7. ASSUME NEW i \in 0..n
      PROVE  /\ p[i] \in Nat
             /\ i < j => p[i] + f[k] <= p[j]
             /\ i >= j => f[k] <= p[i]
  <2>1. p[j] = p[j - 1] + f[k] /\ p[j] \in Nat /\ p[j - 1] \in Nat /\ p[i] \in Nat
    <3>1. j \in 0..n /\ j - 1 \in 0..n
      BY <1>1
    <3> QED
      BY <1>4, <1>5, <3>1
  <2>2. i < j => p[i] <= p[j - 1]
    BY <1>1, <1>4
  <2>3. i >= j => p[j] <= p[i]
    BY <1>1, <1>4
  <2> QED
    BY <1>6, <2>1, <2>2, <2>3
<1>8. q \in [0..n -> Nat]
  BY <1>6, <1>7
<1>9. PartialSums(g, S, e, q)
  <2>1. q[0] = 0
    BY <1>1, <1>4
  <2>2. ASSUME NEW i \in 1..n
        PROVE  q[i] = q[i - 1] + g[e[i]]
    <3>1. /\ p[i] = p[i - 1] + f[e[i]]
          /\ p[i] \in Nat /\ p[i - 1] \in Nat
          /\ f[e[i]] \in Nat /\ g[e[i]] \in Nat
      <4>1. i \in 0..n /\ i - 1 \in 0..n
        BY <1>1
      <4>2. e[i] \in S
        BY <1>3
      <4> QED
        BY <1>4, <4>1, <4>2
    <3>2. CASE i = j
      <4>1. q[i] = p[i] + d /\ q[i - 1] = p[i - 1]
        BY <1>1, <3>2
      <4> HIDE DEF q
      <4> QED
        BY <1>5, <1>6, <3>1, <3>2, <4>1
    <3>3. CASE i # j
      <4>1. e[i] # k
        BY <1>3, <1>5, <3>3
      <4>2. g[e[i]] = f[e[i]]
        BY <1>3, <4>1
      <4>3. CASE i < j
        <5>1. q[i] = p[i] /\ q[i - 1] = p[i - 1]
          BY <1>1, <4>3
        <5> HIDE DEF q
        <5> QED
          BY <3>1, <4>2, <5>1
      <4>4. CASE i > j
        <5>1. q[i] = p[i] + d /\ q[i - 1] = p[i - 1] + d
          BY <1>1, <4>4
        <5> HIDE DEF q
        <5> QED
          BY <1>6, <3>1, <4>2, <5>1
      <4> QED
        BY <3>3, <4>3, <4>4
    <3> QED
      BY <3>2, <3>3
  <2> HIDE DEF q
  <2> QED
    BY <2>1, <2>2 DEF PartialSums
<1>10. \A i, l \in 0..n : i <= l => q[i] <= q[l]
  <2> SUFFICES ASSUME NEW i \in 0..n, NEW l \in 0..n, i <= l
               PROVE  q[i] <= q[l]
    OBVIOUS
  <2>1. p[i] <= p[l] /\ p[i] \in Nat /\ p[l] \in Nat
    BY <1>4
  <2>2. CASE l < j \/ i >= j
    BY <1>6, <2>1, <2>2
  <2>3. CASE i < j /\ l >= j
    <3>1. p[i] + f[k] <= p[j] /\ p[j] <= p[l] /\ p[j] \in Nat
      BY <1>1, <1>4, <1>7, <2>3
    <3>2. q[i] = p[i] /\ q[l] = p[l] + d
      BY <2>3
    <3> HIDE DEF q
    <3> QED
      BY <1>6, <2>1, <3>1, <3>2
  <2> QED
    BY <2>2, <2>3
<1>11. q[n] = total + g[k] - f[k]
  BY <1>1, <1>4, <1>6
<1>12. Witness(g, S, total + g[k] - f[k], e, q)
  <2> HIDE DEF q
  <2> QED
    BY <1>2, <1>8, <1>9, <1>10, <1>11 DEF Witness
<1> QED
  BY <1>6, <1>12 DEF AddsUp
=============================================================================
