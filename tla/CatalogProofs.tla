---------------------------- MODULE CatalogProofs ----------------------------
(***************************************************************************)
(* What holds of the cells of every catalog file on their way through the  *)
(* pipeline.                                                               *)
(***************************************************************************)
EXTENDS CatalogFlow, FiniteSetTheorems, SequenceTheorems, TLAPS

-----------------------------------------------------------------------------
(* Positions in order                                                      *)

Before(S, i) == {j \in S : j < i}

LEMMA RankRange ==
  ASSUME NEW m \in Nat, NEW S \in SUBSET (1..m), NEW i \in S
  PROVE  Cardinality(Before(S, i)) \in 0..(Cardinality(S) - 1)
  <1>1. IsFiniteSet(1..m)
    BY FS_Interval
  <1>2. IsFiniteSet(S) /\ Cardinality(S) \in Nat
    BY <1>1, FS_Subset, FS_CardinalityType
  <1>3. IsFiniteSet(S \ {i}) /\ Cardinality(S \ {i}) = Cardinality(S) - 1
    BY <1>2, FS_RemoveElement
  <1>4. Before(S, i) \in SUBSET (S \ {i})
    BY DEF Before
  <1>5. IsFiniteSet(Before(S, i)) /\ Cardinality(Before(S, i)) <= Cardinality(S) - 1
    BY <1>3, <1>4, FS_Subset
  <1>6. Cardinality(Before(S, i)) \in Nat
    BY <1>5, FS_CardinalityType
  <1>. QED
    BY <1>2, <1>5, <1>6

LEMMA RankGrows ==
  ASSUME NEW m \in Nat, NEW S \in SUBSET (1..m), NEW i \in S, NEW k \in S, i < k
  PROVE  Cardinality(Before(S, i)) < Cardinality(Before(S, k))
  <1>0. IsFiniteSet(1..m)
    BY FS_Interval
  <1>1. IsFiniteSet(S)
    BY <1>0, FS_Subset
  <1>2. Before(S, i) \in SUBSET S /\ Before(S, k) \in SUBSET S
    BY DEF Before
  <1>3. IsFiniteSet(Before(S, i)) /\ IsFiniteSet(Before(S, k))
    BY <1>1, <1>2, FS_Subset
  <1>4. Cardinality(Before(S, i)) \in Nat /\ Cardinality(Before(S, k)) \in Nat
    BY <1>3, FS_CardinalityType
  <1>. i \in Int /\ k \in Int /\ S \subseteq Int
    OBVIOUS
  <1>8. i \notin Before(S, i)
    BY DEF Before
  <1>5. Cardinality(Before(S, i) \cup {i}) = Cardinality(Before(S, i)) + 1
    BY <1>3, <1>8, FS_AddElement
  <1>6. Before(S, i) \cup {i} \in SUBSET Before(S, k)
    <2>1. i \in Before(S, k)
      BY DEF Before
    <2>2. ASSUME NEW j \in Before(S, i) PROVE j \in Before(S, k)
      <3>1. j \in S /\ j < i /\ j \in Int
        BY DEF Before
      <3>2. j < k
        BY <3>1
      <3>. QED
        BY <3>1, <3>2 DEF Before
    <2>. QED
      BY <2>1, <2>2
  <1>7. Cardinality(Before(S, i) \cup {i}) <= Cardinality(Before(S, k))
    BY <1>3, <1>6, FS_Subset
  <1>. QED
    BY <1>4, <1>5, <1>7

LEMMA InOrderIsFunction ==
  ASSUME NEW S
  PROVE  InOrder(S) = [n \in DOMAIN InOrder(S) |-> InOrder(S)[n]]
  <1>. DEFINE e(n) == CHOOSE i \in S : Cardinality({j \in S : j < i}) = n - 1
  <1>1. InOrder(S) = [n \in 1..Cardinality(S) |-> e(n)]
    BY DEF InOrder
  <1>. HIDE DEF e
  <1>. QED
    BY <1>1

(* InOrder lists every position of the set once.                           *)
LEMMA InOrderLists ==
  ASSUME NEW m \in Nat, NEW S \in SUBSET (1..m)
  PROVE  /\ Cardinality(S) \in 0..m
         /\ DOMAIN InOrder(S) = 1..Cardinality(S)
         /\ \A n \in 1..Cardinality(S) : InOrder(S)[n] \in S
         /\ \A n, k \in 1..Cardinality(S) : InOrder(S)[n] = InOrder(S)[k] => n = k
         /\ \A i \in S : \E n \in 1..Cardinality(S) : InOrder(S)[n] = i
  <1>. DEFINE N == Cardinality(S)
              rank == [i \in S |-> Cardinality(Before(S, i)) + 1]
  <1>1. IsFiniteSet(1..m) /\ Cardinality(1..m) = m
    BY FS_Interval
  <1>2. IsFiniteSet(S) /\ N \in 0..m
    <2>1. IsFiniteSet(S) /\ N <= m
      BY <1>1, FS_Subset
    <2>2. N \in Nat
      BY <2>1, FS_CardinalityType
    <2>. QED
      BY <2>1, <2>2
  <1>3. IsFiniteSet(1..N) /\ Cardinality(1..N) = N
    BY <1>2, FS_Interval
  <1>4. \A i \in S : rank[i] \in 1..N /\ rank[i] - 1 = Cardinality(Before(S, i))
    <2>. SUFFICES ASSUME NEW i \in S
                  PROVE  rank[i] \in 1..N /\ rank[i] - 1 = Cardinality(Before(S, i))
      OBVIOUS
    <2>1. Cardinality(Before(S, i)) \in 0..(N - 1)
      BY RankRange
    <2>2. rank[i] = Cardinality(Before(S, i)) + 1
      OBVIOUS
    <2>. QED
      BY <1>2, <2>1, <2>2
  <1>5. \A i, k \in S : rank[i] = rank[k] => i = k
    <2>. SUFFICES ASSUME NEW i \in S, NEW k \in S, rank[i] = rank[k], i # k
                  PROVE  FALSE
      OBVIOUS
    <2>1. Cardinality(Before(S, i)) = Cardinality(Before(S, k))
      BY <1>4
    <2>2. i < k \/ k < i
      OBVIOUS
    <2>3. Cardinality(Before(S, i)) \in 0..(N - 1)
      BY RankRange
    <2>4. Cardinality(Before(S, i)) \in Int
      BY <2>3
    <2>. QED
      BY <2>1, <2>2, <2>4, RankGrows
  <1>6. rank \in Injection(S, 1..N)
    <2>1. rank \in [S -> 1..N]
      BY <1>4
    <2>. QED
      BY <1>5, <2>1 DEF Injection, IsInjective
  <1>7. rank \in Surjection(S, 1..N)
    <2>. HIDE DEF rank
    <2>. QED
      BY <1>3, <1>6, FS_Injection
  <1>8. \A n \in 1..N : \E i \in S : rank[i] = n
    <2>. HIDE DEF rank
    <2>. QED
      BY <1>7 DEF Surjection
  <1>9. \A n \in 1..N : InOrder(S)[n] \in S /\ rank[InOrder(S)[n]] = n
    <2>. SUFFICES ASSUME NEW n \in 1..N
                  PROVE  InOrder(S)[n] \in S /\ rank[InOrder(S)[n]] = n
      OBVIOUS
    <2>1. PICK i \in S : rank[i] = n
      BY <1>8
    <2>2. Cardinality({j \in S : j < i}) = n - 1
      BY <1>4, <2>1 DEF Before
    <2>3. InOrder(S)[n] = CHOOSE l \in S : Cardinality({j \in S : j < l}) = n - 1
      BY DEF InOrder
    <2>4. InOrder(S)[n] \in S /\ Cardinality({j \in S : j < InOrder(S)[n]}) = n - 1
      BY <2>2, <2>3
    <2>5. Cardinality(Before(S, InOrder(S)[n])) = n - 1
      BY <2>4 DEF Before
    <2>. QED
      BY <2>4, <2>5
  <1>10. \A i \in S : InOrder(S)[rank[i]] = i
    <2>. SUFFICES ASSUME NEW i \in S PROVE InOrder(S)[rank[i]] = i
      OBVIOUS
    <2>. QED
      BY <1>4, <1>5, <1>9
  <1>11. DOMAIN InOrder(S) = 1..N
    BY DEF InOrder
  <1>12. \A n, k \in 1..N : InOrder(S)[n] = InOrder(S)[k] => n = k
    BY <1>9
  <1>. HIDE DEF rank
  <1>. QED
    BY <1>2, <1>4, <1>9, <1>10, <1>11, <1>12

-----------------------------------------------------------------------------
(* Groups of rows                                                          *)

LEMMA LeastNumber ==
  ASSUME NEW S \in SUBSET Nat, S # {}
  PROVE  \E m \in S : \A n \in S : m <= n
  <1>. DEFINE R == {ss \in Nat \X Nat : ss[1] < ss[2]}
  <1>1. R = OpToRel(<, Nat)
    BY DEF OpToRel
  <1>2. PICK m \in S : \A n \in S : ~(<<n, m>> \in R)
    <2>. HIDE DEF R
    <2>. QED
      BY <1>1, NatLessThanWellFounded, WFMin
  <1>3. ASSUME NEW n \in S  PROVE  m <= n
    <2>1. m \in Nat /\ n \in Nat /\ ~(<<n, m>> \in R)
      BY <1>2
    <2>2. ~(n < m)
      BY <2>1
    <2>. QED
      BY <2>1, <2>2
  <1>. QED
    BY <1>3

(* The first occurrences name every element once.                          *)
LEMMA DistinctNames ==
  ASSUME NEW m \in Nat, NEW s, DOMAIN s = 1..m
  PROVE  \E k \in 0..m :
           /\ DOMAIN Distinct(s) = 1..k
           /\ \A n \in 1..k : \E i \in 1..m : s[i] = Distinct(s)[n]
           /\ \A n, l \in 1..k : Distinct(s)[n] = Distinct(s)[l] => n = l
           /\ \A i \in 1..m : \E n \in 1..k : Distinct(s)[n] = s[i]
  <1>. DEFINE first == {i \in DOMAIN s : \A j \in 1..(i - 1) : s[j] # s[i]}
              k == Cardinality(first)
              at == InOrder(first)
  <1>1. first \in SUBSET (1..m)
    OBVIOUS
  <1>2. Distinct(s) = [n \in 1..k |-> s[at[n]]]
    BY DEF Distinct
  <1>3. /\ k \in 0..m
        /\ \A n \in 1..k : at[n] \in first
        /\ \A n, l \in 1..k : at[n] = at[l] => n = l
        /\ \A i \in first : \E n \in 1..k : at[n] = i
    <2>. HIDE DEF first
    <2>. QED
      BY <1>1, InOrderLists
  <1>4. \A i, j \in first : s[i] = s[j] => i = j
    <2>. SUFFICES ASSUME NEW i \in first, NEW j \in first, s[i] = s[j], i < j
                  PROVE  FALSE
      <3>1. \A i, j \in first : i = j \/ i < j \/ j < i
        OBVIOUS
      <3>. QED
        BY <3>1
    <2>1. i \in 1..(j - 1)
      OBVIOUS
    <2>. QED
      BY <2>1
  <1>5. ASSUME NEW i \in 1..m PROVE \E f \in first : s[f] = s[i]
    <2>. DEFINE same == {j \in 1..m : s[j] = s[i]}
    <2>1. same \in SUBSET Nat /\ same # {}
      OBVIOUS
    <2>2. PICK f \in same : \A j \in same : f <= j
      <3>. HIDE DEF same
      <3>. QED
        BY <2>1, LeastNumber
    <2>3. ASSUME NEW j \in 1..(f - 1) PROVE s[j] # s[f]
      <3>1. j \in 1..m /\ ~(f <= j)
        OBVIOUS
      <3>. QED
        BY <2>2, <3>1
    <2>. QED
      BY <2>2, <2>3
  <1>6. \A n \in 1..k : Distinct(s)[n] = s[at[n]] /\ at[n] \in 1..m
    BY <1>1, <1>2, <1>3
  <1>7. DOMAIN Distinct(s) = 1..k
    BY <1>2
  <1>8. \A n, l \in 1..k : Distinct(s)[n] = Distinct(s)[l] => n = l
    <2>. HIDE DEF first, at
    <2>. QED
      BY <1>3, <1>4, <1>6
  <1>9. \A i \in 1..m : \E n \in 1..k : Distinct(s)[n] = s[i]
    <2>. HIDE DEF first, at
    <2>. SUFFICES ASSUME NEW i \in 1..m PROVE \E n \in 1..k : Distinct(s)[n] = s[i]
      OBVIOUS
    <2>1. PICK f \in first : s[f] = s[i]
      BY <1>5
    <2>2. PICK n \in 1..k : at[n] = f
      BY <1>3
    <2>. QED
      BY <1>6, <2>1, <2>2
  <1>. HIDE DEF first, at
  <1>10. \A n \in 1..k : \E i \in 1..m : s[i] = Distinct(s)[n]
    BY <1>6
  <1>11. k \in 0..m
    BY <1>3
  <1>. HIDE DEF k
  <1>. QED
    BY <1>7, <1>8, <1>9, <1>10, <1>11

(* Every row is in one group, once; no group is empty.                     *)
LEMMA GroupsPartition ==
  ASSUME NEW m \in Nat, NEW keys, DOMAIN keys = 1..m
  PROVE  \E k \in 0..m :
           /\ DOMAIN Groups(keys) = 1..k
           /\ \A p \in 1..k : \E n \in 1..m : DOMAIN Groups(keys)[p] = 1..n
           /\ \A p \in 1..k : \A v \in DOMAIN Groups(keys)[p] : Groups(keys)[p][v] \in 1..m
           /\ \A p, q \in 1..k : \A v \in DOMAIN Groups(keys)[p], w \in DOMAIN Groups(keys)[q] :
                Groups(keys)[p][v] = Groups(keys)[q][w] => p = q /\ v = w
           /\ \A i \in 1..m : \E p \in 1..k : \E v \in DOMAIN Groups(keys)[p] :
                Groups(keys)[p][v] = i
  <1>. DEFINE order == Distinct(keys)
              rows(p) == {i \in DOMAIN keys : keys[i] = order[p]}
  <1>1. PICK k \in 0..m :
          /\ DOMAIN order = 1..k
          /\ \A n \in 1..k : \E i \in 1..m : keys[i] = order[n]
          /\ \A n, l \in 1..k : order[n] = order[l] => n = l
          /\ \A i \in 1..m : \E n \in 1..k : order[n] = keys[i]
    BY DistinctNames
  <1>. HIDE DEF order
  <1>2. DOMAIN Groups(keys) = 1..k /\ \A p \in 1..k : Groups(keys)[p] = InOrder(rows(p))
    BY <1>1 DEF Groups, order
  <1>3. \A p \in 1..k :
          /\ Cardinality(rows(p)) \in 0..m
          /\ DOMAIN Groups(keys)[p] = 1..Cardinality(rows(p))
          /\ \A v \in 1..Cardinality(rows(p)) : Groups(keys)[p][v] \in rows(p)
          /\ \A v, w \in 1..Cardinality(rows(p)) : Groups(keys)[p][v] = Groups(keys)[p][w] => v = w
          /\ \A i \in rows(p) : \E v \in 1..Cardinality(rows(p)) : Groups(keys)[p][v] = i
    <2>. SUFFICES ASSUME NEW p \in 1..k
                  PROVE  /\ Cardinality(rows(p)) \in 0..m
                         /\ DOMAIN Groups(keys)[p] = 1..Cardinality(rows(p))
                         /\ \A v \in 1..Cardinality(rows(p)) : Groups(keys)[p][v] \in rows(p)
                         /\ \A v, w \in 1..Cardinality(rows(p)) : Groups(keys)[p][v] = Groups(keys)[p][w] => v = w
                         /\ \A i \in rows(p) : \E v \in 1..Cardinality(rows(p)) : Groups(keys)[p][v] = i
      OBVIOUS
    <2>1. rows(p) \in SUBSET (1..m)
      OBVIOUS
    <2>2. Groups(keys)[p] = InOrder(rows(p))
      BY <1>2
    <2>. HIDE DEF rows
    <2>3. /\ Cardinality(rows(p)) \in 0..m
          /\ DOMAIN InOrder(rows(p)) = 1..Cardinality(rows(p))
          /\ \A v \in 1..Cardinality(rows(p)) : InOrder(rows(p))[v] \in rows(p)
          /\ \A v, w \in 1..Cardinality(rows(p)) : InOrder(rows(p))[v] = InOrder(rows(p))[w] => v = w
          /\ \A i \in rows(p) : \E v \in 1..Cardinality(rows(p)) : InOrder(rows(p))[v] = i
      BY <2>1, InOrderLists
    <2>. QED
      BY <2>2, <2>3
  <1>4. \A p \in 1..k : \E n \in 1..m : DOMAIN Groups(keys)[p] = 1..n
    <2>. SUFFICES ASSUME NEW p \in 1..k PROVE \E n \in 1..m : DOMAIN Groups(keys)[p] = 1..n
      OBVIOUS
    <2>1. PICK i \in 1..m : i \in rows(p)
      BY <1>1
    <2>. HIDE DEF rows
    <2>. DEFINE n == Cardinality(rows(p))
    <2>2. PICK v \in 1..n : Groups(keys)[p][v] = i
      BY <1>3, <2>1
    <2>3. n \in 0..m
      BY <1>3
    <2>4. n \in 1..m
      <3>. HIDE DEF n
      <3>. QED
        BY <2>2, <2>3
    <2>. QED
      BY <1>3, <2>4
  <1>5. \A p \in 1..k : \A v \in DOMAIN Groups(keys)[p] :
          Groups(keys)[p][v] \in 1..m /\ keys[Groups(keys)[p][v]] = order[p]
    BY <1>3
  <1>6. \A p, q \in 1..k : \A v \in DOMAIN Groups(keys)[p], w \in DOMAIN Groups(keys)[q] :
          Groups(keys)[p][v] = Groups(keys)[q][w] => p = q /\ v = w
    <2>. HIDE DEF rows
    <2>. SUFFICES ASSUME NEW p \in 1..k, NEW q \in 1..k,
                         NEW v \in DOMAIN Groups(keys)[p], NEW w \in DOMAIN Groups(keys)[q],
                         Groups(keys)[p][v] = Groups(keys)[q][w]
                  PROVE  p = q /\ v = w
      OBVIOUS
    <2>1. p = q
      BY <1>1, <1>5
    <2>. QED
      BY <1>3, <2>1
  <1>7. \A i \in 1..m : \E p \in 1..k : \E v \in DOMAIN Groups(keys)[p] : Groups(keys)[p][v] = i
    <2>. SUFFICES ASSUME NEW i \in 1..m
                  PROVE  \E p \in 1..k : \E v \in DOMAIN Groups(keys)[p] : Groups(keys)[p][v] = i
      OBVIOUS
    <2>1. PICK p \in 1..k : i \in rows(p)
      BY <1>1
    <2>. HIDE DEF rows
    <2>. QED
      BY <1>3, <2>1
  <1>. HIDE DEF rows
  <1>. QED
    BY <1>2, <1>4, <1>5, <1>6, <1>7

-----------------------------------------------------------------------------
(* Sequences                                                               *)

Numbered(s) == \E n \in Nat : DOMAIN s = 1..n

LEMMA NumberedIsSeq ==
  ASSUME NEW n \in Nat, NEW s, DOMAIN s = 1..n, s = [i \in DOMAIN s |-> s[i]],
         NEW S, \A i \in 1..n : s[i] \in S
  PROVE  s \in Seq(S) /\ Len(s) = n
  <1>1. s \in [1..n -> S]
    OBVIOUS
  <1>. QED
    BY <1>1

(* f[i] is what the first i sequences are joined to.                       *)
JoinsUpTo(f, ss, S) ==
  /\ \A i \in 1..Len(ss) : f[i] = IF i = 1 THEN ss[i] ELSE f[i-1] \o ss[i]
  /\ \A i \in 1..Len(ss) : f[i] \in Seq(S)
  /\ FlattenSeq(ss) = f[Len(ss)]

(* The recursion by which FlattenSeq joins sequences has a solution.       *)
LEMMA FlattenSteps ==
  ASSUME NEW S, NEW ss \in Seq(Seq(S)), Len(ss) # 0
  PROVE  \E f : JoinsUpTo(f, ss, S)
  <1>. DEFINE N == Len(ss)
              Step(f, m) == f = [i \in 1..m |-> IF i = 1 THEN ss[i] ELSE f[i-1] \o ss[i]]
              without == {m \in Nat : m \in 1..N /\ ~\E f : Step(f, m)}
              flatten == CHOOSE f : Step(f, N)
              wrong == {m \in Nat : m \in 1..N /\ flatten[m] \notin Seq(S)}
  <1>1. N \in Nat /\ \A i \in 1..N : ss[i] \in Seq(S)
    OBVIOUS
  <1>2. without = {}
    <2>. SUFFICES ASSUME without # {} PROVE FALSE
      OBVIOUS
    <2>1. PICK m \in without : \A k \in without : m <= k
      <3>1. without \in SUBSET Nat
        OBVIOUS
      <3>. HIDE DEF without
      <3>. QED
        BY <3>1, LeastNumber
    <2>2. m \in 1..N /\ ~\E f : Step(f, m)
      BY <2>1
    <2>3. CASE m = 1
      <3>1. Step([i \in 1..1 |-> ss[i]], 1)
        BY <2>3
      <3>. QED
        BY <2>2, <2>3, <3>1
    <2>4. CASE m # 1
      <3>1. m - 1 \in 1..N /\ m - 1 \in Nat /\ ~(m <= m - 1)
        BY <1>1, <2>2, <2>4
      <3>2. PICK f : Step(f, m - 1)
        BY <2>1, <3>1
      <3>. DEFINE g == [i \in 1..m |-> IF i < m THEN f[i] ELSE f[m - 1] \o ss[m]]
      <3>3. ASSUME NEW i \in 1..m
            PROVE  g[i] = IF i = 1 THEN ss[i] ELSE g[i-1] \o ss[i]
        <4>1. CASE i = m
          <5>0. ~(i < m) /\ m \in 1..m
            BY <3>1, <4>1
          <5>1. g[i] = f[m - 1] \o ss[m]
            BY <5>0, <4>1
          <5>2. g[i - 1] = f[m - 1]
            BY <3>1, <4>1
          <5>. QED
            BY <2>4, <4>1, <5>1, <5>2
        <4>2. CASE i # m
          <5>1. i \in 1..(m - 1) /\ i < m /\ i - 1 < m
            BY <3>1, <4>2
          <5>2. g[i] = f[i]
            BY <5>1
          <5>3. f[i] = IF i = 1 THEN ss[i] ELSE f[i-1] \o ss[i]
            BY <3>2, <5>1
          <5>4. i # 1 => g[i - 1] = f[i - 1]
            BY <5>1
          <5>. QED
            BY <5>2, <5>3, <5>4
        <4>. QED
          BY <4>1, <4>2
      <3>4. Step(g, m)
        BY <3>3
      <3>. QED
        BY <2>2, <3>4
    <2>. QED
      BY <2>3, <2>4
  <1>3. Step(flatten, N)
    <2>1. N \in 1..N
      BY <1>1
    <2>2. \E f : Step(f, N)
      BY <1>1, <1>2, <2>1
    <2>. HIDE DEF Step
    <2>. QED
      BY <2>2
  <1>4. FlattenSeq(ss) = flatten[N]
    BY DEF FlattenSeq
  <1>. HIDE DEF flatten
  <1>5. wrong = {}
    <2>. SUFFICES ASSUME wrong # {} PROVE FALSE
      OBVIOUS
    <2>1. PICK m \in wrong : \A k \in wrong : m <= k
      <3>1. wrong \in SUBSET Nat
        OBVIOUS
      <3>. HIDE DEF wrong
      <3>. QED
        BY <3>1, LeastNumber
    <2>2. m \in 1..N /\ flatten[m] \notin Seq(S)
      BY <2>1
    <2>3. flatten[m] = IF m = 1 THEN ss[m] ELSE flatten[m-1] \o ss[m]
      BY <1>3, <2>2
    <2>4. m # 1
      BY <1>1, <2>2, <2>3
    <2>5. m - 1 \in 1..N /\ m - 1 \in Nat /\ ~(m <= m - 1)
      BY <1>1, <2>2, <2>4
    <2>6. flatten[m - 1] \in Seq(S)
      BY <2>1, <2>5
    <2>. QED
      BY <1>1, <2>2, <2>3, <2>4, <2>6
  <1>6. \A i \in 1..N : flatten[i] = IF i = 1 THEN ss[i] ELSE flatten[i-1] \o ss[i]
    BY <1>3
  <1>7. ASSUME NEW i \in 1..N, flatten[i] \notin Seq(S) PROVE FALSE
    <2>1. i \in Nat
      BY <1>1
    <2>2. i \in wrong
      BY <1>7, <2>1
    <2>. QED
      BY <1>5, <2>2
  <1>8. JoinsUpTo(flatten, ss, S)
    BY <1>4, <1>6, <1>7 DEF JoinsUpTo
  <1>. QED
    BY <1>8

(* FlattenSeq puts the sequences one after another.                        *)
LEMMA FlattenIsSeq ==
  ASSUME NEW S, NEW ss \in Seq(Seq(S))
  PROVE  FlattenSeq(ss) \in Seq(S)
  <1>1. CASE Len(ss) = 0
    <2>1. FlattenSeq(ss) = ss
      BY <1>1 DEF FlattenSeq
    <2>2. ss = <<>>
      BY <1>1
    <2>. QED
      BY <2>1, <2>2
  <1>2. CASE Len(ss) # 0
    <2>1. Len(ss) \in 1..Len(ss)
      BY <1>2
    <2>2. PICK f : JoinsUpTo(f, ss, S)
      BY <1>2, FlattenSteps
    <2>. QED
      BY <2>1, <2>2 DEF JoinsUpTo
  <1>. QED
    BY <1>1, <1>2

(* Places in the order of the joined sequence.                             *)
Earlier(a, b) == a[1] < b[1] \/ (a[1] = b[1] /\ a[2] < b[2])

PlacesIn(ss) == [p \in DOMAIN ss |-> [v \in DOMAIN ss[p] |-> <<p, v>>]]

(* What place says of the elements of all, the first m of ss joined.       *)
JoinedTo(ss, m, all, place) ==
  /\ Len(all) = Len(place)
  /\ \A l \in 1..Len(place) : \E p \in 1..m : \E v \in 1..Len(ss[p]) :
       place[l] = <<p, v>> /\ all[l] = ss[p][v]
  /\ \A l, k \in 1..Len(place) : l < k => Earlier(place[l], place[k])
  /\ \A p \in 1..m : \A v \in 1..Len(ss[p]) : \E l \in 1..Len(place) : place[l] = <<p, v>>

LEMMA JoinOne ==
  ASSUME NEW S, NEW ss \in Seq(Seq(S)), 1 \in 1..Len(ss)
  PROVE  JoinedTo(ss, 1, ss[1], PlacesIn(ss)[1])
  <1>. DEFINE s == ss[1]
              place == [v \in 1..Len(s) |-> <<1, v>>]
  <1>1. s \in Seq(S)
    OBVIOUS
  <1>0. DOMAIN s = 1..Len(s) /\ Len(s) \in Nat /\ 1 \in DOMAIN ss
    BY <1>1
  <1>2. PlacesIn(ss)[1] = place /\ Len(place) = Len(s) /\ Len(s) \in Nat
    <2>1. PlacesIn(ss)[1] = [v \in DOMAIN ss[1] |-> <<1, v>>]
      BY <1>0 DEF PlacesIn
    <2>2. place \in Seq(Nat \X Nat) /\ Len(place) = Len(s)
      BY <1>0
    <2>. QED
      BY <1>0, <2>1, <2>2
  <1>3. ASSUME NEW l \in 1..Len(s), NEW k \in 1..Len(s), l < k PROVE Earlier(place[l], place[k])
    BY <1>3 DEF Earlier
  <1>4. \A l \in 1..Len(s) : place[l] = <<1, l>>
    OBVIOUS
  <1>. HIDE DEF place
  <1>5. \A p \in 1..1 : p = 1
    OBVIOUS
  <1>6. \A l \in 1..Len(s) : \E p \in 1..1 : \E v \in 1..Len(ss[p]) : place[l] = <<p, v>> /\ s[l] = ss[p][v]
    <2>1. 1 \in 1..1
      OBVIOUS
    <2>. QED
      BY <1>4, <2>1
  <1>7. \A p \in 1..1 : \A v \in 1..Len(ss[p]) : \E l \in 1..Len(s) : place[l] = <<p, v>>
    BY <1>4, <1>5
  <1>. HIDE DEF s
  <1>. QED
    BY <1>2, <1>3, <1>6, <1>7 DEF JoinedTo, s

LEMMA JoinNext ==
  ASSUME NEW S, NEW ss \in Seq(Seq(S)), NEW m \in Nat, m \in 1..Len(ss), m + 1 \in 1..Len(ss),
         NEW all \in Seq(S), NEW place \in Seq(Nat \X Nat), JoinedTo(ss, m, all, place)
  PROVE  JoinedTo(ss, m + 1, all \o ss[m + 1], place \o PlacesIn(ss)[m + 1])
  <1>. DEFINE s == ss[m + 1]
              n == Len(place)
              new == [v \in 1..Len(s) |-> <<m + 1, v>>]
              L == n + Len(s)
              a == all \o s
              b == place \o new
  <1>1. s \in Seq(S) /\ Len(s) \in Nat /\ n \in Nat /\ Len(all) = n
    BY DEF JoinedTo
  <1>2. PlacesIn(ss)[m + 1] = new /\ new \in Seq(Nat \X Nat) /\ Len(new) = Len(s)
    <2>0. DOMAIN ss = 1..Len(ss)
      OBVIOUS
    <2>1. PlacesIn(ss)[m + 1] = [v \in DOMAIN ss[m + 1] |-> <<m + 1, v>>]
      BY <2>0 DEF PlacesIn
    <2>2. DOMAIN s = 1..Len(s)
      BY <1>1
    <2>3. new \in Seq(Nat \X Nat) /\ Len(new) = Len(s)
      BY <1>1
    <2>. QED
      BY <2>1, <2>2, <2>3
  <1>3. \A v \in 1..Len(s) : new[v] = <<m + 1, v>>
    OBVIOUS
  <1>. HIDE DEF new
  <1>. HIDE DEF s
  <1>4. Len(a) = L /\ Len(b) = L
    <2>1. Len(a) = Len(all) + Len(s)
      BY <1>1, ConcatProperties
    <2>2. Len(b) = Len(place) + Len(new)
      BY <1>2, ConcatProperties
    <2>. QED
      BY <1>1, <1>2, <2>1, <2>2
  <1>5. ASSUME NEW l \in 1..n
        PROVE  l \in 1..L /\ a[l] = all[l] /\ b[l] = place[l]
    BY <1>1, <1>2
  <1>6. ASSUME NEW v \in 1..Len(s)
        PROVE  n + v \in 1..L /\ n + v \in Int /\ a[n + v] = s[v] /\ b[n + v] = <<m + 1, v>>
    <2>1. v \in Int /\ 1 <= v /\ v <= Len(s)
      BY <1>1
    <2>2. n + v \in 1..L /\ n + v \in Int /\ ~(n + v <= n) /\ n + v - n = v
      BY <1>1, <2>1
    <2>3. a[n + v] = s[v]
      BY <1>1, <2>2
    <2>4. b[n + v] = new[v]
      BY <1>1, <1>2, <2>2
    <2>. QED
      BY <1>3, <2>2, <2>3, <2>4
  <1>7. ASSUME NEW l \in 1..L
        PROVE  l \in 1..n \/ \E v \in 1..Len(s) : l = n + v
    <2>1. CASE l <= n
      BY <1>1, <2>1
    <2>2. CASE ~(l <= n)
      <3>1. l - n \in 1..Len(s) /\ l = n + (l - n)
        BY <1>1, <2>2
      <3>. QED
        BY <3>1
    <2>. QED
      BY <2>1, <2>2
  <1>. HIDE DEF a, b, L
  <1>. USE DEF s
  <1>8. ASSUME NEW l \in 1..L
        PROVE  \E p \in 1..(m + 1) : \E v \in 1..Len(ss[p]) : b[l] = <<p, v>> /\ a[l] = ss[p][v]
    <2>1. CASE l \in 1..n
      <3>1. PICK p \in 1..m : \E v \in 1..Len(ss[p]) : place[l] = <<p, v>> /\ all[l] = ss[p][v]
        BY <2>1 DEF JoinedTo
      <3>2. p \in 1..(m + 1)
        OBVIOUS
      <3>. QED
        BY <1>5, <2>1, <3>1, <3>2
    <2>2. CASE \E v \in 1..Len(s) : l = n + v
      <3>1. PICK v \in 1..Len(s) : l = n + v
        BY <2>2
      <3>2. b[l] = <<m + 1, v>> /\ a[l] = ss[m + 1][v] /\ v \in 1..Len(ss[m + 1])
        BY <1>6, <3>1
      <3>3. m + 1 \in 1..(m + 1)
        OBVIOUS
      <3>. QED
        BY <3>2, <3>3
    <2>. QED
      BY <1>7, <2>1, <2>2
  <1>9. ASSUME NEW l \in 1..L, NEW k \in 1..L, l < k
        PROVE  Earlier(b[l], b[k])
    <2>1. CASE l \in 1..n /\ k \in 1..n
      BY <1>5, <1>9, <2>1 DEF JoinedTo
    <2>2. CASE l \in 1..n /\ \E w \in 1..Len(s) : k = n + w
      <3>1. PICK w \in 1..Len(s) : k = n + w
        BY <2>2
      <3>2. PICK p \in 1..m : \E v \in 1..Len(ss[p]) : place[l] = <<p, v>>
        BY <2>2 DEF JoinedTo
      <3>3. b[l][1] = p
        <4>1. b[l] = place[l]
          BY <1>5, <2>2
        <4>2. \A v : <<p, v>>[1] = p
          OBVIOUS
        <4>. QED
          BY <3>2, <4>1, <4>2
      <3>4. b[k][1] = m + 1
        <4>1. b[k] = <<m + 1, w>>
          BY <1>6, <3>1
        <4>. QED
          BY <4>1
      <3>5. p < m + 1
        OBVIOUS
      <3>. QED
        BY <3>3, <3>4, <3>5 DEF Earlier
    <2>3. CASE (\E v \in 1..Len(s) : l = n + v) /\ \E w \in 1..Len(s) : k = n + w
      <3>1. PICK v \in 1..Len(s) : l = n + v
        BY <2>3
      <3>2. PICK w \in 1..Len(s) : k = n + w
        BY <2>3
      <3>3. v < w
        BY <1>1, <1>9, <3>1, <3>2
      <3>4. b[l] = <<m + 1, v>> /\ b[k] = <<m + 1, w>>
        BY <1>6, <3>1, <3>2
      <3>. QED
        BY <3>3, <3>4 DEF Earlier
    <2>4. CASE (\E v \in 1..Len(s) : l = n + v) /\ k \in 1..n
      <3>1. PICK v \in 1..Len(s) : l = n + v
        BY <2>4
      <3>2. ~(l < k)
        BY <1>1, <2>4, <3>1
      <3>. QED
        BY <1>9, <3>2
    <2>. QED
      BY <1>7, <2>1, <2>2, <2>3, <2>4
  <1>10. ASSUME NEW p \in 1..(m + 1), NEW v \in 1..Len(ss[p])
         PROVE  \E l \in 1..L : b[l] = <<p, v>>
    <2>1. CASE p = m + 1
      BY <1>6, <2>1
    <2>2. CASE p # m + 1
      <3>1. p \in 1..m
        BY <2>2
      <3>2. PICK l \in 1..n : place[l] = <<p, v>>
        BY <3>1 DEF JoinedTo
      <3>. QED
        BY <1>5, <3>2
    <2>. QED
      BY <2>1, <2>2
  <1>. HIDE DEF s
  <1>11. JoinedTo(ss, m + 1, a, b)
    BY <1>4, <1>8, <1>9, <1>10 DEF JoinedTo
  <1>. QED
    BY <1>2, <1>11 DEF a, b, s

(* The elements of a joined sequence and their places.                     *)
LEMMA FlattenJoins ==
  ASSUME NEW S, NEW ss \in Seq(Seq(S))
  PROVE  /\ FlattenSeq(ss) \in Seq(S) /\ FlattenSeq(PlacesIn(ss)) \in Seq(Nat \X Nat)
         /\ JoinedTo(ss, Len(ss), FlattenSeq(ss), FlattenSeq(PlacesIn(ss)))
  <1>. DEFINE N == Len(ss)
              pp == PlacesIn(ss)
  <1>1. N \in Nat /\ DOMAIN ss = 1..N /\ \A p \in 1..N : ss[p] \in Seq(S)
    OBVIOUS
  <1>2. pp \in Seq(Seq(Nat \X Nat)) /\ Len(pp) = N
    <2>1. ASSUME NEW p \in 1..N PROVE pp[p] \in Seq(Nat \X Nat)
      <3>1. DOMAIN ss[p] = 1..Len(ss[p]) /\ Len(ss[p]) \in Nat
        BY <1>1
      <3>2. pp[p] = [v \in 1..Len(ss[p]) |-> <<p, v>>]
        BY <1>1, <3>1 DEF PlacesIn
      <3>. QED
        BY <1>1, <3>1, <3>2
    <2>2. DOMAIN pp = 1..N /\ pp = [p \in DOMAIN pp |-> pp[p]]
      BY <1>1 DEF PlacesIn
    <2>. HIDE DEF pp, N
    <2>. QED
      BY <1>1, <2>1, <2>2, NumberedIsSeq
  <1>3. FlattenSeq(ss) \in Seq(S) /\ FlattenSeq(pp) \in Seq(Nat \X Nat)
    <2>. HIDE DEF pp
    <2>. QED
      BY <1>2, FlattenIsSeq
  <1>4. CASE N = 0
    <2>1. FlattenSeq(ss) = ss /\ FlattenSeq(pp) = pp
      BY <1>2, <1>4 DEF FlattenSeq
    <2>2. Len(ss) = 0 /\ Len(pp) = 0 /\ 1..0 = {}
      BY <1>2, <1>4
    <2>. HIDE DEF pp
    <2>3. JoinedTo(ss, 0, ss, pp)
      BY <2>2 DEF JoinedTo
    <2>. QED
      BY <1>3, <1>4, <2>1, <2>2, <2>3 DEF pp
  <1>5. CASE N # 0
    <2>. HIDE DEF pp
    <2>1. PICK f : /\ \A i \in 1..N : f[i] = IF i = 1 THEN ss[i] ELSE f[i-1] \o ss[i]
                   /\ \A i \in 1..N : f[i] \in Seq(S)
                   /\ FlattenSeq(ss) = f[N]
      <3>1. Len(ss) # 0
        BY <1>5
      <3>2. PICK f : JoinsUpTo(f, ss, S)
        BY <3>1, FlattenSteps
      <3>. QED
        BY <3>2 DEF JoinsUpTo
    <2>2. PICK g : /\ \A i \in 1..N : g[i] = IF i = 1 THEN pp[i] ELSE g[i-1] \o pp[i]
                   /\ \A i \in 1..N : g[i] \in Seq(Nat \X Nat)
                   /\ FlattenSeq(pp) = g[N]
      <3>1. Len(pp) # 0
        BY <1>2, <1>5
      <3>2. PICK g : JoinsUpTo(g, pp, Nat \X Nat)
        BY <1>2, <3>1, FlattenSteps
      <3>. QED
        BY <1>2, <3>2 DEF JoinsUpTo
    <2>. DEFINE wrong == {m \in Nat : m \in 1..N /\ ~JoinedTo(ss, m, f[m], g[m])}
    <2>3. wrong = {}
      <3>. SUFFICES ASSUME wrong # {} PROVE FALSE
        OBVIOUS
      <3>1. PICK m \in wrong : \A k \in wrong : m <= k
        <4>1. wrong \in SUBSET Nat
          OBVIOUS
        <4>. HIDE DEF wrong
        <4>. QED
          BY <4>1, LeastNumber
      <3>2. m \in Nat /\ m \in 1..N /\ ~JoinedTo(ss, m, f[m], g[m])
        BY <3>1
      <3>3. CASE m = 1
        <4>1. f[1] = ss[1] /\ g[1] = pp[1] /\ 1 \in 1..Len(ss)
          BY <2>1, <2>2, <3>2, <3>3
        <4>. QED
          BY <3>2, <3>3, <4>1, JoinOne DEF pp
      <3>4. CASE m # 1
        <4>. DEFINE k == m - 1
        <4>1. k \in Nat /\ k \in 1..N /\ k + 1 = m /\ ~(m <= k)
          BY <1>1, <3>2, <3>4
        <4>2. JoinedTo(ss, k, f[k], g[k])
          BY <3>1, <4>1
        <4>3. f[m] = f[k] \o ss[m] /\ g[m] = g[k] \o pp[m] /\ f[k] \in Seq(S) /\ g[k] \in Seq(Nat \X Nat)
          BY <2>1, <2>2, <3>2, <3>4, <4>1
        <4>. HIDE DEF k
        <4>4. JoinedTo(ss, k + 1, f[k] \o ss[k + 1], g[k] \o PlacesIn(ss)[k + 1])
          BY <3>2, <4>1, <4>2, <4>3, JoinNext
        <4>. QED
          BY <3>2, <4>1, <4>3, <4>4 DEF pp
      <3>. QED
        BY <3>3, <3>4
    <2>4. N \in 1..N /\ N \in Nat
      BY <1>1, <1>5
    <2>5. JoinedTo(ss, N, f[N], g[N])
      BY <2>3, <2>4
    <2>. QED
      BY <1>3, <2>1, <2>2, <2>5 DEF pp
  <1>. QED
    BY <1>4, <1>5

-----------------------------------------------------------------------------
(* What the stages make                                                    *)

LEMMA ParsedRows ==
  ASSUME NEW matrix, Numbered(matrix)
  PROVE  Numbered(ParseMatrix(matrix).rows)
  <1>. DEFINE full == {r \in DOMAIN matrix : \E i \in DOMAIN matrix[r] : ~Blank(matrix[r][i])}
              kept == InOrder(full)
              n == Cardinality(full)
  <1>1. n \in Nat /\ DOMAIN kept = 1..n
    <2>1. PICK m \in Nat : DOMAIN matrix = 1..m
      BY DEF Numbered
    <2>2. full \in SUBSET (1..m)
      BY <2>1
    <2>. HIDE DEF full
    <2>3. n \in 0..m /\ DOMAIN kept = 1..n
      BY <2>2, InOrderLists
    <2>. QED
      BY <2>1, <2>3
  <1>2. kept = [i \in DOMAIN kept |-> kept[i]]
    BY InOrderIsFunction
  <1>3. Len(kept) = n
    <2>. HIDE DEF kept, n
    <2>. QED
      BY <1>1, <1>2, NumberedIsSeq
  <1>4. CASE kept = <<>>
    <2>1. ParseMatrix(matrix).rows = <<>>
      BY <1>4 DEF ParseMatrix
    <2>. QED
      BY <2>1 DEF Numbered
  <1>5. CASE kept # <<>>
    <2>1. DOMAIN ParseMatrix(matrix).rows = 1..(n - 1)
      BY <1>3, <1>5 DEF ParseMatrix
    <2>2. n # 0
      <3>. HIDE DEF kept, n
      <3>. QED
        BY <1>1, <1>2, <1>5
    <2>. HIDE DEF kept, n
    <2>3. n - 1 \in Nat
      BY <1>1, <2>2
    <2>. QED
      BY <2>1, <2>3 DEF Numbered
  <1>. QED
    BY <1>4, <1>5

LEMMA ParsedList ==
  ASSUME NEW matrix
  PROVE  ParseMatrix(matrix).rows
           = [r \in DOMAIN ParseMatrix(matrix).rows |-> ParseMatrix(matrix).rows[r]]
  <1>. DEFINE kept == InOrder({r \in DOMAIN matrix : \E i \in DOMAIN matrix[r] : ~Blank(matrix[r][i])})
              headers == DetectHeaders(matrix[kept[1]])
              column(h) == Max({i \in DOMAIN headers : headers[i] = h})
              cell(row, h) == IF column(h) \in DOMAIN row THEN Trim(row[column(h)]) ELSE ""
              row(r) == [h \in ToSet(headers) |-> cell(matrix[kept[r + 1]], h)]
  <1>1. CASE kept = <<>>
    <2>1. ParseMatrix(matrix).rows = <<>>
      BY <1>1 DEF ParseMatrix
    <2>. QED
      BY <2>1
  <1>2. CASE kept # <<>>
    <2>1. ParseMatrix(matrix).rows = [r \in 1..(Len(kept) - 1) |-> row(r)]
      BY <1>2 DEF ParseMatrix
    <2>. HIDE DEF row
    <2>. QED
      BY <2>1
  <1>. QED
    BY <1>1, <1>2

Keys(rows, columns) == [i \in DOMAIN rows |-> GroupingKey(rows[i], columns)]

RowVariant(row, columns) == StoredVariant(VariantOf(row, columns))

(* A product made of the rows of one group, as the database keeps it.      *)
MadeOf(product, rows, columns, group) ==
  /\ product.title # ""
  /\ product.price # NaN /\ product.compareAtPrice # NaN /\ product.cost # NaN
  /\ product.variants = [v \in DOMAIN group |-> RowVariant(rows[group[v]], columns)]
  /\ product.images = <<>> \/ \E image : product.images = <<image>>
  /\ 1 \in DOMAIN group => product.sku = product.variants[1].sku

LEMMA StoredIsFinite ==
  ASSUME NEW n PROVE Stored(n) # NaN
  BY NumberAssumption DEF Stored, IsFinite

LEMMA StoredFields ==
  ASSUME NEW variant,
         {"price", "compareAtPrice", "cost", "inventoryQuantity", "weight"} \subseteq DOMAIN variant
  PROVE  HasNoNaN(StoredVariant(variant))
  <1>. DEFINE stored == StoredVariant(variant)
  <1>1. stored.price = Stored(variant.price)
    BY DEF StoredVariant
  <1>2. stored.compareAtPrice = Stored(variant.compareAtPrice)
    BY DEF StoredVariant
  <1>3. stored.cost = Stored(variant.cost)
    BY DEF StoredVariant
  <1>4. stored.inventoryQuantity = Stored(variant.inventoryQuantity)
    BY DEF StoredVariant
  <1>5. stored.weight = Stored(variant.weight)
    BY DEF StoredVariant
  <1>. HIDE DEF stored
  <1>6. /\ stored.price # NaN /\ stored.compareAtPrice # NaN /\ stored.cost # NaN
        /\ stored.inventoryQuantity # NaN /\ stored.weight # NaN
    BY <1>1, <1>2, <1>3, <1>4, <1>5, StoredIsFinite
  <1>7. HasNoNaN(stored)
    BY <1>6 DEF HasNoNaN
  <1>. QED
    BY <1>7 DEF stored

LEMMA RowHasNoNaN ==
  ASSUME NEW row, NEW columns PROVE HasNoNaN(RowVariant(row, columns))
  <1>1. {"price", "compareAtPrice", "cost", "inventoryQuantity", "weight"} \subseteq DOMAIN VariantOf(row, columns)
    BY DEF VariantOf
  <1>. QED
    BY <1>1, StoredFields DEF RowVariant

LEMMA CatalogProduct ==
  ASSUME NEW rows, NEW columns, NEW p \in DOMAIN Groups(Keys(rows, columns))
  PROVE  MadeOf(PersistProduct(RowsToCatalog(rows, columns)[p]), rows, columns,
                Groups(Keys(rows, columns))[p])
  <1>. DEFINE group == Groups(Keys(rows, columns))[p]
              product == RowsToCatalog(rows, columns)[p]
              first == ProductOf(rows[group[1]], columns)
              pictured == SelectInSeq(group, LAMBDA i : ImagesOf(rows[i], columns) # <<>>)
              variants == [v \in DOMAIN group |-> VariantOf(rows[group[v]], columns)]
              images == IF pictured = 0 THEN <<>> ELSE ImagesOf(rows[group[pictured]], columns)
              options == GroupOptions([v \in DOMAIN group |-> RowOptions(rows[group[v]], columns)])
              Fields == {"sku", "title", "price", "compareAtPrice", "cost", "images", "variants"}
  <1>1. product = [first EXCEPT !.images = images, !.options = options, !.variants = variants]
    BY DEF RowsToCatalog, Keys
  <1>2. Fields \subseteq DOMAIN first
    BY DEF ProductOf
  <1>3. images = <<>> \/ \E image : images = <<image>>
    BY DEF ImagesOf
  <1>10. /\ first.sku = Trim(Mapped(rows[group[1]], columns, "sku"))
         /\ \A v : /\ VariantOf(rows[group[v]], columns).sku = Trim(Mapped(rows[group[v]], columns, "sku"))
                   /\ StoredVariant(VariantOf(rows[group[v]], columns)).sku = VariantOf(rows[group[v]], columns).sku
    <2>1. first.sku = Trim(Mapped(rows[group[1]], columns, "sku"))
      BY DEF ProductOf
    <2>2. ASSUME NEW v
          PROVE  VariantOf(rows[group[v]], columns).sku = Trim(Mapped(rows[group[v]], columns, "sku"))
      BY DEF VariantOf
    <2>3. ASSUME NEW variant, "sku" \in DOMAIN variant
          PROVE  StoredVariant(variant).sku = variant.sku
      BY <2>3 DEF StoredVariant
    <2>4. \A v : "sku" \in DOMAIN VariantOf(rows[group[v]], columns)
      BY DEF VariantOf
    <2>. QED
      BY <2>1, <2>2, <2>3, <2>4
  <1>. HIDE DEF first, images, options, variants
  <1>11. first.sku = StoredVariant(VariantOf(rows[group[1]], columns)).sku
    BY <1>10
  <1>4. Fields \subseteq DOMAIN product
    BY <1>1, <1>2
  <1>5. product.images = images /\ product.variants = variants /\ product.sku = first.sku
    BY <1>1, <1>2
  <1>. HIDE DEF product
  <1>. DEFINE kept == PersistProduct(product)
  <1>6. DOMAIN kept = DOMAIN product /\ kept.images = product.images /\ kept.sku = product.sku
    BY <1>4 DEF PersistProduct
  <1>7. kept.title # ""
    BY <1>4 DEF PersistProduct
  <1>8. kept.price # NaN /\ kept.compareAtPrice # NaN /\ kept.cost # NaN
    <2>1. kept.price = Stored(product.price)
      BY <1>4 DEF PersistProduct
    <2>2. kept.compareAtPrice = Stored(product.compareAtPrice)
      BY <1>4 DEF PersistProduct
    <2>3. kept.cost = Stored(product.cost)
      BY <1>4 DEF PersistProduct
    <2>. QED
      BY <2>1, <2>2, <2>3, StoredIsFinite
  <1>9. kept.variants = [v \in DOMAIN group |-> RowVariant(rows[group[v]], columns)]
    <2>1. kept.variants = [v \in DOMAIN product.variants |-> StoredVariant(product.variants[v])]
      BY <1>4 DEF PersistProduct
    <2>. QED
      BY <1>5, <2>1 DEF variants, RowVariant
  <1>12. 1 \in DOMAIN group => kept.sku = kept.variants[1].sku
    BY <1>5, <1>6, <1>9, <1>11 DEF RowVariant
  <1>. QED
    BY <1>3, <1>5, <1>6, <1>7, <1>8, <1>9, <1>12 DEF MadeOf, product

LEMMA CatalogDomain ==
  ASSUME NEW rows, NEW columns
  PROVE  DOMAIN RowsToCatalog(rows, columns) = DOMAIN Groups(Keys(rows, columns))
  BY DEF RowsToCatalog, Keys

(* A product has one line for each variant, with the columns of the file.  *)
LEMMA ProductLines ==
  ASSUME NEW product, NEW rows, NEW columns, NEW group, NEW m \in Nat \ {0}, DOMAIN group = 1..m,
         MadeOf(product, rows, columns, group),
         NEW S, \A l \in DOMAIN MapProductToShopifyRows(product) : MapProductToShopifyRows(product)[l] \in S
  PROVE  /\ MapProductToShopifyRows(product) \in Seq(S)
         /\ DOMAIN MapProductToShopifyRows(product) = 1..m
         /\ \A l \in DOMAIN MapProductToShopifyRows(product) :
              DOMAIN MapProductToShopifyRows(product)[l] = ToSet(SHOPIFY_CSV_HEADERS)
  <1>. DEFINE lines == MapProductToShopifyRows(product)
              n == Longer(Len(product.variants), Len(product.images))
  <1>1. Len(product.variants) = m
    <2>. DEFINE variants == product.variants
    <2>1. DOMAIN variants = 1..m /\ variants = [v \in DOMAIN variants |-> variants[v]]
      BY DEF MadeOf
    <2>. HIDE DEF variants
    <2>2. Len(variants) = m
      BY <2>1, NumberedIsSeq
    <2>. QED
      BY <2>2 DEF variants
  <1>2. Len(product.images) \in {0, 1}
    <2>1. \A image : Len(<<image>>) = 1
      OBVIOUS
    <2>2. Len(<<>>) = 0
      OBVIOUS
    <2>3. product.images = <<>> \/ \E image : product.images = <<image>>
      BY DEF MadeOf
    <2>4. CASE product.images = <<>>
      BY <2>2, <2>4
    <2>5. CASE \E image : product.images = <<image>>
      <3>1. PICK image : product.images = <<image>>
        BY <2>5
      <3>2. Len(product.images) = 1
        BY <2>1, <3>1
      <3>. QED
        BY <3>2
    <2>. QED
      BY <2>3, <2>4, <2>5
  <1>3. n \in Nat /\ n = m
    <2>1. m \in Nat /\ ~(m < 0) /\ ~(m < 1)
      OBVIOUS
    <2>2. ASSUME NEW i \in {0, 1} PROVE Longer(m, i) = m
      BY <2>1 DEF Longer
    <2>. QED
      BY <1>1, <1>2, <2>1, <2>2
  <1>4. DOMAIN lines = 1..n /\ \A l \in 1..n : DOMAIN lines[l] = ToSet(SHOPIFY_CSV_HEADERS)
    BY DEF MapProductToShopifyRows
  <1>5. lines = [l \in DOMAIN lines |-> lines[l]]
    BY DEF MapProductToShopifyRows
  <1>. HIDE DEF lines, n
  <1>6. lines \in Seq(S)
    BY <1>3, <1>4, <1>5, NumberedIsSeq DEF lines
  <1>. QED
    BY <1>3, <1>4, <1>6 DEF lines

(* The line of a variant.                                                  *)
LEMMA LineOfVariant ==
  ASSUME NEW product, NEW v \in DOMAIN MapProductToShopifyRows(product),
         v \in DOMAIN product.variants
  PROVE  LineSays(MapProductToShopifyRows(product)[v], product, v)
  <1>. DEFINE line == MapProductToShopifyRows(product)[v]
              H == ToSet(SHOPIFY_CSV_HEADERS)
              image(column) ==
                IF v \in DOMAIN product.images THEN ImageCell(product.images[v], column) ELSE ""
              cell(column) ==
                CASE column = "Handle" -> ExportHandle(product)
                  [] column \in ImageColumns -> image(column)
                  [] column \in VariantColumns -> VariantCell(product, product.variants[v], column)
                  [] column \in DOMAIN FixedCell -> FixedCell[column]
                  [] column \in ProductColumns -> IF v = 1 THEN ProductCell(product, column) ELSE ""
  <1>1. \A column \in H : line[column] = SanitizeCsvCell(cell(column))
    <2>1. line = [column \in H |-> SanitizeCsvCell(
                    CASE column = "Handle" -> ExportHandle(product)
                      [] column \in ImageColumns -> image(column)
                      [] column \in VariantColumns ->
                           IF v \in DOMAIN product.variants
                           THEN VariantCell(product, product.variants[v], column) ELSE ""
                      [] column \in DOMAIN FixedCell ->
                           IF v \in DOMAIN product.variants THEN FixedCell[column] ELSE ""
                      [] column \in ProductColumns -> IF v = 1 THEN ProductCell(product, column) ELSE "")]
      BY DEF MapProductToShopifyRows
    <2>2. v \in DOMAIN product.variants
      OBVIOUS
    <2>. HIDE DEF line, H, image
    <2>. QED
      BY <2>1, <2>2
  <1>2. "Handle" \in H /\ "Title" \in H
    <2>1. 1 \in DOMAIN SHOPIFY_CSV_HEADERS /\ SHOPIFY_CSV_HEADERS[1] = "Handle"
      BY DEF SHOPIFY_CSV_HEADERS
    <2>2. 2 \in DOMAIN SHOPIFY_CSV_HEADERS /\ SHOPIFY_CSV_HEADERS[2] = "Title"
      BY DEF SHOPIFY_CSV_HEADERS
    <2>. QED
      BY <2>1, <2>2 DEF ToSet
  <1>. HIDE DEF line, H, image
  <1>3. cell("Handle") = ExportHandle(product)
    BY DEF ImageColumns, VariantColumns, ProductColumns, FixedCell
  <1>4. \A column \in VariantColumns :
          column \in H /\ cell(column) = VariantCell(product, product.variants[v], column)
    <2>. SUFFICES ASSUME NEW column \in VariantColumns
                  PROVE  column \in H /\ cell(column) = VariantCell(product, product.variants[v], column)
      OBVIOUS
    <2>1. /\ column \in H /\ column # "Handle" /\ column \notin ImageColumns
          /\ column \notin DOMAIN FixedCell /\ column \notin ProductColumns
      BY DEF VariantColumns, H
    <2>. QED
      BY <2>1
  <1>5. cell("Title") = IF v = 1 THEN product.title ELSE ""
    <2>1. "Title" \in ProductColumns /\ "Title" \notin VariantColumns /\ "Title" \notin ImageColumns
      BY DEF ProductColumns, VariantColumns, ImageColumns
    <2>2. "Title" \notin DOMAIN FixedCell
      BY DEF FixedCell
    <2>3. ProductCell(product, "Title") = product.title
      BY DEF ProductCell
    <2>. QED
      BY <2>1, <2>2, <2>3
  <1>6. SanitizeCsvCell("") = ""
    BY DEF SanitizeCsvCell
  <1>. HIDE DEF cell
  <1>7. line["Title"] = IF v = 1 THEN SanitizeCsvCell(product.title) ELSE ""
    BY <1>1, <1>2, <1>5, <1>6
  <1>8. LineSays(line, product, v)
    BY <1>1, <1>2, <1>3, <1>4, <1>7 DEF LineSays
  <1>. QED
    BY <1>8 DEF line

-----------------------------------------------------------------------------
(* The inductive invariant                                                 *)

(* The products there are were made of the groups of the rows.             *)
Grouped ==
  /\ DOMAIN products = DOMAIN Groups(Keys(sheet.rows, mapping))
  /\ products = [p \in DOMAIN products |-> products[p]]
  /\ \A p \in DOMAIN products :
       MadeOf(products[p], sheet.rows, mapping, Groups(Keys(sheet.rows, mapping))[p])

(* The judgement of the validation.                                        *)
HasError(p) ==
  \E issue \in ValidateCatalog(products) : issue.product = p /\ issue.severity = "ERROR"

Judged ==
  /\ issues = ValidateCatalog(products)
  /\ DOMAIN status = DOMAIN products
  /\ \A p \in DOMAIN products : status[p] = IF HasError(p) THEN "INVALID" ELSE "READY"

CsvNamed ==
  /\ Numbered(csv)
  /\ \A l \in DOMAIN csv : DOMAIN csv[l] = ToSet(SHOPIFY_CSV_HEADERS)

FlowInv ==
  /\ stage \in {"UPLOADED", "MAPPING_REQUIRED", "VALIDATING", "READY", "COMPLETED"}
  /\ round \in 1..MaxRounds
  /\ Numbered(file) /\ Numbered(sheet.rows) /\ sheet.rows = [r \in DOMAIN sheet.rows |-> sheet.rows[r]]
  /\ stage = "UPLOADED" => mapping = <<>>
  /\ \A i \in DOMAIN mapping : mapping[i].source \in ToSet(sheet.headers)
  /\ stage \in {"UPLOADED", "MAPPING_REQUIRED"} => products = <<>> /\ status = <<>> /\ issues = {}
  /\ stage \in {"VALIDATING", "READY", "COMPLETED"} => Grouped
  /\ stage = "VALIDATING" => issues = {} /\ status = [p \in DOMAIN products |-> "PROCESSING"]
  /\ stage \in {"READY", "COMPLETED"} => Judged
  /\ CsvNamed
  /\ stage = "COMPLETED" => csv = ShopifyCsv(products)

LEMMA FlowInit == Init => FlowInv
  <1>. SUFFICES ASSUME Init PROVE FlowInv
    OBVIOUS
  <1>1. Numbered(<<>>)
    BY DEF Numbered
  <1>2. Numbered(file)
    <2>1. file \in Seq(Seq(STRING))
      BY FlowAssumption DEF Init
    <2>. QED
      BY <2>1 DEF Numbered
  <1>3. round \in 1..MaxRounds
    BY FlowAssumption DEF Init
  <1>. QED
    BY <1>1, <1>2, <1>3 DEF Init, FlowInv, CsvNamed

LEMMA ParseInv == FlowInv /\ Parse => FlowInv'
  <1>. SUFFICES ASSUME FlowInv, Parse PROVE FlowInv'
    OBVIOUS
  <1>1. Numbered(sheet.rows)'
    BY ParsedRows DEF FlowInv, Parse
  <1>2. \A i \in DOMAIN mapping' : mapping'[i].source \in ToSet(sheet'.headers)
    BY DEF Parse, ToSet
  <1>3. sheet'.rows = [r \in DOMAIN sheet'.rows |-> sheet'.rows[r]]
    BY ParsedList DEF Parse
  <1>. QED
    BY <1>1, <1>2, <1>3 DEF Parse, FlowInv, CsvNamed, Numbered

LEMMA RemapInv ==
  ASSUME FlowInv, NEW i \in DOMAIN mapping, NEW target, Remap(i, target)
  PROVE  FlowInv'
  <1>1. \A j \in DOMAIN mapping' : j \in DOMAIN mapping /\ mapping'[j].source = mapping[j].source
    <2>. SUFFICES ASSUME NEW j \in DOMAIN mapping'
                  PROVE  j \in DOMAIN mapping /\ mapping'[j].source = mapping[j].source
      OBVIOUS
    <2>1. mapping' = [mapping EXCEPT ![i].target = target]
      BY DEF Remap
    <2>. QED
      BY <2>1
  <1>. QED
    BY <1>1 DEF Remap, FlowInv, CsvNamed, Numbered

LEMMA NormalizeInv == FlowInv /\ Normalize => FlowInv'
  <1>. SUFFICES ASSUME FlowInv, Normalize PROVE FlowInv'
    OBVIOUS
  <1>. DEFINE catalog == RowsToCatalog(sheet.rows, mapping)
  <1>1. /\ products' = [p \in DOMAIN catalog |-> PersistProduct(catalog[p])]
        /\ status' = [p \in DOMAIN catalog |-> "PROCESSING"]
        /\ stage' = "VALIDATING" /\ stage = "MAPPING_REQUIRED"
        /\ UNCHANGED <<file, sheet, mapping, issues, csv, sent, round>>
    BY DEF Normalize
  <1>2. DOMAIN catalog = DOMAIN Groups(Keys(sheet.rows, mapping))
    BY CatalogDomain
  <1>3. ASSUME NEW p \in DOMAIN products'
        PROVE  MadeOf(products'[p], sheet.rows, mapping, Groups(Keys(sheet.rows, mapping))[p])
    BY <1>1, <1>2, CatalogProduct
  <1>. HIDE DEF catalog
  <1>4. products' = [p \in DOMAIN products' |-> products'[p]]
    BY <1>1
  <1>5. Grouped'
    BY <1>1, <1>2, <1>3, <1>4 DEF Grouped
  <1>6. status' = [p \in DOMAIN products' |-> "PROCESSING"]
    BY <1>1
  <1>. QED
    BY <1>1, <1>5, <1>6 DEF FlowInv, CsvNamed, Numbered

LEMMA ValidateInv == FlowInv /\ Validate => FlowInv'
  <1>. SUFFICES ASSUME FlowInv, Validate PROVE FlowInv'
    OBVIOUS
  <1>1. Judged'
    BY DEF Validate, Judged, HasError
  <1>2. Grouped'
    BY DEF FlowInv, Validate, Grouped
  <1>. QED
    BY <1>1, <1>2 DEF Validate, FlowInv, CsvNamed, Numbered

Lines(catalog) == [p \in DOMAIN catalog |-> MapProductToShopifyRows(catalog[p])]

(* Every variant of the products has one line, which is in S.              *)
LinesIn(S) ==
  /\ Lines(products) \in Seq(Seq(S))
  /\ \A line \in S : DOMAIN line = ToSet(SHOPIFY_CSV_HEADERS)
  /\ \A p \in DOMAIN products :
       DOMAIN MapProductToShopifyRows(products[p]) = DOMAIN products[p].variants

LEMMA CatalogLines ==
  ASSUME Grouped, Numbered(sheet.rows)
  PROVE  \E S : LinesIn(S)
  <1>. DEFINE groups == Groups(Keys(sheet.rows, mapping))
              of(p) == MapProductToShopifyRows(products[p])
              all == [p \in DOMAIN products |-> of(p)]
              S == {line \in UNION {{of(p)[l] : l \in DOMAIN of(p)} : p \in DOMAIN products} :
                      DOMAIN line = ToSet(SHOPIFY_CSV_HEADERS)}
  <1>2. PICK k \in Nat : /\ DOMAIN products = 1..k
                         /\ \A p \in 1..k : \E n \in Nat \ {0} : DOMAIN groups[p] = 1..n
    <2>1. PICK m \in Nat : DOMAIN Keys(sheet.rows, mapping) = 1..m
      BY DEF Numbered, Keys
    <2>2. PICK k \in 0..m : /\ DOMAIN groups = 1..k
                            /\ \A p \in 1..k : \E n \in 1..m : DOMAIN groups[p] = 1..n
      BY <2>1, GroupsPartition
    <2>3. k \in Nat /\ 1..m \subseteq Nat \ {0}
      BY <2>1
    <2>. QED
      BY <2>2, <2>3 DEF Grouped
  <1>3. ASSUME NEW p \in 1..k PROVE of(p) \in Seq(S) /\ DOMAIN of(p) = DOMAIN products[p].variants
    <2>. DEFINE lines == of(p)
                H == ToSet(SHOPIFY_CSV_HEADERS)
    <2>1. PICK n \in Nat \ {0} : DOMAIN groups[p] = 1..n
      BY <1>2
    <2>2. MadeOf(products[p], sheet.rows, mapping, groups[p])
      BY <1>2 DEF Grouped
    <2>. HIDE DEF groups
    <2>3. \A l \in DOMAIN lines : DOMAIN lines[l] = H
      <3>. DEFINE T == {lines[l] : l \in DOMAIN lines}
      <3>1. \A l \in DOMAIN lines : lines[l] \in T
        OBVIOUS
      <3>. HIDE DEF T
      <3>. QED
        BY <2>1, <2>2, <3>1, ProductLines
    <2>4. \A l \in DOMAIN lines : lines[l] \in S
      <3>. SUFFICES ASSUME NEW l \in DOMAIN lines PROVE lines[l] \in S
        OBVIOUS
      <3>1. lines[l] \in {of(p)[j] : j \in DOMAIN of(p)}
        OBVIOUS
      <3>. HIDE DEF of
      <3>2. lines[l] \in UNION {{of(q)[j] : j \in DOMAIN of(q)} : q \in DOMAIN products}
        BY <1>2, <3>1
      <3>. QED
        BY <2>3, <3>2
    <2>. HIDE DEF S
    <2>5. lines \in Seq(S) /\ DOMAIN lines = 1..n
      BY <2>1, <2>2, <2>4, ProductLines
    <2>6. DOMAIN products[p].variants = 1..n
      BY <2>1, <2>2 DEF MadeOf
    <2>. QED
      BY <2>5, <2>6
  <1>. HIDE DEF S, groups, of
  <1>4. all \in Seq(Seq(S))
    BY <1>2, <1>3
  <1>5. Lines(products) = all
    BY DEF Lines, of
  <1>6. \A line \in S : DOMAIN line = ToSet(SHOPIFY_CSV_HEADERS)
    BY DEF S
  <1>7. \A p \in DOMAIN products : DOMAIN MapProductToShopifyRows(products[p]) = DOMAIN products[p].variants
    BY <1>2, <1>3 DEF of
  <1>8. LinesIn(S)
    BY <1>4, <1>5, <1>6, <1>7 DEF LinesIn
  <1>. QED
    BY <1>8

LEMMA ExportInv == FlowInv /\ Export => FlowInv'
  <1>. SUFFICES ASSUME FlowInv, Export PROVE FlowInv'
    OBVIOUS
  <1>1. Grouped /\ Numbered(sheet.rows)
    BY DEF FlowInv, Export
  <1>2. PICK S : LinesIn(S)
    BY <1>1, CatalogLines
  <1>3. csv' = FlattenSeq(Lines(products))
    BY DEF Export, ShopifyCsv, Lines
  <1>4. csv' \in Seq(S)
    BY <1>2, <1>3, FlattenIsSeq DEF LinesIn
  <1>5. CsvNamed'
    BY <1>2, <1>4 DEF CsvNamed, Numbered, LinesIn
  <1>6. Grouped' /\ Judged'
    BY DEF FlowInv, Export, Grouped, Judged, HasError
  <1>7. csv' = ShopifyCsv(products')
    BY DEF Export
  <1>. QED
    BY <1>5, <1>6, <1>7 DEF Export, FlowInv, Numbered

LEMMA ReimportInv == FlowInv /\ Reimport => FlowInv'
  <1>. SUFFICES ASSUME FlowInv, Reimport PROVE FlowInv'
    OBVIOUS
  <1>1. Numbered(file')
    <2>1. PICK n \in Nat : DOMAIN csv = 1..n
      BY DEF FlowInv, CsvNamed, Numbered
    <2>. DEFINE lines == CsvLines
                S == {lines[l] : l \in 1..n} \cup {SHOPIFY_CSV_HEADERS}
    <2>2. DOMAIN lines = 1..n /\ lines = [l \in DOMAIN lines |-> lines[l]]
      BY <2>1 DEF CsvLines
    <2>. HIDE DEF lines
    <2>3. lines \in Seq(S)
      <3>1. \A l \in 1..n : lines[l] \in S
        OBVIOUS
      <3>. HIDE DEF S
      <3>. QED
        BY <2>2, <3>1, NumberedIsSeq
    <2>4. SHOPIFY_CSV_HEADERS \in S
      OBVIOUS
    <2>. HIDE DEF S
    <2>5. <<SHOPIFY_CSV_HEADERS>> \o lines \in Seq(S)
      BY <2>3, <2>4
    <2>6. file' = <<SHOPIFY_CSV_HEADERS>> \o lines
      BY DEF Reimport, lines
    <2>. QED
      BY <2>5, <2>6 DEF Numbered
  <1>2. round' \in 1..MaxRounds
    BY FlowAssumption DEF FlowInv, Reimport
  <1>. QED
    BY <1>1, <1>2 DEF Reimport, FlowInv, CsvNamed, Numbered

LEMMA FlowNext == FlowInv /\ [Next]_vars => FlowInv'
  <1>. SUFFICES ASSUME FlowInv, [Next]_vars PROVE FlowInv'
    OBVIOUS
  <1>1. CASE UNCHANGED vars
    BY <1>1 DEF vars, FlowInv, CsvNamed, Numbered, Grouped, Judged, HasError
  <1>2. CASE \E i \in DOMAIN mapping, target \in TargetFields : Remap(i, target)
    BY <1>2, RemapInv
  <1>. QED
    BY <1>1, <1>2, ParseInv, NormalizeInv, ValidateInv, ExportInv, ReimportInv DEF Next, Finished

(* An issue is of a product there is.                                      *)
LEMMA IssuesNamed ==
  ASSUME NEW catalog, NEW issue \in ValidateCatalog(catalog)
  PROVE  issue.product \in DOMAIN catalog
  <1>1. PICK p \in DOMAIN catalog :
          \/ issue \in MissingTitle(catalog, p)
          \/ issue \in MissingSku(catalog, p)
          \/ issue \in DuplicateSku(catalog, p)
          \/ issue \in InvalidPrice(catalog, p)
          \/ issue \in InvalidInventory(catalog, p)
          \/ issue \in InvalidBarcode(catalog, p)
          \/ issue \in ImageNotFound(catalog, p)
          \/ issue \in EmptyDescription(catalog, p)
          \/ issue \in DuplicateHandle(catalog, p)
          \/ issue \in OversizedSeo(catalog, p)
          \/ issue \in UnsupportedHtml(catalog, p)
          \/ issue \in InvalidWeight(catalog, p)
    BY DEF ValidateCatalog
  <1>2. \A code, severity, v : Issue(code, severity, p, v).product = p
    BY DEF Issue
  <1>3. CASE issue \in MissingTitle(catalog, p)
    BY <1>3, <1>2 DEF MissingTitle, When
  <1>4. CASE issue \in MissingSku(catalog, p)
    BY <1>4, <1>2 DEF MissingSku, When
  <1>5. CASE issue \in DuplicateSku(catalog, p)
    BY <1>5, <1>2 DEF DuplicateSku, When
  <1>6. CASE issue \in InvalidPrice(catalog, p)
    BY <1>6, <1>2 DEF InvalidPrice, When
  <1>7. CASE issue \in InvalidInventory(catalog, p)
    BY <1>7, <1>2 DEF InvalidInventory, When
  <1>8. CASE issue \in InvalidBarcode(catalog, p)
    BY <1>8, <1>2 DEF InvalidBarcode, When
  <1>9. CASE issue \in ImageNotFound(catalog, p)
    BY <1>9, <1>2 DEF ImageNotFound, When
  <1>10. CASE issue \in EmptyDescription(catalog, p)
    BY <1>10, <1>2 DEF EmptyDescription, When
  <1>11. CASE issue \in DuplicateHandle(catalog, p)
    BY <1>11, <1>2 DEF DuplicateHandle, When
  <1>12. CASE issue \in OversizedSeo(catalog, p)
    BY <1>12, <1>2 DEF OversizedSeo, When
  <1>13. CASE issue \in UnsupportedHtml(catalog, p)
    BY <1>13, <1>2 DEF UnsupportedHtml, When
  <1>14. CASE issue \in InvalidWeight(catalog, p)
    BY <1>14, <1>2 DEF InvalidWeight, When
  <1>. QED
    BY <1>1, <1>3, <1>4, <1>5, <1>6, <1>7, <1>8, <1>9, <1>10, <1>11, <1>12, <1>13, <1>14

(* The rule for SKUs alone finds a DUPLICATE_SKU.                          *)
LEMMA OneRuleFindsDuplicates ==
  ASSUME NEW catalog, NEW issue \in ValidateCatalog(catalog), issue.code = "DUPLICATE_SKU"
  PROVE  issue \in DuplicateSku(catalog, issue.product)
  <1>1. PICK p \in DOMAIN catalog :
          \/ issue \in MissingTitle(catalog, p)
          \/ issue \in MissingSku(catalog, p)
          \/ issue \in DuplicateSku(catalog, p)
          \/ issue \in InvalidPrice(catalog, p)
          \/ issue \in InvalidInventory(catalog, p)
          \/ issue \in InvalidBarcode(catalog, p)
          \/ issue \in ImageNotFound(catalog, p)
          \/ issue \in EmptyDescription(catalog, p)
          \/ issue \in DuplicateHandle(catalog, p)
          \/ issue \in OversizedSeo(catalog, p)
          \/ issue \in UnsupportedHtml(catalog, p)
          \/ issue \in InvalidWeight(catalog, p)
    BY DEF ValidateCatalog
  <1>2. \A code, severity, v : Issue(code, severity, p, v).product = p /\ Issue(code, severity, p, v).code = code
    BY DEF Issue
  <1>3. issue \notin MissingTitle(catalog, p)
    BY <1>2 DEF MissingTitle, When
  <1>4. issue \notin MissingSku(catalog, p)
    BY <1>2 DEF MissingSku, When
  <1>5. issue \notin InvalidPrice(catalog, p)
    BY <1>2 DEF InvalidPrice, When
  <1>6. issue \notin InvalidInventory(catalog, p)
    <2>. SUFFICES ASSUME issue \in InvalidInventory(catalog, p) PROVE FALSE
      OBVIOUS
    <2>1. \E code, severity, v : code # "DUPLICATE_SKU" /\ issue = Issue(code, severity, p, v)
      BY DEF InvalidInventory, When
    <2>. QED
      BY <1>2, <2>1
  <1>7. issue \notin InvalidBarcode(catalog, p)
    <2>. SUFFICES ASSUME issue \in InvalidBarcode(catalog, p) PROVE FALSE
      OBVIOUS
    <2>1. \E code, severity, v : code # "DUPLICATE_SKU" /\ issue = Issue(code, severity, p, v)
      BY DEF InvalidBarcode, When
    <2>. QED
      BY <1>2, <2>1
  <1>8. issue \notin ImageNotFound(catalog, p)
    <2>. SUFFICES ASSUME issue \in ImageNotFound(catalog, p) PROVE FALSE
      OBVIOUS
    <2>1. \E code, severity, v : code # "DUPLICATE_SKU" /\ issue = Issue(code, severity, p, v)
      BY DEF ImageNotFound, When
    <2>. QED
      BY <1>2, <2>1
  <1>9. issue \notin EmptyDescription(catalog, p)
    BY <1>2 DEF EmptyDescription, When
  <1>10. issue \notin DuplicateHandle(catalog, p)
    <2>. SUFFICES ASSUME issue \in DuplicateHandle(catalog, p) PROVE FALSE
      OBVIOUS
    <2>1. \E code, severity, v : code # "DUPLICATE_SKU" /\ issue = Issue(code, severity, p, v)
      BY DEF DuplicateHandle, When
    <2>. QED
      BY <1>2, <2>1
  <1>11. issue \notin OversizedSeo(catalog, p)
    BY <1>2 DEF OversizedSeo, When
  <1>12. issue \notin UnsupportedHtml(catalog, p)
    BY <1>2 DEF UnsupportedHtml, When
  <1>13. issue \notin InvalidWeight(catalog, p)
    <2>. SUFFICES ASSUME issue \in InvalidWeight(catalog, p) PROVE FALSE
      OBVIOUS
    <2>1. \E code, severity, v : code # "DUPLICATE_SKU" /\ issue = Issue(code, severity, p, v)
      BY DEF InvalidWeight, When
    <2>. QED
      BY <1>2, <2>1
  <1>14. issue \in DuplicateSku(catalog, p)
    BY <1>1, <1>3, <1>4, <1>5, <1>6, <1>7, <1>8, <1>9, <1>10, <1>11, <1>12, <1>13
  <1>15. issue.product = p
    <2>1. \E v : issue = Issue("DUPLICATE_SKU", "ERROR", p, v)
      BY <1>14 DEF DuplicateSku, When
    <2>. QED
      BY <1>2, <2>1
  <1>. QED
    BY <1>14, <1>15

LEMMA FlowTypeFollows == FlowInv => FlowTypeOK
  <1>. SUFFICES ASSUME FlowInv PROVE FlowTypeOK
    OBVIOUS
  <1>1. DOMAIN status = DOMAIN products
    BY DEF FlowInv, Judged
  <1>2. ASSUME NEW p \in DOMAIN products
        PROVE  /\ products[p].title # "" /\ products[p].variants # <<>>
               /\ NaN \notin {products[p].price, products[p].compareAtPrice, products[p].cost}
               /\ \A v \in DOMAIN products[p].variants : HasNoNaN(products[p].variants[v])
               /\ status[p] \in {"PROCESSING", "INVALID", "READY"}
    <2>1. stage \in {"VALIDATING", "READY", "COMPLETED"}
      BY <1>2 DEF FlowInv
    <2>2. Grouped /\ Numbered(sheet.rows)
      BY <2>1 DEF FlowInv
    <2>. DEFINE group == Groups(Keys(sheet.rows, mapping))[p]
    <2>6. MadeOf(products[p], sheet.rows, mapping, group)
      BY <2>2 DEF Grouped
    <2>. HIDE DEF group
    <2>3. /\ products[p].title # ""
          /\ NaN \notin {products[p].price, products[p].compareAtPrice, products[p].cost}
      BY <2>6 DEF MadeOf
    <2>7. ASSUME NEW v \in DOMAIN products[p].variants PROVE HasNoNaN(products[p].variants[v])
      <3>1. products[p].variants[v] = RowVariant(sheet.rows[group[v]], mapping)
        BY <2>6 DEF MadeOf
      <3>. QED
        BY <3>1, RowHasNoNaN
    <2>4. products[p].variants # <<>>
      <3>1. PICK m \in Nat : DOMAIN Keys(sheet.rows, mapping) = 1..m
        BY <2>2 DEF Numbered, Keys
      <3>2. PICK n \in 1..m : DOMAIN Groups(Keys(sheet.rows, mapping))[p] = 1..n
        BY <2>2, <3>1, GroupsPartition DEF Grouped
      <3>3. DOMAIN products[p].variants = 1..n
        BY <2>2, <3>2 DEF Grouped, MadeOf
      <3>. QED
        BY <3>2, <3>3
    <2>5. status[p] \in {"PROCESSING", "INVALID", "READY"}
      BY <2>1 DEF FlowInv, Judged
    <2>. QED
      BY <2>3, <2>4, <2>5, <2>7
  <1>3. \A issue \in issues : issue.product \in DOMAIN products
    <2>. SUFFICES ASSUME NEW issue \in ValidateCatalog(products)
                  PROVE  issue.product \in DOMAIN products
      BY DEF FlowInv, Judged
    <2>. QED
      BY IssuesNamed
  <1>. QED
    BY <1>1, <1>2, <1>3 DEF FlowInv, FlowTypeOK, CsvNamed

(* The stages keep their records in order.                                 *)
THEOREM FlowTypeCorrect == Spec => []FlowTypeOK
  <1>1. Spec => []FlowInv
    BY FlowInit, FlowNext, PTL DEF Spec
  <1>. QED
    BY <1>1, FlowTypeFollows, PTL

-----------------------------------------------------------------------------
(* Shared SKUs                                                             *)

LEMMA Twice ==
  ASSUME NEW m \in Nat, NEW T \in SUBSET (1..m), NEW p \in T, NEW q \in T, p # q
  PROVE  Cardinality(T) > 1
  <1>1. IsFiniteSet(1..m)
    BY FS_Interval
  <1>2. IsFiniteSet(T)
    BY <1>1, FS_Subset
  <1>3. IsFiniteSet({p}) /\ Cardinality({p}) = 1
    BY FS_Singleton
  <1>4. Cardinality({p} \cup {q}) = 2
    BY <1>3, FS_AddElement
  <1>5. {p} \cup {q} \in SUBSET T
    OBVIOUS
  <1>6. 2 <= Cardinality(T)
    BY <1>2, <1>4, <1>5, FS_Subset
  <1>7. Cardinality(T) \in Nat
    BY <1>2, FS_CardinalityType
  <1>. QED
    BY <1>6, <1>7

(* An SKU that counts twice is an error of each product that has it.       *)
LEMMA SharedIsIssue ==
  ASSUME NEW p \in DOMAIN products, NEW sku \in Own(products[p], "sku"),
         SkuCounts(products, sku) > 1
  PROVE  \E issue \in DuplicateSku(products, p) :
           issue.product = p /\ issue.code = "DUPLICATE_SKU" /\ issue.severity = "ERROR"
  <1>1. \A v : /\ Issue("DUPLICATE_SKU", "ERROR", p, v).product = p
              /\ Issue("DUPLICATE_SKU", "ERROR", p, v).code = "DUPLICATE_SKU"
              /\ Issue("DUPLICATE_SKU", "ERROR", p, v).severity = "ERROR"
    BY DEF Issue
  <1>2. sku # ""
    BY DEF Own
  <1>3. \E v : Issue("DUPLICATE_SKU", "ERROR", p, v) \in DuplicateSku(products, p)
    <2>1. CASE sku = products[p].sku
      <3>1. Issue("DUPLICATE_SKU", "ERROR", p, 0) \in DuplicateSku(products, p)
        BY <1>2, <2>1 DEF DuplicateSku, When
      <3>. QED
        BY <3>1
    <2>2. CASE sku # products[p].sku
      <3>1. PICK v \in DOMAIN products[p].variants : products[p].variants[v].sku = sku
        BY <2>2 DEF Own
      <3>2. Issue("DUPLICATE_SKU", "ERROR", p, v) \in DuplicateSku(products, p)
        BY <1>2, <2>2, <3>1 DEF DuplicateSku
      <3>. QED
        BY <3>2
    <2>. QED
      BY <2>1, <2>2
  <1>. QED
    BY <1>1, <1>3

LEMMA SharedIsError ==
  ASSUME NEW p \in DOMAIN products, NEW sku \in Own(products[p], "sku"),
         SkuCounts(products, sku) > 1
  PROVE  HasError(p)
  <1>1. PICK issue \in DuplicateSku(products, p) : issue.product = p /\ issue.severity = "ERROR"
    BY SharedIsIssue
  <1>2. issue \in ValidateCatalog(products)
    BY DEF ValidateCatalog
  <1>. QED
    BY <1>1, <1>2 DEF HasError

LEMMA NoSharedFollows == FlowInv => NoSharedSku
  <1>. SUFFICES ASSUME FlowInv, NEW p \in DOMAIN products, NEW q \in DOMAIN products, p # q,
                       status[p] = "READY", status[q] = "READY",
                       NEW sku \in Own(products[p], "sku"), sku \in Own(products[q], "sku")
                PROVE  FALSE
    BY DEF NoSharedSku
  <1>1. stage \in {"READY", "COMPLETED"}
    BY DEF FlowInv
  <1>2. Grouped /\ Judged /\ Numbered(sheet.rows)
    BY <1>1 DEF FlowInv
  <1>3. PICK k \in Nat : DOMAIN products = 1..k
    <2>1. PICK m \in Nat : DOMAIN Keys(sheet.rows, mapping) = 1..m
      BY <1>2 DEF Numbered, Keys
    <2>2. PICK k \in 0..m : DOMAIN Groups(Keys(sheet.rows, mapping)) = 1..k
      BY <2>1, GroupsPartition
    <2>3. k \in Nat
      BY <2>1
    <2>. QED
      BY <1>2, <2>2, <2>3 DEF Grouped
  <1>. DEFINE have == {r \in DOMAIN products : sku \in Own(products[r], "sku")}
  <1>4. have \in SUBSET (1..k) /\ p \in have /\ q \in have
    BY <1>3
  <1>5. SkuCounts(products, sku) > 1
    <2>1. SkuCounts(products, sku) = Cardinality(have)
      BY DEF SkuCounts
    <2>. HIDE DEF have
    <2>. QED
      BY <1>4, <2>1, Twice
  <1>6. HasError(p)
    BY <1>5, SharedIsError
  <1>. QED
    BY <1>2, <1>6 DEF Judged

-----------------------------------------------------------------------------
(* Rows and variants                                                       *)

(* Rows, groups of rows, and the variants made of them.                    *)
RowsOfVariants(groups, m) ==
  /\ DOMAIN sheet.rows = 1..m /\ Len(sheet.rows) = m
  /\ \E k \in 0..m : DOMAIN groups = 1..k
  /\ \A p \in DOMAIN groups : \E n \in 1..m : DOMAIN groups[p] = 1..n
  /\ \A p \in DOMAIN groups : \A v \in DOMAIN groups[p] : groups[p][v] \in 1..m
  /\ \A p, q \in DOMAIN groups : \A v \in DOMAIN groups[p], w \in DOMAIN groups[q] :
       groups[p][v] = groups[q][w] => p = q /\ v = w
  /\ \A j \in 1..m : \E p \in DOMAIN groups : \E v \in DOMAIN groups[p] : groups[p][v] = j
  /\ DOMAIN products = DOMAIN groups
  /\ \A p \in DOMAIN groups :
       products[p].variants = [v \in DOMAIN groups[p] |-> RowVariant(sheet.rows[groups[p][v]], mapping)]
  /\ \A p \in DOMAIN groups : DOMAIN products[p].variants = DOMAIN groups[p]
  /\ \A pv : pv \in Variants <=>
       \E p \in DOMAIN groups : \E v \in DOMAIN groups[p] : pv = <<p, v>>

LEMMA RowsGrouped ==
  ASSUME FlowInv, stage \in {"VALIDATING", "READY", "COMPLETED"}
  PROVE  \E m \in Nat : RowsOfVariants(Groups(Keys(sheet.rows, mapping)), m)
  <1>. DEFINE groups == Groups(Keys(sheet.rows, mapping))
  <1>1. Grouped /\ Numbered(sheet.rows) /\ sheet.rows = [r \in DOMAIN sheet.rows |-> sheet.rows[r]]
    BY DEF FlowInv
  <1>2. PICK m \in Nat : DOMAIN sheet.rows = 1..m
    BY <1>1 DEF Numbered
  <1>3. Len(sheet.rows) = m
    <2>. DEFINE rows == sheet.rows
    <2>1. DOMAIN rows = 1..m /\ rows = [r \in DOMAIN rows |-> rows[r]]
      BY <1>1, <1>2
    <2>. HIDE DEF rows
    <2>2. Len(rows) = m
      BY <2>1, NumberedIsSeq
    <2>. QED
      BY <2>2 DEF rows
  <1>4. /\ \E k \in 0..m : DOMAIN groups = 1..k
        /\ \A p \in DOMAIN groups : \E n \in 1..m : DOMAIN groups[p] = 1..n
        /\ \A p \in DOMAIN groups : \A v \in DOMAIN groups[p] : groups[p][v] \in 1..m
        /\ \A p, q \in DOMAIN groups : \A v \in DOMAIN groups[p], w \in DOMAIN groups[q] :
             groups[p][v] = groups[q][w] => p = q /\ v = w
        /\ \A j \in 1..m : \E p \in DOMAIN groups : \E v \in DOMAIN groups[p] : groups[p][v] = j
    <2>1. DOMAIN Keys(sheet.rows, mapping) = 1..m
      BY <1>2 DEF Keys
    <2>2. PICK k \in 0..m :
            /\ DOMAIN groups = 1..k
            /\ \A p \in 1..k : \E n \in 1..m : DOMAIN groups[p] = 1..n
            /\ \A p \in 1..k : \A v \in DOMAIN groups[p] : groups[p][v] \in 1..m
            /\ \A p, q \in 1..k : \A v \in DOMAIN groups[p], w \in DOMAIN groups[q] :
                 groups[p][v] = groups[q][w] => p = q /\ v = w
            /\ \A j \in 1..m : \E p \in 1..k : \E v \in DOMAIN groups[p] : groups[p][v] = j
      BY <2>1, GroupsPartition
    <2>. HIDE DEF groups
    <2>. QED
      BY <2>2
  <1>5. DOMAIN products = DOMAIN groups
        /\ \A p \in DOMAIN groups :
             products[p].variants = [v \in DOMAIN groups[p] |-> RowVariant(sheet.rows[groups[p][v]], mapping)]
    BY <1>1 DEF Grouped, MadeOf
  <1>. HIDE DEF groups
  <1>7. \A p \in DOMAIN groups : DOMAIN products[p].variants = DOMAIN groups[p]
    BY <1>5
  <1>8. \A pv : pv \in Variants <=>
          \E p \in DOMAIN groups : \E v \in DOMAIN groups[p] : pv = <<p, v>>
    <2>1. \A p \in DOMAIN groups : DOMAIN groups[p] \subseteq 1..m
      <3>. SUFFICES ASSUME NEW p \in DOMAIN groups PROVE DOMAIN groups[p] \subseteq 1..m
        OBVIOUS
      <3>1. PICK n \in 1..m : DOMAIN groups[p] = 1..n
        BY <1>4
      <3>2. n \in Nat /\ n <= m
        OBVIOUS
      <3>. QED
        BY <3>1, <3>2
    <2>. QED
      BY <1>3, <1>5, <1>7, <2>1 DEF Variants
  <1>9. RowsOfVariants(groups, m)
    BY <1>2, <1>3, <1>4, <1>5, <1>7, <1>8 DEF RowsOfVariants
  <1>. QED
    BY <1>9 DEF groups

LEMMA GroupingKeeps == FlowInv => GroupingKeepsRows
  <1>. DEFINE rowVariant == [i \in DOMAIN sheet.rows |-> StoredVariant(VariantOf(sheet.rows[i], mapping))]
              groups == Groups(Keys(sheet.rows, mapping))
              rowsAs(x) == {j \in DOMAIN sheet.rows : rowVariant[j] = x}
              variantsAs(x) == {pv \in Variants : products[pv[1]].variants[pv[2]] = x}
  <1>. SUFFICES ASSUME FlowInv, stage \in {"VALIDATING", "READY", "COMPLETED"}, NEW i \in DOMAIN sheet.rows
                PROVE  Cardinality(rowsAs(rowVariant[i])) = Cardinality(variantsAs(rowVariant[i]))
    BY DEF GroupingKeepsRows
  <1>. DEFINE S == rowsAs(rowVariant[i])
              T == variantsAs(rowVariant[i])
              f == [pv \in T |-> groups[pv[1]][pv[2]]]
  <1>2. PICK m \in Nat : RowsOfVariants(groups, m)
    BY RowsGrouped
  <1>. HIDE DEF groups
  <1>3. DOMAIN sheet.rows = 1..m
    BY <1>2 DEF RowsOfVariants
  <1>4. /\ \A p \in DOMAIN groups : \A v \in DOMAIN groups[p] : groups[p][v] \in 1..m
        /\ \A p, q \in DOMAIN groups : \A v \in DOMAIN groups[p], w \in DOMAIN groups[q] :
             groups[p][v] = groups[q][w] => p = q /\ v = w
        /\ \A j \in 1..m : \E p \in DOMAIN groups : \E v \in DOMAIN groups[p] : groups[p][v] = j
    BY <1>2 DEF RowsOfVariants
  <1>5. DOMAIN products = DOMAIN groups
        /\ \A p \in DOMAIN groups :
             products[p].variants = [v \in DOMAIN groups[p] |-> RowVariant(sheet.rows[groups[p][v]], mapping)]
    BY <1>2 DEF RowsOfVariants
  <1>8. \A pv : pv \in Variants <=>
          \E p \in DOMAIN groups : \E v \in DOMAIN groups[p] : pv = <<p, v>>
    BY <1>2 DEF RowsOfVariants
  <1>6. \A p \in DOMAIN groups : \A v \in DOMAIN groups[p] :
          /\ v \in DOMAIN products[p].variants
          /\ products[p].variants[v] = rowVariant[groups[p][v]]
    <2>. SUFFICES ASSUME NEW p \in DOMAIN groups, NEW v \in DOMAIN groups[p]
                  PROVE  /\ v \in DOMAIN products[p].variants
                         /\ products[p].variants[v] = rowVariant[groups[p][v]]
      OBVIOUS
    <2>1. v \in DOMAIN products[p].variants
          /\ products[p].variants[v] = RowVariant(sheet.rows[groups[p][v]], mapping)
      BY <1>5
    <2>2. groups[p][v] \in DOMAIN sheet.rows
      BY <1>3, <1>4
    <2>3. rowVariant[groups[p][v]] = RowVariant(sheet.rows[groups[p][v]], mapping)
      BY <2>2 DEF RowVariant
    <2>. HIDE DEF rowVariant
    <2>. QED
      BY <2>1, <2>3
  <1>. HIDE DEF rowVariant
  <1>9. f \in [T -> S] /\ IsInjective(f)
    <2>1. ASSUME NEW pv \in T
          PROVE  /\ pv[1] \in DOMAIN groups /\ pv[2] \in DOMAIN groups[pv[1]]
                 /\ pv = <<pv[1], pv[2]>> /\ groups[pv[1]][pv[2]] \in S
      <3>1. PICK p \in DOMAIN groups : \E v \in DOMAIN groups[p] : pv = <<p, v>>
        BY <1>8
      <3>2. PICK v \in DOMAIN groups[p] : pv = <<p, v>>
        BY <3>1
      <3>3. products[p].variants[v] = rowVariant[i]
        BY <3>2
      <3>4. groups[p][v] \in S
        BY <1>3, <1>4, <1>6, <3>3
      <3>. QED
        BY <3>2, <3>4
    <2>. HIDE DEF S, T
    <2>2. f \in [T -> S]
      BY <2>1
    <2>3. ASSUME NEW a \in T, NEW b \in T, f[a] = f[b] PROVE a = b
      BY <1>4, <2>1, <2>3
    <2>. QED
      BY <2>2, <2>3 DEF IsInjective
  <1>10. \A j \in S : \E pv \in T : f[pv] = j
    <2>. SUFFICES ASSUME NEW j \in S PROVE \E pv \in T : f[pv] = j
      OBVIOUS
    <2>1. j \in 1..m /\ rowVariant[j] = rowVariant[i]
      BY <1>3
    <2>2. PICK p \in DOMAIN groups : \E v \in DOMAIN groups[p] : groups[p][v] = j
      BY <1>4, <2>1
    <2>3. PICK v \in DOMAIN groups[p] : groups[p][v] = j
      BY <2>2
    <2>4. <<p, v>> \in Variants
      BY <1>8
    <2>5. <<p, v>> \in T
      BY <1>6, <2>1, <2>3, <2>4
    <2>. HIDE DEF T
    <2>6. f[<<p, v>>] = j
      BY <2>3, <2>5
    <2>. QED
      BY <2>5, <2>6
  <1>11. IsFiniteSet(S)
    <2>1. IsFiniteSet(1..m)
      BY FS_Interval
    <2>2. S \in SUBSET (1..m)
      BY <1>3
    <2>. HIDE DEF S
    <2>. QED
      BY <2>1, <2>2, FS_Subset
  <1>. HIDE DEF S, T, f
  <1>12. f \in Injection(T, S) /\ f \in Surjection(T, S)
    BY <1>9, <1>10 DEF Injection, Surjection
  <1>13. Cardinality(T) = Cardinality(S)
    BY <1>11, <1>12, FS_Injection
  <1>. QED
    BY <1>13 DEF S, T

(* The lines of the exported file and the variants they say.               *)
LEMMA FileLines ==
  ASSUME FlowInv, stage = "COMPLETED"
  PROVE  /\ Len(csv) \in Nat /\ DOMAIN csv = 1..Len(csv) /\ DOMAIN Places(products) = 1..Len(csv)
         /\ \A l \in 1..Len(csv) : \E p \in DOMAIN products : \E v \in DOMAIN products[p].variants :
              Places(products)[l] = <<p, v>> /\ LineSays(csv[l], products[p], v)
         /\ \A l, k \in 1..Len(csv) : l < k => Earlier(Places(products)[l], Places(products)[k])
         /\ \A p \in DOMAIN products : \A v \in DOMAIN products[p].variants :
              \E l \in 1..Len(csv) : Places(products)[l] = <<p, v>>
  <1>. DEFINE lines == Lines(products)
              place == Places(products)
  <1>1. Grouped /\ Numbered(sheet.rows) /\ csv = ShopifyCsv(products)
    BY DEF FlowInv
  <1>2. PICK S : LinesIn(S)
    BY <1>1, CatalogLines
  <1>3. csv = FlattenSeq(lines)
    BY <1>1 DEF ShopifyCsv, Lines
  <1>4. DOMAIN lines = DOMAIN products
        /\ \A p \in DOMAIN products :
             lines[p] = MapProductToShopifyRows(products[p]) /\ DOMAIN lines[p] = DOMAIN products[p].variants
    BY <1>2 DEF Lines, LinesIn
  <1>5. place = FlattenSeq(PlacesIn(lines))
    BY <1>4 DEF Places, PlacesIn
  <1>12. lines \in Seq(Seq(S))
    BY <1>2 DEF LinesIn
  <1>. HIDE DEF lines, place
  <1>6. /\ csv \in Seq(S) /\ place \in Seq(Nat \X Nat)
        /\ JoinedTo(lines, Len(lines), csv, place)
    BY <1>3, <1>5, <1>12, FlattenJoins
  <1>7. /\ DOMAIN lines = 1..Len(lines)
        /\ \A p \in DOMAIN products : DOMAIN products[p].variants = 1..Len(lines[p])
    BY <1>4, <1>12
  <1>8. Len(csv) \in Nat /\ DOMAIN csv = 1..Len(csv) /\ Len(csv) = Len(place) /\ DOMAIN place = 1..Len(csv)
    <2>1. Len(csv) = Len(place)
      BY <1>6 DEF JoinedTo
    <2>. QED
      BY <1>6, <2>1
  <1>9. ASSUME NEW l \in 1..Len(csv)
        PROVE  \E p \in DOMAIN products : \E v \in DOMAIN products[p].variants :
                 place[l] = <<p, v>> /\ LineSays(csv[l], products[p], v)
    <2>1. PICK p \in 1..Len(lines) : \E v \in 1..Len(lines[p]) : place[l] = <<p, v>> /\ csv[l] = lines[p][v]
      BY <1>6, <1>8 DEF JoinedTo
    <2>2. PICK v \in 1..Len(lines[p]) : place[l] = <<p, v>> /\ csv[l] = lines[p][v]
      BY <2>1
    <2>3. p \in DOMAIN products /\ v \in DOMAIN products[p].variants
      BY <1>4, <1>7
    <2>4. LineSays(csv[l], products[p], v)
      BY <1>4, <2>2, <2>3, LineOfVariant
    <2>. QED
      BY <2>2, <2>3, <2>4
  <1>10. \A l, k \in 1..Len(csv) : l < k => Earlier(place[l], place[k])
    BY <1>6, <1>8 DEF JoinedTo
  <1>11. \A p \in DOMAIN products : \A v \in DOMAIN products[p].variants :
           \E l \in 1..Len(csv) : place[l] = <<p, v>>
    BY <1>4, <1>6, <1>7, <1>8 DEF JoinedTo
  <1>. QED
    BY <1>8, <1>9, <1>10, <1>11 DEF place

LEMMA ExportKeeps == FlowInv => ExportKeepsRows
  <1>. SUFFICES ASSUME FlowInv, stage = "COMPLETED" PROVE ExportKeepsRows
    BY DEF ExportKeepsRows
  <1>. DEFINE groups == Groups(Keys(sheet.rows, mapping))
              place == Places(products)
              L == Len(csv)
              f == [l \in 1..L |-> groups[place[l][1]][place[l][2]]]
  <1>1. PICK m \in Nat : RowsOfVariants(groups, m)
    BY RowsGrouped
  <1>2. /\ L \in Nat /\ DOMAIN csv = 1..L /\ DOMAIN place = 1..L
        /\ \A l \in 1..L : \E p \in DOMAIN products : \E v \in DOMAIN products[p].variants :
             place[l] = <<p, v>> /\ LineSays(csv[l], products[p], v)
        /\ \A l, k \in 1..L : l < k => Earlier(place[l], place[k])
        /\ \A p \in DOMAIN products : \A v \in DOMAIN products[p].variants :
             \E l \in 1..L : place[l] = <<p, v>>
    BY FileLines
  <1>. HIDE DEF groups, place, L
  <1>3. /\ DOMAIN sheet.rows = 1..m /\ Len(sheet.rows) = m
        /\ \A p \in DOMAIN groups : \A v \in DOMAIN groups[p] : groups[p][v] \in 1..m
        /\ \A p, q \in DOMAIN groups : \A v \in DOMAIN groups[p], w \in DOMAIN groups[q] :
             groups[p][v] = groups[q][w] => p = q /\ v = w
        /\ \A j \in 1..m : \E p \in DOMAIN groups : \E v \in DOMAIN groups[p] : groups[p][v] = j
        /\ DOMAIN products = DOMAIN groups
        /\ \A p \in DOMAIN groups : DOMAIN products[p].variants = DOMAIN groups[p] /\ DOMAIN groups[p] \subseteq Int
        /\ DOMAIN groups \subseteq Int
        /\ \A pv : pv \in Variants <=>
             \E p \in DOMAIN groups : \E v \in DOMAIN groups[p] : pv = <<p, v>>
    <2>1. DOMAIN groups \subseteq Int
      BY <1>1 DEF RowsOfVariants
    <2>2. \A p \in DOMAIN groups : DOMAIN groups[p] \subseteq Int
      BY <1>1 DEF RowsOfVariants
    <2>. QED
      BY <1>1, <2>1, <2>2 DEF RowsOfVariants
  <1>4. ASSUME NEW l \in 1..L
        PROVE  /\ place[l][1] \in DOMAIN groups /\ place[l][2] \in DOMAIN groups[place[l][1]]
               /\ place[l] = <<place[l][1], place[l][2]>>
               /\ f[l] \in 1..m /\ LineSays(csv[l], products[place[l][1]], place[l][2])
    <2>1. PICK p \in DOMAIN products : \E v \in DOMAIN products[p].variants :
            place[l] = <<p, v>> /\ LineSays(csv[l], products[p], v)
      BY <1>2
    <2>2. PICK v \in DOMAIN products[p].variants :
            place[l] = <<p, v>> /\ LineSays(csv[l], products[p], v)
      BY <2>1
    <2>3. p \in DOMAIN groups /\ v \in DOMAIN groups[p] /\ place[l][1] = p /\ place[l][2] = v
      BY <1>3, <2>2
    <2>. QED
      BY <1>3, <2>2, <2>3
  <1>5. ASSUME NEW l \in 1..L, NEW k \in 1..L, f[l] = f[k] PROVE l = k
    <2>0. groups[place[l][1]][place[l][2]] = groups[place[k][1]][place[k][2]]
      BY <1>5
    <2>1. place[l] = place[k]
      <3>1. place[l][1] = place[k][1] /\ place[l][2] = place[k][2]
        BY <1>3, <1>4, <2>0
      <3>. QED
        BY <1>4, <3>1
    <2>2. ASSUME NEW i \in 1..L PROVE ~Earlier(place[i], place[i])
      BY <1>3, <1>4 DEF Earlier
    <2>3. ~(l < k) /\ ~(k < l)
      BY <1>2, <2>1, <2>2
    <2>. QED
      BY <2>3
  <1>6. ASSUME NEW j \in 1..m PROVE \E l \in 1..L : f[l] = j
    <2>1. PICK p \in DOMAIN groups : \E v \in DOMAIN groups[p] : groups[p][v] = j
      BY <1>3
    <2>2. PICK v \in DOMAIN groups[p] : groups[p][v] = j
      BY <2>1
    <2>3. PICK l \in 1..L : place[l] = <<p, v>>
      BY <1>2, <1>3
    <2>4. f[l] = j
      BY <2>2, <2>3
    <2>. QED
      BY <2>4
  <1>7. L = Len(sheet.rows)
    <2>1. f \in [1..L -> 1..m]
      BY <1>4
    <2>2. f \in Injection(1..L, 1..m) /\ f \in Surjection(1..L, 1..m)
      <3>. HIDE DEF f
      <3>. QED
        BY <1>5, <1>6, <2>1 DEF Injection, IsInjective, Surjection
    <2>3. /\ IsFiniteSet(1..m) /\ Cardinality(1..m) = m
          /\ Cardinality(1..L) = L
      BY <1>2, FS_Interval
    <2>. HIDE DEF f
    <2>4. Cardinality(1..L) = Cardinality(1..m)
      BY <2>2, <2>3, FS_Injection
    <2>. QED
      BY <1>3, <2>3, <2>4
  <1>8. ToSet(place) = Variants
    <2>1. ASSUME NEW pv PROVE pv \in ToSet(place) <=> pv \in Variants
      <3>0. DOMAIN place = 1..L
        BY <1>2
      <3>1. pv \in ToSet(place) <=> \E l \in 1..L : place[l] = pv
        BY <3>0 DEF ToSet
      <3>2. ASSUME NEW l \in 1..L PROVE place[l] \in Variants
        <4>. DEFINE p == place[l][1]
                    v == place[l][2]
        <4>1. p \in DOMAIN groups /\ v \in DOMAIN groups[p] /\ place[l] = <<p, v>>
          BY <1>4
        <4>. HIDE DEF p, v
        <4>. QED
          BY <1>3, <4>1
      <3>3. ASSUME pv \in Variants PROVE \E l \in 1..L : place[l] = pv
        <4>1. PICK p \in DOMAIN groups : \E v \in DOMAIN groups[p] : pv = <<p, v>>
          BY <1>3, <3>3
        <4>2. PICK v \in DOMAIN groups[p] : pv = <<p, v>>
          BY <4>1
        <4>. QED
          BY <1>2, <1>3, <4>2
      <3>. QED
        BY <3>1, <3>2, <3>3
    <2>. QED
      BY <2>1
  <1>9. \A l, k \in DOMAIN csv : l < k =>
          \/ place[l][1] < place[k][1]
          \/ place[l][1] = place[k][1] /\ place[l][2] < place[k][2]
    BY <1>2 DEF Earlier
  <1>10. \A l \in DOMAIN csv : LineSays(csv[l], products[place[l][1]], place[l][2])
    BY <1>2, <1>4
  <1>. QED
    BY <1>2, <1>7, <1>8, <1>9, <1>10 DEF ExportKeepsRows, place, L

(* Of catalogs of any size, neither grouping nor export loses, doubles or  *)
(* mixes up a row: the exported file has the lines of the variants, which  *)
(* are the rows, as many of them and each with its own cells.              *)
THEOREM EveryRowIsKept == Spec => []RowsKept
  <1>1. Spec => []FlowInv
    BY FlowInit, FlowNext, PTL DEF Spec
  <1>2. FlowInv => RowsKept
    BY GroupingKeeps, ExportKeeps DEF RowsKept
  <1>. QED
    BY <1>1, <1>2, PTL
-----------------------------------------------------------------------------
(* The SKUs of the exported file                                           *)

LEMMA SkuCell ==
  ASSUME NEW l, NEW p, NEW v, LineSays(csv[l], products[p], v)
  PROVE  csv[l]["Variant SKU"] = SanitizeCsvCell(ExportSku(p, v))
  <1>1. "Variant SKU" \in ToSet(SHOPIFY_CSV_HEADERS)
    <2>1. 15 \in DOMAIN SHOPIFY_CSV_HEADERS /\ SHOPIFY_CSV_HEADERS[15] = "Variant SKU"
      BY DEF SHOPIFY_CSV_HEADERS
    <2>. QED
      BY <2>1 DEF ToSet
  <1>2. "Variant SKU" \in VariantColumns
    BY <1>1 DEF VariantColumns, FixedCell, ProductColumns, ImageColumns
  <1>3. VariantCell(products[p], products[p].variants[v], "Variant SKU") = ExportSku(p, v)
    BY DEF VariantCell, ExportSku
  <1>. QED
    BY <1>2, <1>3 DEF LineSays

(* A product is exported with the SKUs it has, and with no others.         *)
LEMMA OwnIsExported ==
  ASSUME FlowInv, stage = "COMPLETED", NEW p \in DOMAIN products, NEW sku
  PROVE  sku \in Own(products[p], "sku") <=>
           sku # "" /\ \E v \in DOMAIN products[p].variants : ExportSku(p, v) = sku
  <1>. DEFINE product == products[p]
  <1>1. 1 \in DOMAIN product.variants /\ product.sku = product.variants[1].sku
    <2>. DEFINE groups == Groups(Keys(sheet.rows, mapping))
    <2>1. PICK m \in Nat : RowsOfVariants(groups, m)
      BY RowsGrouped
    <2>2. MadeOf(product, sheet.rows, mapping, groups[p])
      BY DEF FlowInv, Grouped
    <2>. HIDE DEF groups, product
    <2>3. p \in DOMAIN groups
      BY <2>1 DEF RowsOfVariants
    <2>4. PICK n \in 1..m : DOMAIN groups[p] = 1..n
      BY <2>1, <2>3 DEF RowsOfVariants
    <2>5. n \in Nat /\ 1 <= n
      OBVIOUS
    <2>6. 1 \in DOMAIN groups[p]
      BY <2>4, <2>5
    <2>7. DOMAIN product.variants = DOMAIN groups[p]
      BY <2>1, <2>3 DEF RowsOfVariants, product
    <2>. QED
      BY <2>2, <2>6, <2>7 DEF MadeOf
  <1>2. sku \in Own(product, "sku") <=>
          sku # "" /\ (sku = product.sku \/ \E v \in DOMAIN product.variants : sku = product.variants[v].sku)
    BY DEF Own
  <1>3. \A v : ExportSku(p, v) = IF product.variants[v].sku = "" THEN product.sku ELSE product.variants[v].sku
    BY DEF ExportSku, OwnText
  <1>. HIDE DEF product
  <1>4. CASE sku \in Own(product, "sku")
    <2>1. PICK v \in DOMAIN product.variants : product.variants[v].sku = sku
      BY <1>1, <1>2, <1>4
    <2>2. ExportSku(p, v) = sku /\ sku # ""
      BY <1>2, <1>3, <1>4, <2>1
    <2>. QED
      BY <1>4, <2>1, <2>2 DEF product
  <1>5. ASSUME sku # "", NEW v \in DOMAIN product.variants, ExportSku(p, v) = sku
        PROVE  sku \in Own(product, "sku")
    BY <1>2, <1>3, <1>5
  <1>. QED
    BY <1>4, <1>5 DEF product

LEMMA ProductsCounted ==
  ASSUME FlowInv, stage = "COMPLETED"
  PROVE  \E k \in Nat : DOMAIN products = 1..k
  <1>1. PICK m \in Nat : RowsOfVariants(Groups(Keys(sheet.rows, mapping)), m)
    BY RowsGrouped
  <1>2. PICK k \in 0..m : DOMAIN products = 1..k
    BY <1>1 DEF RowsOfVariants
  <1>3. k \in Nat
    OBVIOUS
  <1>. QED
    BY <1>2, <1>3

(* An SKU counts twice exactly when another product has it too.            *)
LEMMA CountedTwice ==
  ASSUME FlowInv, stage = "COMPLETED", NEW p \in DOMAIN products, NEW sku \in Own(products[p], "sku")
  PROVE  SkuCounts(products, sku) > 1 <=>
           \E q \in DOMAIN products : q # p /\ sku \in Own(products[q], "sku")
  <1>. DEFINE have == {r \in DOMAIN products : sku \in Own(products[r], "sku")}
  <1>1. PICK k \in Nat : DOMAIN products = 1..k
    BY ProductsCounted
  <1>2. have \in SUBSET (1..k) /\ p \in have
    BY <1>1
  <1>3. SkuCounts(products, sku) = Cardinality(have)
    BY DEF SkuCounts
  <1>4. \A q : q \in have <=> q \in DOMAIN products /\ sku \in Own(products[q], "sku")
    OBVIOUS
  <1>. HIDE DEF have
  <1>5. ASSUME NEW q \in DOMAIN products, q # p, sku \in Own(products[q], "sku")
        PROVE  Cardinality(have) > 1
    BY <1>2, <1>4, <1>5, Twice
  <1>6. ASSUME have = {p} PROVE ~(Cardinality(have) > 1)
    <2>1. Cardinality({p}) = 1
      BY FS_Singleton
    <2>. QED
      BY <1>6, <2>1
  <1>. QED
    BY <1>2, <1>3, <1>4, <1>5, <1>6

(* A duplicate is reported of a product when an SKU of its own counts      *)
(* twice, and only then.                                                   *)
LEMMA DuplicatesFound ==
  ASSUME FlowInv, stage = "COMPLETED", NEW p \in DOMAIN products
  PROVE  DuplicatedSku(p) <=> \E sku \in Own(products[p], "sku") : SkuCounts(products, sku) > 1
  <1>0. issues = ValidateCatalog(products)
    BY DEF FlowInv, Judged
  <1>1. ASSUME NEW sku \in Own(products[p], "sku"), SkuCounts(products, sku) > 1
        PROVE  DuplicatedSku(p)
    <2>1. PICK issue \in DuplicateSku(products, p) : issue.product = p /\ issue.code = "DUPLICATE_SKU"
      BY <1>1, SharedIsIssue
    <2>2. issue \in ValidateCatalog(products)
      BY <2>1 DEF ValidateCatalog
    <2>. QED
      BY <1>0, <2>1, <2>2 DEF DuplicatedSku
  <1>2. ASSUME DuplicatedSku(p)
        PROVE  \E sku \in Own(products[p], "sku") : SkuCounts(products, sku) > 1
    <2>1. PICK issue \in ValidateCatalog(products) : issue.product = p /\ issue.code = "DUPLICATE_SKU"
      BY <1>0, <1>2 DEF DuplicatedSku
    <2>2. issue \in DuplicateSku(products, p)
      BY <2>1, OneRuleFindsDuplicates
    <2>3. CASE issue \in When(products[p].sku # "" /\ SkuCounts(products, products[p].sku) > 1,
                              Issue("DUPLICATE_SKU", "ERROR", p, 0))
      <3>1. products[p].sku # "" /\ SkuCounts(products, products[p].sku) > 1
        BY <2>3 DEF When
      <3>2. products[p].sku \in Own(products[p], "sku")
        BY <3>1 DEF Own
      <3>. QED
        BY <3>1, <3>2
    <2>4. CASE \E v \in DOMAIN products[p].variants :
                 products[p].variants[v].sku # "" /\ SkuCounts(products, products[p].variants[v].sku) > 1
      <3>1. PICK v \in DOMAIN products[p].variants :
              products[p].variants[v].sku # "" /\ SkuCounts(products, products[p].variants[v].sku) > 1
        BY <2>4
      <3>2. products[p].variants[v].sku \in Own(products[p], "sku")
        BY <3>1 DEF Own
      <3>. QED
        BY <3>1, <3>2
    <2>. QED
      BY <2>2, <2>3, <2>4 DEF DuplicateSku
  <1>. QED
    BY <1>1, <1>2

LEMMA SharedReported == FlowInv => SharedSkusReported
  <1>. SUFFICES ASSUME FlowInv, stage = "COMPLETED" PROVE SharedSkusReported
    BY DEF SharedSkusReported
  <1>. DEFINE place == Places(products)
              sku(l) == ExportSku(place[l][1], place[l][2])
              others(l) == {k \in DOMAIN csv : place[k][1] # place[l][1]}
  <1>1. /\ DOMAIN csv = 1..Len(csv)
        /\ \A l \in 1..Len(csv) : \E p \in DOMAIN products : \E v \in DOMAIN products[p].variants :
             place[l] = <<p, v>> /\ LineSays(csv[l], products[p], v)
        /\ \A p \in DOMAIN products : \A v \in DOMAIN products[p].variants :
             \E l \in 1..Len(csv) : place[l] = <<p, v>>
    BY FileLines
  <1>. HIDE DEF place
  <1>2. ASSUME NEW l \in DOMAIN csv
        PROVE  /\ place[l][1] \in DOMAIN products
               /\ csv[l]["Variant SKU"] = SanitizeCsvCell(sku(l))
               /\ sku(l) # "" => sku(l) \in Own(products[place[l][1]], "sku")
    <2>1. PICK p \in DOMAIN products : \E v \in DOMAIN products[p].variants :
            place[l] = <<p, v>> /\ LineSays(csv[l], products[p], v)
      BY <1>1
    <2>2. PICK v \in DOMAIN products[p].variants : place[l] = <<p, v>> /\ LineSays(csv[l], products[p], v)
      BY <2>1
    <2>3. place[l][1] = p /\ place[l][2] = v
      BY <2>2
    <2>4. csv[l]["Variant SKU"] = SanitizeCsvCell(ExportSku(p, v))
      BY <2>2, SkuCell
    <2>5. ExportSku(p, v) # "" => ExportSku(p, v) \in Own(products[p], "sku")
      BY OwnIsExported
    <2>. QED
      BY <2>3, <2>4, <2>5
  <1>3. ASSUME NEW p \in DOMAIN products, NEW own \in Own(products[p], "sku")
        PROVE  own # "" /\ \E l \in DOMAIN csv : place[l][1] = p /\ sku(l) = own
    <2>1. own # "" /\ \E v \in DOMAIN products[p].variants : ExportSku(p, v) = own
      BY OwnIsExported
    <2>2. PICK v \in DOMAIN products[p].variants : ExportSku(p, v) = own
      BY <2>1
    <2>3. PICK l \in DOMAIN csv : place[l] = <<p, v>>
      BY <1>1
    <2>4. place[l][1] = p /\ place[l][2] = v
      BY <2>3
    <2>. QED
      BY <2>1, <2>2, <2>4
  <1>. HIDE DEF sku
  <1>4. ASSUME NEW l \in DOMAIN csv, NEW k \in others(l), csv[l]["Variant SKU"] # "", sku(l) = sku(k)
        PROVE  DuplicatedSku(place[l][1]) /\ DuplicatedSku(place[k][1])
    <2>1. k \in DOMAIN csv /\ place[k][1] # place[l][1]
      OBVIOUS
    <2>2. sku(l) # ""
      BY <1>2, <1>4 DEF SanitizeCsvCell
    <2>3. /\ place[l][1] \in DOMAIN products /\ sku(l) \in Own(products[place[l][1]], "sku")
          /\ place[k][1] \in DOMAIN products /\ sku(l) \in Own(products[place[k][1]], "sku")
      BY <1>2, <1>4, <2>1, <2>2
    <2>4. SkuCounts(products, sku(l)) > 1
      BY <2>1, <2>3, CountedTwice
    <2>. QED
      BY <2>3, <2>4, DuplicatesFound
  <1>5. ASSUME NEW p \in DOMAIN products, DuplicatedSku(p)
        PROVE  \E l \in DOMAIN csv : place[l][1] = p /\ sku(l) # "" /\ \E k \in others(l) : sku(l) = sku(k)
    <2>1. PICK own \in Own(products[p], "sku") : SkuCounts(products, own) > 1
      BY <1>5, DuplicatesFound
    <2>2. PICK q \in DOMAIN products : q # p /\ own \in Own(products[q], "sku")
      BY <2>1, CountedTwice
    <2>3. PICK l \in DOMAIN csv : place[l][1] = p /\ sku(l) = own
      BY <1>3
    <2>4. PICK k \in DOMAIN csv : place[k][1] = q /\ sku(k) = own
      BY <1>3, <2>2
    <2>5. k \in others(l)
      BY <2>2, <2>3, <2>4
    <2>6. sku(l) # "" /\ sku(l) = sku(k)
      BY <1>3, <2>3, <2>4
    <2>. QED
      BY <2>3, <2>5, <2>6
  <1>6. \A l \in DOMAIN csv : \A k \in others(l) :
          csv[l]["Variant SKU"] # "" /\ csv[l]["Variant SKU"] = csv[k]["Variant SKU"]
            => sku(l) # sku(k) \/ (DuplicatedSku(place[l][1]) /\ DuplicatedSku(place[k][1]))
    BY <1>4
  <1>7. \A p \in DOMAIN products : DuplicatedSku(p) =>
          \E l \in DOMAIN csv : place[l][1] = p /\ sku(l) # "" /\ \E k \in others(l) : sku(l) = sku(k)
    BY <1>5
  <1>. QED
    BY <1>6, <1>7 DEF SharedSkusReported, place, sku

(* However many products and variants there are: none of two products that *)
(* may be sold has an SKU the other has, and the products whose lines in   *)
(* the exported file share an SKU have been reported for it, all of them   *)
(* and no others.                                                          *)
THEOREM SharedSkusAreJudged == Spec => []SkusJudged
  <1>1. Spec => []FlowInv
    BY FlowInit, FlowNext, PTL DEF Spec
  <1>2. FlowInv => SkusJudged
    BY NoSharedFollows, SharedReported DEF SkusJudged
  <1>. QED
    BY <1>1, <1>2, PTL
=============================================================================
