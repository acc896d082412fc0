------------------------------ MODULE ListProofs ------------------------------
(***************************************************************************)
(* Facts about the operators of Lists and SequencesExt that the other      *)
(* proofs cite. All of them are about finite sets of positions, and rest   *)
(* on an induction principle for sets of numbers: the one of the library   *)
(* is about predicates, which no prover here can instantiate.              *)
(***************************************************************************)
EXTENDS Lists, Integers, SequencesExt, FiniteSetTheorems, TLAPS

\* A set of numbers that has zero and all successors has every number: were
\* m missing, the successor function would map the members below m one to one
\* into these without zero, which are fewer.
LEMMA SetInduction ==
    ASSUME NEW S \in SUBSET Nat, 0 \in S, \A n \in S : n + 1 \in S
    PROVE  S = Nat
<1>1. SUFFICES ASSUME NEW m \in Nat, m \notin S PROVE FALSE
  OBVIOUS
<1>. DEFINE A == {n \in 0 .. m : n \in S}
            B == A \ {0}
            up == [n \in A |-> n + 1]
<1>2. /\ IsFiniteSet(A) /\ Cardinality(A) \in Nat
      /\ IsFiniteSet(B) /\ Cardinality(B) = Cardinality(A) - 1
  <2>1. IsFiniteSet(0 .. m)
    BY FS_Interval
  <2>2. IsFiniteSet(A)
    BY <2>1, FS_Subset
  <2>3. 0 \in A
    OBVIOUS
  <2>. QED BY <2>2, <2>3, FS_RemoveElement, FS_CardinalityType
<1>3. up \in [A -> B]
  BY <1>1
<1>4. \E x, y \in A : x # y /\ up[x] = up[y]
  <2>1. Cardinality(B) < Cardinality(A)
    BY <1>2
  <2>. HIDE DEF A, B, up
  <2>. QED BY <1>2, <1>3, <2>1, FS_PigeonHole
<1>. QED BY <1>4

\* The positions of a list are finitely many.
LEMMA PositionsFinite ==
    ASSUME NEW m \in Nat, NEW S \in SUBSET (1 .. m)
    PROVE  IsFiniteSet(S) /\ Cardinality(S) \in 0 .. m
<1>1. IsFiniteSet(1 .. m) /\ Cardinality(1 .. m) = m
  BY FS_Interval
<1>2. IsFiniteSet(S) /\ Cardinality(S) <= Cardinality(1 .. m)
  BY <1>1, FS_Subset
<1>3. Cardinality(S) \in Nat
  BY <1>2, FS_CardinalityType
<1>. QED BY <1>1, <1>2, <1>3

\* Every set of positions has a k-th one.
LEMMA NthExists ==
    ASSUME NEW m \in Nat, NEW S \in SUBSET (1 .. m), NEW k \in 1 .. Cardinality(S)
    PROVE  \E i \in S : Cardinality({j \in S : j <= i}) = k
<1>. DEFINE Has(T, l) == \E i \in T : Cardinality({j \in T : j <= i}) = l
            G == {n \in Nat : \A T \in SUBSET (1 .. n) : \A l \in 1 .. Cardinality(T) : Has(T, l)}
<1>1. 0 \in G
  <2>. SUFFICES ASSUME NEW T \in SUBSET (1 .. 0), NEW l \in 1 .. Cardinality(T) PROVE FALSE
    OBVIOUS
  <2>1. T = {}
    OBVIOUS
  <2>. QED BY <2>1, FS_EmptySet
<1>2. ASSUME NEW n \in G PROVE n + 1 \in G
  <2>. SUFFICES ASSUME NEW T \in SUBSET (1 .. n + 1), NEW l \in 1 .. Cardinality(T)
                PROVE  Has(T, l)
    OBVIOUS
  <2>. DEFINE R == T \ {n + 1}
  <2>1. R \in SUBSET (1 .. n) /\ IsFiniteSet(R) /\ Cardinality(R) \in Nat
    BY PositionsFinite
  <2>2. CASE n + 1 \notin T
    BY <2>2, <2>1
  <2>3. CASE n + 1 \in T
    <3>1. Cardinality(T) = Cardinality(R) + 1
      <4>1. IsFiniteSet(T)
        BY PositionsFinite
      <4>. QED BY <2>3, <4>1, <2>1, FS_RemoveElement, FS_CardinalityType
    <3>2. CASE l = Cardinality(T)
      <4>1. {j \in T : j <= n + 1} = T
        <5>1. n \in Nat /\ \A j \in T : j \in 1 .. n + 1
          OBVIOUS
        <5>2. \A j \in T : j <= n + 1
          BY <5>1
        <5>. QED BY <5>2
      <4>. QED BY <2>3, <3>2, <4>1
    <3>3. CASE l # Cardinality(T)
      <4>1. l \in 1 .. Cardinality(R)
        BY <2>1, <3>1, <3>3
      <4>2. PICK i \in R : Cardinality({j \in R : j <= i}) = l
        BY <2>1, <4>1
      <4>3. {j \in T : j <= i} = {j \in R : j <= i}
        OBVIOUS
      <4>. QED BY <4>2, <4>3
    <3>. QED BY <3>2, <3>3
  <2>. QED BY <2>2, <2>3
<1>3. G = Nat
  <2>. HIDE DEF G
  <2>1. G \in SUBSET Nat
    BY DEF G
  <2>. QED BY <1>1, <1>2, <2>1, SetInduction
<1>. QED BY <1>3

\* The k-th position is the one with k positions up to it.
LEMMA NthDefinition ==
    ASSUME NEW m \in Nat, NEW S \in SUBSET (1 .. m), NEW k \in 1 .. Cardinality(S)
    PROVE  Nth(S, k) \in S /\ Cardinality(UpTo(S, Nth(S, k))) = k
<1>. DEFINE Has(i) == Cardinality(UpTo(S, i)) = k
<1>1. \E i \in S : Has(i)
  BY NthExists DEF UpTo
<1>. HIDE DEF Has
<1>2. Has(CHOOSE i \in S : Has(i)) /\ (CHOOSE i \in S : Has(i)) \in S
  BY <1>1
<1>. QED BY <1>2 DEF Nth, Has

\* Counting positions up to i is monotone, and strictly so at members.
LEMMA UpToMonotone ==
    ASSUME NEW m \in Nat, NEW S \in SUBSET (1 .. m), NEW i \in Int, NEW l \in Int, i <= l
    PROVE  /\ Cardinality(UpTo(S, i)) \in 0 .. Cardinality(S)
           /\ Cardinality(UpTo(S, i)) <= Cardinality(UpTo(S, l))
           /\ i < l /\ l \in S => Cardinality(UpTo(S, i)) < Cardinality(UpTo(S, l))
<1>. DEFINE A == UpTo(S, i)
            B == UpTo(S, l)
<1>1. \A j \in S : j \in Int
  OBVIOUS
<1>2. A \subseteq B /\ A \subseteq S /\ B \subseteq S
  <2>1. \A j \in S : j <= i => j <= l
    BY <1>1
  <2>. QED BY <2>1 DEF UpTo
<1>3. i < l /\ l \in S => A # B
  BY <1>1 DEF UpTo
<1>4. IsFiniteSet(S) /\ IsFiniteSet(A) /\ IsFiniteSet(B)
  BY <1>2, PositionsFinite, FS_Subset
<1>. HIDE DEF A, B
<1>5. Cardinality(A) \in Nat /\ Cardinality(B) \in Nat /\ Cardinality(S) \in Nat
  BY <1>4, FS_CardinalityType
<1>6. Cardinality(A) <= Cardinality(B) /\ (Cardinality(A) = Cardinality(B) => A = B)
  BY <1>2, <1>4, FS_Subset
<1>7. Cardinality(A) <= Cardinality(S)
  BY <1>2, <1>4, FS_Subset
<1>8. /\ Cardinality(A) \in 0 .. Cardinality(S)
      /\ Cardinality(A) <= Cardinality(B)
      /\ i < l /\ l \in S => Cardinality(A) < Cardinality(B)
  BY <1>3, <1>5, <1>6, <1>7
<1>. QED BY <1>8 DEF A, B

\* The positions are counted in their order, and each of them is counted.
LEMMA NthIncreases ==
    ASSUME NEW m \in Nat, NEW S \in SUBSET (1 .. m),
           NEW k \in 1 .. Cardinality(S), NEW l \in 1 .. Cardinality(S), k < l
    PROVE  Nth(S, k) < Nth(S, l)
<1>1. /\ Nth(S, k) \in S /\ Cardinality(UpTo(S, Nth(S, k))) = k
      /\ Nth(S, l) \in S /\ Cardinality(UpTo(S, Nth(S, l))) = l
  BY NthDefinition
<1>2. Nth(S, k) \in Int /\ Nth(S, l) \in Int
  <2>1. \A j \in S : j \in Int
    OBVIOUS
  <2>. QED BY <1>1, <2>1
<1>3. Cardinality(S) \in Nat
  BY PositionsFinite
<1>. SUFFICES ASSUME Nth(S, l) <= Nth(S, k) PROVE FALSE
  BY <1>2
<1>4. l <= k
  BY <1>1, <1>2, UpToMonotone
<1>. QED BY <1>3, <1>4

LEMMA NthReachesAll ==
    ASSUME NEW m \in Nat, NEW S \in SUBSET (1 .. m), NEW i \in S
    PROVE  /\ Cardinality(UpTo(S, i)) \in 1 .. Cardinality(S)
           /\ Nth(S, Cardinality(UpTo(S, i))) = i
<1>. DEFINE k == Cardinality(UpTo(S, i))
            n == Nth(S, k)
<1>1. i \in 1 .. m /\ i - 1 \in Int /\ i - 1 < i
  OBVIOUS
<1>2. /\ k \in 0 .. Cardinality(S)
      /\ Cardinality(UpTo(S, i - 1)) \in 0 .. Cardinality(S)
      /\ Cardinality(UpTo(S, i - 1)) < k
  <2>1. i \in Int /\ i - 1 \in Int /\ i - 1 <= i /\ i - 1 < i /\ i <= i
    BY <1>1
  <2>2. k \in 0 .. Cardinality(S)
    BY <2>1, UpToMonotone
  <2>3. /\ Cardinality(UpTo(S, i - 1)) \in 0 .. Cardinality(S)
        /\ Cardinality(UpTo(S, i - 1)) < k
    BY <2>1, UpToMonotone
  <2>. QED BY <2>2, <2>3
<1>3. Cardinality(S) \in Nat
  BY PositionsFinite
<1>4. k \in 1 .. Cardinality(S)
  BY <1>2, <1>3
<1>5. n \in S /\ Cardinality(UpTo(S, n)) = k
  <2>. HIDE DEF k
  <2>. QED BY <1>4, NthDefinition
<1>6. n = i
  <2>1. n \in Int /\ i \in Int
    <3>1. \A j \in S : j \in Int
      OBVIOUS
    <3>. QED BY <1>5, <3>1
  <2>. HIDE DEF n
  <2>2. ASSUME n < i PROVE FALSE
    <3>0. n <= i
      BY <2>1, <2>2
    <3>1. Cardinality(UpTo(S, n)) < k
      BY <3>0, <2>1, <2>2, UpToMonotone
    <3>. QED BY <1>4, <1>3, <1>5, <3>1
  <2>3. ASSUME i < n PROVE FALSE
    <3>0. i <= n
      BY <2>1, <2>3
    <3>1. k < Cardinality(UpTo(S, n))
      BY <3>0, <1>5, <2>1, <2>3, UpToMonotone
    <3>. QED BY <1>4, <1>3, <1>5, <3>1
  <2>. QED BY <1>1, <2>1, <2>2, <2>3
<1>. QED BY <1>4, <1>6

\* Taking out positions leaves a list of the elements at the others, and does
\* not bring two equal elements into a list that had none.
LEMMA AtProperties ==
    ASSUME NEW T, NEW list \in Seq(T), NEW S \in SUBSET (1 .. Len(list))
    PROVE  /\ At(list, S) \in Seq(T)
           /\ Len(At(list, S)) = Cardinality(S)
           /\ DOMAIN At(list, S) = 1 .. Cardinality(S)
           /\ \A k \in 1 .. Cardinality(S) : Nth(S, k) \in S /\ At(list, S)[k] = list[Nth(S, k)]
           /\ ToSet(At(list, S)) = {list[i] : i \in S}
           /\ IsInjective(list) => IsInjective(At(list, S))
<1>. DEFINE s == At(list, S)
<1>1. Len(list) \in Nat /\ DOMAIN list = 1 .. Len(list)
  OBVIOUS
<1>2. Cardinality(S) \in 0 .. Len(list)
  BY <1>1, PositionsFinite
<1>3. \A k \in 1 .. Cardinality(S) : Nth(S, k) \in S
  BY <1>1, NthDefinition
<1>4. \A k \in 1 .. Cardinality(S) : Nth(S, k) \in 1 .. Len(list)
  BY <1>3
<1>5. s = [k \in 1 .. Cardinality(S) |-> list[Nth(S, k)]]
  BY DEF At
<1>. HIDE DEF s
<1>6. \A k \in 1 .. Cardinality(S) : list[Nth(S, k)] \in T
  BY <1>1, <1>4
<1>7. s \in Seq(T) /\ Len(s) = Cardinality(S) /\ DOMAIN s = 1 .. Cardinality(S)
  BY <1>2, <1>5, <1>6
<1>8. ToSet(s) = {list[i] : i \in S}
  <2>1. ASSUME NEW i \in S PROVE \E k \in 1 .. Cardinality(S) : Nth(S, k) = i
    BY <1>1, NthReachesAll
  <2>. QED BY <1>3, <1>5, <2>1 DEF ToSet
<1>9. ASSUME IsInjective(list) PROVE IsInjective(s)
  <2>. SUFFICES ASSUME NEW k \in 1 .. Cardinality(S), NEW l \in 1 .. Cardinality(S),
                       s[k] = s[l], k < l
                PROVE  FALSE
    BY <1>2, <1>7 DEF IsInjective
  <2>1. Nth(S, k) < Nth(S, l)
    BY <1>1, NthIncreases
  <2>2. Nth(S, k) = Nth(S, l)
    BY <1>1, <1>4, <1>5, <1>9 DEF IsInjective
  <2>3. Nth(S, k) \in Int
    BY <1>4
  <2>. QED BY <2>1, <2>2, <2>3
<1>. QED BY <1>3, <1>5, <1>7, <1>8, <1>9 DEF s

\* A set of positions that is not empty has a last one, and Max finds it.
LEMMA MaxOfPositions ==
    ASSUME NEW m \in Nat, NEW S \in SUBSET (1 .. m), S # {}
    PROVE  Max(S) \in S /\ \A i \in S : i <= Max(S)
<1>1. Cardinality(S) \in 1 .. Cardinality(S)
  <2>1. IsFiniteSet(S) /\ Cardinality(S) \in 0 .. m
    BY PositionsFinite
  <2>2. Cardinality(S) # 0
    BY <2>1, FS_EmptySet
  <2>. QED BY <2>1, <2>2
<1>. DEFINE last == Nth(S, Cardinality(S))
<1>2. last \in S
  BY <1>1, NthDefinition
<1>3. ASSUME NEW i \in S PROVE last >= i
  <2>. DEFINE k == Cardinality(UpTo(S, i))
  <2>1. k \in 1 .. Cardinality(S) /\ Nth(S, k) = i
    BY NthReachesAll
  <2>2. \A j \in S : j \in Int
    OBVIOUS
  <2>3. CASE k = Cardinality(S)
    BY <1>2, <2>1, <2>2, <2>3
  <2>4. CASE k < Cardinality(S)
    <3>. HIDE DEF k
    <3>1. Nth(S, k) < last
      BY <1>1, <2>1, <2>4, NthIncreases
    <3>2. last \in Int /\ i \in Int
      BY <1>2, <2>2
    <3>. HIDE DEF last
    <3>. QED BY <2>1, <3>1, <3>2
  <2>. QED BY <1>1, <2>1, <2>3, <2>4
<1>. HIDE DEF last
<1>4. \E x \in S : \A y \in S : x >= y
  BY <1>2, <1>3
<1>5. Max(S) \in S /\ \A i \in S : Max(S) >= i
  BY <1>4 DEF Max
<1>6. \A j \in S : j \in Int
  OBVIOUS
<1>. QED BY <1>5, <1>6

\* There is only one greatest element.
LEMMA MaxIs ==
    ASSUME NEW S \in SUBSET Int, NEW x \in S, \A y \in S : y <= x
    PROVE  Max(S) = x
<1>1. \A y \in S : x >= y
  OBVIOUS
<1>2. Max(S) \in S /\ \A y \in S : Max(S) >= y
  BY <1>1 DEF Max
<1>3. Max(S) \in Int /\ x \in Int
  BY <1>2
<1>. QED BY <1>2, <1>3

\* A finite set can be listed.
LEMMA SetToSeqLists ==
    ASSUME NEW S, IsFiniteSet(S)
    PROVE  /\ SetToSeq(S) \in Seq(S) /\ Len(SetToSeq(S)) = Cardinality(S)
           /\ IsInjective(SetToSeq(S)) /\ ToSet(SetToSeq(S)) = S
<1>. DEFINE n == Cardinality(S)
<1>1. n \in Nat /\ ExistsBijection(1 .. n, S)
  BY FS_CardinalityType
<1>2. PICK f \in [1 .. n -> S] : IsInjective(f)
  BY <1>1 DEF ExistsBijection, Bijection, Injection
<1>3. SetToSeq(S) \in [1 .. n -> S] /\ IsInjective(SetToSeq(S))
  BY <1>2 DEF SetToSeq
<1>. DEFINE s == SetToSeq(S)
<1>4. s \in Injection(1 .. n, S)
  BY <1>3 DEF Injection
<1>5. IsFiniteSet(1 .. n) /\ Cardinality(1 .. n) = n
  BY <1>1, FS_Interval
<1>6. s \in Surjection(1 .. n, S)
  <2>. HIDE DEF n, s
  <2>. QED BY <1>4, <1>5, FS_Injection DEF n
<1>7. ToSet(s) = S
  BY <1>3, <1>6 DEF Surjection, ToSet
<1>8. s \in Seq(S) /\ Len(s) = n
  BY <1>1, <1>3
<1>. QED BY <1>3, <1>7, <1>8
\* Whatever goes through the positions of S in increasing order is Nth.
LEMMA NthIsUnique ==
    ASSUME NEW m \in Nat, NEW S \in SUBSET (1 .. m), NEW n \in Nat, NEW f \in [1 .. n -> S],
           \A k, l \in 1 .. n : k < l => f[k] < f[l],
           \A i \in S : \E k \in 1 .. n : f[k] = i
    PROVE  Cardinality(S) = n /\ \A k \in 1 .. n : Nth(S, k) = f[k]
<1>1. \A i \in S : i \in Int
  OBVIOUS
<1>2. ASSUME NEW k \in 1 .. n PROVE Cardinality(UpTo(S, f[k])) = k
  <2>. DEFINE g == [j \in 1 .. k |-> f[j]]
              U == UpTo(S, f[k])
  <2>1. \A j \in 1 .. n : f[j] <= f[k] <=> j <= k
    <3>. SUFFICES ASSUME NEW j \in 1 .. n PROVE f[j] <= f[k] <=> j <= k
      OBVIOUS
    <3>1. f[j] \in Int /\ f[k] \in Int
      BY <1>1
    <3>2. j < k \/ j = k \/ k < j
      OBVIOUS
    <3>. QED BY <3>1, <3>2
  <2>2. \A j \in 1 .. k : j \in 1 .. n /\ g[j] \in U
    BY <2>1 DEF UpTo
  <2>3. \A i \in U : \E j \in 1 .. k : g[j] = i
    <3>. SUFFICES ASSUME NEW i \in U PROVE \E j \in 1 .. k : f[j] = i
      OBVIOUS
    <3>1. PICK j \in 1 .. n : f[j] = i
      BY DEF UpTo
    <3>2. j <= k
      BY <2>1, <3>1 DEF UpTo
    <3>. QED BY <3>1, <3>2
  <2>4. \A i, j \in 1 .. k : g[i] = g[j] => i = j
    <3>. SUFFICES ASSUME NEW i \in 1 .. k, NEW j \in 1 .. k, f[i] = f[j], i # j PROVE FALSE
      OBVIOUS
    <3>1. i \in 1 .. n /\ j \in 1 .. n /\ (i < j \/ j < i)
      BY <2>2
    <3>2. f[i] < f[j] \/ f[j] < f[i]
      BY <3>1
    <3>3. f[i] \in Int /\ f[j] \in Int
      BY <1>1, <3>1
    <3>. QED BY <3>2, <3>3
  <2>5. g \in Bijection(1 .. k, U)
    <3>1. g \in [1 .. k -> U]
      BY <2>2
    <3>. HIDE DEF g, U
    <3>. QED BY <2>3, <2>4, <3>1 DEF Bijection, Injection, Surjection, IsInjective
  <2>6. IsFiniteSet(1 .. k) /\ Cardinality(1 .. k) = k
    BY FS_Interval
  <2>. HIDE DEF g, U
  <2>7. Cardinality(U) = Cardinality(1 .. k)
    BY <2>5, <2>6, FS_Bijection DEF ExistsBijection
  <2>. QED BY <2>6, <2>7 DEF U
<1>3. \A k \in 1 .. n : Nth(S, k) = f[k]
  <2>. SUFFICES ASSUME NEW k \in 1 .. n PROVE Nth(S, k) = f[k]
    OBVIOUS
  <2>1. f[k] \in S
    OBVIOUS
  <2>2. Nth(S, Cardinality(UpTo(S, f[k]))) = f[k]
    BY <2>1, NthReachesAll
  <2>. QED BY <1>2, <2>2
<1>4. Cardinality(S) = n
  <2>1. f \in Bijection(1 .. n, S)
    <3>1. \A k, l \in 1 .. n : f[k] = f[l] => k = l
      BY <1>3, <1>2
    <3>. QED BY <3>1 DEF Bijection, Injection, Surjection, IsInjective
  <2>2. IsFiniteSet(1 .. n) /\ Cardinality(1 .. n) = n
    BY FS_Interval
  <2>. QED BY <2>1, <2>2, FS_Bijection DEF ExistsBijection
<1>. QED BY <1>3, <1>4

\* The elements of a list are finitely many.
LEMMA ToSetFinite ==
    ASSUME NEW T, NEW list \in Seq(T)
    PROVE  /\ IsFiniteSet(ToSet(list))
           /\ IsInjective(list) => Cardinality(ToSet(list)) = Len(list)
<1>1. list \in Surjection(1 .. Len(list), ToSet(list))
  BY DEF Surjection, ToSet
<1>2. IsFiniteSet(1 .. Len(list)) /\ Cardinality(1 .. Len(list)) = Len(list)
  <2>1. Len(list) \in Nat
    OBVIOUS
  <2>. QED BY <2>1, FS_Interval
<1>3. IsInjective(list) => list \in Injection(1 .. Len(list), ToSet(list))
  BY <1>1 DEF Injection, Surjection
<1>. QED BY <1>1, <1>2, <1>3, FS_Surjection

\* Max finds the greatest of finitely many numbers.
LEMMA MaxOfNaturals ==
    ASSUME NEW S \in SUBSET Nat, IsFiniteSet(S), S # {}
    PROVE  Max(S) \in S /\ \A i \in S : i <= Max(S)
<1>. DEFINE G == {n \in Nat : \A T \in SUBSET Nat :
                    IsFiniteSet(T) /\ Cardinality(T) = n /\ T # {} => \E x \in T : \A y \in T : y <= x}
<1>1. 0 \in G
  <2>. SUFFICES ASSUME NEW T \in SUBSET Nat, IsFiniteSet(T), Cardinality(T) = 0, T # {} PROVE FALSE
    OBVIOUS
  <2>. QED BY FS_EmptySet
<1>2. ASSUME NEW n \in G PROVE n + 1 \in G
  <2>. SUFFICES ASSUME NEW T \in SUBSET Nat, IsFiniteSet(T), Cardinality(T) = n + 1
                PROVE  \E x \in T : \A y \in T : y <= x
    OBVIOUS
  <2>1. PICK a \in T : TRUE
    <3>1. n \in Nat
      OBVIOUS
    <3>. HIDE DEF G
    <3>2. Cardinality(T) # 0
      BY <3>1
    <3>3. T # {}
      BY <3>2, FS_EmptySet
    <3>. QED BY <3>3
  <2>2. IsFiniteSet(T \ {a}) /\ Cardinality(T \ {a}) = n
    <3>1. n \in Nat
      OBVIOUS
    <3>. HIDE DEF G
    <3>2. (n + 1) - 1 = n
      BY <3>1
    <3>3. IsFiniteSet(T \ {a}) /\ Cardinality(T \ {a}) = Cardinality(T) - 1
      BY <2>1, FS_RemoveElement
    <3>. QED BY <3>2, <3>3
  <2>3. CASE T \ {a} = {}
    BY <2>3
  <2>4. CASE T \ {a} # {}
    <3>1. PICK b \in T \ {a} : \A y \in T \ {a} : y <= b
      BY <2>2, <2>4
    <3>2. \A y \in T : y \in Int
      OBVIOUS
    <3>3. CASE a <= b
      BY <3>1, <3>3
    <3>4. CASE ~(a <= b)
      <4>1. \A y \in T : y <= a
        BY <3>1, <3>2, <3>4
      <4>. QED BY <4>1
    <3>. QED BY <3>3, <3>4
  <2>. QED BY <2>3, <2>4
<1>. HIDE DEF G
<1>3. G = Nat
  BY <1>1, <1>2, SetInduction DEF G
<1>4. Cardinality(S) \in G
  BY <1>3, FS_CardinalityType
<1>5. PICK x \in S : \A y \in S : y <= x
  BY <1>4 DEF G
<1>6. S \in SUBSET Int /\ x \in S
  OBVIOUS
<1>. QED BY <1>5, <1>6, MaxIs
\* All positions up to the n-th, one after the other.
LEMMA NthOfAll ==
    ASSUME NEW n \in Nat
    PROVE  Cardinality(1 .. n) = n /\ \A k \in 1 .. n : Nth(1 .. n, k) = k
<1>. DEFINE f == [k \in 1 .. n |-> k]
            S == 1 .. n
<1>1. S \in SUBSET (1 .. n) /\ f \in [1 .. n -> S]
  OBVIOUS
<1>2. \A k \in 1 .. n : f[k] = k
  OBVIOUS
<1>3. \A i \in S : \E k \in 1 .. n : f[k] = i
  OBVIOUS
<1>. HIDE DEF f, S
<1>4. ASSUME NEW k \in 1 .. n, NEW l \in 1 .. n, k < l PROVE f[k] < f[l]
  BY <1>2, <1>4
<1>5. Cardinality(S) = n /\ \A k \in 1 .. n : Nth(S, k) = f[k]
  BY <1>1, <1>3, <1>4, NthIsUnique, ZenonT(30)
<1>. QED BY <1>2, <1>5 DEF S

\* Selecting from a selection is selecting.
Among(S, T) == {Nth(S, j) : j \in T}

LEMMA NthOfNth ==
    ASSUME NEW m \in Nat, NEW S \in SUBSET (1 .. m), NEW T \in SUBSET (1 .. Cardinality(S))
    PROVE  /\ Among(S, T) \in SUBSET (1 .. m) /\ Cardinality(Among(S, T)) = Cardinality(T)
           /\ \A k \in 1 .. Cardinality(T) : Nth(Among(S, T), k) = Nth(S, Nth(T, k))
<1>. DEFINE n == Cardinality(T)
            f == [k \in 1 .. n |-> Nth(S, Nth(T, k))]
            U == Among(S, T)
<1>1. Cardinality(S) \in Nat /\ n \in Nat
  <2>1. Cardinality(S) \in Nat
    BY PositionsFinite
  <2>. QED BY <2>1, PositionsFinite
<1>2. \A j \in 1 .. Cardinality(S) : Nth(S, j) \in S
  BY NthDefinition
<1>3. \A k \in 1 .. n : Nth(T, k) \in T
  BY <1>1, NthDefinition
<1>4. U \subseteq S /\ \A j \in T : Nth(S, j) \in U
  BY <1>2 DEF Among
<1>5. U \in SUBSET (1 .. m)
  BY <1>4
<1>6. f \in [1 .. n -> U]
  BY <1>3, <1>4
<1>7. ASSUME NEW k \in 1 .. n, NEW l \in 1 .. n, k < l PROVE f[k] < f[l]
  <2>1. Nth(T, k) < Nth(T, l)
    BY <1>1, <1>7, NthIncreases
  <2>2. Nth(T, k) \in 1 .. Cardinality(S) /\ Nth(T, l) \in 1 .. Cardinality(S)
    BY <1>3
  <2>. QED BY <2>1, <2>2, NthIncreases
<1>8. ASSUME NEW i \in U PROVE \E k \in 1 .. n : f[k] = i
  <2>1. PICK j \in T : Nth(S, j) = i
    BY DEF Among
  <2>2. PICK k \in 1 .. n : Nth(T, k) = j
    BY <1>1, <2>1, NthReachesAll
  <2>. QED BY <2>1, <2>2
<1>9. \A k \in 1 .. n : f[k] = Nth(S, Nth(T, k))
  OBVIOUS
<1>. HIDE DEF n, f, U
<1>10. Cardinality(U) = n /\ \A k \in 1 .. n : Nth(U, k) = f[k]
  BY <1>1, <1>5, <1>6, <1>7, <1>8, NthIsUnique, ZenonT(30)
<1>. QED BY <1>5, <1>9, <1>10 DEF n, U

\* Positions of which some are before all the others.
LEMMA NthOfTwo ==
    ASSUME NEW l \in Nat, NEW m \in Nat, l <= m, NEW S \in SUBSET (1 .. l), NEW T \in SUBSET (l + 1 .. m)
    PROVE  /\ Cardinality(S) \in Nat /\ Cardinality(T) \in Nat
           /\ Cardinality(S \cup T) = Cardinality(S) + Cardinality(T)
           /\ \A k \in 1 .. Cardinality(S) + Cardinality(T) :
                 Nth(S \cup T, k) = IF k <= Cardinality(S) THEN Nth(S, k)
                                    ELSE Nth(T, k - Cardinality(S))
<1>. DEFINE s == Cardinality(S)
            t == Cardinality(T)
            U == S \cup T
            f == [k \in 1 .. s + t |-> IF k <= s THEN Nth(S, k) ELSE Nth(T, k - s)]
<1>1. S \in SUBSET (1 .. m) /\ T \in SUBSET (1 .. m) /\ U \in SUBSET (1 .. m)
  OBVIOUS
<1>2. s \in Nat /\ t \in Nat
  <2>1. s \in 0 .. m
    BY <1>1, PositionsFinite
  <2>2. t \in 0 .. m
    BY <1>1, PositionsFinite
  <2>. HIDE DEF s, t
  <2>. QED BY <2>1, <2>2
<1>3. /\ \A k \in 1 .. s : Nth(S, k) \in S
      /\ \A k \in 1 .. t : Nth(T, k) \in T
  BY <1>1, NthDefinition
<1>4. /\ \A j, k \in 1 .. s : j < k => Nth(S, j) < Nth(S, k)
      /\ \A j, k \in 1 .. t : j < k => Nth(T, j) < Nth(T, k)
  BY <1>1, NthIncreases
<1>5. /\ \A i \in S : \E k \in 1 .. s : Nth(S, k) = i
      /\ \A i \in T : \E k \in 1 .. t : Nth(T, k) = i
  BY <1>1, NthReachesAll
<1>6. \A i \in S, j \in T : i < j
  OBVIOUS
<1>7. \A k \in 1 .. s + t : IF k <= s THEN k \in 1 .. s ELSE k - s \in 1 .. t
  <2>. HIDE DEF s, t
  <2>. QED BY <1>2
<1>8. \A k \in 1 .. s + t : f[k] = IF k <= s THEN Nth(S, k) ELSE Nth(T, k - s)
  OBVIOUS
<1>9. f \in [1 .. s + t -> U]
  BY <1>3, <1>7
<1>. HIDE DEF s, t, f
<1>10. ASSUME NEW j \in 1 .. s + t, NEW k \in 1 .. s + t, j < k PROVE f[j] < f[k]
  <2>1. CASE j <= s /\ k <= s
    BY <1>4, <1>7, <1>8, <1>10, <2>1
  <2>2. CASE j <= s /\ ~(k <= s)
    BY <1>3, <1>6, <1>7, <1>8, <2>2
  <2>3. CASE ~(j <= s) /\ ~(k <= s)
    <3>1. j - s \in 1 .. t /\ k - s \in 1 .. t /\ j - s < k - s
      BY <1>2, <1>7, <1>10, <2>3
    <3>. QED BY <1>4, <1>8, <2>3, <3>1
  <2>4. ~(~(j <= s) /\ k <= s)
    BY <1>2, <1>10
  <2>. QED BY <2>1, <2>2, <2>3, <2>4
<1>11. ASSUME NEW i \in U PROVE \E k \in 1 .. s + t : f[k] = i
  <2>1. CASE i \in S
    <3>1. PICK k \in 1 .. s : Nth(S, k) = i
      BY <1>5, <2>1
    <3>2. k \in 1 .. s + t /\ k <= s
      BY <1>2
    <3>. QED BY <1>8, <3>1, <3>2
  <2>2. CASE i \in T
    <3>1. PICK k \in 1 .. t : Nth(T, k) = i
      BY <1>5, <2>2
    <3>2. k + s \in 1 .. s + t /\ ~(k + s <= s) /\ (k + s) - s = k
      BY <1>2
    <3>. QED BY <1>8, <3>1, <3>2
  <2>. QED BY <2>1, <2>2
<1>12. s + t \in Nat
  BY <1>2
<1>. HIDE DEF U
<1>13. Cardinality(U) = s + t /\ \A k \in 1 .. s + t : Nth(U, k) = f[k]
  BY <1>1, <1>9, <1>10, <1>11, <1>12, NthIsUnique
<1>. QED BY <1>2, <1>8, <1>13 DEF s, t, U
===============================================================================
