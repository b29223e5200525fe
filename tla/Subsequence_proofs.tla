------------------------- MODULE Subsequence_proofs -------------------------
(* What the components' proofs share: induction on the naturals without an    *)
(* operator parameter, counting in finite sets of naturals, and what a        *)
(* filtered sequence is made of.                                              *)
EXTENDS Subsequence, FiniteSets, FiniteSetTheorems, WellFoundedInduction, SequenceTheorems, TLAPS

----------------------------------------------------------------------------
(* Naturals.                                                                 *)

\* Every nonempty set of naturals has a least element.  Stated for a set, it
\* gives induction without an operator parameter: take the set of the numbers
\* at which a claim fails.
LEMMA LeastNat ==
  ASSUME NEW T, T \subseteq Nat, T # {}
  PROVE  \E x \in T : \A y \in T : x <= y
<1> DEFINE U == {0..x : x \in T}
<1>1. \A x \in T : IsFiniteSet(0..x)
  <2>1. ASSUME NEW x \in T PROVE IsFiniteSet(0..x)
    <3>1. 0 \in Int /\ x \in Int
      OBVIOUS
    <3>2. QED
      BY <3>1, FS_Interval
  <2>2. QED
    BY <2>1
<1>2. U \subseteq FiniteSubsetsOf(Nat)
  BY <1>1 DEF FiniteSubsetsOf
<1>3. U # {}
  OBVIOUS
<1>4. PICK m \in U : \A y \in U : ~(<<y, m>> \in StrictSubsetOrdering(Nat))
  BY <1>2, <1>3, WFMin, FS_StrictSubsetOrderingWellFounded
<1>5. PICK x \in T : m = 0..x
  OBVIOUS
<1>6. ASSUME NEW y \in T, ~(x <= y) PROVE FALSE
  <2>1. y < x
    BY <1>6
  <2>2. 0..y \subseteq 0..x /\ x \in 0..x /\ x \notin 0..y
    BY <2>1
  <2>3. <<0..y, 0..x>> \in StrictSubsetOrdering(Nat)
    BY <2>2 DEF StrictSubsetOrdering, FiniteSubsetsOf
  <2>4. QED
    BY <1>4, <1>5, <2>3
<1>7. QED
  BY <1>6

\* Induction up to a bound, for a set.
LEMMA UpTo ==
  ASSUME NEW N \in Nat, NEW S, 0 \in S, \A i \in 0..(N - 1) : i \in S => i + 1 \in S
  PROVE  0..N \subseteq S
<1> DEFINE T == {i \in 0..N : i \notin S}
<1>1. SUFFICES ASSUME T # {} PROVE FALSE
  OBVIOUS
<1>2. PICK x \in T : \A y \in T : x <= y
  <2>1. T \subseteq Nat
    OBVIOUS
  <2>2. QED
    BY <1>1, <2>1, LeastNat
<1>3. x # 0 /\ x - 1 \in 0..(N - 1) /\ x - 1 \notin T
  BY <1>2
<1>4. x - 1 \in S
  BY <1>3
<1>5. QED
  BY <1>2, <1>3, <1>4
----------------------------------------------------------------------------
(* Positions.                                                                *)

LEMMA PositionsFinite ==
  ASSUME NEW n \in Nat, NEW A, A \subseteq 1..n
  PROVE  IsFiniteSet(A) /\ Cardinality(A) \in Nat /\ Cardinality(A) <= n
<1>1. 1 \in Int /\ n \in Int
  OBVIOUS
<1>2. IsFiniteSet(1..n) /\ Cardinality(1..n) = IF 1 > n THEN 0 ELSE n - 1 + 1
  BY <1>1, FS_Interval
<1>3. IsFiniteSet(A) /\ Cardinality(A) <= Cardinality(1..n)
  BY <1>2, FS_Subset
<1>4. Cardinality(A) \in Nat
  BY <1>3, FS_CardinalityType
<1> QED
  BY <1>2, <1>3, <1>4

----------------------------------------------------------------------------
(* Only.                                                                     *)

\* The recursion of Only is well defined: what it has kept of each prefix.
LEMMA OnlyDefined ==
  ASSUME NEW S, NEW s \in Seq(S), NEW T
  PROVE  \E kept :
           /\ kept = [n \in 0..Len(s) |->
                        IF n = 0 THEN <<>>
                        ELSE IF s[n] \in T THEN Append(kept[n - 1], s[n]) ELSE kept[n - 1]]
           /\ Only(s, T) = kept[Len(s)]
<1> DEFINE After(f, n) ==
      f = [i \in 0..n |-> IF i = 0 THEN <<>>
                          ELSE IF s[i] \in T THEN Append(f[i - 1], s[i]) ELSE f[i - 1]]
           N == Len(s)
<1>1. N \in Nat
  OBVIOUS
<1>2. \E f : After(f, N)
  <2> DEFINE D == {n \in Nat : \E f : After(f, n)}
  <2>1. 0 \in D
    <3>1. After([i \in 0..0 |-> <<>>], 0)
      OBVIOUS
    <3> QED
      BY <3>1
  <2>2. ASSUME NEW n \in 0..(N - 1), n \in D PROVE n + 1 \in D
    <3>1. PICK f : After(f, n)
      BY <2>2
    <3> DEFINE next == IF s[n + 1] \in T THEN Append(f[n], s[n + 1]) ELSE f[n]
               g == [i \in 0..(n + 1) |-> IF i = n + 1 THEN next ELSE f[i]]
               step(h, i) == IF s[i] \in T THEN Append(h[i - 1], s[i]) ELSE h[i - 1]
    <3> HIDE DEF next
    <3>2. \A i \in 0..n : g[i] = f[i]
      OBVIOUS
    <3>3. g[n + 1] = next
      OBVIOUS
    <3> HIDE DEF g
    <3>4. \A i \in 0..n : f[i] = IF i = 0 THEN <<>> ELSE step(f, i)
      BY <3>1
    <3>5. \A i \in 0..(n + 1) : g[i] = IF i = 0 THEN <<>> ELSE step(g, i)
      <4>1. ASSUME NEW i \in 0..(n + 1), i = 0 PROVE g[i] = <<>>
        BY <4>1, <3>2, <3>4
      <4>2. ASSUME NEW i \in 0..(n + 1), i # 0, i # n + 1 PROVE g[i] = step(g, i)
        <5>1. i \in 0..n /\ i - 1 \in 0..n
          BY <4>2
        <5> QED
          BY <5>1, <4>2, <3>2, <3>4
      <4>3. g[n + 1] = step(g, n + 1)
        BY <3>2, <3>3 DEF next
      <4> QED
        BY <4>1, <4>2, <4>3
    <3>6. After(g, n + 1)
      <4>1. g = [i \in 0..(n + 1) |-> g[i]]
        BY DEF g
      <4>2. [i \in 0..(n + 1) |-> g[i]] = [i \in 0..(n + 1) |-> IF i = 0 THEN <<>> ELSE step(g, i)]
        BY <3>5
      <4> QED
        BY <4>1, <4>2
    <3> HIDE DEF After, N
    <3>7. \E h : After(h, n + 1)
      BY <3>6
    <3>8. n + 1 \in Nat
      BY <1>1
    <3> QED
      BY <3>7, <3>8
  <2>3. 0..N \subseteq D
    <3> HIDE DEF D, N
    <3> QED
      BY <1>1, <2>1, <2>2, UpTo
  <2>4. N \in D
    <3> HIDE DEF D, N
    <3> QED
      BY <1>1, <2>3
  <2> QED
    BY <2>4
<1> DEFINE kept == CHOOSE f : After(f, N)
<1>3. After(kept, N)
  BY <1>2
<1>4. Only(s, T) = kept[Len(s)]
  BY DEF Only
<1> HIDE DEF kept
<1> QED
  BY <1>3, <1>4

\* g takes the positions of t to those of the elements of T in s, in order.
Embeds(g, t, s, n, T) ==
  /\ g \in [1..Len(t) -> 1..n]
  /\ \A i, j \in 1..Len(t) : i < j => g[i] < g[j]
  /\ \A i \in 1..Len(t) : t[i] = s[g[i]]
  /\ \A j \in 1..n : s[j] \in T => \E i \in 1..Len(t) : g[i] = j

\* What is kept is a sequence of elements of T, each at its place in s.
LEMMA OnlyEmbeds ==
  ASSUME NEW S, NEW s \in Seq(S), NEW T
  PROVE  /\ Only(s, T) \in Seq(S \cap T)
         /\ \E g : Embeds(g, Only(s, T), s, Len(s), T)
<1> DEFINE N == Len(s)
<1>1. PICK kept :
        /\ kept = [n \in 0..N |->
                     IF n = 0 THEN <<>>
                     ELSE IF s[n] \in T THEN Append(kept[n - 1], s[n]) ELSE kept[n - 1]]
        /\ Only(s, T) = kept[N]
  BY OnlyDefined
<1> DEFINE D == {n \in 0..N : kept[n] \in Seq(S \cap T) /\ \E g : Embeds(g, kept[n], s, n, T)}
<1>2. N \in Nat /\ \A i \in 1..N : s[i] \in S
  OBVIOUS
<1>3. /\ kept[0] = <<>>
      /\ \A n \in 1..N : kept[n] = IF s[n] \in T THEN Append(kept[n - 1], s[n]) ELSE kept[n - 1]
  <2>1. 0 \in 0..N /\ \A n \in 1..N : n \in 0..N /\ n # 0
    BY <1>2
  <2> HIDE DEF N
  <2> QED
    BY <1>1, <2>1
<1> HIDE DEF N
<1>4. 0 \in D
  <2>1. kept[0] \in Seq(S \cap T) /\ Len(kept[0]) = 0
    BY <1>3
  <2>2. Embeds(<<>>, kept[0], s, 0, T)
    BY <2>1 DEF Embeds
  <2> QED
    BY <1>2, <2>1, <2>2
<1>5. ASSUME NEW m \in 0..(N - 1), m \in D PROVE m + 1 \in D
  <2> DEFINE n == m + 1
  <2>1. n \in 1..N /\ n \in 0..N /\ n - 1 = m /\ s[n] \in S
    BY <1>2
  <2>2. PICK g : Embeds(g, kept[m], s, m, T)
    BY <1>5
  <2>3. kept[m] \in Seq(S \cap T) /\ Len(kept[m]) \in Nat
    BY <1>5
  <2>4. kept[n] = IF s[n] \in T THEN Append(kept[m], s[n]) ELSE kept[m]
    BY <1>3, <2>1
  <2>5. CASE s[n] \notin T
    <3>1. Embeds(g, kept[n], s, n, T)
      <4>1. \A j \in 1..n : j = n \/ j \in 1..m
        BY <2>1
      <4>2. 1..m \subseteq 1..n
        BY <2>1
      <4> QED
        BY <2>2, <2>4, <2>5, <4>1, <4>2 DEF Embeds
    <3> QED
      BY <2>1, <2>3, <2>4, <2>5, <3>1
  <2>6. CASE s[n] \in T
    <3> DEFINE k == Len(kept[m])
               h == [i \in 1..(k + 1) |-> IF i = k + 1 THEN n ELSE g[i]]
    <3>1. /\ kept[n] \in Seq(S \cap T) /\ Len(kept[n]) = k + 1 /\ kept[n][k + 1] = s[n]
          /\ \A i \in 1..k : kept[n][i] = kept[m][i]
      BY <2>1, <2>3, <2>4, <2>6, AppendProperties
    <3>2. /\ h[k + 1] = n /\ k + 1 \in 1..(k + 1)
          /\ \A i \in 1..k : h[i] = g[i] /\ i \in 1..(k + 1)
          /\ \A i \in 1..(k + 1) : i = k + 1 \/ i \in 1..k
      BY <2>3
    <3>3. \A i \in 1..k : g[i] \in 1..m /\ g[i] < n /\ g[i] \in 1..n
      BY <2>1, <2>2 DEF Embeds
    <3>4. h \in [1..(k + 1) -> 1..n]
      BY <2>1, <3>2, <3>3
    <3> HIDE DEF h, k
    <3>5. \A i, j \in 1..(k + 1) : i < j => h[i] < h[j]
      <4> SUFFICES ASSUME NEW i \in 1..(k + 1), NEW j \in 1..(k + 1), i < j PROVE h[i] < h[j]
        OBVIOUS
      <4>1. i \in 1..k
        BY <2>3 DEF k
      <4> QED
        BY <2>2, <3>2, <3>3, <4>1 DEF Embeds, k
    <3>6. \A i \in 1..(k + 1) : kept[n][i] = s[h[i]]
      BY <2>2, <3>1, <3>2 DEF Embeds, k
    <3>7. \A j \in 1..n : s[j] \in T => \E i \in 1..(k + 1) : h[i] = j
      <4> SUFFICES ASSUME NEW j \in 1..n, s[j] \in T PROVE \E i \in 1..(k + 1) : h[i] = j
        OBVIOUS
      <4>1. CASE j = n
        BY <3>2, <4>1
      <4>2. CASE j \in 1..m
        <5>1. PICK i \in 1..k : g[i] = j
          BY <2>2, <4>2 DEF Embeds, k
        <5> QED
          BY <3>2, <5>1
      <4> QED
        BY <2>1, <4>1, <4>2
    <3>8. Embeds(h, kept[n], s, n, T)
      BY <3>1, <3>4, <3>5, <3>6, <3>7 DEF Embeds
    <3> QED
      BY <2>1, <3>1, <3>8
  <2> QED
    BY <2>5, <2>6
<1>6. 0..N \subseteq D
  <2> HIDE DEF D
  <2> QED
    BY <1>2, <1>4, <1>5, UpTo
<1>7. N \in D
  <2> HIDE DEF D
  <2> QED
    BY <1>2, <1>6
<1> QED
  BY <1>1, <1>7 DEF N

\* Where x stands in s.
Places(s, x) == {i \in DOMAIN s : s[i] = x}

\* Each element of T is kept as often as s has it.
LEMMA OnlyCounts ==
  ASSUME NEW S, NEW s \in Seq(S), NEW T, NEW x
  PROVE  /\ IsFiniteSet(Places(s, x)) /\ IsFiniteSet(Places(Only(s, T), x))
         /\ Cardinality(Places(Only(s, T), x)) = IF x \in T THEN Cardinality(Places(s, x)) ELSE 0
<1> DEFINE t == Only(s, T)
           at == Places(s, x)
           kept == Places(t, x)
<1> USE DEF Places
<1>1. t \in Seq(S \cap T) /\ DOMAIN t = 1..Len(t) /\ DOMAIN s = 1..Len(s) /\ Len(s) \in Nat
      /\ \A i \in 1..Len(t) : t[i] \in T
  <2>1. t \in Seq(S \cap T)
    BY OnlyEmbeds
  <2> HIDE DEF t
  <2> QED
    BY <2>1
<1>2. PICK g : Embeds(g, t, s, Len(s), T)
  BY OnlyEmbeds
<1>3. IsFiniteSet(at)
  <2>1. at \subseteq 1..Len(s)
    BY <1>1
  <2> HIDE DEF at
  <2> QED
    BY <1>1, <2>1, PositionsFinite
<1>4. CASE x \notin T
  <2>1. kept = {}
    BY <1>1, <1>4
  <2> QED
    BY <1>3, <1>4, <2>1, FS_EmptySet
<1>5. CASE x \in T
  <2> DEFINE f == [i \in kept |-> g[i]]
  <2> HIDE DEF t
  <2>1. \A i \in kept : g[i] \in at
    BY <1>1, <1>2 DEF Embeds
  <2>2. \A j \in at : \E i \in kept : g[i] = j
    BY <1>1, <1>2, <1>5 DEF Embeds
  <2>3. \A i, j \in kept : g[i] = g[j] => i = j
    <3> SUFFICES ASSUME NEW i \in kept, NEW j \in kept, g[i] = g[j], i # j PROVE FALSE
      OBVIOUS
    <3>1. i \in 1..Len(t) /\ j \in 1..Len(t) /\ g[i] \in 1..Len(s) /\ g[j] \in 1..Len(s)
      BY <1>1, <1>2 DEF Embeds
    <3>2. i < j \/ j < i
      BY <3>1
    <3>3. g[i] < g[j] \/ g[j] < g[i]
      BY <1>2, <3>1, <3>2 DEF Embeds
    <3> QED
      BY <3>1, <3>3
  <2> HIDE DEF kept, at
  <2>4. f \in Injection(kept, at) /\ f \in Surjection(kept, at)
    BY <2>1, <2>2, <2>3 DEF Injection, Surjection, IsInjective
  <2>5. IsFiniteSet(kept) /\ Cardinality(kept) = Cardinality(at)
    BY <1>3, <2>4, FS_Injection
  <2> QED
    BY <1>3, <1>5, <2>5 DEF kept, at, t
<1> QED
  BY <1>4, <1>5

----------------------------------------------------------------------------
(* Counting.                                                                 *)

\* The positions C are A, among the first m, and behind them B, among n more.
Joined(C, A, m, B, n) ==
  /\ m \in Nat /\ A \subseteq 1..m
  /\ n \in Nat /\ B \subseteq 1..n
  /\ C \subseteq 1..(m + n)
  /\ \A i \in 1..(m + n) : i \in C <=> IF i <= m THEN i \in A ELSE i - m \in B

LEMMA CountsAdd ==
  ASSUME NEW C, NEW A, NEW m, NEW B, NEW n, Joined(C, A, m, B, n)
  PROVE  Cardinality(C) = Cardinality(A) + Cardinality(B)
<1> USE DEF Joined
<1> DEFINE M == {m + i : i \in B}
           f == [i \in B |-> m + i]
<1>0. C = A \cup M
  <2>1. ASSUME NEW i \in C PROVE i \in A \cup M
    <3>1. i \in A \/ (i = m + (i - m) /\ i - m \in B)
      OBVIOUS
    <3> QED
      BY <3>1
  <2>2. ASSUME NEW i \in A PROVE i \in C
    OBVIOUS
  <2>3. ASSUME NEW j \in B PROVE m + j \in C
    <3>1. m + j \in 1..(m + n) /\ ~(m + j <= m) /\ (m + j) - m = j
      OBVIOUS
    <3> QED
      BY <3>1
  <2> QED
    BY <2>1, <2>2, <2>3
<1>1. IsFiniteSet(A) /\ IsFiniteSet(B) /\ Cardinality(A) \in Nat /\ Cardinality(B) \in Nat
  BY PositionsFinite
<1>2. f \in Bijection(B, M)
  <2>1. \A i, j \in B : m + i = m + j => i = j
    OBVIOUS
  <2>2. f \in [B -> M] /\ \A y \in M : \E i \in B : f[i] = y
    OBVIOUS
  <2> QED
    BY <2>1, <2>2 DEF Bijection, Injection, Surjection, IsInjective
<1>3. IsFiniteSet(M) /\ Cardinality(M) = Cardinality(B)
  <2> HIDE DEF f, M
  <2>1. ExistsBijection(B, M)
    BY <1>2 DEF ExistsBijection
  <2> QED
    BY <1>1, <2>1, FS_Bijection
<1>4. A \cap M = {}
  OBVIOUS
<1> HIDE DEF M
<1>5. IsFiniteSet(A \cup M) /\ Cardinality(A \cup M) = Cardinality(A) + Cardinality(M) - 0
  <2>1. Cardinality(A \cap M) = 0
    BY <1>4, FS_EmptySet
  <2> QED
    BY <1>1, <1>3, <2>1, FS_Union
<1> QED
  BY <1>0, <1>1, <1>3, <1>5
=============================================================================
