---------------------------- MODULE OrderingProof ----------------------------
(***************************************************************************)
(* What the other proofs rest on: least elements of and induction over the *)
(* natural numbers, recursive functions, and finite sets in order and      *)
(* summed.                                                                 *)
(***************************************************************************)
EXTENDS Ordering, Functions, FiniteSetTheorems, WellFoundedInduction, TLAPS

\* The naturals are well-ordered.
LEMMA LeastNatural ==
  ASSUME NEW T \in SUBSET Nat, T # {}
  PROVE  \E m \in T : \A k \in T : m <= k
<1>1. IsWellFoundedOn(OpToRel(<, Nat), Nat)
  BY NatLessThanWellFounded
<1>2. PICK m \in T : \A k \in T : ~(<<k, m>> \in OpToRel(<, Nat))
  BY <1>1, WFMin
<1>3. ASSUME NEW k \in T
      PROVE  m <= k
  <2>1. SUFFICES ASSUME k < m
                 PROVE  FALSE
    OBVIOUS
  <2>2. <<k, m>> \in Nat \X Nat /\ <<k, m>>[1] < <<k, m>>[2]
    BY <2>1
  <2>3. <<k, m>> \in {ss \in Nat \X Nat : ss[1] < ss[2]}
    BY <2>2
  <2>4. QED
    BY <1>2, <2>3 DEF OpToRel
<1>4. QED
  BY <1>3

\* Induction, for a set of numbers.
LEMMA NatInducts ==
  ASSUME NEW T \in SUBSET Nat, 0 \in T, \A n \in T : n + 1 \in T
  PROVE  T = Nat
<1>1. SUFFICES ASSUME Nat \ T # {}
               PROVE  FALSE
  OBVIOUS
<1>2. PICK m \in Nat \ T : \A k \in Nat \ T : m <= k
  BY <1>1, LeastNatural
<1>3. m - 1 \in Nat
  BY <1>2
<1>4. m - 1 \in T
  BY <1>2, <1>3
<1>5. (m - 1) + 1 = m
  BY <1>3
<1>6. QED
  BY <1>2, <1>4, <1>5

-----------------------------------------------------------------------------
(* Recursive functions *)

\* f takes the steps of a recursion over 1..n, from b.
IsRun(f, V, b, step, n) ==
  /\ f \in [0..n -> V]
  /\ f[0] = b
  /\ \A i \in 1..n : f[i] = step[<<i, f[i - 1]>>]

\* A recursion over 1..n has a function.
LEMMA RecursionExists ==
  ASSUME NEW V, NEW b \in V, NEW step \in [Nat \X V -> V], NEW n \in Nat
  PROVE  \E f : IsRun(f, V, b, step, n)
<1> DEFINE T == {m \in Nat : \E f : IsRun(f, V, b, step, m)}
<1>1. 0 \in T
  <2>1. IsRun([i \in 0..0 |-> b], V, b, step, 0)
    BY DEF IsRun
  <2>2. QED
    BY <2>1
<1>2. ASSUME NEW m \in T
      PROVE  m + 1 \in T
  <2>1. PICK f : IsRun(f, V, b, step, m)
    OBVIOUS
  <2> DEFINE g == [i \in 0..(m + 1) |-> IF i <= m THEN f[i] ELSE step[<<m + 1, f[m]>>]]
  <2>2. m \in Nat /\ f \in [0..m -> V] /\ f[0] = b
        /\ \A i \in 1..m : f[i] = step[<<i, f[i - 1]>>]
    BY <2>1 DEF IsRun
  <2>3. f[m] \in V /\ m + 1 \in Nat
    BY <2>2
  <2>4. step[<<m + 1, f[m]>>] \in V
    BY <2>3
  <2>5. \A i \in 0..(m + 1) : (i <= m => f[i] \in V)
    BY <2>2
  <2>6. g \in [0..(m + 1) -> V]
    BY <2>4, <2>5
  <2>7. g[0] = b
    BY <2>2
  <2>8. ASSUME NEW i \in 1..(m + 1)
        PROVE  g[i] = step[<<i, g[i - 1]>>]
    <3>1. i - 1 \in 0..m /\ i - 1 \in 0..(m + 1) /\ g[i - 1] = f[i - 1]
      BY <2>2
    <3>2. CASE i <= m
      BY <2>2, <3>1, <3>2
    <3>3. CASE i = m + 1
      <4>1. g[i] = step[<<m + 1, f[m]>>] /\ i - 1 = m
        BY <2>2, <3>3
      <4> HIDE DEF g
      <4>2. QED
        BY <3>1, <3>3, <4>1
    <3>4. QED
      BY <2>2, <3>2, <3>3
  <2> HIDE DEF g
  <2>9. IsRun(g, V, b, step, m + 1)
    BY <2>6, <2>7, <2>8 DEF IsRun
  <2>10. QED
    BY <2>3, <2>9
<1> HIDE DEF T
<1>3. T = Nat
  <2>1. T \in SUBSET Nat
    BY DEF T
  <2>2. QED
    BY <1>1, <1>2, <2>1, NatInducts
<1>4. QED
  BY <1>3 DEF T

\* And only one, shorter recursions with the same steps included.
LEMMA RecursionUnique ==
  ASSUME NEW V, NEW W, NEW b, NEW step, NEW n \in Nat, NEW m \in 0..n,
         NEW f, IsRun(f, V, b, step, n), NEW g, IsRun(g, W, b, step, m)
  PROVE  \A i \in 0..m : f[i] = g[i]
<1> DEFINE T == {i \in Nat : i <= m => f[i] = g[i]}
<1>1. 0 \in T
  BY DEF IsRun
<1>2. ASSUME NEW i \in T
      PROVE  i + 1 \in T
  <2>1. SUFFICES ASSUME i + 1 <= m
                 PROVE  f[i + 1] = g[i + 1]
    OBVIOUS
  <2>2. i \in Nat /\ i <= m /\ f[i] = g[i] /\ i + 1 \in 1..m /\ i + 1 \in 1..n
        /\ (i + 1) - 1 = i
    BY <2>1
  <2>3. f[i + 1] = step[<<i + 1, f[i]>>] /\ g[i + 1] = step[<<i + 1, g[i]>>]
    BY <2>2 DEF IsRun
  <2>4. QED
    BY <2>2, <2>3
<1>3. T = Nat
  <2>1. T \in SUBSET Nat
    OBVIOUS
  <2> HIDE DEF T
  <2>2. QED
    BY <1>1, <1>2, <2>1, NatInducts
<1>4. QED
  BY <1>3

-----------------------------------------------------------------------------
(* Sets in order *)

\* The number of elements of S below n; what Ordered sorts by.
Below(S, n) == Cardinality({m \in S : m < n})

\* In a finite set of integers the number of smaller elements tells the
\* elements apart, and runs from 0 to one less than the size of the set.
LEMMA BelowIsABijection ==
  ASSUME NEW S, S \subseteq Int, IsFiniteSet(S)
  PROVE  /\ Cardinality(S) \in Nat
         /\ \A n \in S : Below(S, n) \in 0..(Cardinality(S) - 1)
         /\ \A n, m \in S : n < m => Below(S, n) < Below(S, m)
         /\ \A i \in 0..(Cardinality(S) - 1) : \E n \in S : Below(S, n) = i
<1> DEFINE Lower(n) == {m \in S : m < n}
           T        == 0..(Cardinality(S) - 1)
           rank     == [n \in S |-> Below(S, n)]
<1>1. Cardinality(S) \in Nat
  BY FS_CardinalityType
<1>2. \A V \in SUBSET S : \A U \in SUBSET V :
         /\ IsFiniteSet(U)
         /\ Cardinality(U) \in Nat
         /\ Cardinality(V) \in Nat
         /\ Cardinality(U) <= Cardinality(V)
  BY FS_Subset, FS_CardinalityType
<1>3. ASSUME NEW n \in S
      PROVE  /\ Below(S, n) \in Nat
             /\ Lower(n) \cup {n} \in SUBSET S
             /\ Cardinality(Lower(n) \cup {n}) = Below(S, n) + 1
  <2>1. IsFiniteSet(Lower(n)) /\ Cardinality(Lower(n)) \in Nat
    <3>1. Lower(n) \in SUBSET S
      OBVIOUS
    <3>2. QED
      BY <1>2, <3>1
  <2>2. n \notin Lower(n)
    OBVIOUS
  <2>3. Cardinality(Lower(n) \cup {n}) = Cardinality(Lower(n)) + 1
    BY <2>1, <2>2, FS_AddElement
  <2>4. QED
    BY <2>1, <2>3 DEF Below
<1>4. ASSUME NEW n \in S
      PROVE  Below(S, n) \in T
  <2>1. Cardinality(Lower(n) \cup {n}) <= Cardinality(S)
    BY <1>2, <1>3
  <2>2. Below(S, n) \in Nat /\ Below(S, n) + 1 <= Cardinality(S)
    BY <1>3, <2>1
  <2> HIDE DEF Lower
  <2>3. QED
    BY <1>1, <2>2
<1>5. ASSUME NEW n \in S, NEW m \in S, n < m
      PROVE  Below(S, n) < Below(S, m)
  <2>1. Lower(n) \cup {n} \in SUBSET Lower(m) /\ Lower(m) \in SUBSET S
    <3>1. \A x \in S : x < n => x < m
      <4>1. \A x, y, z \in Int : x < y /\ y < z => x < z
        OBVIOUS
      <4>2. n \in Int /\ m \in Int /\ \A x \in S : x \in Int
        OBVIOUS
      <4>3. QED
        BY <1>5, <4>1, <4>2
    <3>2. QED
      BY <1>5, <3>1
  <2>2. Cardinality(Lower(n) \cup {n}) <= Cardinality(Lower(m))
    BY <1>2, <2>1
  <2>3. Below(S, n) \in Nat /\ Below(S, m) \in Nat
    BY <1>3
  <2>4. Below(S, n) + 1 <= Below(S, m)
    BY <1>3, <2>2 DEF Below
  <2>5. QED
    BY <2>3, <2>4
<1>6. rank \in Injection(S, T)
  <2>1. \A n, m \in S : n # m => Below(S, n) # Below(S, m)
    <3>1. SUFFICES ASSUME NEW n \in S, NEW m \in S, n # m
                   PROVE  Below(S, n) # Below(S, m)
      OBVIOUS
    <3>2. n < m \/ m < n
      BY <3>1
    <3>3. Below(S, n) \in Nat /\ Below(S, m) \in Nat
      BY <1>3
    <3>4. QED
      BY <1>5, <3>2, <3>3
  <2>2. rank \in [S -> T]
    BY <1>4
  <2>3. QED
    BY <2>1, <2>2 DEF Injection, IsInjective
<1>7. IsFiniteSet(T) /\ Cardinality(T) = Cardinality(S)
  <2>1. IsFiniteSet(T) /\ Cardinality(T) = IF 0 > Cardinality(S) - 1 THEN 0
                                            ELSE Cardinality(S) - 1 - 0 + 1
    BY <1>1, FS_Interval
  <2>2. QED
    BY <1>1, <2>1
<1>8. rank \in Surjection(S, T)
  BY <1>6, <1>7, FS_Injection
<1>9. \A i \in T : \E n \in S : Below(S, n) = i
  BY <1>8 DEF Surjection
<1> QED
  BY <1>1, <1>4, <1>5, <1>9

\* A set put in order is a strictly increasing sequence that has each element
\* once: what sort and dedup leave in analyze_paths, and what reading a body or
\* the exports of a module in their order gives.
THEOREM OrderedSorts ==
  ASSUME NEW S, S \subseteq Int, IsFiniteSet(S)
  PROVE  /\ Ordered(S) \in Seq(S)
         /\ Len(Ordered(S)) = Cardinality(S)
         /\ \A i, j \in 1..Len(Ordered(S)) :
              i < j => Ordered(S)[i] < Ordered(S)[j]
         /\ \A n \in S : \E i \in 1..Len(Ordered(S)) : Ordered(S)[i] = n
<1>1. S \subseteq Int
  OBVIOUS
<1>2. /\ Cardinality(S) \in Nat
      /\ \A n \in S : Below(S, n) \in 0..(Cardinality(S) - 1)
      /\ \A n, m \in S : n < m => Below(S, n) < Below(S, m)
      /\ \A i \in 0..(Cardinality(S) - 1) : \E n \in S : Below(S, n) = i
  BY BelowIsABijection
<1> DEFINE s == Ordered(S)
<1>3. ASSUME NEW i \in 1..Cardinality(S)
      PROVE  s[i] \in S /\ Below(S, s[i]) = i - 1
  <2>1. i - 1 \in 0..(Cardinality(S) - 1)
    BY <1>2
  <2>2. PICK n \in S : Below(S, n) = i - 1
    BY <1>2, <2>1
  <2>3. s[i] = CHOOSE m \in S : Below(S, m) = i - 1
    BY DEF Ordered, Below
  <2>4. QED
    BY <2>2, <2>3
<1>4. s \in [1..Cardinality(S) -> S]
  BY <1>3 DEF Ordered
<1> HIDE DEF s
<1>5. s \in Seq(S) /\ Len(s) = Cardinality(S)
  BY <1>2, <1>4
<1>6. ASSUME NEW i \in 1..Cardinality(S), NEW j \in 1..Cardinality(S), i < j
      PROVE  s[i] < s[j]
  <2>1. s[i] \in S /\ s[j] \in S /\ Below(S, s[i]) = i - 1 /\ Below(S, s[j]) = j - 1
    BY <1>3
  <2>2. ~(s[j] < s[i])
    <3>1. s[j] < s[i] => j - 1 < i - 1
      BY <1>2, <2>1
    <3>2. QED
      BY <1>2, <1>6, <3>1
  <2>3. s[j] # s[i]
    BY <1>2, <1>6, <2>1
  <2>4. s[i] \in Int /\ s[j] \in Int
    BY <1>1, <2>1
  <2>5. QED
    BY <2>2, <2>3, <2>4
<1>7. ASSUME NEW n \in S
      PROVE  \E i \in 1..Cardinality(S) : s[i] = n
  <2> DEFINE i == Below(S, n) + 1
  <2>1. i \in 1..Cardinality(S) /\ Below(S, n) = i - 1
    BY <1>2
  <2> HIDE DEF i
  <2>2. s[i] \in S /\ Below(S, s[i]) = Below(S, n) /\ Below(S, n) \in Int
    BY <1>2, <1>3, <2>1
  <2>3. ~(s[i] < n) /\ ~(n < s[i])
    <3>1. s[i] < n => Below(S, s[i]) < Below(S, n)
      BY <1>2, <2>2
    <3>2. n < s[i] => Below(S, n) < Below(S, s[i])
      BY <1>2, <2>2
    <3>3. QED
      BY <2>2, <3>1, <3>2
  <2>4. s[i] \in Int /\ n \in Int
    BY <1>1, <2>2
  <2>5. s[i] = n
    BY <2>3, <2>4
  <2>6. QED
    BY <2>1, <2>5
<1> QED
  BY <1>2, <1>5, <1>6, <1>7 DEF s

\* A finite set of integers has a least and a greatest element.
LEMMA FiniteEnds ==
  ASSUME NEW S, S \subseteq Int, IsFiniteSet(S), S # {}
  PROVE  /\ \E m \in S : \A n \in S : m <= n
         /\ \E m \in S : \A n \in S : n <= m
<1>1. /\ Cardinality(S) \in Nat
      /\ \A n \in S : Below(S, n) \in 0..(Cardinality(S) - 1)
      /\ \A n, m \in S : n < m => Below(S, n) < Below(S, m)
      /\ \A i \in 0..(Cardinality(S) - 1) : \E n \in S : Below(S, n) = i
  BY BelowIsABijection
<1>2. 0 \in 0..(Cardinality(S) - 1) /\ Cardinality(S) - 1 \in 0..(Cardinality(S) - 1)
  BY <1>1, FS_EmptySet
<1>3. \A n, m \in S : Below(S, m) <= Below(S, n) => m <= n
  BY <1>1
<1>4. \E m \in S : \A n \in S : m <= n
  <2>1. PICK m \in S : Below(S, m) = 0
    BY <1>1, <1>2
  <2>2. \A n \in S : Below(S, m) <= Below(S, n)
    BY <1>1, <2>1
  <2>3. QED
    BY <1>3, <2>2
<1>5. \E m \in S : \A n \in S : n <= m
  <2>1. PICK m \in S : Below(S, m) = Cardinality(S) - 1
    BY <1>1, <1>2
  <2>2. \A n \in S : Below(S, n) <= Below(S, m)
    BY <1>1, <2>1
  <2>3. QED
    BY <1>3, <2>2
<1>6. QED
  BY <1>4, <1>5

\* An increasing sequence that has each element of a set is that set in order.
LEMMA OneOrder ==
  ASSUME NEW S, S \subseteq Int, NEW n \in Nat, NEW s \in [1..n -> S],
         \A i, j \in 1..n : i < j => s[i] < s[j],
         \A x \in S : \E i \in 1..n : s[i] = x
  PROVE  IsFiniteSet(S) /\ Cardinality(S) = n /\ s = Ordered(S)
<1>1. \A i \in 1..n : s[i] \in S /\ s[i] \in Int
  OBVIOUS
<1>2. \A i, j \in 1..n : s[i] < s[j] <=> i < j
  <2>1. SUFFICES ASSUME NEW i \in 1..n, NEW j \in 1..n, s[i] < s[j]
                 PROVE  i < j
    OBVIOUS
  <2>2. i = j => ~(s[i] < s[j])
    BY <1>1
  <2>3. j < i => s[j] < s[i] /\ ~(s[i] < s[j])
    BY <1>1
  <2>4. QED
    BY <2>1, <2>2, <2>3
<1>3. \A i, j \in 1..n : s[i] = s[j] => i = j
  <2>1. SUFFICES ASSUME NEW i \in 1..n, NEW j \in 1..n, i < j
                 PROVE  s[i] # s[j]
    OBVIOUS
  <2>2. QED
    BY <1>1, <2>1
<1>4. \A k \in 0..n : /\ IsFiniteSet({s[i] : i \in 1..k})
                      /\ Cardinality({s[i] : i \in 1..k}) = k
  <2>1. SUFFICES ASSUME NEW k \in 0..n
                 PROVE  /\ IsFiniteSet({s[i] : i \in 1..k})
                        /\ Cardinality({s[i] : i \in 1..k}) = k
    OBVIOUS
  <2> DEFINE T == {s[i] : i \in 1..k}
             g == [i \in 1..k |-> s[i]]
  <2>2. g \in Bijection(1..k, T)
    <3>1. g \in [1..k -> T] /\ \A x \in T : \E i \in 1..k : g[i] = x
      OBVIOUS
    <3>2. \A i, j \in 1..k : g[i] = g[j] => i = j
      BY <1>3
    <3>3. QED
      BY <3>1, <3>2 DEF Bijection, Injection, Surjection, IsInjective
  <2>3. IsFiniteSet(1..k) /\ Cardinality(1..k) = k
    BY FS_Interval
  <2>4. QED
    BY <2>2, <2>3, FS_Bijection DEF ExistsBijection
<1>5. IsFiniteSet(S) /\ Cardinality(S) = n
  <2>1. S = {s[i] : i \in 1..n}
    OBVIOUS
  <2>2. n \in 0..n
    OBVIOUS
  <2>3. QED
    BY <1>4, <2>1, <2>2
<1>6. ASSUME NEW i \in 1..n
      PROVE  Ordered(S)[i] = s[i]
  <2>1. {m \in S : m < s[i]} = {s[j] : j \in 1..(i - 1)}
    <3>1. ASSUME NEW m \in S, m < s[i]
          PROVE  m \in {s[j] : j \in 1..(i - 1)}
      <4>1. PICK j \in 1..n : s[j] = m
        OBVIOUS
      <4>2. j < i
        BY <1>2, <3>1, <4>1
      <4>3. j \in 1..(i - 1)
        BY <4>2
      <4>4. QED
        BY <4>1, <4>3
    <3>2. ASSUME NEW j \in 1..(i - 1)
          PROVE  s[j] \in S /\ s[j] < s[i]
      <4>1. j \in 1..n /\ j < i
        OBVIOUS
      <4>2. QED
        BY <4>1
    <3>3. QED
      BY <3>1, <3>2
  <2>2. i - 1 \in 0..n
    OBVIOUS
  <2>3. Below(S, s[i]) = i - 1
    BY <1>4, <2>1, <2>2 DEF Below
  <2>4. \A x \in S : Below(S, x) = i - 1 => x = s[i]
    <3>1. \A x, y \in S : x < y => Below(S, x) < Below(S, y)
      BY <1>5, BelowIsABijection
    <3>2. \A x \in S : x < s[i] \/ x = s[i] \/ s[i] < x
      BY <1>1
    <3>3. SUFFICES ASSUME NEW x \in S, Below(S, x) = i - 1, x # s[i]
                   PROVE  FALSE
      OBVIOUS
    <3>4. Below(S, x) < Below(S, s[i]) \/ Below(S, s[i]) < Below(S, x)
      BY <1>1, <3>1, <3>2, <3>3
    <3>5. QED
      BY <2>3, <3>3, <3>4
  <2>5. Ordered(S)[i] = CHOOSE x \in S : Below(S, x) = i - 1
    BY <1>5 DEF Ordered, Below
  <2>6. QED
    BY <1>1, <2>3, <2>4, <2>5
<1>7. Ordered(S) \in [1..n -> S]
  <2>1. Ordered(S) \in Seq(S) /\ Len(Ordered(S)) = n
    BY <1>5, OrderedSorts
  <2>2. QED
    BY <2>1
<1>8. QED
  BY <1>5, <1>6, <1>7

\* Two sets in order, the one before the other, are their union in order.
LEMMA OrdersJoin ==
  ASSUME NEW A, A \subseteq Int, IsFiniteSet(A), NEW B, B \subseteq Int, IsFiniteSet(B),
         \A a \in A : \A b \in B : a < b
  PROVE  Ordered(A) \o Ordered(B) = Ordered(A \cup B)
<1> DEFINE s == Ordered(A)
           t == Ordered(B)
           n == Cardinality(A) + Cardinality(B)
           u == s \o t
<1>1. /\ s \in Seq(A) /\ Len(s) = Cardinality(A)
      /\ \A i, j \in 1..Len(s) : i < j => s[i] < s[j]
      /\ \A x \in A : \E i \in 1..Len(s) : s[i] = x
  BY OrderedSorts
<1>2. /\ t \in Seq(B) /\ Len(t) = Cardinality(B)
      /\ \A i, j \in 1..Len(t) : i < j => t[i] < t[j]
      /\ \A x \in B : \E i \in 1..Len(t) : t[i] = x
  BY OrderedSorts
<1> HIDE DEF s, t
<1>3. Len(s) \in Nat /\ Len(t) \in Nat /\ n = Len(s) + Len(t) /\ n \in Nat
  BY <1>1, <1>2
<1>4. /\ u \in Seq(A \cup B) /\ Len(u) = n
      /\ \A i \in 1..Len(s) : u[i] = s[i] /\ u[i] \in A
      /\ \A i \in 1..Len(t) : u[Len(s) + i] = t[i] /\ u[Len(s) + i] \in B
  <2>1. s \in Seq(A \cup B) /\ t \in Seq(A \cup B)
    BY <1>1, <1>2
  <2>2. u \in Seq(A \cup B) /\ Len(u) = Len(s) + Len(t)
    BY <2>1
  <2>3. \A i \in 1..(Len(s) + Len(t)) : u[i] = IF i <= Len(s) THEN s[i] ELSE t[i - Len(s)]
    BY <2>1
  <2>4. ASSUME NEW i \in 1..Len(s)
        PROVE  u[i] = s[i] /\ s[i] \in A
    BY <1>1, <1>3, <2>3
  <2>5. ASSUME NEW i \in 1..Len(t)
        PROVE  u[Len(s) + i] = t[i] /\ t[i] \in B
    <3>1. Len(s) + i \in 1..(Len(s) + Len(t)) /\ ~(Len(s) + i <= Len(s)) /\ (Len(s) + i) - Len(s) = i
      BY <1>3
    <3>2. QED
      BY <1>2, <2>3, <3>1
  <2>6. QED
    BY <1>3, <2>2, <2>4, <2>5
<1> HIDE DEF u, n
<1>5. u \in [1..n -> A \cup B]
  BY <1>4
<1>6. \A i \in 1..n : i \in 1..Len(s) \/ (i - Len(s) \in 1..Len(t) /\ i = Len(s) + (i - Len(s)))
  BY <1>3
<1>7. ASSUME NEW i \in 1..n, NEW j \in 1..n, i < j
      PROVE  u[i] < u[j]
  <2>1. CASE i \in 1..Len(s) /\ j \in 1..Len(s)
    BY <1>1, <1>4, <1>7, <2>1
  <2>2. CASE i \in 1..Len(s) /\ j \notin 1..Len(s)
    <3>1. u[i] \in A /\ u[j] \in B
      BY <1>4, <1>6, <2>2
    <3>2. QED
      BY <3>1
  <2>3. CASE i \notin 1..Len(s)
    <3>1. j \notin 1..Len(s)
      BY <1>3, <1>7, <2>3
    <3>2. /\ i - Len(s) \in 1..Len(t) /\ u[i] = t[i - Len(s)]
          /\ j - Len(s) \in 1..Len(t) /\ u[j] = t[j - Len(s)]
          /\ i - Len(s) < j - Len(s)
      <4>1. /\ i - Len(s) \in 1..Len(t) /\ i = Len(s) + (i - Len(s))
            /\ j - Len(s) \in 1..Len(t) /\ j = Len(s) + (j - Len(s))
        BY <1>6, <2>3, <3>1
      <4>2. u[i] = t[i - Len(s)] /\ u[j] = t[j - Len(s)]
        BY <1>4, <4>1
      <4>3. QED
        BY <1>3, <1>7, <4>1, <4>2
    <3>3. QED
      BY <1>2, <3>2
  <2>4. QED
    BY <2>1, <2>2, <2>3
<1>8. ASSUME NEW x \in A \cup B
      PROVE  \E i \in 1..n : u[i] = x
  <2>1. CASE x \in A
    <3>1. PICK i \in 1..Len(s) : s[i] = x
      BY <1>1, <2>1
    <3>2. i \in 1..n
      BY <1>3
    <3>3. QED
      BY <1>4, <3>1, <3>2
  <2>2. CASE x \in B
    <3>1. PICK i \in 1..Len(t) : t[i] = x
      BY <1>2, <2>2
    <3>2. Len(s) + i \in 1..n
      BY <1>3
    <3>3. QED
      BY <1>4, <3>1, <3>2
  <2>3. QED
    BY <2>1, <2>2
<1>9. A \cup B \subseteq Int /\ n \in Nat
  BY <1>3
<1>10. u = Ordered(A \cup B)
  BY <1>5, <1>7, <1>8, <1>9, OneOrder
<1>11. QED
  BY <1>10 DEF u, s, t

LEMMA OrderOfFew ==
  /\ Ordered({}) = <<>>
  /\ \A x \in Int : Ordered({x}) = <<x>>
<1>1. Ordered({}) = <<>>
  BY FS_EmptySet DEF Ordered
<1>2. ASSUME NEW x \in Int
      PROVE  Ordered({x}) = <<x>>
  <2>1. <<x>> \in [1..1 -> {x}] /\ 1 \in Nat /\ {x} \subseteq Int
    OBVIOUS
  <2>2. /\ \A i, j \in 1..1 : i < j => <<x>>[i] < <<x>>[j]
        /\ \A y \in {x} : \E i \in 1..1 : <<x>>[i] = y
    OBVIOUS
  <2>3. QED
    BY <2>1, <2>2, OneOrder
<1>3. QED
  BY <1>1, <1>2

-----------------------------------------------------------------------------
(* Sums over finite sets *)

\* The element a fold takes from a set next.
Picked(s) == CHOOSE x \in s : TRUE

\* A set of subsets that has a set whenever it has the set without the element
\* a fold takes first has them all.
LEMMA SubsetInducts ==
  ASSUME NEW D, IsFiniteSet(D), NEW T \in SUBSET (SUBSET D), {} \in T,
         \A s \in SUBSET D : s # {} /\ s \ {Picked(s)} \in T => s \in T
  PROVE  T = SUBSET D
<1> DEFINE N == {n \in Nat : \A s \in SUBSET D : Cardinality(s) = n => s \in T}
<1>1. \A s \in SUBSET D : IsFiniteSet(s) /\ Cardinality(s) \in Nat
  BY FS_Subset, FS_CardinalityType
<1>2. 0 \in N
  BY <1>1, FS_EmptySet
<1>3. ASSUME NEW n \in N
      PROVE  n + 1 \in N
  <2>1. ASSUME NEW s \in SUBSET D, Cardinality(s) = n + 1
        PROVE  s \in T
    <3>1. s # {}
      BY <2>1, FS_EmptySet
    <3>2. Picked(s) \in s
      BY <3>1 DEF Picked
    <3>3. Cardinality(s \ {Picked(s)}) = n
      BY <1>1, <2>1, <3>2, FS_RemoveElement
    <3>4. s \ {Picked(s)} \in T
      BY <3>3
    <3> QED BY <3>1, <3>4
  <2> QED BY <2>1
<1>4. N = Nat
  <2>1. N \in SUBSET Nat
    OBVIOUS
  <2> HIDE DEF N
  <2> QED BY <1>2, <1>3, <2>1, NatInducts
<1> QED BY <1>1, <1>4

\* The partial sums of f as a fold over subsets of D takes them.
IsFold(sum, f, D) ==
  sum = [s \in SUBSET D |->
           IF s = {} THEN 0 ELSE f[Picked(s)] + sum[s \ {Picked(s)}]]

\* There are partial sums.
LEMMA FoldExists ==
  ASSUME NEW D, IsFiniteSet(D), NEW f
  PROVE  \E sum : IsFold(sum, f, D)
<1> DEFINE Small(n) == {s \in SUBSET D : Cardinality(s) <= n}
           Taken(sum, s) == IF s = {} THEN 0
                            ELSE f[Picked(s)] + sum[s \ {Picked(s)}]
           Upto(sum, n) == sum = [s \in Small(n) |-> Taken(sum, s)]
           N == {n \in Nat : \E sum : Upto(sum, n)}
<1>1. \A s \in SUBSET D : IsFiniteSet(s) /\ Cardinality(s) \in Nat
  BY FS_Subset, FS_CardinalityType
<1>2. \A s \in SUBSET D : Cardinality(s) = 0 <=> s = {}
  BY <1>1, FS_EmptySet
<1>3. 0 \in N
  <2>1. Small(0) = {{}}
    BY <1>1, <1>2
  <2>2. Upto([s \in Small(0) |-> 0], 0)
    BY <2>1
  <2> QED BY <2>2
<1>4. ASSUME NEW n \in N
      PROVE  n + 1 \in N
  <2>1. PICK sum : Upto(sum, n)
    OBVIOUS
  <2> DEFINE more == [s \in Small(n + 1) |-> Taken(sum, s)]
  <2>2. ASSUME NEW s \in Small(n + 1), s # {}
        PROVE  s \ {Picked(s)} \in Small(n)
    <3>1. Picked(s) \in s
      BY <2>2 DEF Picked
    <3>2. Cardinality(s \ {Picked(s)}) = Cardinality(s) - 1
      BY <1>1, <3>1, FS_RemoveElement
    <3> QED BY <1>1, <2>2, <3>2
  <2>3. \A s \in Small(n) : s \in Small(n + 1)
    BY <1>1
  <2>4. \A s \in Small(n) : more[s] = sum[s]
    BY <2>1, <2>3
  <2>5. \A s \in Small(n + 1) : Taken(more, s) = Taken(sum, s)
    <3> HIDE DEF more, Small
    <3> QED BY <2>2, <2>4
  <2>6. Upto(more, n + 1)
    <3> DEFINE again == [s \in Small(n + 1) |-> Taken(more, s)]
    <3>1. more = again
      <4> HIDE DEF Small
      <4> SUFFICES \A s \in Small(n + 1) : Taken(sum, s) = Taken(more, s)
        OBVIOUS
      <4> QED BY <2>5
    <3> QED BY <3>1
  <2>7. n + 1 \in Nat
    OBVIOUS
  <2> HIDE DEF Upto, more
  <2> QED BY <2>6, <2>7
<1>5. N = Nat
  <2>1. N \in SUBSET Nat
    OBVIOUS
  <2> HIDE DEF N
  <2> QED BY <1>3, <1>4, <2>1, NatInducts
<1>6. Cardinality(D) \in Nat /\ Small(Cardinality(D)) = SUBSET D
  BY <1>1, FS_Subset, FS_CardinalityType
<1>7. PICK sum : Upto(sum, Cardinality(D))
  BY <1>5, <1>6
<1> HIDE DEF Small
<1>8. IsFold(sum, f, D)
  BY <1>6, <1>7 DEF IsFold
<1> QED BY <1>8

FoldedSum(f) == FoldFunction(+, 0, f)

\* The sum over the domain is the last of the partial sums of one such fold.
LEMMA SumIsFold ==
  ASSUME NEW f, IsFiniteSet(DOMAIN f)
  PROVE  LET sum == CHOOSE sum : IsFold(sum, f, DOMAIN f)
         IN  IsFold(sum, f, DOMAIN f) /\ FoldedSum(f) = sum[DOMAIN f]
<1>1. FoldedSum(f) = (CHOOSE sum : IsFold(sum, f, DOMAIN f))[DOMAIN f]
  BY DEF FoldedSum, FoldFunction, FoldFunctionOnSet, MapThenFoldSet, IsFold, Picked
<1> QED BY <1>1, FoldExists

\* What a sum of numbers is when one of them is changed.
LEMMA SumOfChanged ==
  ASSUME NEW D, IsFiniteSet(D), NEW f \in [D -> Nat], NEW g \in [D -> Nat],
         NEW x \in D, \A y \in D : y # x => g[y] = f[y]
  PROVE  /\ FoldedSum(f) \in Nat
         /\ FoldedSum(g) \in Nat
         /\ FoldedSum(g) + f[x] = FoldedSum(f) + g[x]
<1> DEFINE F == CHOOSE sum : IsFold(sum, f, D)
           G == CHOOSE sum : IsFold(sum, g, D)
<1>1. IsFold(F, f, D) /\ FoldedSum(f) = F[D]
  BY SumIsFold, DOMAIN f = D
<1>2. IsFold(G, g, D) /\ FoldedSum(g) = G[D]
  BY SumIsFold, DOMAIN g = D
<1>3. \A y \in D : f[y] \in Nat /\ g[y] \in Nat
  OBVIOUS
<1> HIDE DEF F, G
<1> DEFINE T == {s \in SUBSET D : /\ F[s] \in Nat /\ G[s] \in Nat
                                  /\ x \notin s => G[s] = F[s]
                                  /\ x \in s => G[s] + f[x] = F[s] + g[x]}
<1>4. F[{}] = 0 /\ G[{}] = 0
  BY <1>1, <1>2 DEF IsFold
<1>5. {} \in T
  BY <1>4
<1>6. ASSUME NEW s \in SUBSET D, s # {}, s \ {Picked(s)} \in T
      PROVE  s \in T
  <2> DEFINE c == Picked(s)
             r == s \ {c}
  <2>1. c \in s /\ r \in SUBSET D
    BY <1>6 DEF Picked
  <2>2. F[s] = f[c] + F[r] /\ G[s] = g[c] + G[r]
    BY <1>1, <1>2, <1>6 DEF IsFold
  <2>3. /\ F[r] \in Nat /\ G[r] \in Nat
        /\ x \notin r => G[r] = F[r]
        /\ x \in r => G[r] + f[x] = F[r] + g[x]
    BY <1>6
  <2>4. f[c] \in Nat /\ g[c] \in Nat /\ f[x] \in Nat /\ g[x] \in Nat
    BY <1>3, <2>1
  <2>5. x \in s <=> (x = c \/ x \in r)
    BY <2>1
  <2>6. x = c => x \notin r
    OBVIOUS
  <2>7. c # x => g[c] = f[c]
    BY <1>3, <2>1
  <2> HIDE DEF c, r
  <2>8. /\ F[s] \in Nat /\ G[s] \in Nat
        /\ x \notin s => G[s] = F[s]
        /\ x \in s => G[s] + f[x] = F[s] + g[x]
    <3>1. CASE x = c
      BY <1>3, <2>2, <2>3, <2>4, <2>5, <2>6, <3>1
    <3>2. CASE x # c
      BY <2>2, <2>3, <2>4, <2>5, <2>7, <3>2
    <3> QED BY <3>1, <3>2
  <2> QED BY <2>8
<1>7. T = SUBSET D
  <2>1. T \in SUBSET (SUBSET D)
    OBVIOUS
  <2> HIDE DEF T
  <2> QED BY <1>5, <1>6, <2>1, SubsetInducts
<1>8. D \in T
  BY <1>7
<1> QED BY <1>1, <1>2, <1>8

LEMMA SumOfZeros ==
  ASSUME NEW D, IsFiniteSet(D)
  PROVE  FoldedSum([x \in D |-> 0]) = 0
<1> DEFINE z == [x \in D |-> 0]
           Z == CHOOSE sum : IsFold(sum, z, D)
           T == {s \in SUBSET D : Z[s] = 0}
<1>1. IsFold(Z, z, D) /\ FoldedSum(z) = Z[D]
  BY SumIsFold, DOMAIN z = D
<1>2. \A x \in D : z[x] = 0
  OBVIOUS
<1> HIDE DEF Z, z
<1>3. {} \in T
  BY <1>1 DEF IsFold
<1>4. ASSUME NEW s \in SUBSET D, s # {}, s \ {Picked(s)} \in T
      PROVE  s \in T
  <2>1. Picked(s) \in s
    BY <1>4 DEF Picked
  <2>2. Z[s] = z[Picked(s)] + Z[s \ {Picked(s)}]
    BY <1>1, <1>4 DEF IsFold
  <2> QED BY <1>2, <1>4, <2>1, <2>2
<1>5. T = SUBSET D
  <2>1. T \in SUBSET (SUBSET D)
    OBVIOUS
  <2> HIDE DEF T
  <2> QED BY <1>3, <1>4, <2>1, SubsetInducts
<1>6. D \in T
  BY <1>5
<1> QED BY <1>1, <1>6 DEF z
=============================================================================
