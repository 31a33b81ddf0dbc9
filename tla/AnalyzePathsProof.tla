-------------------------- MODULE AnalyzePathsProof --------------------------
(***************************************************************************)
(* Proofs about AnalyzePaths for any tree, any number of threads and any   *)
(* outcome of the files.                                                   *)
(***************************************************************************)
EXTENDS AnalyzePaths, OrderingProof

USE DEF Phases, PoolStates, Results, Threads, PastTheEnd, FetchAdd, Finished

-----------------------------------------------------------------------------
(* The tree *)

Least(T, m) == m \in T /\ \A n \in T : m <= n
Greatest(T, m) == m \in T /\ \A n \in T : n <= m

\* Whatever holds of some names holds of a first and of a last one.
LEMMA NamesEnd ==
  ASSUME NEW T, T \subseteq Names, T # {}
  PROVE  (\E m : Least(T, m)) /\ (\E m : Greatest(T, m))
<1>1. T \subseteq Int /\ IsFiniteSet(T)
  BY NamesAssumption, FS_Subset
<1>2. QED
  BY <1>1, FiniteEnds DEF Least, Greatest

LEMMA Under ==
  ASSUME NEW p \in Names, Tree[p].under \in Names
  PROVE  Tree[p].under \in Directories /\ Tree[p].under < p
BY TreeAssumption DEF Directories

LEMMA UnderIsBefore ==
  ASSUME NEW p \in Names, Tree[p].under \in Names
  PROVE  ~(p <= Tree[p].under)
<1>1. p \in Int /\ Tree[p].under \in Int
  BY NamesAssumption
<1>2. Tree[p].under < p
  BY Under
<1>3. QED
  BY <1>1, <1>2

LEMMA SubdirectoriesAreBelow ==
  ASSUME NEW d \in Names
  PROVE  /\ Subdirectories(d) \subseteq Directories
         /\ \A c \in Subdirectories(d) : Tree[c].under = d /\ d < c /\ ~Tree[c].skipped
         /\ Subdirectories(d) \subseteq Int /\ IsFiniteSet(Subdirectories(d))
<1>1. Subdirectories(d) \subseteq Directories /\ Subdirectories(d) \in SUBSET Names
  BY DEF Subdirectories, Entries, Directories
<1>2. \A c \in Subdirectories(d) : Tree[c].under = d /\ c \in Names /\ ~Tree[c].skipped
  BY DEF Subdirectories, Entries
<1>3. QED
  BY <1>1, <1>2, Under, NamesAssumption, FS_Subset

-----------------------------------------------------------------------------
(* What is above a name *)

AboveStep(above, p) ==
  IF Tree[p].under \in Names THEN {Tree[p].under} \cup above[Tree[p].under] ELSE {}

LEMMA AboveIs ==
  \A p \in Names : Once!Above[p] = AboveStep(Once!Above, p)
<1> DEFINE Rec(f, S) == f = [p \in S |-> AboveStep(f, p)]
           Upto(d) == {p \in Names : p <= d}
<1>1. ASSUME NEW d \in Names
      PROVE  \E f : Rec(f, Upto(d))
  <2> DEFINE T == {x \in Names : ~\E f : Rec(f, Upto(x))}
  <2>1. SUFFICES ASSUME T # {}
                 PROVE  FALSE
    OBVIOUS
  <2>2. PICK m : Least(T, m)
    <3>1. T \subseteq Names
      OBVIOUS
    <3>2. QED
      BY <2>1, <3>1, NamesEnd
  <2>3. m \in Names /\ m \in Int /\ \A x \in Names : x \in Int
    BY <2>2, NamesAssumption DEF Least
  <2> DEFINE S == {p \in Names : p < m}
  <2>4. \E g : Rec(g, S)
    <3>1. CASE S = {}
      <4>1. Rec([p \in S |-> {}], S)
        BY <3>1
      <4>2. QED
        BY <4>1
    <3>2. CASE S # {}
      <4>1. PICK x : Greatest(S, x)
        <5>1. S \subseteq Names
          OBVIOUS
        <5>2. QED
          BY <3>2, <5>1, NamesEnd
      <4>2. x \in Names /\ x < m
        BY <4>1 DEF Greatest
      <4>3. x \notin T
        BY <2>2, <2>3, <4>2 DEF Least
      <4>4. Upto(x) = S
        <5>1. ASSUME NEW p \in Names
              PROVE  p <= x <=> p < m
          <6>1. p < m => p <= x
            BY <4>1 DEF Greatest
          <6>2. p \in Int /\ x \in Int
            BY <2>3, <4>2
          <6>3. QED
            BY <2>3, <4>2, <6>1, <6>2
        <5>2. QED
          BY <5>1
      <4>5. QED
        BY <4>2, <4>3, <4>4
    <3>3. QED
      BY <3>1, <3>2
  <2>5. PICK g : Rec(g, S)
    BY <2>4
  <2> DEFINE f == [p \in Upto(m) |-> AboveStep(g, p)]
  <2>6. \A p \in S : f[p] = g[p] /\ p \in Upto(m)
    BY <2>3, <2>5
  <2>7. ASSUME NEW p \in Upto(m)
        PROVE  AboveStep(f, p) = AboveStep(g, p)
    <3>1. p \in Names /\ (Tree[p].under \in Names => Tree[p].under \in S)
      <4>1. p \in Names /\ p \in Int /\ p <= m
        BY <2>3
      <4>2. SUFFICES ASSUME Tree[p].under \in Names
                     PROVE  Tree[p].under < m
        BY <4>1
      <4>3. Tree[p].under < p /\ Tree[p].under \in Int
        BY <2>3, <4>1, <4>2, Under
      <4>4. QED
        BY <2>3, <4>1, <4>3
    <3> HIDE DEF f, S
    <3>2. QED
      BY <2>6, <3>1 DEF AboveStep
  <2>8. Rec(f, Upto(m))
    BY <2>7
  <2>9. QED
    BY <2>2, <2>8 DEF Least
<1>2. \E f : Rec(f, Names)
  <2>1. CASE Names = {}
    <3>1. Rec([p \in Names |-> {}], Names)
      BY <2>1
    <3>2. QED
      BY <3>1
  <2>2. CASE Names # {}
    <3>1. PICK d : Greatest(Names, d)
      BY <2>2, NamesEnd
    <3>2. Upto(d) = Names /\ d \in Names
      BY <3>1 DEF Greatest
    <3>3. QED
      BY <1>1, <3>2
  <2>3. QED
    BY <2>1, <2>2
<1>3. Once!Above = CHOOSE f : Rec(f, Names)
  BY DEF Once!Above, Once!Names, Names, AboveStep
<1>4. Rec(Once!Above, Names)
  BY <1>2, <1>3
<1>5. QED
  BY <1>4

\* What is above a name are directories, on one line up from it.
LEMMA AboveIsBefore ==
  \A p \in Names : \A q \in Once!Above[p] : q \in Directories /\ q < p
<1> DEFINE T == {p \in Names : \E q \in Once!Above[p] : ~(q \in Directories /\ q < p)}
<1>1. SUFFICES ASSUME T # {}
               PROVE  FALSE
  OBVIOUS
<1>2. PICK p : Least(T, p)
  <2>1. T \subseteq Names
    OBVIOUS
  <2>2. QED
    BY <1>1, <2>1, NamesEnd
<1>3. p \in Names
  BY <1>2 DEF Least
<1>4. PICK q \in Once!Above[p] : ~(q \in Directories /\ q < p)
  BY <1>2 DEF Least
<1>5. /\ Tree[p].under \in Names
      /\ q = Tree[p].under \/ q \in Once!Above[Tree[p].under]
  BY <1>3, <1>4, AboveIs DEF AboveStep
<1>6. Tree[p].under \in Directories /\ Tree[p].under < p
  BY <1>3, <1>5, Under
<1>7. q \in Once!Above[Tree[p].under] => q \in Directories /\ q < Tree[p].under
  <2>1. ~(p <= Tree[p].under)
    BY <1>3, <1>5, UnderIsBefore
  <2>2. Tree[p].under \notin T
    BY <1>2, <2>1 DEF Least
  <2>3. QED
    BY <1>5, <2>2
<1>8. Directories \subseteq Int /\ Names \subseteq Int
  BY NamesAssumption DEF Directories
<1>9. p \in Int /\ Tree[p].under \in Int
  BY <1>3, <1>5, <1>8
<1>10. q \in Once!Above[Tree[p].under] => q < p
  <2>1. SUFFICES ASSUME q \in Once!Above[Tree[p].under]
                 PROVE  q < p
    OBVIOUS
  <2>2. q \in Int /\ q < Tree[p].under
    BY <1>7, <1>8, <2>1
  <2>3. QED
    BY <1>6, <1>9, <2>2
<1>11. QED
  BY <1>4, <1>5, <1>6, <1>7, <1>10

LEMMA AboveComposes ==
  \A p \in Names : \A q \in Once!Above[p] : Once!Above[q] \subseteq Once!Above[p]
<1> DEFINE T == {p \in Names : \E q \in Once!Above[p] : ~(Once!Above[q] \subseteq Once!Above[p])}
<1>1. SUFFICES ASSUME T # {}
               PROVE  FALSE
  OBVIOUS
<1>2. PICK p : Least(T, p)
  <2>1. T \subseteq Names
    OBVIOUS
  <2>2. QED
    BY <1>1, <2>1, NamesEnd
<1>3. p \in Names
  BY <1>2 DEF Least
<1>4. PICK q \in Once!Above[p] : ~(Once!Above[q] \subseteq Once!Above[p])
  BY <1>2 DEF Least
<1>5. /\ Tree[p].under \in Names
      /\ q = Tree[p].under \/ q \in Once!Above[Tree[p].under]
      /\ Once!Above[Tree[p].under] \subseteq Once!Above[p]
  BY <1>3, <1>4, AboveIs DEF AboveStep
<1>6. ~(p <= Tree[p].under)
  BY <1>3, <1>5, UnderIsBefore
<1>7. Tree[p].under \notin T
  BY <1>2, <1>6 DEF Least
<1>8. QED
  BY <1>4, <1>5, <1>7

LEMMA AboveIsALine ==
  \A p \in Names : \A u, v \in {p} \cup Once!Above[p] :
    u = v \/ u \in Once!Above[v] \/ v \in Once!Above[u]
<1> DEFINE Line(p, u, v) == u = v \/ u \in Once!Above[v] \/ v \in Once!Above[u]
           T == {p \in Names : \E u, v \in {p} \cup Once!Above[p] : ~Line(p, u, v)}
<1>1. SUFFICES ASSUME T # {}
               PROVE  FALSE
  OBVIOUS
<1>2. PICK p : Least(T, p)
  <2>1. T \subseteq Names
    OBVIOUS
  <2>2. QED
    BY <1>1, <2>1, NamesEnd
<1>3. p \in Names
  BY <1>2 DEF Least
<1>4. PICK u \in {p} \cup Once!Above[p], v \in {p} \cup Once!Above[p] : ~Line(p, u, v)
  BY <1>2 DEF Least
<1>5. u \in Once!Above[p] /\ v \in Once!Above[p]
  BY <1>4
<1>6. /\ Tree[p].under \in Names
      /\ Once!Above[p] = {Tree[p].under} \cup Once!Above[Tree[p].under]
  BY <1>3, <1>5, AboveIs DEF AboveStep
<1>7. ~(p <= Tree[p].under)
  BY <1>3, <1>6, UnderIsBefore
<1>8. Tree[p].under \notin T
  BY <1>2, <1>7 DEF Least
<1>9. QED
  BY <1>4, <1>5, <1>6, <1>8

\* What comes between a directory and something below it is below it too.
LEMMA BelowIsTogether ==
  ASSUME NEW d \in Names
  PROVE  \A p, q \in Names : d \in Once!Above[p] /\ d < q /\ q < p => d \in Once!Above[q]
<1> DEFINE Bad(p, q) == d \in Once!Above[p] /\ d < q /\ q < p /\ d \notin Once!Above[q]
           T == {p \in Names : \E q \in Names : Bad(p, q)}
<1>1. SUFFICES ASSUME T # {}
               PROVE  FALSE
  OBVIOUS
<1>2. PICK p : Least(T, p)
  <2>1. T \subseteq Names
    OBVIOUS
  <2>2. QED
    BY <1>1, <2>1, NamesEnd
<1> DEFINE Q == {q \in Names : Bad(p, q)}
<1>3. PICK q : Least(Q, q)
  <2>1. Q \subseteq Names /\ Q # {}
    BY <1>2 DEF Least
  <2>2. QED
    BY <2>1, NamesEnd
<1>4. p \in Names /\ q \in Names /\ Bad(p, q) /\ \A x \in Names : x \in Int
  BY <1>2, <1>3, NamesAssumption DEF Least
<1> DEFINE u == Tree[p].under
           r == Tree[q].under
<1>5. /\ u \in Names /\ u < p
      /\ d = u \/ d \in Once!Above[u]
  BY <1>4, AboveIs, Under DEF AboveStep
<1>6. CASE q = u
  BY <1>4, <1>5, <1>6
<1>7. CASE q < u
  <2>1. d \in Once!Above[u]
    BY <1>4, <1>5, <1>7
  <2>2. Bad(u, q)
    BY <1>4, <1>7, <2>1
  <2>3. u \in T
    BY <1>4, <1>5, <2>2
  <2>4. p <= u
    BY <1>2, <2>3 DEF Least
  <2>5. QED
    BY <1>4, <1>5, <2>4
<1>8. CASE u < q
  <2>1. r \in Names /\ u <= r /\ r < q
    BY <1>4, <1>5, <1>8, TreeAssumption
  <2>2. Once!Above[q] = {r} \cup Once!Above[r]
    BY <1>4, <2>1, AboveIs DEF AboveStep
  <2>3. r # d /\ d \notin Once!Above[r]
    BY <1>4, <2>2
  <2>4. d < r
    <3>1. d <= u
      BY <1>4, <1>5, AboveIsBefore
    <3>2. QED
      BY <1>4, <1>5, <2>1, <2>3, <3>1
  <2>5. Bad(p, r)
    BY <1>4, <2>1, <2>3, <2>4
  <2>6. r \in Q
    BY <2>1, <2>5
  <2>7. q <= r
    BY <1>3, <2>6 DEF Least
  <2>8. QED
    BY <1>4, <2>1, <2>7
<1>9. QED
  BY <1>4, <1>5, <1>6, <1>7, <1>8

-----------------------------------------------------------------------------
(* Sequences in a row *)

\* Sets in order, each before the next, are their union in order.
LEMMA OrdersFlatten ==
  ASSUME NEW n \in Nat, NEW H,
         \A i \in 1..n : H[i] \subseteq Int /\ IsFiniteSet(H[i]),
         \A i, j \in 1..n : i < j => \A a \in H[i] : \A b \in H[j] : a < b
  PROVE  FlattenSeq([i \in 1..n |-> Ordered(H[i])]) = Ordered(UNION {H[i] : i \in 1..n})
<1> DEFINE seqs == [i \in 1..n |-> Ordered(H[i])]
           All(k) == UNION {H[i] : i \in 1..k}
<1>1. CASE n = 0
  <2>1. Len(seqs) = 0 /\ seqs = <<>> /\ All(n) = {}
    BY <1>1
  <2>2. QED
    BY <2>1, OrderOfFew DEF FlattenSeq
<1>2. CASE n # 0
  <2> DEFINE Rec(f) == f = [i \in 1..n |-> IF i = 1 THEN seqs[i] ELSE f[i - 1] \o seqs[i]]
             flatten == CHOOSE f : Rec(f)
             T == {k \in Nat : k + 1 <= n => /\ IsFiniteSet(All(k + 1))
                                             /\ All(k + 1) \subseteq Int}
  <2>1. Len(seqs) = n /\ n > 0
    BY <1>2
  <2>2. FlattenSeq(seqs) = flatten[n]
    <3>1. FlattenSeq(seqs) =
            (CHOOSE f : f = [i \in 1..Len(seqs) |->
                               IF i = 1 THEN seqs[i] ELSE f[i - 1] \o seqs[i]])[Len(seqs)]
      <4>1. Len(seqs) # 0
        BY <2>1
      <4> HIDE DEF seqs
      <4>2. QED
        BY <4>1 DEF FlattenSeq
    <3> HIDE DEF seqs
    <3>2. QED
      BY <2>1, <3>1
  <2>3. All(1) = H[1] /\ 1 \in 1..n
    BY <2>1
  <2>4. \A k \in 1..n : All(k) \subseteq Int
    OBVIOUS
  <2>5. ASSUME NEW k \in Nat, k + 1 <= n
        PROVE  All(k + 1) = All(k) \cup H[k + 1]
    <3>1. 1..(k + 1) = (1..k) \cup {k + 1}
      OBVIOUS
    <3>2. QED
      BY <3>1
  <2>6. T = Nat
    <3>1. T \in SUBSET Nat
      OBVIOUS
    <3>2. 0 \in T
      <4>1. IsFiniteSet(All(1)) /\ All(1) \subseteq Int /\ 0 + 1 = 1
        BY <2>3
      <4> HIDE DEF All
      <4>2. QED
        BY <4>1
    <3>3. ASSUME NEW k \in T
          PROVE  k + 1 \in T
      <4>1. SUFFICES ASSUME (k + 1) + 1 <= n
                     PROVE  IsFiniteSet(All((k + 1) + 1)) /\ All((k + 1) + 1) \subseteq Int
        OBVIOUS
      <4>2. k + 1 <= n /\ k + 1 \in Nat /\ (k + 1) + 1 \in 1..n
        BY <4>1
      <4>3. IsFiniteSet(All(k + 1)) /\ IsFiniteSet(H[(k + 1) + 1])
        BY <4>2
      <4>4. All((k + 1) + 1) = All(k + 1) \cup H[(k + 1) + 1]
        BY <2>5, <4>1, <4>2
      <4>5. IsFiniteSet(All(k + 1) \cup H[(k + 1) + 1])
        BY <4>3, FS_Union
      <4>6. QED
        BY <2>4, <4>2, <4>4, <4>5
    <3> HIDE DEF T
    <3>4. QED
      BY <3>1, <3>2, <3>3, NatInducts
  <2>7. ASSUME NEW k \in 1..n
        PROVE  IsFiniteSet(All(k)) /\ All(k) \subseteq Int
    <3>1. k - 1 \in T /\ (k - 1) + 1 = k
      BY <2>6
    <3>2. QED
      BY <3>1
  <2> DEFINE g == [i \in 1..n |-> Ordered(All(i))]
  <2>8. ASSUME NEW i \in 1..n, i # 1
        PROVE  Ordered(All(i)) = g[i - 1] \o seqs[i]
    <3>1. i - 1 \in 1..n /\ i - 1 \in Nat /\ (i - 1) + 1 = i
      BY <2>8
    <3>2. All(i) = All(i - 1) \cup H[i]
      BY <2>5, <3>1
    <3>3. IsFiniteSet(All(i - 1)) /\ All(i - 1) \subseteq Int
      BY <2>7, <3>1
    <3>4. \A a \in All(i - 1) : \A b \in H[i] : a < b
      <4>1. \A j \in 1..(i - 1) : j \in 1..n /\ j < i
        OBVIOUS
      <4>2. QED
        BY <4>1
    <3> HIDE DEF All
    <3>5. Ordered(All(i - 1)) \o Ordered(H[i]) = Ordered(All(i - 1) \cup H[i])
      BY <3>3, <3>4, OrdersJoin
    <3>6. QED
      BY <3>1, <3>2, <3>5
  <2>9. Rec(g)
    <3>1. \A i \in 1..n : g[i] = IF i = 1 THEN seqs[i] ELSE g[i - 1] \o seqs[i]
      <4>1. g[1] = seqs[1]
        BY <2>3
      <4>2. \A i \in 1..n : g[i] = Ordered(All(i))
        OBVIOUS
      <4> HIDE DEF g, seqs, All
      <4>3. QED
        BY <2>8, <4>1, <4>2
    <3>2. g = [i \in 1..n |-> g[i]]
      OBVIOUS
    <3> HIDE DEF g, seqs
    <3>3. QED
      BY <3>1, <3>2
  <2>10. Rec(flatten)
    BY <2>9
  <2> DEFINE U == {k \in Nat : k + 1 <= n => flatten[k + 1] = Ordered(All(k + 1))}
  <2>11. /\ flatten[1] = seqs[1]
         /\ \A i \in 1..n : i # 1 => flatten[i] = flatten[i - 1] \o seqs[i]
    <3> HIDE DEF flatten, seqs
    <3>1. QED
      BY <2>3, <2>10
  <2> HIDE DEF flatten, Rec
  <2>12. U = Nat
    <3>1. U \in SUBSET Nat
      OBVIOUS
    <3>2. 0 \in U
      <4>1. seqs[1] = Ordered(H[1])
        BY <2>3
      <4> HIDE DEF All, seqs
      <4>2. QED
        BY <2>3, <2>11, <4>1
    <3>3. ASSUME NEW k \in U
          PROVE  k + 1 \in U
      <4>1. SUFFICES ASSUME (k + 1) + 1 <= n
                     PROVE  flatten[(k + 1) + 1] = Ordered(All((k + 1) + 1))
        OBVIOUS
      <4>2. /\ flatten[k + 1] = Ordered(All(k + 1)) /\ k + 1 \in 1..n
            /\ (k + 1) + 1 \in 1..n /\ (k + 1) + 1 # 1 /\ ((k + 1) + 1) - 1 = k + 1
        BY <4>1
      <4>3. g[k + 1] = Ordered(All(k + 1))
        BY <4>2
      <4> HIDE DEF g, All, seqs
      <4>4. QED
        BY <2>8, <2>11, <4>2, <4>3
    <3> HIDE DEF U
    <3>4. QED
      BY <3>1, <3>2, <3>3, NatInducts
  <2>13. flatten[n] = Ordered(All(n))
    <3>1. n - 1 \in Nat /\ (n - 1) + 1 = n
      BY <2>1
    <3>2. n - 1 \in U
      BY <2>12, <3>1
    <3>3. (n - 1) + 1 <= n => flatten[(n - 1) + 1] = Ordered(All((n - 1) + 1))
      BY <3>2
    <3> HIDE DEF U, All
    <3>4. QED
      BY <3>1, <3>3
  <2>14. QED
    BY <2>2, <2>13
<1>3. QED
  BY <1>1, <1>2

LEMMA Same ==
  /\ \A S : Once!Ordered(S) = Ordered(S)
  /\ Once!Names = Names /\ Once!Directories = Directories
<1>1. \A S : Once!Ordered(S) = Ordered(S)
  BY DEF Once!Ordered, Ordered, Once!Cardinality, Cardinality
<1>2. QED
  BY <1>1 DEF Once!Names, Names, Once!Directories, Directories

-----------------------------------------------------------------------------
(* What is open *)

LEMMA OpenIs ==
  ASSUME NEW d, NEW x
  PROVE  x \in Once!Open(d) <=>
           /\ x \in Directories
           /\ x = d \/ d \in Once!Above[x]
           /\ \A y \in {x} \cup Once!Above[x] : d \in Once!Above[y] => ~Tree[y].skipped
           /\ \A y \in Once!Above[x] : y = d \/ d \in Once!Above[y] => Tree[y].state # "closed"
BY Same DEF Once!Open

\* A directory is open from itself, and if it can be read whatever is open from
\* the directories entered from it.
LEMMA OpenFromBelow ==
  ASSUME NEW d \in Directories
  PROVE  Once!Open(d) = {d} \cup (IF Tree[d].state = "closed" THEN {}
                                  ELSE UNION {Once!Open(c) : c \in Subdirectories(d)})
<1>0. d \in Names /\ \A x \in Directories : x \in Names
  BY DEF Directories
<1>1. \A x \in Names : x \notin Once!Above[x]
  <2>1. \A x \in Names : x \in Int /\ ~(x < x)
    BY NamesAssumption
  <2>2. QED
    BY <2>1, AboveIsBefore
<1>2. \A x \in Names : \A y \in Once!Above[x] : y \in Names /\ x \notin Once!Above[y]
  <2>1. \A x \in Names : \A y \in Once!Above[x] : y \in Names
    BY <1>0, AboveIsBefore
  <2>2. QED
    BY <1>1, <2>1, AboveComposes
<1>3. d \in Once!Open(d)
  BY <1>0, <1>1, <1>2, OpenIs
<1>4. ASSUME NEW x \in Once!Open(d), x # d
      PROVE  /\ Tree[d].state # "closed"
             /\ \E c \in Subdirectories(d) : x \in Once!Open(c)
  <2>1. /\ x \in Directories /\ d \in Once!Above[x] /\ x \in Names
        /\ \A y \in {x} \cup Once!Above[x] : d \in Once!Above[y] => ~Tree[y].skipped
        /\ \A y \in Once!Above[x] : y = d \/ d \in Once!Above[y] => Tree[y].state # "closed"
    BY <1>0, <1>4, OpenIs
  <2> DEFINE T == {c \in Names : c \in {x} \cup Once!Above[x] /\ d \in Once!Above[c]}
  <2>2. PICK c : Least(T, c)
    <3>1. T \subseteq Names /\ x \in T
      BY <2>1
    <3>2. QED
      BY <3>1, NamesEnd
  <2>3. c \in Names /\ c \in {x} \cup Once!Above[x] /\ d \in Once!Above[c]
    BY <2>2 DEF Least
  <2>4. Tree[c].under \in Names /\ Once!Above[c] = {Tree[c].under} \cup Once!Above[Tree[c].under]
    BY <2>3, AboveIs DEF AboveStep
  <2>5. Tree[c].under = d
    <3>1. Tree[c].under \in Once!Above[x]
      BY <2>1, <2>3, <2>4, AboveComposes
    <3>2. ~(c <= Tree[c].under)
      BY <2>3, <2>4, UnderIsBefore
    <3>3. Tree[c].under \notin T
      BY <2>2, <3>2 DEF Least
    <3>4. QED
      BY <2>3, <2>4, <3>1, <3>3
  <2>6. c \in Directories
    BY <2>1, <2>3, AboveIsBefore
  <2>7. c \in Subdirectories(d)
    BY <2>1, <2>3, <2>5, <2>6 DEF Subdirectories, Entries, Directories
  <2>8. \A y \in Names : c \in Once!Above[y] => d \in Once!Above[y]
    BY <2>3, AboveComposes
  <2>9. \A y \in {x} \cup Once!Above[x] : y \in Names
    BY <1>2, <2>1
  <2>10. x \in Once!Open(c)
    BY <2>1, <2>3, <2>8, <2>9, OpenIs
  <2>11. QED
    BY <2>1, <2>7, <2>10
<1>5. ASSUME NEW c \in Subdirectories(d), NEW x \in Once!Open(c), Tree[d].state # "closed"
      PROVE  x \in Once!Open(d)
  <2>1. c \in Directories /\ c \in Names /\ Tree[c].under = d /\ ~Tree[c].skipped
    BY <1>0, SubdirectoriesAreBelow
  <2>2. /\ x \in Directories /\ x \in Names /\ (x = c \/ c \in Once!Above[x])
        /\ \A y \in {x} \cup Once!Above[x] : c \in Once!Above[y] => ~Tree[y].skipped
        /\ \A y \in Once!Above[x] : y = c \/ c \in Once!Above[y] => Tree[y].state # "closed"
    BY <1>0, OpenIs
  <2>3. Once!Above[c] = {d} \cup Once!Above[d]
    BY <1>0, <2>1, AboveIs DEF AboveStep
  <2>4. d \in Once!Above[x]
    BY <2>2, <2>3, AboveComposes
  <2>5. ASSUME NEW y \in {x} \cup Once!Above[x], d \in Once!Above[y]
        PROVE  y = c \/ c \in Once!Above[y]
    <3>1. c \in {x} \cup Once!Above[x] /\ y \in Names
      BY <1>2, <2>2
    <3>2. y = c \/ c \in Once!Above[y] \/ y \in Once!Above[c]
      BY <2>2, <3>1, AboveIsALine
    <3>3. y \notin Once!Above[c]
      BY <1>0, <1>1, <1>2, <2>3, <2>5
    <3>4. QED
      BY <3>2, <3>3
  <2>6. \A y \in {x} \cup Once!Above[x] : d \in Once!Above[y] => ~Tree[y].skipped
    BY <2>1, <2>2, <2>5
  <2>7. \A y \in Once!Above[x] : y = d \/ d \in Once!Above[y] => Tree[y].state # "closed"
    BY <1>5, <2>2, <2>5
  <2>8. QED
    BY <2>2, <2>4, <2>6, <2>7, OpenIs
<1>6. QED
  BY <1>3, <1>4, <1>5

\* What is open from a directory stays before the next directory beside it.
LEMMA OpenIsTogether ==
  ASSUME NEW d \in Directories
  PROVE  /\ \A x \in Once!Open(d) : x \in Directories /\ d <= x
         /\ \A b, c \in Subdirectories(d) : b < c =>
              \A x \in Once!Open(b) : \A y \in Once!Open(c) : x < y
<1>0. d \in Names /\ Directories \subseteq Names /\ Names \subseteq Int
  BY NamesAssumption DEF Directories
<1>1. \A e \in Directories : \A x \in Once!Open(e) :
        x \in Directories /\ (x = e \/ e \in Once!Above[x]) /\ e <= x
  <2>1. ASSUME NEW e \in Directories, NEW x \in Once!Open(e)
        PROVE  x \in Directories /\ (x = e \/ e \in Once!Above[x]) /\ e <= x
    <3>1. x \in Directories /\ (x = e \/ e \in Once!Above[x])
      BY OpenIs
    <3>2. x \in Int /\ e \in Int /\ x \in Names
      BY <1>0, <3>1
    <3>3. e \in Once!Above[x] => e < x
      BY <3>2, AboveIsBefore
    <3>4. QED
      BY <3>1, <3>2, <3>3
  <2>2. QED
    BY <2>1
<1>2. ASSUME NEW b \in Subdirectories(d), NEW c \in Subdirectories(d), b < c,
             NEW x \in Once!Open(b), NEW y \in Once!Open(c)
      PROVE  x < y
  <2>1. /\ b \in Directories /\ c \in Directories /\ b \in Names /\ c \in Names
        /\ Tree[c].under = d /\ d < b
    BY <1>0, SubdirectoriesAreBelow
  <2>2. b \notin Once!Above[c]
    <3>1. Once!Above[c] = {d} \cup Once!Above[d]
      BY <1>0, <2>1, AboveIs DEF AboveStep
    <3>2. \A z \in Once!Above[d] : z < d /\ z \in Int
      BY <1>0, AboveIsBefore
    <3>3. b \in Int /\ d \in Int
      BY <1>0, <2>1
    <3>4. QED
      BY <2>1, <3>1, <3>2, <3>3
  <2>3. x \in Names /\ (x = b \/ b \in Once!Above[x]) /\ c <= y
    BY <1>0, <1>1, <2>1
  <2>4. ~(c <= x)
    <3>1. SUFFICES ASSUME c <= x
                   PROVE  FALSE
      OBVIOUS
    <3>2. b \in Int /\ c \in Int /\ x \in Int
      BY <1>0, <2>1, <2>3
    <3>3. x # b /\ b \in Once!Above[x]
      BY <1>2, <2>3, <3>1, <3>2
    <3>4. x # c
      BY <2>2, <3>3
    <3>5. b < c /\ c < x
      BY <1>2, <3>1, <3>2, <3>4
    <3>6. b \in Once!Above[c]
      BY <2>1, <2>3, <3>3, <3>5, BelowIsTogether
    <3>7. QED
      BY <2>2, <3>6
  <2>5. x \in Int /\ c \in Int /\ y \in Int
    BY <1>0, <1>1, <2>1, <2>3
  <2>6. QED
    BY <2>3, <2>4, <2>5
<1>3. QED
  BY <1>1, <1>2

-----------------------------------------------------------------------------
(* The walk *)

Visited(dir) == IF Tree[dir].state = "closed" THEN <<>> ELSE Ordered(Subdirectories(dir))

WalkStep(walked, dir) ==
  [files    |-> (IF Tree[dir].state = "closed" THEN {} ELSE Sources(dir))
                  \cup UNION {walked[Visited(dir)[i]].files : i \in 1..Len(Visited(dir))},
   problems |-> Problems(dir)
                  \o FlattenSeq([i \in 1..Len(Visited(dir)) |-> walked[Visited(dir)[i]].problems])]

LEMMA VisitedInOrder ==
  ASSUME NEW d \in Directories
  PROVE  /\ Len(Visited(d)) \in Nat
         /\ \A i \in 1..Len(Visited(d)) : Visited(d)[i] \in Subdirectories(d)
         /\ \A i, j \in 1..Len(Visited(d)) : i < j => Visited(d)[i] < Visited(d)[j]
         /\ Tree[d].state # "closed" =>
              \A c \in Subdirectories(d) : \E i \in 1..Len(Visited(d)) : Visited(d)[i] = c
         /\ Tree[d].state = "closed" => Visited(d) = <<>>
<1>1. d \in Names
  BY DEF Directories
<1>2. Subdirectories(d) \subseteq Int /\ IsFiniteSet(Subdirectories(d))
  BY <1>1, SubdirectoriesAreBelow
<1> DEFINE s == Ordered(Subdirectories(d))
<1>3. /\ s \in Seq(Subdirectories(d))
      /\ \A i, j \in 1..Len(s) : i < j => s[i] < s[j]
      /\ \A c \in Subdirectories(d) : \E i \in 1..Len(s) : s[i] = c
  BY <1>2, OrderedSorts
<1> HIDE DEF s
<1>4. /\ Len(s) \in Nat /\ \A i \in 1..Len(s) : s[i] \in Subdirectories(d)
  BY <1>3
<1>5. CASE Tree[d].state = "closed"
  <2>1. Visited(d) = <<>>
    BY <1>5 DEF Visited
  <2>2. QED
    BY <1>5, <2>1
<1>6. CASE Tree[d].state # "closed"
  <2>1. Visited(d) = s
    BY <1>6 DEF Visited, s
  <2>2. QED
    BY <1>3, <1>4, <1>6, <2>1
<1>7. QED
  BY <1>5, <1>6

\* What a directory gives depends on what those it leads to give.
LEMMA WalkIsLocal ==
  ASSUME NEW d \in Directories, NEW f, NEW g, \A c \in Subdirectories(d) : f[c] = g[c]
  PROVE  WalkStep(f, d) = WalkStep(g, d)
<1> DEFINE s == Visited(d)
<1>1. \A i \in 1..Len(s) : f[s[i]] = g[s[i]]
  BY VisitedInOrder
<1> HIDE DEF s
<1>2. {f[s[i]].files : i \in 1..Len(s)} = {g[s[i]].files : i \in 1..Len(s)}
  BY <1>1
<1>3. [i \in 1..Len(s) |-> f[s[i]].problems] = [i \in 1..Len(s) |-> g[s[i]].problems]
  BY <1>1
<1>4. QED
  BY <1>2, <1>3 DEF WalkStep, s

LEMMA WalkedIs ==
  \A d \in Directories : Walked[d] = WalkStep(Walked, d)
<1> DEFINE Rec(f, S) == f = [d \in S |-> WalkStep(f, d)]
           From(d) == {x \in Directories : d <= x}
<1>0. Directories \subseteq Names /\ \A x \in Directories : x \in Int
  BY NamesAssumption DEF Directories
<1>1. ASSUME NEW d \in Directories
      PROVE  \E f : Rec(f, From(d))
  <2> DEFINE T == {x \in Directories : ~\E f : Rec(f, From(x))}
  <2>1. SUFFICES ASSUME T # {}
                 PROVE  FALSE
    OBVIOUS
  <2>2. PICK m : Greatest(T, m)
    <3>1. T \subseteq Names
      BY <1>0
    <3>2. QED
      BY <2>1, <3>1, NamesEnd
  <2>3. m \in Directories /\ m \in Int
    BY <1>0, <2>2 DEF Greatest
  <2> DEFINE S == {x \in Directories : m < x}
  <2>4. \E g : Rec(g, S)
    <3>1. CASE S = {}
      <4>1. Rec([x \in S |-> {}], S)
        BY <3>1
      <4>2. QED
        BY <4>1
    <3>2. CASE S # {}
      <4>1. PICK x : Least(S, x)
        <5>1. S \subseteq Names
          BY <1>0
        <5>2. QED
          BY <3>2, <5>1, NamesEnd
      <4>2. x \in Directories /\ m < x /\ x \in Int
        BY <1>0, <4>1 DEF Least
      <4>3. x \notin T
        BY <2>2, <2>3, <4>2 DEF Greatest
      <4>4. From(x) = S
        <5>1. ASSUME NEW p \in Directories
              PROVE  x <= p <=> m < p
          <6>1. m < p => x <= p
            BY <4>1 DEF Least
          <6>2. p \in Int
            BY <1>0
          <6>3. QED
            BY <2>3, <4>2, <6>1, <6>2
        <5>2. QED
          BY <5>1
      <4>5. QED
        BY <4>2, <4>3, <4>4
    <3>3. QED
      BY <3>1, <3>2
  <2>5. PICK g : Rec(g, S)
    BY <2>4
  <2> DEFINE f == [x \in From(m) |-> WalkStep(g, x)]
  <2>6. \A x \in S : f[x] = g[x]
    <3>1. \A x \in S : x \in From(m)
      BY <1>0, <2>3
    <3>2. \A x \in S : g[x] = WalkStep(g, x)
      BY <2>5
    <3>3. \A x \in From(m) : f[x] = WalkStep(g, x)
      OBVIOUS
    <3>4. QED
      BY <3>1, <3>2, <3>3
  <2>7. ASSUME NEW x \in From(m)
        PROVE  WalkStep(f, x) = WalkStep(g, x)
    <3>1. \A c \in Subdirectories(x) : c \in S
      <4>1. SUFFICES ASSUME NEW c \in Subdirectories(x)
                     PROVE  c \in Directories /\ m < c
        OBVIOUS
      <4>2. c \in Directories /\ x < c
        BY <1>0, SubdirectoriesAreBelow
      <4>3. c \in Int /\ x \in Int /\ m <= x
        BY <1>0, <4>2
      <4>4. QED
        BY <2>3, <4>2, <4>3
    <3>2. x \in Directories
      OBVIOUS
    <3> HIDE DEF f, S
    <3>3. QED
      BY <2>6, <3>1, <3>2, WalkIsLocal
  <2>8. Rec(f, From(m))
    <3>1. f = [x \in From(m) |-> WalkStep(g, x)]
      OBVIOUS
    <3> HIDE DEF f, From
    <3>2. QED
      BY <2>7, <3>1
  <2>9. QED
    BY <2>2, <2>8 DEF Greatest
<1>2. \E f : Rec(f, Directories)
  <2>1. CASE Directories = {}
    <3>1. Rec([d \in Directories |-> {}], Directories)
      BY <2>1
    <3>2. QED
      BY <3>1
  <2>2. CASE Directories # {}
    <3>1. PICK d : Least(Directories, d)
      BY <1>0, <2>2, NamesEnd
    <3>2. From(d) = Directories /\ d \in Directories
      BY <3>1 DEF Least
    <3>3. QED
      BY <1>1, <3>2
  <2>3. QED
    BY <2>1, <2>2
<1>3. Walked = CHOOSE f : Rec(f, Directories)
  BY DEF Walked, WalkStep, Visited
<1>4. Rec(Walked, Directories)
  BY <1>2, <1>3
<1>5. QED
  BY <1>4

\* What there is to find below a directory.
FilesIn(d) ==
  {f \in Names : /\ Tree[f].kind \notin {"dir", "link"} /\ Tree[f].rust
                 /\ \E e \in Once!Open(d) : Tree[f].under = e /\ Tree[e].state # "closed"}

HolesIn(d) == {e \in Once!Open(d) : Tree[e].state # "whole"}

LEMMA HolesAreNames ==
  ASSUME NEW d
  PROVE  HolesIn(d) \subseteq Int /\ IsFiniteSet(HolesIn(d))
<1>1. HolesIn(d) \in SUBSET Names
  BY OpenIs DEF HolesIn, Directories
<1>2. QED
  BY <1>1, NamesAssumption, FS_Subset

\* A directory's own hole comes before those below it.
LEMMA ProblemsComeFirst ==
  ASSUME NEW d \in Directories
  PROVE  Problems(d) \o FlattenSeq([i \in 1..Len(Visited(d)) |-> Ordered(HolesIn(Visited(d)[i]))])
           = Ordered(HolesIn(d))
<1> DEFINE s == Visited(d)
           H == [i \in 1..Len(s) |-> HolesIn(s[i])]
           own == {e \in {d} : Tree[e].state # "whole"}
           below == UNION {H[i] : i \in 1..Len(s)}
<1>0. d \in Names /\ d \in Int
  BY NamesAssumption DEF Directories
<1>1. /\ Len(s) \in Nat
      /\ \A i \in 1..Len(s) : s[i] \in Subdirectories(d)
      /\ \A i, j \in 1..Len(s) : i < j => s[i] < s[j]
      /\ Tree[d].state # "closed" =>
           \A c \in Subdirectories(d) : \E i \in 1..Len(s) : s[i] = c
      /\ Tree[d].state = "closed" => s = <<>>
  BY VisitedInOrder
<1> HIDE DEF s
<1>2. \A i \in 1..Len(s) : H[i] = HolesIn(s[i])
  OBVIOUS
<1>3. Problems(d) = Ordered(own) /\ own \subseteq Int /\ IsFiniteSet(own)
  <2>1. CASE Tree[d].state = "whole"
    <3>1. own = {}
      BY <2>1
    <3> HIDE DEF own
    <3>2. QED
      BY <2>1, <3>1, OrderOfFew, FS_EmptySet DEF Problems
  <2>2. CASE Tree[d].state # "whole"
    <3>1. own = {d}
      BY <2>2
    <3> HIDE DEF own
    <3>2. QED
      BY <1>0, <2>2, <3>1, OrderOfFew, FS_Singleton DEF Problems
  <2>3. QED
    BY <2>1, <2>2
<1>4. [i \in 1..Len(s) |-> Ordered(HolesIn(s[i]))] = [i \in 1..Len(s) |-> Ordered(H[i])]
  <2>1. \A i \in 1..Len(s) : Ordered(HolesIn(s[i])) = Ordered(H[i])
    BY <1>2
  <2> HIDE DEF H
  <2>2. QED
    BY <2>1
<1>5. FlattenSeq([i \in 1..Len(s) |-> Ordered(H[i])]) = Ordered(below)
  <2> DEFINE n == Len(s)
  <2>1. n \in Nat
    BY <1>1
  <2>2. \A i \in 1..n : H[i] \subseteq Int /\ IsFiniteSet(H[i])
    BY <1>2, HolesAreNames
  <2>3. \A i, j \in 1..n : i < j => \A a \in H[i] : \A b \in H[j] : a < b
    BY <1>1, <1>2, OpenIsTogether DEF HolesIn
  <2> HIDE DEF H, n
  <2>4. FlattenSeq([i \in 1..n |-> Ordered(H[i])]) = Ordered(UNION {H[i] : i \in 1..n})
    BY <2>1, <2>2, <2>3, OrdersFlatten
  <2>5. QED
    BY <2>4 DEF n
<1>6. HolesIn(d) = own \cup below
  <2>1. CASE Tree[d].state = "closed"
    <3>1. below = {}
      BY <1>1, <2>1
    <3>2. Once!Open(d) = {d}
      BY <2>1, OpenFromBelow
    <3>3. QED
      BY <3>1, <3>2 DEF HolesIn
  <2>2. CASE Tree[d].state # "closed"
    <3>1. Once!Open(d) = {d} \cup UNION {Once!Open(c) : c \in Subdirectories(d)}
      BY <2>2, OpenFromBelow
    <3>2. \A e : e \in below <=> \E i \in 1..Len(s) : e \in HolesIn(s[i])
      BY <1>2
    <3>3. \A e : (\E i \in 1..Len(s) : e \in HolesIn(s[i]))
                   <=> \E c \in Subdirectories(d) : e \in HolesIn(c)
      BY <1>1, <2>2
    <3>4. \A e : e \in HolesIn(d) <=> e \in own \/ \E c \in Subdirectories(d) : e \in HolesIn(c)
      BY <3>1 DEF HolesIn
    <3> HIDE DEF own, below
    <3>5. QED
      BY <3>2, <3>3, <3>4
  <2>3. QED
    BY <2>1, <2>2
<1>7. below \subseteq Int /\ IsFiniteSet(below)
  <2>1. below \in SUBSET HolesIn(d)
    BY <1>6
  <2> HIDE DEF below
  <2>2. QED
    BY <2>1, HolesAreNames, FS_Subset
<1>8. \A a \in own : \A b \in below : a < b
  <2>1. SUFFICES ASSUME NEW i \in 1..Len(s), NEW b \in H[i]
                 PROVE  d < b
    OBVIOUS
  <2>2. s[i] \in Directories /\ d < s[i] /\ b \in Once!Open(s[i])
    BY <1>0, <1>1, <1>2, SubdirectoriesAreBelow DEF HolesIn
  <2>3. s[i] <= b /\ b \in Directories
    BY <2>2, OpenIsTogether
  <2>4. s[i] \in Int /\ b \in Int
    BY <2>2, <2>3, NamesAssumption DEF Directories
  <2>5. QED
    BY <1>0, <2>2, <2>3, <2>4
<1> HIDE DEF own, below
<1>9. Ordered(own) \o Ordered(below) = Ordered(own \cup below)
  BY <1>3, <1>7, <1>8, OrdersJoin
<1> HIDE DEF H
<1>10. QED
  BY <1>3, <1>4, <1>5, <1>6, <1>9 DEF s

LEMMA FilesComeFromBelow ==
  ASSUME NEW d \in Directories
  PROVE  FilesIn(d) = (IF Tree[d].state = "closed" THEN {} ELSE Sources(d))
                        \cup UNION {FilesIn(Visited(d)[i]) : i \in 1..Len(Visited(d))}
<1> DEFINE s == Visited(d)
<1>1. /\ \A i \in 1..Len(s) : s[i] \in Subdirectories(d)
      /\ Tree[d].state # "closed" =>
           \A c \in Subdirectories(d) : \E i \in 1..Len(s) : s[i] = c
      /\ Tree[d].state = "closed" => s = <<>>
  BY VisitedInOrder
<1> HIDE DEF s
<1>2. CASE Tree[d].state = "closed"
  <2>1. Once!Open(d) = {d}
    BY <1>2, OpenFromBelow
  <2>2. FilesIn(d) = {}
    BY <1>2, <2>1 DEF FilesIn
  <2>3. UNION {FilesIn(s[i]) : i \in 1..Len(s)} = {}
    BY <1>1, <1>2
  <2>4. QED
    BY <1>2, <2>2, <2>3 DEF s
<1>3. CASE Tree[d].state # "closed"
  <2>1. Once!Open(d) = {d} \cup UNION {Once!Open(c) : c \in Subdirectories(d)}
    BY <1>3, OpenFromBelow
  <2>2. Sources(d) = {f \in Names : /\ Tree[f].kind \notin {"dir", "link"} /\ Tree[f].rust
                                    /\ Tree[f].under = d}
    BY TreeAssumption DEF Sources, Entries
  <2>3. \A f : f \in FilesIn(d) <=> f \in Sources(d) \/ \E c \in Subdirectories(d) : f \in FilesIn(c)
    BY <1>3, <2>1, <2>2 DEF FilesIn
  <2>4. \A f : (\E c \in Subdirectories(d) : f \in FilesIn(c))
                 <=> \E i \in 1..Len(s) : f \in FilesIn(s[i])
    BY <1>1, <1>3
  <2>5. QED
    BY <1>3, <2>3, <2>4 DEF s
<1>4. QED
  BY <1>2, <1>3

\* The walk of a directory finds what there is, in the order of the names.
LEMMA WalkFindsAll ==
  \A d \in Directories :
    Walked[d].files = FilesIn(d) /\ Walked[d].problems = Ordered(HolesIn(d))
<1> DEFINE Right(d) == Walked[d].files = FilesIn(d) /\ Walked[d].problems = Ordered(HolesIn(d))
           T == {d \in Directories : ~Right(d)}
<1>1. SUFFICES ASSUME T # {}
               PROVE  FALSE
  OBVIOUS
<1>2. PICK d : Greatest(T, d)
  <2>1. T \subseteq Names
    BY DEF Directories
  <2>2. QED
    BY <1>1, <2>1, NamesEnd
<1>3. d \in Directories /\ ~Right(d) /\ d \in Names /\ \A x \in Names : x \in Int
  BY <1>2, NamesAssumption DEF Greatest, Directories
<1>4. ASSUME NEW c \in Subdirectories(d)
      PROVE  Right(c)
  <2>1. c \in Directories /\ c \in Names /\ d < c
    BY <1>3, SubdirectoriesAreBelow DEF Directories
  <2>2. ~(c <= d)
    BY <1>3, <2>1
  <2>3. QED
    BY <1>2, <2>1, <2>2 DEF Greatest
<1> DEFINE s == Visited(d)
<1>5. \A i \in 1..Len(s) : Walked[s[i]].files = FilesIn(s[i])
                           /\ Walked[s[i]].problems = Ordered(HolesIn(s[i]))
  BY <1>3, <1>4, VisitedInOrder
<1> HIDE DEF s
<1>6. {Walked[s[i]].files : i \in 1..Len(s)} = {FilesIn(s[i]) : i \in 1..Len(s)}
  BY <1>5
<1>7. [i \in 1..Len(s) |-> Walked[s[i]].problems] = [i \in 1..Len(s) |-> Ordered(HolesIn(s[i]))]
  BY <1>5
<1>8. Walked[d] = WalkStep(Walked, d)
  BY <1>3, WalkedIs
<1>9. /\ Walked[d].files = (IF Tree[d].state = "closed" THEN {} ELSE Sources(d))
                             \cup UNION {Walked[s[i]].files : i \in 1..Len(s)}
      /\ Walked[d].problems = Problems(d) \o FlattenSeq([i \in 1..Len(s) |-> Walked[s[i]].problems])
  BY <1>8 DEF WalkStep, s
<1>10. Walked[d].files = FilesIn(d)
  BY <1>3, <1>6, <1>9, FilesComeFromBelow DEF s
<1>11. Walked[d].problems = Ordered(HolesIn(d))
  BY <1>3, <1>7, <1>9, ProblemsComeFirst DEF s
<1>12. QED
  BY <1>3, <1>10, <1>11


-----------------------------------------------------------------------------
(* What a request comes to *)

\* From what is not a directory nothing is open.
LEMMA OnlyDirectoriesOpen ==
  ASSUME NEW p, p \notin Directories
  PROVE  Once!Open(p) = {}
<1>1. SUFFICES ASSUME NEW x \in Once!Open(p)
               PROVE  FALSE
  OBVIOUS
<1>2. x \in Directories /\ p \in Once!Above[x]
  BY OpenIs
<1>3. x \in Names
  BY <1>2 DEF Directories
<1>4. QED
  BY <1>2, <1>3, AboveIsBefore

\* A path gives every file and every hole there is from it.
LEMMA CollectFinds ==
  ASSUME NEW p \in Int
  PROVE  /\ Collect(p).files = Once!FilesUnder(p)
         /\ Collect(p).problems = Ordered(Once!HolesUnder(p))
         /\ Once!FilesUnder(p) \subseteq Names
<1> DEFINE open  == Once!Open(p)
           blind == {q \in {p} : q \notin Names \/ Tree[q].kind \in {"link", "other"}}
           named == p \in Names /\ Tree[p].kind = "file"
           found == {f \in Names : /\ Tree[f].kind \notin {"dir", "link"} /\ Tree[f].rust
                                   /\ \E d \in open : Tree[f].under = d /\ Tree[d].state # "closed"}
<1>1. /\ named => Once!FilesUnder(p) = {p}
      /\ ~named => Once!FilesUnder(p) = found
      /\ Once!HolesUnder(p) = {d \in open : Tree[d].state # "whole"} \cup blind
  BY Same DEF Once!FilesUnder, Once!HolesUnder
<1>2. Once!FilesUnder(p) \subseteq Names
  BY <1>1
<1>3. Ordered({}) = <<>> /\ Ordered({p}) = <<p>>
  BY OrderOfFew
<1>4. CASE p \in Directories
  <2>1. p \in Names /\ Tree[p].kind = "dir"
    BY <1>4 DEF Directories
  <2>2. blind = {} /\ ~named
    BY <2>1
  <2>3. found = FilesIn(p) /\ HolesIn(p) = {d \in open : Tree[d].state # "whole"}
    BY DEF FilesIn, HolesIn
  <2>4. Collect(p) = Walked[p]
    BY <1>4, <2>1 DEF Collect
  <2> HIDE DEF open, blind, named, found
  <2>5. Once!FilesUnder(p) = FilesIn(p) /\ Once!HolesUnder(p) = HolesIn(p)
    BY <1>1, <2>2, <2>3
  <2>6. QED
    BY <1>2, <1>4, <2>4, <2>5, WalkFindsAll
<1>5. CASE p \notin Directories
  <2>1. open = {} /\ found = {}
    BY <1>5, OnlyDirectoriesOpen
  <2>2. Once!HolesUnder(p) = blind
    BY <1>1, <2>1
  <2>3. CASE p \notin Names
    <3>1. Collect(p) = [files |-> {}, problems |-> <<p>>]
      BY <1>5, <2>3 DEF Collect
    <3>2. blind = {p} /\ ~named
      BY <2>3
    <3> HIDE DEF open, blind, named, found
    <3>3. QED
      BY <1>1, <1>2, <1>3, <2>1, <2>2, <3>1, <3>2
  <2>4. CASE p \in Names /\ Tree[p].kind = "file"
    <3>1. Collect(p) = [files |-> {p}, problems |-> <<>>]
      BY <1>5, <2>4 DEF Collect
    <3>2. Once!FilesUnder(p) = {p}
      BY <1>1, <2>4
    <3>3. Once!HolesUnder(p) = {}
      BY <2>2, <2>4
    <3>4. QED
      BY <1>2, <1>3, <3>1, <3>2, <3>3
  <2>5. CASE p \in Names /\ Tree[p].kind \in {"link", "other"}
    <3>1. Collect(p) = [files |-> {}, problems |-> <<p>>]
      BY <1>5, <2>5 DEF Collect
    <3>2. blind = {p} /\ ~named
      BY <2>5
    <3> HIDE DEF open, blind, named, found
    <3>3. QED
      BY <1>1, <1>2, <1>3, <2>1, <2>2, <3>1, <3>2
  <2>6. QED
    BY <1>5, <2>3, <2>4, <2>5, TreeAssumption DEF Directories
<1>6. QED
  BY <1>4, <1>5

\* The walk misses nothing: the names a request comes to are every file there is
\* in reach of its paths, and the holes it meets, in order, every directory in
\* reach that could not be read and every path that is nothing to walk.
THEOREM RequestFinds ==
  ASSUME NEW paths \in Seq(Int)
  PROVE  /\ FoundBy(paths) = UNION {Once!FilesUnder(paths[i]) : i \in 1..Len(paths)}
         /\ FoundBy(paths) \subseteq Names
         /\ SkippedBy(paths) =
              Once!FlattenSeq([i \in 1..Len(paths) |-> Once!Ordered(Once!HolesUnder(paths[i]))])
<1>1. \A i \in 1..Len(paths) :
        /\ Collect(paths[i]).files = Once!FilesUnder(paths[i])
        /\ Collect(paths[i]).problems = Once!Ordered(Once!HolesUnder(paths[i]))
        /\ Once!FilesUnder(paths[i]) \subseteq Names
  <2>1. \A i \in 1..Len(paths) : paths[i] \in Int
    OBVIOUS
  <2>2. QED
    BY <2>1, CollectFinds, Same
<1>2. FoundBy(paths) = UNION {Once!FilesUnder(paths[i]) : i \in 1..Len(paths)}
  BY <1>1 DEF FoundBy
<1>3. FoundBy(paths) \subseteq Names
  BY <1>1, <1>2
<1>4. [i \in 1..Len(paths) |-> Collect(paths[i]).problems]
        = [i \in 1..Len(paths) |-> Once!Ordered(Once!HolesUnder(paths[i]))]
  BY <1>1
<1>5. \A s : Once!FlattenSeq(s) = FlattenSeq(s)
  BY DEF Once!FlattenSeq, FlattenSeq
<1>6. QED
  BY <1>2, <1>3, <1>4, <1>5 DEF SkippedBy

-----------------------------------------------------------------------------
(* The pool *)

LEMMA FilesFound ==
  ASSUME request \in Requests
  PROVE  Ordered(FoundBy(request.paths)) \in Seq(Names)
<1>1. FoundBy(request.paths) \subseteq Names
  BY RequestsAssumption, RequestFinds
<1>2. Ordered(FoundBy(request.paths)) \in Seq(FoundBy(request.paths))
  BY <1>1, NamesAssumption, FS_Subset, OrderedSorts
<1>3. QED
  BY <1>1, <1>2

LEMMA InitIInv == Init => IInv
<1> SUFFICES ASSUME Init
             PROVE  IInv
  OBVIOUS
<1>1. TypeOK
  BY MaxJobsAssumption DEF Init, TypeOK
<1>2. \A w \in Threads : Held(w) = {}
  BY DEF Init, Held
<1>3. Pushed = {}
  BY DEF Init, Pushed
<1>4. EachFileClaimedOnce
  BY <1>2, <1>3 DEF Init, EachFileClaimedOnce
<1>5. EveryFileIsReached /\ Stages
  BY <1>2 DEF Init, EveryFileIsReached, Stages
<1>6. QED
  BY <1>1, <1>4, <1>5 DEF IInv

\* A step that leaves the counter, the threads and what they pushed alone
\* keeps every claim where it was.
LEMMA SameClaims ==
  ASSUME EachFileClaimedOnce, UNCHANGED <<files, next, pc, claimed, outcomes>>
  PROVE  /\ EachFileClaimedOnce'
         /\ \A w \in Threads : Held(w)' = Held(w)
<1>1. \A w \in Threads : Held(w)' = Held(w)
  BY DEF Held
<1>2. Pushed' = Pushed
  BY DEF Pushed
<1>3. QED
  BY <1>1, <1>2 DEF EachFileClaimedOnce

LEMMA WalkIInv == IInv /\ Walk => IInv'
<1> SUFFICES ASSUME IInv, Walk
             PROVE  IInv'
  OBVIOUS
<1>1. phase = "walk" /\ next = 1 /\ outcomes = <<>>
  BY DEF Walk, IInv, Stages
<1>2. files' \in Seq(Names)
  BY FilesFound DEF Walk, IInv, TypeOK
<1>3. /\ request' = request /\ next' = 1 /\ outcomes' = <<>>
      /\ claimed' = claimed /\ result' = result
      /\ phase' \in {"join", "scan"}
  BY <1>1 DEF Walk
<1>4. pc' \in [Threads -> {"idle", "claim"}]
  BY DEF Walk
<1>5. TypeOK'
  BY <1>2, <1>3, <1>4 DEF IInv, TypeOK
<1>6. \A w \in Threads : Held(w)' = {}
  BY <1>4 DEF Held
<1>7. Pushed' = {}
  BY <1>3 DEF Pushed
<1>8. EachFileClaimedOnce'
  BY <1>2, <1>3, <1>6, <1>7 DEF EachFileClaimedOnce
<1>9. EveryFileIsReached'
  BY <1>3 DEF EveryFileIsReached
<1>10. phase' = "scan" => \A w \in Threads : pc'[w] = "idle"
  BY DEF Walk
<1>11. phase' = "join" => pc'[1] = "claim" /\ 1 \in Threads
  <2> DEFINE n    == Len(Ordered(FoundBy(request.paths)))
             jobs == Jobs(request.jobs, n)
  <2>1. n \in Nat
    BY FilesFound DEF IInv, TypeOK
  <2>2. request.jobs \in Int
    BY RequestsAssumption, MaxJobsAssumption DEF IInv, TypeOK
  <2>3. jobs \in Int
    BY <2>1, <2>2 DEF Jobs, Clamp
  <2>4. 1 \in Threads
    BY MaxJobsAssumption
  <2>5. /\ phase' = IF jobs > 1 THEN "join" ELSE "scan"
        /\ pc'[1] = IF jobs > 1 /\ 1 <= jobs THEN "claim" ELSE "idle"
    BY <2>4 DEF Walk
  <2> HIDE DEF jobs
  <2>6. QED
    BY <2>3, <2>4, <2>5
<1>12. Stages'
  BY <1>3, <1>4, <1>6, <1>10, <1>11 DEF Stages
<1>13. QED
  BY <1>5, <1>8, <1>9, <1>12 DEF IInv

LEMMA JoinIInv == IInv /\ Join => IInv'
<1> SUFFICES ASSUME IInv, Join
             PROVE  IInv'
  OBVIOUS
<1>1. UNCHANGED <<files, next, pc, claimed, outcomes>>
  BY DEF Join
<1>2. TypeOK'
  BY DEF Join, IInv, TypeOK
<1>3. EachFileClaimedOnce' /\ \A w \in Threads : Held(w)' = Held(w)
  BY <1>1, SameClaims DEF IInv
<1>4. EveryFileIsReached'
  BY DEF Join, IInv, Stages, EveryFileIsReached
<1>5. Stages'
  BY <1>3 DEF Join, IInv, Stages
<1>6. QED
  BY <1>2, <1>3, <1>4, <1>5 DEF IInv

LEMMA MergeIInv == IInv /\ Merge => IInv'
<1> SUFFICES ASSUME IInv, Merge
             PROVE  IInv'
  OBVIOUS
<1>1. UNCHANGED <<files, next, pc, claimed, outcomes>>
  BY DEF Merge
<1>2. TypeOK'
  BY DEF Merge, IInv, TypeOK
<1>3. EachFileClaimedOnce' /\ \A w \in Threads : Held(w)' = Held(w)
  BY <1>1, SameClaims DEF IInv
<1>4. EveryFileIsReached'
  BY DEF Merge, IInv, EveryFileIsReached
<1>5. Stages'
  BY <1>3 DEF Merge, IInv, Stages
<1>6. QED
  BY <1>2, <1>3, <1>4, <1>5 DEF IInv

\* What pushing the outcome of an index does to the indexes pushed.
LEMMA PushedGrows ==
  ASSUME TypeOK, EachFileClaimedOnce, NEW i \in 1..Len(files), i \notin Pushed,
         files' = files, outcomes' = Append(outcomes, Outcome(i))
  PROVE  /\ outcomes' \in Seq([index : 1..Len(files'), kind : Results])
         /\ Pushed' = Pushed \cup {i}
         /\ \A k, l \in 1..Len(outcomes') :
              outcomes'[k].index = outcomes'[l].index => k = l
<1>1. files[i] \in Names
  BY DEF TypeOK
<1>2. Outcome(i) \in [index : 1..Len(files), kind : Results] /\ Outcome(i).index = i
  BY <1>1, AnalysisAssumption DEF Outcome
<1>3. outcomes \in Seq([index : 1..Len(files), kind : Results])
  BY DEF TypeOK
<1>4. /\ outcomes' \in Seq([index : 1..Len(files'), kind : Results])
      /\ Len(outcomes') = Len(outcomes) + 1
      /\ \A k \in 1..Len(outcomes) : outcomes'[k] = outcomes[k]
      /\ outcomes'[Len(outcomes) + 1] = Outcome(i)
  BY <1>2, <1>3
<1>5. Len(outcomes) \in Nat
  BY <1>3
<1>6. Pushed' = Pushed \cup {i}
  BY <1>2, <1>4, <1>5 DEF Pushed
<1>7. \A k \in 1..Len(outcomes) : outcomes'[k].index # i
  BY <1>4 DEF Pushed
<1>8. \A k \in 1..Len(outcomes') : k \in 1..Len(outcomes) \/ k = Len(outcomes) + 1
  BY <1>4, <1>5
<1>9. \A k, l \in 1..Len(outcomes) :
        outcomes'[k].index = outcomes'[l].index => k = l
  BY <1>4 DEF EachFileClaimedOnce
<1>10. outcomes'[Len(outcomes) + 1].index = i
  BY <1>2, <1>4
<1>11. \A k, l \in 1..Len(outcomes') :
         outcomes'[k].index = outcomes'[l].index => k = l
  BY <1>7, <1>8, <1>9, <1>10
<1>12. QED
  BY <1>4, <1>6, <1>11

LEMMA ScanIInv == IInv /\ Scan => IInv'
<1> SUFFICES ASSUME IInv, Scan
             PROVE  IInv'
  OBVIOUS
<1>1. Len(files) \in Nat /\ next \in Nat \ {0} /\ phase = "scan"
  BY DEF Scan, IInv, TypeOK
<1>2. \A w \in Threads : pc[w] = "idle"
  BY <1>1 DEF IInv, Stages
<1>3. UNCHANGED <<request, files, problems, pc, claimed>>
  BY DEF Scan
<1>4. CASE UNCHANGED <<next, outcomes>>
  <2>1. TypeOK'
    BY <1>4 DEF Scan, IInv, TypeOK
  <2>2. EachFileClaimedOnce' /\ \A w \in Threads : Held(w)' = Held(w)
    BY <1>3, <1>4, SameClaims DEF IInv
  <2>3. EveryFileIsReached'
    BY <1>1, <1>2, <1>4 DEF Scan, EveryFileIsReached
  <2>4. Stages'
    BY <1>1, <1>2, <1>4, <2>2 DEF Scan, IInv, Stages
  <2>5. QED
    BY <2>1, <2>2, <2>3, <2>4 DEF IInv
<1>5. CASE /\ next \in 1..Len(files)
           /\ outcomes' = Append(outcomes, Outcome(next))
           /\ next' = next + 1
           /\ UNCHANGED <<phase, result>>
  <2>1. \A w \in Threads : Held(w) = {} /\ Held(w)' = {}
    BY <1>2, <1>3 DEF Held
  <2>2. next \notin Pushed
    BY <1>1, <1>5, <2>1 DEF IInv, EachFileClaimedOnce
  <2>3. /\ outcomes' \in Seq([index : 1..Len(files'), kind : Results])
        /\ Pushed' = Pushed \cup {next}
        /\ \A k, l \in 1..Len(outcomes') :
             outcomes'[k].index = outcomes'[l].index => k = l
    BY <1>3, <1>5, <2>2, PushedGrows DEF IInv
  <2>4. TypeOK'
    BY <1>1, <1>3, <1>5, <2>3 DEF IInv, TypeOK
  <2>5. \A i \in 1..Len(files') : i < next' <=> i \in Pushed'
    BY <1>1, <1>3, <1>5, <2>1, <2>3 DEF IInv, EachFileClaimedOnce
  <2>6. EachFileClaimedOnce'
    BY <2>1, <2>3, <2>5 DEF EachFileClaimedOnce
  <2>7. EveryFileIsReached' /\ Stages'
    BY <1>1, <1>2, <1>3, <1>5, <2>1 DEF EveryFileIsReached, Stages
  <2>8. QED
    BY <2>4, <2>6, <2>7 DEF IInv
<1>6. QED
  BY <1>1, <1>4, <1>5 DEF Scan

LEMMA ClaimIInv == ASSUME NEW w \in Threads, IInv, Claim(w)
                   PROVE  IInv'
<1>1. Len(files) \in Nat /\ next \in Nat \ {0} /\ phase = "join"
  BY DEF Claim, IInv, TypeOK
<1>2. /\ UNCHANGED <<request, phase, files, problems, outcomes, result>>
      /\ next' = next + 1
      /\ claimed' = [claimed EXCEPT ![w] = next]
  BY DEF Claim
<1>3. pc[w] = "claim" /\ pc'[w] # "idle"
  BY DEF Claim, IInv, TypeOK
<1>4. TypeOK'
  BY <1>1, <1>2 DEF Claim, IInv, TypeOK
<1>5. /\ Held(w) = {}
      /\ Held(w)' = IF next > Len(files) THEN {} ELSE {next}
      /\ \A v \in Threads \ {w} : Held(v)' = Held(v)
  BY <1>1 DEF Claim, Held, IInv, TypeOK
<1>6. Pushed' = Pushed
  BY <1>2 DEF Pushed
<1>7. next <= Len(files) =>
        next \notin Pushed /\ \A v \in Threads : next \notin Held(v)
  BY <1>1 DEF IInv, EachFileClaimedOnce
<1>8. \A v \in Threads : Held(v) \subseteq 1..Len(files)
  BY DEF IInv, Stages
<1>9. \A u, v \in Threads : u # v => Held(u)' \cap Held(v)' = {}
  <2>1. \A v \in Threads \ {w} : Held(w)' \cap Held(v)' = {}
    BY <1>1, <1>5, <1>7
  <2>2. \A u, v \in Threads \ {w} : u # v => Held(u)' \cap Held(v)' = {}
    BY <1>5 DEF IInv, EachFileClaimedOnce
  <2>3. QED
    BY <2>1, <2>2
<1>10. \A v \in Threads : Held(v)' \cap Pushed' = {}
  <2>1. Held(w)' \cap Pushed' = {}
    BY <1>1, <1>5, <1>6, <1>7
  <2>2. \A v \in Threads \ {w} : Held(v)' \cap Pushed' = {}
    BY <1>5, <1>6 DEF IInv, EachFileClaimedOnce
  <2>3. QED
    BY <2>1, <2>2
<1>11. \A i \in 1..Len(files') :
         i < next' <=> i \in Pushed' \/ \E v \in Threads : i \in Held(v)'
  <2>1. SUFFICES ASSUME NEW i \in 1..Len(files)
                 PROVE  i < next + 1 <=> i \in Pushed \/ \E v \in Threads : i \in Held(v)'
    BY <1>2, <1>6
  <2>2. i < next <=> i \in Pushed \/ \E v \in Threads : i \in Held(v)
    BY DEF IInv, EachFileClaimedOnce
  <2>3. (\E v \in Threads : i \in Held(v)')
          <=> (\E v \in Threads : i \in Held(v)) \/ (i = next /\ next <= Len(files))
    BY <1>1, <1>5
  <2>4. i < next + 1 <=> i < next \/ i = next
    BY <1>1
  <2>5. QED
    BY <1>1, <2>2, <2>3, <2>4
<1>12. EachFileClaimedOnce'
  BY <1>2, <1>9, <1>10, <1>11 DEF IInv, EachFileClaimedOnce
<1>13. EveryFileIsReached'
  BY <1>1, <1>2 DEF EveryFileIsReached
<1>14. Stages'
  <2>1. \A v \in Threads : Held(v)' \subseteq 1..Len(files')
    BY <1>1, <1>2, <1>5, <1>8
  <2>2. \A v \in Threads : pc'[v] = "done" => next' > Len(files')
    BY <1>1, <1>2 DEF Claim, IInv, TypeOK, Stages
  <2>3. QED
    BY <1>1, <1>2, <1>3, <2>1, <2>2 DEF Stages
<1>15. QED
  BY <1>4, <1>12, <1>13, <1>14 DEF IInv

LEMMA AnalyseIInv == ASSUME NEW w \in Threads, IInv, Analyse(w)
                     PROVE  IInv'
<1>1. UNCHANGED <<request, phase, files, problems, next, claimed, outcomes, result>>
  BY DEF Analyse
<1>2. phase = "join" /\ pc[w] = "analyse" /\ pc'[w] \in {"push", "panicked"}
  BY DEF Analyse, IInv, TypeOK
<1>3. TypeOK'
  BY <1>1 DEF Analyse, IInv, TypeOK
<1>4. \A v \in Threads : Held(v)' = Held(v)
  BY DEF Analyse, Held, IInv, TypeOK
<1>5. Pushed' = Pushed
  BY <1>1 DEF Pushed
<1>6. EachFileClaimedOnce'
  BY <1>1, <1>4, <1>5 DEF IInv, EachFileClaimedOnce
<1>7. EveryFileIsReached'
  BY <1>1, <1>2 DEF EveryFileIsReached
<1>8. \A v \in Threads : pc'[v] = "done" => pc[v] = "done"
  BY DEF Analyse, IInv, TypeOK
<1>9. Stages'
  BY <1>1, <1>2, <1>4, <1>8 DEF IInv, Stages
<1>10. QED
  BY <1>3, <1>6, <1>7, <1>9 DEF IInv

LEMMA PushIInv == ASSUME NEW w \in Threads, IInv, Push(w)
                  PROVE  IInv'
<1>1. /\ UNCHANGED <<request, phase, files, problems, next, claimed, result>>
      /\ outcomes' = Append(outcomes, Outcome(claimed[w]))
  BY DEF Push
<1>2. phase = "join" /\ pc[w] = "push" /\ pc'[w] = "claim"
  BY DEF Push, IInv, TypeOK
<1>3. Held(w) = {claimed[w]} /\ claimed[w] \in 1..Len(files)
  BY <1>2 DEF Held, IInv, Stages
<1>4. claimed[w] \notin Pushed /\ \A v \in Threads \ {w} : claimed[w] \notin Held(v)
  BY <1>3 DEF IInv, EachFileClaimedOnce
<1>5. /\ outcomes' \in Seq([index : 1..Len(files'), kind : Results])
      /\ Pushed' = Pushed \cup {claimed[w]}
      /\ \A k, l \in 1..Len(outcomes') :
           outcomes'[k].index = outcomes'[l].index => k = l
  BY <1>1, <1>3, <1>4, PushedGrows DEF IInv
<1>6. TypeOK'
  BY <1>1, <1>5 DEF Push, IInv, TypeOK
<1>7. Held(w)' = {} /\ \A v \in Threads \ {w} : Held(v)' = Held(v)
  BY <1>1 DEF Push, Held, IInv, TypeOK
<1>8. \A v \in Threads : Held(v)' \cap Pushed' = {}
  BY <1>4, <1>5, <1>7 DEF IInv, EachFileClaimedOnce
<1>9. \A u, v \in Threads : u # v => Held(u)' \cap Held(v)' = {}
  BY <1>7 DEF IInv, EachFileClaimedOnce
<1>10. \A i \in 1..Len(files') :
         i < next' <=> i \in Pushed' \/ \E v \in Threads : i \in Held(v)'
  BY <1>1, <1>3, <1>5, <1>7 DEF IInv, EachFileClaimedOnce
<1>11. EachFileClaimedOnce'
  BY <1>5, <1>8, <1>9, <1>10 DEF EachFileClaimedOnce
<1>12. EveryFileIsReached'
  BY <1>1, <1>2 DEF EveryFileIsReached
<1>13. \A v \in Threads : pc'[v] = "done" => pc[v] = "done"
  BY DEF Push, IInv, TypeOK
<1>14. Stages'
  BY <1>1, <1>2, <1>7, <1>13 DEF IInv, Stages
<1>15. QED
  BY <1>6, <1>11, <1>12, <1>14 DEF IInv

\* No step checks a file twice, loses one or lets a thread stop early.
LEMMA NextIInv == IInv /\ [Next]_vars => IInv'
<1> SUFFICES ASSUME IInv, [Next]_vars
             PROVE  IInv'
  OBVIOUS
<1>1. CASE Walk \/ Join \/ Scan \/ Merge
  BY <1>1, WalkIInv, JoinIInv, ScanIInv, MergeIInv
<1>2. CASE \E w \in Threads : Claim(w) \/ Analyse(w) \/ Push(w)
  BY <1>2, ClaimIInv, AnalyseIInv, PushIInv
<1>3. CASE UNCHANGED vars
  <2>1. TypeOK' /\ EveryFileIsReached'
    BY <1>3 DEF vars, IInv, TypeOK, EveryFileIsReached
  <2>2. EachFileClaimedOnce' /\ \A w \in Threads : Held(w)' = Held(w)
    BY <1>3, SameClaims DEF vars, IInv
  <2>3. Stages'
    BY <1>3, <2>2 DEF vars, IInv, Stages
  <2>4. QED
    BY <2>1, <2>2, <2>3 DEF IInv
<1>4. QED
  BY <1>1, <1>2, <1>3 DEF Next

\* The inductive invariant of the pool holds for every tree and any number
\* of threads.
THEOREM PoolInvariant == Spec => []IInv
BY InitIInv, NextIInv, PTL DEF Spec

\* Type correctness of analyze_paths.
THEOREM TypeCorrect == Spec => []TypeOK
<1>1. IInv => TypeOK
  BY DEF IInv
<1>2. QED
  BY <1>1, PoolInvariant, PTL

\* However the threads interleave, each index the counter handed out is with
\* exactly one thread or in exactly one pushed outcome.
THEOREM ClaimsAreUnique == Spec => []EachFileClaimedOnce
<1>1. IInv => EachFileClaimedOnce
  BY DEF IInv
<1>2. QED
  BY <1>1, PoolInvariant, PTL

\* The pool never stops short of the last file unless every thread panicked.
THEOREM ReachesEveryFile == Spec => []EveryFileIsReached
<1>1. IInv => EveryFileIsReached
  BY DEF IInv
<1>2. QED
  BY <1>1, PoolInvariant, PTL

-----------------------------------------------------------------------------
(* The order restored *)

Lower(g, n, l) == Cardinality({k \in 1..n : g[k] < g[l]})

\* g numbers 1..n by all of 1..m.
IsNumbering(g, n, m) ==
  /\ g \in [1..n -> 1..m]
  /\ \A k, l \in 1..n : g[k] = g[l] => k = l
  /\ \A i \in 1..m : \E k \in 1..n : g[k] = i

\* As many numbers below one of 1..n as its predecessor says.
LEMMA RankIsIndex ==
  ASSUME NEW n \in Nat, NEW m \in Nat, NEW g, IsNumbering(g, n, m)
  PROVE  n = m /\ \A l \in 1..n : Lower(g, n, l) = g[l] - 1
<1> USE DEF IsNumbering
<1>1. ASSUME NEW i \in 0..m
      PROVE  Cardinality({k \in 1..n : g[k] <= i}) = i
  <2> DEFINE S == {k \in 1..n : g[k] <= i}
             f == [k \in S |-> g[k]]
  <2>1. S \in SUBSET (1..n) /\ IsFiniteSet(1..n)
    BY FS_Interval
  <2>2. IsFiniteSet(S)
    BY <2>1, FS_Subset
  <2>3. f \in [S -> 1..i] /\ \A a, b \in S : f[a] = f[b] => a = b
    OBVIOUS
  <2>4. \A j \in 1..i : \E k \in S : f[k] = j
    <3>1. SUFFICES ASSUME NEW j \in 1..i
                   PROVE  \E k \in S : f[k] = j
      OBVIOUS
    <3>2. PICK k \in 1..n : g[k] = j
      OBVIOUS
    <3>3. k \in S
      BY <3>2
    <3>4. QED
      BY <3>2, <3>3
  <2> HIDE DEF f, S
  <2>5. f \in Bijection(S, 1..i)
    BY <2>3, <2>4 DEF Bijection, Injection, Surjection, IsInjective
  <2>6. Cardinality(1..i) = Cardinality(S)
    BY <2>2, <2>5, FS_Bijection DEF ExistsBijection
  <2>7. Cardinality(1..i) = i
    BY FS_Interval
  <2>8. QED
    BY <2>6, <2>7 DEF S
<1>2. n = m
  <2>1. {k \in 1..n : g[k] <= m} = 1..n
    OBVIOUS
  <2>2. Cardinality(1..n) = n
    BY FS_Interval
  <2>3. Cardinality({k \in 1..n : g[k] <= m}) = m
    BY <1>1
  <2>4. QED
    BY <2>1, <2>2, <2>3
<1>3. ASSUME NEW l \in 1..n
      PROVE  Lower(g, n, l) = g[l] - 1
  <2>1. g[l] - 1 \in 0..m
    OBVIOUS
  <2>2. {k \in 1..n : g[k] < g[l]} = {k \in 1..n : g[k] <= g[l] - 1}
    OBVIOUS
  <2>3. QED
    BY <1>1, <2>1, <2>2 DEF Lower
<1>4. QED
  BY <1>2, <1>3

\* Outcomes that have each index once are put in the order of the indexes.
LEMMA SortRestores ==
  ASSUME NEW n \in Nat, NEW s, Len(s) \in Nat,
         \A k \in 1..Len(s) : s[k].index \in 1..n,
         \A k, l \in 1..Len(s) : s[k].index = s[l].index => k = l,
         \A i \in 1..n : \E k \in 1..Len(s) : s[k].index = i
  PROVE  /\ Len(SortByIndex(s)) = n
         /\ \A r \in 1..n : /\ SortByIndex(s)[r].index = r
                            /\ \E l \in 1..Len(s) : SortByIndex(s)[r] = s[l]
<1> DEFINE Before(k, l) == s[k].index < s[l].index \/ (s[k].index = s[l].index /\ k < l)
           Rank(l)      == 1 + Cardinality({k \in 1..Len(s) : Before(k, l)})
           g            == [k \in 1..Len(s) |-> s[k].index]
<1>1. Len(s) \in Nat /\ \A k \in 1..Len(s) : s[k].index \in 1..n
  OBVIOUS
<1>2. IsNumbering(g, Len(s), n)
  BY <1>1 DEF IsNumbering
<1>3. \A k \in 1..Len(s) : g[k] = s[k].index
  OBVIOUS
<1>4. \A l \in 1..Len(s) : Rank(l) = 1 + Lower(g, Len(s), l)
  <2>1. \A k, l \in 1..Len(s) : Before(k, l) <=> g[k] < g[l]
    BY <1>1
  <2> HIDE DEF Before, g
  <2>2. \A l \in 1..Len(s) : {k \in 1..Len(s) : Before(k, l)} = {k \in 1..Len(s) : g[k] < g[l]}
    BY <2>1
  <2>3. QED
    BY <2>2 DEF Lower
<1> HIDE DEF g, Rank
<1>5. Len(s) = n /\ \A l \in 1..n : Lower(g, n, l) = g[l] - 1
  BY <1>1, <1>2, RankIsIndex
<1>6. ASSUME NEW l \in 1..n
      PROVE  Rank(l) = s[l].index
  <2>1. l \in 1..Len(s)
    BY <1>5
  <2>2. Rank(l) = 1 + Lower(g, n, l)
    BY <1>4, <1>5, <2>1
  <2>3. Lower(g, n, l) = s[l].index - 1
    BY <1>3, <1>5, <2>1
  <2>4. s[l].index \in Int
    BY <2>1
  <2> HIDE DEF Rank
  <2>5. QED
    BY <2>2, <2>3, <2>4
<1>7. SortByIndex(s) = [r \in 1..Len(s) |-> s[CHOOSE l \in 1..Len(s) : Rank(l) = r]]
  BY DEF SortByIndex, Rank
<1>8. ASSUME NEW r \in 1..n
      PROVE  \E l \in 1..Len(s) : SortByIndex(s)[r] = s[l] /\ s[l].index = r
  <2>1. \E l \in 1..Len(s) : Rank(l) = r
    <3>1. PICK k \in 1..Len(s) : s[k].index = r
      OBVIOUS
    <3>2. Rank(k) = r
      BY <1>5, <1>6, <3>1
    <3>3. QED
      BY <3>2
  <2> DEFINE l == CHOOSE l \in 1..Len(s) : Rank(l) = r
  <2>2. l \in 1..Len(s) /\ Rank(l) = r
    BY <2>1
  <2>3. SortByIndex(s)[r] = s[l]
    BY <1>5, <1>7
  <2> HIDE DEF l
  <2>4. QED
    BY <1>5, <1>6, <2>2, <2>3
<1>9. Len(SortByIndex(s)) = n
  BY <1>5, <1>7
<1>10. QED
  BY <1>8, <1>9

-----------------------------------------------------------------------------
(* The answer *)

LEMMA TheFiles ==
  ASSUME IInv, AnswerSoFar, phase # "walk"
  PROVE  /\ FoundBy(request.paths) \subseteq Names
         /\ Len(files) \in Nat /\ \A i \in 1..Len(files) : files[i] \in FoundBy(request.paths)
         /\ \A i, j \in 1..Len(files) : i < j => files[i] < files[j]
         /\ \A f \in FoundBy(request.paths) : \E i \in 1..Len(files) : files[i] = f
         /\ problems = SkippedBy(request.paths)
<1>1. FoundBy(request.paths) \subseteq Names
  BY RequestsAssumption, RequestFinds DEF IInv, TypeOK
<1>2. FoundBy(request.paths) \subseteq Int /\ IsFiniteSet(FoundBy(request.paths))
  BY <1>1, NamesAssumption, FS_Subset
<1>3. files = Ordered(FoundBy(request.paths)) /\ problems = SkippedBy(request.paths)
  BY DEF AnswerSoFar
<1>4. /\ files \in Seq(FoundBy(request.paths))
      /\ \A i, j \in 1..Len(files) : i < j => files[i] < files[j]
      /\ \A f \in FoundBy(request.paths) : \E i \in 1..Len(files) : files[i] = f
  BY <1>2, <1>3, OrderedSorts
<1>5. QED
  BY <1>1, <1>3, <1>4

\* When the outcomes are merged every file has one.
LEMMA AllArePushed ==
  ASSUME IInv, AnswerSoFar, phase = "merge"
  PROVE  /\ Len(outcomes) \in Nat
         /\ \A k \in 1..Len(outcomes) : outcomes[k].index \in 1..Len(files)
         /\ \A i \in 1..Len(files) : \E k \in 1..Len(outcomes) : outcomes[k].index = i
<1>1. next > Len(files) /\ Len(files) \in Nat /\ next \in Nat
  BY DEF IInv, TypeOK, EveryFileIsReached
<1>2. \A w \in Threads : Held(w) = {}
  BY DEF AnswerSoFar
<1>3. \A i \in 1..Len(files) : i \in Pushed
  BY <1>1, <1>2 DEF IInv, EachFileClaimedOnce
<1>4. \A i \in 1..Len(files) : \E k \in 1..Len(outcomes) : outcomes[k].index = i
  BY <1>3 DEF Pushed
<1>5. outcomes \in Seq([index : 1..Len(files), kind : Results])
  BY DEF IInv, TypeOK
<1>6. Len(outcomes) \in Nat
  BY <1>5
<1>7. ASSUME NEW k \in 1..Len(outcomes)
      PROVE  outcomes[k].index \in 1..Len(files)
  <2> DEFINE O == [index : 1..Len(files), kind : Results]
  <2>1. outcomes \in Seq(O)
    BY <1>5
  <2> HIDE DEF O
  <2>2. outcomes[k] \in O
    BY <2>1
  <2>3. QED
    BY <2>2 DEF O
<1>8. QED
  BY <1>4, <1>6, <1>7

\* What is merged of a kind is the files of that kind in order.
LEMMA MergedInOrder ==
  ASSUME IInv, AnswerSoFar, phase = "merge", NEW kind
  PROVE  MergedAs(SortByIndex(outcomes), kind) =
           Ordered({f \in FoundBy(request.paths) : Analysis(f) = kind})
<1> DEFINE n      == Len(files)
           sorted == SortByIndex(outcomes)
           I      == {i \in 1..n : Analysis(files[i]) = kind}
           kept   == Ordered(I)
           S      == {f \in FoundBy(request.paths) : Analysis(f) = kind}
           merged == [i \in 1..Len(kept) |-> files[kept[i]]]
<1>1. /\ FoundBy(request.paths) \subseteq Int
      /\ n \in Nat /\ \A i \in 1..n : files[i] \in FoundBy(request.paths)
      /\ \A i, j \in 1..n : i < j => files[i] < files[j]
      /\ \A f \in FoundBy(request.paths) : \E i \in 1..n : files[i] = f
  BY TheFiles, NamesAssumption
<1>2. /\ Len(outcomes) \in Nat
      /\ \A k \in 1..Len(outcomes) : outcomes[k].index \in 1..n
      /\ \A i \in 1..n : \E k \in 1..Len(outcomes) : outcomes[k].index = i
  BY AllArePushed
<1>3. \A k, l \in 1..Len(outcomes) : outcomes[k].index = outcomes[l].index => k = l
  BY DEF IInv, EachFileClaimedOnce
<1>4. /\ Len(sorted) = n
      /\ \A r \in 1..n : /\ sorted[r].index = r
                         /\ \E l \in 1..Len(outcomes) : sorted[r] = outcomes[l]
  <2> HIDE DEF n
  <2>1. QED
    BY <1>1, <1>2, <1>3, SortRestores
<1>5. \A k \in 1..Len(outcomes) : outcomes[k].kind = Analysis(files[outcomes[k].index])
  BY DEF AnswerSoFar
<1> HIDE DEF sorted, n
<1>6. \A r \in 1..n : sorted[r].index = r /\ sorted[r].kind = Analysis(files[r])
  BY <1>4, <1>5
<1>7. {i \in 1..Len(sorted) : sorted[i].kind = kind} = I
  BY <1>4, <1>6
<1>8. I \in SUBSET (1..n) /\ I \subseteq Int /\ IsFiniteSet(1..n)
  BY <1>1, FS_Interval
<1>9. I \subseteq Int /\ IsFiniteSet(I)
  BY <1>8, FS_Subset
<1>10. /\ kept \in Seq(I) /\ \A i, j \in 1..Len(kept) : i < j => kept[i] < kept[j]
       /\ \A i \in I : \E j \in 1..Len(kept) : kept[j] = i
  <2> HIDE DEF I
  <2>1. QED
    BY <1>9, OrderedSorts
<1>11. MergedAs(sorted, kind) = [i \in 1..Len(kept) |-> files[sorted[kept[i]].index]]
  <2> HIDE DEF I
  <2>1. QED
    BY <1>7 DEF MergedAs
<1> HIDE DEF kept
<1>12. Len(kept) \in Nat /\ \A i \in 1..Len(kept) : kept[i] \in I /\ kept[i] \in 1..n
  <2>1. Len(kept) \in Nat /\ \A i \in 1..Len(kept) : kept[i] \in I
    <3> HIDE DEF I
    <3>1. QED
      BY <1>10
  <2>2. QED
    BY <2>1
<1>13. MergedAs(sorted, kind) = merged
  BY <1>6, <1>11, <1>12
<1>14. merged \in [1..Len(kept) -> S]
  BY <1>1, <1>12
<1>15. \A i, j \in 1..Len(kept) : i < j => merged[i] < merged[j]
  BY <1>1, <1>10, <1>12
<1>16. \A f \in S : \E j \in 1..Len(kept) : merged[j] = f
  <2>1. SUFFICES ASSUME NEW f \in S
                 PROVE  \E j \in 1..Len(kept) : merged[j] = f
    OBVIOUS
  <2>2. PICK i \in 1..n : files[i] = f
    BY <1>1
  <2>3. i \in I
    BY <2>2
  <2>4. PICK j \in 1..Len(kept) : kept[j] = i
    BY <1>10, <2>3
  <2>5. QED
    BY <2>2, <2>4
<1>17. S \subseteq Int
  BY <1>1
<1> HIDE DEF S, merged
<1>18. merged = Ordered(S)
  BY <1>12, <1>14, <1>15, <1>16, <1>17, OneOrder
<1>19. QED
  BY <1>13, <1>18 DEF S, sorted

\* What the specification of one pass promises for the request.
LEMMA Promised ==
  ASSUME request \in Requests
  PROVE  /\ \A kind : Once!These(kind) = {f \in FoundBy(request.paths) : Analysis(f) = kind}
         /\ Once!Holes = SkippedBy(request.paths)
         /\ Once!Answer =
              IF Once!These("panics") # {}
              THEN [kind |-> "panicked"]
              ELSE [kind     |-> "merged",
                    findings |-> Ordered(Once!These("analysed")),
                    problems |-> Once!Holes \o Ordered(Once!These("unreadable"))]
<1>1. request.paths \in Seq(Int)
  BY RequestsAssumption
<1>2. QED
  BY <1>1, RequestFinds, Same DEF Once!These, Once!Holes, Once!Answer

-----------------------------------------------------------------------------
(* One pass *)

LEMMA InitAnswer == Init => AnswerSoFar
<1> SUFFICES ASSUME Init
             PROVE  AnswerSoFar
  OBVIOUS
<1>1. outcomes = <<>> /\ phase = "walk" /\ result = None
  BY DEF Init
<1>2. \A w \in Threads : pc[w] = "idle"
  BY DEF Init
<1>3. QED
  BY <1>1, <1>2 DEF AnswerSoFar

\* Pushing a file's own outcome keeps the outcomes those of their files.
LEMMA PushedFaithfully ==
  ASSUME TypeOK, AnswerSoFar, NEW i \in 1..Len(files), Analysis(files[i]) # "panics",
         files' = files, outcomes' = Append(outcomes, Outcome(i))
  PROVE  \A k \in 1..Len(outcomes') :
           /\ outcomes'[k].kind = Analysis(files'[outcomes'[k].index])
           /\ outcomes'[k].kind # "panics"
<1>1. outcomes \in Seq([index : 1..Len(files), kind : Results])
  BY DEF TypeOK
<1>2. Outcome(i).index = i /\ Outcome(i).kind = Analysis(files[i])
  BY DEF Outcome
<1> DEFINE o == Outcome(i)
<1> HIDE DEF o
<1>3. /\ Len(outcomes) \in Nat /\ Len(outcomes') = Len(outcomes) + 1
      /\ \A k \in 1..Len(outcomes) : outcomes'[k] = outcomes[k]
      /\ outcomes'[Len(outcomes) + 1] = o
  <2>1. outcomes' = Append(outcomes, o)
    BY DEF o
  <2>2. QED
    BY <1>1, <2>1
<1>4. \A k \in 1..Len(outcomes) : /\ outcomes[k].kind = Analysis(files[outcomes[k].index])
                                  /\ outcomes[k].kind # "panics"
  BY DEF AnswerSoFar
<1>5. ASSUME NEW k \in 1..Len(outcomes')
      PROVE  /\ outcomes'[k].kind = Analysis(files'[outcomes'[k].index])
             /\ outcomes'[k].kind # "panics"
  <2>1. k \in 1..Len(outcomes) \/ k = Len(outcomes) + 1
    BY <1>3
  <2>2. CASE k \in 1..Len(outcomes)
    BY <1>3, <1>4, <2>2
  <2>3. CASE k = Len(outcomes) + 1
    <3>1. outcomes'[k] = Outcome(i)
      BY <1>3, <2>3 DEF o
    <3>2. QED
      BY <1>2, <3>1
  <2>4. QED
    BY <2>1, <2>2, <2>3
<1>6. QED
  BY <1>5

\* Each step keeps the answer the pool is on the way to, and is the one step
\* of a single pass or is not seen.
LEMMA WalkImplements ==
  ASSUME IInv, AnswerSoFar, Walk
  PROVE  AnswerSoFar' /\ UNCHANGED <<request, result>>
<1>1. phase = "walk" /\ outcomes = <<>> /\ result = None
  BY DEF Walk, IInv, Stages, AnswerSoFar
<1>2. /\ files' = Ordered(FoundBy(request.paths)) /\ problems' = SkippedBy(request.paths)
      /\ UNCHANGED <<request, outcomes, result>> /\ phase' \in {"join", "scan"}
  BY DEF Walk
<1>3. \A w \in Threads : pc'[w] \in {"idle", "claim"}
  BY DEF Walk
<1>4. QED
  BY <1>1, <1>2, <1>3 DEF AnswerSoFar

LEMMA ClaimImplements ==
  ASSUME IInv, AnswerSoFar, NEW w \in Threads, Claim(w)
  PROVE  AnswerSoFar' /\ UNCHANGED <<request, result>>
<1>1. /\ UNCHANGED <<request, phase, files, problems, outcomes, result>> /\ phase = "join"
      /\ pc'[w] \in {"done", "analyse"}
      /\ \A v \in Threads \ {w} : pc'[v] = pc[v] /\ claimed'[v] = claimed[v]
  BY DEF Claim, IInv, TypeOK
<1>2. \A v \in Threads : /\ pc'[v] = "push" => Analysis(files[claimed'[v]]) # "panics"
                         /\ pc'[v] = "panicked" => Analysis(files[claimed'[v]]) = "panics"
  BY <1>1 DEF AnswerSoFar
<1>3. QED
  BY <1>1, <1>2 DEF AnswerSoFar

LEMMA AnalyseImplements ==
  ASSUME IInv, AnswerSoFar, NEW w \in Threads, Analyse(w)
  PROVE  AnswerSoFar' /\ UNCHANGED <<request, result>>
<1>1. /\ UNCHANGED <<request, phase, files, problems, claimed, outcomes, result>>
      /\ phase = "join"
      /\ pc'[w] = IF Analysis(files[claimed[w]]) = "panics" THEN "panicked" ELSE "push"
      /\ \A v \in Threads \ {w} : pc'[v] = pc[v]
  BY DEF Analyse, IInv, TypeOK
<1>2. \A v \in Threads : /\ pc'[v] = "push" => Analysis(files[claimed[v]]) # "panics"
                         /\ pc'[v] = "panicked" => Analysis(files[claimed[v]]) = "panics"
  BY <1>1 DEF AnswerSoFar
<1>3. QED
  BY <1>1, <1>2 DEF AnswerSoFar

LEMMA PushImplements ==
  ASSUME IInv, AnswerSoFar, NEW w \in Threads, Push(w)
  PROVE  AnswerSoFar' /\ UNCHANGED <<request, result>>
<1>1. /\ UNCHANGED <<request, phase, files, problems, claimed, result>> /\ phase = "join"
      /\ outcomes' = Append(outcomes, Outcome(claimed[w]))
      /\ pc[w] = "push" /\ pc'[w] = "claim"
      /\ \A v \in Threads \ {w} : pc'[v] = pc[v]
  BY DEF Push, IInv, TypeOK
<1>2. claimed[w] \in 1..Len(files) /\ Analysis(files[claimed[w]]) # "panics"
  BY <1>1 DEF IInv, Stages, Held, AnswerSoFar
<1>3. \A k \in 1..Len(outcomes') :
        /\ outcomes'[k].kind = Analysis(files'[outcomes'[k].index])
        /\ outcomes'[k].kind # "panics"
  BY <1>1, <1>2, PushedFaithfully DEF IInv
<1>4. \A v \in Threads : /\ pc'[v] = "push" => Analysis(files[claimed[v]]) # "panics"
                         /\ pc'[v] = "panicked" => Analysis(files[claimed[v]]) = "panics"
  BY <1>1 DEF AnswerSoFar
<1>5. QED
  BY <1>1, <1>3, <1>4 DEF AnswerSoFar

\* A file that a detector panics on leaves nothing to merge.
LEMMA PanicIsTheAnswer ==
  ASSUME IInv, AnswerSoFar, phase # "walk", NEW i \in 1..Len(files),
         Analysis(files[i]) = "panics"
  PROVE  Once!Answer = [kind |-> "panicked"]
<1>1. request \in Requests
  BY DEF IInv, TypeOK
<1>2. files[i] \in Once!These("panics")
  BY <1>1, TheFiles, Promised
<1>3. QED
  BY <1>1, <1>2, Promised

LEMMA JoinImplements ==
  ASSUME IInv, AnswerSoFar, Join
  PROVE  AnswerSoFar' /\ (UNCHANGED <<request, result>> \/ Once!Analyse)
<1>1. /\ UNCHANGED <<request, files, problems, pc, claimed, outcomes>> /\ phase = "join"
      /\ result = None /\ \A w \in Threads : pc[w] \in {"idle", "done", "panicked"}
  BY DEF Join, AnswerSoFar
<1>2. \A w \in Threads : Held(w)' = Held(w)
  BY <1>1 DEF Held
<1>3. CASE \E w \in Threads : pc[w] = "panicked"
  <2>1. phase' = "unwound" /\ result' = [kind |-> "panicked"]
    BY <1>3 DEF Join
  <2>2. PICK w \in Threads : pc[w] = "panicked"
    BY <1>3
  <2>3. claimed[w] \in 1..Len(files) /\ Analysis(files[claimed[w]]) = "panics"
    BY <2>2 DEF IInv, Stages, Held, AnswerSoFar
  <2>4. Once!Answer = [kind |-> "panicked"]
    BY <1>1, <2>3, PanicIsTheAnswer
  <2>5. Once!Analyse
    BY <1>1, <2>1, <2>4 DEF Once!Analyse
  <2>6. AnswerSoFar'
    BY <1>1, <2>1 DEF AnswerSoFar
  <2>7. QED
    BY <2>5, <2>6
<1>4. CASE ~\E w \in Threads : pc[w] = "panicked"
  <2>1. phase' = "merge" /\ result' = result
    BY <1>4 DEF Join
  <2>2. \A w \in Threads : Held(w)' = {}
    BY <1>1, <1>2, <1>4 DEF Held
  <2>3. AnswerSoFar'
    BY <1>1, <2>1, <2>2 DEF AnswerSoFar
  <2>4. QED
    BY <1>1, <2>1, <2>3
<1>5. QED
  BY <1>3, <1>4

LEMMA ScanImplements ==
  ASSUME IInv, AnswerSoFar, Scan
  PROVE  AnswerSoFar' /\ (UNCHANGED <<request, result>> \/ Once!Analyse)
<1>1. /\ UNCHANGED <<request, files, problems, pc, claimed>> /\ phase = "scan" /\ result = None
      /\ Len(files) \in Nat /\ next \in Nat \ {0}
  BY DEF Scan, IInv, TypeOK, AnswerSoFar
<1>2. \A w \in Threads : pc[w] = "idle" /\ pc'[w] = "idle"
  BY <1>1 DEF IInv, Stages
<1>3. CASE next > Len(files)
  <2>1. phase' = "merge" /\ UNCHANGED <<next, outcomes, result>>
    BY <1>3 DEF Scan
  <2>2. \A w \in Threads : Held(w)' = {}
    BY <1>2 DEF Held
  <2>3. QED
    BY <1>1, <1>2, <2>1, <2>2 DEF AnswerSoFar
<1>4. CASE next <= Len(files) /\ Analysis(files[next]) = "panics"
  <2>1. phase' = "unwound" /\ result' = [kind |-> "panicked"] /\ UNCHANGED outcomes
    BY <1>1, <1>4 DEF Scan
  <2>2. next \in 1..Len(files)
    BY <1>1, <1>4
  <2>3. Once!Answer = [kind |-> "panicked"]
    BY <1>1, <1>4, <2>2, PanicIsTheAnswer
  <2>4. Once!Analyse
    BY <1>1, <2>1, <2>3 DEF Once!Analyse
  <2>5. AnswerSoFar'
    BY <1>1, <1>2, <2>1 DEF AnswerSoFar
  <2>6. QED
    BY <2>4, <2>5
<1>5. CASE next <= Len(files) /\ Analysis(files[next]) # "panics"
  <2>1. UNCHANGED <<phase, result>> /\ outcomes' = Append(outcomes, Outcome(next))
    BY <1>1, <1>5 DEF Scan
  <2>2. next \in 1..Len(files)
    BY <1>1, <1>5
  <2>3. \A k \in 1..Len(outcomes') :
          /\ outcomes'[k].kind = Analysis(files'[outcomes'[k].index])
          /\ outcomes'[k].kind # "panics"
    BY <1>1, <1>5, <2>1, <2>2, PushedFaithfully DEF IInv
  <2>4. AnswerSoFar'
    BY <1>1, <1>2, <2>1, <2>3 DEF AnswerSoFar
  <2>5. QED
    BY <1>1, <2>1, <2>4
<1>6. QED
  BY <1>1, <1>3, <1>4, <1>5

LEMMA MergeImplements ==
  ASSUME IInv, AnswerSoFar, Merge
  PROVE  AnswerSoFar' /\ Once!Analyse
<1>1. /\ UNCHANGED <<request, files, problems, pc, claimed, outcomes>> /\ phase = "merge"
      /\ phase' = "returned" /\ result = None
  BY DEF Merge, AnswerSoFar
<1>2. request \in Requests /\ problems = SkippedBy(request.paths)
  BY <1>1, TheFiles DEF IInv, TypeOK
<1>3. result' = [kind     |-> "merged",
                 findings |-> MergedAs(SortByIndex(outcomes), "analysed"),
                 problems |-> problems \o MergedAs(SortByIndex(outcomes), "unreadable")]
  BY DEF Merge
<1>4. result' = [kind     |-> "merged",
                 findings |-> Ordered(Once!These("analysed")),
                 problems |-> Once!Holes \o Ordered(Once!These("unreadable"))]
  BY <1>1, <1>2, <1>3, MergedInOrder, Promised
<1>5. Once!These("panics") = {}
  <2>1. SUFFICES ASSUME NEW f \in Once!These("panics")
                 PROVE  FALSE
    OBVIOUS
  <2>2. f \in FoundBy(request.paths) /\ Analysis(f) = "panics"
    BY <1>2, Promised
  <2>3. PICK i \in 1..Len(files) : files[i] = f
    BY <1>1, <2>2, TheFiles
  <2>4. PICK k \in 1..Len(outcomes) : outcomes[k].index = i
    BY <1>1, AllArePushed
  <2>5. QED
    BY <2>2, <2>3, <2>4 DEF AnswerSoFar
<1>6. Once!Answer = result'
  BY <1>2, <1>4, <1>5, Promised
<1>7. Once!Analyse
  BY <1>1, <1>6 DEF Once!Analyse
<1>8. AnswerSoFar'
  BY <1>1 DEF AnswerSoFar
<1>9. QED
  BY <1>7, <1>8

LEMMA NextImplements ==
  IInv /\ AnswerSoFar /\ [Next]_vars => AnswerSoFar' /\ [Once!Analyse]_(Once!vars)
<1> SUFFICES ASSUME IInv, AnswerSoFar, [Next]_vars
             PROVE  AnswerSoFar' /\ (UNCHANGED <<request, result>> \/ Once!Analyse)
  BY DEF Once!vars
<1>1. CASE Walk
  BY <1>1, WalkImplements
<1>2. CASE Join
  BY <1>2, JoinImplements
<1>3. CASE Scan
  BY <1>3, ScanImplements
<1>4. CASE Merge
  BY <1>4, MergeImplements
<1>5. CASE \E w \in Threads : Claim(w) \/ Analyse(w) \/ Push(w)
  BY <1>5, ClaimImplements, AnalyseImplements, PushImplements
<1>6. CASE UNCHANGED vars
  <2>1. \A w \in Threads : Held(w)' = Held(w)
    BY <1>6 DEF vars, Held
  <2>2. QED
    BY <1>6, <2>1 DEF vars, AnswerSoFar
<1>7. QED
  BY <1>1, <1>2, <1>3, <1>4, <1>5, <1>6 DEF Next

\* Whatever the tree, the number of threads and the order in which they push,
\* the call gives the answer of one pass over the files in order, and gives it
\* once: analyze_paths implements AnalyzeOnce.
THEOREM PoolImplementsOnce == Spec => ImplementsOnce
<1>1. Init => Once!Init
  BY DEF Init, Once!Init
<1>2. Spec => [](IInv /\ AnswerSoFar)
  <2>1. IInv /\ AnswerSoFar /\ [Next]_vars => (IInv /\ AnswerSoFar)'
    BY NextIInv, NextImplements
  <2>2. QED
    BY <2>1, InitIInv, InitAnswer, PTL DEF Spec
<1>3. QED
  BY <1>1, <1>2, NextImplements, PTL DEF Spec, ImplementsOnce, Once!Spec
=============================================================================
