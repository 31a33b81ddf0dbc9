----------------------------- MODULE BudgetProof -----------------------------
(***************************************************************************)
(* Proofs about Budget for any file, any request and any depth guard.      *)
(***************************************************************************)
EXTENDS BudgetExec, OrderingProof

Frames == [index : Nat, called : Nat]
CallsOf(f) == Function(module, f).calls

\* The parts of IInv about the walk, of any path p and any set s reached.
Chain(p) ==
  /\ Len(p) <= MaxDepth + 1
  /\ \A i \in 1..Len(p) : p[i].index \in Defined(module)
  /\ \A i, j \in 1..Len(p) : p[i].index = p[j].index => i = j
  /\ \A i \in 1..(Len(p) - 1) :
       /\ p[i].called \in 1..Len(CallsOf(p[i].index))
       /\ CallsOf(p[i].index)[p[i].called] = p[i + 1].index

IsReached(p, s) ==
  \A i \in 1..Len(p) : p[i].index \in s /\ p[i].called <= Len(CallsOf(p[i].index))

PendingOn(p, f, j) == \E i \in 1..Len(p) : p[i].index = f /\ p[i].called < j

\* Every call of a function of s is to extra, in s or pending on p.
Followed(p, s, extra) ==
  \A f \in s : \A j \in 1..Len(CallsOf(f)) :
    CallsOf(f)[j] \in Defined(module) =>
      CallsOf(f)[j] \in s \cup extra \/ PendingOn(p, f, j)

LEMMA Parts ==
  /\ PathIsASimpleChain <=> Chain(path)
  /\ PathIsReached <=> IsReached(path, seen)
  /\ CallsAreFollowed <=>
       ("recursion" \notin estimate.unbounded => Followed(path, seen, {}))
<1>1. PathIsASimpleChain <=> Chain(path)
  BY DEF PathIsASimpleChain, Chain, CallsOf
<1>2. PathIsReached <=> IsReached(path, seen)
  BY DEF PathIsReached, IsReached, CallsOf
<1>3. CallsAreFollowed <=>
       ("recursion" \notin estimate.unbounded => Followed(path, seen, {}))
  BY DEF CallsAreFollowed, Followed, CallsOf, Pending, PendingOn
<1>4. QED
  BY <1>1, <1>2, <1>3

\* A set of positions, and the order of them.
LEMMA PositionsInOrder ==
  ASSUME NEW n \in Nat, NEW S \in SUBSET (1..n)
  PROVE  /\ IsFiniteSet(S)
         /\ Cardinality(S) \in Nat
         /\ Cardinality(S) <= n
         /\ Len(Ordered(S)) = Cardinality(S)
         /\ \A i \in 1..Len(Ordered(S)) : Ordered(S)[i] \in S
         /\ \A i, j \in 1..Len(Ordered(S)) : i < j => Ordered(S)[i] < Ordered(S)[j]
         /\ \A k \in S : \E i \in 1..Len(Ordered(S)) : Ordered(S)[i] = k
<1>1. IsFiniteSet(1..n) /\ Cardinality(1..n) = IF 1 > n THEN 0 ELSE n - 1 + 1
  BY FS_Interval
<1>2. Cardinality(1..n) = n
  BY <1>1
<1>3. IsFiniteSet(S) /\ Cardinality(S) <= n
  BY <1>1, <1>2, FS_Subset
<1>4. Cardinality(S) \in Nat
  BY <1>3, FS_CardinalityType
<1>5. S \subseteq Int
  OBVIOUS
<1>6. /\ Ordered(S) \in Seq(S)
      /\ Len(Ordered(S)) = Cardinality(S)
      /\ \A i, j \in 1..Len(Ordered(S)) : i < j => Ordered(S)[i] < Ordered(S)[j]
      /\ \A k \in S : \E i \in 1..Len(Ordered(S)) : Ordered(S)[i] = k
  BY <1>3, <1>5, OrderedSorts
<1>7. \A i \in 1..Len(Ordered(S)) : Ordered(S)[i] \in S
  BY <1>6
<1>8. QED
  BY <1>3, <1>4, <1>6, <1>7

\* The calls of some sites of a body, in their order.
LEMMA TargetsTyped ==
  ASSUME NEW body \in Seq(Operators), NEW S \in SUBSET (1..Len(body))
  PROVE  /\ Targets(body, S) \in Seq(Nat)
         /\ Len(Targets(body, S)) = Cardinality(S)
         /\ \A i \in 1..Len(Targets(body, S)) :
              Ordered(S)[i] \in S /\ Targets(body, S)[i] = body[Ordered(S)[i]].to
<1> DEFINE order == Ordered(S)
           n == Cardinality(S)
<1>1. Len(body) \in Nat
  OBVIOUS
<1>2. n \in Nat /\ Len(order) = n /\ \A i \in 1..Len(order) : order[i] \in S
  BY <1>1, PositionsInOrder
<1>3. Targets(body, S) = [i \in 1..Len(order) |-> body[order[i]].to]
  BY DEF Targets
<1>4. \A o \in Operators : o.to \in Nat
  BY DEF Operators
<1>5. \A k \in S : body[k] \in Operators
  OBVIOUS
<1> HIDE DEF order, n
<1>6. \A i \in 1..n : order[i] \in S /\ body[order[i]].to \in Nat
  BY <1>2, <1>4, <1>5
<1>7. /\ Targets(body, S) \in Seq(Nat)
      /\ Len(Targets(body, S)) = n
      /\ \A i \in 1..n : Targets(body, S)[i] = body[order[i]].to
  BY <1>2, <1>3, <1>6
<1>8. QED
  BY <1>6, <1>7 DEF order, n

\* The function exports of a file.
LEMMA ExportsTyped ==
  ASSUME NEW b \in WasmFiles
  PROVE  /\ Len(FunctionExports(b)) \in Nat
         /\ \A i \in 1..Len(FunctionExports(b)) : FunctionExports(b)[i] \in Exports
<1> DEFINE S == {i \in 1..Len(b.exports) : b.exports[i].kind = "func"}
           order == Ordered(S)
<1>1. b.exports \in Seq(Exports)
  BY DEF WasmFiles
<1>2. Len(b.exports) \in Nat /\ S \in SUBSET (1..Len(b.exports))
  BY <1>1
<1>3. Len(order) \in Nat /\ \A i \in 1..Len(order) : order[i] \in S
  <2> HIDE DEF S
  <2>1. QED
    BY <1>2, PositionsInOrder
<1>4. FunctionExports(b) = [i \in 1..Len(order) |-> b.exports[order[i]]]
  BY DEF FunctionExports
<1>5. \A i \in 1..Len(order) : order[i] \in 1..Len(b.exports)
  BY <1>3
<1> HIDE DEF order
<1>6. QED
  BY <1>1, <1>3, <1>4, <1>5

\* What one body is read as.
LEMMA BodyTyped ==
  ASSUME NEW body \in Seq(Operators), NEW base \in Nat
  PROVE  /\ ReadBody(body, base) \in Facts
         /\ \A j \in 1..Len(ReadBody(body, base).calls) :
              ReadBody(body, base).calls[j] >= base
<1> DEFINE calls == CallSites(body, base)
           hosts == Sites(body, "call") \ calls
<1>1. ASSUME NEW op
      PROVE  /\ Sites(body, op) \subseteq 1..Len(body)
             /\ Cardinality(Sites(body, op)) \in Nat
             /\ Cardinality(Sites(body, op)) <= Len(body)
  <2>1. Len(body) \in Nat /\ Sites(body, op) \in SUBSET (1..Len(body))
    BY DEF Sites
  <2>2. QED
    BY <2>1, PositionsInOrder
<1>2. calls \subseteq 1..Len(body) /\ hosts \subseteq 1..Len(body)
  BY <1>1 DEF CallSites
<1> HIDE DEF hosts
<1>3. Targets(body, calls) \in Seq(Nat) /\ Targets(body, hosts) \in Seq(Nat)
  BY <1>2, TargetsTyped
<1>4. Len(body) - Cardinality(Sites(body, "end")) \in Nat
  BY <1>1
<1>5. ReadBody(body, base) \in Facts
  BY <1>1, <1>3, <1>4 DEF ReadBody, Facts, hosts
<1>6. ReadBody(body, base).calls = Targets(body, calls)
  BY DEF ReadBody
<1>7. \A k \in calls : body[k].to >= base
  BY DEF CallSites
<1>8. \A j \in 1..Len(Targets(body, calls)) : Targets(body, calls)[j] >= base
  <2> HIDE DEF calls
  <2>1. \A j \in 1..Len(Targets(body, calls)) :
          Ordered(calls)[j] \in calls /\ Targets(body, calls)[j] = body[Ordered(calls)[j]].to
    BY <1>2, TargetsTyped
  <2>2. QED
    BY <1>7, <2>1
<1>9. QED
  BY <1>5, <1>6, <1>8

\* What a module parse returned looks like (Module::parse).
LEMMA ModuleTyped ==
  ASSUME binary \in Binaries, ~Refused(binary)
  PROVE  /\ module.imports \in Nat
         /\ Len(module.exports) \in Nat
         /\ \A i \in 1..Len(module.exports) :
              /\ module.exports[i].to \in HostImports(module) \cup Defined(module)
              /\ module.exports[i].to \in Nat /\ module.exports[i].name \in STRING
         /\ IsFiniteSet(Defined(module))
         /\ Defined(module) \subseteq Nat
         /\ \A f \in Defined(module) : Function(module, f) \in Facts
         /\ \A f \in Defined(module) : \A j \in 1..Len(Function(module, f).calls) :
              Function(module, f).calls[j] \notin HostImports(module)
<1>0. binary \in WasmFiles
  BY BinariesAssumption
<1>b. /\ binary.imports \in Nat
      /\ binary.bodies \in Seq(Seq(Operators))
      /\ Len(binary.bodies) \in Nat
  BY <1>0 DEF WasmFiles
<1>c. /\ module.imports = binary.imports
      /\ module.functions = [i \in 1..Len(binary.bodies) |->
                               ReadBody(binary.bodies[i], binary.imports)]
      /\ module.exports = FunctionExports(binary)
  BY DEF module, Parsed
<1> HIDE DEF module
<1>d. \A i \in 1..Len(module.functions) :
        /\ module.functions[i] \in Facts
        /\ \A j \in 1..Len(module.functions[i].calls) :
             module.functions[i].calls[j] >= module.imports
  <2> SUFFICES ASSUME NEW i \in 1..Len(module.functions)
               PROVE  /\ module.functions[i] \in Facts
                      /\ \A j \in 1..Len(module.functions[i].calls) :
                           module.functions[i].calls[j] >= module.imports
    OBVIOUS
  <2>1. i \in 1..Len(binary.bodies)
    BY <1>b, <1>c
  <2>2. binary.bodies[i] \in Seq(Operators)
    BY <1>b, <2>1
  <2>3. module.functions[i] = ReadBody(binary.bodies[i], binary.imports)
    BY <1>c, <2>1
  <2>4. QED
    BY <1>b, <1>c, <2>2, <2>3, BodyTyped
<1>1. /\ module.imports \in Nat
      /\ module.functions \in Seq(Facts)
      /\ Len(module.functions) = Len(binary.bodies)
      /\ Len(module.exports) \in Nat
      /\ \A i \in 1..Len(module.exports) :
           /\ module.exports[i].to \in HostImports(module) \cup Defined(module)
           /\ module.exports[i].name \in STRING
  <2>1. /\ Len(module.functions) = Len(binary.bodies)
        /\ module.functions \in Seq(Facts)
    <3>1. Len(module.functions) = Len(binary.bodies)
      BY <1>b, <1>c
    <3>2. \A i \in 1..Len(module.functions) : module.functions[i] \in Facts
      BY <1>d
    <3> DEFINE g(i) == ReadBody(binary.bodies[i], binary.imports)
               n == Len(binary.bodies)
    <3>3. module.functions = [i \in 1..n |-> g(i)]
      BY <1>c
    <3> HIDE DEF g
    <3>4. n \in Nat /\ \A i \in 1..n : g(i) \in Facts
      BY <1>b, <3>1, <3>2, <3>3
    <3> HIDE DEF n
    <3>5. [i \in 1..n |-> g(i)] \in Seq(Facts)
      BY <3>4
    <3>6. QED
      BY <3>1, <3>3, <3>5
  <2>2. ASSUME NEW i \in 1..Len(module.exports)
        PROVE  /\ module.exports[i].to \in HostImports(module) \cup Defined(module)
               /\ module.exports[i].name \in STRING
    <3>1. module.exports[i] \in Exports
      BY <1>0, <1>c, <2>2, ExportsTyped
    <3>2. ~(module.exports[i].to >= binary.imports + Len(binary.bodies))
      BY <1>c, <2>2 DEF Refused
    <3>3. QED
      BY <1>b, <1>c, <2>1, <3>1, <3>2 DEF Exports, HostImports, Defined
  <2>3. QED
    BY <1>0, <1>b, <1>c, <2>1, <2>2, ExportsTyped
<1>2. Len(module.functions) \in Nat
  BY <1>1
<1>3. Defined(module) \subseteq Nat /\ HostImports(module) \subseteq Nat
  BY <1>1, <1>2 DEF Defined, HostImports
<1>4. IsFiniteSet(Defined(module))
  <2>1. module.imports \in Int /\ module.imports + Len(module.functions) - 1 \in Int
    BY <1>1, <1>2
  <2>2. \A a, b \in Int : IsFiniteSet(a..b)
    BY FS_Interval
  <2>3. QED
    BY <2>1, <2>2 DEF Defined
<1>5. ASSUME NEW f \in Defined(module)
      PROVE  /\ Function(module, f) \in Facts
             /\ \A j \in 1..Len(Function(module, f).calls) :
                  Function(module, f).calls[j] \notin HostImports(module)
  <2>1. f - module.imports + 1 \in 1..Len(module.functions)
    BY <1>1, <1>2 DEF Defined
  <2>2. Function(module, f) \in Facts
    BY <1>1, <2>1 DEF Function
  <2>3. ASSUME NEW j \in 1..Len(Function(module, f).calls)
        PROVE  Function(module, f).calls[j] \notin HostImports(module)
    <3>1. Function(module, f).calls[j] >= module.imports
      BY <1>d, <2>1, <2>3 DEF Function
    <3>2. Function(module, f).calls[j] \in Nat
      BY <2>2, <2>3 DEF Facts
    <3>3. QED
      BY <1>1, <3>1, <3>2 DEF HostImports
  <2>4. QED
    BY <2>2, <2>3
<1>6. QED
  BY <1>1, <1>3, <1>4, <1>5

\* One call of walk keeps everything, on a path of which the last call walked
\* is the one it makes.
LEMMA WalkKeeps ==
  ASSUME TypeOK, ~Refused(binary),
         UNCHANGED binary,
         seen \subseteq Defined(module),
         FlagsAreRaised,
         NEW index \in Nat,
         NEW p \in Seq(Frames),
         Chain(p), IsReached(p, seen),
         p = <<>> \/ /\ p[Len(p)].called \in 1..Len(CallsOf(p[Len(p)].index))
                     /\ CallsOf(p[Len(p)].index)[p[Len(p)].called] = index,
         "recursion" \notin estimate.unbounded => Followed(p, seen, {index}),
         Walk(index, p)
  PROVE  /\ estimate' \in Estimates
         /\ path' \in Seq(Frames)
         /\ seen' \subseteq Nat
         /\ seen' \subseteq Defined(module)
         /\ FlagsAreRaised'
         /\ Chain(path')
         /\ IsReached(path', seen')
         /\ "recursion" \notin estimate'.unbounded => Followed(path', seen', {})
<1>0. module' = module
  BY DEF module
<1> HIDE DEF module
<1>a. /\ module.imports \in Nat
      /\ Defined(module) \subseteq Nat
      /\ \A f \in Defined(module) : Function(module, f) \in Facts
  BY ModuleTyped DEF TypeOK
<1>b. estimate \in Estimates
  BY DEF TypeOK
<1>c. \A i \in 1..Len(p) : p[i] \in Frames
  OBVIOUS
<1>1. CASE Cut(index, p)
  <2>1. /\ estimate' = [estimate EXCEPT !.unbounded = @ \cup {"recursion"}]
        /\ path' = p
        /\ seen' = seen
    BY <1>1 DEF Walk
  <2>2. estimate' \in Estimates /\ "recursion" \in estimate'.unbounded
    BY <1>b, <2>1 DEF Estimates, Reasons
  <2>3. FlagsAreRaised'
    BY <1>0, <1>b, <2>1 DEF FlagsAreRaised, Rows
  <2>4. QED
    BY <1>a, <2>1, <2>2, <2>3
<1>2. CASE ~Cut(index, p) /\ index \notin Defined(module)
  <2>1. /\ estimate' \in {estimate, [estimate EXCEPT !.hostCalls = @ + 1]}
        /\ path' = p
        /\ seen' = seen
    BY <1>2 DEF Walk
  <2>2. estimate' \in Estimates /\ estimate'.unbounded = estimate.unbounded
    BY <1>b, <2>1 DEF Estimates
  <2>3. FlagsAreRaised'
    BY <1>0, <2>1, <2>2 DEF FlagsAreRaised
  <2>4. Followed(p, seen, {index}) => Followed(p, seen, {})
    BY <1>2 DEF Followed
  <2>5. QED
    BY <1>a, <2>1, <2>2, <2>3, <2>4
<1>3. CASE ~Cut(index, p) /\ index \in Defined(module)
  <2> DEFINE frame == [index |-> index, called |-> 0]
  <2>1. /\ estimate' = Charged(index)
        /\ path' = Append(p, frame)
        /\ seen' = seen \cup {index}
    BY <1>3 DEF Walk, Charge
  <2>2. Len(p) <= MaxDepth /\ \A i \in 1..Len(p) : p[i].index # index
    BY <1>3, MaxDepthAssumption DEF Cut
  <2>3. /\ estimate' \in Estimates
        /\ estimate'.unbounded = estimate.unbounded
             \cup {u \in {"loops"} : Function(module, index).loops > 0}
             \cup {u \in {"indirect"} : Function(module, index).indirect > 0}
    <3>1. Function(module, index) \in Facts
      BY <1>3, <1>a
    <3>2. LET facts == Function(module, index)
          IN  /\ facts.instructions \in Nat /\ facts.loops \in Nat
              /\ facts.indirect \in Nat /\ Len(facts.hostCalls) \in Nat
      BY <3>1 DEF Facts
    <3>3. /\ estimate.instructions \in Nat /\ estimate.loops \in Nat
          /\ estimate.indirect \in Nat /\ estimate.hostCalls \in Nat
          /\ estimate.unbounded \subseteq Reasons
      BY <1>b DEF Estimates
    <3>4. /\ estimate'.instructions \in Nat /\ estimate'.loops \in Nat
          /\ estimate'.indirect \in Nat /\ estimate'.hostCalls \in Nat
      <4>1. LET facts == Function(module, index)
            IN  /\ estimate'.instructions = estimate.instructions + facts.instructions
                /\ estimate'.loops = estimate.loops + facts.loops
                /\ estimate'.indirect = estimate.indirect + facts.indirect
                /\ estimate'.hostCalls = estimate.hostCalls + Len(facts.hostCalls)
        BY <2>1 DEF Charged
      <4>2. \A a, b \in Nat : a + b \in Nat
        OBVIOUS
      <4>3. QED
        BY <3>2, <3>3, <4>1, <4>2
    <3>5. estimate'.unbounded = estimate.unbounded
             \cup {u \in {"loops"} : Function(module, index).loops > 0}
             \cup {u \in {"indirect"} : Function(module, index).indirect > 0}
      BY <2>1 DEF Charged
    <3>6. estimate'.unbounded \subseteq Reasons
      BY <3>3, <3>5 DEF Reasons
    <3>7. estimate' = [instructions |-> estimate'.instructions,
                       loops |-> estimate'.loops, indirect |-> estimate'.indirect,
                       hostCalls |-> estimate'.hostCalls,
                       unbounded |-> estimate'.unbounded]
      BY <2>1 DEF Charged
    <3>8. estimate' \in Estimates
      BY <3>3, <3>4, <3>6, <3>7 DEF Estimates
    <3>9. QED
      BY <3>5, <3>8
  <2>4. seen' \subseteq Nat /\ seen' \subseteq Defined(module)
    BY <1>a, <1>3, <2>1
  <2>5. FlagsAreRaised'
    <3>1. SUFFICES ASSUME NEW f \in seen'
                   PROVE  /\ Function(module, f).loops > 0 => "loops" \in estimate'.unbounded
                          /\ Function(module, f).indirect > 0 => "indirect" \in estimate'.unbounded
      BY <1>0 DEF FlagsAreRaised
    <3>2. CASE f = index
      BY <2>3, <3>2
    <3>3. CASE f \in seen
      BY <2>3, <3>3 DEF FlagsAreRaised
    <3>4. QED
      BY <2>1, <3>2, <3>3
  <2>6. /\ path' \in Seq(Frames)
        /\ Len(path') = Len(p) + 1
        /\ \A i \in 1..Len(p) : path'[i] = p[i]
        /\ path'[Len(p) + 1] = frame
    BY <2>1 DEF Frames
  <2> HIDE DEF frame
  <2>7. Len(p) \in Nat /\ frame.index = index /\ frame.called = 0
    BY DEF frame
  <2>8. Chain(path')
    <3>1. Len(path') <= MaxDepth + 1
      BY <2>2, <2>6, <2>7, MaxDepthAssumption
    <3>2. \A i \in 1..Len(path') : path'[i].index \in Defined(module)
      BY <1>3, <2>6, <2>7 DEF Chain
    <3>3. \A i, j \in 1..Len(path') : path'[i].index = path'[j].index => i = j
      <4>1. SUFFICES ASSUME NEW i \in 1..Len(path'), NEW j \in 1..Len(path'),
                            path'[i].index = path'[j].index
                     PROVE  i = j
        OBVIOUS
      <4>2. /\ i \in 1..Len(p) \/ i = Len(p) + 1
            /\ j \in 1..Len(p) \/ j = Len(p) + 1
        BY <2>6, <2>7
      <4>3. CASE i \in 1..Len(p) /\ j \in 1..Len(p)
        BY <2>6, <4>1, <4>3 DEF Chain
      <4>4. CASE i = Len(p) + 1 \/ j = Len(p) + 1
        <5>1. \A k \in 1..Len(p) : path'[k].index # path'[Len(p) + 1].index
          BY <2>2, <2>6, <2>7
        <5>2. QED
          BY <4>1, <4>2, <4>4, <5>1
      <4>5. QED
        BY <4>2, <4>3, <4>4
    <3>4. ASSUME NEW i \in 1..(Len(path') - 1)
          PROVE  /\ path'[i].called \in 1..Len(CallsOf(path'[i].index))
                 /\ CallsOf(path'[i].index)[path'[i].called] = path'[i + 1].index
      <4>1. i \in 1..Len(p)
        BY <2>6, <2>7
      <4>2. CASE i = Len(p)
        <5>1. p # <<>> /\ path'[i] = p[Len(p)] /\ path'[i + 1].index = index
          BY <2>6, <2>7, <4>1, <4>2
        <5>2. QED
          BY <5>1
      <4>3. CASE i # Len(p)
        <5>1. i \in 1..(Len(p) - 1) /\ i + 1 \in 1..Len(p)
          BY <2>7, <4>1, <4>3
        <5>2. path'[i] = p[i] /\ path'[i + 1] = p[i + 1]
          BY <2>6, <4>1, <5>1
        <5>3. QED
          BY <5>1, <5>2 DEF Chain
      <4>4. QED
        BY <4>2, <4>3
    <3>5. QED
      BY <3>1, <3>2, <3>3, <3>4 DEF Chain
  <2>9. IsReached(path', seen')
    <3>1. SUFFICES ASSUME NEW i \in 1..Len(path')
                   PROVE  /\ path'[i].index \in seen'
                          /\ path'[i].called <= Len(CallsOf(path'[i].index))
      BY DEF IsReached
    <3>2. CASE i \in 1..Len(p)
      BY <2>1, <2>6, <3>2 DEF IsReached
    <3>3. CASE i = Len(p) + 1
      <4>1. Len(CallsOf(index)) \in Nat
        BY <1>a, <1>3 DEF CallsOf, Facts
      <4>2. QED
        BY <2>1, <2>6, <2>7, <3>3, <4>1
    <3>4. QED
      BY <2>6, <2>7, <3>2, <3>3
  <2>10. ASSUME "recursion" \notin estimate'.unbounded
         PROVE  Followed(path', seen', {})
    <3>1. Followed(p, seen, {index})
      BY <2>3, <2>10
    <3>2. SUFFICES ASSUME NEW f \in seen', NEW j \in 1..Len(CallsOf(f)),
                          CallsOf(f)[j] \in Defined(module)
                   PROVE  CallsOf(f)[j] \in seen' \/ PendingOn(path', f, j)
      BY DEF Followed
    <3>3. CASE f = index
      <4>1. Len(p) + 1 \in 1..Len(path')
        BY <2>6, <2>7
      <4>2. 0 < j
        OBVIOUS
      <4>3. QED
        BY <2>6, <2>7, <3>3, <4>1, <4>2 DEF PendingOn
    <3>4. CASE f \in seen
      <4>1. CallsOf(f)[j] \in seen \cup {index} \/ PendingOn(p, f, j)
        BY <3>1, <3>2, <3>4 DEF Followed
      <4>2. PendingOn(p, f, j) => PendingOn(path', f, j)
        BY <2>6, <2>7 DEF PendingOn
      <4>3. QED
        BY <2>1, <4>1, <4>2
    <3>5. QED
      BY <2>1, <3>3, <3>4
  <2>11. QED
    BY <2>3, <2>4, <2>5, <2>6, <2>8, <2>9, <2>10
<1>4. QED
  BY <1>1, <1>2, <1>3

LEMMA InitHolds == Init => IInv
<1> SUFFICES ASSUME Init PROVE IInv
  OBVIOUS
<1>1. path = <<>> /\ seen = {} /\ entries = <<>> /\ kept = {} /\ estimate = Zero
  BY DEF Init
<1>2. TypeOK
  <2>1. Zero \in Estimates
    BY DEF Zero, Estimates
  <2>2. path \in Seq([index : Nat, called : Nat]) /\ entries \in Seq(Rows)
    BY <1>1
  <2>3. QED
    BY <1>1, <2>1, <2>2 DEF Init, TypeOK
<1>3. Phases
  BY DEF Init, Phases
<1>4. PathIsASimpleChain
  BY <1>1, MaxDepthAssumption DEF PathIsASimpleChain
<1>5. PathIsReached /\ CallsAreFollowed /\ FlagsAreRaised
  BY <1>1 DEF PathIsReached, CallsAreFollowed, FlagsAreRaised
<1> QED
  BY <1>1, <1>2, <1>3, <1>4, <1>5 DEF IInv

\* The parts about the walk depend on the file and on its three variables.
LEMMA WalkUnchanged ==
  ASSUME IInv, UNCHANGED <<binary, estimate, path, seen>>
  PROVE  /\ PathIsASimpleChain'
         /\ (seen \subseteq Defined(module))'
         /\ PathIsReached'
         /\ CallsAreFollowed'
         /\ FlagsAreRaised'
<1>1. module' = module /\ estimate' = estimate /\ path' = path /\ seen' = seen
  BY DEF module
<1> HIDE DEF module
<1>2. PathIsASimpleChain' /\ (seen \subseteq Defined(module))'
  BY <1>1 DEF IInv, PathIsASimpleChain
<1>3. PathIsReached' /\ FlagsAreRaised'
  BY <1>1 DEF IInv, PathIsReached, FlagsAreRaised
<1>4. CallsAreFollowed'
  BY <1>1 DEF IInv, CallsAreFollowed, Pending
<1> QED
  BY <1>2, <1>3, <1>4

\* From the parts as WalkKeeps states them to the invariant.
LEMMA WalkPrimed ==
  ASSUME UNCHANGED binary,
         Chain(path'), IsReached(path', seen'),
         seen' \subseteq Defined(module),
         "recursion" \notin estimate'.unbounded => Followed(path', seen', {})
  PROVE  /\ PathIsASimpleChain'
         /\ (seen \subseteq Defined(module))'
         /\ PathIsReached'
         /\ CallsAreFollowed'
<1>1. module' = module
  BY DEF module
<1> HIDE DEF module
<1>2. PathIsASimpleChain' /\ (seen \subseteq Defined(module))'
  BY <1>1 DEF Chain, CallsOf, PathIsASimpleChain
<1>3. PathIsReached'
  BY <1>1 DEF IsReached, CallsOf, PathIsReached
<1>4. CallsAreFollowed'
  BY <1>1 DEF Followed, CallsOf, PendingOn, CallsAreFollowed, Pending
<1> QED
  BY <1>2, <1>3, <1>4

LEMMA StartEntryKeeps == IInv /\ StartEntry => IInv'
<1> SUFFICES ASSUME IInv, StartEntry PROVE IInv'
  OBVIOUS
<1>1. /\ TypeOK /\ Phases /\ FlagsAreRaised /\ seen \subseteq Defined(module)
      /\ phase = "entry" /\ ~Refused(binary)
      /\ path = <<>> /\ seen = {} /\ estimate = Zero
  BY DEF IInv, Phases, StartEntry
<1>2. /\ next <= Len(module.exports)
      /\ reported' = reported \cup {Export.to}
      /\ phase' = "walk"
      /\ Walk(Export.to, <<>>)
      /\ UNCHANGED <<binary, request, next, entries, kept, status>>
  BY DEF StartEntry
<1>3. Export.to \in Nat /\ Export.to \in HostImports(module) \cup Defined(module)
  <2>1. next \in 1..Len(module.exports)
    BY <1>1, <1>2, ModuleTyped DEF TypeOK
  <2>2. QED
    BY <1>1, <2>1, ModuleTyped DEF Export, TypeOK
<1>4. /\ <<>> \in Seq(Frames)
      /\ Chain(<<>>) /\ IsReached(<<>>, seen)
      /\ Followed(<<>>, seen, {Export.to})
  BY <1>1, MaxDepthAssumption DEF Chain, IsReached, Followed
<1>5. /\ estimate' \in Estimates /\ path' \in Seq(Frames) /\ seen' \subseteq Nat
      /\ seen' \subseteq Defined(module)
      /\ FlagsAreRaised'
      /\ Chain(path') /\ IsReached(path', seen')
      /\ "recursion" \notin estimate'.unbounded => Followed(path', seen', {})
  BY <1>1, <1>2, <1>3, <1>4, WalkKeeps
<1>6. TypeOK'
  BY <1>1, <1>2, <1>3, <1>5 DEF TypeOK, Frames, module
<1>7. Phases'
  BY <1>1, <1>2 DEF Phases, module
<1>8. QED
  BY <1>2, <1>5, <1>6, <1>7, WalkPrimed DEF IInv

LEMMA CallKeeps == IInv /\ Call => IInv'
<1> SUFFICES ASSUME IInv, Call PROVE IInv'
  OBVIOUS
<1> DEFINE n == Len(path)
           p == [path EXCEPT ![n].called = @ + 1]
           target == TopCalls[Top.called + 1]
<1>1. /\ TypeOK /\ Phases /\ FlagsAreRaised /\ seen \subseteq Defined(module)
      /\ ~Refused(binary)
      /\ Chain(path) /\ IsReached(path, seen)
      /\ "recursion" \notin estimate.unbounded => Followed(path, seen, {})
  BY Parts DEF IInv, Phases, Call
<1>2. /\ phase = "walk" /\ path # <<>> /\ Top.called < Len(TopCalls)
      /\ Walk(target, p)
      /\ UNCHANGED <<binary, request, phase, next, reported, entries, kept, status>>
  BY DEF Call
<1>3. /\ path \in Seq(Frames) /\ n \in Nat \ {0}
      /\ path[n] \in Frames /\ path[n].index \in Defined(module)
      /\ Top = path[n] /\ TopCalls = CallsOf(path[n].index)
  <2>1. path \in Seq(Frames) /\ n \in Nat \ {0}
    BY <1>1, <1>2 DEF TypeOK, Frames
  <2>2. path[n] \in Frames /\ path[n].index \in Defined(module)
    BY <1>1, <2>1 DEF Chain
  <2>3. Top = path[n] /\ TopCalls = CallsOf(path[n].index)
    BY DEF Top, TopCalls, CallsOf
  <2>4. QED
    BY <2>1, <2>2, <2>3
<1>4. TopCalls \in Seq(Nat) /\ Top.called \in Nat
  BY <1>1, <1>3, ModuleTyped DEF CallsOf, Facts, Frames, TypeOK
<1>5. Top.called + 1 \in 1..Len(TopCalls) /\ target \in Nat
  BY <1>2, <1>4
<1>6. /\ p \in Seq(Frames) /\ Len(p) = n
      /\ \A i \in 1..n : p[i].index = path[i].index
      /\ \A i \in 1..n : i # n => p[i] = path[i]
      /\ p[n].called = Top.called + 1
  <2>1. \A f \in Frames : [f EXCEPT !.called = @ + 1]
                            = [index |-> f.index, called |-> f.called + 1]
    BY DEF Frames
  <2>2. p = [path EXCEPT ![n] = [index |-> path[n].index, called |-> path[n].called + 1]]
    BY <1>3, <2>1
  <2>3. [index |-> path[n].index, called |-> path[n].called + 1] \in Frames
    BY <1>3 DEF Frames
  <2>4. QED
    BY <1>3, <2>2, <2>3
<1> HIDE DEF p
<1>7. Chain(p)
  <2>1. /\ n <= MaxDepth + 1
        /\ \A i \in 1..n : path[i].index \in Defined(module)
        /\ \A i, j \in 1..n : path[i].index = path[j].index => i = j
        /\ \A i \in 1..(n - 1) :
             /\ path[i].called \in 1..Len(CallsOf(path[i].index))
             /\ CallsOf(path[i].index)[path[i].called] = path[i + 1].index
    BY <1>1 DEF Chain
  <2> HIDE DEF n
  <2>2. \A i \in 1..(n - 1) : i \in 1..n /\ i # n /\ i + 1 \in 1..n
    BY <1>3
  <2>3. \A i \in 1..(n - 1) :
          /\ p[i].called \in 1..Len(CallsOf(p[i].index))
          /\ CallsOf(p[i].index)[p[i].called] = p[i + 1].index
    BY <1>6, <2>1, <2>2
  <2>4. QED
    BY <1>6, <2>1, <2>3 DEF Chain
<1>8. IsReached(p, seen)
  <2>1. ASSUME NEW i \in 1..n
        PROVE  p[i].index \in seen /\ p[i].called <= Len(CallsOf(p[i].index))
    <3>1. path[i].index \in seen /\ path[i].called <= Len(CallsOf(path[i].index))
      BY <1>1 DEF IsReached
    <3>2. CASE i = n
      BY <1>3, <1>5, <1>6, <3>1, <3>2
    <3>3. CASE i # n
      BY <1>6, <3>1, <3>3
    <3>4. QED
      BY <3>2, <3>3
  <2>2. QED
    BY <1>6, <2>1 DEF IsReached
<1>9. ASSUME "recursion" \notin estimate.unbounded
      PROVE  Followed(p, seen, {target})
  <2>1. SUFFICES ASSUME NEW f \in seen, NEW j \in 1..Len(CallsOf(f)),
                        CallsOf(f)[j] \in Defined(module)
                 PROVE  CallsOf(f)[j] \in seen \cup {target} \/ PendingOn(p, f, j)
    BY DEF Followed
  <2>2. CallsOf(f)[j] \in seen \/ PendingOn(path, f, j)
    BY <1>1, <1>9, <2>1 DEF Followed
  <2>3. ASSUME PendingOn(path, f, j)
        PROVE  CallsOf(f)[j] = target \/ PendingOn(p, f, j)
    <3>1. PICK i \in 1..n : path[i].index = f /\ path[i].called < j
      BY <2>3 DEF PendingOn
    <3>2. CASE i # n
      BY <1>6, <3>1, <3>2 DEF PendingOn
    <3>3. CASE i = n
      <4>1. Top.called < j /\ f = path[n].index
        BY <1>3, <3>1, <3>3
      <4>2. j = Top.called + 1 \/ Top.called + 1 < j
        BY <1>4, <4>1
      <4>3. CASE j = Top.called + 1
        BY <1>3, <4>1, <4>3
      <4>4. CASE Top.called + 1 < j
        BY <1>6, <3>1, <3>3, <4>4 DEF PendingOn
      <4>5. QED
        BY <4>2, <4>3, <4>4
    <3>4. QED
      BY <3>2, <3>3
  <2>4. QED
    BY <2>2, <2>3
<1>10. /\ p[Len(p)].called \in 1..Len(CallsOf(p[Len(p)].index))
       /\ CallsOf(p[Len(p)].index)[p[Len(p)].called] = target
  BY <1>3, <1>5, <1>6
<1> HIDE DEF target
<1>11. /\ estimate' \in Estimates /\ path' \in Seq(Frames) /\ seen' \subseteq Nat
       /\ seen' \subseteq Defined(module)
       /\ FlagsAreRaised'
       /\ Chain(path') /\ IsReached(path', seen')
       /\ "recursion" \notin estimate'.unbounded => Followed(path', seen', {})
  BY <1>1, <1>2, <1>5, <1>6, <1>7, <1>8, <1>9, <1>10, WalkKeeps
<1>12. TypeOK'
  BY <1>1, <1>2, <1>11 DEF TypeOK, Frames, module
<1>13. Phases'
  BY <1>1, <1>2 DEF Phases, module
<1>14. QED
  BY <1>2, <1>11, <1>12, <1>13, WalkPrimed DEF IInv

\* An action that leaves the walk alone.
LEMMA LoadKeeps == IInv /\ Load => IInv'
<1> SUFFICES ASSUME IInv, Load PROVE IInv'
  OBVIOUS
<1>1. /\ phase = "load" /\ UNCHANGED <<binary, request, next, reported, entries, kept>>
      /\ UNCHANGED <<estimate, path, seen>>
      /\ \/ Refused(binary) /\ phase' = "done" /\ status' = 2
         \/ ~Refused(binary) /\ phase' = "entry" /\ status' = status
  BY DEF Load, Exit, walkVars
<1>2. TypeOK'
  BY <1>1 DEF IInv, TypeOK, module
<1>3. Phases'
  BY <1>1 DEF IInv, Phases, module
<1>4. QED
  BY <1>1, <1>2, <1>3, WalkUnchanged DEF IInv

LEMMA SkipAliasKeeps == IInv /\ SkipAlias => IInv'
<1> SUFFICES ASSUME IInv, SkipAlias PROVE IInv'
  OBVIOUS
<1>1. /\ phase = "entry" /\ next' = next + 1
      /\ UNCHANGED <<binary, request, phase, reported, entries, kept, status>>
      /\ UNCHANGED <<estimate, path, seen>>
  BY DEF SkipAlias, walkVars
<1>2. TypeOK'
  BY <1>1 DEF IInv, TypeOK, module
<1>3. Phases'
  BY <1>1 DEF IInv, Phases, module
<1>4. QED
  BY <1>1, <1>2, <1>3, WalkUnchanged DEF IInv

LEMMA GateKeeps == IInv /\ Gate => IInv'
<1> SUFFICES ASSUME IInv, Gate PROVE IInv'
  OBVIOUS
<1>1. /\ phase = "entry" /\ phase' = "done"
      /\ UNCHANGED <<binary, request, next, reported, entries>>
      /\ UNCHANGED <<estimate, path, seen>>
      /\ status' \in 0..2
      /\ kept' = kept \/ kept' = Retained
  BY DEF Gate, Exit, walkVars
<1>2. kept' \subseteq 1..Len(entries')
  BY <1>1 DEF IInv, TypeOK, Retained
<1>3. TypeOK'
  BY <1>1, <1>2 DEF IInv, TypeOK, module
<1>4. Phases'
  BY <1>1 DEF IInv, Phases
<1>5. QED
  BY <1>1, <1>3, <1>4, WalkUnchanged DEF IInv

LEMMA FinishEntryKeeps == IInv /\ FinishEntry => IInv'
<1> SUFFICES ASSUME IInv, FinishEntry PROVE IInv'
  OBVIOUS
<1>0. module' = module
  BY DEF FinishEntry, module
<1> DEFINE row == [name         |-> Export.name,
                   functions    |-> Cardinality(seen),
                   instructions |-> estimate.instructions,
                   hostCalls    |-> estimate.hostCalls,
                   unbounded    |-> estimate.unbounded,
                   loops        |-> estimate.loops,
                   indirect     |-> estimate.indirect]
<1>1. /\ TypeOK /\ Phases /\ seen \subseteq Defined(module)
      /\ phase = "walk" /\ ~Refused(binary) /\ next <= Len(module.exports)
  BY DEF IInv, Phases, FinishEntry
<1>2. /\ path = <<>> /\ entries' = Append(entries, row)
      /\ estimate' = Zero /\ seen' = {} /\ path' = path
      /\ next' = next + 1 /\ phase' = "entry"
      /\ UNCHANGED <<binary, request, reported, path, kept, status>>
  BY DEF FinishEntry
<1>3. row \in Rows
  <2>1. next \in 1..Len(module.exports)
    BY <1>1, ModuleTyped DEF TypeOK
  <2>2. Export.name \in STRING
    BY <1>1, <2>1, ModuleTyped DEF Export, TypeOK
  <2>3. Cardinality(seen) \in Nat
    <3>1. seen \in SUBSET Defined(module) /\ IsFiniteSet(Defined(module))
      BY <1>1, ModuleTyped DEF TypeOK
    <3>2. QED
      BY <3>1, FS_Subset, FS_CardinalityType
  <2>4. estimate \in Estimates
    BY <1>1 DEF TypeOK
  <2>5. QED
    BY <2>2, <2>3, <2>4 DEF Estimates, Rows
<1> HIDE DEF row
<1>4. TypeOK'
  <2>1. entries' \in Seq(Rows) /\ kept' \subseteq 1..Len(entries')
    BY <1>1, <1>2, <1>3 DEF TypeOK
  <2>2. Zero \in Estimates
    BY DEF Zero, Estimates
  <2>3. QED
    BY <1>1, <1>2, <2>1, <2>2 DEF TypeOK, module
<1>5. Phases'
  BY <1>1, <1>2 DEF Phases, module
<1>6. PathIsASimpleChain' /\ (seen \subseteq Defined(module))'
  BY <1>2, MaxDepthAssumption DEF PathIsASimpleChain
<1>7. PathIsReached' /\ CallsAreFollowed' /\ FlagsAreRaised'
  BY <1>2 DEF PathIsReached, CallsAreFollowed, FlagsAreRaised
<1>8. QED
  BY <1>4, <1>5, <1>6, <1>7 DEF IInv

LEMMA ReturnKeeps == IInv /\ Return => IInv'
<1> SUFFICES ASSUME IInv, Return PROVE IInv'
  OBVIOUS
<1> DEFINE n == Len(path)
<1>1. /\ TypeOK /\ Phases /\ FlagsAreRaised /\ seen \subseteq Defined(module)
      /\ ~Refused(binary)
      /\ Chain(path) /\ IsReached(path, seen)
      /\ "recursion" \notin estimate.unbounded => Followed(path, seen, {})
  BY Parts DEF IInv, Phases, Return
<1>2. /\ phase = "walk" /\ path # <<>> /\ Top.called = Len(TopCalls)
      /\ path' = SubSeq(path, 1, n - 1)
      /\ UNCHANGED <<binary, request, phase, next, reported, estimate, seen,
                     entries, kept, status>>
  BY DEF Return
<1>3. /\ path \in Seq(Frames) /\ n \in Nat \ {0}
      /\ Top = path[n] /\ TopCalls = CallsOf(path[n].index)
  BY <1>1, <1>2 DEF TypeOK, Frames, Top, TopCalls, CallsOf
<1>4. /\ path' \in Seq(Frames) /\ Len(path') = n - 1
      /\ \A i \in 1..(n - 1) : path'[i] = path[i]
  <2>1. n - 1 \in Nat /\ n - 1 <= Len(path) /\ \A i \in 1..(n - 1) : i \in 1..n
    BY <1>3
  <2>2. \A i \in 1..(n - 1) : path[i] \in Frames
    BY <1>3, <2>1
  <2> DEFINE m == n - 1
  <2> HIDE DEF m, n
  <2>3. m \in Nat /\ \A i \in 1..m : path[i] \in Frames
    BY <2>1, <2>2 DEF m
  <2>4. /\ SubSeq(path, 1, m) \in Seq(Frames) /\ Len(SubSeq(path, 1, m)) = m
        /\ \A i \in 1..m : SubSeq(path, 1, m)[i] = path[i]
    BY <2>3
  <2>5. QED
    BY <1>2, <2>4 DEF m
<1>5. Chain(path')
  <2>1. /\ n <= MaxDepth + 1
        /\ \A i \in 1..n : path[i].index \in Defined(module)
        /\ \A i, j \in 1..n : path[i].index = path[j].index => i = j
        /\ \A i \in 1..(n - 1) :
             /\ path[i].called \in 1..Len(CallsOf(path[i].index))
             /\ CallsOf(path[i].index)[path[i].called] = path[i + 1].index
    BY <1>1 DEF Chain
  <2> HIDE DEF n
  <2>2. /\ n - 1 <= MaxDepth + 1
        /\ \A i \in 1..(n - 1) : i \in 1..n
        /\ \A i \in 1..(n - 2) : i \in 1..(n - 1) /\ i + 1 \in 1..(n - 1)
    BY <1>3, <2>1, MaxDepthAssumption
  <2>3. (n - 1) - 1 = n - 2
    BY <1>3
  <2>4. QED
    BY <1>4, <2>1, <2>2, <2>3 DEF Chain
<1>6. IsReached(path', seen')
  <2>1. \A i \in 1..(n - 1) : i \in 1..n
    BY <1>3
  <2>2. QED
    BY <1>1, <1>2, <1>4, <2>1 DEF IsReached
<1>7. ASSUME "recursion" \notin estimate'.unbounded
      PROVE  Followed(path', seen', {})
  <2>1. SUFFICES ASSUME NEW f \in seen, NEW j \in 1..Len(CallsOf(f)),
                        CallsOf(f)[j] \in Defined(module)
                 PROVE  CallsOf(f)[j] \in seen \/ PendingOn(path', f, j)
    BY <1>2 DEF Followed
  <2>2. CallsOf(f)[j] \in seen \/ PendingOn(path, f, j)
    BY <1>1, <1>2, <1>7, <2>1 DEF Followed
  <2>3. ASSUME PendingOn(path, f, j)
        PROVE  PendingOn(path', f, j)
    <3>1. PICK i \in 1..n : path[i].index = f /\ path[i].called < j
      BY <2>3 DEF PendingOn
    <3>2. i # n
      <4>1. SUFFICES ASSUME i = n PROVE FALSE
        OBVIOUS
      <4>2. f = path[n].index /\ path[n].called < j /\ j \in 1..Len(CallsOf(path[n].index))
        BY <3>1, <4>1
      <4>3. path[n].called = Len(CallsOf(path[n].index))
        BY <1>2, <1>3
      <4>4. Len(CallsOf(path[n].index)) \in Nat
        <5>1. path[n] \in Frames
          BY <1>3
        <5>2. QED
          BY <4>3, <5>1 DEF Frames
      <4>5. QED
        BY <4>2, <4>3, <4>4
    <3>3. i \in 1..(n - 1)
      BY <1>3, <3>2
    <3>4. QED
      BY <1>4, <3>1, <3>3 DEF PendingOn
  <2>4. QED
    BY <2>2, <2>3
<1>8. TypeOK'
  BY <1>1, <1>2, <1>4 DEF TypeOK, Frames, module
<1>9. Phases'
  BY <1>1, <1>2 DEF Phases, module
<1>10. FlagsAreRaised'
  BY <1>1, <1>2 DEF FlagsAreRaised, module
<1>11. seen' \subseteq Defined(module)
  BY <1>1, <1>2
<1>12. QED
  BY <1>2, <1>5, <1>6, <1>7, <1>8, <1>9, <1>10, <1>11, WalkPrimed DEF IInv

LEMMA StepKeeps == IInv /\ [Next]_vars => IInv'
<1> SUFFICES ASSUME IInv, [Next]_vars
             PROVE  IInv'
  OBVIOUS
<1>1. CASE Next
  BY <1>1, LoadKeeps, SkipAliasKeeps, StartEntryKeeps, CallKeeps, ReturnKeeps,
     FinishEntryKeeps, GateKeeps DEF Next
<1>2. CASE UNCHANGED vars
  <2>1. /\ UNCHANGED <<binary, estimate, path, seen>>
        /\ UNCHANGED <<request, phase, next, reported, entries, kept, status>>
    BY <1>2 DEF vars
  <2>2. TypeOK' /\ Phases'
    BY <2>1 DEF IInv, TypeOK, Phases, module
  <2>3. QED
    BY <2>1, <2>2, WalkUnchanged DEF IInv
<1>3. QED
  BY <1>1, <1>2

\* The state of the run of soroban-budget is always as IInv says.
THEOREM WalkInvariant == Spec => []IInv
BY InitHolds, StepKeeps, PTL DEF Spec

\* The run keeps its types, for every file.
THEOREM TypeCorrect == Spec => []TypeOK
<1>1. IInv => TypeOK
  BY DEF IInv
<1> QED
  BY WalkInvariant, <1>1, PTL

\* walk never re-enters a function it is inside of and never goes deeper than
\* MAX_DEPTH, for every call graph (the guard at estimate.rs:214).
THEOREM PathStaysSimple == Spec => []PathIsASimpleChain
<1>1. IInv => PathIsASimpleChain
  BY DEF IInv
<1> QED
  BY WalkInvariant, <1>1, PTL

\* An exact row has been everywhere its entry can go by direct calls and met
\* no loop and no indirect call (EntryEstimate::is_exact).
THEOREM ExactRowsAreClosed == Spec => ExactRowIsClosed
<1> DEFINE Closed ==
      entries' # entries /\ IsExact(entries'[Len(entries')]) =>
        \A f \in seen :
          /\ CalledBy(module, f) \cap Defined(module) \subseteq seen
          /\ Function(module, f).loops = 0
          /\ Function(module, f).indirect = 0
<1>1. IInv /\ [Next]_vars => Closed
  <2> SUFFICES ASSUME IInv, [Next]_vars, entries' # entries,
                      IsExact(entries'[Len(entries')]), NEW f \in seen
               PROVE  /\ CalledBy(module, f) \cap Defined(module) \subseteq seen
                      /\ Function(module, f).loops = 0
                      /\ Function(module, f).indirect = 0
    OBVIOUS
  <2>0. FinishEntry
    BY DEF Next, Load, SkipAlias, StartEntry, Call, Return, Gate, walkVars, vars
  <2>1. /\ path = <<>> /\ phase = "walk" /\ estimate.unbounded = {}
        /\ TypeOK /\ ~Refused(binary)
    <3> DEFINE row == [name         |-> Export.name,
                       functions    |-> Cardinality(seen),
                       instructions |-> estimate.instructions,
                       hostCalls    |-> estimate.hostCalls,
                       unbounded    |-> estimate.unbounded,
                       loops        |-> estimate.loops,
                       indirect     |-> estimate.indirect]
    <3>1. path = <<>> /\ phase = "walk" /\ entries' = Append(entries, row)
      BY <2>0 DEF FinishEntry
    <3>2. row.unbounded = estimate.unbounded
      OBVIOUS
    <3> HIDE DEF row
    <3>3. entries \in Seq(Rows) /\ TypeOK /\ ~Refused(binary)
      BY <3>1 DEF IInv, TypeOK, Phases
    <3>4. entries'[Len(entries')] = row
      BY <3>1, <3>3
    <3>5. QED
      BY <3>1, <3>2, <3>3, <3>4 DEF IsExact
  <2>2. Function(module, f) \in Facts
    BY <2>1, ModuleTyped DEF IInv, TypeOK
  <2>3. Function(module, f).loops \in Nat /\ Function(module, f).indirect \in Nat
    BY <2>2 DEF Facts
  <2>4. ~(Function(module, f).loops > 0) /\ ~(Function(module, f).indirect > 0)
    BY <2>1 DEF IInv, FlagsAreRaised
  <2>5. ASSUME NEW j \in 1..Len(Function(module, f).calls),
               Function(module, f).calls[j] \in Defined(module)
        PROVE  Function(module, f).calls[j] \in seen
    <3>1. Function(module, f).calls[j] \in seen \/ Pending(f, j)
      BY <2>1, <2>5 DEF IInv, CallsAreFollowed
    <3>2. ~Pending(f, j)
      BY <2>1 DEF Pending
    <3>3. QED
      BY <3>1, <3>2
  <2>6. QED
    BY <2>3, <2>4, <2>5 DEF CalledBy
<1> QED
  BY WalkInvariant, <1>1, PTL DEF Spec, ExactRowIsClosed

\* u[k] is the sum of the first k of s.
PartialSums(u, s, n) ==
  /\ u \in [0..n -> Nat]
  /\ u[0] = 0
  /\ \A i \in 1..n : u[i] = u[i - 1] + s[i]
  /\ \A k \in 0..n : UpTo(s, k) = u[k]

LEMMA SumRuns ==
  ASSUME NEW n \in Nat, NEW s, \A i \in 1..n : s[i] \in Nat
  PROVE  \E u : PartialSums(u, s, n)
<1> DEFINE step == [x \in Nat \X Nat |-> x[2] + (IF x[1] \in 1..n THEN s[x[1]] ELSE 0)]
<1>1. step \in [Nat \X Nat -> Nat]
  OBVIOUS
<1>2. \A i \in 1..n : \A x \in Nat : step[<<i, x>>] = x + s[i]
  OBVIOUS
<1> HIDE DEF step
<1>3. PICK u : IsRun(u, Nat, 0, step, n)
  BY <1>1, RecursionExists
<1>4. u \in [0..n -> Nat] /\ u[0] = 0 /\ \A i \in 1..n : u[i] = u[i - 1] + s[i]
  <2>1. u \in [0..n -> Nat] /\ u[0] = 0 /\ \A i \in 1..n : u[i] = step[<<i, u[i - 1]>>]
    BY <1>3 DEF IsRun
  <2>2. \A i \in 1..n : u[i - 1] \in Nat
    BY <2>1
  <2>3. QED
    BY <1>2, <2>1, <2>2
<1>5. ASSUME NEW k \in 0..n
      PROVE  UpTo(s, k) = u[k]
  <2> DEFINE t == [i \in 1..k |-> s[i]]
             Rec(g) == g = [i \in 0..k |-> IF i = 0 THEN 0 ELSE g[i - 1] + t[i]]
             f == CHOOSE g : Rec(g)
  <2>1. k \in Nat /\ Len(t) = k /\ \A i \in 1..k : t[i] = s[i] /\ i \in 1..n
    OBVIOUS
  <2>2. UpTo(s, k) = f[k]
    <3>1. UpTo(s, k) = (CHOOSE g : g = [i \in 0..Len(t) |-> IF i = 0 THEN 0 ELSE g[i - 1] + t[i]])[Len(t)]
      BY DEF UpTo, SumOf
    <3>2. QED
      BY <2>1, <3>1
  <2> HIDE DEF t
  <2>3. Rec([i \in 0..k |-> u[i]])
    <3> DEFINE g == [i \in 0..k |-> u[i]]
    <3>1. ASSUME NEW i \in 0..k
          PROVE  u[i] = IF i = 0 THEN 0 ELSE g[i - 1] + t[i]
      <4>1. CASE i = 0
        BY <1>4, <4>1
      <4>2. CASE i # 0
        <5>1. i \in 1..k /\ i - 1 \in 0..k /\ i \in 1..n
          BY <2>1, <4>2
        <5>2. g[i - 1] = u[i - 1]
          BY <5>1
        <5>3. QED
          BY <1>4, <2>1, <4>2, <5>1, <5>2
      <4>3. QED
        BY <4>1, <4>2
    <3>2. QED
      BY <3>1
  <2>4. Rec(f)
    BY <2>3
  <2> HIDE DEF f
  <2>5. f[0] = 0 /\ \A i \in 1..k : f[i] = f[i - 1] + t[i]
    BY <2>1, <2>4
  <2> HIDE DEF Rec
  <2> DEFINE T == {i \in Nat : i <= k => f[i] = u[i]}
  <2>6. 0 \in T
    BY <1>4, <2>5
  <2>7. ASSUME NEW i \in T
        PROVE  i + 1 \in T
    <3>1. SUFFICES ASSUME i + 1 <= k
                   PROVE  f[i + 1] = u[i + 1]
      OBVIOUS
    <3>2. i \in Nat /\ f[i] = u[i] /\ i + 1 \in 1..k /\ (i + 1) - 1 = i
      BY <2>1, <3>1
    <3>3. QED
      BY <1>4, <2>1, <2>5, <3>2
  <2>8. T = Nat
    <3>1. T \in SUBSET Nat
      OBVIOUS
    <3> HIDE DEF T
    <3>2. QED
      BY <2>6, <2>7, <3>1, NatInducts
  <2>9. QED
    BY <2>1, <2>2, <2>8
<1>6. QED
  BY <1>4, <1>5 DEF PartialSums

\* The sum of the first n of s, one by one.
LEMMA SumGrows ==
  ASSUME NEW n \in Nat, NEW s, \A i \in 1..n : s[i] \in Nat
  PROVE  /\ UpTo(s, 0) = 0
         /\ UpTo(s, n) \in Nat
         /\ n > 0 => UpTo(s, n) = UpTo(s, n - 1) + s[n] /\ UpTo(s, n - 1) \in Nat
<1>1. PICK u : PartialSums(u, s, n)
  BY SumRuns
<1>2. 0 \in 0..n /\ n \in 0..n
  OBVIOUS
<1>3. n > 0 => n \in 1..n /\ n - 1 \in 0..n
  OBVIOUS
<1>4. QED
  BY <1>1, <1>2, <1>3 DEF PartialSums

\* A sequence is the first of it up to its length.
LEMMA SumIsUpTo ==
  ASSUME NEW n \in Nat, NEW s, s = [i \in 1..n |-> s[i]]
  PROVE  SumOf(s) = UpTo(s, n)
BY DEF UpTo

LEMMA SumOfTheSame ==
  ASSUME NEW n \in Nat, NEW s, NEW t, \A i \in 1..n : s[i] = t[i]
  PROVE  UpTo(s, n) = UpTo(t, n)
<1>1. [i \in 1..n |-> s[i]] = [i \in 1..n |-> t[i]]
  OBVIOUS
<1>2. QED
  BY <1>1 DEF UpTo

-----------------------------------------------------------------------------
(* The call tree *)

\* What the proofs below need of a module.
WellFormed(m) ==
  /\ IsFiniteSet(Defined(m))
  /\ Defined(m) \subseteq Nat
  /\ \A f \in Defined(m) : Function(m, f) \in Facts
  /\ \A f \in Defined(m) : \A j \in 1..Len(Function(m, f).calls) :
       Function(m, f).calls[j] \notin HostImports(m)

LEMMA ModuleIsWellFormed ==
  ASSUME binary \in Binaries, ~Refused(binary)
  PROVE  WellFormed(module)
<1> HIDE DEF module
<1> QED
  BY ModuleTyped DEF WellFormed

Callees(m, f) == Function(m, f).calls

LEMMA OfCallsTyped ==
  ASSUME NEW m, WellFormed(m), NEW g \in Defined(m), NEW below \in [Defined(m) -> Nat]
  PROVE  /\ Len(Callees(m, g)) \in Nat
         /\ OfCalls(m, g, below) =
              [j \in 1..Len(Callees(m, g)) |-> OfCalls(m, g, below)[j]]
         /\ \A j \in 1..Len(Callees(m, g)) :
              /\ OfCalls(m, g, below)[j] \in Nat
              /\ OfCalls(m, g, below)[j] =
                   IF Callees(m, g)[j] \in Defined(m) THEN below[Callees(m, g)[j]] ELSE 0
<1>1. Function(m, g) \in Facts
  BY DEF WellFormed
<1>2. Callees(m, g) \in Seq(Nat)
  BY <1>1 DEF Facts, Callees
<1> DEFINE s == OfCalls(m, g, below)
<1>3. s = [j \in 1..Len(Callees(m, g)) |->
             IF Callees(m, g)[j] \in Defined(m) THEN below[Callees(m, g)[j]] ELSE 0]
  BY DEF OfCalls, Callees
<1> HIDE DEF s
<1>4. \A j \in 1..Len(Callees(m, g)) :
        s[j] = IF Callees(m, g)[j] \in Defined(m) THEN below[Callees(m, g)[j]] ELSE 0
  BY <1>3
<1>5. \A j \in 1..Len(Callees(m, g)) : s[j] \in Nat
  BY <1>4
<1>6. s = [j \in 1..Len(Callees(m, g)) |-> s[j]]
  BY <1>3
<1>7. Len(Callees(m, g)) \in Nat
  BY <1>2
<1>8. QED
  BY <1>4, <1>5, <1>6, <1>7 DEF s

\* The first calls of g, up to all of them.
LEMMA CallsSum ==
  ASSUME NEW m, WellFormed(m), NEW g \in Defined(m), NEW below \in [Defined(m) -> Nat]
  PROVE  /\ SumOf(OfCalls(m, g, below)) = UpTo(OfCalls(m, g, below), Len(Callees(m, g)))
         /\ UpTo(OfCalls(m, g, below), 0) = 0
         /\ \A j \in 0..Len(Callees(m, g)) : UpTo(OfCalls(m, g, below), j) \in Nat
         /\ \A j \in 1..Len(Callees(m, g)) :
              UpTo(OfCalls(m, g, below), j) =
                UpTo(OfCalls(m, g, below), j - 1)
                + (IF Callees(m, g)[j] \in Defined(m) THEN below[Callees(m, g)[j]] ELSE 0)
<1> DEFINE s == OfCalls(m, g, below)
           n == Len(Callees(m, g))
<1>1. /\ n \in Nat
      /\ s = [j \in 1..n |-> s[j]]
      /\ \A j \in 1..n : /\ s[j] \in Nat
                         /\ s[j] = IF Callees(m, g)[j] \in Defined(m)
                                   THEN below[Callees(m, g)[j]] ELSE 0
  BY OfCallsTyped
<1> HIDE DEF s, n
<1>2. SumOf(s) = UpTo(s, n)
  BY <1>1, SumIsUpTo
<1>3. UpTo(s, 0) = 0
  BY <1>1, SumGrows
<1>4. ASSUME NEW j \in 0..n
      PROVE  /\ UpTo(s, j) \in Nat
             /\ j > 0 => UpTo(s, j) = UpTo(s, j - 1) + s[j]
  <2>1. j \in Nat /\ \A i \in 1..j : s[i] \in Nat
    BY <1>1
  <2>2. QED
    BY <2>1, SumGrows
<1>5. ASSUME NEW j \in 1..n
      PROVE  UpTo(s, j) = UpTo(s, j - 1)
               + (IF Callees(m, g)[j] \in Defined(m) THEN below[Callees(m, g)[j]] ELSE 0)
  <2>1. j \in 0..n /\ j > 0
    BY <1>1
  <2>2. QED
    BY <1>1, <1>4, <2>1
<1>6. QED
  BY <1>2, <1>3, <1>4, <1>5 DEF s, n

\* One call more: what the trees of the calls come to, and the function itself.
Grown(m, weight, below) ==
  [g \in Defined(m) |-> weight[g] + SumOf(OfCalls(m, g, below))]

LEMMA GrownTyped ==
  ASSUME NEW m, WellFormed(m), NEW weight \in [Defined(m) -> Nat],
         NEW below \in [Defined(m) -> Nat]
  PROVE  Grown(m, weight, below) \in [Defined(m) -> Nat]
<1>1. ASSUME NEW g \in Defined(m)
      PROVE  weight[g] + SumOf(OfCalls(m, g, below)) \in Nat
  <2>1. Len(Callees(m, g)) \in Nat
    BY OfCallsTyped
  <2>2. SumOf(OfCalls(m, g, below)) \in Nat
    BY <2>1, CallsSum
  <2>3. QED
    BY <2>2
<1>2. QED
  BY <1>1 DEF Grown

\* The sums over the call trees, by the depth at which they are cut.
LEMMA TreeSumsUnfold ==
  ASSUME NEW m, WellFormed(m), NEW weight \in [Defined(m) -> Nat], NEW d \in Nat
  PROVE  /\ TreeSums(m, weight, d) \in [Defined(m) -> Nat]
         /\ d = 0 => TreeSums(m, weight, d) = weight
         /\ d > 0 => TreeSums(m, weight, d) =
                       Grown(m, weight, TreeSums(m, weight, d - 1))
<1> DEFINE V == [Defined(m) -> Nat]
           step == [x \in Nat \X V |-> Grown(m, weight, x[2])]
<1>1. step \in [Nat \X V -> V]
  BY GrownTyped
<1>2. \A n \in Nat : \A b \in V : step[<<n, b>>] = Grown(m, weight, b)
  OBVIOUS
<1> HIDE DEF step
<1>3. PICK u : IsRun(u, V, weight, step, d)
  <2> HIDE DEF V
  <2>1. weight \in V
    BY DEF V
  <2>2. QED
    BY <1>1, <2>1, RecursionExists
<1>4. /\ u \in [0..d -> V] /\ u[0] = weight
      /\ \A n \in 1..d : u[n] = Grown(m, weight, u[n - 1])
  <2>1. u \in [0..d -> V] /\ u[0] = weight /\ \A n \in 1..d : u[n] = step[<<n, u[n - 1]>>]
    BY <1>3 DEF IsRun
  <2>2. \A n \in 1..d : u[n - 1] \in V
    <3> HIDE DEF V
    <3>1. QED
      BY <2>1
  <2>3. ASSUME NEW n \in 1..d
        PROVE  u[n] = Grown(m, weight, u[n - 1])
    <3> HIDE DEF V
    <3>1. n \in Nat /\ u[n - 1] \in V
      BY <2>2
    <3>2. step[<<n, u[n - 1]>>] = Grown(m, weight, u[n - 1])
      BY <1>2, <3>1
    <3>3. QED
      BY <2>1, <3>2
  <2>4. QED
    BY <2>1, <2>3
<1>5. ASSUME NEW k \in 0..d
      PROVE  TreeSums(m, weight, k) = u[k]
  <2> DEFINE level(n, below) ==
               [g \in Defined(m) |->
                  weight[g] + (IF n = 0 THEN 0 ELSE SumOf(OfCalls(m, g, below)))]
             Rec(f) == f = [n \in 0..k |-> level(n, f[n - 1])]
             sums == CHOOSE f : Rec(f)
  <2>1. TreeSums(m, weight, k) = sums[k]
    BY DEF TreeSums
  <2>2. \A b : level(0, b) = weight
    OBVIOUS
  <2>3. \A n \in 1..k : \A b : level(n, b) = Grown(m, weight, b)
    BY DEF Grown
  <2> HIDE DEF level
  <2>4. Rec([n \in 0..k |-> u[n]])
    <3> DEFINE f == [n \in 0..k |-> u[n]]
    <3>1. ASSUME NEW n \in 0..k
          PROVE  u[n] = level(n, f[n - 1])
      <4>1. CASE n = 0
        BY <1>4, <2>2, <4>1
      <4>2. CASE n # 0
        <5>1. n \in 1..k /\ n \in 1..d /\ n - 1 \in 0..k
          BY <4>2
        <5>2. f[n - 1] = u[n - 1]
          BY <5>1
        <5> HIDE DEF f
        <5>3. QED
          BY <1>4, <2>3, <5>1, <5>2
      <4>3. QED
        BY <4>1, <4>2
    <3>2. QED
      BY <3>1
  <2>5. Rec(sums)
    BY <2>4
  <2> HIDE DEF sums
  <2>6. sums[0] = weight /\ \A n \in 1..k : sums[n] = Grown(m, weight, sums[n - 1])
    BY <2>2, <2>3, <2>5
  <2> HIDE DEF Rec
  <2> DEFINE T == {n \in Nat : n <= k => sums[n] = u[n]}
  <2>7. 0 \in T
    BY <1>4, <2>6
  <2>8. ASSUME NEW n \in T
        PROVE  n + 1 \in T
    <3>1. SUFFICES ASSUME n + 1 <= k
                   PROVE  sums[n + 1] = u[n + 1]
      OBVIOUS
    <3>2. n \in Nat /\ sums[n] = u[n] /\ n + 1 \in 1..k /\ n + 1 \in 1..d
          /\ (n + 1) - 1 = n
      BY <3>1
    <3>3. QED
      BY <1>4, <2>6, <3>2
  <2>9. T = Nat
    <3>1. T \in SUBSET Nat
      OBVIOUS
    <3> HIDE DEF T
    <3>2. QED
      BY <2>7, <2>8, <3>1, NatInducts
  <2>10. QED
    BY <2>1, <2>9
<1>6. TreeSums(m, weight, d) = u[d] /\ u[d] \in V
  <2> HIDE DEF V
  <2>1. d \in 0..d
    OBVIOUS
  <2>2. QED
    BY <1>4, <1>5, <2>1
<1>7. d > 0 => d - 1 \in 0..d /\ d \in 1..d
  OBVIOUS
<1>8. QED
  BY <1>4, <1>5, <1>6, <1>7

-----------------------------------------------------------------------------
(* Chains of calls *)

\* What follows the i-th function of a chain.
LEMMA ChainTail ==
  ASSUME NEW m, NEW f, NEW d \in Nat, NEW c \in Chains(m, f, d), NEW i \in 0..d
  PROVE  [k \in 0..(d - i) |-> c[k + i]] \in Chains(m, c[i], d - i)
<1> DEFINE t == [k \in 0..(d - i) |-> c[k + i]]
<1>1. /\ c \in [0..d -> Defined(m)]
      /\ \A k \in 1..d : c[k] \in CalledBy(m, c[k - 1])
  BY DEF Chains
<1>2. t \in [0..(d - i) -> Defined(m)]
  BY <1>1
<1>3. t[0] = c[i]
  OBVIOUS
<1>4. ASSUME NEW k \in 1..(d - i)
      PROVE  t[k] \in CalledBy(m, t[k - 1])
  <2>1. /\ k \in 0..(d - i) /\ k - 1 \in 0..(d - i)
        /\ k + i \in 1..d /\ (k - 1) + i = (k + i) - 1
    OBVIOUS
  <2>2. t[k] = c[k + i] /\ t[k - 1] = c[(k + i) - 1]
    BY <2>1
  <2> HIDE DEF t
  <2>3. QED
    BY <1>1, <2>1, <2>2
<1> HIDE DEF t
<1>5. t \in Chains(m, c[i], d - i)
  BY <1>2, <1>3, <1>4 DEF Chains
<1>6. QED
  BY <1>5 DEF t

\* The second function of a chain is one that the first calls.
LEMMA ChainHead ==
  ASSUME NEW m, NEW f, NEW d \in Nat, NEW c \in Chains(m, f, d),
         NEW i \in 0..(d - 1)
  PROVE  c[i + 1] \in CalledBy(m, c[i])
<1>1. i + 1 \in 1..d /\ (i + 1) - 1 = i
  OBVIOUS
<1>2. \A k \in 1..d : c[k] \in CalledBy(m, c[k - 1])
  BY DEF Chains
<1>3. QED
  BY <1>1, <1>2

\* A chain goes on with a call of its last function.
LEMMA ChainGoesOn ==
  ASSUME NEW m, NEW f, NEW d \in Nat, NEW g \in After(m, f, d),
         NEW h \in Defined(m), h \in CalledBy(m, g)
  PROVE  h \in After(m, f, d + 1)
<1>1. PICK c \in Chains(m, f, d) : g = c[d]
  BY DEF After
<1>2. /\ c \in [0..d -> Defined(m)]
      /\ c[0] = f
      /\ \A k \in 1..d : c[k] \in CalledBy(m, c[k - 1])
  BY DEF Chains
<1> DEFINE t == [k \in 0..(d + 1) |-> IF k = d + 1 THEN h ELSE c[k]]
<1>3. t \in [0..(d + 1) -> Defined(m)]
  BY <1>2
<1>4. t[0] = f /\ t[d + 1] = h
  BY <1>2
<1>5. ASSUME NEW k \in 1..(d + 1)
      PROVE  t[k] \in CalledBy(m, t[k - 1])
  <2>1. k \in 0..(d + 1) /\ k - 1 \in 0..d /\ k - 1 \in 0..(d + 1) /\ k - 1 # d + 1
    OBVIOUS
  <2>2. t[k - 1] = c[k - 1]
    BY <2>1
  <2>3. CASE k = d + 1
    <3>1. t[k] = h /\ k - 1 = d
      BY <1>4, <2>3
    <3> HIDE DEF t
    <3>2. QED
      BY <1>1, <2>2, <3>1
  <2>4. CASE k # d + 1
    <3>1. k \in 1..d /\ t[k] = c[k]
      BY <2>1, <2>4
    <3> HIDE DEF t
    <3>2. QED
      BY <1>2, <2>2, <3>1
  <2>5. QED
    BY <2>3, <2>4
<1> HIDE DEF t
<1>6. t \in Chains(m, f, d + 1)
  BY <1>3, <1>4, <1>5 DEF Chains
<1>7. QED
  BY <1>4, <1>6 DEF After

\* Functions each of which calls another of them make chains of every length.
LEMMA CycleGoesDeeper ==
  ASSUME NEW m, WellFormed(m), NEW P \in SUBSET Defined(m), NEW root \in P,
         \A f \in P : \E g \in P : g \in CalledBy(m, f),
         NEW d \in Nat
  PROVE  GoesDeeper(m, root, d)
<1> DEFINE T == {n \in Nat : \E f \in P : f \in After(m, root, n)}
<1>1. 0 \in T
  <2> DEFINE c == [i \in 0..0 |-> root]
  <2>1. c \in Chains(m, root, 0)
    BY DEF Chains
  <2>2. c[0] = root
    OBVIOUS
  <2> HIDE DEF c
  <2>3. root \in After(m, root, 0)
    BY <2>1, <2>2 DEF After
  <2>4. QED
    BY <2>3
<1>2. ASSUME NEW n \in T
      PROVE  n + 1 \in T
  <2>1. n \in Nat
    OBVIOUS
  <2>2. PICK f \in P : f \in After(m, root, n)
    OBVIOUS
  <2>3. PICK g \in P : g \in CalledBy(m, f)
    OBVIOUS
  <2>4. g \in After(m, root, n + 1)
    BY <2>1, <2>2, <2>3, ChainGoesOn
  <2>5. QED
    BY <2>1, <2>4
<1>3. T = Nat
  <2>1. T \in SUBSET Nat
    OBVIOUS
  <2> HIDE DEF T
  <2>2. QED
    BY <1>1, <1>2, <2>1, NatInducts
<1>4. PICK f \in P : f \in After(m, root, d)
  <2>1. d \in T
    BY <1>3
  <2>2. QED
    BY <2>1
<1>5. Function(m, f).calls # <<>>
  <2>1. PICK g \in P : g \in CalledBy(m, f)
    OBVIOUS
  <2>2. PICK j \in 1..Len(Function(m, f).calls) : TRUE
    BY <2>1 DEF CalledBy
  <2>3. QED
    BY <2>2
<1>6. QED
  BY <1>4, <1>5 DEF GoesDeeper

-----------------------------------------------------------------------------
(* What is settled *)

LEMMA SettledStays ==
  ASSUME NEW m, NEW g, NEW avoid, NEW n, NEW s, NEW u, Settled(m, g, avoid, n, s, u),
         NEW t, s \subseteq t, NEW v, "recursion" \in u => "recursion" \in v
  PROVE  Settled(m, g, avoid, n, t, v)
<1>1. Covered(m, g, avoid, n, t)
  BY DEF Settled, Covered
<1>2. QED
  BY <1>1 DEF Settled

\* A function that is not of the module has no chains.
LEMMA OutsideIsSettled ==
  ASSUME NEW m, NEW g, g \notin Defined(m), NEW avoid, NEW n \in Int, NEW s, NEW u,
         "recursion" \in u \/ n >= 0
  PROVE  Settled(m, g, avoid, n, s, u)
<1>1. \A k \in Nat : Chains(m, g, k) = {}
  <2>1. SUFFICES ASSUME NEW k \in Nat, NEW c \in Chains(m, g, k)
                 PROVE  FALSE
    OBVIOUS
  <2>2. c \in [0..k -> Defined(m)] /\ c[0] = g /\ 0 \in 0..k
    BY DEF Chains
  <2>3. QED
    BY <2>2
<1>2. Covered(m, g, avoid, n, s)
  BY <1>1 DEF Covered
<1>3. n >= 0 => ~GoesDeeper(m, g, n)
  BY <1>1 DEF GoesDeeper, After
<1>4. QED
  BY <1>2, <1>3 DEF Settled

\* A function that is cut has nothing to cover.
LEMMA CutIsSettled ==
  ASSUME NEW m, NEW g, NEW avoid, NEW n \in Int, NEW s, NEW u,
         g \in avoid \/ n < 0, "recursion" \in u
  PROVE  Settled(m, g, avoid, n, s, u)
<1>1. ASSUME NEW k \in 0..n, NEW c \in Chains(m, g, k),
             \A i \in 0..k : c[i] \notin avoid
      PROVE  FALSE
  <2>1. c[0] = g /\ 0 \in 0..k
    BY DEF Chains
  <2>2. QED
    BY <1>1, <2>1
<1>2. Covered(m, g, avoid, n, s)
  BY <1>1 DEF Covered
<1>3. QED
  BY <1>2 DEF Settled

\* Once all its calls are settled, so is the function.
LEMMA SettledByItsCalls ==
  ASSUME NEW m, WellFormed(m), NEW f \in Defined(m), NEW avoid, NEW n \in Nat,
         NEW s, f \in s, NEW u,
         \A j \in 1..Len(Callees(m, f)) :
           Settled(m, Callees(m, f)[j], avoid \cup {f}, n - 1, s, u)
  PROVE  Settled(m, f, avoid, n, s, u)
<1>1. ASSUME NEW k \in 0..n, NEW c \in Chains(m, f, k),
             \A i \in 0..k : c[i] \notin avoid
      PROVE  c[k] \in s
  <2> DEFINE T == {e \in 0..k : c[k - e] = f}
  <2>1. k \in T /\ T \in SUBSET Nat
    BY DEF Chains
  <2>2. PICK e \in T : \A x \in T : e <= x
    <3> HIDE DEF T
    <3>1. T # {}
      BY <2>1
    <3>2. QED
      BY <2>1, <3>1, LeastNatural
  <2>3. e \in 0..k /\ c[k - e] = f
    OBVIOUS
  <2>4. \A x \in 0..k : x < e => c[k - x] # f
    BY <2>2, <2>3
  <2> HIDE DEF T
  <2>5. CASE e = 0
    BY <2>3, <2>5
  <2>6. CASE e # 0
    <3> DEFINE i == k - e
    <3>1. i \in 0..(k - 1) /\ i + 1 \in 0..k /\ k - (i + 1) = e - 1
      BY <2>3, <2>6
    <3>2. PICK j \in 1..Len(Callees(m, f)) : c[i + 1] = Callees(m, f)[j]
      <4>1. k \in Nat /\ c[i] = f /\ c \in Chains(m, f, k)
        BY <2>3
      <4> HIDE DEF i
      <4>2. c[i + 1] \in CalledBy(m, c[i])
        BY <3>1, <4>1, ChainHead
      <4>3. QED
        BY <4>1, <4>2 DEF CalledBy, Callees
    <3> DEFINE t == [x \in 0..(k - (i + 1)) |-> c[x + (i + 1)]]
    <3>3. t \in Chains(m, c[i + 1], e - 1)
      <4> DEFINE a == i + 1
      <4>1. k \in Nat /\ a \in 0..k /\ k - a = e - 1
        BY <3>1
      <4> HIDE DEF a
      <4>2. [x \in 0..(k - a) |-> c[x + a]] \in Chains(m, c[a], k - a)
        BY <4>1, ChainTail
      <4>3. QED
        BY <4>1, <4>2 DEF a
    <3>4. e - 1 \in 0..(n - 1) /\ \A x \in 0..(e - 1) : t[x] = c[x + (i + 1)]
      BY <2>3, <2>6, <3>1
    <3> HIDE DEF t
    <3>5. ASSUME NEW x \in 0..(e - 1)
          PROVE  t[x] \notin avoid \cup {f}
      <4>1. /\ x + (i + 1) \in 0..k
            /\ e - 1 - x \in 0..k /\ e - 1 - x < e
            /\ k - (e - 1 - x) = x + (i + 1)
        BY <2>3, <2>6
      <4> HIDE DEF i
      <4>2. c[x + (i + 1)] # f
        BY <2>4, <4>1
      <4>3. QED
        BY <1>1, <3>4, <4>1, <4>2
    <3>6. Covered(m, c[i + 1], avoid \cup {f}, n - 1, s)
      BY <3>2 DEF Settled
    <3>7. t[e - 1] \in s
      <4> HIDE DEF i
      <4>1. QED
        BY <3>3, <3>4, <3>5, <3>6 DEF Covered
    <3>8. e - 1 \in 0..(e - 1) /\ (e - 1) + (i + 1) = k
      BY <2>3, <2>6
    <3>9. QED
      <4> HIDE DEF i
      <4>1. QED
        BY <3>4, <3>7, <3>8
  <2>7. QED
    BY <2>5, <2>6
<1>2. ASSUME "recursion" \notin u, GoesDeeper(m, f, n)
      PROVE  FALSE
  <2>1. \A j \in 1..Len(Callees(m, f)) :
          n - 1 >= 0 /\ ~GoesDeeper(m, Callees(m, f)[j], n - 1)
    BY <1>2 DEF Settled
  <2>2. PICK c \in Chains(m, f, n) : Function(m, c[n]).calls # <<>>
    BY <1>2 DEF GoesDeeper, After
  <2>3. c[0] = f
    BY DEF Chains
  <2>4. Callees(m, f) \in Seq(Nat)
    BY DEF WellFormed, Facts, Callees
  <2>5. CASE n = 0
    <3>1. Callees(m, f) # <<>>
      BY <2>2, <2>3, <2>5 DEF Callees
    <3>2. 1 \in 1..Len(Callees(m, f))
      BY <2>4, <3>1
    <3>3. QED
      BY <2>1, <2>5, <3>2
  <2>6. CASE n > 0
    <3>1. 0 \in 0..(n - 1) /\ 0 + 1 \in 0..n /\ 0 + 1 = 1
      BY <2>6
    <3>2. PICK j \in 1..Len(Callees(m, f)) : c[1] = Callees(m, f)[j]
      <4>1. c[0 + 1] \in CalledBy(m, c[0])
        BY <3>1, ChainHead
      <4>2. QED
        BY <2>3, <4>1 DEF CalledBy, Callees
    <3> DEFINE t == [x \in 0..(n - 1) |-> c[x + 1]]
    <3>3. t \in Chains(m, c[1], n - 1)
      BY <3>1, ChainTail
    <3>4. t[n - 1] = c[n] /\ n - 1 \in Nat
      BY <2>6
    <3> HIDE DEF t
    <3>5. c[n] \in After(m, c[1], n - 1)
      BY <3>3, <3>4 DEF After
    <3>6. GoesDeeper(m, c[1], n - 1)
      BY <2>2, <3>5 DEF GoesDeeper
    <3>7. QED
      BY <2>1, <3>2, <3>6
  <2>7. QED
    BY <2>5, <2>6
<1>3. Covered(m, f, avoid, n, s)
  BY <1>1 DEF Covered
<1>4. QED
  BY <1>2, <1>3 DEF Settled

-----------------------------------------------------------------------------
(* What is spent *)

\* s is t with its last element x more.
Raised(s, t, n, x) ==
  /\ \A i \in 1..n : s[i] \in Nat /\ t[i] \in Nat
  /\ \A i \in 1..(n - 1) : s[i] = t[i]
  /\ s[n] = t[n] + x

LEMMA SumsApart ==
  ASSUME NEW n \in Nat, n > 0, NEW s, NEW t, NEW x \in Nat, Raised(s, t, n, x)
  PROVE  UpTo(s, n) = UpTo(t, n) + x
<1>0. /\ \A i \in 1..n : s[i] \in Nat /\ t[i] \in Nat
      /\ \A i \in 1..(n - 1) : s[i] = t[i]
      /\ s[n] = t[n] + x
  BY DEF Raised
<1>1. /\ UpTo(s, n) = UpTo(s, n - 1) + s[n] /\ UpTo(s, n - 1) \in Nat
      /\ UpTo(t, n) = UpTo(t, n - 1) + t[n] /\ UpTo(t, n - 1) \in Nat
  BY <1>0, SumGrows
<1>2. UpTo(s, n - 1) = UpTo(t, n - 1)
  <2>1. n - 1 \in Nat
    OBVIOUS
  <2>2. QED
    BY <1>0, <2>1, SumOfTheSame
<1>3. n \in 1..n /\ t[n] \in Nat
  BY <1>0
<1>4. QED
  BY <1>0, <1>1, <1>2, <1>3

\* Every frame has calls to be over, and depth for them.
Affordable(m, p, open) ==
  \A i \in 1..Len(p) :
    /\ p[i].index \in Defined(m)
    /\ Over(p, i, open) \in 0..Len(Callees(m, p[i].index))
    /\ Over(p, i, open) > 0 => MaxDepth - i >= 0

LEMMA SpentTyped ==
  ASSUME NEW m, WellFormed(m), NEW weight \in [Defined(m) -> Nat],
         NEW p \in Seq(Frames), NEW open, Affordable(m, p, open)
  PROVE  /\ Len(p) \in Nat
         /\ SumOf(Spent(m, weight, p, open)) = UpTo(Spent(m, weight, p, open), Len(p))
         /\ \A i \in 1..Len(p) :
              /\ Spent(m, weight, p, open)[i] \in Nat
              /\ Spent(m, weight, p, open)[i] =
                   weight[p[i].index]
                   + UpTo(OfCalls(m, p[i].index, TreeSums(m, weight, MaxDepth - i)),
                          Over(p, i, open))
              /\ Over(p, i, open) = 0 => Spent(m, weight, p, open)[i] = weight[p[i].index]
<1> DEFINE s == Spent(m, weight, p, open)
           calls(i) == OfCalls(m, p[i].index, TreeSums(m, weight, MaxDepth - i))
           part(i) == weight[p[i].index] + UpTo(calls(i), Over(p, i, open))
<1>1. Len(p) \in Nat
  OBVIOUS
<1>2. s = [i \in 1..Len(p) |-> part(i)]
  BY DEF Spent
<1>3. ASSUME NEW i \in 1..Len(p)
      PROVE  /\ part(i) \in Nat
             /\ Over(p, i, open) = 0 => part(i) = weight[p[i].index]
  <2>1. /\ p[i].index \in Defined(m)
        /\ Over(p, i, open) \in 0..Len(Callees(m, p[i].index))
        /\ Over(p, i, open) > 0 => MaxDepth - i >= 0
    BY DEF Affordable
  <2>2. weight[p[i].index] \in Nat
    BY <2>1
  <2> HIDE DEF calls
  <2>3. CASE Over(p, i, open) = 0
    <3>1. UpTo(calls(i), 0) = 0
      BY SumGrows
    <3>2. QED
      BY <2>2, <2>3, <3>1
  <2>4. CASE Over(p, i, open) # 0
    <3>1. MaxDepth - i \in Nat /\ Over(p, i, open) > 0
      BY <2>1, <2>4, MaxDepthAssumption
    <3>2. TreeSums(m, weight, MaxDepth - i) \in [Defined(m) -> Nat]
      BY <3>1, TreeSumsUnfold
    <3>3. UpTo(calls(i), Over(p, i, open)) \in Nat
      BY <2>1, <3>2, CallsSum DEF calls
    <3>4. QED
      BY <2>2, <2>4, <3>3
  <2>5. QED
    BY <2>3, <2>4
<1> HIDE DEF part
<1>4. s = [i \in 1..Len(p) |-> s[i]] /\ \A i \in 1..Len(p) : s[i] = part(i)
  BY <1>2
<1> HIDE DEF s
<1>5. SumOf(s) = UpTo(s, Len(p))
  BY <1>1, <1>4, SumIsUpTo
<1>6. QED
  BY <1>1, <1>3, <1>4, <1>5 DEF s, part

\* The last call made is over: what its tree comes to is added.
LEMMA SpentCloses ==
  ASSUME NEW m, WellFormed(m), NEW weight \in [Defined(m) -> Nat],
         NEW p \in Seq(Frames), p # <<>>,
         Affordable(m, p, 0), Affordable(m, p, Len(p)), MaxDepth - Len(p) >= 0,
         NEW index, index = Callees(m, p[Len(p)].index)[p[Len(p)].called]
  PROVE  /\ SumOf(Spent(m, weight, p, 0)) \in Nat
         /\ SumOf(Spent(m, weight, p, Len(p))) =
              SumOf(Spent(m, weight, p, 0))
              + TreeSum(m, weight, index, MaxDepth - Len(p), 0)
<1> DEFINE n == Len(p)
           s == Spent(m, weight, p, n)
           t == Spent(m, weight, p, 0)
           f == p[n].index
           k == p[n].called
           x == TreeSum(m, weight, index, MaxDepth - n, 0)
           sums == TreeSums(m, weight, MaxDepth - n)
           calls == OfCalls(m, f, sums)
<1>1. n \in Nat /\ n > 0 /\ n \in 1..n /\ p[n] \in Frames
  OBVIOUS
<1>2. /\ f \in Defined(m) /\ k - 1 \in 0..Len(Callees(m, f)) /\ k \in 0..Len(Callees(m, f))
      /\ Over(p, n, n) = k /\ Over(p, n, 0) = k - 1
  BY <1>1 DEF Affordable, Over
<1>3. k \in 1..Len(Callees(m, f))
  <2>1. Len(Callees(m, f)) \in Nat
    BY <1>2 DEF WellFormed, Facts, Callees
  <2>2. k \in Nat
    BY <1>1 DEF Frames
  <2>3. QED
    BY <1>2, <2>1, <2>2
<1>4. sums \in [Defined(m) -> Nat]
  <2>1. MaxDepth - n \in Nat
    BY <1>1, MaxDepthAssumption
  <2>2. QED
    BY <2>1, TreeSumsUnfold
<1>5. x \in Nat /\ x = IF index \in Defined(m) THEN sums[index] ELSE 0
  BY <1>4 DEF TreeSum
<1> HIDE DEF sums, x
<1>6. /\ UpTo(calls, k) = UpTo(calls, k - 1) + x
      /\ UpTo(calls, k) \in Nat /\ UpTo(calls, k - 1) \in Nat
  <2>1. index = Callees(m, f)[k]
    OBVIOUS
  <2> HIDE DEF f, k
  <2>2. UpTo(calls, k) = UpTo(calls, k - 1)
          + (IF Callees(m, f)[k] \in Defined(m) THEN sums[Callees(m, f)[k]] ELSE 0)
    BY <1>2, <1>3, <1>4, CallsSum
  <2>3. UpTo(calls, k) \in Nat /\ UpTo(calls, k - 1) \in Nat
    BY <1>2, <1>3, <1>4, CallsSum
  <2>4. QED
    BY <1>5, <2>1, <2>2, <2>3
<1>7. /\ SumOf(s) = UpTo(s, n) /\ SumOf(t) = UpTo(t, n)
      /\ \A i \in 1..n : s[i] \in Nat /\ t[i] \in Nat
      /\ s[n] = weight[f] + UpTo(calls, k)
      /\ t[n] = weight[f] + UpTo(calls, k - 1)
      /\ \A i \in 1..n :
           /\ s[i] = weight[p[i].index]
                + UpTo(OfCalls(m, p[i].index, TreeSums(m, weight, MaxDepth - i)), Over(p, i, n))
           /\ t[i] = weight[p[i].index]
                + UpTo(OfCalls(m, p[i].index, TreeSums(m, weight, MaxDepth - i)), Over(p, i, 0))
  BY <1>1, <1>2, SpentTyped DEF sums
<1>8. \A i \in 1..(n - 1) : s[i] = t[i]
  <2>1. \A i \in 1..(n - 1) : i \in 1..n /\ Over(p, i, n) = Over(p, i, 0)
    BY <1>1 DEF Over
  <2> HIDE DEF s, t
  <2>2. QED
    BY <1>7, <2>1
<1>9. s[n] = t[n] + x
  <2>1. weight[f] \in Nat
    BY <1>2
  <2>2. /\ s[n] = weight[f] + UpTo(calls, k)
        /\ t[n] = weight[f] + UpTo(calls, k - 1)
    BY <1>7
  <2> DEFINE a == UpTo(calls, k)
             b == UpTo(calls, k - 1)
             w == weight[f]
  <2>3. /\ s[n] = w + a /\ t[n] = w + b /\ a = b + x
        /\ w \in Nat /\ b \in Nat
    BY <1>6, <2>1, <2>2
  <2> HIDE DEF s, t, a, b, w
  <2>4. QED
    BY <1>5, <2>3
<1> HIDE DEF s, t, n, f, k
<1>10. UpTo(s, n) = UpTo(t, n) + x
  <2>1. Raised(s, t, n, x)
    BY <1>7, <1>8, <1>9 DEF Raised
  <2>2. QED
    BY <1>1, <1>5, <2>1, SumsApart
<1>11. UpTo(t, n) \in Nat
  BY <1>1, <1>7, SumGrows
<1>12. QED
  BY <1>7, <1>10, <1>11 DEF s, t, n, x

\* A function entered is added itself.
LEMMA SpentOpens ==
  ASSUME NEW m, WellFormed(m), NEW weight \in [Defined(m) -> Nat],
         NEW p \in Seq(Frames), Affordable(m, p, 0),
         NEW q \in Seq(Frames), Len(q) = Len(p) + 1, Affordable(m, q, Len(q)),
         \A i \in 1..Len(p) : q[i] = p[i],
         q[Len(q)].called = 0
  PROVE  SumOf(Spent(m, weight, q, Len(q))) =
           SumOf(Spent(m, weight, p, 0)) + weight[q[Len(q)].index]
<1> DEFINE n == Len(p)
           s == Spent(m, weight, q, n + 1)
           t == Spent(m, weight, p, 0)
           x == weight[q[n + 1].index]
<1>1. n \in Nat /\ n + 1 \in Nat /\ n + 1 > 0 /\ (n + 1) - 1 = n /\ n + 1 \in 1..(n + 1)
  OBVIOUS
<1>2. /\ SumOf(s) = UpTo(s, n + 1) /\ SumOf(t) = UpTo(t, n)
      /\ \A i \in 1..(n + 1) : s[i] \in Nat
      /\ \A i \in 1..n : t[i] \in Nat
      /\ \A i \in 1..(n + 1) : Over(q, i, n + 1) = 0 => s[i] = weight[q[i].index]
      /\ \A i \in 1..(n + 1) :
           s[i] = weight[q[i].index]
             + UpTo(OfCalls(m, q[i].index, TreeSums(m, weight, MaxDepth - i)), Over(q, i, n + 1))
      /\ \A i \in 1..n :
           t[i] = weight[p[i].index]
             + UpTo(OfCalls(m, p[i].index, TreeSums(m, weight, MaxDepth - i)), Over(p, i, 0))
  <2>0. Affordable(m, p, 0)
    OBVIOUS
  <2>1. /\ SumOf(t) = UpTo(t, n)
        /\ \A i \in 1..n :
             /\ t[i] \in Nat
             /\ t[i] = weight[p[i].index]
                  + UpTo(OfCalls(m, p[i].index, TreeSums(m, weight, MaxDepth - i)), Over(p, i, 0))
             /\ Over(p, i, 0) = 0 => t[i] = weight[p[i].index]
    BY <2>0, SpentTyped
  <2>2. Len(q) = n + 1 /\ Affordable(m, q, n + 1)
    OBVIOUS
  <2> HIDE DEF n, t
  <2>3. /\ SumOf(s) = UpTo(s, n + 1)
        /\ \A i \in 1..(n + 1) :
             /\ s[i] \in Nat
             /\ s[i] = weight[q[i].index]
                  + UpTo(OfCalls(m, q[i].index, TreeSums(m, weight, MaxDepth - i)), Over(q, i, n + 1))
             /\ Over(q, i, n + 1) = 0 => s[i] = weight[q[i].index]
    BY <2>2, SpentTyped
  <2> HIDE DEF s
  <2>4. QED
    BY <2>1, <2>3
<1>3. \A i \in 1..n : s[i] = t[i]
  <2>1. \A i \in 1..n : i \in 1..(n + 1) /\ q[i] = p[i] /\ Over(q, i, n + 1) = Over(p, i, 0)
    BY <1>1 DEF Over
  <2> HIDE DEF s, t
  <2>2. QED
    BY <1>2, <2>1
<1>4. s[n + 1] = x
  <2>1. Over(q, n + 1, n + 1) = 0
    BY DEF Over
  <2> HIDE DEF s, t
  <2>2. QED
    BY <1>1, <1>2, <2>1
<1> HIDE DEF s, t, x, n
<1>5. UpTo(s, n + 1) = UpTo(s, n) + s[n + 1]
  BY <1>1, <1>2, SumGrows
<1>6. UpTo(s, n) = UpTo(t, n)
  BY <1>1, <1>3, SumOfTheSame
<1>7. QED
  BY <1>2, <1>4, <1>5, <1>6 DEF s, t, x, n

\* A function left has come to what its tree comes to.
LEMMA SpentReturns ==
  ASSUME NEW m, WellFormed(m), NEW weight \in [Defined(m) -> Nat],
         NEW p \in Seq(Frames), Affordable(m, p, Len(p)),
         NEW q \in Seq(Frames), Len(p) = Len(q) + 1, Affordable(m, q, 0),
         \A i \in 1..Len(q) : q[i] = p[i],
         MaxDepth - Len(q) >= 0,
         p[Len(p)].called = Len(Callees(m, p[Len(p)].index))
  PROVE  SumOf(Spent(m, weight, p, Len(p))) =
           SumOf(Spent(m, weight, q, 0))
           + TreeSum(m, weight, p[Len(p)].index, MaxDepth - Len(q), 0)
<1> DEFINE n == Len(q)
           f == p[n + 1].index
           s == Spent(m, weight, p, n + 1)
           t == Spent(m, weight, q, 0)
           sums == TreeSums(m, weight, MaxDepth - n)
           below == TreeSums(m, weight, MaxDepth - (n + 1))
           calls == OfCalls(m, f, below)
<1>1. /\ n \in Nat /\ n + 1 \in Nat /\ n + 1 > 0 /\ (n + 1) - 1 = n /\ n + 1 \in 1..(n + 1)
      /\ MaxDepth - n \in Nat /\ (MaxDepth - n) - 1 = MaxDepth - (n + 1)
  BY MaxDepthAssumption
<1>2. /\ SumOf(s) = UpTo(s, n + 1) /\ SumOf(t) = UpTo(t, n)
      /\ \A i \in 1..(n + 1) : s[i] \in Nat
      /\ \A i \in 1..n : t[i] \in Nat
      /\ Over(p, n + 1, n + 1) = 0 => s[n + 1] = weight[f]
      /\ \A i \in 1..(n + 1) :
           s[i] = weight[p[i].index]
             + UpTo(OfCalls(m, p[i].index, TreeSums(m, weight, MaxDepth - i)), Over(p, i, n + 1))
      /\ \A i \in 1..n :
           t[i] = weight[q[i].index]
             + UpTo(OfCalls(m, q[i].index, TreeSums(m, weight, MaxDepth - i)), Over(q, i, 0))
  <2>1. /\ SumOf(t) = UpTo(t, n)
        /\ \A i \in 1..n : t[i] \in Nat
        /\ \A i \in 1..n :
             t[i] = weight[q[i].index]
               + UpTo(OfCalls(m, q[i].index, TreeSums(m, weight, MaxDepth - i)), Over(q, i, 0))
    BY SpentTyped
  <2>2. Len(p) = n + 1 /\ Affordable(m, p, n + 1)
    OBVIOUS
  <2> HIDE DEF n, t
  <2>3. /\ SumOf(s) = UpTo(s, n + 1)
        /\ \A i \in 1..(n + 1) :
             /\ s[i] \in Nat
             /\ s[i] = weight[p[i].index]
                  + UpTo(OfCalls(m, p[i].index, TreeSums(m, weight, MaxDepth - i)), Over(p, i, n + 1))
             /\ Over(p, i, n + 1) = 0 => s[i] = weight[p[i].index]
    <3>1. ASSUME NEW k, Affordable(m, p, k)
          PROVE  /\ SumOf(Spent(m, weight, p, k)) = UpTo(Spent(m, weight, p, k), Len(p))
                 /\ \A i \in 1..Len(p) :
                      /\ Spent(m, weight, p, k)[i] \in Nat
                      /\ Spent(m, weight, p, k)[i] =
                           weight[p[i].index]
                           + UpTo(OfCalls(m, p[i].index, TreeSums(m, weight, MaxDepth - i)),
                                  Over(p, i, k))
                      /\ Over(p, i, k) = 0 => Spent(m, weight, p, k)[i] = weight[p[i].index]
      BY <3>1, SpentTyped
    <3>2. QED
      BY <2>2, <3>1
  <2>4. Over(p, n + 1, n + 1) = 0 => s[n + 1] = weight[f]
    <3> HIDE DEF s
    <3>1. QED
      BY <1>1, <2>3
  <2> HIDE DEF s
  <2>5. QED
    BY <2>1, <2>3, <2>4
<1>3. \A i \in 1..n : s[i] = t[i]
  <2>1. \A i \in 1..n : i \in 1..(n + 1) /\ q[i] = p[i] /\ Over(p, i, n + 1) = Over(q, i, 0)
    BY <1>1 DEF Over
  <2> HIDE DEF s, t
  <2>2. QED
    BY <1>2, <2>1
<1>4. /\ f \in Defined(m)
      /\ Over(p, n + 1, n + 1) = Len(Callees(m, f))
      /\ Len(Callees(m, f)) \in Nat
      /\ Len(Callees(m, f)) > 0 => MaxDepth - (n + 1) >= 0
  BY <1>1 DEF Affordable, Over
<1>5. s[n + 1] = sums[f]
  <2>1. /\ sums \in [Defined(m) -> Nat]
        /\ MaxDepth - n = 0 => sums = weight
        /\ MaxDepth - n > 0 => sums = Grown(m, weight, below)
    BY <1>1, TreeSumsUnfold
  <2>2. CASE MaxDepth - n = 0
    <3>1. Len(Callees(m, f)) = 0
      BY <1>1, <1>4, <2>2
    <3> HIDE DEF s, sums
    <3>2. QED
      BY <1>2, <1>4, <2>1, <2>2, <3>1
  <2>3. CASE MaxDepth - n > 0
    <3>1. MaxDepth - (n + 1) \in Nat
      BY <1>1, <2>3
    <3>2. below \in [Defined(m) -> Nat]
      BY <3>1, TreeSumsUnfold
    <3>3. SumOf(calls) = UpTo(calls, Len(Callees(m, f)))
      <4> HIDE DEF below, f
      <4>1. QED
        BY <1>4, <3>2, CallsSum
    <3>4. sums[f] = weight[f] + SumOf(calls)
      <4> HIDE DEF f, below, sums
      <4>1. QED
        BY <1>4, <2>1, <2>3 DEF Grown
    <3>5. s[n + 1] = weight[f] + UpTo(calls, Len(Callees(m, f)))
      <4> HIDE DEF s
      <4>1. QED
        BY <1>1, <1>2, <1>4
    <3>6. QED
      BY <3>3, <3>4, <3>5
  <2>4. QED
    BY <1>1, <2>2, <2>3
<1>6. TreeSum(m, weight, f, MaxDepth - n, 0) = sums[f]
  BY <1>4 DEF TreeSum
<1> HIDE DEF s, t, n, f, sums
<1>7. UpTo(s, n + 1) = UpTo(s, n) + s[n + 1]
  BY <1>1, <1>2, SumGrows
<1>8. UpTo(s, n) = UpTo(t, n)
  BY <1>1, <1>3, SumOfTheSame
<1>9. QED
  BY <1>2, <1>5, <1>6, <1>7, <1>8 DEF s, t, n, f

-----------------------------------------------------------------------------
(* What a walk has settled *)

LEMMA ThoroughStays ==
  ASSUME NEW m, NEW p, NEW open, NEW s, NEW u, Thorough(m, p, open, s, u),
         NEW t, s \subseteq t, NEW v, "recursion" \in u => "recursion" \in v
  PROVE  Thorough(m, p, open, t, v)
<1>1. ASSUME NEW i \in 1..Len(p), NEW j \in 1..Over(p, i, open)
      PROVE  Settled(m, Function(m, p[i].index).calls[j], Above(p, i), MaxDepth - i, t, v)
  <2>1. Settled(m, Function(m, p[i].index).calls[j], Above(p, i), MaxDepth - i, s, u)
    BY DEF Thorough
  <2>2. QED
    BY <2>1, SettledStays
<1>2. QED
  BY <1>1 DEF Thorough

\* The last call made is over.
LEMMA ThoroughCloses ==
  ASSUME NEW m, NEW p \in Seq(Frames), p # <<>>, NEW s, NEW u,
         Thorough(m, p, 0, s, u),
         NEW index, index = Callees(m, p[Len(p)].index)[p[Len(p)].called],
         Settled(m, index, Above(p, Len(p)), MaxDepth - Len(p), s, u)
  PROVE  Thorough(m, p, Len(p), s, u)
<1>1. ASSUME NEW i \in 1..Len(p), NEW j \in 1..Over(p, i, Len(p))
      PROVE  Settled(m, Function(m, p[i].index).calls[j], Above(p, i), MaxDepth - i, s, u)
  <2>1. i \in Nat /\ i # 0 /\ p[i] \in Frames
    OBVIOUS
  <2>2. p[i].called \in Nat /\ Over(p, i, 0) = p[i].called - 1
    BY <2>1 DEF Frames, Over
  <2>3. CASE j \in 1..Over(p, i, 0)
    BY <2>3 DEF Thorough
  <2>4. CASE j \notin 1..Over(p, i, 0)
    <3>1. i = Len(p) /\ j = p[i].called
      BY <2>2, <2>4 DEF Over
    <3>2. QED
      BY <3>1 DEF Callees
  <2>5. QED
    BY <2>3, <2>4
<1>2. QED
  BY <1>1 DEF Thorough

\* A function is entered.
LEMMA ThoroughOpens ==
  ASSUME NEW m, NEW p \in Seq(Frames), NEW s, NEW u, Thorough(m, p, 0, s, u),
         NEW q \in Seq(Frames), Len(q) = Len(p) + 1,
         \A i \in 1..Len(p) : q[i] = p[i],
         q[Len(q)].called = 0
  PROVE  Thorough(m, q, Len(q), s, u)
<1>1. ASSUME NEW i \in 1..Len(q), NEW j \in 1..Over(q, i, Len(q))
      PROVE  Settled(m, Function(m, q[i].index).calls[j], Above(q, i), MaxDepth - i, s, u)
  <2>1. i # Len(q)
    BY DEF Over
  <2>2. i \in 1..Len(p) /\ q[i] = p[i] /\ i # 0
    BY <2>1
  <2>3. Over(p, i, 0) = Over(q, i, Len(q))
    BY <2>1, <2>2 DEF Over
  <2>4. Above(q, i) = Above(p, i)
    <3>1. \A k \in 1..i : q[k] = p[k]
      BY <2>2
    <3>2. QED
      BY <3>1 DEF Above
  <2>5. QED
    BY <2>2, <2>3, <2>4 DEF Thorough
<1>2. QED
  BY <1>1 DEF Thorough

\* A function is left.
LEMMA ThoroughReturns ==
  ASSUME NEW m, NEW p \in Seq(Frames), NEW s, NEW u, Thorough(m, p, Len(p), s, u),
         NEW q \in Seq(Frames), Len(p) = Len(q) + 1,
         \A i \in 1..Len(q) : q[i] = p[i]
  PROVE  Thorough(m, q, 0, s, u)
<1>1. ASSUME NEW i \in 1..Len(q), NEW j \in 1..Over(q, i, 0)
      PROVE  Settled(m, Function(m, q[i].index).calls[j], Above(q, i), MaxDepth - i, s, u)
  <2>1. i \in 1..Len(p) /\ q[i] = p[i] /\ i # 0 /\ i # Len(p)
    OBVIOUS
  <2>2. Over(q, i, 0) = Over(p, i, Len(p))
    BY <2>1 DEF Over
  <2>3. Above(q, i) = Above(p, i)
    <3>1. \A k \in 1..i : q[k] = p[k]
      BY <2>1
    <3>2. QED
      BY <3>1 DEF Above
  <2>4. QED
    BY <2>1, <2>2, <2>3 DEF Thorough
<1>2. QED
  BY <1>1 DEF Thorough

\* As long as nothing was cut, every call over was within the depth.
LEMMA ThoroughIsAffordable ==
  ASSUME NEW m, NEW p \in Seq(Frames), NEW open, NEW s, NEW u,
         Thorough(m, p, open, s, u), "recursion" \notin u,
         \A i \in 1..Len(p) : /\ p[i].index \in Defined(m)
                              /\ Over(p, i, open) \in 0..Len(Callees(m, p[i].index))
  PROVE  Affordable(m, p, open)
<1>1. ASSUME NEW i \in 1..Len(p), Over(p, i, open) > 0
      PROVE  MaxDepth - i >= 0
  <2>1. 1 \in 1..Over(p, i, open)
    BY <1>1
  <2>2. Settled(m, Function(m, p[i].index).calls[1], Above(p, i), MaxDepth - i, s, u)
    BY <2>1 DEF Thorough
  <2>3. QED
    BY <2>2 DEF Settled
<1>2. QED
  BY <1>1 DEF Affordable

\* The functions of the path are reached through those before them.
LEMMA PathIsAChain ==
  ASSUME NEW p \in Seq(Frames), Chain(p), NEW i \in 1..Len(p)
  PROVE  p[i].index \in After(module, p[1].index, i - 1)
<1> DEFINE c == [k \in 0..(i - 1) |-> p[k + 1].index]
<1>1. /\ \A k \in 1..Len(p) : p[k].index \in Defined(module)
      /\ \A k \in 1..(Len(p) - 1) :
           /\ p[k].called \in 1..Len(CallsOf(p[k].index))
           /\ CallsOf(p[k].index)[p[k].called] = p[k + 1].index
  BY DEF Chain
<1> HIDE DEF module
<1>2. c \in [0..(i - 1) -> Defined(module)]
  <2>1. \A k \in 0..(i - 1) : k + 1 \in 1..Len(p)
    OBVIOUS
  <2>2. QED
    BY <1>1, <2>1
<1>3. c[0] = p[1].index /\ c[i - 1] = p[i].index
  OBVIOUS
<1>4. ASSUME NEW k \in 1..(i - 1)
      PROVE  c[k] \in CalledBy(module, c[k - 1])
  <2>1. k \in 0..(i - 1) /\ k - 1 \in 0..(i - 1) /\ (k - 1) + 1 = k /\ k \in 1..(Len(p) - 1)
    OBVIOUS
  <2>2. c[k] = p[k + 1].index /\ c[k - 1] = p[k].index
    BY <2>1
  <2> HIDE DEF c
  <2>3. QED
    BY <1>1, <2>1, <2>2 DEF CalledBy, CallsOf
<1> HIDE DEF c
<1>5. c \in Chains(module, p[1].index, i - 1)
  BY <1>2, <1>3, <1>4 DEF Chains
<1>6. QED
  BY <1>3, <1>5 DEF After

LEMMA WeightsTyped ==
  ASSUME NEW m, WellFormed(m)
  PROVE  /\ InstructionsIn(m) \in [Defined(m) -> Nat]
         /\ HostCallsIn(m) \in [Defined(m) -> Nat]
<1>1. \A f \in Defined(m) : Function(m, f) \in Facts
  BY DEF WellFormed
<1>2. \A f \in Defined(m) :
        Function(m, f).instructions \in Nat /\ Len(Function(m, f).hostCalls) \in Nat
  BY <1>1 DEF Facts
<1>3. QED
  BY <1>2 DEF InstructionsIn, HostCallsIn

\* Of a path on which every frame has made a call, all but these are over.
Calling(m, p) ==
  \A i \in 1..Len(p) :
    p[i].index \in Defined(m) /\ p[i].called \in 1..Len(Callees(m, p[i].index))

\* What holds when walk(index) is called in the walk of root.
Ahead(m, root, index, p, s, e) ==
  /\ s \subseteq Reached(m, root, MaxDepth)
  /\ Deserved(m, root, s, e.unbounded)
  /\ Calling(m, p)
  /\ p = <<>> => index = root /\ s = {} /\ e = Zero
  /\ p # <<>> => p[1].index = root /\ index = Callees(m, p[Len(p)].index)[p[Len(p)].called]
  /\ Thorough(m, p, 0, s, e.unbounded)
  /\ "recursion" \notin e.unbounded =>
       /\ e.instructions = SumOf(Spent(m, InstructionsIn(m), p, 0))
       /\ e.hostCalls = SumOf(Spent(m, HostCallsIn(m), p, 0))

LEMMA CallingIsAffordable ==
  ASSUME NEW m, WellFormed(m), NEW p \in Seq(Frames), Calling(m, p), NEW open, NEW s, NEW u,
         Thorough(m, p, open, s, u), "recursion" \notin u
  PROVE  Affordable(m, p, open)
<1>1. ASSUME NEW i \in 1..Len(p)
      PROVE  /\ p[i].index \in Defined(m)
             /\ Over(p, i, open) \in 0..Len(Callees(m, p[i].index))
  <2>1. p[i].index \in Defined(m) /\ p[i].called \in 1..Len(Callees(m, p[i].index))
    BY DEF Calling
  <2>2. Len(Callees(m, p[i].index)) \in Nat
    BY <2>1 DEF WellFormed, Facts, Callees
  <2>3. QED
    BY <2>1, <2>2 DEF Over
<1>2. QED
  BY <1>1, ThoroughIsAffordable

LEMMA CutIsRight ==
  ASSUME NEW m, m = module, WellFormed(m), estimate \in Estimates,
         NEW root, NEW index, NEW p \in Seq(Frames), Chain(p),
         Ahead(m, root, index, p, seen, estimate),
         Cut(index, p),
         estimate' = [estimate EXCEPT !.unbounded = @ \cup {"recursion"}],
         path' = p, seen' = seen
  PROVE  WalkIsRight(m, root, path', seen', estimate')
<1> DEFINE n == Len(p)
           u == estimate'.unbounded
<1>1. n \in Nat /\ n > 0 /\ p # <<>> /\ n <= MaxDepth + 1
  BY MaxDepthAssumption DEF Cut, Chain
<1>2. u = estimate.unbounded \cup {"recursion"}
  BY DEF Estimates
<1> HIDE DEF u
<1>3. /\ p[1].index = root /\ index = Callees(m, p[n].index)[p[n].called]
      /\ Calling(m, p) /\ Thorough(m, p, 0, seen, estimate.unbounded)
      /\ seen \subseteq Reached(m, root, MaxDepth)
      /\ Deserved(m, root, seen, estimate.unbounded)
  BY <1>1 DEF Ahead
<1>4. Thorough(m, p, n, seen, u)
  <2>1. index \in Above(p, n) \/ MaxDepth - n < 0
    BY <1>1, MaxDepthAssumption DEF Cut, Above
  <2>2. MaxDepth - n \in Int
    BY <1>1, MaxDepthAssumption
  <2>3. Settled(m, index, Above(p, n), MaxDepth - n, seen, u)
    BY <1>2, <2>1, <2>2, CutIsSettled
  <2>4. Thorough(m, p, 0, seen, u)
    BY <1>2, <1>3, ThoroughStays
  <2>5. QED
    BY <1>1, <1>3, <2>3, <2>4, ThoroughCloses
<1>5. GoesDeeper(m, root, MaxDepth)
  <2>1. CASE \E i \in 1..n : p[i].index = index
    <3> DEFINE P == {p[i].index : i \in 1..n}
    <3>1. P \in SUBSET Defined(m) /\ root \in P /\ index \in P
      BY <1>1, <1>3, <2>1 DEF Calling
    <3>2. ASSUME NEW i \in 1..n
          PROVE  \E g \in P : g \in CalledBy(m, p[i].index)
      <4>1. CASE i = n
        <5>1. index \in CalledBy(m, p[i].index)
          BY <1>1, <1>3, <4>1 DEF CalledBy, Callees, Calling
        <5>2. QED
          BY <3>1, <5>1
      <4>2. CASE i # n
        <5>1. i \in 1..(n - 1) /\ i + 1 \in 1..n
          BY <1>1, <4>2
        <5>2. /\ p[i].called \in 1..Len(CallsOf(p[i].index))
              /\ CallsOf(p[i].index)[p[i].called] = p[i + 1].index
          BY <5>1 DEF Chain
        <5> HIDE DEF module
        <5>3. p[i + 1].index \in CalledBy(m, p[i].index)
          BY <5>2 DEF CalledBy, CallsOf
        <5>4. p[i + 1].index \in P
          BY <5>1
        <5>5. QED
          BY <5>3, <5>4
      <4>3. QED
        BY <4>1, <4>2
    <3>3. \A f \in P : \E g \in P : g \in CalledBy(m, f)
      BY <3>2
    <3> HIDE DEF P
    <3>4. QED
      BY <3>1, <3>3, MaxDepthAssumption, CycleGoesDeeper
  <2>2. CASE n > MaxDepth
    <3>1. n - 1 = MaxDepth /\ n \in 1..Len(p)
      BY <1>1, <2>2, MaxDepthAssumption
    <3>2. p[n].index \in After(m, root, MaxDepth)
      <4>1. p[n].index \in After(module, p[1].index, n - 1)
        BY <3>1, PathIsAChain
      <4> HIDE DEF module
      <4>2. QED
        BY <1>3, <3>1, <4>1
    <3>3. p[n].called \in 1..Len(Callees(m, p[n].index))
      BY <1>1, <1>3 DEF Calling
    <3>4. Function(m, p[n].index).calls # <<>>
      BY <3>3 DEF Callees
    <3>5. QED
      BY <3>2, <3>4 DEF GoesDeeper
  <2>3. QED
    BY <2>1, <2>2 DEF Cut
<1>6. Deserved(m, root, seen, u)
  BY <1>2, <1>3, <1>5 DEF Deserved
<1>7. QED
  BY <1>1, <1>2, <1>3, <1>4, <1>6 DEF WalkIsRight, u

\* No frames, nothing spent.
LEMMA NothingSpent ==
  ASSUME NEW m, NEW weight, NEW open
  PROVE  SumOf(Spent(m, weight, <<>>, open)) = 0
<1> DEFINE s == Spent(m, weight, <<>>, open)
<1>1. s = [i \in 1..0 |-> s[i]]
  BY DEF Spent
<1> HIDE DEF s
<1>2. SumOf(s) = UpTo(s, 0)
  BY <1>1, SumIsUpTo
<1>3. UpTo(s, 0) = 0
  BY SumGrows
<1>4. QED
  BY <1>2, <1>3 DEF s

\* A host function is walked from the path p (an index of neither kind is not).
LEMMA HostIsRight ==
  ASSUME NEW m, WellFormed(m), estimate \in Estimates,
         NEW root \in HostImports(m) \cup Defined(m), NEW index, NEW p \in Seq(Frames),
         Len(p) <= MaxDepth, index \notin Defined(m),
         Ahead(m, root, index, p, seen, estimate),
         estimate' = IF index \in HostImports(m)
                     THEN [estimate EXCEPT !.hostCalls = @ + 1] ELSE estimate,
         path' = p, seen' = seen
  PROVE  WalkIsRight(m, root, path', seen', estimate')
<1> DEFINE n == Len(p)
<1>1. n \in Nat /\ MaxDepth - n \in Nat
  BY MaxDepthAssumption
<1>2. CASE p = <<>>
  <2>1. index = root /\ seen = {} /\ estimate = Zero /\ index \in HostImports(m)
    BY <1>2 DEF Ahead
  <2>2. estimate' = [Zero EXCEPT !.hostCalls = @ + 1]
    BY <2>1
  <2>3. /\ estimate'.unbounded = {} /\ estimate'.instructions = 0 /\ estimate'.hostCalls = 1
    BY <2>2 DEF Zero
  <2> DEFINE u == estimate'.unbounded
  <2> HIDE DEF u
  <2>4. Settled(m, root, {}, MaxDepth, seen, u)
    BY <2>1, MaxDepthAssumption, OutsideIsSettled
  <2>5. seen \subseteq Reached(m, root, MaxDepth)
    BY <2>1
  <2>6. Deserved(m, root, seen, {})
    BY DEF Deserved
  <2>7. /\ Counted(m, InstructionsIn(m), root, 0, p, Len(p)) = 0
        /\ Counted(m, HostCallsIn(m), root, 1, p, Len(p)) = 1
    BY <1>2, <2>1 DEF Counted, TreeSum
  <2>8. QED
    BY <1>2, <2>3, <2>4, <2>5, <2>6, <2>7 DEF WalkIsRight, u
<1>3. CASE p # <<>>
  <2>1. /\ p[1].index = root /\ index = Callees(m, p[n].index)[p[n].called]
        /\ Calling(m, p) /\ Thorough(m, p, 0, seen, estimate.unbounded)
        /\ seen \subseteq Reached(m, root, MaxDepth)
        /\ Deserved(m, root, seen, estimate.unbounded)
    BY <1>3 DEF Ahead
  <2>2. estimate' = estimate
    <3>1. n \in 1..Len(p)
      BY <1>3
    <3>2. p[n].index \in Defined(m) /\ p[n].called \in 1..Len(Callees(m, p[n].index))
      BY <2>1, <3>1 DEF Calling
    <3>3. index \notin HostImports(m)
      BY <2>1, <3>2 DEF WellFormed, Callees
    <3>4. QED
      BY <3>3
  <2> DEFINE u == estimate.unbounded
  <2>3. Settled(m, index, Above(p, n), MaxDepth - n, seen, u)
    BY <1>1, OutsideIsSettled
  <2>4. Thorough(m, p, n, seen, u)
    BY <1>3, <2>1, <2>3, ThoroughCloses
  <2>5. ASSUME "recursion" \notin u
        PROVE  /\ estimate.instructions = Counted(m, InstructionsIn(m), root, 0, p, n)
               /\ estimate.hostCalls = Counted(m, HostCallsIn(m), root, 1, p, n)
    <3>1. /\ estimate.instructions = SumOf(Spent(m, InstructionsIn(m), p, 0))
          /\ estimate.hostCalls = SumOf(Spent(m, HostCallsIn(m), p, 0))
      BY <2>5 DEF Ahead
    <3>2. Affordable(m, p, 0) /\ Affordable(m, p, n)
      BY <2>1, <2>4, <2>5, CallingIsAffordable
    <3>3. ASSUME NEW weight \in [Defined(m) -> Nat]
          PROVE  SumOf(Spent(m, weight, p, n)) = SumOf(Spent(m, weight, p, 0))
      <4>1. /\ SumOf(Spent(m, weight, p, 0)) \in Nat
            /\ SumOf(Spent(m, weight, p, n)) =
                 SumOf(Spent(m, weight, p, 0)) + TreeSum(m, weight, index, MaxDepth - n, 0)
        BY <1>1, <1>3, <2>1, <3>2, SpentCloses
      <4>2. TreeSum(m, weight, index, MaxDepth - n, 0) = 0
        BY DEF TreeSum
      <4>3. QED
        BY <4>1, <4>2
    <3>4. QED
      BY <1>3, <3>1, <3>3, WeightsTyped DEF Counted
  <2>6. QED
    BY <1>3, <2>1, <2>2, <2>4, <2>5 DEF WalkIsRight
<1>4. QED
  BY <1>2, <1>3

\* A defined function is entered from the path p.
LEMMA EnterIsRight ==
  ASSUME NEW m, m = module, WellFormed(m), estimate \in Estimates,
         NEW root, NEW index \in Defined(m), NEW p \in Seq(Frames),
         Len(p) <= MaxDepth,
         Ahead(m, root, index, p, seen, estimate),
         estimate' = Charged(index),
         path' = Append(p, [index |-> index, called |-> 0]),
         seen' = seen \cup {index},
         Chain(path')
  PROVE  WalkIsRight(m, root, path', seen', estimate')
<1> DEFINE n == Len(p)
           q == path'
           u == estimate.unbounded
           v == estimate'.unbounded
           facts == Function(m, index)
<1>1. /\ q \in Seq(Frames) /\ Len(q) = n + 1 /\ n \in Nat
      /\ \A i \in 1..n : q[i] = p[i]
      /\ q[n + 1] = [index |-> index, called |-> 0]
      /\ q # <<>>
  <2>1. index \in Nat
    BY DEF WellFormed
  <2>2. QED
    BY <2>1 DEF Frames
<1>2. q[n + 1].index = index /\ q[n + 1].called = 0
  BY <1>1
<1>3. q[1].index = root
  <2>1. CASE p = <<>>
    <3>1. n + 1 = 1 /\ index = root
      BY <2>1 DEF Ahead
    <3> HIDE DEF q
    <3>2. QED
      BY <1>2, <3>1
  <2>2. CASE p # <<>>
    <3>1. 1 \in 1..n /\ p[1].index = root
      BY <2>2 DEF Ahead
    <3> HIDE DEF q
    <3>2. QED
      BY <1>1, <3>1
  <2>3. QED
    BY <2>1, <2>2
<1>4. seen' \subseteq Reached(m, root, MaxDepth)
  <2>1. index \in After(m, root, n)
    <3>1. n + 1 \in 1..Len(q) /\ (n + 1) - 1 = n
      BY <1>1
    <3> HIDE DEF q
    <3>2. q[n + 1].index \in After(module, q[1].index, (n + 1) - 1)
      BY <1>1, <3>1, PathIsAChain DEF q
    <3> HIDE DEF module
    <3>3. QED
      BY <1>2, <1>3, <3>1, <3>2
  <2>2. n \in 0..MaxDepth
    BY <1>1, MaxDepthAssumption
  <2>3. QED
    BY <2>1, <2>2 DEF Reached, Ahead
<1>5. /\ v = u \cup {r \in {"loops"} : facts.loops > 0}
               \cup {r \in {"indirect"} : facts.indirect > 0}
      /\ estimate'.instructions = estimate.instructions + facts.instructions
      /\ estimate'.hostCalls = estimate.hostCalls + Len(facts.hostCalls)
  <2> HIDE DEF module
  <2>1. QED
    BY DEF Charged
<1> HIDE DEF q, v
<1>6. Thorough(m, q, n + 1, seen', v)
  <2>1. Thorough(m, p, 0, seen, u)
    BY DEF Ahead
  <2>2. Thorough(m, p, 0, seen', v)
    BY <1>5, <2>1, ThoroughStays
  <2>3. QED
    BY <1>1, <1>2, <2>2, ThoroughOpens
<1>7. Deserved(m, root, seen', v)
  <2>1. Deserved(m, root, seen, u)
    BY DEF Ahead
  <2>2. "recursion" \in v => "recursion" \in u
    BY <1>5
  <2>3. "loops" \in v => "loops" \in u \/ facts.loops > 0
    BY <1>5
  <2>4. "indirect" \in v => "indirect" \in u \/ facts.indirect > 0
    BY <1>5
  <2>5. index \in seen' /\ seen \subseteq seen'
    OBVIOUS
  <2>6. QED
    BY <2>1, <2>2, <2>3, <2>4, <2>5 DEF Deserved
<1>8. ASSUME "recursion" \notin v
      PROVE  /\ estimate'.instructions = SumOf(Spent(m, InstructionsIn(m), q, n + 1))
             /\ estimate'.hostCalls = SumOf(Spent(m, HostCallsIn(m), q, n + 1))
  <2>1. "recursion" \notin u
    BY <1>5, <1>8
  <2>2. Thorough(m, p, 0, seen, u) /\ Calling(m, p)
    BY DEF Ahead
  <2>3. Affordable(m, p, 0)
    BY <2>1, <2>2, CallingIsAffordable
  <2>4. Affordable(m, q, n + 1)
    <3>1. ASSUME NEW i \in 1..Len(q)
          PROVE  /\ q[i].index \in Defined(m)
                 /\ Over(q, i, n + 1) \in 0..Len(Callees(m, q[i].index))
      <4>1. CASE i = n + 1
        <5>1. Len(Callees(m, index)) \in Nat
          BY DEF WellFormed, Facts, Callees
        <5>2. QED
          BY <1>2, <4>1, <5>1 DEF Over
      <4>2. CASE i # n + 1
        <5>1. i \in 1..n /\ q[i] = p[i]
          BY <1>1, <4>2
        <5>2. p[i].index \in Defined(m) /\ p[i].called \in 1..Len(Callees(m, p[i].index))
          BY <2>2, <5>1 DEF Calling
        <5>3. Len(Callees(m, p[i].index)) \in Nat
          BY <5>2 DEF WellFormed, Facts, Callees
        <5>4. QED
          BY <4>2, <5>1, <5>2, <5>3 DEF Over
      <4>3. QED
        BY <4>1, <4>2
    <3>2. QED
      BY <1>1, <1>6, <1>8, <3>1, ThoroughIsAffordable
  <2>5. ASSUME NEW weight \in [Defined(m) -> Nat]
        PROVE  SumOf(Spent(m, weight, q, n + 1)) = SumOf(Spent(m, weight, p, 0)) + weight[index]
    <3>1. /\ Len(q) = n + 1 /\ q \in Seq(Frames) /\ Affordable(m, q, Len(q))
          /\ \A i \in 1..Len(p) : q[i] = p[i]
          /\ q[Len(q)].called = 0 /\ q[Len(q)].index = index
      BY <1>1, <1>2, <2>4
    <3> HIDE DEF n
    <3>2. SumOf(Spent(m, weight, q, Len(q))) =
            SumOf(Spent(m, weight, p, 0)) + weight[q[Len(q)].index]
      BY <1>1, <2>3, <3>1, SpentOpens DEF n
    <3>3. QED
      BY <3>1, <3>2
  <2>6. /\ InstructionsIn(m)[index] = facts.instructions
        /\ HostCallsIn(m)[index] = Len(facts.hostCalls)
    BY DEF InstructionsIn, HostCallsIn
  <2>7. /\ estimate.instructions = SumOf(Spent(m, InstructionsIn(m), p, 0))
        /\ estimate.hostCalls = SumOf(Spent(m, HostCallsIn(m), p, 0))
    BY <2>1 DEF Ahead
  <2>8. QED
    BY <1>5, <2>5, <2>6, <2>7, WeightsTyped
<1>9. QED
  BY <1>1, <1>3, <1>4, <1>6, <1>7, <1>8 DEF WalkIsRight, Counted, q, v

\* walk(index), however it turns out.
LEMMA WalkMakesRight ==
  ASSUME TypeOK, ~Refused(binary),
         NEW root \in HostImports(module) \cup Defined(module),
         NEW index, NEW p \in Seq(Frames), Chain(p), Chain(path'),
         Ahead(module, root, index, p, seen, estimate),
         Walk(index, p)
  PROVE  WalkIsRight(module, root, path', seen', estimate')
<1> DEFINE m == module
<1>1. WellFormed(m) /\ estimate \in Estimates
  BY ModuleIsWellFormed DEF TypeOK
<1>2. CASE /\ Cut(index, p)
           /\ estimate' = [estimate EXCEPT !.unbounded = @ \cup {"recursion"}]
           /\ path' = p
           /\ UNCHANGED seen
  <2> HIDE DEF m
  <2>1. m = module
    BY DEF m
  <2> HIDE DEF module
  <2>2. Ahead(m, root, index, p, seen, estimate)
    BY <2>1
  <2>3. WalkIsRight(m, root, path', seen', estimate')
    BY <1>1, <1>2, <2>1, <2>2, CutIsRight
  <2>4. QED
    BY <2>1, <2>3
<1>3. CASE /\ ~Cut(index, p)
           /\ index \notin Defined(m)
           /\ estimate' = IF index \in HostImports(m)
                          THEN [estimate EXCEPT !.hostCalls = @ + 1] ELSE estimate
           /\ path' = p
           /\ UNCHANGED seen
  <2> HIDE DEF m
  <2>1. m = module /\ Len(p) <= MaxDepth
    BY <1>3, MaxDepthAssumption DEF m, Cut
  <2> HIDE DEF module
  <2>2. Ahead(m, root, index, p, seen, estimate) /\ root \in HostImports(m) \cup Defined(m)
    BY <2>1
  <2>3. WalkIsRight(m, root, path', seen', estimate')
    BY <1>1, <1>3, <2>1, <2>2, HostIsRight
  <2>4. QED
    BY <2>1, <2>3
<1>4. CASE /\ ~Cut(index, p)
           /\ index \in Defined(m)
           /\ Charge(index)
           /\ path' = Append(p, [index |-> index, called |-> 0])
           /\ seen' = seen \cup {index}
  <2> HIDE DEF m
  <2>1. m = module /\ Len(p) <= MaxDepth
    BY <1>4, MaxDepthAssumption DEF m, Cut
  <2> HIDE DEF module
  <2>2. Ahead(m, root, index, p, seen, estimate) /\ estimate' = Charged(index)
    BY <1>4, <2>1 DEF Charge
  <2>3. WalkIsRight(m, root, path', seen', estimate')
    BY <1>1, <1>4, <2>1, <2>2, EnterIsRight
  <2>4. QED
    BY <2>1, <2>3
<1>5. QED
  BY <1>2, <1>3, <1>4 DEF Walk

\* The walk of an export starts.
LEMMA StartIsAhead ==
  ASSUME NEW m, NEW root
  PROVE  Ahead(m, root, root, <<>>, {}, Zero)
<1>1. Zero.unbounded = {} /\ Zero.instructions = 0 /\ Zero.hostCalls = 0
  BY DEF Zero
<1>2. Deserved(m, root, {}, {})
  BY DEF Deserved
<1>3. Calling(m, <<>>) /\ Thorough(m, <<>>, 0, {}, {})
  BY DEF Calling, Thorough
<1>4. QED
  BY <1>1, <1>2, <1>3, NothingSpent DEF Ahead

\* The top of the path p turns to its next call, which makes it q.
LEMMA CallIsAhead ==
  ASSUME NEW m, NEW root, NEW index, NEW s, NEW e,
         NEW p \in Seq(Frames), p # <<>>, NEW q \in Seq(Frames), Len(q) = Len(p),
         \A i \in 1..Len(p) : q[i].index = p[i].index,
         \A i \in 1..Len(p) : i # Len(p) => q[i].called = p[i].called,
         q[Len(p)].called = p[Len(p)].called + 1,
         Calling(m, q),
         index = Callees(m, q[Len(q)].index)[q[Len(q)].called],
         WalkIsRight(m, root, p, s, e)
  PROVE  Ahead(m, root, index, q, s, e)
<1> DEFINE n == Len(p)
<1>1. /\ p[1].index = root
      /\ s \subseteq Reached(m, root, MaxDepth)
      /\ Thorough(m, p, n, s, e.unbounded)
      /\ Deserved(m, root, s, e.unbounded)
      /\ "recursion" \notin e.unbounded =>
           /\ e.instructions = Counted(m, InstructionsIn(m), root, 0, p, n)
           /\ e.hostCalls = Counted(m, HostCallsIn(m), root, 1, p, n)
  BY DEF WalkIsRight
<1>2. q # <<>> /\ q[1].index = root /\ n \in Nat
  <2>1. 1 \in 1..n /\ Len(q) # 0
    OBVIOUS
  <2>2. QED
    BY <1>1, <2>1
<1>3. \A i \in 1..n : Over(q, i, 0) = Over(p, i, n)
  <2>1. ASSUME NEW i \in 1..n
        PROVE  Over(q, i, 0) = Over(p, i, n)
    <3>1. p[i] \in Frames /\ i # 0
      OBVIOUS
    <3>2. p[i].called \in Nat
      BY <3>1 DEF Frames
    <3>3. QED
      BY <3>1, <3>2 DEF Over
  <2>2. QED
    BY <2>1
<1>4. \A i \in 1..n : Above(q, i) = Above(p, i)
  <2>1. ASSUME NEW i \in 1..n
        PROVE  Above(q, i) = Above(p, i)
    <3>1. \A k \in 1..i : q[k].index = p[k].index
      OBVIOUS
    <3>2. QED
      BY <3>1 DEF Above
  <2>2. QED
    BY <2>1
<1>5. Thorough(m, q, 0, s, e.unbounded)
  BY <1>1, <1>3, <1>4 DEF Thorough
<1>6. ASSUME NEW weight
      PROVE  Spent(m, weight, q, 0) = Spent(m, weight, p, n)
  BY <1>3 DEF Spent
<1>7. ASSUME "recursion" \notin e.unbounded
      PROVE  /\ e.instructions = SumOf(Spent(m, InstructionsIn(m), q, 0))
             /\ e.hostCalls = SumOf(Spent(m, HostCallsIn(m), q, 0))
  BY <1>1, <1>6, <1>7 DEF Counted
<1>8. QED
  BY <1>1, <1>2, <1>5, <1>7 DEF Ahead

\* The top of the path p has no calls left, and q is what is below it.
LEMMA ReturnIsRight ==
  ASSUME NEW m, WellFormed(m), NEW root, NEW s, NEW e,
         NEW p \in Seq(Frames), NEW q \in Seq(Frames), Len(p) = Len(q) + 1,
         \A i \in 1..Len(q) : q[i] = p[i],
         Len(q) <= MaxDepth,
         p[Len(p)].index \in s, p[Len(p)].index \in Defined(m),
         p[Len(p)].called = Len(Callees(m, p[Len(p)].index)),
         Calling(m, q),
         q # <<>> => p[Len(p)].index = Callees(m, q[Len(q)].index)[q[Len(q)].called],
         WalkIsRight(m, root, p, s, e)
  PROVE  WalkIsRight(m, root, q, s, e)
<1> DEFINE n == Len(q)
           f == p[n + 1].index
           u == e.unbounded
<1>1. n \in Nat /\ MaxDepth - n \in Nat /\ p # <<>> /\ n + 1 \in 1..Len(p)
      /\ (MaxDepth - n) - 1 = MaxDepth - (n + 1)
  BY MaxDepthAssumption
<1>2. /\ p[1].index = root
      /\ s \subseteq Reached(m, root, MaxDepth)
      /\ Thorough(m, p, n + 1, s, u)
      /\ Deserved(m, root, s, u)
      /\ "recursion" \notin u =>
           /\ e.instructions = Counted(m, InstructionsIn(m), root, 0, p, n + 1)
           /\ e.hostCalls = Counted(m, HostCallsIn(m), root, 1, p, n + 1)
  BY <1>1 DEF WalkIsRight
<1>3. Settled(m, f, Above(q, n), MaxDepth - n, s, u)
  <2>1. Above(p, n + 1) = Above(q, n) \cup {f}
    <3>1. 1..(n + 1) = 1..n \cup {n + 1} /\ \A k \in 1..n : q[k] = p[k]
      BY <1>1
    <3>2. QED
      BY <3>1 DEF Above
  <2>2. ASSUME NEW j \in 1..Len(Callees(m, f))
        PROVE  Settled(m, Callees(m, f)[j], Above(q, n) \cup {f}, (MaxDepth - n) - 1, s, u)
    <3>1. j \in 1..Over(p, n + 1, n + 1)
      BY DEF Over
    <3>2. Settled(m, Function(m, p[n + 1].index).calls[j], Above(p, n + 1), MaxDepth - (n + 1), s, u)
      BY <1>1, <1>2, <3>1 DEF Thorough
    <3>3. QED
      BY <1>1, <2>1, <3>2 DEF Callees
  <2> HIDE DEF f
  <2>3. f \in Defined(m) /\ f \in s
    BY DEF f
  <2>4. QED
    BY <1>1, <2>2, <2>3, SettledByItsCalls
<1>a. Thorough(m, q, 0, s, u)
  <2>1. Len(p) = n + 1
    OBVIOUS
  <2>2. QED
    BY <1>2, <2>1, ThoroughReturns
<1>b. ASSUME "recursion" \notin u, NEW weight \in [Defined(m) -> Nat]
      PROVE  SumOf(Spent(m, weight, p, n + 1)) =
               SumOf(Spent(m, weight, q, 0)) + TreeSum(m, weight, f, MaxDepth - n, 0)
  <2>1. Affordable(m, q, 0)
    BY <1>a, <1>b, CallingIsAffordable
  <2>2. Affordable(m, p, n + 1)
    <3>1. ASSUME NEW i \in 1..Len(p)
          PROVE  /\ p[i].index \in Defined(m)
                 /\ Over(p, i, n + 1) \in 0..Len(Callees(m, p[i].index))
      <4>1. CASE i = n + 1
        <5>1. Len(Callees(m, f)) \in Nat
          BY DEF WellFormed, Facts, Callees
        <5>2. QED
          BY <4>1, <5>1 DEF Over
      <4>2. CASE i # n + 1
        <5>1. i \in 1..n /\ q[i] = p[i]
          BY <1>1, <4>2
        <5>2. p[i].index \in Defined(m) /\ p[i].called \in 1..Len(Callees(m, p[i].index))
          BY <5>1 DEF Calling
        <5>3. Len(Callees(m, p[i].index)) \in Nat
          BY <5>2 DEF WellFormed, Facts, Callees
        <5>4. QED
          BY <4>2, <5>1, <5>2, <5>3 DEF Over
      <4>3. QED
        BY <4>1, <4>2
    <3>2. QED
      BY <1>2, <1>b, <3>1, ThoroughIsAffordable
  <2>3. Len(p) = n + 1 /\ MaxDepth - n >= 0 /\ Affordable(m, p, Len(p))
    BY <1>1, <2>2
  <2>4. SumOf(Spent(m, weight, p, Len(p))) =
          SumOf(Spent(m, weight, q, 0))
          + TreeSum(m, weight, p[Len(p)].index, MaxDepth - Len(q), 0)
    BY <2>1, <2>3, SpentReturns
  <2>5. QED
    BY <2>3, <2>4
<1>4. CASE q # <<>>
  <2>1. q[1].index = root
    <3>1. 1 \in 1..n
      BY <1>4
    <3>2. QED
      BY <1>2, <3>1
  <2>3. Thorough(m, q, n, s, u)
    BY <1>3, <1>4, <1>a, ThoroughCloses
  <2>4. ASSUME "recursion" \notin u
        PROVE  /\ e.instructions = Counted(m, InstructionsIn(m), root, 0, q, n)
               /\ e.hostCalls = Counted(m, HostCallsIn(m), root, 1, q, n)
    <3>1. ASSUME NEW weight \in [Defined(m) -> Nat]
          PROVE  SumOf(Spent(m, weight, p, n + 1)) = SumOf(Spent(m, weight, q, n))
      <4>1. Affordable(m, q, 0) /\ Affordable(m, q, Len(q)) /\ MaxDepth - Len(q) >= 0
        BY <1>1, <1>a, <2>3, <2>4, CallingIsAffordable
      <4>2. f = Callees(m, q[Len(q)].index)[q[Len(q)].called]
        BY <1>4
      <4> HIDE DEF f
      <4>3. SumOf(Spent(m, weight, q, Len(q))) =
              SumOf(Spent(m, weight, q, 0)) + TreeSum(m, weight, f, MaxDepth - Len(q), 0)
        BY <1>4, <4>1, <4>2, SpentCloses
      <4>4. QED
        BY <1>b, <2>4, <4>3
    <3>2. QED
      BY <1>1, <1>2, <1>4, <2>4, <3>1, WeightsTyped DEF Counted
  <2>5. QED
    BY <1>2, <1>4, <2>1, <2>3, <2>4 DEF WalkIsRight
<1>5. CASE q = <<>>
  <2>1. n = 0 /\ f = root /\ Above(q, n) = {}
    BY <1>2, <1>5 DEF Above
  <2>2. Settled(m, root, {}, MaxDepth, s, u)
    <3> HIDE DEF n, f
    <3>1. MaxDepth - n = MaxDepth
      BY <2>1, MaxDepthAssumption
    <3>2. QED
      BY <1>3, <2>1, <3>1
  <2>3. ASSUME "recursion" \notin u
        PROVE  /\ e.instructions = Counted(m, InstructionsIn(m), root, 0, q, n)
               /\ e.hostCalls = Counted(m, HostCallsIn(m), root, 1, q, n)
    <3>1. ASSUME NEW weight \in [Defined(m) -> Nat], NEW host
          PROVE  SumOf(Spent(m, weight, p, n + 1)) = TreeSum(m, weight, root, MaxDepth, host)
      <4>1. SumOf(Spent(m, weight, q, 0)) = 0
        BY <1>5, NothingSpent
      <4>2. TreeSums(m, weight, MaxDepth) \in [Defined(m) -> Nat]
        BY MaxDepthAssumption, TreeSumsUnfold
      <4>3. f \in Defined(m) /\ MaxDepth - n = MaxDepth
        <5>1. f \in Defined(m)
          OBVIOUS
        <5> HIDE DEF n, f
        <5>2. QED
          BY <2>1, <5>1, MaxDepthAssumption
      <4>4. TreeSum(m, weight, f, MaxDepth - n, 0) = TreeSums(m, weight, MaxDepth)[f]
        BY <4>3 DEF TreeSum
      <4>5. TreeSum(m, weight, root, MaxDepth, host) = TreeSums(m, weight, MaxDepth)[f]
        BY <2>1, <4>3 DEF TreeSum
      <4>6. TreeSums(m, weight, MaxDepth)[f] \in Nat
        BY <4>2, <4>3
      <4>7. SumOf(Spent(m, weight, p, n + 1)) =
              SumOf(Spent(m, weight, q, 0)) + TreeSum(m, weight, f, MaxDepth - n, 0)
        BY <1>b, <2>3
      <4> HIDE DEF f, n
      <4>8. QED
        BY <4>1, <4>4, <4>5, <4>6, <4>7
    <3>2. QED
      BY <1>1, <1>2, <1>5, <2>3, <3>1, WeightsTyped DEF Counted
  <2>4. QED
    BY <1>2, <1>5, <2>2, <2>3 DEF WalkIsRight
<1>6. QED
  BY <1>4, <1>5

-----------------------------------------------------------------------------
(* The rows *)

\* The row is what the i-th function exported by m should get.
RowIs(m, row, i) ==
  /\ row.name = NthExport(m, i).name
  /\ row.functions = Cardinality(Reached(m, NthExport(m, i).to, MaxDepth))
  /\ row.unbounded = ReasonsOf(m, NthExport(m, i).to)
  /\ row.unbounded = {} =>
       /\ row.instructions =
            TreeSum(m, InstructionsIn(m), NthExport(m, i).to, MaxDepth, 0)
       /\ row.hostCalls =
            TreeSum(m, HostCallsIn(m), NthExport(m, i).to, MaxDepth, 1)

RowsAreRight(m, rows) == \A i \in 1..Len(rows) : RowIs(m, rows[i], i)

LEMMA RowParts ==
  (/\ ReasonsAreComplete
   /\ ExactRowIsTheTreeSum
   /\ \A i \in 1..Len(entries) : RowCountsOnce(i)) <=> RowsAreRight(module, entries)
<1> HIDE DEF module
<1> QED
  BY DEF RowsAreRight, RowIs, ReasonsAreComplete, ExactRowIsTheTreeSum, RowCountsOnce,
         IsExact, RootOf, ExportOf

LEMMA RowPartsPrimed ==
  ASSUME UNCHANGED binary
  PROVE  (/\ ReasonsAreComplete'
          /\ ExactRowIsTheTreeSum'
          /\ (\A i \in 1..Len(entries) : RowCountsOnce(i))')
           <=> RowsAreRight(module, entries')
<1>1. module' = module
  BY DEF module
<1> HIDE DEF module
<1> QED
  BY <1>1 DEF RowsAreRight, RowIs, ReasonsAreComplete, ExactRowIsTheTreeSum, RowCountsOnce,
         IsExact, RootOf, ExportOf

\* Once the walk is over everything within reach has been seen, and the
\* estimate says what there is.
LEMMA WalkIsOver ==
  ASSUME IInv, ~Refused(binary), path = <<>>, NEW root,
         WalkIsRight(module, root, path, seen, estimate)
  PROVE  /\ seen = Reached(module, root, MaxDepth)
         /\ estimate.unbounded = ReasonsOf(module, root)
         /\ estimate.unbounded = {} =>
              /\ estimate.instructions =
                   TreeSum(module, InstructionsIn(module), root, MaxDepth, 0)
              /\ estimate.hostCalls =
                   TreeSum(module, HostCallsIn(module), root, MaxDepth, 1)
<1> DEFINE u == estimate.unbounded
<1>1. u \subseteq Reasons
  BY DEF IInv, TypeOK, Estimates
<1>2. \A f \in seen : /\ Function(module, f).loops > 0 => "loops" \in u
                      /\ Function(module, f).indirect > 0 => "indirect" \in u
  BY DEF IInv, FlagsAreRaised
<1> HIDE DEF module, u
<1>3. /\ seen \subseteq Reached(module, root, MaxDepth)
      /\ Settled(module, root, {}, MaxDepth, seen, u)
      /\ Deserved(module, root, seen, u)
  BY DEF WalkIsRight, u
<1>4. seen = Reached(module, root, MaxDepth)
  <2>1. ASSUME NEW f \in Reached(module, root, MaxDepth)
        PROVE  f \in seen
    <3>1. PICK d \in 0..MaxDepth : f \in After(module, root, d)
      BY DEF Reached
    <3>2. PICK c \in Chains(module, root, d) : f = c[d]
      BY <3>1 DEF After
    <3>3. \A i \in 0..d : c[i] \notin {}
      OBVIOUS
    <3>4. Covered(module, root, {}, MaxDepth, seen)
      BY <1>3 DEF Settled
    <3>5. c[d] \in seen
      BY <3>3, <3>4 DEF Covered
    <3>6. QED
      BY <3>2, <3>5
  <2>2. QED
    BY <1>3, <2>1
<1>5. u = ReasonsOf(module, root)
  <2>1. "loops" \in u <=> \E f \in seen : Function(module, f).loops > 0
    BY <1>2, <1>3 DEF Deserved
  <2>2. "indirect" \in u <=> \E f \in seen : Function(module, f).indirect > 0
    BY <1>2, <1>3 DEF Deserved
  <2>3. "recursion" \in u <=> GoesDeeper(module, root, MaxDepth)
    BY <1>3 DEF Deserved, Settled
  <2>4. QED
    BY <1>1, <1>4, <2>1, <2>2, <2>3 DEF ReasonsOf, Reasons
<1>6. u = {} => /\ estimate.instructions =
                     TreeSum(module, InstructionsIn(module), root, MaxDepth, 0)
                /\ estimate.hostCalls =
                     TreeSum(module, HostCallsIn(module), root, MaxDepth, 1)
  BY DEF WalkIsRight, Counted, u
<1>7. QED
  BY <1>4, <1>5, <1>6 DEF u

\* The first exports in their order.
LEMMA FirstExportsInOrder ==
  ASSUME binary \in Binaries
  PROVE  LET order == Ordered(FirstExports(module))
         IN  /\ Len(module.exports) \in Nat
             /\ FirstExports(module) \in SUBSET (1..Len(module.exports))
             /\ Len(order) = Cardinality(FirstExports(module))
             /\ Len(order) \in Nat
             /\ \A i \in 1..Len(order) : order[i] \in FirstExports(module)
             /\ \A i, j \in 1..Len(order) : i < j => order[i] < order[j]
             /\ \A k \in FirstExports(module) : \E i \in 1..Len(order) : order[i] = k
<1>1. Len(module.exports) \in Nat
  <2>1. binary \in WasmFiles
    BY BinariesAssumption
  <2>2. QED
    BY <2>1, ExportsTyped DEF module, Parsed
<1> HIDE DEF module
<1>2. FirstExports(module) \in SUBSET (1..Len(module.exports))
  BY DEF FirstExports
<1> DEFINE first == FirstExports(module)
<1> HIDE DEF first
<1>3. /\ Cardinality(first) \in Nat
      /\ Len(Ordered(first)) = Cardinality(first)
      /\ \A i \in 1..Len(Ordered(first)) : Ordered(first)[i] \in first
      /\ \A i, j \in 1..Len(Ordered(first)) : i < j => Ordered(first)[i] < Ordered(first)[j]
      /\ \A k \in first : \E i \in 1..Len(Ordered(first)) : Ordered(first)[i] = k
  BY <1>1, <1>2, PositionsInOrder DEF first
<1>4. QED
  BY <1>1, <1>2, <1>3 DEF first

-----------------------------------------------------------------------------
(* TreeInv is inductive *)

\* Where the rows are, of a module m with n rows at the export k.
SoFar(m, n, k, ph, rep, refused) ==
  LET order == Ordered(FirstExports(m))
  IN  /\ n <= Len(order)
      /\ \A i \in 1..n : order[i] < k
      /\ \A i \in (n + 1)..Len(order) : order[i] >= k
      /\ ph = "walk" => k \in FirstExports(m)
      /\ ph = "done" /\ ~refused => k > Len(m.exports)
      /\ rep = {m.exports[j].to : j \in 1..(IF ph = "walk" THEN k ELSE k - 1)}

LEMMA SoFarPrimed ==
  ASSUME UNCHANGED binary
  PROVE  /\ RowsSoFar <=> SoFar(module, Len(entries), next, phase, reported, Refused(binary))
         /\ RowsSoFar' <=>
              SoFar(module, Len(entries'), next', phase', reported', Refused(binary))
<1>1. module' = module
  BY DEF module
<1> HIDE DEF module
<1>2. RowsSoFar <=> SoFar(module, Len(entries), next, phase, reported, Refused(binary))
  BY DEF RowsSoFar, SoFar
<1>3. RowsSoFar' <=>
        SoFar(module, Len(entries'), next', phase', reported', Refused(binary))
  BY <1>1 DEF RowsSoFar, SoFar
<1>4. QED
  BY <1>2, <1>3

\* TreeInv, and what it says of the next state.
LEMMA TreeParts ==
  TreeInv <=> /\ phase = "walk" => WalkIsRight(module, Export.to, path, seen, estimate)
              /\ RowsSoFar
              /\ RowsAreRight(module, entries)
BY RowParts DEF TreeInv

LEMMA TreePartsPrimed ==
  ASSUME UNCHANGED binary,
         phase' = "walk" =>
           WalkIsRight(module, module.exports[next'].to, path', seen', estimate'),
         RowsSoFar',
         RowsAreRight(module, entries')
  PROVE  TreeInv'
<1>1. module' = module
  BY DEF module
<1>2. /\ ReasonsAreComplete'
      /\ ExactRowIsTheTreeSum'
      /\ (\A i \in 1..Len(entries) : RowCountsOnce(i))'
  BY RowPartsPrimed
<1> HIDE DEF module
<1>3. phase' = "walk" => WalkIsRight(module', (Export.to)', path', seen', estimate')
  BY <1>1 DEF Export
<1>4. QED
  BY <1>1, <1>2, <1>3 DEF TreeInv

LEMMA InitIsRight == Init => TreeInv
<1> SUFFICES ASSUME Init PROVE TreeInv
  OBVIOUS
<1>1. /\ phase = "load" /\ next = 1 /\ reported = {} /\ entries = <<>>
      /\ binary \in Binaries
  BY DEF Init
<1>2. RowsAreRight(module, entries)
  BY <1>1 DEF RowsAreRight
<1>3. RowsSoFar
  <2> DEFINE order == Ordered(FirstExports(module))
  <2>1. /\ Len(order) \in Nat
        /\ \A i \in 1..Len(order) : order[i] \in FirstExports(module)
        /\ FirstExports(module) \in SUBSET (1..Len(module.exports))
    BY <1>1, FirstExportsInOrder
  <2> HIDE DEF module
  <2>2. \A i \in 1..Len(order) : order[i] >= 1
    BY <2>1
  <2> HIDE DEF order
  <2>3. QED
    BY <1>1, <2>1, <2>2 DEF RowsSoFar, order
<1>4. QED
  BY <1>1, <1>2, <1>3, TreeParts

LEMMA LoadIsRight ==
  ASSUME IInv, TreeInv, Load PROVE TreeInv'
<1>1. /\ phase = "load" /\ UNCHANGED <<binary, next, reported, entries>>
      /\ \/ Refused(binary) /\ phase' = "done"
         \/ ~Refused(binary) /\ phase' = "entry"
  BY DEF Load, Exit
<1>2. RowsSoFar' /\ RowsAreRight(module, entries')
  BY <1>1, TreeParts, SoFarPrimed DEF SoFar
<1>3. QED
  BY <1>1, <1>2, TreePartsPrimed

LEMMA GateIsRight ==
  ASSUME IInv, TreeInv, Gate PROVE TreeInv'
<1>1. /\ phase = "entry" /\ UNCHANGED <<binary, next, reported, entries>>
      /\ next > Len(module.exports)
      /\ phase' = "done"
  BY DEF Gate, Exit
<1>2. RowsSoFar' /\ RowsAreRight(module, entries')
  BY <1>1, TreeParts, SoFarPrimed DEF SoFar
<1>3. QED
  BY <1>1, <1>2, TreePartsPrimed

LEMMA SkipAliasIsRight ==
  ASSUME IInv, TreeInv, SkipAlias PROVE TreeInv'
<1>1. /\ phase = "entry" /\ phase' = "entry" /\ next' = next + 1
      /\ UNCHANGED <<binary, reported, entries>>
      /\ Export.to \in reported
      /\ next <= Len(module.exports)
  BY DEF SkipAlias
<1>2. binary \in Binaries /\ next \in Nat \ {0} /\ entries \in Seq(Rows)
  BY DEF IInv, TypeOK
<1> DEFINE order == Ordered(FirstExports(module))
           n == Len(entries)
<1>3. SoFar(module, n, next, "entry", reported, Refused(binary)) /\ RowsAreRight(module, entries)
  BY <1>1, TreeParts, SoFarPrimed
<1>4. \A i \in 1..Len(order) : order[i] \in FirstExports(module)
  BY <1>2, FirstExportsInOrder
<1>5. Len(order) \in Nat /\ FirstExports(module) \in SUBSET (1..Len(module.exports))
      /\ Len(module.exports) \in Nat
  BY <1>2, FirstExportsInOrder
<1>6. Export = module.exports[next]
  BY DEF Export
<1> HIDE DEF module
<1>7. reported = {module.exports[j].to : j \in 1..(next - 1)}
  BY <1>3 DEF SoFar
<1>8. PICK j \in 1..(next - 1) : module.exports[j].to = Export.to
  BY <1>1, <1>7
<1>9. next \notin FirstExports(module)
  BY <1>6, <1>8 DEF FirstExports
<1>10. n \in Nat /\ n <= Len(order)
       /\ (\A i \in 1..n : order[i] < next)
       /\ (\A i \in (n + 1)..Len(order) : order[i] >= next)
  BY <1>2, <1>3 DEF SoFar
<1> HIDE DEF order, n
<1>11. \A i \in 1..Len(order) : order[i] \in Nat /\ order[i] # next
  BY <1>4, <1>5, <1>9
<1>12. /\ \A i \in 1..n : order[i] < next + 1
       /\ \A i \in (n + 1)..Len(order) : order[i] >= next + 1
  <2>1. ASSUME NEW i \in 1..n
        PROVE  order[i] < next + 1
    <3>1. i \in 1..Len(order)
      BY <1>5, <1>10
    <3>2. QED
      BY <1>2, <1>10, <1>11, <3>1
  <2>2. ASSUME NEW i \in (n + 1)..Len(order)
        PROVE  order[i] >= next + 1
    <3>1. i \in 1..Len(order)
      BY <1>5, <1>10
    <3>2. QED
      BY <1>2, <1>10, <1>11, <3>1
  <2>3. QED
    BY <2>1, <2>2
<1>13. reported = {module.exports[k].to : k \in 1..next}
  <2>1. 1..next = 1..(next - 1) \cup {next}
    BY <1>2
  <2>2. QED
    BY <1>1, <1>6, <1>7, <2>1
<1>14. SoFar(module, n, next + 1, "entry", reported, Refused(binary))
  <2>1. (next + 1) - 1 = next
    BY <1>2
  <2>2. QED
    BY <1>10, <1>12, <1>13, <2>1 DEF SoFar, order
<1>15. RowsSoFar'
  BY <1>1, <1>14, SoFarPrimed DEF n
<1>16. QED
  BY <1>1, <1>3, <1>15, TreePartsPrimed

\* Chain and Calling say the same of frames that have made a call.
LEMMA ChainIsCalling ==
  ASSUME NEW p, Chain(p), Len(p) \in Nat,
         p = <<>> \/ p[Len(p)].called \in 1..Len(CallsOf(p[Len(p)].index))
  PROVE  Calling(module, p)
<1> HIDE DEF module
<1>1. ASSUME NEW i \in 1..Len(p)
      PROVE  p[i].index \in Defined(module) /\ p[i].called \in 1..Len(CallsOf(p[i].index))
  <2>1. p[i].index \in Defined(module)
    BY DEF Chain
  <2>2. CASE i = Len(p)
    BY <2>1, <2>2
  <2>3. CASE i # Len(p)
    <3>1. i \in 1..(Len(p) - 1)
      BY <2>3
    <3>2. QED
      BY <2>1, <3>1 DEF Chain
  <2>4. QED
    BY <2>2, <2>3
<1>2. QED
  BY <1>1 DEF Calling, Callees, CallsOf

LEMMA StartEntryIsRight ==
  ASSUME IInv, TreeInv, StartEntry, IInv' PROVE TreeInv'
<1>1. /\ phase = "entry" /\ phase' = "walk" /\ UNCHANGED <<binary, next, entries>>
      /\ next <= Len(module.exports)
      /\ Export.to \notin reported
      /\ reported' = reported \cup {Export.to}
      /\ Walk(Export.to, <<>>)
  BY DEF StartEntry
<1>2. /\ TypeOK /\ ~Refused(binary) /\ seen = {} /\ estimate = Zero
      /\ binary \in Binaries /\ next \in Nat \ {0} /\ entries \in Seq(Rows)
  BY <1>1 DEF IInv, TypeOK, Phases
<1>3. Export = module.exports[next]
  BY DEF Export
<1>4. next \in 1..Len(module.exports)
  BY <1>1, <1>2, ModuleTyped
<1>5. Export.to \in HostImports(module) \cup Defined(module)
  BY <1>2, <1>3, <1>4, ModuleTyped
<1>6. WalkIsRight(module, Export.to, path', seen', estimate')
  <2>1. Ahead(module, Export.to, Export.to, <<>>, seen, estimate)
    BY <1>2, StartIsAhead
  <2>2. <<>> \in Seq(Frames) /\ Chain(<<>>)
    BY MaxDepthAssumption DEF Chain
  <2>3. Chain(path')
    <3>1. PathIsASimpleChain'
      BY DEF IInv
    <3>2. module' = module
      BY <1>1 DEF module
    <3> HIDE DEF module
    <3>3. QED
      BY <3>1, <3>2 DEF PathIsASimpleChain, Chain, CallsOf
  <2>4. QED
    BY <1>1, <1>2, <1>5, <2>1, <2>2, <2>3, WalkMakesRight
<1> DEFINE n == Len(entries)
<1>7. SoFar(module, n, next, "entry", reported, Refused(binary)) /\ RowsAreRight(module, entries)
  BY <1>1, TreeParts, SoFarPrimed
<1> HIDE DEF module
<1>8. reported = {module.exports[j].to : j \in 1..(next - 1)}
  BY <1>7 DEF SoFar
<1>9. next \in FirstExports(module)
  BY <1>1, <1>3, <1>4, <1>8 DEF FirstExports
<1>10. reported' = {module.exports[j].to : j \in 1..next}
  <2>1. 1..next = 1..(next - 1) \cup {next}
    BY <1>2
  <2>2. QED
    BY <1>1, <1>3, <1>8, <2>1
<1>11. SoFar(module, n, next, "walk", reported', Refused(binary))
  BY <1>7, <1>9, <1>10 DEF SoFar
<1>12. RowsSoFar'
  BY <1>1, <1>11, SoFarPrimed
<1>13. QED
  BY <1>1, <1>3, <1>6, <1>7, <1>12, TreePartsPrimed

\* An action within a walk.
LEMMA WithinWalk ==
  ASSUME TreeInv, phase = "walk",
         UNCHANGED <<binary, phase, next, reported, entries>>,
         WalkIsRight(module, Export.to, path', seen', estimate')
  PROVE  TreeInv'
<1>1. RowsSoFar' /\ RowsAreRight(module, entries')
  BY TreeParts, SoFarPrimed
<1>2. module.exports[next'].to = Export.to
  BY DEF Export
<1>3. QED
  BY <1>1, <1>2, TreePartsPrimed

LEMMA CallIsRight ==
  ASSUME IInv, TreeInv, Call, IInv' PROVE TreeInv'
<1> DEFINE n == Len(path)
           q == [path EXCEPT ![n].called = @ + 1]
           target == TopCalls[Top.called + 1]
<1>1. /\ phase = "walk" /\ path # <<>> /\ Top.called < Len(TopCalls)
      /\ Walk(target, q)
      /\ UNCHANGED <<binary, phase, next, reported, entries>>
  BY DEF Call
<1>2. /\ TypeOK /\ ~Refused(binary) /\ next <= Len(module.exports)
      /\ binary \in Binaries /\ next \in Nat \ {0}
      /\ path \in Seq(Frames) /\ Chain(path)
  BY <1>1, Parts DEF IInv, TypeOK, Phases, Frames
<1>3. /\ n \in Nat \ {0} /\ path[n] \in Frames /\ path[n].index \in Defined(module)
      /\ Top = path[n] /\ TopCalls = CallsOf(path[n].index)
  <2>1. n \in Nat \ {0} /\ path[n] \in Frames
    BY <1>1, <1>2
  <2>2. path[n].index \in Defined(module)
    BY <1>2, <2>1 DEF Chain
  <2>3. Top = path[n] /\ TopCalls = CallsOf(path[n].index)
    BY DEF Top, TopCalls, CallsOf
  <2>4. QED
    BY <2>1, <2>2, <2>3
<1>4. /\ q \in Seq(Frames) /\ Len(q) = n
      /\ \A i \in 1..n : q[i].index = path[i].index
      /\ \A i \in 1..n : i # n => q[i] = path[i]
      /\ q[n].called = path[n].called + 1
  <2>1. \A f \in Frames : [f EXCEPT !.called = @ + 1]
                            = [index |-> f.index, called |-> f.called + 1]
    BY DEF Frames
  <2>2. q = [path EXCEPT ![n] = [index |-> path[n].index, called |-> path[n].called + 1]]
    BY <1>3, <2>1
  <2>3. [index |-> path[n].index, called |-> path[n].called + 1] \in Frames
    BY <1>3 DEF Frames
  <2>4. QED
    BY <1>2, <1>3, <2>2, <2>3
<1> HIDE DEF q
<1>5. path[n].called + 1 \in 1..Len(CallsOf(path[n].index))
  <2>1. Function(module, path[n].index) \in Facts
    BY <1>2, <1>3, ModuleTyped
  <2>2. Len(CallsOf(path[n].index)) \in Nat /\ path[n].called \in Nat
    BY <1>3, <2>1 DEF CallsOf, Facts, Frames
  <2>3. QED
    BY <1>1, <1>3, <2>2
<1>6. Chain(q)
  <2>1. /\ n <= MaxDepth + 1
        /\ \A i \in 1..n : path[i].index \in Defined(module)
        /\ \A i, j \in 1..n : path[i].index = path[j].index => i = j
        /\ \A i \in 1..(n - 1) :
             /\ path[i].called \in 1..Len(CallsOf(path[i].index))
             /\ CallsOf(path[i].index)[path[i].called] = path[i + 1].index
    BY <1>2 DEF Chain
  <2> HIDE DEF n
  <2>2. \A i \in 1..(n - 1) : i \in 1..n /\ i # n /\ i + 1 \in 1..n
    BY <1>3
  <2>3. \A i \in 1..(n - 1) :
          /\ q[i].called \in 1..Len(CallsOf(q[i].index))
          /\ CallsOf(q[i].index)[q[i].called] = q[i + 1].index
    BY <1>4, <2>1, <2>2
  <2>4. QED
    BY <1>4, <2>1, <2>3 DEF Chain
<1>7. Calling(module, q)
  <2>1. q[Len(q)].called \in 1..Len(CallsOf(q[Len(q)].index))
    BY <1>3, <1>4, <1>5
  <2>2. QED
    BY <1>3, <1>4, <1>6, <2>1, ChainIsCalling
<1>8. target = Callees(module, q[Len(q)].index)[q[Len(q)].called]
  <2>1. q[Len(q)].index = path[n].index /\ q[Len(q)].called = path[n].called + 1
    BY <1>3, <1>4
  <2>2. QED
    BY <1>3, <2>1 DEF Callees, CallsOf
<1> HIDE DEF target
<1>9. WalkIsRight(module, Export.to, path, seen, estimate)
  BY <1>1, TreeParts
<1>10. Ahead(module, Export.to, target, q, seen, estimate)
  BY <1>1, <1>2, <1>4, <1>7, <1>8, <1>9, CallIsAhead
<1>11. Export.to \in HostImports(module) \cup Defined(module)
  <2>1. next \in 1..Len(module.exports)
    BY <1>2, ModuleTyped
  <2>2. QED
    BY <1>2, <2>1, ModuleTyped DEF Export
<1>12. Chain(path')
  <2>1. PathIsASimpleChain'
    BY DEF IInv
  <2>2. module' = module
    BY <1>1 DEF module
  <2> HIDE DEF module
  <2>3. QED
    BY <2>1, <2>2 DEF PathIsASimpleChain, Chain, CallsOf
<1>13. WalkIsRight(module, Export.to, path', seen', estimate')
  BY <1>1, <1>2, <1>4, <1>6, <1>10, <1>11, <1>12, WalkMakesRight
<1>14. QED
  BY <1>1, <1>13, WithinWalk

LEMMA ReturnStaysRight ==
  ASSUME IInv, TreeInv, Return PROVE TreeInv'
<1> DEFINE n == Len(path)
           q == path'
<1>1. /\ phase = "walk" /\ path # <<>> /\ Top.called = Len(TopCalls)
      /\ q = SubSeq(path, 1, n - 1)
      /\ UNCHANGED <<binary, phase, next, reported, entries, estimate, seen>>
  BY DEF Return
<1>2. /\ TypeOK /\ ~Refused(binary) /\ binary \in Binaries
      /\ path \in Seq(Frames) /\ Chain(path) /\ IsReached(path, seen)
  BY <1>1, Parts DEF IInv, TypeOK, Phases, Frames
<1>3. /\ n \in Nat \ {0} /\ path[n] \in Frames /\ path[n].index \in Defined(module)
      /\ path[n].index \in seen
      /\ path[n].called = Len(Callees(module, path[n].index))
  <2>1. n \in Nat \ {0} /\ path[n] \in Frames
    BY <1>1, <1>2
  <2>2. path[n].index \in Defined(module)
    BY <1>2, <2>1 DEF Chain
  <2>3. path[n].index \in seen
    BY <1>2, <2>1 DEF IsReached
  <2>4. path[n].called = Len(Callees(module, path[n].index))
    BY <1>1 DEF Top, TopCalls, Callees
  <2>5. QED
    BY <2>1, <2>2, <2>3, <2>4
<1>4. /\ q \in Seq(Frames) /\ Len(q) = n - 1 /\ \A i \in 1..(n - 1) : q[i] = path[i]
  <2>1. n - 1 \in Nat /\ n - 1 <= Len(path)
    BY <1>3
  <2>2. \A i \in 1..(n - 1) : path[i] \in Frames
    BY <1>2, <1>3
  <2> DEFINE k == n - 1
  <2> HIDE DEF k, n
  <2>3. k \in Nat /\ \A i \in 1..k : path[i] \in Frames
    BY <2>1, <2>2 DEF k
  <2>4. /\ SubSeq(path, 1, k) \in Seq(Frames) /\ Len(SubSeq(path, 1, k)) = k
        /\ \A i \in 1..k : SubSeq(path, 1, k)[i] = path[i]
    BY <2>3
  <2>5. QED
    BY <1>1, <2>4 DEF k
<1> HIDE DEF q
<1>5. n <= MaxDepth + 1 /\ Len(path) = Len(q) + 1 /\ Len(q) <= MaxDepth
      /\ Len(q) = n - 1 /\ Len(q) \in Nat
  BY <1>2, <1>3, <1>4, MaxDepthAssumption DEF Chain
<1>6. ASSUME NEW i \in 1..Len(q)
      PROVE  /\ q[i].index \in Defined(module)
             /\ q[i].called \in 1..Len(CallsOf(q[i].index))
             /\ CallsOf(q[i].index)[q[i].called] = path[i + 1].index
  <2>1. i \in 1..(n - 1) /\ i \in 1..n /\ q[i] = path[i]
    BY <1>3, <1>4, <1>5
  <2>2. QED
    BY <1>2, <2>1 DEF Chain
<1> HIDE DEF module
<1>7. Calling(module, q)
  BY <1>6 DEF Calling, Callees, CallsOf
<1>8. q # <<>> => path[n].index = Callees(module, q[Len(q)].index)[q[Len(q)].called]
  <2>1. SUFFICES ASSUME q # <<>>
                 PROVE  path[n].index = Callees(module, q[Len(q)].index)[q[Len(q)].called]
    OBVIOUS
  <2>2. Len(q) \in 1..Len(q) /\ Len(q) + 1 = n
    BY <1>3, <1>4, <1>5, <2>1
  <2>3. QED
    BY <1>6, <2>2 DEF Callees, CallsOf
<1>9. WellFormed(module)
  BY <1>2, ModuleIsWellFormed
<1>10. WalkIsRight(module, Export.to, path, seen, estimate)
  BY <1>1, TreeParts
<1>11. WalkIsRight(module, Export.to, q, seen, estimate)
  <2>1. \A i \in 1..Len(q) : q[i] = path[i]
    BY <1>4, <1>5
  <2> DEFINE p == path
  <2>2. /\ p \in Seq(Frames) /\ Len(p) = Len(q) + 1
        /\ \A i \in 1..Len(q) : q[i] = p[i]
        /\ p[Len(p)].index \in seen /\ p[Len(p)].index \in Defined(module)
        /\ p[Len(p)].called = Len(Callees(module, p[Len(p)].index))
        /\ q # <<>> => p[Len(p)].index = Callees(module, q[Len(q)].index)[q[Len(q)].called]
        /\ WalkIsRight(module, Export.to, p, seen, estimate)
    BY <1>2, <1>3, <1>5, <1>8, <1>10, <2>1
  <2> HIDE DEF p
  <2>3. QED
    BY <1>4, <1>5, <1>7, <1>9, <2>2, ReturnIsRight
<1>12. WalkIsRight(module, Export.to, path', seen', estimate')
  BY <1>1, <1>11 DEF q
<1>13. QED
  BY <1>1, <1>12, WithinWalk DEF module

LEMMA FinishEntryIsRight ==
  ASSUME IInv, TreeInv, FinishEntry PROVE TreeInv'
<1> DEFINE row == [name         |-> Export.name,
                   functions    |-> Cardinality(seen),
                   instructions |-> estimate.instructions,
                   hostCalls    |-> estimate.hostCalls,
                   unbounded    |-> estimate.unbounded,
                   loops        |-> estimate.loops,
                   indirect     |-> estimate.indirect]
           order == Ordered(FirstExports(module))
           n == Len(entries)
<1>1. /\ phase = "walk" /\ phase' = "entry" /\ path = <<>> /\ next' = next + 1
      /\ entries' = Append(entries, row)
      /\ UNCHANGED <<binary, reported>>
  BY DEF FinishEntry
<1>2. /\ ~Refused(binary) /\ binary \in Binaries /\ next \in Nat \ {0}
      /\ entries \in Seq(Rows) /\ n \in Nat
  BY <1>1 DEF IInv, TypeOK, Phases
<1>3. /\ WalkIsRight(module, Export.to, path, seen, estimate)
      /\ SoFar(module, n, next, "walk", reported, Refused(binary))
      /\ RowsAreRight(module, entries)
  BY <1>1, TreeParts, SoFarPrimed
<1>4. /\ seen = Reached(module, Export.to, MaxDepth)
      /\ estimate.unbounded = ReasonsOf(module, Export.to)
      /\ estimate.unbounded = {} =>
           /\ estimate.instructions =
                TreeSum(module, InstructionsIn(module), Export.to, MaxDepth, 0)
           /\ estimate.hostCalls =
                TreeSum(module, HostCallsIn(module), Export.to, MaxDepth, 1)
  BY <1>1, <1>2, <1>3, WalkIsOver
<1>5. /\ Len(order) \in Nat
      /\ \A i \in 1..Len(order) : order[i] \in FirstExports(module)
      /\ \A i, j \in 1..Len(order) : i < j => order[i] < order[j]
      /\ \A k \in FirstExports(module) : \E i \in 1..Len(order) : order[i] = k
      /\ FirstExports(module) \in SUBSET (1..Len(module.exports))
      /\ Len(module.exports) \in Nat
  BY <1>2, FirstExportsInOrder
<1>6. Export = module.exports[next]
  BY DEF Export
<1>7. /\ n <= Len(order)
      /\ \A i \in 1..n : order[i] < next
      /\ \A i \in (n + 1)..Len(order) : order[i] >= next
      /\ next \in FirstExports(module)
      /\ reported = {module.exports[j].to : j \in 1..next}
  BY <1>3 DEF SoFar
<1> HIDE DEF module, order, n
<1>8. \A i \in 1..Len(order) : order[i] \in Nat
  BY <1>5
<1>9. n + 1 \in 1..Len(order) /\ order[n + 1] = next
  <2>1. PICK k \in 1..Len(order) : order[k] = next
    BY <1>5, <1>7
  <2>2. ~(k <= n)
    BY <1>2, <1>7, <1>8, <2>1
  <2>3. n + 1 \in 1..Len(order) /\ n + 1 <= k
    BY <1>2, <1>5, <2>2
  <2>4. order[n + 1] >= next
    BY <1>7, <2>3
  <2>5. ~(n + 1 < k)
    BY <1>2, <1>5, <1>8, <2>1, <2>3, <2>4
  <2>6. k = n + 1
    BY <1>2, <2>3, <2>5
  <2>7. QED
    BY <2>1, <2>3, <2>6
<1>10. NthExport(module, n + 1) = Export
  BY <1>6, <1>9 DEF NthExport, order
<1>11. /\ row.name = Export.name /\ row.functions = Cardinality(seen)
       /\ row.unbounded = estimate.unbounded
       /\ row.instructions = estimate.instructions
       /\ row.hostCalls = estimate.hostCalls
  OBVIOUS
<1> HIDE DEF row
<1>12. RowIs(module, row, n + 1)
  BY <1>4, <1>10, <1>11 DEF RowIs
<1>13. Len(entries') = n + 1 /\ entries'[n + 1] = row
       /\ \A i \in 1..n : entries'[i] = entries[i]
  BY <1>1, <1>2 DEF n
<1>14. RowsAreRight(module, entries')
  <2>1. ASSUME NEW i \in 1..Len(entries')
        PROVE  RowIs(module, entries'[i], i)
    <3>1. CASE i = n + 1
      BY <1>12, <1>13, <3>1
    <3>2. CASE i # n + 1
      <4>1. i \in 1..n
        BY <1>2, <1>13, <3>2
      <4>2. RowIs(module, entries[i], i)
        BY <1>3, <4>1 DEF RowsAreRight, n
      <4>3. QED
        BY <1>13, <4>1, <4>2
    <3>3. QED
      BY <3>1, <3>2
  <2>2. QED
    BY <2>1 DEF RowsAreRight
<1>15. /\ \A i \in 1..(n + 1) : order[i] < next + 1
       /\ \A i \in ((n + 1) + 1)..Len(order) : order[i] >= next + 1
  <2>1. ASSUME NEW i \in 1..(n + 1)
        PROVE  order[i] < next + 1
    <3>1. CASE i = n + 1
      BY <1>2, <1>9, <3>1
    <3>2. CASE i # n + 1
      <4>1. i \in 1..n /\ i \in 1..Len(order)
        BY <1>2, <1>5, <1>7, <3>2
      <4>2. QED
        BY <1>2, <1>7, <1>8, <4>1
    <3>3. QED
      BY <3>1, <3>2
  <2>2. ASSUME NEW i \in ((n + 1) + 1)..Len(order)
        PROVE  order[i] >= next + 1
    <3>1. i \in 1..Len(order) /\ n + 1 < i
      BY <1>2, <1>5
    <3>2. order[n + 1] < order[i]
      BY <1>5, <1>9, <3>1
    <3>3. QED
      BY <1>2, <1>8, <1>9, <3>1, <3>2
  <2>3. QED
    BY <2>1, <2>2
<1>16. SoFar(module, n + 1, next + 1, "entry", reported, Refused(binary))
  <2>1. (next + 1) - 1 = next /\ n + 1 <= Len(order)
    BY <1>2, <1>5, <1>9
  <2>2. QED
    BY <1>7, <1>15, <2>1 DEF SoFar, order
<1>17. RowsSoFar'
  BY <1>1, <1>13, <1>16, SoFarPrimed
<1>18. QED
  BY <1>1, <1>14, <1>17, TreePartsPrimed

LEMMA StepKeepsTheTree == IInv /\ TreeInv /\ [Next]_vars => TreeInv'
<1> SUFFICES ASSUME IInv, TreeInv, [Next]_vars
             PROVE  TreeInv'
  OBVIOUS
<1>1. IInv'
  BY StepKeeps
<1>2. CASE Next
  BY <1>1, <1>2, LoadIsRight, SkipAliasIsRight, StartEntryIsRight, CallIsRight,
     ReturnStaysRight, FinishEntryIsRight, GateIsRight DEF Next
<1>3. CASE UNCHANGED vars
  <2>1. /\ UNCHANGED <<binary, phase, next, reported, entries>>
        /\ UNCHANGED <<path, seen, estimate>>
    BY <1>3 DEF vars
  <2>2. RowsSoFar' /\ RowsAreRight(module, entries')
    BY <2>1, TreeParts, SoFarPrimed
  <2>3. phase' = "walk" =>
          WalkIsRight(module, module.exports[next'].to, path', seen', estimate')
    BY <2>1, TreeParts DEF Export
  <2>4. QED
    BY <2>1, <2>2, <2>3, TreePartsPrimed
<1>4. QED
  BY <1>2, <1>3

\* The rows so far and the walk at hand are right in every state.
THEOREM TreeInvariant == Spec => [](IInv /\ TreeInv)
BY InitHolds, InitIsRight, StepKeeps, StepKeepsTheTree, PTL DEF Spec

\* Every row names all the reasons its count is no upper bound and no other,
\* for every module and every depth guard (the table at estimate.rs:15).
THEOREM ReasonsComplete == Spec => []ReasonsAreComplete
<1>1. TreeInv => ReasonsAreComplete
  BY DEF TreeInv
<1>2. QED
  BY TreeInvariant, <1>1, PTL

\* An exact row is the sum over the call tree of its entry, whatever the order
\* and the sharing of calls in it (estimate.rs:187).
THEOREM ExactRowsAreTreeSums == Spec => []ExactRowIsTheTreeSum
<1>1. TreeInv => ExactRowIsTheTreeSum
  BY DEF TreeInv
<1>2. QED
  BY TreeInvariant, <1>1, PTL

\* RowsSoFar, of the state as it is.
LEMMA SoFarNow ==
  RowsSoFar <=> SoFar(module, Len(entries), next, phase, reported, Refused(binary))
<1> HIDE DEF module
<1>1. QED
  BY DEF RowsSoFar, SoFar

LEMMA RowsCountOnce == IInv /\ TreeInv => EachFunctionCountsOnce
<1> SUFFICES ASSUME IInv, TreeInv
             PROVE  EachFunctionCountsOnce
  OBVIOUS
<1> DEFINE order == Ordered(FirstExports(module))
           n == Len(entries)
<1>1. n \in Nat /\ binary \in Binaries
  BY DEF IInv, TypeOK
<1>2. /\ Len(order) = Cardinality(FirstExports(module)) /\ Len(order) \in Nat
      /\ \A i \in 1..Len(order) : order[i] \in FirstExports(module)
      /\ FirstExports(module) \in SUBSET (1..Len(module.exports))
      /\ Len(module.exports) \in Nat
  BY <1>1, FirstExportsInOrder
<1>3. SoFar(module, n, next, phase, reported, Refused(binary)) /\ next \in Nat
  <2>1. next \in Nat
    BY DEF IInv, TypeOK
  <2>2. RowsSoFar
    BY TreeParts
  <2> HIDE DEF module
  <2>3. QED
    BY <2>1, <2>2, SoFarNow
<1>4. \A i \in 1..Len(entries) : RowCountsOnce(i)
  BY DEF TreeInv
<1> HIDE DEF module, order, n
<1>5. n <= Len(order) /\ \A i \in (n + 1)..Len(order) : order[i] >= next
  BY <1>3 DEF SoFar, order
<1>6. phase = "done" /\ ~Refused(binary) => n = Len(order)
  <2>1. SUFFICES ASSUME phase = "done", ~Refused(binary), n < Len(order)
                 PROVE  FALSE
    BY <1>1, <1>2, <1>5
  <2>2. next > Len(module.exports)
    BY <1>3, <2>1 DEF SoFar
  <2>3. n + 1 \in (n + 1)..Len(order) /\ n + 1 \in 1..Len(order)
    BY <1>1, <1>2, <2>1
  <2>4. order[n + 1] >= next /\ order[n + 1] <= Len(module.exports) /\ order[n + 1] \in Nat
    BY <1>2, <1>5, <2>3
  <2>5. QED
    BY <1>2, <1>3, <2>2, <2>4
<1>7. QED
  BY <1>2, <1>4, <1>5, <1>6 DEF EachFunctionCountsOnce, order, n

\* A row counts each function within reach once, and in the end each exported
\* function has one row under the first of its names (estimate.rs:163).
THEOREM FunctionsCountOnce == Spec => []EachFunctionCountsOnce
BY TreeInvariant, RowsCountOnce, PTL

-----------------------------------------------------------------------------
(* A run beside the estimate: sums over the operators of a body *)

LEMMA SumOfOnes ==
  ASSUME NEW n \in Nat, NEW s, \A i \in 1..n : s[i] = 1
  PROVE  UpTo(s, n) = n
<1> DEFINE T == {q \in Nat : q <= n => UpTo(s, q) = q}
<1>1. 0 \in T
  BY SumGrows
<1>2. ASSUME NEW q \in T
      PROVE  q + 1 \in T
  <2>1. SUFFICES ASSUME q + 1 <= n
                 PROVE  UpTo(s, q + 1) = q + 1
    OBVIOUS
  <2>2. /\ q \in Nat /\ UpTo(s, q) = q /\ q + 1 \in Nat /\ (q + 1) - 1 = q /\ q + 1 > 0
        /\ q + 1 \in 1..n /\ \A i \in 1..(q + 1) : s[i] \in Nat
    BY <2>1
  <2> HIDE DEF T
  <2>3. UpTo(s, q + 1) = UpTo(s, (q + 1) - 1) + s[q + 1]
    BY <2>2, SumGrows
  <2>4. QED
    BY <2>2, <2>3
<1>3. T \in SUBSET Nat
  OBVIOUS
<1>4. T = Nat
  <2> HIDE DEF T
  <2>1. QED
    BY <1>1, <1>2, <1>3, NatInducts
<1>5. QED
  BY <1>4

LEMMA SumOfSums ==
  ASSUME NEW n \in Nat, NEW s, NEW a, NEW b,
         \A i \in 1..n : a[i] \in Nat /\ b[i] \in Nat /\ s[i] = a[i] + b[i]
  PROVE  UpTo(s, n) = UpTo(a, n) + UpTo(b, n)
<1> DEFINE T == {q \in Nat : q <= n => UpTo(s, q) = UpTo(a, q) + UpTo(b, q)}
<1>1. 0 \in T
  <2>1. UpTo(s, 0) = 0 /\ UpTo(a, 0) = 0 /\ UpTo(b, 0) = 0
    BY SumGrows
  <2>2. QED
    BY <2>1
<1>2. ASSUME NEW q \in T
      PROVE  q + 1 \in T
  <2>1. SUFFICES ASSUME q + 1 <= n
                 PROVE  UpTo(s, q + 1) = UpTo(a, q + 1) + UpTo(b, q + 1)
    OBVIOUS
  <2>2. /\ q \in Nat /\ UpTo(s, q) = UpTo(a, q) + UpTo(b, q)
        /\ q + 1 \in Nat /\ (q + 1) - 1 = q /\ q + 1 > 0 /\ q + 1 \in 1..n
        /\ \A i \in 1..(q + 1) : s[i] \in Nat /\ a[i] \in Nat /\ b[i] \in Nat
    BY <2>1
  <2> HIDE DEF T
  <2>3. UpTo(s, q + 1) = UpTo(s, (q + 1) - 1) + s[q + 1]
    BY <2>2, SumGrows
  <2>4. UpTo(a, q + 1) = UpTo(a, (q + 1) - 1) + a[q + 1] /\ UpTo(a, (q + 1) - 1) \in Nat
    BY <2>2, SumGrows
  <2>5. UpTo(b, q + 1) = UpTo(b, (q + 1) - 1) + b[q + 1] /\ UpTo(b, (q + 1) - 1) \in Nat
    BY <2>2, SumGrows
  <2>6. s[q + 1] = a[q + 1] + b[q + 1] /\ a[q + 1] \in Nat /\ b[q + 1] \in Nat
    BY <2>2
  <2>7. QED
    BY <2>2, <2>3, <2>4, <2>5, <2>6
<1>3. T \in SUBSET Nat
  OBVIOUS
<1>4. T = Nat
  <2> HIDE DEF T
  <2>1. QED
    BY <1>1, <1>2, <1>3, NatInducts
<1>5. QED
  BY <1>4

\* More of s comes to no less.
LEMMA SumRises ==
  ASSUME NEW n \in Nat, NEW s, \A i \in 1..n : s[i] \in Nat,
         NEW j \in 0..n, NEW k \in j..n
  PROVE  UpTo(s, j) <= UpTo(s, k) /\ UpTo(s, j) \in Nat /\ UpTo(s, k) \in Nat
<1>0. \A q \in 0..n : UpTo(s, q) \in Nat
  BY SumGrows
<1> DEFINE T == {q \in Nat : j + q <= n => UpTo(s, j) <= UpTo(s, j + q)}
<1>1. 0 \in T
  BY <1>0
<1>2. ASSUME NEW q \in T
      PROVE  q + 1 \in T
  <2>1. SUFFICES ASSUME j + (q + 1) <= n
                 PROVE  UpTo(s, j) <= UpTo(s, j + (q + 1))
    OBVIOUS
  <2>2. /\ UpTo(s, j) <= UpTo(s, j + q)
        /\ j + (q + 1) \in Nat /\ (j + (q + 1)) - 1 = j + q /\ j + (q + 1) > 0
        /\ j + (q + 1) \in 1..n /\ j + q \in 0..n
        /\ \A i \in 1..(j + (q + 1)) : s[i] \in Nat
    BY <2>1
  <2> HIDE DEF T
  <2>3. UpTo(s, j + (q + 1)) = UpTo(s, (j + (q + 1)) - 1) + s[j + (q + 1)]
    BY <2>2, SumGrows
  <2>4. s[j + (q + 1)] \in Nat /\ UpTo(s, j + q) \in Nat /\ UpTo(s, j) \in Nat
    BY <1>0, <2>2
  <2>5. QED
    BY <2>2, <2>3, <2>4
<1>3. T \in SUBSET Nat
  OBVIOUS
<1>4. T = Nat
  <2> HIDE DEF T
  <2>1. QED
    BY <1>1, <1>2, <1>3, NatInducts
<1>5. k \in 0..n /\ k - j \in Nat /\ j + (k - j) = k
  OBVIOUS
<1>6. PICK q \in Nat : j + q = k
  BY <1>5
<1>7. q \in T
  <2> HIDE DEF T
  <2>1. QED
    BY <1>4
<1>8. UpTo(s, j) <= UpTo(s, j + q)
  BY <1>5, <1>6, <1>7
<1>9. QED
  BY <1>0, <1>5, <1>6, <1>8

\* Where s is 0 outside S, its sum is that of what is at S, in order.
LEMMA SumByPosition ==
  ASSUME NEW n \in Nat, NEW S \in SUBSET (1..n), NEW v, NEW s,
         \A i \in 1..n : v[i] \in Nat /\ (i \notin S => v[i] = 0),
         \A k \in 1..Cardinality(S) : s[k] = v[Ordered(S)[k]]
  PROVE  UpTo(v, n) = UpTo(s, Cardinality(S))
<1> DEFINE card == Cardinality(S)
           order == Ordered(S)
           Splits(q, c) == /\ \A k \in 1..c : order[k] <= q
                           /\ \A k \in (c + 1)..card : order[k] > q
           T == {q \in Nat : q <= n => \A c \in 0..card : Splits(q, c) => UpTo(v, q) = UpTo(s, c)}
<1>1. /\ card \in Nat
      /\ \A i \in 1..card : order[i] \in S
      /\ \A i, j \in 1..card : i < j => order[i] < order[j]
      /\ \A k \in S : \E i \in 1..card : order[i] = k
  <2>1. /\ card \in Nat
        /\ Len(order) = card
        /\ \A i \in 1..Len(order) : order[i] \in S
        /\ \A i, j \in 1..Len(order) : i < j => order[i] < order[j]
        /\ \A k \in S : \E i \in 1..Len(order) : order[i] = k
    BY PositionsInOrder
  <2> HIDE DEF card, order
  <2>2. QED
    BY <2>1
<1>2. \A k \in 1..card : s[k] = v[order[k]]
  OBVIOUS
<1>3. \A k \in 1..card : order[k] \in 1..n /\ s[k] \in Nat
  BY <1>1, <1>2
<1> HIDE DEF card, order
<1>4. 0 \in T
  <2>1. ASSUME NEW c \in 0..card, Splits(0, c)
        PROVE  UpTo(v, 0) = UpTo(s, c)
    <3>1. c = 0
      <4>1. SUFFICES ASSUME c # 0
                     PROVE  FALSE
        OBVIOUS
      <4>2. c \in 1..card /\ c \in 1..c
        BY <1>1, <4>1
      <4>3. order[c] <= 0 /\ order[c] \in 1..n
        BY <1>3, <2>1, <4>2
      <4>4. QED
        BY <4>3
    <3>2. UpTo(v, 0) = 0 /\ UpTo(s, 0) = 0
      BY SumGrows
    <3>3. QED
      BY <3>1, <3>2
  <2> HIDE DEF Splits
  <2>2. QED
    BY <2>1
<1>5. ASSUME NEW q \in T
      PROVE  q + 1 \in T
  <2>0. q \in Nat
    OBVIOUS
  <2>1. SUFFICES ASSUME q + 1 <= n, NEW c \in 0..card, Splits(q + 1, c)
                 PROVE  UpTo(v, q + 1) = UpTo(s, c)
    BY <2>0
  <2>2. \A e \in 0..card : Splits(q, e) => UpTo(v, q) = UpTo(s, e)
    <3> HIDE DEF Splits
    <3>1. QED
      BY <2>0, <2>1
  <2> HIDE DEF T
  <2>3. /\ q + 1 \in 1..n /\ (q + 1) - 1 = q /\ q + 1 > 0 /\ q + 1 \in Nat /\ c \in Nat
        /\ \A i \in 1..(q + 1) : v[i] \in Nat
        /\ \A i \in 1..c : s[i] \in Nat
    BY <1>1, <1>3, <2>0, <2>1
  <2>4. UpTo(v, q + 1) = UpTo(v, q) + v[q + 1] /\ UpTo(v, q) \in Nat
    BY <2>3, SumGrows
  <2>5. CASE q + 1 \in S
    <3>1. PICK k \in 1..card : order[k] = q + 1
      BY <1>1, <2>5
    <3>2. k <= c
      BY <1>1, <2>0, <2>1, <3>1
    <3>3. c \in 1..card /\ c \in 1..c /\ c - 1 \in 0..card /\ (c - 1) + 1 = c /\ c > 0
      BY <1>1, <2>1, <3>1, <3>2
    <3>4. order[c] <= q + 1
      BY <2>1, <3>3
    <3>5. k = c
      <4>1. SUFFICES ASSUME k < c
                     PROVE  FALSE
        BY <2>3, <3>1, <3>2
      <4>2. order[k] < order[c]
        BY <1>1, <3>3, <4>1
      <4>3. order[c] \in 1..n
        BY <1>3, <3>3
      <4>4. QED
        BY <2>0, <3>1, <3>4, <4>2, <4>3
    <3>6. Splits(q, c - 1)
      <4>1. ASSUME NEW i \in 1..(c - 1)
            PROVE  order[i] <= q
        <5>1. i \in 1..card /\ i < c
          BY <1>1, <3>3
        <5>2. order[i] < order[c] /\ order[i] \in 1..n
          BY <1>1, <1>3, <3>3, <5>1
        <5>3. QED
          BY <2>0, <3>1, <3>5, <5>2
      <4>2. ASSUME NEW i \in ((c - 1) + 1)..card
            PROVE  order[i] > q
        <5>1. i = c \/ i \in (c + 1)..card
          BY <1>1, <3>3
        <5>2. i \in 1..card /\ order[i] \in 1..n
          BY <1>1, <1>3, <3>3
        <5>3. QED
          BY <2>0, <2>1, <3>1, <3>5, <5>1, <5>2
      <4>3. QED
        BY <4>1, <4>2
    <3> HIDE DEF Splits
    <3>7. UpTo(v, q) = UpTo(s, c - 1)
      BY <2>2, <3>3, <3>6
    <3>8. UpTo(s, c) = UpTo(s, c - 1) + s[c]
      BY <2>3, <3>3, SumGrows
    <3>9. s[c] = v[q + 1]
      BY <1>2, <3>1, <3>3, <3>5
    <3>10. QED
      BY <2>4, <3>7, <3>8, <3>9
  <2>6. CASE q + 1 \notin S
    <3>1. v[q + 1] = 0
      BY <2>3, <2>6
    <3>2. Splits(q, c)
      <4>1. ASSUME NEW i \in 1..c
            PROVE  order[i] <= q
        <5>1. i \in 1..card
          BY <1>1, <2>1
        <5>2. order[i] <= q + 1 /\ order[i] \in S /\ order[i] \in 1..n
          BY <1>1, <1>3, <2>1, <5>1
        <5>3. QED
          BY <2>0, <2>6, <5>2
      <4>2. ASSUME NEW i \in (c + 1)..card
            PROVE  order[i] > q
        <5>1. i \in 1..card /\ order[i] > q + 1
          BY <1>1, <2>1
        <5>2. QED
          BY <1>3, <2>0, <5>1
      <4>3. QED
        BY <4>1, <4>2
    <3> HIDE DEF Splits
    <3>3. UpTo(v, q) = UpTo(s, c)
      BY <2>2, <3>2
    <3>4. QED
      BY <2>4, <3>1, <3>3
  <2>7. QED
    BY <2>5, <2>6
<1>6. T \in SUBSET Nat
  OBVIOUS
<1>7. T = Nat
  <2> HIDE DEF T
  <2>1. QED
    BY <1>4, <1>5, <1>6, NatInducts
<1>8. Splits(n, card)
  BY <1>1, <1>3
<1>9. QED
  <2> HIDE DEF Splits
  <2>1. card \in 0..card
    BY <1>1
  <2>2. QED
    BY <1>7, <1>8, <2>1 DEF card

-----------------------------------------------------------------------------
(* What the operators of a body do, and what is left of them *)

LEMMA BodyFacts ==
  ASSUME binary \in Binaries, NEW f \in Defined(module)
  PROVE  /\ binary.imports \in Nat
         /\ module.imports = binary.imports
         /\ Body(f) \in Seq(Operators)
         /\ Function(module, f) = ReadBody(Body(f), binary.imports)
<1>1. binary \in WasmFiles
  BY BinariesAssumption
<1>2. /\ binary.imports \in Nat
      /\ binary.bodies \in Seq(Seq(Operators))
      /\ Len(binary.bodies) \in Nat
  BY <1>1 DEF WasmFiles
<1>3. /\ module.imports = binary.imports
      /\ module.functions = [i \in 1..Len(binary.bodies) |->
                               ReadBody(binary.bodies[i], binary.imports)]
  BY DEF module, Parsed
<1> HIDE DEF module
<1>4. Len(module.functions) = Len(binary.bodies)
  BY <1>2, <1>3
<1>5. f - binary.imports + 1 \in 1..Len(binary.bodies)
  BY <1>2, <1>3, <1>4 DEF Defined
<1>6. Body(f) \in Seq(Operators)
  BY <1>2, <1>5 DEF Body
<1>7. Function(module, f) = ReadBody(binary.bodies[f - binary.imports + 1], binary.imports)
  BY <1>3, <1>5 DEF Function
<1>8. QED
  BY <1>2, <1>3, <1>6, <1>7 DEF Body

\* The sites of a body that count, and how many there are.
Weighs(weight, counted) ==
  /\ weight \in [Defined(module) -> Nat]
  /\ \A f \in Defined(module) :
       counted[f] \subseteq 1..Len(Body(f)) /\ Cardinality(counted[f]) = weight[f]

LEMMA InstructionsWeigh ==
  ASSUME binary \in Binaries
  PROVE  Weighs(InstructionsIn(module), InstructionSites)
<1>1. ASSUME NEW f \in Defined(module)
      PROVE  /\ Executes(f) \subseteq 1..Len(Body(f))
             /\ Cardinality(Executes(f)) = Function(module, f).instructions
             /\ Function(module, f).instructions \in Nat
  <2> DEFINE body == Body(f)
             ends == Sites(body, "end")
  <2>1. body \in Seq(Operators) /\ Function(module, f) = ReadBody(body, binary.imports)
    BY BodyFacts
  <2>2. Function(module, f).instructions = Len(body) - Cardinality(ends)
    BY <2>1 DEF ReadBody
  <2>3. Executes(f) = (1..Len(body)) \ ends
    BY DEF Executes, Sites
  <2>4. Len(body) \in Nat /\ ends \subseteq 1..Len(body)
    BY <2>1 DEF Sites
  <2> DEFINE all == 1..Len(body)
  <2> HIDE DEF body, ends
  <2>5. IsFiniteSet(all) /\ Cardinality(all) = Len(body)
    BY <2>4, FS_Interval
  <2>6. all \cap ends = ends
    BY <2>4
  <2> HIDE DEF all
  <2>7. IsFiniteSet(all \ ends) /\ Cardinality(all \ ends) = Cardinality(all) - Cardinality(all \cap ends)
    BY <2>5, FS_Difference
  <2>8. Cardinality(all \ ends) = Len(body) - Cardinality(ends)
    BY <2>5, <2>6, <2>7
  <2>9. Cardinality(all \ ends) \in Nat
    BY <2>7, FS_CardinalityType
  <2>10. QED
    BY <2>2, <2>3, <2>8, <2>9 DEF body, all
<1> HIDE DEF module
<1>2. QED
  BY <1>1 DEF Weighs, InstructionsIn, InstructionSites

LEMMA HostCallsWeigh ==
  ASSUME binary \in Binaries
  PROVE  Weighs(HostCallsIn(module), HostSites)
<1>1. ASSUME NEW f \in Defined(module)
      PROVE  /\ Hosts(f) \subseteq 1..Len(Body(f))
             /\ Cardinality(Hosts(f)) = Len(Function(module, f).hostCalls)
             /\ Len(Function(module, f).hostCalls) \in Nat
  <2>1. /\ Body(f) \in Seq(Operators)
        /\ Function(module, f) = ReadBody(Body(f), binary.imports)
    BY BodyFacts
  <2>2. Function(module, f).hostCalls = Targets(Body(f), Hosts(f))
    BY <2>1 DEF ReadBody, Hosts
  <2>3. Hosts(f) \subseteq 1..Len(Body(f)) /\ Len(Body(f)) \in Nat
    BY <2>1 DEF Hosts, Sites
  <2> HIDE DEF module
  <2>4. Len(Targets(Body(f), Hosts(f))) = Cardinality(Hosts(f)) /\ Cardinality(Hosts(f)) \in Nat
    BY <2>1, <2>3, TargetsTyped, PositionsInOrder
  <2>5. QED
    BY <2>2, <2>3, <2>4
<1> HIDE DEF module
<1>2. QED
  BY <1>1 DEF Weighs, HostCallsIn, HostSites

\* A call of a function defined is one of the calls read.
LEMMA CallsAreRead ==
  ASSUME binary \in Binaries, NEW f \in Defined(module), NEW i, CallsAt(f, i)
  PROVE  Body(f)[i].to \in CalledBy(module, f) /\ Callees(module, f) # <<>>
<1> DEFINE S == CallSites(Body(f), binary.imports)
<1>1. /\ Body(f) \in Seq(Operators)
      /\ Function(module, f) = ReadBody(Body(f), binary.imports)
  BY BodyFacts
<1>2. Function(module, f).calls = Targets(Body(f), S)
  BY <1>1 DEF ReadBody
<1>3. i \in S /\ S \subseteq 1..Len(Body(f)) /\ Len(Body(f)) \in Nat
  BY <1>1 DEF CallsAt, CallSites, Sites
<1> HIDE DEF module, S
<1>4. /\ Len(Ordered(S)) = Cardinality(S) /\ Cardinality(S) \in Nat
      /\ \E k \in 1..Len(Ordered(S)) : Ordered(S)[k] = i
  BY <1>3, PositionsInOrder
<1>5. PICK k \in 1..Cardinality(S) : Ordered(S)[k] = i
  BY <1>4
<1>6. /\ Len(Targets(Body(f), S)) = Cardinality(S)
      /\ \A j \in 1..Len(Targets(Body(f), S)) : Targets(Body(f), S)[j] = Body(f)[Ordered(S)[j]].to
  BY <1>1, <1>3, TargetsTyped
<1>7. k \in 1..Len(Function(module, f).calls) /\ Function(module, f).calls[k] = Body(f)[i].to
  BY <1>2, <1>5, <1>6
<1>8. Len(Function(module, f).calls) # 0
  BY <1>2, <1>4, <1>6, <1>7
<1>9. Function(module, f).calls # <<>>
  BY <1>8
<1>10. QED
  BY <1>7, <1>9 DEF CalledBy, Callees

\* One by one the operators of f come to what f does, its calls included.
LEMMA DoingComesTo ==
  ASSUME binary \in Binaries, ~Refused(binary),
         NEW weight, NEW counted, Weighs(weight, counted),
         NEW f \in Defined(module), NEW below \in [Defined(module) -> Nat]
  PROVE  /\ Len(Body(f)) \in Nat
         /\ SumOf(Doing(f, counted[f], below)) =
              weight[f] + SumOf(OfCalls(module, f, below))
         /\ SumOf(Doing(f, counted[f], below)) = UpTo(Doing(f, counted[f], below), Len(Body(f)))
         /\ \A i \in 1..Len(Body(f)) :
              /\ Doing(f, counted[f], below)[i] \in Nat
              /\ Doing(f, counted[f], below)[i] =
                   (IF i \in counted[f] THEN 1 ELSE 0)
                   + (IF CallsAt(f, i) THEN below[Body(f)[i].to] ELSE 0)
<1> DEFINE n == Len(Body(f))
           C == counted[f]
           S == CallSites(Body(f), binary.imports)
           own(i) == IF i \in C THEN 1 ELSE 0
           called(i) == IF CallsAt(f, i) THEN below[Body(f)[i].to] ELSE 0
           a == [i \in 1..n |-> own(i)]
           b == [i \in 1..n |-> called(i)]
           s == Doing(f, C, below)
           ones == [k \in 1..Cardinality(C) |-> 1]
           t == OfCalls(module, f, below)
<1>1. /\ Body(f) \in Seq(Operators)
      /\ Function(module, f) = ReadBody(Body(f), binary.imports)
      /\ n \in Nat
      /\ S \subseteq 1..n /\ C \subseteq 1..n
      /\ Cardinality(C) = weight[f]
  <2>1. /\ Body(f) \in Seq(Operators)
        /\ Function(module, f) = ReadBody(Body(f), binary.imports)
    BY BodyFacts
  <2>2. C \subseteq 1..n /\ Cardinality(C) = weight[f]
    BY DEF Weighs
  <2> HIDE DEF module
  <2>3. QED
    BY <2>1, <2>2 DEF CallSites, Sites
<1>2. WellFormed(module)
  BY ModuleIsWellFormed
<1>3. s = [i \in 1..n |-> own(i) + called(i)]
  BY DEF Doing
<1>4. \A i \in 1..n : own(i) \in Nat /\ called(i) \in Nat
  BY DEF CallsAt
<1>5. ASSUME NEW i \in 1..n
      PROVE  /\ a[i] = own(i) /\ b[i] = called(i) /\ s[i] = own(i) + called(i)
             /\ a[i] \in Nat /\ b[i] \in Nat /\ s[i] \in Nat /\ s[i] = a[i] + b[i]
  <2> HIDE DEF own, called, s
  <2>1. a[i] = own(i) /\ b[i] = called(i)
    OBVIOUS
  <2>2. s[i] = own(i) + called(i)
    BY <1>3
  <2> HIDE DEF a, b
  <2>3. QED
    BY <1>4, <2>1, <2>2
<1>6. s = [i \in 1..n |-> s[i]]
  <2> HIDE DEF own, called, s
  <2>1. QED
    BY <1>3
<1>7. UpTo(a, n) = Cardinality(C)
  <2> HIDE DEF module
  <2>1. \A i \in 1..n : a[i] \in Nat /\ (i \notin C => a[i] = 0)
    BY <1>5
  <2>2. Cardinality(C) \in Nat /\ \A k \in 1..Cardinality(C) : Ordered(C)[k] \in C
    <3> HIDE DEF C, n
    <3>1. QED
      BY <1>1, PositionsInOrder
  <2>3. \A k \in 1..Cardinality(C) : ones[k] = a[Ordered(C)[k]]
    BY <1>1, <2>2
  <2>4. \A k \in 1..Cardinality(C) : ones[k] = 1
    OBVIOUS
  <2> HIDE DEF a, ones, n, C
  <2>5. UpTo(a, n) = UpTo(ones, Cardinality(C))
    BY <1>1, <2>1, <2>3, SumByPosition
  <2>6. UpTo(ones, Cardinality(C)) = Cardinality(C)
    BY <2>2, <2>4, SumOfOnes
  <2>7. QED
    BY <2>5, <2>6
<1>8. UpTo(b, n) = SumOf(t)
  <2>1. \A i \in 1..n : b[i] \in Nat /\ (i \notin S => b[i] = 0)
    BY <1>5 DEF CallsAt
  <2>2. \A i \in S : CallsAt(f, i) <=> Body(f)[i].to \in Defined(module)
    BY DEF CallsAt
  <2>3. \A i \in S : b[i] = IF Body(f)[i].to \in Defined(module) THEN below[Body(f)[i].to] ELSE 0
    <3> HIDE DEF b, S
    <3>1. QED
      BY <1>1, <1>5, <2>2
  <2>4. Callees(module, f) = Targets(Body(f), S)
    BY <1>1 DEF Callees, ReadBody
  <2> HIDE DEF module, b, own, called, S
  <2>5. /\ Len(Callees(module, f)) = Cardinality(S)
        /\ \A k \in 1..Cardinality(S) :
             Ordered(S)[k] \in S /\ Callees(module, f)[k] = Body(f)[Ordered(S)[k]].to
    BY <1>1, <2>4, TargetsTyped
  <2>6. /\ Len(Callees(module, f)) \in Nat
        /\ \A k \in 1..Len(Callees(module, f)) :
             t[k] = IF Callees(module, f)[k] \in Defined(module)
                    THEN below[Callees(module, f)[k]] ELSE 0
    BY <1>2, OfCallsTyped
  <2>7. SumOf(t) = UpTo(t, Len(Callees(module, f)))
    BY <1>2, CallsSum
  <2> HIDE DEF t
  <2>8. \A k \in 1..Cardinality(S) : t[k] = b[Ordered(S)[k]]
    BY <2>3, <2>5, <2>6
  <2> HIDE DEF n
  <2>9. UpTo(b, n) = UpTo(t, Cardinality(S))
    <3>1. n \in Nat /\ S \in SUBSET (1..n)
      BY <1>1
    <3>2. QED
      BY <2>1, <2>8, <3>1, SumByPosition
  <2>10. QED
    BY <2>5, <2>7, <2>9
<1>9. UpTo(s, n) = UpTo(a, n) + UpTo(b, n)
  <2> HIDE DEF module, a, b, s, n
  <2>1. n \in Nat /\ \A i \in 1..n : a[i] \in Nat /\ b[i] \in Nat /\ s[i] = a[i] + b[i]
    BY <1>1, <1>5
  <2>2. QED
    BY <2>1, SumOfSums
<1>10. SumOf(s) = UpTo(s, n)
  <2> HIDE DEF s, n
  <2>1. QED
    BY <1>1, <1>6, SumIsUpTo
<1>11. SumOf(s) = weight[f] + SumOf(t)
  BY <1>1, <1>7, <1>8, <1>9, <1>10
<1> HIDE DEF s, t, module
<1>12. \A i \in 1..n : s[i] \in Nat /\ s[i] = own(i) + called(i)
  BY <1>5
<1>13. QED
  BY <1>1, <1>10, <1>11, <1>12 DEF s, t

\* What is left of s as one goes on through it.
LEMMA RestFalls ==
  ASSUME NEW n \in Nat, NEW s, \A i \in 1..n : s[i] \in Nat, SumOf(s) = UpTo(s, n)
  PROVE  /\ Rest(s, 1) = SumOf(s)
         /\ Rest(s, n + 1) = 0
         /\ \A i \in 1..(n + 1) : Rest(s, i) \in Nat
         /\ \A i \in 1..n : Rest(s, i + 1) + s[i] = Rest(s, i)
         /\ \A i \in 1..n : \A j \in (i + 1)..(n + 1) : Rest(s, j) + s[i] <= Rest(s, i)
<1>1. UpTo(s, 0) = 0 /\ \A i \in 0..n : UpTo(s, i) \in Nat
  BY SumGrows
<1>2. \A i \in 1..n : UpTo(s, i) = UpTo(s, i - 1) + s[i]
  <2>1. ASSUME NEW i \in 1..n
        PROVE  UpTo(s, i) = UpTo(s, i - 1) + s[i]
    <3>1. i \in Nat /\ i > 0 /\ \A k \in 1..i : s[k] \in Nat
      OBVIOUS
    <3>2. QED
      BY <3>1, SumGrows
  <2>2. QED
    BY <2>1
<1>3. \A i \in 0..n : \A j \in i..n : UpTo(s, i) <= UpTo(s, j)
  BY SumRises
<1>4. /\ Rest(s, 1) = SumOf(s) /\ Rest(s, n + 1) = 0
  BY <1>1 DEF Rest
<1>5. \A i \in 1..(n + 1) : Rest(s, i) \in Nat
  <2>1. ASSUME NEW i \in 1..(n + 1)
        PROVE  Rest(s, i) \in Nat
    <3>1. i - 1 \in 0..n /\ n \in (i - 1)..n /\ n \in 0..n
      OBVIOUS
    <3>2. UpTo(s, i - 1) <= UpTo(s, n) /\ UpTo(s, i - 1) \in Nat /\ UpTo(s, n) \in Nat
      BY <1>1, <1>3, <3>1
    <3>3. QED
      BY <3>2 DEF Rest
  <2>2. QED
    BY <2>1
<1>6. ASSUME NEW i \in 1..n
      PROVE  /\ Rest(s, i + 1) + s[i] = Rest(s, i)
             /\ \A j \in (i + 1)..(n + 1) : Rest(s, j) + s[i] <= Rest(s, i)
  <2>1. /\ i \in 0..n /\ i - 1 \in 0..n /\ n \in 0..n /\ (i + 1) - 1 = i
        /\ UpTo(s, i) \in Nat /\ UpTo(s, i - 1) \in Nat /\ UpTo(s, n) \in Nat
        /\ s[i] \in Nat /\ UpTo(s, i) = UpTo(s, i - 1) + s[i]
    BY <1>1, <1>2
  <2>2. Rest(s, i + 1) + s[i] = Rest(s, i)
    BY <2>1 DEF Rest
  <2>3. ASSUME NEW j \in (i + 1)..(n + 1)
        PROVE  Rest(s, j) + s[i] <= Rest(s, i)
    <3>1. j - 1 \in i..n /\ j - 1 \in 0..n
      OBVIOUS
    <3>2. UpTo(s, i) <= UpTo(s, j - 1) /\ UpTo(s, j - 1) \in Nat
      BY <1>1, <1>3, <2>1, <3>1
    <3>3. QED
      BY <2>1, <3>2 DEF Rest
  <2>4. QED
    BY <2>2, <2>3
<1>7. QED
  BY <1>4, <1>5, <1>6

\* d more calls are allowed below f; d is -1 where the guard is reached, and
\* then f has no calls.
Allows(f, d) ==
  d \in Int /\ d + 1 \in Nat /\ (d + 1 = 0 => Callees(module, f) = <<>>)

\* s, operator by operator, comes to the sum over the tree of f.
ComesTo(s, weight, counts, f, d) ==
  /\ Len(Body(f)) \in Nat
  /\ SumOf(s) = TreeSums(module, weight, d + 1)[f]
  /\ SumOf(s) = UpTo(s, Len(Body(f)))
  /\ \A i \in 1..Len(Body(f)) :
       /\ s[i] \in Nat
       /\ s[i] = (IF i \in counts THEN 1 ELSE 0)
                 + (IF CallsAt(f, i) THEN TreeSums(module, weight, d)[Body(f)[i].to] ELSE 0)

LEMMA TreeIsDone ==
  ASSUME binary \in Binaries, ~Refused(binary),
         NEW weight, NEW counted, Weighs(weight, counted),
         NEW f \in Defined(module), NEW d, Allows(f, d)
  PROVE  ComesTo(Doing(f, counted[f], TreeSums(module, weight, d)), weight, counted[f], f, d)
<1>0. d \in Int /\ d + 1 \in Nat /\ (d + 1 = 0 => Callees(module, f) = <<>>)
  BY DEF Allows
<1> DEFINE below == TreeSums(module, weight, d)
           s == Doing(f, counted[f], below)
<1>1. WellFormed(module) /\ weight \in [Defined(module) -> Nat]
  BY ModuleIsWellFormed DEF Weighs
<1>2. CASE d \in Nat
  <2>1. below \in [Defined(module) -> Nat]
    BY <1>1, <1>2, TreeSumsUnfold
  <2>2. \A e \in Nat :
          e > 0 => TreeSums(module, weight, e) = Grown(module, weight, TreeSums(module, weight, e - 1))
    BY <1>1, TreeSumsUnfold
  <2>3. (d + 1) - 1 = d /\ d + 1 \in Nat /\ d + 1 > 0
    BY <1>0, <1>2
  <2>4. TreeSums(module, weight, d + 1)[f] = weight[f] + SumOf(OfCalls(module, f, below))
    BY <2>2, <2>3 DEF Grown
  <2> HIDE DEF below, module
  <2>5. QED
    BY <2>1, <2>4, DoingComesTo DEF below, ComesTo
<1>3. CASE d + 1 = 0
  <2> DEFINE zero == [g \in Defined(module) |-> 0]
             t == Doing(f, counted[f], zero)
  <2>1. zero \in [Defined(module) -> Nat]
    OBVIOUS
  <2>2. \A i : ~CallsAt(f, i)
    BY <1>0, <1>3, CallsAreRead
  <2>3. s = t
    BY <2>2 DEF Doing
  <2>4. TreeSums(module, weight, 0) = weight
    BY <1>1, TreeSumsUnfold
  <2>5. Len(Callees(module, f)) = 0
    BY <1>0, <1>3
  <2> HIDE DEF zero, module
  <2>6. SumOf(OfCalls(module, f, zero)) = 0
    <3>1. /\ SumOf(OfCalls(module, f, zero)) = UpTo(OfCalls(module, f, zero), Len(Callees(module, f)))
          /\ UpTo(OfCalls(module, f, zero), 0) = 0
      BY <1>1, <2>1, CallsSum
    <3>2. QED
      BY <2>5, <3>1
  <2> HIDE DEF t
  <2>7. /\ Len(Body(f)) \in Nat
        /\ SumOf(t) = weight[f] + SumOf(OfCalls(module, f, zero))
        /\ SumOf(t) = UpTo(t, Len(Body(f)))
        /\ \A i \in 1..Len(Body(f)) :
             /\ t[i] \in Nat
             /\ t[i] = (IF i \in counted[f] THEN 1 ELSE 0)
                       + (IF CallsAt(f, i) THEN zero[Body(f)[i].to] ELSE 0)
    BY <2>1, DoingComesTo DEF t
  <2>8. weight[f] \in Nat /\ TreeSums(module, weight, d + 1)[f] = weight[f]
    BY <1>1, <1>3, <2>4
  <2> HIDE DEF s
  <2>9. SumOf(s) = TreeSums(module, weight, d + 1)[f] /\ SumOf(s) = UpTo(s, Len(Body(f)))
    BY <2>3, <2>6, <2>7, <2>8
  <2>10. \A i \in 1..Len(Body(f)) :
           /\ s[i] \in Nat
           /\ s[i] = (IF i \in counted[f] THEN 1 ELSE 0)
                     + (IF CallsAt(f, i) THEN below[Body(f)[i].to] ELSE 0)
    BY <2>2, <2>3, <2>7
  <2>11. QED
    BY <2>7, <2>9, <2>10 DEF s, ComesTo
<1>4. QED
  BY <1>0, <1>2, <1>3

-----------------------------------------------------------------------------
(* What the frames of a run have to do *)

RunFrames == [index : Nat, at : Nat \ {0}]

\* Frames in functions defined, at operators of theirs.
Within(fs) ==
  /\ fs \in Seq(RunFrames)
  /\ \A i \in 1..Len(fs) :
       fs[i].index \in Defined(module) /\ fs[i].at <= Len(Body(fs[i].index)) + 1

\* Frames the guard allows, the last of which calls nothing.
Shallow(fs) ==
  \A i \in 1..Len(fs) :
    i <= MaxDepth + 1 /\ (i = MaxDepth + 1 => Callees(module, fs[i].index) = <<>>)

LEMMA ToDoTyped ==
  ASSUME binary \in Binaries, ~Refused(binary),
         NEW weight, NEW counted, Weighs(weight, counted),
         NEW fs, Within(fs), Shallow(fs)
  PROVE  LET todo == ToDo(weight, counted, fs)
             s(i) == Doing(fs[i].index, counted[fs[i].index],
                           TreeSums(module, weight, MaxDepth - i))
         IN  /\ Len(fs) \in Nat
             /\ SumOf(todo) = UpTo(todo, Len(fs))
             /\ \A i \in 1..Len(fs) :
                  /\ todo[i] \in Nat
                  /\ todo[i] = Rest(s(i), fs[i].at)
                  /\ Allows(fs[i].index, MaxDepth - i)
<1> DEFINE todo == ToDo(weight, counted, fs)
           s(i) == Doing(fs[i].index, counted[fs[i].index],
                         TreeSums(module, weight, MaxDepth - i))
           rest(i) == Rest(s(i), fs[i].at)
<1>1. Len(fs) \in Nat
  BY DEF Within
<1>2. todo = [i \in 1..Len(fs) |-> rest(i)]
  BY DEF ToDo
<1>3. ASSUME NEW i \in 1..Len(fs)
      PROVE  /\ rest(i) \in Nat
             /\ Allows(fs[i].index, MaxDepth - i)
  <2> DEFINE f == fs[i].index
             d == MaxDepth - i
  <2>1. /\ f \in Defined(module)
        /\ fs[i].at \in Nat \ {0} /\ fs[i].at <= Len(Body(f)) + 1
    <3>1. fs \in Seq(RunFrames)
      BY DEF Within
    <3>2. fs[i] \in RunFrames
      BY <3>1
    <3> HIDE DEF module
    <3>3. f \in Defined(module) /\ fs[i].at <= Len(Body(f)) + 1
      BY DEF Within
    <3>4. QED
      BY <3>2, <3>3 DEF RunFrames
  <2>2. Allows(f, d)
    BY MaxDepthAssumption DEF Shallow, Allows
  <2> HIDE DEF f, d, module
  <2>3. ComesTo(Doing(f, counted[f], TreeSums(module, weight, d)), weight, counted[f], f, d)
    BY <2>1, <2>2, TreeIsDone
  <2>4. fs[i].at \in 1..(Len(Body(f)) + 1)
    BY <2>1, <2>3 DEF ComesTo
  <2>5. Rest(Doing(f, counted[f], TreeSums(module, weight, d)), fs[i].at) \in Nat
    BY <2>3, <2>4, RestFalls DEF ComesTo
  <2>6. QED
    BY <2>2, <2>5 DEF f, d
<1> HIDE DEF rest
<1>4. todo = [i \in 1..Len(fs) |-> todo[i]] /\ \A i \in 1..Len(fs) : todo[i] = rest(i)
  BY <1>2
<1> HIDE DEF todo
<1>5. SumOf(todo) = UpTo(todo, Len(fs))
  BY <1>1, <1>4, SumIsUpTo
<1>6. QED
  BY <1>1, <1>3, <1>4, <1>5 DEF todo, rest

\* The operator at hand of the last frame of fs counts.
OwnOf(counted, fs) ==
  IF fs[Len(fs)].at \in counted[fs[Len(fs)].index] THEN 1 ELSE 0

At(fs, at) == [fs EXCEPT ![Len(fs)].at = at]

LEMMA FramesAt ==
  ASSUME NEW fs, Within(fs), Len(fs) > 0, NEW at \in Nat \ {0},
         at <= Len(Body(fs[Len(fs)].index)) + 1
  PROVE  /\ Within(At(fs, at))
         /\ Len(At(fs, at)) = Len(fs) /\ Len(fs) \in Nat /\ Len(fs) \in 1..Len(fs)
         /\ \A i \in 1..Len(fs) : At(fs, at)[i].index = fs[i].index
         /\ \A i \in 1..(Len(fs) - 1) : At(fs, at)[i] = fs[i]
         /\ At(fs, at)[Len(fs)].at = at
<1> DEFINE n == Len(fs)
           gs == At(fs, at)
<1>1. /\ fs \in Seq(RunFrames) /\ n \in Nat /\ n \in 1..n
      /\ \A i \in 1..n : fs[i].index \in Defined(module) /\ fs[i].at <= Len(Body(fs[i].index)) + 1
  BY DEF Within
<1> HIDE DEF module
<1>2. fs[n] \in RunFrames
  BY <1>1
<1>3. [fs[n] EXCEPT !.at = at] \in RunFrames
  BY <1>2 DEF RunFrames
<1>4. gs = [fs EXCEPT ![n] = [fs[n] EXCEPT !.at = at]]
  BY DEF At
<1>5. /\ gs \in Seq(RunFrames) /\ Len(gs) = n
      /\ \A i \in 1..(n - 1) : gs[i] = fs[i]
      /\ gs[n] = [fs[n] EXCEPT !.at = at]
  BY <1>1, <1>3, <1>4
<1>6. gs[n].at = at /\ gs[n].index = fs[n].index
  BY <1>2, <1>5 DEF RunFrames
<1> HIDE DEF gs, n
<1>7. \A i \in 1..n : i = n \/ i \in 1..(n - 1)
  BY <1>1
<1>8. ASSUME NEW i \in 1..n
      PROVE  gs[i].index = fs[i].index /\ gs[i].at <= Len(Body(gs[i].index)) + 1
  <2>1. CASE i = n
    BY <1>6, <2>1 DEF n
  <2>2. CASE i \in 1..(n - 1)
    BY <1>1, <1>5, <2>2
  <2>3. QED
    BY <1>7, <2>1, <2>2
<1>9. Within(gs)
  BY <1>1, <1>5, <1>8 DEF Within
<1>10. QED
  BY <1>1, <1>5, <1>6, <1>8, <1>9 DEF gs, n

LEMMA ShallowStays ==
  ASSUME NEW fs, Shallow(fs), NEW gs, Len(gs) = Len(fs),
         \A i \in 1..Len(fs) : gs[i].index = fs[i].index
  PROVE  Shallow(gs)
<1> HIDE DEF module
<1> QED
  BY DEF Shallow

\* What the last frame has to do at an operator of its function.
LEMMA LastToDo ==
  ASSUME binary \in Binaries, ~Refused(binary),
         NEW weight, NEW counted, Weighs(weight, counted),
         NEW fs, Within(fs), Shallow(fs), Len(fs) > 0
  PROVE  LET n == Len(fs)
             f == fs[n].index
             at == fs[n].at
             s == Doing(f, counted[f], TreeSums(module, weight, MaxDepth - n))
         IN  /\ n \in Nat /\ n \in 1..n
             /\ ToDo(weight, counted, fs)[n] = Rest(s, at)
             /\ f \in Defined(module) /\ Allows(f, MaxDepth - n)
             /\ ComesTo(s, weight, counted[f], f, MaxDepth - n)
             /\ at \in 1..(Len(Body(f)) + 1)
<1> DEFINE n == Len(fs)
           f == fs[n].index
           at == fs[n].at
           s == Doing(f, counted[f], TreeSums(module, weight, MaxDepth - n))
<1>1. n \in Nat /\ n \in 1..n
  BY DEF Within
<1>2. ToDo(weight, counted, fs)[n] = Rest(s, at) /\ Allows(f, MaxDepth - n)
  BY <1>1, ToDoTyped
<1>3. fs[n] \in RunFrames
  BY <1>1 DEF Within
<1>4. f \in Defined(module) /\ at <= Len(Body(f)) + 1
  BY <1>1 DEF Within
<1> HIDE DEF module, n
<1>5. at \in Nat \ {0}
  BY <1>3 DEF RunFrames
<1> HIDE DEF f
<1>6. ComesTo(s, weight, counted[f], f, MaxDepth - n)
  BY <1>2, <1>4, TreeIsDone
<1>7. at \in 1..(Len(Body(f)) + 1)
  BY <1>4, <1>5, <1>6 DEF ComesTo
<1>8. QED
  BY <1>1, <1>2, <1>4, <1>6, <1>7 DEF n, f

\* Only the last frame moves: the sums differ by what it has done.
LEMMA LastMoves ==
  ASSUME binary \in Binaries, ~Refused(binary),
         NEW weight, NEW counted, Weighs(weight, counted),
         NEW fs, Within(fs), Shallow(fs), Len(fs) > 0,
         NEW gs, Within(gs), Shallow(gs), Len(gs) = Len(fs),
         \A i \in 1..(Len(fs) - 1) : gs[i] = fs[i],
         NEW x \in Nat,
         ToDo(weight, counted, fs)[Len(fs)] = ToDo(weight, counted, gs)[Len(fs)] + x
  PROVE  SumOf(ToDo(weight, counted, fs)) = SumOf(ToDo(weight, counted, gs)) + x
<1> DEFINE n == Len(fs)
           s == ToDo(weight, counted, fs)
           t == ToDo(weight, counted, gs)
           part(i, fr) == Rest(Doing(fr.index, counted[fr.index],
                                     TreeSums(module, weight, MaxDepth - i)), fr.at)
<1>1. /\ n \in Nat /\ SumOf(s) = UpTo(s, n)
      /\ \A i \in 1..n : s[i] \in Nat /\ s[i] = part(i, fs[i])
  BY ToDoTyped
<1>2. /\ SumOf(t) = UpTo(t, n)
      /\ \A i \in 1..n : t[i] \in Nat /\ t[i] = part(i, gs[i])
  <2>1. /\ SumOf(t) = UpTo(t, Len(gs))
        /\ \A i \in 1..Len(gs) : t[i] \in Nat /\ t[i] = part(i, gs[i])
    BY ToDoTyped
  <2> HIDE DEF t, part
  <2>2. QED
    BY <2>1
<1> HIDE DEF s, t, part
<1>3. \A i \in 1..(n - 1) : s[i] = t[i]
  <2>1. \A i \in 1..(n - 1) : i \in 1..n /\ gs[i] = fs[i]
    BY <1>1
  <2>2. QED
    BY <1>1, <1>2, <2>1
<1>4. s[n] = t[n] + x
  BY DEF s, t
<1>5. Raised(s, t, n, x)
  BY <1>1, <1>2, <1>3, <1>4 DEF Raised
<1>6. n > 0
  OBVIOUS
<1> HIDE DEF n
<1>7. UpTo(s, n) = UpTo(t, n) + x
  BY <1>1, <1>5, <1>6, SumsApart
<1>8. QED
  BY <1>1, <1>2, <1>7 DEF s, t

\* Going on in the same function uses up the operator at hand at least.
LEMMA GoesOn ==
  ASSUME binary \in Binaries, ~Refused(binary),
         NEW weight, NEW counted, Weighs(weight, counted),
         NEW fs, Within(fs), Shallow(fs), Len(fs) > 0,
         fs[Len(fs)].at <= Len(Body(fs[Len(fs)].index)),
         NEW at \in Nat, at > fs[Len(fs)].at, at <= Len(Body(fs[Len(fs)].index)) + 1
  PROVE  /\ SumOf(ToDo(weight, counted, At(fs, at))) \in Nat
         /\ SumOf(ToDo(weight, counted, At(fs, at))) + OwnOf(counted, fs)
              <= SumOf(ToDo(weight, counted, fs))
<1> DEFINE n == Len(fs)
           f == fs[n].index
           here == fs[n].at
           s == Doing(f, counted[f], TreeSums(module, weight, MaxDepth - n))
           gs == At(fs, at)
           a == ToDo(weight, counted, fs)
           b == ToDo(weight, counted, gs)
           own == OwnOf(counted, fs)
<1>1. /\ n \in Nat /\ n \in 1..n
      /\ a[n] = Rest(s, here)
      /\ f \in Defined(module)
      /\ ComesTo(s, weight, counted[f], f, MaxDepth - n)
      /\ here \in 1..(Len(Body(f)) + 1)
  BY LastToDo
<1>2. at \in Nat \ {0}
  BY <1>1
<1>3. /\ Within(gs) /\ Len(gs) = n
      /\ \A i \in 1..n : gs[i].index = fs[i].index
      /\ \A i \in 1..(n - 1) : gs[i] = fs[i]
      /\ gs[n].at = at
  BY <1>2, FramesAt
<1>4. Shallow(gs)
  BY <1>3, ShallowStays
<1>5. /\ b[n] = Rest(s, at)
      /\ SumOf(b) = UpTo(b, n) /\ \A i \in 1..n : b[i] \in Nat
  <2>1. /\ SumOf(b) = UpTo(b, Len(gs))
        /\ \A i \in 1..Len(gs) :
             b[i] \in Nat /\ b[i] = Rest(Doing(gs[i].index, counted[gs[i].index],
                                               TreeSums(module, weight, MaxDepth - i)), gs[i].at)
    BY <1>3, <1>4, ToDoTyped
  <2> HIDE DEF b, gs, n, module
  <2>2. QED
    BY <1>1, <1>3, <2>1
<1> HIDE DEF s, module
<1>6. /\ Len(Body(f)) \in Nat
      /\ SumOf(s) = UpTo(s, Len(Body(f)))
      /\ \A i \in 1..Len(Body(f)) : s[i] \in Nat
  BY <1>1 DEF ComesTo
<1>7. here \in 1..Len(Body(f)) /\ at \in (here + 1)..(Len(Body(f)) + 1)
  BY <1>1, <1>6
<1>8. own \in Nat /\ s[here] >= own
  <2>1. /\ s[here] \in Nat
        /\ s[here] = (IF here \in counted[f] THEN 1 ELSE 0)
             + (IF CallsAt(f, here) THEN TreeSums(module, weight, MaxDepth - n)[Body(f)[here].to] ELSE 0)
    BY <1>1, <1>7 DEF ComesTo
  <2>2. CallsAt(f, here) => TreeSums(module, weight, MaxDepth - n)[Body(f)[here].to] \in Nat
    <3>1. ASSUME CallsAt(f, here)
          PROVE  TreeSums(module, weight, MaxDepth - n)[Body(f)[here].to] \in Nat
      <4>1. Callees(module, f) # <<>>
        BY <1>1, <3>1, CallsAreRead
      <4>2. Allows(f, MaxDepth - n)
        BY LastToDo
      <4>3. MaxDepth - n \in Nat
        BY <4>1, <4>2 DEF Allows
      <4>4. WellFormed(module) /\ weight \in [Defined(module) -> Nat]
        BY ModuleIsWellFormed DEF Weighs
      <4>5. TreeSums(module, weight, MaxDepth - n) \in [Defined(module) -> Nat]
        BY <4>3, <4>4, TreeSumsUnfold
      <4>6. QED
        BY <3>1, <4>5 DEF CallsAt
    <3>2. QED
      BY <3>1
  <2>3. own = IF here \in counted[f] THEN 1 ELSE 0
    BY DEF OwnOf
  <2>4. QED
    BY <2>1, <2>2, <2>3
<1> HIDE DEF f, here, own
<1>9. Rest(s, at) + s[here] <= Rest(s, here) /\ Rest(s, at) \in Nat /\ Rest(s, here) \in Nat
  <2>1. at \in 1..(Len(Body(f)) + 1) /\ here \in 1..(Len(Body(f)) + 1)
    BY <1>6, <1>7
  <2>2. QED
    BY <1>6, <1>7, <2>1, RestFalls
<1>10. PICK x \in Nat : a[n] = b[n] + x /\ x >= own
  <2>1. s[here] \in Nat
    BY <1>6, <1>7
  <2>2. Rest(s, here) - Rest(s, at) \in Nat /\ Rest(s, here) - Rest(s, at) >= own
    BY <1>8, <1>9, <2>1
  <2>3. a[n] = b[n] + (Rest(s, here) - Rest(s, at))
    BY <1>1, <1>5, <1>9
  <2>4. QED
    BY <2>2, <2>3
<1> HIDE DEF gs
<1>11. SumOf(a) = SumOf(b) + x
  BY <1>3, <1>4, <1>10, LastMoves
<1> HIDE DEF a, b, n
<1>12. SumOf(b) \in Nat
  BY <1>1, <1>5, SumGrows
<1>13. QED
  BY <1>8, <1>10, <1>11, <1>12 DEF a, b, n, gs, own

LEMMA FrontOf ==
  ASSUME NEW R, NEW fs \in Seq(R), Len(fs) > 0
  PROVE  /\ SubSeq(fs, 1, Len(fs) - 1) \in Seq(R)
         /\ Len(SubSeq(fs, 1, Len(fs) - 1)) = Len(fs) - 1
         /\ \A i \in 1..(Len(fs) - 1) : SubSeq(fs, 1, Len(fs) - 1)[i] = fs[i]
<1>1. PICK k \in Nat : k = Len(fs) - 1
  OBVIOUS
<1>2. k \in Nat /\ k < Len(fs)
  BY <1>1
<1>3. /\ SubSeq(fs, 1, k) \in Seq(R) /\ Len(SubSeq(fs, 1, k)) = k
      /\ \A i \in 1..k : SubSeq(fs, 1, k)[i] = fs[i]
  BY <1>2
<1>4. QED
  BY <1>1, <1>3

\* A frame that is over has nothing left to do.
LEMMA GoesOut ==
  ASSUME binary \in Binaries, ~Refused(binary),
         NEW weight, NEW counted, Weighs(weight, counted),
         NEW fs, Within(fs), Shallow(fs), Len(fs) > 0,
         fs[Len(fs)].at > Len(Body(fs[Len(fs)].index))
  PROVE  LET gs == SubSeq(fs, 1, Len(fs) - 1)
         IN  /\ Within(gs) /\ Shallow(gs)
             /\ Len(gs) = Len(fs) - 1
             /\ \A i \in 1..Len(gs) : gs[i] = fs[i]
             /\ SumOf(ToDo(weight, counted, gs)) = SumOf(ToDo(weight, counted, fs))
<1> DEFINE n == Len(fs)
           f == fs[n].index
           here == fs[n].at
           s == Doing(f, counted[f], TreeSums(module, weight, MaxDepth - n))
           gs == SubSeq(fs, 1, n - 1)
           a == ToDo(weight, counted, fs)
           b == ToDo(weight, counted, gs)
           part(i, fr) == Rest(Doing(fr.index, counted[fr.index],
                                     TreeSums(module, weight, MaxDepth - i)), fr.at)
<1>1. /\ n \in Nat /\ n \in 1..n
      /\ a[n] = Rest(s, here)
      /\ ComesTo(s, weight, counted[f], f, MaxDepth - n)
      /\ here \in 1..(Len(Body(f)) + 1)
  BY LastToDo
<1>2. gs \in Seq(RunFrames) /\ Len(gs) = n - 1 /\ \A i \in 1..(n - 1) : gs[i] = fs[i]
  <2>1. fs \in Seq(RunFrames)
    BY DEF Within
  <2> HIDE DEF module
  <2>2. QED
    BY <2>1, FrontOf
<1>3. Within(gs) /\ Shallow(gs)
  <2> HIDE DEF gs, module, n
  <2>1. \A i \in 1..Len(gs) : i \in 1..n /\ gs[i] = fs[i]
    BY <1>1, <1>2
  <2>2. QED
    BY <1>2, <2>1 DEF Within, Shallow, n
<1>4. /\ SumOf(a) = UpTo(a, n)
      /\ \A i \in 1..n : a[i] \in Nat /\ a[i] = part(i, fs[i])
  BY ToDoTyped
<1>5. /\ SumOf(b) = UpTo(b, n - 1)
      /\ \A i \in 1..(n - 1) : b[i] = part(i, gs[i])
  <2>1. /\ SumOf(b) = UpTo(b, Len(gs))
        /\ \A i \in 1..Len(gs) : b[i] = part(i, gs[i])
    <3> HIDE DEF gs
    <3>1. QED
      BY <1>3, ToDoTyped
  <2> HIDE DEF b, part, gs, n
  <2>2. QED
    BY <1>2, <2>1
<1>6. a[n] = 0
  <2> HIDE DEF s, module
  <2>1. /\ Len(Body(f)) \in Nat
        /\ SumOf(s) = UpTo(s, Len(Body(f)))
        /\ \A i \in 1..Len(Body(f)) : s[i] \in Nat
    BY <1>1 DEF ComesTo
  <2>2. here = Len(Body(f)) + 1
    BY <1>1, <2>1
  <2>3. Rest(s, Len(Body(f)) + 1) = 0
    BY <2>1, RestFalls
  <2>4. QED
    BY <1>1, <2>2, <2>3
<1> HIDE DEF a, b, part, gs
<1>7. n - 1 \in Nat /\ \A i \in 1..(n - 1) : a[i] = b[i]
  <2>1. n - 1 \in Nat /\ \A i \in 1..(n - 1) : i \in 1..n /\ gs[i] = fs[i]
    BY <1>1, <1>2
  <2>2. QED
    BY <1>4, <1>5, <2>1
<1>8. n > 0 /\ \A i \in 1..n : a[i] \in Nat
  BY <1>4
<1> HIDE DEF n
<1>9. UpTo(a, n) = UpTo(a, n - 1) + a[n] /\ UpTo(a, n - 1) \in Nat
  BY <1>1, <1>8, SumGrows
<1>10. UpTo(a, n - 1) = UpTo(b, n - 1)
  BY <1>7, SumOfTheSame
<1>11. SumOf(b) = SumOf(a)
  BY <1>4, <1>5, <1>6, <1>9, <1>10
<1>12. QED
  BY <1>2, <1>3, <1>11 DEF a, b, gs, n

\* The frames of fs after a call of f.
Entered(fs, f) == Append(At(fs, fs[Len(fs)].at + 1), [index |-> f, at |-> 1])

LEMMA FramesEntered ==
  ASSUME binary \in Binaries, ~Refused(binary),
         NEW fs, Within(fs), Len(fs) > 0,
         fs[Len(fs)].at <= Len(Body(fs[Len(fs)].index)),
         NEW f \in Defined(module)
  PROVE  /\ Within(Entered(fs, f))
         /\ Len(Entered(fs, f)) = Len(fs) + 1 /\ Len(fs) \in Nat
         /\ Entered(fs, f)[Len(fs) + 1] = [index |-> f, at |-> 1]
         /\ \A i \in 1..Len(fs) : Entered(fs, f)[i] = At(fs, fs[Len(fs)].at + 1)[i]
         /\ \A i \in 1..Len(fs) : Entered(fs, f)[i].index = fs[i].index
<1> DEFINE n == Len(fs)
           last == fs[n].index
           at == fs[n].at + 1
           hs == At(fs, at)
           new == [index |-> f, at |-> 1]
           gs == Append(hs, new)
<1>1. n \in Nat /\ n \in 1..n /\ fs \in Seq(RunFrames) /\ fs[n] \in RunFrames /\ last \in Defined(module)
  BY DEF Within
<1>2. Len(Body(f)) \in Nat /\ Len(Body(last)) \in Nat /\ f \in Nat
  <2>1. Body(f) \in Seq(Operators) /\ Body(last) \in Seq(Operators)
    BY <1>1, BodyFacts
  <2>2. f \in Nat
    BY ModuleIsWellFormed DEF WellFormed
  <2>3. QED
    BY <2>1, <2>2
<1> HIDE DEF module
<1>3. at \in Nat \ {0} /\ at <= Len(Body(last)) + 1
  BY <1>1, <1>2 DEF RunFrames
<1>4. /\ Within(hs) /\ Len(hs) = n
      /\ \A i \in 1..n : hs[i].index = fs[i].index
  <2> HIDE DEF at
  <2>1. QED
    BY <1>3, FramesAt
<1>5. hs \in Seq(RunFrames)
        /\ \A i \in 1..n : hs[i].index \in Defined(module) /\ hs[i].at <= Len(Body(hs[i].index)) + 1
  BY <1>4 DEF Within
<1>6. new \in RunFrames
  BY <1>2 DEF RunFrames
<1> HIDE DEF hs
<1>7. new.index = f /\ new.at = 1
  OBVIOUS
<1> HIDE DEF new
<1>8. /\ gs \in Seq(RunFrames) /\ Len(gs) = n + 1
      /\ \A i \in 1..n : gs[i] = hs[i]
      /\ gs[n + 1] = new
  <2> HIDE DEF n
  <2>1. Len(hs) = n
    BY <1>4
  <2>2. QED
    BY <1>1, <1>5, <1>6, <2>1
<1> HIDE DEF gs
<1>9. ASSUME NEW i \in 1..(n + 1)
      PROVE  gs[i].index \in Defined(module) /\ gs[i].at <= Len(Body(gs[i].index)) + 1
  <2>1. CASE i = n + 1
    BY <1>2, <1>7, <1>8, <2>1
  <2>2. CASE i \in 1..n
    BY <1>5, <1>8, <2>2
  <2>3. i = n + 1 \/ i \in 1..n
    BY <1>1
  <2>4. QED
    BY <2>1, <2>2, <2>3
<1>10. Within(gs)
  BY <1>8, <1>9 DEF Within
<1>11. \A i \in 1..n : gs[i].index = fs[i].index
  BY <1>4, <1>8
<1>12. gs = Entered(fs, f)
  BY DEF gs, hs, new, Entered
<1>13. QED
  BY <1>1, <1>8, <1>10, <1>11, <1>12 DEF hs, new

\* A call moves what its tree comes to into a frame of its own.
LEMMA GoesIn ==
  ASSUME binary \in Binaries, ~Refused(binary),
         NEW weight, NEW counted, Weighs(weight, counted),
         NEW fs, Within(fs), Shallow(fs), Len(fs) > 0,
         CallsAt(fs[Len(fs)].index, fs[Len(fs)].at),
         NEW g, g = Body(fs[Len(fs)].index)[fs[Len(fs)].at].to,
         Shallow(Entered(fs, g))
  PROVE  SumOf(ToDo(weight, counted, Entered(fs, g))) + OwnOf(counted, fs)
           = SumOf(ToDo(weight, counted, fs))
<1> DEFINE n == Len(fs)
           f == fs[n].index
           here == fs[n].at
           d == MaxDepth - n
           s == Doing(f, counted[f], TreeSums(module, weight, d))
           hs == At(fs, here + 1)
           gs == Entered(fs, g)
           a == ToDo(weight, counted, fs)
           b == ToDo(weight, counted, hs)
           c == ToDo(weight, counted, gs)
           own == OwnOf(counted, fs)
           part(i, fr) == Rest(Doing(fr.index, counted[fr.index],
                                     TreeSums(module, weight, MaxDepth - i)), fr.at)
<1>1. /\ n \in Nat /\ n \in 1..n
      /\ a[n] = Rest(s, here)
      /\ f \in Defined(module)
      /\ Allows(f, d)
      /\ ComesTo(s, weight, counted[f], f, d)
      /\ here \in 1..(Len(Body(f)) + 1)
  BY LastToDo
<1>2. here \in 1..Len(Body(f)) /\ g \in Defined(module)
  BY DEF CallsAt, CallSites, Sites
<1>3. d \in Nat
  <2>1. Callees(module, f) # <<>>
    BY <1>1, CallsAreRead
  <2>2. QED
    BY <1>1, <2>1 DEF Allows
<1>4. TreeSums(module, weight, d) \in [Defined(module) -> Nat]
  <2>1. WellFormed(module) /\ weight \in [Defined(module) -> Nat]
    BY ModuleIsWellFormed DEF Weighs
  <2>2. QED
    BY <1>3, <2>1, TreeSumsUnfold
<1> DEFINE tree == TreeSums(module, weight, d)[g]
<1>5. tree \in Nat
  BY <1>2, <1>4
<1>6. own \in Nat /\ own = IF here \in counted[f] THEN 1 ELSE 0
  BY DEF OwnOf
<1>7. /\ Len(Body(f)) \in Nat
      /\ SumOf(s) = UpTo(s, Len(Body(f)))
      /\ \A i \in 1..Len(Body(f)) : s[i] \in Nat
      /\ s[here] = own + tree
  <2> HIDE DEF s, own, module
  <2>1. QED
    BY <1>1, <1>2, <1>6 DEF ComesTo
<1>8. /\ Within(gs) /\ Len(gs) = n + 1
      /\ gs[n + 1] = [index |-> g, at |-> 1]
      /\ \A i \in 1..n : gs[i] = hs[i]
  <2> HIDE DEF module
  <2>1. here <= Len(Body(f))
    BY <1>2, <1>7
  <2>2. QED
    BY <1>2, <2>1, FramesEntered
<1>9. /\ Within(hs) /\ Len(hs) = n
      /\ \A i \in 1..n : hs[i].index = fs[i].index
      /\ \A i \in 1..(n - 1) : hs[i] = fs[i]
      /\ hs[n].at = here + 1
  <2> HIDE DEF module
  <2>1. here + 1 \in Nat \ {0} /\ here + 1 <= Len(Body(f)) + 1
    BY <1>2, <1>7
  <2>2. QED
    BY <2>1, FramesAt
<1>10. Shallow(hs)
  BY <1>9, ShallowStays
<1> HIDE DEF module, hs, gs
<1>11. /\ SumOf(b) = UpTo(b, n)
       /\ \A i \in 1..n : b[i] \in Nat /\ b[i] = part(i, hs[i])
  <2>1. /\ SumOf(b) = UpTo(b, Len(hs))
        /\ \A i \in 1..Len(hs) : b[i] \in Nat /\ b[i] = part(i, hs[i])
    BY <1>9, <1>10, ToDoTyped
  <2> HIDE DEF b, part, n
  <2>2. QED
    BY <1>9, <2>1
<1>12. /\ SumOf(c) = UpTo(c, n + 1)
       /\ \A i \in 1..(n + 1) : c[i] \in Nat /\ c[i] = part(i, gs[i])
  <2>1. /\ SumOf(c) = UpTo(c, Len(gs))
        /\ \A i \in 1..Len(gs) : c[i] \in Nat /\ c[i] = part(i, gs[i])
    <3>1. Within(gs) /\ Shallow(gs)
      BY <1>8 DEF gs
    <3>2. QED
      BY <3>1, ToDoTyped
  <2> HIDE DEF c, part, n
  <2>2. QED
    BY <1>8, <2>1
<1>13. b[n] = Rest(s, here + 1)
  <2>1. b[n] = part(n, hs[n]) /\ hs[n].index = f /\ hs[n].at = here + 1
    BY <1>1, <1>9, <1>11
  <2> HIDE DEF b
  <2>2. QED
    BY <2>1
<1>14. c[n + 1] = tree
  <2> DEFINE t == Doing(g, counted[g], TreeSums(module, weight, MaxDepth - (n + 1)))
  <2>1. n + 1 \in 1..(n + 1)
    BY <1>1
  <2>2. c[n + 1] = part(n + 1, gs[n + 1])
    BY <1>12, <2>1
  <2>3. gs[n + 1].index = g /\ gs[n + 1].at = 1
    BY <1>8
  <2>4. c[n + 1] = Rest(t, 1)
    <3> HIDE DEF c
    <3>1. QED
      BY <2>2, <2>3
  <2>5. Shallow(gs)
    BY DEF gs
  <2>6. Allows(g, MaxDepth - (n + 1)) /\ (MaxDepth - (n + 1)) + 1 = d
    <3>1. n + 1 = MaxDepth + 1 => Callees(module, g) = <<>>
      BY <1>8, <2>1, <2>3, <2>5 DEF Shallow
    <3> HIDE DEF n
    <3>2. QED
      BY <1>1, <1>3, <3>1, MaxDepthAssumption DEF Allows
  <2>7. ComesTo(t, weight, counted[g], g, MaxDepth - (n + 1))
    BY <1>2, <2>6, TreeIsDone
  <2> HIDE DEF t
  <2>8. /\ Len(Body(g)) \in Nat
        /\ SumOf(t) = TreeSums(module, weight, (MaxDepth - (n + 1)) + 1)[g]
        /\ SumOf(t) = UpTo(t, Len(Body(g)))
        /\ \A i \in 1..Len(Body(g)) : t[i] \in Nat
    BY <2>7 DEF ComesTo
  <2>9. SumOf(t) = tree
    BY <2>6, <2>8
  <2>10. Rest(t, 1) = SumOf(t)
    BY <2>8, RestFalls
  <2>11. QED
    BY <2>4, <2>9, <2>10
<1>15. a[n] = b[n] + (own + tree)
  <2> HIDE DEF a, b, own, tree, s
  <2>1. Rest(s, here + 1) + s[here] = Rest(s, here) /\ Rest(s, here + 1) \in Nat
    <3>1. here + 1 \in 1..(Len(Body(f)) + 1)
      BY <1>2, <1>7
    <3>2. QED
      BY <1>2, <1>7, <3>1, RestFalls
  <2>2. QED
    BY <1>1, <1>5, <1>6, <1>7, <1>13, <2>1
<1>16. SumOf(a) = SumOf(b) + (own + tree)
  <2>1. own + tree \in Nat
    BY <1>5, <1>6
  <2>2. PICK x \in Nat : x = own + tree
    BY <2>1
  <2>3. a[n] = b[n] + x
    BY <1>15, <2>2
  <2> HIDE DEF own, tree
  <2>4. SumOf(a) = SumOf(b) + x
    BY <1>9, <1>10, <2>3, LastMoves
  <2>5. QED
    BY <2>2, <2>4
<1> HIDE DEF a, b, c, part, own, tree
<1>17. UpTo(c, n + 1) = UpTo(c, n) + c[n + 1] /\ UpTo(c, n) \in Nat
  <2> HIDE DEF n
  <2>1. n + 1 \in Nat /\ n + 1 > 0 /\ (n + 1) - 1 = n /\ \A i \in 1..(n + 1) : c[i] \in Nat
    BY <1>1, <1>12
  <2>2. QED
    BY <2>1, SumGrows
<1>18. UpTo(c, n) = UpTo(b, n)
  <2> HIDE DEF n
  <2>1. \A i \in 1..n : c[i] = b[i]
    <3>1. \A i \in 1..n : i \in 1..(n + 1)
      BY <1>1
    <3>2. QED
      BY <1>8, <1>11, <1>12, <3>1
  <2>2. QED
    BY <1>1, <2>1, SumOfTheSame
<1>19. SumOf(c) + own = SumOf(a)
  BY <1>5, <1>6, <1>11, <1>12, <1>14, <1>16, <1>17, <1>18
<1>20. QED
  BY <1>19 DEF a, c, own, gs

\* A run of a function with nothing against its count stays where the walk has
\* been: it meets no loop and no indirect call, and the guard allows it.
LEMMA ExactRunIsShallow ==
  ASSUME binary \in Binaries, ~Refused(binary),
         NEW f \in Defined(module), ReasonsOf(module, f) = {},
         NEW fs, Within(fs), RunIsAChain(f, fs)
  PROVE  /\ Shallow(fs)
         /\ Len(fs) > 0 =>
              /\ Function(module, fs[Len(fs)].index).loops = 0
              /\ Function(module, fs[Len(fs)].index).indirect = 0
<1> DEFINE n == Len(fs)
           g == fs[n].index
           c == [k \in 0..(n - 1) |-> fs[k + 1].index]
<1>0. n \in Nat
  BY DEF Within
<1>1. CASE n = 0
  BY <1>1 DEF Shallow
<1>2. CASE n > 0
  <2>1. \A k \in 1..n : Function(module, fs[k].index) \in Facts
    BY ModuleIsWellFormed DEF WellFormed, Within
  <2> HIDE DEF module
  <2>2. /\ n <= MaxDepth + 1
        /\ fs[1].index = f
        /\ \A i \in 1..(n - 1) : fs[i + 1].index \in CalledBy(module, fs[i].index)
        /\ \A i \in 1..n : fs[i].index \in Defined(module)
    <3>1. fs # <<>>
      BY <1>2
    <3>2. QED
      BY <3>1 DEF RunIsAChain, Within
  <2>3. c \in [0..(n - 1) -> Defined(module)]
    <3>1. \A k \in 0..(n - 1) : k + 1 \in 1..n
      BY <1>0
    <3>2. QED
      BY <2>2, <3>1
  <2>4. c[0] = f /\ c[n - 1] = g
    BY <1>0, <1>2, <2>2
  <2>5. ASSUME NEW k \in 1..(n - 1)
        PROVE  c[k] \in CalledBy(module, c[k - 1])
    <3>1. /\ k \in 0..(n - 1) /\ k - 1 \in 0..(n - 1) /\ (k - 1) + 1 = k
      BY <1>0
    <3>2. c[k] = fs[k + 1].index /\ c[k - 1] = fs[k].index
      BY <3>1
    <3> HIDE DEF c
    <3>3. QED
      BY <2>2, <3>2
  <2> HIDE DEF c
  <2>6. c \in Chains(module, f, n - 1)
    BY <2>3, <2>4, <2>5 DEF Chains
  <2>7. g \in After(module, f, n - 1)
    BY <2>4, <2>6 DEF After
  <2>8. n - 1 \in 0..MaxDepth
    BY <1>0, <1>2, <2>2, MaxDepthAssumption
  <2>9. g \in Reached(module, f, MaxDepth)
    BY <2>7, <2>8 DEF Reached
  <2>10. /\ ~(Function(module, g).loops > 0) /\ ~(Function(module, g).indirect > 0)
         /\ ~GoesDeeper(module, f, MaxDepth)
    <3> HIDE DEF g
    <3>1. QED
      BY <2>9 DEF ReasonsOf
  <2>11. Function(module, g).loops \in Nat /\ Function(module, g).indirect \in Nat
    BY <1>0, <1>2, <2>1 DEF Facts
  <2>12. n = MaxDepth + 1 => Function(module, g).calls = <<>>
    <3>1. n = MaxDepth + 1 => n - 1 = MaxDepth
      BY MaxDepthAssumption
    <3> HIDE DEF g
    <3>2. QED
      BY <2>7, <2>10, <3>1 DEF GoesDeeper
  <2>13. Shallow(fs)
    <3>1. ASSUME NEW i \in 1..n
          PROVE  /\ i <= MaxDepth + 1
                 /\ i = MaxDepth + 1 => Callees(module, fs[i].index) = <<>>
      <4>1. i <= MaxDepth + 1 /\ (i = MaxDepth + 1 => i = n)
        BY <1>0, <2>2, MaxDepthAssumption
      <4>2. QED
        BY <2>12, <4>1 DEF Callees
    <3>2. QED
      BY <3>1 DEF Shallow
  <2>14. QED
    BY <2>10, <2>11, <2>13
<1>3. QED
  BY <1>0, <1>1, <1>2

\* The chain of a run, of frames of the same functions, of all but the last,
\* and after one more call.
LEMMA ChainStays ==
  ASSUME NEW f, NEW fs, Within(fs), RunIsAChain(f, fs),
         NEW gs, Within(gs), Len(gs) <= Len(fs),
         \A i \in 1..Len(gs) : gs[i].index = fs[i].index
  PROVE  RunIsAChain(f, gs)
<1>1. fs \in Seq(RunFrames) /\ gs \in Seq(RunFrames)
  BY DEF Within
<1> HIDE DEF module
<1>2. Len(gs) <= MaxDepth + 1
  BY <1>1, MaxDepthAssumption DEF RunIsAChain
<1>3. gs # <<>> => gs[1].index = f
  <2>1. SUFFICES ASSUME gs # <<>>
                 PROVE  gs[1].index = f
    OBVIOUS
  <2>2. 1 \in 1..Len(gs) /\ fs # <<>>
    BY <1>1, <2>1
  <2>3. QED
    BY <2>2 DEF RunIsAChain
<1>4. \A i \in 1..(Len(gs) - 1) : gs[i + 1].index \in CalledBy(module, gs[i].index)
  <2>1. \A i \in 1..(Len(gs) - 1) :
          i \in 1..(Len(fs) - 1) /\ i \in 1..Len(gs) /\ i + 1 \in 1..Len(gs)
    BY <1>1
  <2>2. \A i \in 1..(Len(fs) - 1) : fs[i + 1].index \in CalledBy(module, fs[i].index)
    BY DEF RunIsAChain
  <2>3. QED
    BY <2>1, <2>2
<1>5. QED
  BY <1>2, <1>3, <1>4 DEF RunIsAChain

LEMMA ChainIsEntered ==
  ASSUME binary \in Binaries, ~Refused(binary),
         NEW f, NEW fs, Within(fs), RunIsAChain(f, fs), Shallow(fs), Len(fs) > 0,
         CallsAt(fs[Len(fs)].index, fs[Len(fs)].at),
         NEW g, g = Body(fs[Len(fs)].index)[fs[Len(fs)].at].to
  PROVE  Within(Entered(fs, g)) /\ RunIsAChain(f, Entered(fs, g))
<1> DEFINE n == Len(fs)
           last == fs[n].index
           gs == Entered(fs, g)
<1>1. fs \in Seq(RunFrames) /\ n \in Nat /\ n \in 1..n /\ last \in Defined(module)
  BY DEF Within
<1>2. g \in Defined(module) /\ fs[n].at \in 1..Len(Body(last))
  BY DEF CallsAt, CallSites, Sites
<1>3. g \in CalledBy(module, last) /\ Callees(module, last) # <<>>
  BY <1>1, CallsAreRead
<1>4. /\ Within(gs) /\ Len(gs) = n + 1
      /\ gs[n + 1] = [index |-> g, at |-> 1]
      /\ \A i \in 1..n : gs[i].index = fs[i].index
  <2>1. fs[n].at <= Len(Body(last))
    <3>1. Body(last) \in Seq(Operators)
      BY <1>1, BodyFacts
    <3>2. QED
      BY <1>2, <3>1
  <2>2. QED
    BY <1>2, <2>1, FramesEntered
<1> HIDE DEF module
<1>5. n <= MaxDepth
  <2>1. n <= MaxDepth + 1 /\ n # MaxDepth + 1
    BY <1>1, <1>3 DEF Shallow
  <2>2. QED
    BY <1>1, <2>1, MaxDepthAssumption
<1> HIDE DEF gs
<1>6. fs # <<>> /\ gs[1].index = f
  <2>1. 1 \in 1..n /\ fs # <<>>
    BY <1>1
  <2>2. QED
    BY <1>4, <2>1 DEF RunIsAChain
<1>7. ASSUME NEW i \in 1..((n + 1) - 1)
      PROVE  gs[i + 1].index \in CalledBy(module, gs[i].index)
  <2>1. i \in 1..n /\ (i = n \/ (i \in 1..(n - 1) /\ i + 1 \in 1..n))
    BY <1>1
  <2>2. CASE i = n
    <3>1. gs[n + 1].index = g
      BY <1>4
    <3>2. gs[n].index = last
      BY <1>1, <1>4
    <3> HIDE DEF n, last
    <3>3. QED
      BY <1>3, <2>2, <3>1, <3>2
  <2>3. CASE i \in 1..(n - 1)
    <3>1. fs[i + 1].index \in CalledBy(module, fs[i].index)
      BY <2>3 DEF RunIsAChain
    <3>2. QED
      BY <1>4, <2>1, <2>3, <3>1
  <2>4. QED
    BY <2>1, <2>2, <2>3
<1>8. Len(gs) = n + 1 /\ n + 1 <= MaxDepth + 1
  <2> HIDE DEF n
  <2>1. QED
    BY <1>1, <1>4, <1>5, MaxDepthAssumption
<1>9. \A i \in 1..(Len(gs) - 1) : gs[i + 1].index \in CalledBy(module, gs[i].index)
  <2> HIDE DEF n
  <2>1. QED
    BY <1>7, <1>8
<1>10. RunIsAChain(f, gs)
  <2> HIDE DEF n
  <2>1. QED
    BY <1>6, <1>8, <1>9 DEF RunIsAChain
<1>11. QED
  BY <1>4, <1>10 DEF gs

-----------------------------------------------------------------------------
(* ExecInv is inductive *)

\* Of a run of f with the frames fs, e operators executed and h calls of the
\* host: what RunIsBounded says.
Bounded(f, fs, e, h) ==
  /\ RunIsAChain(f, fs)
  /\ e + SumOf(ToDo(InstructionsIn(module), InstructionSites, fs))
       <= TreeSums(module, InstructionsIn(module), MaxDepth)[f]
  /\ h + SumOf(ToDo(HostCallsIn(module), HostSites, fs))
       <= TreeSums(module, HostCallsIn(module), MaxDepth)[f]

\* The parts of ExecInv that are about the run, of any state of it.
Invoked(rn, fs, e, h) ==
  IF rn = {} THEN fs = <<>> /\ e = 0 /\ h = 0
  ELSE /\ phase = "done" /\ ~Refused(binary)
       /\ \E f \in Defined(module) :
            rn = {f} /\ \E i \in 1..Len(module.exports) : module.exports[i].to = f

RunIsRight(rn, fs, e, h) ==
  /\ e \in Nat /\ h \in Nat
  /\ Within(fs)
  /\ Invoked(rn, fs, e, h)
  /\ \A f \in rn : ReasonsOf(module, f) = {} => Bounded(f, fs, e, h)

LEMMA ExecParts ==
  ExecInv <=> RunIsRight(running, frames, executed, hosted) /\ ZeroIsEarned
<1> HIDE DEF module
<1>1. ExecTypes <=> executed \in Nat /\ hosted \in Nat /\ Within(frames)
  BY DEF ExecTypes, Within, RunFrames
<1>2. RunIsOfAnExport <=> Invoked(running, frames, executed, hosted)
  BY DEF RunIsOfAnExport, Invoked
<1>3. \A f : RunIsBounded(f) <=> Bounded(f, frames, executed, hosted)
  BY DEF RunIsBounded, Bounded
<1>4. QED
  BY <1>1, <1>2, <1>3 DEF ExecInv, RunIsRight

\* What is said of the module is said of it in the next state.
LEMMA SameBodies ==
  ASSUME UNCHANGED binary
  PROVE  /\ \A f : Body(f)' = Body(f)
         /\ module' = module
         /\ InstructionSites' = InstructionSites /\ HostSites' = HostSites
         /\ \A f, i : CallsAt(f, i)' <=> CallsAt(f, i)
<1>1. module' = module
  BY DEF module
<1>2. \A f : Body(f)' = Body(f)
  BY DEF Body
<1> HIDE DEF module
<1>3. \A f : Executes(f)' = Executes(f) /\ Hosts(f)' = Hosts(f)
  BY <1>2 DEF Executes, Hosts
<1>4. \A f, i : CallsAt(f, i)' <=> CallsAt(f, i)
  BY <1>1, <1>2 DEF CallsAt
<1>5. QED
  BY <1>1, <1>2, <1>3, <1>4 DEF InstructionSites, HostSites

LEMMA ExecPartsPrimed ==
  ASSUME UNCHANGED vars, ZeroIsEarned,
         RunIsRight(running', frames', executed', hosted')
  PROVE  ExecInv'
<1>1. UNCHANGED <<binary, request, phase, next, entries, kept, status>>
  BY DEF vars
<1>2. module' = module
  BY <1>1, SameBodies
<1>3. ZeroIsEarned'
  BY <1>1 DEF ZeroIsEarned, Retained, OverLimit, NotBounded, IsExact
<1> HIDE DEF module
<1>4. RunIsOfAnExport'
  BY <1>1, <1>2 DEF RunIsOfAnExport, RunIsRight, Invoked
<1>5. ExecTypes'
  <2>1. \A f : Body(f)' = Body(f)
    BY <1>1, SameBodies
  <2>2. /\ executed' \in Nat /\ hosted' \in Nat
        /\ frames' \in Seq([index : Nat, at : Nat \ {0}])
        /\ \A i \in 1..Len(frames') :
             /\ frames'[i].index \in Defined(module)
             /\ frames'[i].at <= Len(Body(frames'[i].index)) + 1
    BY DEF RunIsRight, Within, RunFrames
  <2>3. \A i \in 1..Len(frames') : Body(frames[i].index)' = Body(frames'[i].index)
    BY <1>1 DEF Body
  <2>4. QED
    BY <1>2, <2>2, <2>3 DEF ExecTypes
<1>6. ASSUME NEW f \in running', ReasonsOf(module, f)' = {}
      PROVE  RunIsBounded(f)'
  <2>1. ReasonsOf(module, f) = {}
    BY <1>2, <1>6 DEF ReasonsOf
  <2>2. Bounded(f, frames', executed', hosted')
    BY <2>1 DEF RunIsRight
  <2>3. RunIsAChain(f, frames)'
    BY <1>2, <2>2 DEF Bounded, RunIsAChain
  <2>4. ToDo(InstructionsIn(module), InstructionSites, frames)'
          = ToDo(InstructionsIn(module), InstructionSites, frames')
    BY <1>1, <1>2, SameBodies DEF ToDo, Doing
  <2>5. ToDo(HostCallsIn(module), HostSites, frames)'
          = ToDo(HostCallsIn(module), HostSites, frames')
    BY <1>1, <1>2, SameBodies DEF ToDo, Doing
  <2>6. QED
    BY <1>2, <2>2, <2>3, <2>4, <2>5 DEF RunIsBounded, Bounded
<1>7. QED
  BY <1>3, <1>4, <1>5, <1>6 DEF ExecInv

\* What holds of a run at hand.
LEMMA AtHand ==
  ASSUME ExecInv, running # {}
  PROVE  /\ binary \in Binaries => WellFormed(module)
         /\ ~Refused(binary) /\ phase = "done"
         /\ Within(frames) /\ frames \in Seq(RunFrames) /\ Len(frames) \in Nat
         /\ executed \in Nat /\ hosted \in Nat
         /\ \E f \in Defined(module) :
              /\ running = {f}
              /\ \E i \in 1..Len(module.exports) : module.exports[i].to = f
              /\ ReasonsOf(module, f) = {} => Bounded(f, frames, executed, hosted)
<1>1. RunIsRight(running, frames, executed, hosted)
  BY ExecParts
<1>2. ~Refused(binary) /\ phase = "done"
  BY <1>1 DEF RunIsRight, Invoked
<1>3. binary \in Binaries => WellFormed(module)
  BY <1>2, ModuleIsWellFormed
<1> HIDE DEF module
<1>4. Within(frames) /\ executed \in Nat /\ hosted \in Nat
  BY <1>1 DEF RunIsRight
<1>5. frames \in Seq(RunFrames) /\ Len(frames) \in Nat
  BY <1>4 DEF Within
<1>6. PICK f \in Defined(module) :
        running = {f} /\ \E i \in 1..Len(module.exports) : module.exports[i].to = f
  BY <1>1 DEF RunIsRight, Invoked
<1>7. ReasonsOf(module, f) = {} => Bounded(f, frames, executed, hosted)
  BY <1>1, <1>6 DEF RunIsRight
<1>8. QED
  BY <1>2, <1>3, <1>4, <1>5, <1>6, <1>7

\* A step of the run is right if its frames are and an exact run stays bounded.
LEMMA StepIsRight ==
  ASSUME binary \in Binaries, ExecInv, running # {}, UNCHANGED vars, UNCHANGED running,
         executed' \in Nat, hosted' \in Nat, Within(frames'),
         \A f \in Defined(module) :
           ReasonsOf(module, f) = {} /\ Bounded(f, frames, executed, hosted)
             => Bounded(f, frames', executed', hosted')
  PROVE  ExecInv'
<1> HIDE DEF module
<1>1. PICK f \in Defined(module) :
        /\ running = {f}
        /\ \E i \in 1..Len(module.exports) : module.exports[i].to = f
        /\ ReasonsOf(module, f) = {} => Bounded(f, frames, executed, hosted)
  BY AtHand
<1>2. ~Refused(binary) /\ phase = "done"
  BY AtHand
<1>3. running' = {f}
  BY <1>1
<1>4. Invoked(running', frames', executed', hosted')
  BY <1>1, <1>2, <1>3 DEF Invoked
<1>5. \A g \in running' : ReasonsOf(module, g) = {} => Bounded(g, frames', executed', hosted')
  BY <1>1, <1>3
<1>6. RunIsRight(running', frames', executed', hosted')
  BY <1>4, <1>5 DEF RunIsRight
<1>7. ZeroIsEarned
  BY ExecParts
<1>8. QED
  BY <1>6, <1>7, ExecPartsPrimed

\* What is left and what there is in all are numbers.
LEMMA SumsTyped ==
  ASSUME binary \in Binaries, ~Refused(binary),
         NEW weight, NEW counted, Weighs(weight, counted),
         NEW fs, Within(fs), Shallow(fs), NEW f \in Defined(module)
  PROVE  /\ SumOf(ToDo(weight, counted, fs)) \in Nat
         /\ TreeSums(module, weight, MaxDepth)[f] \in Nat
<1> DEFINE todo == ToDo(weight, counted, fs)
<1>1. Len(fs) \in Nat /\ SumOf(todo) = UpTo(todo, Len(fs)) /\ \A i \in 1..Len(fs) : todo[i] \in Nat
  BY ToDoTyped
<1>2. WellFormed(module) /\ weight \in [Defined(module) -> Nat]
  BY ModuleIsWellFormed DEF Weighs
<1> HIDE DEF module, todo
<1>3. SumOf(todo) \in Nat
  BY <1>1, SumGrows
<1>4. TreeSums(module, weight, MaxDepth) \in [Defined(module) -> Nat]
  BY <1>2, MaxDepthAssumption, TreeSumsUnfold
<1>5. QED
  BY <1>3, <1>4 DEF todo

\* A run that has done more by no more than is left less stays bounded.
LEMMA StaysBounded ==
  ASSUME binary \in Binaries, ~Refused(binary), NEW f \in Defined(module),
         NEW fs, Within(fs), Shallow(fs), NEW e \in Nat, NEW h \in Nat, Bounded(f, fs, e, h),
         NEW gs, Within(gs), Shallow(gs), RunIsAChain(f, gs), NEW x \in Nat, NEW y \in Nat,
         SumOf(ToDo(InstructionsIn(module), InstructionSites, gs)) + x
           <= SumOf(ToDo(InstructionsIn(module), InstructionSites, fs)),
         SumOf(ToDo(HostCallsIn(module), HostSites, gs)) + y
           <= SumOf(ToDo(HostCallsIn(module), HostSites, fs))
  PROVE  Bounded(f, gs, e + x, h + y)
<1> DEFINE ia == SumOf(ToDo(InstructionsIn(module), InstructionSites, fs))
           ib == SumOf(ToDo(InstructionsIn(module), InstructionSites, gs))
           ha == SumOf(ToDo(HostCallsIn(module), HostSites, fs))
           hb == SumOf(ToDo(HostCallsIn(module), HostSites, gs))
           it == TreeSums(module, InstructionsIn(module), MaxDepth)[f]
           ht == TreeSums(module, HostCallsIn(module), MaxDepth)[f]
<1>1. ia \in Nat /\ ib \in Nat /\ it \in Nat
  BY InstructionsWeigh, SumsTyped
<1>2. ha \in Nat /\ hb \in Nat /\ ht \in Nat
  BY HostCallsWeigh, SumsTyped
<1>3. e + ia <= it /\ h + ha <= ht
  BY DEF Bounded
<1>4. ib + x <= ia /\ hb + y <= ha
  OBVIOUS
<1> HIDE DEF ia, ib, ha, hb, it, ht
<1>5. (e + x) + ib <= it /\ (h + y) + hb <= ht
  BY <1>1, <1>2, <1>3, <1>4
<1>6. QED
  BY <1>5 DEF Bounded, ia, ib, ha, hb, it, ht

LEMMA ExecuteIsBounded ==
  ASSUME binary \in Binaries, ExecInv, Execute, UNCHANGED vars
  PROVE  ExecInv'
<1> DEFINE n == Len(frames)
           g == frames[n].index
           here == frames[n].at
           op == Body(g)[here].op
<1>1. /\ frames # <<>> /\ here <= Len(Body(g))
      /\ op \notin {"call", "call_indirect"}
      /\ executed' = executed + (IF op = "end" THEN 0 ELSE 1)
      /\ UNCHANGED running /\ hosted' = hosted
  BY DEF Execute, Running, Here, Operator
<1>2. PICK at \in Onward : frames' = At(frames, at)
  BY DEF Execute, Stepped, At
<1>3. running # {}
  <2>1. RunIsOfAnExport
    BY DEF ExecInv
  <2>2. QED
    BY <1>1, <2>1 DEF RunIsOfAnExport
<1>4. /\ ~Refused(binary) /\ Within(frames) /\ frames \in Seq(RunFrames) /\ n \in Nat
      /\ executed \in Nat /\ hosted \in Nat
  BY <1>3, AtHand
<1>5. n > 0 /\ n \in 1..n
  BY <1>1, <1>4
<1>6. g \in Defined(module) /\ frames[n] \in RunFrames
  BY <1>4, <1>5 DEF Within
<1>7. /\ Body(g) \in Seq(Operators) /\ Len(Body(g)) \in Nat
      /\ Function(module, g) = ReadBody(Body(g), binary.imports)
  BY <1>6, BodyFacts
<1> HIDE DEF module
<1>8. here \in Nat \ {0} /\ here \in 1..Len(Body(g))
  <2>1. here \in Nat \ {0}
    BY <1>6 DEF RunFrames
  <2>2. QED
    BY <1>1, <1>7, <2>1
<1>9. /\ at \in Nat \ {0} /\ at <= Len(Body(g)) + 1
      /\ Sites(Body(g), "loop") = {} => at > here
  <2> DEFINE later == (here + 1)..(Len(Body(g)) + 1)
             loops == {i \in Sites(Body(g), "loop") : i < here}
  <2>1. at \in later \cup loops
    <3>1. here + 1 \in later
      BY <1>7, <1>8
    <3>2. at \in later \/ at \in later \cup loops \/ at \in {here + 1}
      BY <1>2 DEF Onward, Here, Operator
    <3> HIDE DEF later, loops
    <3>3. QED
      BY <3>1, <3>2
  <2>2. loops \subseteq 1..Len(Body(g)) /\ (Sites(Body(g), "loop") = {} => loops = {})
    BY DEF Sites
  <2> HIDE DEF loops, g, here
  <2>3. QED
    BY <1>7, <1>8, <2>1, <2>2
<1>10. Within(frames')
  BY <1>2, <1>4, <1>5, <1>9, FramesAt
<1>11. executed' \in Nat /\ hosted' \in Nat
  BY <1>1, <1>4
<1>12. ASSUME NEW f \in Defined(module), ReasonsOf(module, f) = {},
              Bounded(f, frames, executed, hosted)
       PROVE  Bounded(f, frames', executed', hosted')
  <2>1. RunIsAChain(f, frames)
    BY <1>12 DEF Bounded
  <2>2. Shallow(frames) /\ Function(module, g).loops = 0
    BY <1>4, <1>5, <1>12, <2>1, ExactRunIsShallow
  <2>3. Sites(Body(g), "loop") = {}
    <3>1. Cardinality(Sites(Body(g), "loop")) = 0
      BY <1>7, <2>2 DEF ReadBody
    <3>2. IsFiniteSet(Sites(Body(g), "loop"))
      <4>1. Sites(Body(g), "loop") \in SUBSET (1..Len(Body(g)))
        BY DEF Sites
      <4>2. QED
        BY <1>7, <4>1, PositionsInOrder
    <3>3. QED
      BY <3>1, <3>2, FS_EmptySet
  <2>4. at \in Nat /\ at > here
    BY <1>9, <2>3
  <2>5. /\ Len(frames') = n
        /\ \A i \in 1..n : frames'[i].index = frames[i].index
    BY <1>2, <1>4, <1>5, <1>9, FramesAt
  <2>6. RunIsAChain(f, frames')
    BY <1>4, <1>10, <2>1, <2>5, ChainStays
  <2>7. OwnOf(InstructionSites, frames) = (IF op = "end" THEN 0 ELSE 1)
    <3>1. here \in InstructionSites[g] <=> op # "end"
      BY <1>6, <1>8 DEF InstructionSites, Executes
    <3>2. QED
      BY <3>1 DEF OwnOf
  <2>8. OwnOf(HostSites, frames) = 0
    <3>1. here \notin HostSites[g]
      BY <1>1, <1>6 DEF HostSites, Hosts, Sites
    <3>2. QED
      BY <3>1 DEF OwnOf
  <2>9. Shallow(frames')
    BY <1>4, <1>10, <1>12, <2>6, ExactRunIsShallow
  <2>10. SumOf(ToDo(InstructionsIn(module), InstructionSites, frames'))
           + OwnOf(InstructionSites, frames)
           <= SumOf(ToDo(InstructionsIn(module), InstructionSites, frames))
    BY <1>1, <1>2, <1>4, <1>5, <1>9, <2>2, <2>4, InstructionsWeigh, GoesOn
  <2>11. SumOf(ToDo(HostCallsIn(module), HostSites, frames')) + OwnOf(HostSites, frames)
           <= SumOf(ToDo(HostCallsIn(module), HostSites, frames))
    BY <1>1, <1>2, <1>4, <1>5, <1>9, <2>2, <2>4, HostCallsWeigh, GoesOn
  <2> DEFINE x == OwnOf(InstructionSites, frames)
             y == OwnOf(HostSites, frames)
  <2>12. x \in Nat /\ y \in Nat /\ executed' = executed + x /\ hosted' = hosted + y
    BY <1>1, <1>4, <2>7, <2>8
  <2> HIDE DEF x, y
  <2>13. Bounded(f, frames', executed + x, hosted + y)
    BY <1>4, <1>10, <1>12, <2>2, <2>6, <2>9, <2>10, <2>11, <2>12, StaysBounded DEF x, y
  <2>14. QED
    BY <2>12, <2>13
<1>13. QED
  BY <1>1, <1>3, <1>10, <1>11, <1>12, StepIsRight

\* The function a run is in, and its operator at hand.
LEMMA Standing ==
  ASSUME binary \in Binaries, ExecInv, frames # <<>>
  PROVE  LET n == Len(frames)
             g == frames[n].index
         IN  /\ running # {} /\ ~Refused(binary)
             /\ Within(frames) /\ n \in Nat /\ n > 0 /\ n \in 1..n
             /\ executed \in Nat /\ hosted \in Nat
             /\ g \in Defined(module) /\ frames[n].at \in Nat \ {0}
             /\ Body(g) \in Seq(Operators) /\ Len(Body(g)) \in Nat
             /\ Function(module, g) = ReadBody(Body(g), binary.imports)
             /\ binary.imports \in Nat /\ module.imports = binary.imports
<1> DEFINE n == Len(frames)
           g == frames[n].index
<1>1. running # {}
  <2>1. RunIsOfAnExport
    BY DEF ExecInv
  <2>2. QED
    BY <2>1 DEF RunIsOfAnExport
<1>2. /\ ~Refused(binary) /\ Within(frames) /\ frames \in Seq(RunFrames) /\ n \in Nat
      /\ executed \in Nat /\ hosted \in Nat
  BY <1>1, AtHand
<1>3. n > 0 /\ n \in 1..n
  BY <1>2
<1>4. g \in Defined(module) /\ frames[n] \in RunFrames
  BY <1>2, <1>3 DEF Within
<1>5. /\ Body(g) \in Seq(Operators) /\ Len(Body(g)) \in Nat
      /\ Function(module, g) = ReadBody(Body(g), binary.imports)
      /\ binary.imports \in Nat /\ module.imports = binary.imports
  BY <1>4, BodyFacts
<1> HIDE DEF module
<1>6. frames[n].at \in Nat \ {0}
  BY <1>4 DEF RunFrames
<1>7. QED
  BY <1>1, <1>2, <1>3, <1>4, <1>5, <1>6

\* A body with no operator of a kind to count has none.
LEMMA NoneToCount ==
  ASSUME NEW body \in Seq(Operators), NEW op, Cardinality(Sites(body, op)) = 0
  PROVE  Sites(body, op) = {}
<1>1. Len(body) \in Nat /\ Sites(body, op) \in SUBSET (1..Len(body))
  BY DEF Sites
<1>2. IsFiniteSet(Sites(body, op))
  BY <1>1, PositionsInOrder
<1>3. QED
  BY <1>2, FS_EmptySet

LEMMA EnterIsBounded ==
  ASSUME binary \in Binaries, ExecInv, Enter, UNCHANGED vars
  PROVE  ExecInv'
<1> DEFINE n == Len(frames)
           g == frames[n].index
           here == frames[n].at
           o == Body(g)[here]
<1>1. /\ frames # <<>> /\ here <= Len(Body(g))
      /\ o.op \in {"call", "call_indirect"}
      /\ executed' = executed + 1
      /\ UNCHANGED running
  BY DEF Enter, Running, Here, Operator
<1>2. PICK f \in IF o.op = "call" THEN {o.to} ELSE Defined(module) :
        \/ /\ f \in HostImports(module)
           /\ hosted' = hosted + 1
           /\ frames' = At(frames, here + 1)
        \/ /\ f \in Defined(module)
           /\ hosted' = hosted
           /\ frames' = Entered(frames, f)
  BY DEF Enter, Stepped, At, Entered, Here, Operator
<1>3. /\ running # {} /\ ~Refused(binary)
      /\ Within(frames) /\ n \in Nat /\ n > 0 /\ n \in 1..n
      /\ executed \in Nat /\ hosted \in Nat
      /\ g \in Defined(module) /\ here \in Nat \ {0}
      /\ Body(g) \in Seq(Operators) /\ Len(Body(g)) \in Nat
      /\ Function(module, g) = ReadBody(Body(g), binary.imports)
      /\ binary.imports \in Nat /\ module.imports = binary.imports
  BY <1>1, Standing
<1> HIDE DEF module
<1>4. /\ here \in 1..Len(Body(g)) /\ o \in Operators
      /\ here + 1 \in Nat \ {0} /\ here + 1 <= Len(Body(g)) + 1
  BY <1>1, <1>3
<1>5. executed' \in Nat /\ hosted' \in Nat
  BY <1>1, <1>2, <1>3
<1>6. Within(frames')
  <2>1. Within(At(frames, here + 1))
    BY <1>3, <1>4, FramesAt
  <2>2. f \in Defined(module) => Within(Entered(frames, f))
    BY <1>1, <1>3, FramesEntered
  <2>3. QED
    BY <1>2, <2>1, <2>2
<1>7. ASSUME NEW root \in Defined(module), ReasonsOf(module, root) = {},
             Bounded(root, frames, executed, hosted)
      PROVE  Bounded(root, frames', executed', hosted')
  <2>1. RunIsAChain(root, frames)
    BY <1>7 DEF Bounded
  <2>2. Shallow(frames) /\ Function(module, g).indirect = 0
    BY <1>3, <1>7, <2>1, ExactRunIsShallow
  <2>3. o.op = "call" /\ f = o.to
    <3>1. Cardinality(Sites(Body(g), "call_indirect")) = 0
      BY <1>3, <2>2 DEF ReadBody
    <3>2. Sites(Body(g), "call_indirect") = {}
      BY <1>3, <3>1, NoneToCount
    <3>3. o.op # "call_indirect"
      BY <1>4, <3>2 DEF Sites
    <3>4. QED
      BY <1>1, <1>2, <3>3
  <2>4. OwnOf(InstructionSites, frames) = 1
    <3>1. here \in InstructionSites[g]
      BY <1>3, <1>4, <2>3 DEF InstructionSites, Executes
    <3>2. QED
      BY <3>1 DEF OwnOf
  <2>5. CASE f \in HostImports(module) /\ hosted' = hosted + 1 /\ frames' = At(frames, here + 1)
    <3>1. OwnOf(HostSites, frames) = 1
      <4>1. ~(o.to >= binary.imports)
        BY <1>3, <2>3, <2>5 DEF HostImports
      <4>2. here \in HostSites[g]
        BY <1>3, <1>4, <2>3, <4>1 DEF HostSites, Hosts, Sites, CallSites
      <4>3. QED
        BY <4>2 DEF OwnOf
    <3>2. /\ Len(frames') = n
          /\ \A i \in 1..n : frames'[i].index = frames[i].index
      BY <1>3, <1>4, <2>5, FramesAt
    <3>3. RunIsAChain(root, frames')
      BY <1>3, <1>6, <2>1, <3>2, ChainStays
    <3>4. Shallow(frames')
      BY <1>3, <1>6, <1>7, <3>3, ExactRunIsShallow
    <3>5. here + 1 \in Nat /\ here + 1 > here
      BY <1>3
    <3>6. SumOf(ToDo(InstructionsIn(module), InstructionSites, frames'))
             + OwnOf(InstructionSites, frames)
             <= SumOf(ToDo(InstructionsIn(module), InstructionSites, frames))
      BY <1>1, <1>3, <1>4, <2>2, <2>5, <3>5, InstructionsWeigh, GoesOn
    <3>7. SumOf(ToDo(HostCallsIn(module), HostSites, frames')) + OwnOf(HostSites, frames)
             <= SumOf(ToDo(HostCallsIn(module), HostSites, frames))
      BY <1>1, <1>3, <1>4, <2>2, <2>5, <3>5, HostCallsWeigh, GoesOn
    <3>8. Bounded(root, frames', executed + 1, hosted + 1)
      BY <1>3, <1>6, <1>7, <2>2, <2>4, <3>1, <3>3, <3>4, <3>6, <3>7, StaysBounded
    <3>9. QED
      BY <1>1, <2>5, <3>8
  <2>6. CASE f \in Defined(module) /\ hosted' = hosted /\ frames' = Entered(frames, f)
    <3>1. CallsAt(g, here)
      <4>1. o.to >= binary.imports
        BY <1>3, <1>4, <2>3, <2>6 DEF Defined, Operators
      <4>2. QED
        BY <1>4, <2>3, <2>6, <4>1 DEF CallsAt, CallSites, Sites
    <3>2. OwnOf(HostSites, frames) = 0
      <4>1. here \notin HostSites[g]
        BY <1>3, <3>1 DEF HostSites, Hosts, CallsAt
      <4>2. QED
        BY <4>1 DEF OwnOf
    <3>3. RunIsAChain(root, frames')
      BY <1>3, <2>1, <2>2, <2>3, <2>6, <3>1, ChainIsEntered
    <3>4. Shallow(frames')
      BY <1>3, <1>6, <1>7, <3>3, ExactRunIsShallow
    <3>5. SumOf(ToDo(InstructionsIn(module), InstructionSites, frames'))
            + OwnOf(InstructionSites, frames)
            = SumOf(ToDo(InstructionsIn(module), InstructionSites, frames))
      BY <1>3, <2>2, <2>3, <2>6, <3>1, <3>4, InstructionsWeigh, GoesIn
    <3>6. SumOf(ToDo(HostCallsIn(module), HostSites, frames')) + OwnOf(HostSites, frames)
            = SumOf(ToDo(HostCallsIn(module), HostSites, frames))
      BY <1>3, <2>2, <2>3, <2>6, <3>1, <3>4, HostCallsWeigh, GoesIn
    <3>7. /\ SumOf(ToDo(InstructionsIn(module), InstructionSites, frames')) + 1
               <= SumOf(ToDo(InstructionsIn(module), InstructionSites, frames))
          /\ SumOf(ToDo(HostCallsIn(module), HostSites, frames')) + 0
               <= SumOf(ToDo(HostCallsIn(module), HostSites, frames))
      <4>1. /\ SumOf(ToDo(InstructionsIn(module), InstructionSites, frames')) \in Nat
            /\ SumOf(ToDo(HostCallsIn(module), HostSites, frames')) \in Nat
        BY <1>3, <1>6, <1>7, <3>4, InstructionsWeigh, HostCallsWeigh, SumsTyped
      <4>2. QED
        BY <2>4, <3>2, <3>5, <3>6, <4>1
    <3>8. Bounded(root, frames', executed + 1, hosted + 0)
      BY <1>3, <1>6, <1>7, <2>2, <3>3, <3>4, <3>7, StaysBounded
    <3>9. hosted + 0 = hosted
      BY <1>3
    <3>10. QED
      BY <1>1, <2>6, <3>8, <3>9
  <2>7. QED
    BY <1>2, <2>5, <2>6
<1>8. QED
  BY <1>1, <1>3, <1>5, <1>6, <1>7, StepIsRight

LEMMA LeaveIsBounded ==
  ASSUME binary \in Binaries, ExecInv, Leave, UNCHANGED vars
  PROVE  ExecInv'
<1> DEFINE n == Len(frames)
           g == frames[n].index
<1>1. /\ frames # <<>> /\ frames[n].at > Len(Body(g))
      /\ frames' = SubSeq(frames, 1, n - 1)
      /\ UNCHANGED running /\ executed' = executed /\ hosted' = hosted
  BY DEF Leave, Here
<1>2. /\ running # {} /\ ~Refused(binary)
      /\ Within(frames) /\ n \in Nat /\ n > 0
      /\ executed \in Nat /\ hosted \in Nat
  BY <1>1, Standing
<1> HIDE DEF module
<1>3. Within(frames')
  <2>1. /\ frames \in Seq(RunFrames)
        /\ \A i \in 1..n : frames[i].index \in Defined(module)
                           /\ frames[i].at <= Len(Body(frames[i].index)) + 1
    BY <1>2 DEF Within
  <2>2. frames' \in Seq(RunFrames) /\ Len(frames') = n - 1 /\ \A i \in 1..(n - 1) : frames'[i] = frames[i]
    BY <1>1, <1>2, <2>1, FrontOf
  <2> HIDE DEF n
  <2>3. \A i \in 1..Len(frames') : i \in 1..n /\ frames'[i] = frames[i]
    BY <1>2, <2>2
  <2>4. QED
    BY <2>1, <2>2, <2>3 DEF Within
<1>4. ASSUME NEW root \in Defined(module), ReasonsOf(module, root) = {},
             Bounded(root, frames, executed, hosted)
      PROVE  Bounded(root, frames', executed', hosted')
  <2>1. RunIsAChain(root, frames)
    BY <1>4 DEF Bounded
  <2>2. Shallow(frames)
    BY <1>2, <1>4, <2>1, ExactRunIsShallow
  <2>3. /\ Shallow(frames') /\ Len(frames') = n - 1
        /\ \A i \in 1..Len(frames') : frames'[i] = frames[i]
        /\ SumOf(ToDo(InstructionsIn(module), InstructionSites, frames'))
             = SumOf(ToDo(InstructionsIn(module), InstructionSites, frames))
    BY <1>1, <1>2, <2>2, InstructionsWeigh, GoesOut
  <2>4. SumOf(ToDo(HostCallsIn(module), HostSites, frames'))
          = SumOf(ToDo(HostCallsIn(module), HostSites, frames))
    BY <1>1, <1>2, <2>2, HostCallsWeigh, GoesOut
  <2>5. Len(frames') <= Len(frames) /\ \A i \in 1..Len(frames') : frames'[i].index = frames[i].index
    BY <1>2, <2>3
  <2>6. RunIsAChain(root, frames')
    BY <1>2, <1>3, <2>1, <2>5, ChainStays
  <2>7. QED
    BY <1>1, <1>4, <2>3, <2>4, <2>6 DEF Bounded
<1>5. QED
  BY <1>1, <1>2, <1>3, <1>4, StepIsRight

LEMMA InvokeIsBounded ==
  ASSUME binary \in Binaries, ExecInv, Invoke, UNCHANGED vars
  PROVE  ExecInv'
<1>1. phase = "done" /\ ~Refused(binary) /\ running = {} /\ executed' = executed /\ hosted' = hosted
  BY DEF Invoke
<1>2. PICK k \in 1..Len(module.exports) :
        /\ module.exports[k].to \in Defined(module)
        /\ running' = {module.exports[k].to}
        /\ frames' = <<[index |-> module.exports[k].to, at |-> 1]>>
  BY DEF Invoke
<1> DEFINE f == module.exports[k].to
           new == [index |-> f, at |-> 1]
           fs == <<new>>
<1>3. RunIsRight(running, frames, executed, hosted) /\ ZeroIsEarned
  BY ExecParts
<1>4. executed = 0 /\ hosted = 0
  BY <1>1, <1>3 DEF RunIsRight, Invoked
<1>5. WellFormed(module)
  BY <1>1, ModuleIsWellFormed
<1>6. Body(f) \in Seq(Operators) /\ Len(Body(f)) \in Nat
  BY <1>2, BodyFacts
<1>7. k \in 1..Len(module.exports) /\ f \in Defined(module) /\ running' = {f} /\ frames' = fs
  BY <1>2
<1> HIDE DEF module, f
<1>8. f \in Nat
  BY <1>5, <1>7 DEF WellFormed
<1>9. new \in RunFrames /\ new.index = f /\ new.at = 1
  BY <1>8 DEF RunFrames
<1> HIDE DEF new
<1>10. fs \in Seq(RunFrames) /\ Len(fs) = 1 /\ fs[1] = new /\ fs # <<>>
  BY <1>9
<1> HIDE DEF fs
<1>11. Within(fs)
  BY <1>6, <1>7, <1>9, <1>10 DEF Within
<1>12. Invoked(running', frames', executed', hosted')
  <2>1. module.exports[k].to = f
    BY DEF f
  <2>2. QED
    BY <1>1, <1>7, <2>1 DEF Invoked
<1>13. ASSUME ReasonsOf(module, f) = {}
       PROVE  Bounded(f, fs, 0, 0)
  <2>1. RunIsAChain(f, fs)
    BY <1>9, <1>10, MaxDepthAssumption DEF RunIsAChain
  <2>2. Shallow(fs)
    BY <1>1, <1>7, <1>11, <1>13, <2>1, ExactRunIsShallow
  <2>3. ASSUME NEW weight, NEW counted, Weighs(weight, counted)
        PROVE  /\ SumOf(ToDo(weight, counted, fs)) = TreeSums(module, weight, MaxDepth)[f]
               /\ SumOf(ToDo(weight, counted, fs)) \in Nat
    <3> DEFINE todo == ToDo(weight, counted, fs)
               s == Doing(f, counted[f], TreeSums(module, weight, MaxDepth - 1))
    <3>1. Len(fs) > 0 /\ fs[Len(fs)].index = f /\ fs[Len(fs)].at = 1 /\ Len(fs) = 1
      BY <1>9, <1>10
    <3>2. /\ todo[Len(fs)] = Rest(Doing(fs[Len(fs)].index, counted[fs[Len(fs)].index],
                                        TreeSums(module, weight, MaxDepth - Len(fs))),
                                  fs[Len(fs)].at)
          /\ ComesTo(Doing(fs[Len(fs)].index, counted[fs[Len(fs)].index],
                           TreeSums(module, weight, MaxDepth - Len(fs))),
                     weight, counted[fs[Len(fs)].index], fs[Len(fs)].index, MaxDepth - Len(fs))
      BY <1>1, <1>11, <2>2, <2>3, <3>1, LastToDo
    <3> HIDE DEF todo
    <3>3. todo[1] = Rest(s, 1) /\ ComesTo(s, weight, counted[f], f, MaxDepth - 1)
      BY <3>1, <3>2
    <3> HIDE DEF s
    <3>4. /\ Len(Body(f)) \in Nat
          /\ SumOf(s) = TreeSums(module, weight, (MaxDepth - 1) + 1)[f]
          /\ SumOf(s) = UpTo(s, Len(Body(f)))
          /\ \A i \in 1..Len(Body(f)) : s[i] \in Nat
      BY <3>3 DEF ComesTo
    <3>5. Rest(s, 1) = SumOf(s)
      BY <3>4, RestFalls
    <3>6. (MaxDepth - 1) + 1 = MaxDepth
      BY MaxDepthAssumption
    <3>7. /\ SumOf(todo) = UpTo(todo, 1)
          /\ todo[1] \in Nat
      <4>1. SumOf(todo) = UpTo(todo, Len(fs)) /\ \A i \in 1..Len(fs) : todo[i] \in Nat
        BY <1>1, <1>11, <2>2, <2>3, ToDoTyped DEF todo
      <4>2. QED
        BY <3>1, <4>1
    <3>8. UpTo(todo, 1) = UpTo(todo, 0) + todo[1] /\ UpTo(todo, 0) = 0
      <4>1. 1 \in Nat /\ 1 > 0 /\ 1 - 1 = 0 /\ \A i \in 1..1 : todo[i] \in Nat
        BY <3>7
      <4>2. UpTo(todo, 1) = UpTo(todo, 1 - 1) + todo[1] /\ UpTo(todo, 0) = 0
        BY <4>1, SumGrows
      <4>3. QED
        BY <4>1, <4>2
    <3>9. QED
      BY <3>3, <3>4, <3>5, <3>6, <3>7, <3>8 DEF todo
  <2>4. /\ SumOf(ToDo(InstructionsIn(module), InstructionSites, fs))
             = TreeSums(module, InstructionsIn(module), MaxDepth)[f]
        /\ SumOf(ToDo(InstructionsIn(module), InstructionSites, fs)) \in Nat
    BY <2>3, InstructionsWeigh
  <2>5. /\ SumOf(ToDo(HostCallsIn(module), HostSites, fs))
             = TreeSums(module, HostCallsIn(module), MaxDepth)[f]
        /\ SumOf(ToDo(HostCallsIn(module), HostSites, fs)) \in Nat
    BY <2>3, HostCallsWeigh
  <2>6. QED
    BY <2>1, <2>4, <2>5 DEF Bounded
<1>14. RunIsRight(running', frames', executed', hosted')
  BY <1>1, <1>4, <1>7, <1>11, <1>12, <1>13 DEF RunIsRight
<1>15. QED
  BY <1>3, <1>14, ExecPartsPrimed

\* soroban-budget is at an end before a function is invoked, and what it then
\* says is what its gates found.
LEMMA BudgetStepIsBounded ==
  ASSUME IInv, ExecInv, Next, UNCHANGED execVars
  PROVE  ExecInv'
<1>1. phase # "done"
  BY DEF Next, Load, SkipAlias, StartEntry, Call, Return, FinishEntry, Gate
<1>2. running = {} /\ frames = <<>> /\ executed = 0 /\ hosted = 0
  BY <1>1 DEF ExecInv, RunIsOfAnExport
<1>3. running' = {} /\ frames' = <<>> /\ executed' = 0 /\ hosted' = 0
  BY <1>2 DEF execVars
<1>4. ExecTypes' /\ RunIsOfAnExport'
  BY <1>3 DEF ExecTypes, RunIsOfAnExport
<1>5. ASSUME phase' = "done", status' = 0
      PROVE  kept' = Retained' /\ ~OverLimit' /\ ~NotBounded'
  <2>1. Gate
    <3>1. ~Load
      BY <1>5 DEF Load, Exit
    <3>2. ~SkipAlias /\ ~StartEntry /\ ~Call /\ ~Return /\ ~FinishEntry
      BY <1>1, <1>5 DEF SkipAlias, StartEntry, Call, Return, FinishEntry
    <3>3. QED
      BY <3>1, <3>2 DEF Next
  <2>2. Missing = {} /\ kept' = Retained /\ ~OverLimit /\ ~NotBounded
    BY <1>5, <2>1 DEF Gate, Exit
  <2>3. UNCHANGED <<request, entries>>
    BY <2>1 DEF Gate
  <2>4. Retained' = Retained
    BY <2>3 DEF Retained
  <2>5. QED
    BY <2>2, <2>3, <2>4 DEF OverLimit, NotBounded, IsExact
<1>6. ZeroIsEarned'
  BY <1>5 DEF ZeroIsEarned
<1>7. QED
  BY <1>3, <1>4, <1>6 DEF ExecInv

\* An invocation of a function with nothing against its count stays within the
\* sum over its call tree, in every state of every run.
THEOREM ExecInvariant == ExecSpec => [](IInv /\ TreeInv /\ ExecInv)
<1>1. ExecInit => IInv /\ TreeInv /\ ExecInv
  <2> SUFFICES ASSUME ExecInit
               PROVE  IInv /\ TreeInv /\ ExecInv
    OBVIOUS
  <2>1. IInv /\ TreeInv
    BY InitHolds, InitIsRight DEF ExecInit
  <2>2. running = {} /\ frames = <<>> /\ executed = 0 /\ hosted = 0 /\ phase = "load"
    BY DEF ExecInit, Init
  <2>3. ExecInv
    BY <2>2 DEF ExecInv, ExecTypes, RunIsOfAnExport, ZeroIsEarned
  <2>4. QED
    BY <2>1, <2>3
<1>2. IInv /\ TreeInv /\ ExecInv /\ [ExecNext]_allVars => IInv' /\ TreeInv' /\ ExecInv'
  <2> SUFFICES ASSUME IInv, TreeInv, ExecInv, [ExecNext]_allVars
               PROVE  IInv' /\ TreeInv' /\ ExecInv'
    OBVIOUS
  <2>1. binary \in Binaries
    BY DEF IInv, TypeOK
  <2>2. IInv' /\ TreeInv'
    <3>1. [Next]_vars
      BY DEF ExecNext, allVars
    <3>2. QED
      BY <3>1, StepKeeps, StepKeepsTheTree
  <2>3. CASE Next /\ UNCHANGED execVars
    BY <2>2, <2>3, BudgetStepIsBounded
  <2>4. CASE (Invoke \/ Execute \/ Enter \/ Leave) /\ UNCHANGED vars
    BY <2>1, <2>2, <2>4, InvokeIsBounded, ExecuteIsBounded, EnterIsBounded, LeaveIsBounded
  <2>5. CASE UNCHANGED allVars
    <3>1. UNCHANGED vars /\ UNCHANGED <<running, frames, executed, hosted>>
      BY <2>5 DEF allVars, execVars
    <3>2. RunIsRight(running, frames, executed, hosted) /\ ZeroIsEarned
      BY ExecParts
    <3>3. RunIsRight(running', frames', executed', hosted')
      BY <3>1, <3>2
    <3>4. QED
      BY <2>2, <3>1, <3>2, <3>3, ExecPartsPrimed
  <2>6. QED
    BY <2>3, <2>4, <2>5 DEF ExecNext
<1>3. QED
  BY <1>1, <1>2, PTL DEF ExecSpec

\* No invocation does more than an exact row says (estimate.rs:10).
THEOREM ExactRowsBoundRuns == ExecSpec => []ExactRowBoundsTheRun
<1>1. IInv /\ TreeInv /\ ExecInv => ExactRowBoundsTheRun
  <2> SUFFICES ASSUME IInv, TreeInv, ExecInv, NEW i \in RowsOfRun, IsExact(entries[i])
               PROVE  executed <= entries[i].instructions /\ hosted <= entries[i].hostCalls
    BY DEF ExactRowBoundsTheRun
  <2>1. i \in kept /\ RootOf(i) \in running /\ i \in 1..Len(entries) /\ binary \in Binaries
    BY DEF RowsOfRun, IInv, TypeOK
  <2> HIDE DEF module
  <2>2. PICK f \in Defined(module) :
          running = {f} /\ (ReasonsOf(module, f) = {} => Bounded(f, frames, executed, hosted))
    BY <2>1, AtHand
  <2>3. /\ ~Refused(binary) /\ Within(frames) /\ executed \in Nat /\ hosted \in Nat
    BY <2>1, AtHand
  <2>4. RootOf(i) = f
    BY <2>1, <2>2
  <2>5. ReasonsOf(module, f) = {}
    BY <2>1, <2>4 DEF TreeInv, ReasonsAreComplete, IsExact
  <2>6. Bounded(f, frames, executed, hosted)
    BY <2>2, <2>5
  <2>7. /\ entries[i].instructions = TreeSums(module, InstructionsIn(module), MaxDepth)[f]
        /\ entries[i].hostCalls = TreeSums(module, HostCallsIn(module), MaxDepth)[f]
    BY <2>1, <2>4 DEF TreeInv, ExactRowIsTheTreeSum, TreeSum
  <2>8. RunIsAChain(f, frames)
    BY <2>6 DEF Bounded
  <2>9. Shallow(frames)
    BY <2>1, <2>3, <2>5, <2>8, ExactRunIsShallow
  <2> DEFINE ia == SumOf(ToDo(InstructionsIn(module), InstructionSites, frames))
             ha == SumOf(ToDo(HostCallsIn(module), HostSites, frames))
             it == TreeSums(module, InstructionsIn(module), MaxDepth)[f]
             ht == TreeSums(module, HostCallsIn(module), MaxDepth)[f]
  <2>10. ia \in Nat /\ it \in Nat /\ ha \in Nat /\ ht \in Nat
    BY <2>1, <2>3, <2>9, InstructionsWeigh, HostCallsWeigh, SumsTyped
  <2>11. executed + ia <= it /\ hosted + ha <= ht
    BY <2>6 DEF Bounded
  <2>12. entries[i].instructions = it /\ entries[i].hostCalls = ht
    BY <2>7
  <2> HIDE DEF ia, ha, it, ht
  <2>13. QED
    BY <2>3, <2>10, <2>11, <2>12
<1>2. QED
  BY ExecInvariant, <1>1, PTL

\* A module both gates let through runs no exported name over the limit.
THEOREM GatedModulesStayUnder == ExecSpec => []GatedModuleStaysUnder
<1>1. IInv /\ TreeInv /\ ExecInv /\ ExactRowBoundsTheRun /\ EachFunctionCountsOnce
        => GatedModuleStaysUnder
  <2> SUFFICES ASSUME IInv, TreeInv, ExecInv, ExactRowBoundsTheRun, EachFunctionCountsOnce,
                      status = 0, request.unbounded, request.limit # NoLimit,
                      request.wanted = {}
               PROVE  executed <= request.limit
    BY DEF GatedModuleStaysUnder
  <2>1. request.limit \in Nat /\ binary \in Binaries
    BY RequestsAssumption DEF IInv, TypeOK
  <2>2. CASE running = {}
    BY <2>1, <2>2 DEF ExecInv, RunIsOfAnExport
  <2>3. CASE running # {}
    <3>1. ~Refused(binary) /\ phase = "done"
      BY <2>3, AtHand
    <3> HIDE DEF module
    <3>2. PICK f \in Defined(module) :
            running = {f} /\ \E i \in 1..Len(module.exports) : module.exports[i].to = f
      BY <2>3, AtHand
    <3>3. kept = 1..Len(entries) /\ ~OverLimit /\ ~NotBounded /\ kept = Retained
      BY <3>1 DEF ExecInv, ZeroIsEarned, Retained
    <3>4. PICK i \in 1..Len(entries) : RootOf(i) = f
      <4> DEFINE order == Ordered(FirstExports(module))
      <4>1. /\ Len(entries) = Cardinality(FirstExports(module))
        BY <3>1 DEF EachFunctionCountsOnce
      <4>2. /\ Len(order) = Cardinality(FirstExports(module))
            /\ \A k \in FirstExports(module) : \E i \in 1..Len(order) : order[i] = k
            /\ Len(module.exports) \in Nat
        BY <2>1, FirstExportsInOrder
      <4>3. PICK k \in FirstExports(module) : module.exports[k].to = f
        <5> DEFINE named == {j \in 1..Len(module.exports) : module.exports[j].to = f}
        <5>1. named \in SUBSET Nat /\ named # {}
          BY <3>2
        <5>2. PICK k \in named : \A j \in named : k <= j
          <6> HIDE DEF named
          <6>1. QED
            BY <5>1, LeastNatural
        <5>3. \A j \in 1..(k - 1) : module.exports[j].to # module.exports[k].to
          BY <4>2, <5>2
        <5>4. QED
          BY <5>2, <5>3 DEF FirstExports
      <4> HIDE DEF order
      <4>4. PICK i \in 1..Len(order) : order[i] = k
        BY <4>2, <4>3
      <4>5. RootOf(i) = f /\ i \in 1..Len(entries)
        BY <4>1, <4>2, <4>3, <4>4 DEF RootOf, ExportOf, NthExport, order
      <4>6. QED
        BY <4>5
    <3>5. IsExact(entries[i]) /\ ~(entries[i].instructions > request.limit)
      BY <3>3, <3>4 DEF OverLimit, NotBounded
    <3>6. executed <= entries[i].instructions
      BY <3>2, <3>3, <3>4, <3>5 DEF ExactRowBoundsTheRun, RowsOfRun
    <3>7. entries[i].instructions \in Nat /\ executed \in Nat
      <4>1. entries \in Seq(Rows)
        BY DEF IInv, TypeOK
      <4>2. entries[i] \in Rows
        BY <4>1
      <4>3. QED
        BY <2>3, <4>2, AtHand DEF Rows
    <3>8. QED
      BY <2>1, <3>5, <3>6, <3>7
  <2>4. QED
    BY <2>2, <2>3
<1>2. QED
  BY ExecInvariant, ExactRowsBoundRuns, RowsCountOnce, <1>1, PTL
=============================================================================
