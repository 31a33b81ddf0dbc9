------------------------------ MODULE CallTree ------------------------------
(***************************************************************************)
(* The call graph of a parsed contract, and what is said of it without     *)
(* walking it: chains of direct calls, what is within reach, and sums over *)
(* a call tree in which every call site counts.                            *)
(***************************************************************************)
EXTENDS Wasm

CalledBy(module, f) ==
  {Function(module, f).calls[i] : i \in 1..Len(Function(module, f).calls)}

\* The chains of d calls from f.
Chains(module, f, d) ==
  {c \in [0..d -> Defined(module)] :
     c[0] = f /\ \A i \in 1..d : c[i] \in CalledBy(module, c[i - 1])}

\* The functions at the end of a chain of exactly d calls from f.
After(module, f, d) == {c[d] : c \in Chains(module, f, d)}

\* The functions at the end of a chain of no more than d calls.
Reached(module, f, d) == UNION {After(module, f, n) : n \in 0..d}

\* f has a chain of d calls, and one more call after it.
GoesDeeper(module, f, d) ==
  \E g \in After(module, f, d) : Function(module, g).calls # <<>>

SumOf(s) ==
  LET upto[i \in 0..Len(s)] == IF i = 0 THEN 0 ELSE upto[i - 1] + s[i]
  IN  upto[Len(s)]

\* What the calls of g come to when below says what each defined function does.
OfCalls(module, g, below) ==
  LET calls == Function(module, g).calls
  IN  [j \in 1..Len(calls) |-> IF calls[j] \in Defined(module) THEN below[calls[j]] ELSE 0]

\* For each function the sum of weight over its call tree, cut d calls deep.
TreeSums(module, weight, d) ==
  LET sums[n \in 0..d] ==
        [g \in Defined(module) |->
           weight[g] + (IF n = 0 THEN 0 ELSE SumOf(OfCalls(module, g, sums[n - 1])))]
  IN  sums[d]

\* The sum for f, which is host for a function of the host.
TreeSum(module, weight, f, d, host) ==
  IF f \in Defined(module) THEN TreeSums(module, weight, d)[f] ELSE host

HostCallsIn(module) == [f \in Defined(module) |-> Len(Function(module, f).hostCalls)]
InstructionsIn(module) == [f \in Defined(module) |-> Function(module, f).instructions]

\* The exports that are no second name of a function, in their order.
FirstExports(module) ==
  {k \in 1..Len(module.exports) :
     \A j \in 1..(k - 1) : module.exports[j].to # module.exports[k].to}

NthExport(module, i) == module.exports[Ordered(FirstExports(module))[i]]
=============================================================================
