----------------------------- MODULE BudgetTree -----------------------------
(***************************************************************************)
(* What the rows of soroban-budget are supposed to say, stated over the    *)
(* call graph of the module without walking it.                            *)
(***************************************************************************)
EXTENDS Budget

\* The export row i is of, and the function it names.
ExportOf(i) == NthExport(module, i)
RootOf(i) == ExportOf(i).to

\* The reasons an estimate of root in the module m has to give.
ReasonsOf(m, root) ==
  LET reached == Reached(m, root, MaxDepth)
  IN  {r \in {"loops"} : \E f \in reached : Function(m, f).loops > 0}
      \cup {r \in {"indirect"} : \E f \in reached : Function(m, f).indirect > 0}
      \cup {r \in {"recursion"} : GoesDeeper(m, root, MaxDepth)}

\* A row names every reason its count is no upper bound and no other: a loop
\* or an indirect call within reach, and a chain of calls longer than the
\* guard, which is what a cycle comes to (the table at estimate.rs:15).
ReasonsAreComplete ==
  \A i \in 1..Len(entries) : entries[i].unbounded = ReasonsOf(module, RootOf(i))

\* An exact row is the sum over the call tree, each call site counted
\* (estimate.rs:187): a function called twice counts twice.
ExactRowIsTheTreeSum ==
  \A i \in 1..Len(entries) :
    IsExact(entries[i]) =>
      /\ entries[i].instructions =
           TreeSum(module, InstructionsIn(module), RootOf(i), MaxDepth, 0)
      /\ entries[i].hostCalls =
           TreeSum(module, HostCallsIn(module), RootOf(i), MaxDepth, 1)

\* Row i is of the i-th function exported and counts what is within reach of it.
RowCountsOnce(i) ==
  /\ entries[i].name = ExportOf(i).name
  /\ entries[i].functions = Cardinality(Reached(module, RootOf(i), MaxDepth))

\* However many names and call sites lead to a function, it counts once: a row
\* has the number of functions within reach of its own (seen is shared by all
\* branches of the tree), whatever was cut, and at the end each exported
\* function has one row, under the first of its names and in their order.
EachFunctionCountsOnce ==
  /\ Len(entries) <= Cardinality(FirstExports(module))
  /\ \A i \in 1..Len(entries) : RowCountsOnce(i)
  /\ phase = "done" /\ ~Refused(binary) =>
       Len(entries) = Cardinality(FirstExports(module))

-----------------------------------------------------------------------------
\* What makes these inductive: what the walk has settled so far.

\* All that n calls from g get to without going through avoid is in s.
Covered(m, g, avoid, n, s) ==
  \A k \in 0..n : \A c \in Chains(m, g, k) :
    (\A i \in 0..k : c[i] \notin avoid) => c[k] \in s

\* A call of g walked with n more calls allowed; u is what was flagged.
Settled(m, g, avoid, n, s, u) ==
  /\ Covered(m, g, avoid, n, s)
  /\ "recursion" \notin u => n >= 0 /\ ~GoesDeeper(m, g, n)

Above(p, i) == {p[k].index : k \in 1..i}

\* The calls of the frame i of p that are over: the last one made is not, but
\* for the frame that is open.
Over(p, i, open) == IF i = open THEN p[i].called ELSE p[i].called - 1

Thorough(m, p, open, s, u) ==
  \A i \in 1..Len(p) : \A j \in 1..Over(p, i, open) :
    Settled(m, Function(m, p[i].index).calls[j], Above(p, i), MaxDepth - i, s, u)

\* The first n of s.
UpTo(s, n) == SumOf([i \in 1..n |-> s[i]])

\* What each frame has come to.
Spent(m, weight, p, open) ==
  [i \in 1..Len(p) |->
     weight[p[i].index]
     + UpTo(OfCalls(m, p[i].index, TreeSums(m, weight, MaxDepth - i)), Over(p, i, open))]

\* The count of an estimate that was not cut.
Counted(m, weight, root, host, p, open) ==
  IF p = <<>> THEN TreeSum(m, weight, root, MaxDepth, host)
  ELSE SumOf(Spent(m, weight, p, open))

\* A reason given is one there is.
Deserved(m, root, s, u) ==
  /\ "loops" \in u => \E f \in s : Function(m, f).loops > 0
  /\ "indirect" \in u => \E f \in s : Function(m, f).indirect > 0
  /\ "recursion" \in u => GoesDeeper(m, root, MaxDepth)

\* The walk of root, with the functions p, s reached and e estimated.
WalkIsRight(m, root, p, s, e) ==
  /\ p # <<>> => p[1].index = root
  /\ s \subseteq Reached(m, root, MaxDepth)
  /\ IF p = <<>> THEN Settled(m, root, {}, MaxDepth, s, e.unbounded)
     ELSE Thorough(m, p, Len(p), s, e.unbounded)
  /\ Deserved(m, root, s, e.unbounded)
  /\ "recursion" \notin e.unbounded =>
       /\ e.instructions = Counted(m, InstructionsIn(m), root, 0, p, Len(p))
       /\ e.hostCalls = Counted(m, HostCallsIn(m), root, 1, p, Len(p))

\* The rows so far are those of the first exports before the one at next, and
\* what is reported is what the exports up to it name.
RowsSoFar ==
  LET order == Ordered(FirstExports(module))
  IN  /\ Len(entries) <= Len(order)
      /\ \A i \in 1..Len(entries) : order[i] < next
      /\ \A i \in (Len(entries) + 1)..Len(order) : order[i] >= next
      /\ phase = "walk" => next \in FirstExports(module)
      /\ phase = "done" /\ ~Refused(binary) => next > Len(module.exports)
      /\ reported = {module.exports[j].to :
                       j \in 1..(IF phase = "walk" THEN next ELSE next - 1)}

TreeInv ==
  /\ phase = "walk" => WalkIsRight(module, Export.to, path, seen, estimate)
  /\ RowsSoFar
  /\ ReasonsAreComplete
  /\ ExactRowIsTheTreeSum
  /\ \A i \in 1..Len(entries) : RowCountsOnce(i)
=============================================================================
