----------------------------- MODULE MCBinaries -----------------------------
(***************************************************************************)
(* Small binaries and requests for the modules about soroban-budget.       *)
(***************************************************************************)
EXTENDS BudgetTree

LOCAL INSTANCE SequencesExt

CallTo(f) == [op |-> "call", to |-> f]
Plain(op) == [op |-> op, to |-> 0]
Ended(body) == Append(body, Plain("end"))

Bodies(ops, n) == {Ended(b) : b \in BoundedSeq(ops, n)}

Func(name, to) == [name |-> name, kind |-> "func", to |-> to]
Memory == [name |-> "memory", kind |-> "memory", to |-> 0]

Binary(bodies, exports) ==
  [readable |-> TRUE, imports |-> 1, declared |-> Len(bodies),
   bodies |-> bodies, exports |-> exports]

\* One import and three functions of up to two calls, any call graph.
GraphBinaries ==
  LET body == Bodies({CallTo(f) : f \in 1..3}, 2)
  IN  {Binary(<<x, y, z>>, <<Func("a", 1)>>) : x \in body, y \in body, z \in body}

\* Four functions of at most one call: chains longer than the guard allows.
ChainBinaries ==
  LET body == Bodies({CallTo(f) : f \in 1..4}, 1)
  IN  {Binary(<<w, x, y, z>>, <<Func("a", 1)>>) :
         w \in body, x \in body, y \in body, z \in body}

\* A function of up to two operators of any kind, and one of at most one.
ShapeBinaries ==
  LET ops == {Plain(o) : o \in {"plain", "if", "branch", "loop", "call_indirect"}}
               \cup {CallTo(f) : f \in 0..2}
  IN  {Binary(<<x, y>>, <<Func("a", 1), Memory, Func("b", 2)>>) :
         x \in Bodies(ops, 2), y \in Bodies(ops, 1)}

\* A function of up to three operators and one it may call.
LongBinaries ==
  {Binary(<<x, y>>, <<Func("a", 1), Func("b", 1)>>) :
     x \in Bodies({Plain(o) : o \in {"plain", "if", "branch", "loop"}} \cup {CallTo(2)}, 3),
     y \in Bodies({Plain("plain"), CallTo(0)}, 1)}

\* Two functions, exported under up to three names or not at all, and one
\* import that may be exported too; the binaries parse refuses among them.
ExportBinaries ==
  LET bodies == <<Ended(<<CallTo(2), CallTo(2)>>), Ended(<<Plain("plain"), CallTo(0)>>)>>
      names == <<"a", "b", "c">>
      exports == {[i \in 1..Len(to) |-> Func(names[i], to[i])] : to \in BoundedSeq(0..3, 3)}
      good == {Binary(bodies, e) : e \in exports}
  IN  UNION {good,
             {[b EXCEPT !.readable = FALSE] : b \in good},
             {[b EXCEPT !.declared = d] : b \in good, d \in {0, 1}},
             {Binary(<<>>, e) : e \in exports}}

Anything == [wanted |-> {}, limit |-> NoLimit, unbounded |-> FALSE]

Selections ==
  [wanted : SUBSET {"a", "b", "z"}, limit : {NoLimit, 3}, unbounded : BOOLEAN]

Gated == [wanted : {{}}, limit : {0, 2, 4}, unbounded : {TRUE}]
=============================================================================
