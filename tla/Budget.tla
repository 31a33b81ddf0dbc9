------------------------------- MODULE Budget -------------------------------
(***************************************************************************)
(* soroban-budget: the walk over the call tree of every export of a module *)
(* (soroban-budget/src/estimate.rs) and the run of the command line around *)
(* it, with its gates (run in soroban-budget/src/main.rs).                 *)
(*                                                                         *)
(* The recursion of walk is the variable path: the functions it is inside  *)
(* of, each with the number of its calls already walked.  The report       *)
(* itself, and host calls by name, are left out: a host call is counted.   *)
(***************************************************************************)
EXTENDS CallTree

CONSTANTS
  Binaries,     \* what the file may hold
  Requests,     \* what the command line may ask: [wanted, limit, unbounded]
  MaxDepth,     \* MAX_DEPTH, 64 in the code
  NoLimit       \* the limit of a request without --fail-over

ASSUME MaxDepthAssumption == MaxDepth \in Nat

ASSUME BinariesAssumption == \A b \in Binaries : b \in WasmFiles

ASSUME RequestsAssumption ==
  \A r \in Requests : r.limit \in Nat \cup {NoLimit} /\ r.unbounded \in BOOLEAN

VARIABLES
  binary,     \* the file
  request,    \* the options
  phase,      \* "load", "entry", "walk", "done"
  next,       \* the export to look at next
  reported,   \* indices already estimated
  estimate,   \* the estimate being accumulated
  path,       \* the functions walk is inside of: [index, called]
  seen,       \* the functions this entry has reached
  entries,    \* the rows so far
  kept,       \* the rows left in the report
  status      \* the exit status

walkVars == <<estimate, path, seen>>
vars == <<binary, request, phase, next, reported, estimate, path, seen,
          entries, kept, status>>

module == Parsed(binary)

Zero == [instructions |-> 0, hostCalls |-> 0, unbounded |-> {}, loops |-> 0,
         indirect |-> 0]

IsExact(entry) == entry.unbounded = {}

Init ==
  /\ binary \in Binaries
  /\ request \in Requests
  /\ phase = "load"
  /\ next = 1
  /\ reported = {}
  /\ estimate = Zero
  /\ path = <<>>
  /\ seen = {}
  /\ entries = <<>>
  /\ kept = {}
  /\ status = 0

Exit(code) == phase' = "done" /\ status' = code

\* Module::load: a file that cannot be read as a module ends the run.
Load ==
  /\ phase = "load"
  /\ IF Refused(binary) THEN Exit(2) ELSE phase' = "entry" /\ UNCHANGED status
  /\ UNCHANGED <<binary, request, next, reported, entries, kept, walkVars>>

\* Where walk turns back at once: on a cycle, or too deep.
CutByCaller(index, p) ==
  (p # <<>> /\ p[Len(p)].index = index) \/ Len(p) > MaxDepth
CutEarly(index, p) ==
  (\E i \in 1..Len(p) : p[i].index = index) \/ Len(p) >= MaxDepth

Cut(index, p) ==
  (\E i \in 1..Len(p) : p[i].index = index) \/ Len(p) > MaxDepth

\* The estimate with a defined function added.
Charged(index) ==
  LET facts == Function(module, index)
  IN  [instructions |-> estimate.instructions + facts.instructions,
       loops        |-> estimate.loops + facts.loops,
       indirect     |-> estimate.indirect + facts.indirect,
       hostCalls    |-> estimate.hostCalls + Len(facts.hostCalls),
       unbounded    |-> estimate.unbounded
                          \cup {u \in {"loops"} : facts.loops > 0}
                          \cup {u \in {"indirect"} : facts.indirect > 0}]

\* Mutations: distinct code is charged; flags are those of the entry's body.
ChargeOnce(index) == estimate' = IF index \in seen THEN estimate ELSE Charged(index)
ChargeFlagsOfEntry(index) ==
  estimate' = [Charged(index) EXCEPT
                 !.unbounded = IF path = <<>> THEN @ ELSE estimate.unbounded]

Charge(index) == estimate' = Charged(index)

\* walk(index) with the path p and depth Len(p): cut, count a host function,
\* or enter a defined one; an index of neither kind is passed over.
Walk(index, p) ==
  \/ /\ Cut(index, p)
     /\ estimate' = [estimate EXCEPT !.unbounded = @ \cup {"recursion"}]
     /\ path' = p
     /\ UNCHANGED seen
  \/ /\ ~Cut(index, p)
     /\ index \notin Defined(module)
     /\ estimate' = IF index \in HostImports(module)
                    THEN [estimate EXCEPT !.hostCalls = @ + 1] ELSE estimate
     /\ path' = p
     /\ UNCHANGED seen
  \/ /\ ~Cut(index, p)
     /\ index \in Defined(module)
     /\ Charge(index)
     /\ path' = Append(p, [index |-> index, called |-> 0])
     /\ seen' = seen \cup {index}

\* The export of this turn of the loop in estimate.
Export == module.exports[next]

\* A second name of a function already reported is not a row.
SkipAlias ==
  /\ phase = "entry"
  /\ next <= Len(module.exports)
  /\ Export.to \in reported
  /\ next' = next + 1
  /\ UNCHANGED <<binary, request, phase, reported, entries, kept, status, walkVars>>

\* Mutations: what is reported is remembered by position, or not at all.
StartEntryByPosition ==
  /\ phase = "entry"
  /\ next <= Len(module.exports)
  /\ Export.to \notin reported
  /\ reported' = reported \cup {next}
  /\ phase' = "walk"
  /\ Walk(Export.to, <<>>)
  /\ UNCHANGED <<binary, request, next, entries, kept, status>>
StartEntryAgain ==
  /\ phase = "entry"
  /\ next <= Len(module.exports)
  /\ phase' = "walk"
  /\ Walk(Export.to, <<>>)
  /\ UNCHANGED <<binary, request, next, reported, entries, kept, status>>

StartEntry ==
  /\ phase = "entry"
  /\ next <= Len(module.exports)
  /\ Export.to \notin reported
  /\ reported' = reported \cup {Export.to}
  /\ phase' = "walk"
  /\ Walk(Export.to, <<>>)
  /\ UNCHANGED <<binary, request, next, entries, kept, status>>

Top == path[Len(path)]
TopCalls == Function(module, Top.index).calls

\* The next call of the function walk is inside of.
\* Mutation first: the call is not marked as walked.
CallAgain ==
  /\ phase = "walk"
  /\ path # <<>>
  /\ Top.called < Len(TopCalls)
  /\ Walk(TopCalls[Top.called + 1], path)
  /\ UNCHANGED <<binary, request, phase, next, reported, entries, kept, status>>

Call ==
  /\ phase = "walk"
  /\ path # <<>>
  /\ Top.called < Len(TopCalls)
  /\ Walk(TopCalls[Top.called + 1], [path EXCEPT ![Len(path)].called = @ + 1])
  /\ UNCHANGED <<binary, request, phase, next, reported, entries, kept, status>>

\* Mutation: what a function reached is forgotten with its frame.
ReturnForgets ==
  /\ phase = "walk"
  /\ path # <<>>
  /\ Top.called = Len(TopCalls)
  /\ path' = SubSeq(path, 1, Len(path) - 1)
  /\ seen' = seen \ {Top.index}
  /\ UNCHANGED <<binary, request, phase, next, reported, estimate, entries, kept, status>>

\* The function has no calls left.
Return ==
  /\ phase = "walk"
  /\ path # <<>>
  /\ Top.called = Len(TopCalls)
  /\ path' = SubSeq(path, 1, Len(path) - 1)
  /\ UNCHANGED <<binary, request, phase, next, reported, estimate, seen,
                 entries, kept, status>>

\* estimate_entry's last lines: the functions reached, and the row.
FinishEntry ==
  /\ phase = "walk"
  /\ path = <<>>
  /\ entries' = Append(entries,
       [name         |-> Export.name,
        functions    |-> Cardinality(seen),
        instructions |-> estimate.instructions,
        hostCalls    |-> estimate.hostCalls,
        unbounded    |-> estimate.unbounded,
        loops        |-> estimate.loops,
        indirect     |-> estimate.indirect])
  /\ estimate' = Zero
  /\ seen' = {}
  /\ next' = next + 1
  /\ phase' = "entry"
  /\ UNCHANGED <<binary, request, reported, path, kept, status>>

\* The rows --entry keeps.
Retained ==
  {i \in 1..Len(entries) :
     request.wanted # {} => entries[i].name \in request.wanted}

Missing == {n \in request.wanted : \A i \in 1..Len(entries) : entries[i].name # n}

\* Only an exact count is compared with --fail-over.  Mutation first: only
\* that of the first row.
OverLimitInFirst ==
  /\ request.limit # NoLimit
  /\ 1 \in Retained /\ IsExact(entries[1]) /\ entries[1].instructions > request.limit

OverLimit ==
  /\ request.limit # NoLimit
  /\ \E i \in Retained : IsExact(entries[i]) /\ entries[i].instructions > request.limit

NotBounded == request.unbounded /\ \E i \in Retained : ~IsExact(entries[i])

\* --entry, then the two gates.
Gate ==
  /\ phase = "entry"
  /\ next > Len(module.exports)
  /\ IF Missing # {}
     THEN Exit(2) /\ UNCHANGED kept
     ELSE Exit(IF OverLimit \/ NotBounded THEN 1 ELSE 0) /\ kept' = Retained
  /\ UNCHANGED <<binary, request, next, reported, entries, walkVars>>

Next ==
  \/ Load
  \/ SkipAlias
  \/ StartEntry
  \/ Call
  \/ Return
  \/ FinishEntry
  \/ Gate

\* The run is one thread that never waits.
Spec == Init /\ [][Next]_vars /\ WF_vars(Next)

-----------------------------------------------------------------------------
Reasons == {"loops", "indirect", "recursion"}

Estimates ==
  [instructions : Nat, hostCalls : Nat, unbounded : SUBSET Reasons,
   loops : Nat, indirect : Nat]

Rows ==
  [name : STRING, instructions : Nat, functions : Nat, hostCalls : Nat,
   unbounded : SUBSET Reasons, loops : Nat, indirect : Nat]

\* The types of the state.
TypeOK ==
  /\ binary \in Binaries
  /\ request \in Requests
  /\ phase \in {"load", "entry", "walk", "done"}
  /\ next \in Nat \ {0}
  /\ \A f \in reported : f \in HostImports(module) \cup Defined(module)
  /\ estimate \in Estimates
  /\ path \in Seq([index : Nat, called : Nat])
  /\ seen \subseteq Nat
  /\ entries \in Seq(Rows)
  /\ kept \subseteq 1..Len(entries)
  /\ status \in 0..2

\* The stack of walk is a chain of calls in which no function occurs twice
\* and which is no longer than the guard lets it be (estimate.rs:214): the
\* walk ends, and on a stack it can afford.
PathIsASimpleChain ==
  /\ Len(path) <= MaxDepth + 1
  /\ \A i \in 1..Len(path) : path[i].index \in Defined(module)
  /\ \A i, j \in 1..Len(path) : path[i].index = path[j].index => i = j
  /\ \A i \in 1..(Len(path) - 1) :
       /\ path[i].called \in 1..Len(Function(module, path[i].index).calls)
       /\ Function(module, path[i].index).calls[path[i].called] = path[i + 1].index

\* A row is exact only when the walk has been everywhere the entry can go:
\* what it reached is closed under direct calls and holds no loop and no
\* indirect call, for every order of calls and at every depth guard.
ExactRowIsClosed ==
  [][entries' # entries /\ IsExact(entries'[Len(entries')]) =>
       \A f \in seen :
         /\ CalledBy(module, f) \cap Defined(module) \subseteq seen
         /\ Function(module, f).loops = 0
         /\ Function(module, f).indirect = 0]_vars

\* What makes these inductive.  The phases: what each finds in the state.
Phases ==
  /\ phase \in {"entry", "walk"} => ~Refused(binary)
  /\ phase = "walk" => next <= Len(module.exports)
  /\ phase # "walk" => path = <<>> /\ seen = {} /\ estimate = Zero

\* Every function on the path has been reached, and no more calls of it have
\* been walked than it has.
PathIsReached ==
  \A i \in 1..Len(path) :
    /\ path[i].index \in seen
    /\ path[i].called <= Len(Function(module, path[i].index).calls)

\* The call at j of f is still to be walked, f being on the path.
Pending(f, j) == \E i \in 1..Len(path) : path[i].index = f /\ path[i].called < j

\* As long as nothing was cut, a call of a function reached has been followed
\* or is still to be walked.
CallsAreFollowed ==
  "recursion" \notin estimate.unbounded =>
    \A f \in seen : \A j \in 1..Len(Function(module, f).calls) :
      LET g == Function(module, f).calls[j]
      IN  g \in Defined(module) => g \in seen \/ Pending(f, j)

FlagsAreRaised ==
  \A f \in seen :
    /\ Function(module, f).loops > 0 => "loops" \in estimate.unbounded
    /\ Function(module, f).indirect > 0 => "indirect" \in estimate.unbounded

IInv ==
  /\ TypeOK
  /\ Phases
  /\ PathIsASimpleChain
  /\ seen \subseteq Defined(module)
  /\ PathIsReached
  /\ CallsAreFollowed
  /\ FlagsAreRaised

\* The run comes to an exit status, whatever the call graph.
Terminates == <>(phase = "done")
=============================================================================
