----------------------------- MODULE BudgetExec -----------------------------
(***************************************************************************)
(* An invocation of the contract beside the estimate of it: what running   *)
(* an entry does, to compare with what soroban-budget says of it.  The     *)
(* engine is external; its steps are those the operators read_body tells   *)
(* apart can take, whatever the data: an if or a branch goes on at any     *)
(* later operator, a branch also back to a loop it is inside of, an        *)
(* indirect call to any function.                                          *)
(***************************************************************************)
EXTENDS BudgetTree

CONSTANTS
  MaxExecuted,   \* a run is followed for this many operators
  MaxFrames      \* and this many nested calls

ASSUME RunBoundsAssumption == MaxExecuted \in Nat /\ MaxFrames \in Nat \ {0}

VARIABLES
  running,    \* the function invoked, or {} before it is: a set of one
  frames,     \* the calls it is inside of: [index, at]
  executed,   \* the operators executed, end aside
  hosted      \* the host functions called

execVars == <<running, frames, executed, hosted>>
allVars == <<vars, execVars>>

Body(f) == binary.bodies[f - binary.imports + 1]

ExecInit ==
  /\ Init
  /\ running = {} /\ frames = <<>> /\ executed = 0 /\ hosted = 0

Invoke ==
  /\ phase = "done"
  /\ ~Refused(binary)
  /\ running = {}
  /\ \E i \in 1..Len(module.exports) :
       /\ module.exports[i].to \in Defined(module)
       /\ running' = {module.exports[i].to}
       /\ frames' = <<[index |-> module.exports[i].to, at |-> 1]>>
  /\ UNCHANGED <<executed, hosted>>

Here == frames[Len(frames)]
Operator == Body(Here.index)[Here.at]

Running == frames # <<>> /\ Here.at <= Len(Body(Here.index))

\* Where the operator at hand can go on in its body.
Onward ==
  LET later == (Here.at + 1)..(Len(Body(Here.index)) + 1)
      loops == {i \in Sites(Body(Here.index), "loop") : i < Here.at}
  IN  CASE Operator.op = "if" -> later
        [] Operator.op = "branch" -> later \cup loops
        [] OTHER -> {Here.at + 1}

Stepped(at) == [frames EXCEPT ![Len(frames)].at = at]

\* An operator that stays in the function.
Execute ==
  /\ Running
  /\ executed < MaxExecuted
  /\ Operator.op \notin {"call", "call_indirect"}
  /\ \E at \in Onward : frames' = Stepped(at)
  /\ executed' = executed + (IF Operator.op = "end" THEN 0 ELSE 1)
  /\ UNCHANGED <<running, hosted>>

Enter ==
  /\ Running
  /\ executed < MaxExecuted
  /\ Operator.op \in {"call", "call_indirect"}
  /\ \E f \in IF Operator.op = "call" THEN {Operator.to} ELSE Defined(module) :
       \/ /\ f \in HostImports(module)
          /\ hosted' = hosted + 1
          /\ frames' = Stepped(Here.at + 1)
       \/ /\ f \in Defined(module)
          /\ Len(frames) < MaxFrames
          /\ hosted' = hosted
          /\ frames' = Append(Stepped(Here.at + 1), [index |-> f, at |-> 1])
  /\ executed' = executed + 1
  /\ UNCHANGED running

Leave ==
  /\ frames # <<>>
  /\ Here.at > Len(Body(Here.index))
  /\ frames' = SubSeq(frames, 1, Len(frames) - 1)
  /\ UNCHANGED <<running, executed, hosted>>

ExecNext ==
  \/ Next /\ UNCHANGED execVars
  \/ (Invoke \/ Execute \/ Enter \/ Leave) /\ UNCHANGED vars

ExecSpec == ExecInit /\ [][ExecNext]_allVars

\* The rows that are of the function invoked.
RowsOfRun == {i \in kept : RootOf(i) \in running}

\* "an exact count only when the entrypoint cannot loop, cannot call
\* indirectly and does not recurse" (estimate.rs:10): no invocation, by any
\* of its names and on any data, does more than an exact row says.
ExactRowBoundsTheRun ==
  \A i \in RowsOfRun :
    IsExact(entries[i]) =>
      executed <= entries[i].instructions /\ hosted <= entries[i].hostCalls

\* Both gates together hold what they are for: after exit status 0 under
\* --fail-over and --fail-unbounded, no exported name runs over the limit.
GatedModuleStaysUnder ==
  status = 0 /\ request.unbounded /\ request.limit # NoLimit /\ request.wanted = {}
    => executed <= request.limit

-----------------------------------------------------------------------------
\* What makes these inductive: what is left to do of a run.

\* The operators of f that are executed, and those that call the host.
Executes(f) == {i \in 1..Len(Body(f)) : Body(f)[i].op # "end"}
Hosts(f) == Sites(Body(f), "call") \ CallSites(Body(f), binary.imports)

InstructionSites == [f \in Defined(module) |-> Executes(f)]
HostSites == [f \in Defined(module) |-> Hosts(f)]

CallsAt(f, i) ==
  i \in CallSites(Body(f), binary.imports) /\ Body(f)[i].to \in Defined(module)

\* What the operators of f do one by one: an operator that counts does one, and
\* a call what below says of the function called.
Doing(f, counted, below) ==
  [i \in 1..Len(Body(f)) |->
     (IF i \in counted THEN 1 ELSE 0) + (IF CallsAt(f, i) THEN below[Body(f)[i].to] ELSE 0)]

\* What is left of s from at on.
Rest(s, at) == SumOf(s) - UpTo(s, at - 1)

\* What each frame has still to do.
ToDo(weight, counted, fs) ==
  [i \in 1..Len(fs) |->
     Rest(Doing(fs[i].index, counted[fs[i].index], TreeSums(module, weight, MaxDepth - i)),
          fs[i].at)]

\* The frames of a run of f are a chain of calls, no deeper than the guard.
RunIsAChain(f, fs) ==
  /\ Len(fs) <= MaxDepth + 1
  /\ fs # <<>> => fs[1].index = f
  /\ \A i \in 1..(Len(fs) - 1) : fs[i + 1].index \in CalledBy(module, fs[i].index)

\* A run of f has not done, and will not do, more than is in the call tree.
RunIsBounded(f) ==
  /\ RunIsAChain(f, frames)
  /\ executed + SumOf(ToDo(InstructionsIn(module), InstructionSites, frames))
       <= TreeSums(module, InstructionsIn(module), MaxDepth)[f]
  /\ hosted + SumOf(ToDo(HostCallsIn(module), HostSites, frames))
       <= TreeSums(module, HostCallsIn(module), MaxDepth)[f]

ExecTypes ==
  /\ executed \in Nat /\ hosted \in Nat
  /\ frames \in Seq([index : Nat, at : Nat \ {0}])
  /\ \A i \in 1..Len(frames) :
       frames[i].index \in Defined(module) /\ frames[i].at <= Len(Body(frames[i].index)) + 1

\* One function is invoked, an export, when the verdict is out.
RunIsOfAnExport ==
  IF running = {} THEN frames = <<>> /\ executed = 0 /\ hosted = 0
  ELSE /\ phase = "done" /\ ~Refused(binary)
       /\ \E f \in Defined(module) :
            running = {f} /\ \E i \in 1..Len(module.exports) : module.exports[i].to = f

\* Exit status 0 is that of a run no gate has stopped.
ZeroIsEarned ==
  phase = "done" /\ status = 0 => kept = Retained /\ ~OverLimit /\ ~NotBounded

ExecInv ==
  /\ ExecTypes
  /\ RunIsOfAnExport
  /\ ZeroIsEarned
  /\ \A f \in running : ReasonsOf(module, f) = {} => RunIsBounded(f)
=============================================================================
