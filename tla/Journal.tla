------------------------------ MODULE Journal ------------------------------
(***************************************************************************)
(* The journal of a fuzz case and the report built from it                 *)
(* (soroban-fuzzer/src/report.rs).  A journal is a record of the steps the *)
(* case began, in order, and of the note left by the first thing that      *)
(* failed it.  Rendered text (actions, details, errors) is abstracted to   *)
(* what the report's consumers branch on: which action, which outcome, and *)
(* whether one of the step's calls breached a network limit.               *)
(***************************************************************************)
EXTENDS Integers, Sequences

CONSTANT None   \* Rust's None, and the absence of a failure note

Outcomes == {"pending", "ok", "rejected", "violation", "<panicked>"}

Kinds == {"invariant", "unexpected-error", "panic"}

StepRecords(Action) ==
  [index : Nat, action : Action, outcome : Outcomes, breach : BOOLEAN]

FailureNotes == [kind : Kinds, step : Nat \cup {None}]

Journals(Action) ==
  [steps : Seq(StepRecords(Action)), failure : FailureNotes \cup {None}]

EmptyJournal == [steps |-> <<>>, failure |-> None]

\* Mutation: the steps of the previous case are kept.
ResetNote(j) == [j EXCEPT !.failure = None]

Reset(j) == EmptyJournal

\* Mutation: the index is computed from the length.
StepCount(steps) == Len(steps) - 1

LastIndex(steps) == IF steps = <<>> THEN None ELSE steps[Len(steps)].index

BeginStep(j, index, action) ==
  [j EXCEPT !.steps = Append(@, [index   |-> index,
                                 action  |-> action,
                                 outcome |-> "pending",
                                 breach  |-> FALSE])]

\* Only the most recently begun step is ever given an outcome.
FinishStep(j, outcome) ==
  IF j.steps = <<>>
  THEN j
  ELSE [j EXCEPT !.steps[Len(j.steps)].outcome = outcome]

\* A call is attributed to the step in flight; StepRecord::breach only asks
\* whether one of the step's calls carries a breach.
PushCall(j, breach) ==
  IF j.steps = <<>>
  THEN [j EXCEPT !.steps = << [index |-> 0, action |-> "<setup>",
                               outcome |-> "ok", breach |-> breach] >>]
  ELSE [j EXCEPT !.steps[Len(j.steps)].breach = @ \/ breach]

Fail(j, kind) ==
  [j EXCEPT !.failure = [kind |-> kind, step |-> LastIndex(j.steps)]]

-----------------------------------------------------------------------------

\* A panic inside `execute` leaves its step pending; the report says so.
MarkPanicked(steps) ==
  LET Pending == {i \in 1..Len(steps) : steps[i].outcome = "pending"}
      first   == CHOOSE i \in Pending : \A k \in Pending : i <= k
  IN  IF Pending = {}
      THEN steps
      ELSE [steps EXCEPT ![first].outcome = "<panicked>"]

Reports(Action, Case, Stats_) ==
  [kind : Kinds, minimal : Case, steps : Seq(StepRecords(Action)), stats : Stats_]

NewReport(minimal, j, stats) ==
  [kind    |-> IF j.failure = None THEN "panic" ELSE j.failure.kind,
   minimal |-> minimal,
   steps   |-> MarkPanicked(j.steps),
   stats   |-> stats]

\* Mutation: the step is not looked for.
FirstStep(steps) == IF steps # <<>> THEN 1 ELSE None

\* The position of the step FailureReport::failing_step returns: the first
\* that is a violation or carries a breach, else the last one.
FailingStep(steps) ==
  LET Marked == {i \in 1..Len(steps) : \/ steps[i].outcome = "violation"
                                       \/ steps[i].breach}
  IN  IF Marked # {}   THEN CHOOSE i \in Marked : \A k \in Marked : i <= k
      ELSE IF steps # <<>> THEN Len(steps)
      ELSE None
=============================================================================
