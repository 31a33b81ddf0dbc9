------------------------------ MODULE FuzzRun ------------------------------
(***************************************************************************)
(* One call of `run` in soroban-fuzzer/src/runner.rs: the closure handed   *)
(* to proptest's TestRunner, the per-case execution it performs            *)
(* (`run_case`, `check_invariants`), the tally kept across cases, the      *)
(* failing case's way through the shrinker and the report at the end.      *)
(*                                                                         *)
(* The target is a fixed, deterministic table: what its setup, its         *)
(* `execute` and its invariants do is a function of the case's initial     *)
(* state and of the actions executed so far, since every case runs against *)
(* a fresh environment.  proptest is external: it draws cases, reruns the  *)
(* failing one with an action removed, or with an action or the initial    *)
(* state replaced by a simpler one, and works its way back to the last     *)
(* failing case when a candidate passes.  It is any such shrinker: which   *)
(* candidate comes next, and when there is none left, is open.             *)
(***************************************************************************)
EXTENDS Journal, Integers, FiniteSets

CONSTANTS
  Actions,      \* the actions a target generates
  Initials,     \* the initial states it generates
  MaxActions,   \* longest generated sequence (FuzzConfig::max_actions)
  Ranks,        \* action kinds, numbered in the order of their names
  Targets,         \* the targets explored
  Setup(_, _),     \* what setup, invariants() and tracked_contracts() do
  Execute(_, _),   \* what executing the last action of a case so far does
  Check(_, _),     \* what checking the invariants after it does
  Expects(_, _),   \* Target::expects_rejection
  Kind(_, _),      \* Target::action_kind
  Simpler(_),      \* what proptest may put in place of an action or state
  Configs          \* the configurations explored

ActionSeqs == UNION {[1..n -> Actions] : n \in 0..MaxActions}

CaseSpace == [initial : Initials, actions : ActionSeqs]

\* What `execute` ends with, and whether one of its calls broke a limit.
Effects == [result : {"ok", "rejected", "violation", "panics"},
            breach : BOOLEAN]

\* What a pass over the invariants ends with: all hold, all hold but reading
\* made the host reclaim an expired temporary entry, one is broken, one
\* wrote to the contract's storage, one panicked.
Checks == {"holds", "reclaims", "broken", "writes", "panics"}

ASSUME TargetsAssumption ==
  \A t \in Targets :
    /\ \A initial \in Initials : Setup(t, initial) \in {"ready", "panics"}
    /\ \A case \in CaseSpace : /\ Execute(t, case) \in Effects
                               /\ Check(t, case) \in Checks
    /\ \A action \in Actions : /\ Expects(t, action) \in BOOLEAN
                               /\ Kind(t, action) \in Ranks

ASSUME ConfigsAssumption ==
  \A c \in Configs :
    /\ c.cases \in Nat
    /\ c.replay \in Nat \cup {None}
    /\ c.seeded \in BOOLEAN
    /\ c.maxShrinkIters \in Nat
    /\ c.warnAbove \in (Nat \X (Nat \ {0})) \cup {None}

\* Simpler values are of the same sort, and simplifying comes to an end.
ASSUME SimplerAssumption ==
  /\ \A action \in Actions : Simpler(action) \subseteq Actions
  /\ \A initial \in Initials : Simpler(initial) \subseteq Initials
  /\ \A x \in Actions \cup Initials :
       /\ x \notin Simpler(x)
       /\ \A y \in Simpler(x) : Simpler(y) \subseteq Simpler(x)

ASSUME MaxActionsAssumption == MaxActions \in Nat

\* A program names finitely many kinds, and at least one.
ASSUME RanksAssumption ==
  Ranks \subseteq Nat /\ Ranks # {} /\ IsFiniteSet(Ranks)

Stats == [accepted : Nat, expected : Nat, unexpected : Nat]
NoStats == [accepted |-> 0, expected |-> 0, unexpected |-> 0]

FuzzOutcomes ==
  [kind : {"aborted"}]
  \cup [kind : {"failed"}, report : Reports(Actions, CaseSpace, Stats)]
  \cup [kind : {"passed"}, cases : Nat, stats : Stats, warning : Ranks \cup {None}]

ASSUME NoneAssumption ==
  /\ None \notin Nat
  /\ None \notin FailureNotes
  /\ None \notin CaseSpace
  /\ None \notin FuzzOutcomes

VARIABLES
  target,      \* the target under test
  config,      \* FuzzConfig
  phase,       \* where the run is
  generated,   \* the cases drawn from the seeded stream so far
  index,       \* case_index: how often proptest has called the closure
  current,     \* the case proptest is running, drawn or shrunken
  shrinking,   \* proptest is looking for a smaller failing case
  undo,        \* the candidate `complicate` goes back to, if any
  iters,       \* shrink iterations spent
  seen,        \* proptest-state-machine's counter of executed transitions
  pos,         \* actions of `current` executed
  journal,
  caseTally,   \* CaseTally of the case in flight
  tally,       \* Tally of the run
  outcome      \* FuzzOutcome, None while the run goes on

inputs == <<target, config>>
driver == <<generated, shrinking, undo, iters>>
vars == <<target, config, phase, generated, index, current, shrinking, undo,
          iters, seen, pos, journal, caseTally, tally, outcome>>

Phases == {"start", "generate", "invoke", "check", "act", "return",
           "passed", "failed", "done"}

\* The case cut off after its first k actions: what decides what happens.
Upto(case, k) == [case EXCEPT !.actions = SubSeq(@, 1, k)]

Without(s, i) == SubSeq(s, 1, i - 1) \o SubSeq(s, i + 1, Len(s))

Total(stats) == stats.accepted + stats.expected + stats.unexpected

-----------------------------------------------------------------------------
(* Tally *)

\* Mutation: the actions refused as expected are not added up.
AbsorbUnexpected(t, case) ==
  [t EXCEPT !.stats.accepted = @ + case.stats.accepted,
            !.stats.unexpected = @ + case.stats.unexpected]

Absorb(t, case) ==
  [stats  |-> [accepted   |-> t.stats.accepted + case.stats.accepted,
               expected   |-> t.stats.expected + case.stats.expected,
               unexpected |-> t.stats.unexpected + case.stats.unexpected],
   byKind |-> [k \in Ranks |->
                 t.byKind[k] + Cardinality({i \in 1..Len(case.kinds) :
                                              case.kinds[i] = k})]]

\* Mutation: the comparison is the wrong way round.
BestKind(byKind) ==
  CHOOSE k \in Ranks : \A l \in Ranks : byKind[k] <= byKind[l]

\* The kind rejected most often, the first by name among equals.
WorstKind(byKind) ==
  CHOOSE k \in Ranks :
    \A l \in Ranks : \/ byKind[l] < byKind[k]
                     \/ byKind[l] = byKind[k] /\ k <= l

\* The kind the warning names; None when the run raises no warning.
Warning(t, warnAbove) ==
  IF \/ warnAbove = None
     \/ Total(t.stats) = 0
     \/ t.stats.unexpected * warnAbove[2] <= warnAbove[1] * Total(t.stats)
  THEN None
  ELSE WorstKind(t.byKind)

Classify(t, action, result) ==
  CASE result = "ok" -> [t EXCEPT !.stats.accepted = @ + 1]
    [] result = "rejected" /\ Expects(target, action) ->
         [t EXCEPT !.stats.expected = @ + 1]
    [] result = "rejected" /\ ~Expects(target, action) ->
         [t EXCEPT !.stats.unexpected = @ + 1,
                   !.kinds = Append(@, Kind(target, action))]
    [] OTHER -> t

-----------------------------------------------------------------------------
(* Starting and ending a run *)

NoCase == [initial |-> None, actions |-> <<>>]

Init ==
  /\ target \in Targets
  /\ config \in Configs
  /\ phase = "start"
  /\ generated = <<>>
  /\ index = 0
  /\ current = NoCase
  /\ shrinking = FALSE
  /\ undo = None
  /\ iters = 0
  /\ seen = 0
  /\ pos = 0
  /\ journal = EmptyJournal
  /\ caseTally = [stats |-> NoStats, kinds |-> <<>>]
  /\ tally = [stats |-> NoStats, byKind |-> [k \in Ranks |-> 0]]
  /\ outcome = None

\* An index without a pinned seed names nothing; otherwise a seed is chosen.
Start ==
  /\ phase = "start"
  /\ IF config.replay # None /\ ~config.seeded
     THEN /\ phase' = "done"
          /\ outcome' = [kind |-> "aborted"]
     ELSE phase' = "generate" /\ UNCHANGED outcome
  /\ UNCHANGED <<inputs, driver, index, current, seen, pos, journal,
                 caseTally, tally>>

CasesToGenerate ==
  IF config.replay = None THEN config.cases ELSE config.replay + 1

\* proptest draws the next case of the seeded stream.
Generate ==
  /\ phase = "generate"
  /\ Len(generated) < CasesToGenerate
  /\ \E case \in CaseSpace :
       /\ current' = case
       /\ generated' = Append(generated, case)
  /\ seen' = 0
  /\ phase' = "invoke"
  /\ UNCHANGED <<inputs, index, shrinking, undo, iters, pos, journal,
                 caseTally, tally, outcome>>

\* proptest gives up drawing: too many rejections by the strategies.
AbortGeneration ==
  /\ phase = "generate"
  /\ Len(generated) < CasesToGenerate
  /\ outcome' = [kind |-> "aborted"]
  /\ phase' = "done"
  /\ UNCHANGED <<inputs, driver, index, current, seen, pos, journal,
                 caseTally, tally>>

Finish ==
  /\ phase = "generate"
  /\ Len(generated) = CasesToGenerate
  /\ outcome' = [kind    |-> "passed",
                 cases   |-> IF config.replay = None THEN config.cases ELSE 1,
                 stats   |-> tally.stats,
                 warning |-> Warning(tally, config.warnAbove)]
  /\ phase' = "done"
  /\ UNCHANGED <<inputs, driver, index, current, seen, pos, journal,
                 caseTally, tally>>

-----------------------------------------------------------------------------
(* The closure, and run_case inside it *)

\* Mutation: only the cases before the one named are skipped.
SkipsEarlier == config.replay # None /\ index < config.replay

\* The index is taken on every call, shrink candidates included.
Skips == config.replay # None /\ index # config.replay

SkipCase ==
  /\ phase = "invoke"
  /\ Skips
  /\ index' = index + 1
  /\ phase' = "passed"
  /\ UNCHANGED <<inputs, driver, current, seen, pos, journal, caseTally,
                 tally, outcome>>

\* A panic in setup, invariants or tracked_contracts comes before the
\* journal is reset.
SetupPanics ==
  /\ phase = "invoke"
  /\ ~Skips
  /\ Setup(target, current.initial) = "panics"
  /\ index' = index + 1
  /\ phase' = "failed"
  /\ UNCHANGED <<inputs, driver, current, seen, pos, journal, caseTally,
                 tally, outcome>>

BeginCase ==
  /\ phase = "invoke"
  /\ ~Skips
  /\ Setup(target, current.initial) = "ready"
  /\ index' = index + 1
  /\ journal' = Reset(journal)
  /\ caseTally' = [stats |-> NoStats, kinds |-> <<>>]
  /\ pos' = 0
  /\ phase' = "check"
  /\ UNCHANGED <<inputs, driver, current, seen, tally, outcome>>

\* Mutation: the storage of a read-only check is not compared.
BreaksIfFalse(check) == check = "broken"

\* A broken invariant and one that writes fail the case by way of fail_case;
\* reclaiming an expired temporary entry is no write.
Breaks(check) == check \in {"broken", "writes"}

\* Mutation: the loop over the actions has no way out.
NeverReturns(check) ==
  IF Breaks(check) \/ check = "panics" THEN "failed"
  ELSE IF pos < Len(current.actions) THEN "act"
  ELSE "check"

AfterCheck(check) ==
  IF Breaks(check) \/ check = "panics" THEN "failed"
  ELSE IF pos < Len(current.actions) THEN "act"
  ELSE "return"

\* The invariants are checked once before the first action and after each.
CheckInvariants ==
  /\ phase = "check"
  /\ LET check == Check(target, Upto(current, pos))
     IN  /\ journal' = IF Breaks(check) THEN Fail(journal, "invariant")
                       ELSE journal
         /\ phase' = AfterCheck(check)
  /\ UNCHANGED <<inputs, driver, index, current, seen, pos, caseTally, tally,
                 outcome>>

\* One action: the seen counter (absent on shrink candidates), the step's
\* record, the target's execute, its outcome and its place in the tally.
Act ==
  /\ phase = "act"
  /\ LET action == current.actions[pos + 1]
         effect == Execute(target, Upto(current, pos + 1))
         begun  == PushCall(BeginStep(journal, pos, action), effect.breach)
     IN  /\ journal' = CASE effect.result = "panics" -> begun
                         [] effect.result = "violation" ->
                              Fail(FinishStep(begun, "violation"),
                                   "unexpected-error")
                         [] OTHER -> FinishStep(begun, effect.result)
         /\ caseTally' = Classify(caseTally, action, effect.result)
         /\ phase' = IF effect.result \in {"violation", "panics"}
                     THEN "failed" ELSE "check"
  /\ seen' = IF shrinking THEN seen ELSE seen + 1
  /\ pos' = pos + 1
  /\ UNCHANGED <<inputs, driver, index, current, tally, outcome>>

\* run_case returned, so the case passed and is counted.
ReturnCase ==
  /\ phase = "return"
  /\ tally' = Absorb(tally, caseTally)
  /\ phase' = "passed"
  /\ UNCHANGED <<inputs, driver, index, current, seen, pos, journal,
                 caseTally, outcome>>

-----------------------------------------------------------------------------
(* proptest's answer to the closure's verdict *)

NextCase ==
  /\ phase = "passed"
  /\ ~shrinking
  /\ phase' = "generate"
  /\ UNCHANGED <<inputs, driver, index, current, seen, pos, journal,
                 caseTally, tally, outcome>>

\* TestError::Fail: the minimized case with the journal as it now stands.
Report(minimal) ==
  /\ outcome' = [kind   |-> "failed",
                 report |-> NewReport(minimal, journal, tally.stats)]
  /\ phase' = "done"

\* Transitions the failing case never reached are dropped for good, on the
\* first simplification; the counter is gone from then on.
Executed == IF shrinking THEN current ELSE Upto(current, seen)

\* Is the iteration budget spent?  proptest then gives up the candidate it
\* was about to run and goes back to the last failing one.
BudgetSpent == iters >= config.maxShrinkIters

\* Run a candidate, or, out of budget, report what complicate goes back to.
Rerun(candidate, back) ==
  /\ current' = candidate
  /\ undo' = back
  /\ shrinking' = TRUE
  /\ IF BudgetSpent
     THEN /\ Report(IF back = None THEN candidate ELSE back)
          /\ UNCHANGED iters
     ELSE /\ iters' = iters + 1
          /\ phase' = "invoke"
          /\ UNCHANGED outcome

DropUnseen ==
  /\ phase = "failed"
  /\ Executed # current
  /\ Rerun(Executed, None)
  /\ UNCHANGED <<inputs, generated, index, seen, pos, journal, caseTally,
                 tally>>

\* Cases with one action less, and with something replaced by a simpler one.
Deletions(case) ==
  {[case EXCEPT !.actions = Without(@, i)] : i \in 1..Len(case.actions)}

Replacements(case) ==
  {[case EXCEPT !.initial = x] : x \in Simpler(case.initial)}
  \cup UNION {{[case EXCEPT !.actions[i] = x] : x \in Simpler(case.actions[i])} :
               i \in 1..Len(case.actions)}

Simplify ==
  /\ phase = "failed"
  /\ \E candidate \in Deletions(Executed) \cup Replacements(Executed) :
       Rerun(candidate, Executed)
  /\ UNCHANGED <<inputs, generated, index, seen, pos, journal, caseTally,
                 tally>>

\* simplify finds nothing smaller: the candidate that just failed stands.
Minimal ==
  /\ phase = "failed"
  /\ Executed = current
  /\ Report(current)
  /\ UNCHANGED <<inputs, driver, index, current, seen, pos, journal,
                 caseTally, tally>>

\* The candidate passed: put the removed action back, or go on to a value
\* between the one that passed and the one that failed, and run that.
Complicate ==
  /\ phase = "passed"
  /\ shrinking
  /\ undo # None
  /\ \E case \in {undo} \cup {c \in Replacements(undo) : current \in Replacements(c)} :
       Rerun(case, IF case = undo THEN None ELSE undo)
  /\ UNCHANGED <<inputs, generated, index, seen, pos, journal, caseTally,
                 tally>>

\* Nothing to put back: the candidate stands, although it passed.
GiveUp ==
  /\ phase = "passed"
  /\ shrinking
  /\ undo = None
  /\ Report(current)
  /\ UNCHANGED <<inputs, driver, index, current, seen, pos, journal,
                 caseTally, tally>>

Next ==
  \/ Start \/ Generate \/ AbortGeneration \/ Finish
  \/ SkipCase \/ SetupPanics \/ BeginCase
  \/ CheckInvariants \/ Act \/ ReturnCase
  \/ NextCase \/ DropUnseen \/ Simplify \/ Minimal \/ Complicate \/ GiveUp

Spec == Init /\ [][Next]_vars

\* The run is one thread that calls no blocking code of its own, and the
\* target's callbacks are taken to return or panic.
FairSpec == Spec /\ WF_vars(Next)

-----------------------------------------------------------------------------
(***************************************************************************)
(* What fails a case, read off the target's table and independently of     *)
(* the order in which a run finds out.                                     *)
(***************************************************************************)

BadCheck(t, case, k) == Check(t, Upto(case, k)) \in {"broken", "writes", "panics"}

BadEffect(t, case, k) ==
  Execute(t, Upto(case, k)).result \in {"violation", "panics"}

\* The case goes wrong at its k-th action, or before the first one (k = 0).
BadAt(t, case, k) == (k > 0 /\ BadEffect(t, case, k)) \/ BadCheck(t, case, k)

CaseFails(t, case) ==
  \/ Setup(t, case.initial) = "panics"
  \/ \E k \in 0..Len(case.actions) : BadAt(t, case, k)

FirstBad(t, case) ==
  CHOOSE k \in 0..Len(case.actions) :
    BadAt(t, case, k) /\ \A l \in 0..(k - 1) : ~BadAt(t, case, l)

Ended(kind) == outcome # None /\ outcome.kind = kind

\* The failing case, once there is a report about a case that got through
\* its setup; the runs that check a property need not ask for more.
Reported == Ended("failed") /\ Setup(target, outcome.report.minimal.initial) = "ready"

Search == INSTANCE FuzzSearch
  WITH Fails  <- CaseFails,
       answer <- IF outcome = None THEN None
                 ELSE IF outcome.kind = "failed"
                      THEN <<"failed", outcome.report.minimal>>
                      ELSE <<outcome.kind>>

-----------------------------------------------------------------------------

TypeOK ==
  /\ target \in Targets
  /\ config \in Configs
  /\ phase \in Phases
  /\ generated \in Seq(CaseSpace)
  /\ index \in Nat
  /\ current \in CaseSpace \cup {NoCase}
  /\ shrinking \in BOOLEAN
  /\ undo \in CaseSpace \cup {None}
  /\ iters \in Nat
  /\ seen \in 0..MaxActions
  /\ pos \in 0..MaxActions
  /\ journal \in Journals(Actions)
  /\ caseTally \in [stats : Stats, kinds : Seq(Ranks)]
  /\ tally \in [stats : Stats, byKind : [Ranks -> Nat]]
  /\ outcome \in FuzzOutcomes \cup {None}

\* How far the case in flight is, and what proptest has seen of it.
Progress ==
  /\ phase \in {"invoke", "check", "act", "return", "passed", "failed"}
       => current \in CaseSpace
  /\ phase = "invoke" /\ ~shrinking => seen = 0
  /\ phase \in {"check", "act", "return"} =>
       pos <= Len(current.actions) /\ (~shrinking => seen = pos)
  /\ phase = "act" => pos < Len(current.actions)
  /\ phase = "failed" /\ ~shrinking => seen <= Len(current.actions)

\* Until a case fails the closure's index counts the cases drawn; a replay
\* never executes a case again, so what fails in it has the index named.
Indexing ==
  /\ phase \in {"start", "generate"} => ~shrinking
  /\ ~shrinking =>
       /\ phase \in {"start", "generate"} => index = Len(generated)
       /\ phase = "invoke" => Len(generated) = index + 1
       /\ phase \in {"check", "act", "return", "passed", "failed"}
            => index = Len(generated)
       /\ phase \in {"invoke", "check", "act", "return", "passed", "failed"}
            => current = generated[Len(generated)]
  /\ config.replay # None =>
       /\ phase \in {"check", "act", "return", "failed"}
            => ~shrinking /\ index = config.replay + 1
       /\ shrinking => index > config.replay

\* The invariant of a run that a step preserves.
IInv == TypeOK /\ Progress /\ Indexing

\* A run implements the search FuzzSearch promises: it stops at the first
\* drawn case that fails, reports a failing case reduced from it, and
\* passes only when every case it was to run has been run and holds.
ImplementsSearch == Search!Spec

\* A replay executes one case of the stream, the one at the index it was
\* given, whatever the cases before it would have done (run, the `wanted`
\* test in the closure): nothing is set up for any other.
ReplayRunsTheCaseNamed ==
  phase \in {"check", "act", "return"} /\ config.replay # None =>
    /\ ~shrinking
    /\ Len(generated) = config.replay + 1
    /\ current = generated[config.replay + 1]

\* The report's steps are those of its minimal case, up to the action that
\* went wrong and each with its own outcome, and its kind is how that action
\* failed.
StepsDescribeMinimal(t, report) ==
  LET bad  == FirstBad(t, report.minimal)
      last == Upto(report.minimal, bad)
  IN  /\ Len(report.steps) = bad
      /\ \A i \in 1..bad :
           LET result == Execute(t, Upto(last, i)).result
           IN  /\ report.steps[i].index = i - 1
               /\ report.steps[i].action = last.actions[i]
               /\ report.steps[i].outcome =
                    IF result = "panics" THEN "<panicked>" ELSE result
      /\ report.kind =
           IF bad > 0 /\ BadEffect(t, last, bad)
           THEN IF Execute(t, last).result = "panics"
                THEN "panic" ELSE "unexpected-error"
           ELSE IF Check(t, last) = "panics"
                THEN "panic" ELSE "invariant"

\* Whatever way the shrinker took, the journal left behind by its last
\* execution describes the minimal case the report names, as long as that
\* execution failed or there was budget left to rerun what it goes back to
\* (run, run_case and FailureReport::new).
JournalDescribesMinimal ==
  [][Reported' /\ (phase = "failed" \/ ~BudgetSpent)
       => StepsDescribeMinimal(target, outcome'.report)]_vars

\* "After a run it holds the final (minimized) failing case" (report.rs,
\* Journal), whether or not the shrinker ran out of budget.
JournalHoldsFinalCase == Reported => StepsDescribeMinimal(target, outcome.report)

\* "The action that failed" (report.rs, failing_step) is the one the minimal
\* case cannot be cut before without passing, when the journal is its own
\* and the target swallowed no breach of a limit before it.
FailingStepFound(t, report) ==
  LET bad == FirstBad(t, report.minimal)
  IN  (\A i \in 1..(bad - 1) : ~Execute(t, Upto(report.minimal, i)).breach)
        => FailingStep(report.steps) = IF bad = 0 THEN None ELSE bad

FailingStepIsTheFailure ==
  [][Reported' /\ (phase = "failed" \/ ~BudgetSpent)
       => FailingStepFound(target, outcome'.report)]_vars

\* <<k, i>> stands for the i-th action of the k-th case of the stream g.
RanAt(c, k) == c.replay = None \/ k = c.replay + 1

ActionsOf(c, g) ==
  UNION {{<<k, i>> : i \in 1..Len(g[k].actions)} : k \in {l \in 1..Len(g) : RanAt(c, l)}}

\* The cases drawn before the last one, which is the one that fails.
Earlier(g) == SubSeq(g, 1, Len(g) - 1)

\* What is counted are the cases that ran to their end, each of their actions
\* once, as accepted, refused as expected or refused unexpectedly: all the
\* cases of a run that passed, and when one fails those before it, nothing
\* of its own first actions (run, the closure; run_case unwinds).
OnlyCompletedCasesCount ==
  /\ Ended("passed") =>
       Total(outcome.stats) = Cardinality(ActionsOf(config, generated))
  /\ phase = "failed" /\ ~shrinking =>
       Total(tally.stats) = Cardinality(ActionsOf(config, Earlier(generated)))

\* The target refuses the i-th action of the case without being asked to.
RefusedIn(t, case, i) ==
  /\ ~Expects(t, case.actions[i])
  /\ Execute(t, Upto(case, i)).result = "rejected"

\* The refusals the target did not ask for, read off the stream.
RefusedOf(t, c, g) == {a \in ActionsOf(c, g) : RefusedIn(t, g[a[1]], a[2])}

RefusedOfKind(t, c, g, kind) ==
  {a \in RefusedOf(t, c, g) : Kind(t, g[a[1]].actions[a[2]]) = kind}

\* How many actions of a run were refused unasked, and how many it ran.
RefusedCount == Cardinality(RefusedOf(target, config, generated))
RanCount == Cardinality(ActionsOf(config, generated))

\* The share refused is above, or below, the fraction config.warnAbove.
AboveThreshold ==
  RefusedCount * config.warnAbove[2] > config.warnAbove[1] * RanCount
BelowThreshold ==
  RefusedCount * config.warnAbove[2] < config.warnAbove[1] * RanCount

\* A run that passed warns when a larger part of its actions than the
\* threshold was refused without being marked as a negative test, never when
\* a smaller part was or without a threshold, and it names the kind refused
\* most often (runner.rs, Tally::warning).  At the threshold itself the code
\* is silent where config.rs says "at least": nothing is said of it here.
WarningIsDeserved ==
  Ended("passed") =>
    /\ config.warnAbove = None => outcome.warning = None
    /\ config.warnAbove # None =>
         /\ AboveThreshold => outcome.warning # None
         /\ BelowThreshold => outcome.warning = None
    /\ outcome.warning # None =>
         \A kind \in Ranks :
           Cardinality(RefusedOfKind(target, config, generated, kind))
             <= Cardinality(RefusedOfKind(target, config, generated, outcome.warning))

\* Every run comes to an outcome: the shrinker cannot go on forever.
Terminates == <>(phase = "done")
=============================================================================
