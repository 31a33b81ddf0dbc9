# Verification of soroban-fuzzer, soroban-analyzer and soroban-budget

TLA+ models of the toolkit's own logic, the TLC configurations that check them
on small instances, and proofs checked by TLAPS. The toolkit has three crates:
a property-based fuzzer for Soroban contracts, a static analyser of their
source, and a static cost estimator of their compiled form. Each is a program
whose answer ("no findings", "this is the minimal failing case", "exactly N
instructions") is taken on trust by whoever reads it, so the models are about
when that answer is right.

## 1. Inventory

### soroban-fuzzer

| Part | State it keeps | Operations | Hard about it | Correct when |
| --- | --- | --- | --- | --- |
| `runner.rs` | the closure's case index, the run's tally, the case's tally, the shared journal | `run`, the closure given to proptest, `run_case`, `check_invariants`, `fail_case`, `Tally::absorb`, `Tally::warning` | proptest calls the closure again for every shrink candidate, in an order that depends on which candidates fail; a case leaves by return, by panic in the target or by `fail_case` | it stops at the first failing case, reports a failing case reduced from it, and what it says of that case (steps, kind, counts) is of that case |
| `report.rs` | `Journal`: steps and failure note; `FailureReport` | `reset`, `begin_step`, `finish_step`, `push_call`, `fail`, `new`, `failing_step` | one journal, overwritten by every execution | the report is about the minimal case and the step it names is the one that failed |
| `runtime.rs` | the authorization mode of the host, the ledger clock, the records of calls | `call`, `call_without_auth`, `call_requiring_auth`, `call_unchecked`, `authorize`, `advance`, `close_ledger` | credentials that outlive the call or the action, limits enforced on the last invocation, a saturating clock | an action sees its own credentials only; an unprotected entrypoint is found |
| `storage.rs` | none: snapshots of the host's entries | `capture`, `capture_scoped`, `scoped`, `diff` | scoping, entries inlined in the instance, expired temporaries the host reclaims on a read | a delta is empty exactly when nothing changed; counts balance |
| `invariant.rs` | per-case baselines (`SupplyConserved`, `NonDecreasing`) | `check` | the baseline is taken at the first check of a case; checking must not write | a value that changed is reported at the step that changed it |
| `budget.rs`, `config.rs`, `target.rs`, `arbitrary_bridge.rs` | none | limit comparison, configuration, defaults | a limit compared field by field | |
| `panic_output` in `runner.rs` | a thread-local depth, a process-wide hook | `on_current_thread`, `drop` | several runs nested or on several threads share one hook | a thread that is not fuzzing is never silenced |

### soroban-analyzer

| Part | State it keeps | Operations | Hard about it | Correct when |
| --- | --- | --- | --- | --- |
| `lib.rs` | the counter of claimed files, the outcomes pushed | `analyze_paths` | scoped threads claim from an atomic counter and push under a mutex; a detector may panic | each file is checked once and the answer does not depend on the threads |
| `walk.rs` | none | `collect`, `walk_directory` | symlinks, skipped directories, unreadable ones | every readable `.rs` file is found, every hole reported |
| `main.rs`, `config.rs` | none | `parse`, `analyze`, `resolve_config` | the order in which flags, file and defaults are resolved, and findings excused | the exit status is about what gates |
| `baseline.rs` | the baseline file, across runs | `from_findings`, `parse`, `matches`, `stale` | a file written by one run and read by later ones | a run fails on what is new |
| `report.rs` | the four lists of findings | `with_baseline`, `with_disabled_rules`, `exit_code`, rendering | each finding is in one list | what is excused is reported, never dropped |
| `suppress.rs`, `source.rs` | none | marker parsing, enclosing items | the twelve-line window, item and file scope | a marker excuses what it is next to |
| `detector.rs`, `rules.rs`, `severity.rs` | the registry and the rules | `check_file`, `validate`, loading | ids that do not match | each detector has its rule |
| `detectors/*`, `syntax.rs` | per-file visitors | five detectors over the parsed source | nesting of loops, order of checks and effects | per rule |
| `scripts/run-analysis.sh`, `action.yml` | files of the job | exit-status translation | statuses other than 0, 1, 2 | a run that checked nothing is never green |

### soroban-budget

| Part | State it keeps | Operations | Hard about it | Correct when |
| --- | --- | --- | --- | --- |
| `estimate.rs` | the path and the functions seen of one walk | `estimate`, `estimate_entry`, `walk` | a recursion over the call tree with a depth limit | the count bounds what an invocation executes |
| `module.rs` | none | `parse`, index spaces | imports shift function indexes | calls are attributed to the right function |
| `main.rs`, `report.rs` | none | gates, rendering | only exact entries are compared | the exit status follows the gates |

The crates do not call each other. Within the fuzzer, `run` hands proptest a
closure that shares the journal, the tally and the index with it (`Rc`), and
`run_case` hands the journal on to each `Runtime`. Within the analyser, the
pool's threads share the counter and the outcomes, and a baseline file carries
findings from one process to later ones.

The hazards of this code, each at the line where it bites and with the
properties that would catch it, are listed in `PROJECT.json` under `hazards`.

## 2. Plan

The order follows what a reader relies on: first the answer of a fuzzing run,
then the answer of the analyser's pool, the estimator's numbers and the gate
that keeps a baseline; then what those took as given: what one case of the
fuzzer does, what the walk finds, and what checking one file gives.

| Step | Modules | State |
| --- | --- | --- |
| 1. The fuzzing run and its report | `Journal`, `FuzzSearch` (abstract), `FuzzRun`, `MCFuzzRun`, `FuzzRunProof`, `FuzzSearchProof` | done |
| 2. The analyser's pool | `Ordering`, `Listing`, `AnalyzeOnce` (abstract), `AnalyzePaths`, `MCAnalyzePaths`, `OrderingProof`, `AnalyzePathsProof` | done |
| 3. The estimator | `Wasm`, `CallTree`, `Budget`, `BudgetTree` (reference definitions), `BudgetExec` (what an invocation executes), `MCBinaries`, `MCBudget`, `MCBudgetExec`, `BudgetProof` | done |
| 4. Repository, baseline and gate | `Gate`, `MCGate`, `GateProof` | done |
| 5. A case of the fuzzer | `Storage`, `Host` (external), `Runtime`, `FuzzCase`, `TokenFuzz`, `MCFuzzCase`, `FuzzCaseProof` | done |
| 6. The walk over the file system | `Listing`, `AnalyzeOnce` | done |
| 7. One file: syntax, markers, rules, detectors | `Syntax`, `Suppress`, `Rules`, `Detectors`, `CheckFile`, `MCCheckFile`, `CheckFileProof` | done |

The parts meet at constants. `FuzzRun` takes what a case does from the tables
`Execute`, `Check` and `Setup`; `FuzzCase` is the case itself, and what its
`outcome` and `failure` may be is what those tables range over. `AnalyzePaths`
takes what checking a file gives from `Analysis`; `CheckFile` is that check,
with a panic as one of its ends. `Gate` takes the findings next to a marker from
`marked`; `Suppress` says which those are.

Section 5 says what is proved of them, and ends with what is not.

## 3. Modules and the code they stand for

`PROJECT.json` gives, under `map`, the lines each definition models. Some
definitions are preceded by a comment that starts with "Mutation": each is the
definition after it with a plausible slip, used to confirm that the properties
notice.

**`Journal`** is `Journal`, `FailureReport::new` and `failing_step` of the
fuzzer's `report.rs`: operators on a record of steps and a failure note, one
for each method.

**`FuzzRun`** is one call of `run`. `phase` says where control is: `generate`
(proptest draws), `invoke` (the closure is entered), `check` and `act`
(`run_case`'s loop), `return`, `passed`, `failed` (the closure's verdict in
proptest's hands), `done`. `index`, `journal` and `tally` are the `Rc` cells the
closure shares with `run`; `caseTally` is `run_case`'s local. What the target
does is a table from the case so far to an outcome, which is what a fresh
environment per case gives. proptest is external and taken as any shrinker: it
may remove an action, replace an action or the initial state by a simpler one,
go back when a candidate passes, and stop when the iteration budget is spent or
nothing smaller is left. The only details kept of it are those `runner.rs`
mentions or depends on: the counter of transitions seen (which removes actions
never reached), the budget, and that a candidate that passed is followed by the
last failing one, which is not run again when the budget is gone.

**`FuzzSearch`** is what a run promises and knows no shrinker, journal or
tally: cases come one by one, the first that fails is reduced to one that fails,
and the run ends with it, or with none. `FuzzRun` implements it under the
mapping at the end of `FuzzRun.tla`.

**`FuzzCase`** is one case, `run_case` with the runtime it hands to `execute`.
`pc` follows the code: `check` and `invariant` are `check_invariants`, `next`
and `execute` the loop over the actions. An action's `execute` is a script of
operations, left at the first outcome that is not `Ok`, which is how
`StepOutcome` is used throughout; the operations are the methods of `Runtime`
and `LedgerCtl`, one action each. `host` is the environment, `steps` the
journal's, `cells` what the invariant objects remember. The contract and the
target's hooks are constants, so that a case is any target's. `setup` is the
world a case starts from: what it left in the ledger, the nonces of what it
authorised, and the authorization it left in force, which may be a mocked
credential not used or everything mocked. The actions of a case are any that
`preconditions` lets through, not only those the target would generate in the
state at hand: a candidate of the shrinker was drawn in another one.

**`Runtime`** holds what those methods compute: a call measured between two
snapshots, the limits in the order they are compared, the conversions of a
result (`into_step` and the `expect_*` methods), the two negative tests, the
saturating clock. **`Storage`** is `storage.rs`: snapshots, their restriction to
some contracts, their counts and differences. **`Host`** is external, the soroban
test host as `src/` uses it: an invocation in recording or enforcing mode, what
it leaves of the credentials, temporary entries that expire and are reclaimed
when a call touches them, and a nonce, one more temporary entry, for each
address an authorised call asked (`tests/third_party.rs:1312`), which snapshots
count like any other; when nonces expire, and whatever else the SDK keeps in the
ledger for an address with a mocked authorization, is left out.
**`TokenFuzz`** is `examples/token_fuzz.rs`, contract
and target, and one of the suites of `MCFuzzCase`; the others drive a contract
with an expiring allowance and an expiring counter, calls at and over a limit,
and a second contract not every target tracks.

**`AnalyzePaths`** is one call of `analyze_paths`. `counter` is the atomic
`next`, `outcomes` the mutex-protected vector; each thread claims an index,
checks the file and pushes. `"panicked"` is a thread whose detector panicked.
After the join the caller sorts by index and merges, or unwinds. **`Listing`** is
`walk.rs` and the sort and dedup at the top of `analyze_paths`: a tree of
entries (files, directories that can be read, are torn or are closed, links,
other things), the recursion of `walk_directory` with the order its problems
come in, and the two spellings of a root, a file that is named and a directory.
Paths are numbers in the order of `PathBuf`, of which `TreeAssumption` says what
the walk relies on.
**`AnalyzeOnce`** is the same answer in one step, without threads and without a
walk: a file is found when no directory above it is closed or skipped, and a
hole is a directory in reach that could not be read whole.

**`CheckFile`** is `Analyzer::check_file`: `d` is the detector at work, `e` the
entrypoint, `n` the node, and `sink` the two lists a finding can go to. A file is
a list of functions, each a list of nodes in the order the visitors meet them,
with where each ends, so that nesting is an interval within another; a
`for` range carries the bounds the code evaluates, a condition its two sides
where they are literals. **`Syntax`** holds the queries
of `syntax.rs` (which functions are entrypoints, what authorizes, the loops
around a node and their bounds, what is derived from storage), **`Detectors`** the
five visitors' own decisions, **`Suppress`** the markers and the lines and items
they reach, and **`Rules`** the loading of rules and their validation against
the registry that `build.rs` generates. A name is the sequence of its words, as
`segments` leaves it.

**`Wasm`** is `Module::parse` over a binary that is a sequence of imports,
declared functions, bodies and exports, with the index spaces as the code
builds them. **`Budget`** is `run` of `soroban-budget`, `estimate`, and the
recursion `walk` as a stack machine: `path` is the recursion's stack (the
code's `depth` is its length), `seen` the functions of the current entry,
`estimate` the row under construction. Row i is the one of the i-th function
exported, by its position, since names say nothing of it. **`CallTree`** is the
call graph and what can be said of it without walking it (chains of calls, what
is within reach, sums over the tree), **`BudgetTree`** the rows stated in those
terms, and **`BudgetExec`** an invocation of the module: frames, a program
counter in each, branches either way, loops that repeat; a trap is a run that
stops where it is. The engine is external; it is there to say what the number
is about.

**`Ordering`** is the sort of a finite set of integers, which the analyser
applies to paths and the module reader to the places of operators and exports.

**`Gate`** is the repository over time: findings come and go with its owner's
edits, a person or the action runs `soroban-analyze` in one of two checkouts,
a run may die at any point, and the baseline file carries what one run wrote to
the next. `phase` follows `main.rs`: `configure` (`resolve_config`), `analyse`,
`write` and `writing` (the file is created, then filled, so that a death in
between leaves it incomplete), `read`, `report`, then `ended` with an exit
status that `run-analysis.sh` translates into the job's. The script may also
end before an analyser is started (`NeverStarts`): it refuses an input, as after
a status of 2, or a file it redirects to cannot be opened, in which case the
shell makes the status 1 (`ShellStatus`). `baseline` is what the
file holds; `reviewed` is a history variable: the findings that were accepted
when the file was written. An analyser that is not found is to the script as one
that died. Left out of `Gate` are problems of the walk other than files that do
not parse, which the pool models.

## 4. Runs, bounds and fairness

| Run | Question | Bounds |
| --- | --- | --- |
| `FuzzRun_search` | Does a run stop at the first failure, replay what it names, count the actions of completed cases and no others, warn above the threshold and not below it, and end? | two actions, two initial states, sequences of up to two actions, two cases, two shrink iterations, every single fault and every combination of refusals |
| `FuzzRun_shrink` | Is the report about the minimal case? | one case, sequences of up to three actions, shrink budgets 0 and 3, every one or two faults |
| `FuzzCase_run` | Does a case see its own credentials only, tell a protected entrypoint, never pass a breach, account for its storage, and notice every loss? | cases of up to three actions, four suites of scripts with twelve targets, five configurations, a setup that left a credential unused or everything mocked and a nonce behind, ceilings of 5 ledgers, 17 seconds and 6 entries |
| `AnalyzePaths_pool` | Does the answer depend on the threads, or a hole go unsaid? | up to three threads, lists of paths into a tree of 21 entries, files unreadable or panicking |
| `CheckFile_run` | Are a file's findings those its rules are about, in the lists its markers say, nothing lost between two rules, and the estimate over the ceiling when the reads the turns of the loops make are? | three loops nested in every way, storage reads in headers and bodies, bounds up to 63, chains of three lets, every layout of comment lines above two methods of an `impl` |
| `Budget_rows` | Is a row what the call tree says? | three functions of up to two calls, four functions of one call, bodies of up to two (one function: three) operators, up to three exports, a depth guard of 2 |
| `BudgetExec_run` | Does an invocation stay below an exact row and below a gate? | the same binaries, eight executed instructions, four frames |
| `Gate_ratchet` | Does the gate fail exactly on what is new, across edits, runs and deaths? | two files, two rules, two lines, two checkouts, two edits, two runs |

The code's depth guard is 64. A guard of 2 with chains of four functions puts
the walk on both sides of the boundary, and the walk compares nothing but the
depth with the guard, so a larger value adds only longer chains. Three actions
are what it takes for a failure at a step with one before it and one after it,
where removing either end gives a different journal. Two cases are what it
takes for a failing case to follow a counted one, and for a replay to skip one
before and one after the case it names. With three threads and four files some
thread takes a second file while another is still in its first. Two runs are
what a baseline needs, one to write it and one to read it, and two edits allow
a finding to go and come back, or one to move while another comes. Three
actions of a case are what it takes to install a credential, lose it and miss
it, and for a counter to be written, to expire and to be read. The ceilings of
the clock are small and not each other's multiple, so that sequence and
timestamp saturate at different closes, as 2^32 - 1 and 2^64 - 1 do; the
footprint saturates just above its limit. In `CheckFile_run` 63, 6 and 2 stand
for 2^64 - 1, the ceiling of 200 reads and the window of twelve lines: each is
compared with and added to, never computed from, and the instance has counts,
bounds and distances on both sides of each. Eight
instructions and four frames exceed what an exact row of the instance can
claim, so the bound cannot hide an invocation that is over.

Fairness. `run`, `analyze_paths`' caller and the estimator are single threads
that call nothing which blocks: weak fairness of the next step says only that
the process is scheduled, and that a target's callbacks and a detector return or
panic. The pool has weak fairness for each thread and for the caller, since
`std::thread::scope` starts every thread and the operating system schedules each
of them; no action needs strong fairness, because a claim is one atomic
`fetch_add` that no other thread can take away. `Gate` assumes none: a run may
be killed, and a repository need never be analysed again. `FuzzCase`
and `CheckFile` state safety only. Every configuration but those of `CheckFile`,
whose end stutters, has `CHECK_DEADLOCK FALSE`, because a run of each of these
programs ends, and nothing follows.

### Where the code and what is said of it part

Four runs are each of one property, quoted from a comment or the
documentation, that the code does not have; TLC's trace shows how.

- `FuzzRun_journal`: `report.rs:110` says that after a run the journal holds the
  minimized failing case. When `max_shrink_iters` ends the search after a
  candidate that passed, it holds that candidate, and the report names the
  steps of a case other than `minimal`.
- `AnalyzePaths_panic`: `lib.rs:209` says that a detector's panic does not lose
  other files' work; `thread::scope` panics in turn and everything is lost. That
  a detector can panic is no idle case: `PanicsExactlyOnReversedRange` in
  `CheckFile_run` is about a `for` over a closed range written backwards
  (`syntax.rs:752`), which does, the release profile checking overflow too.
- `CheckFile_header`: `read_budget.rs:19` says that a read whose loops have no
  known count is reported by `unbounded_storage_loop` instead; that rule looks
  at the bodies of loops only (`unbounded_storage_loop.rs:75`), so a read in the
  header of such a loop is in no estimate and no finding. For reads in bodies
  the claim holds (`UncountedBodiesAreReported`).
- `Gate_green`: `README.md:136` says a run that could not run fails the step,
  whatever `fail-on-findings` says. The script passes it in two ways. When
  `$OUTPUT_FILE` or the file for stderr cannot be opened, bash starts no
  analyser and the status is 1 (`run-analysis.sh:65`), which is that of findings:
  with `FAIL_ON_FINDINGS=false` the step is green, without a report. That is
  TLC's trace, the shortest. And every status other than 1 and 2
  (`run-analysis.sh:73`), for example 101 after a panic, is passed whatever was
  asked; with `GreenStepHasNothingNew`, which holds of all other steps, these are
  the only two.

Others were met while reading and have no run of their own:

- an export that is the second name of a function is refused by `--entry`
  (soroban-budget `main.rs:203`), since `estimate` keeps one row per function
  (`estimate.rs:158`);
- the action's output `findings`, "at or above the gate" (`action.yml:52`),
  counts every finding that gates, whatever the severity
  (`run-analysis.sh:142`);
- the counts of a single-case run are said to be zero (`report.rs:238`), but
  candidates of the shrinker that pass are absorbed too (`runner.rs:163`);
  `OnlyCompletedCasesCount` is about the tally up to the first failing case, and
  that of a run that passed;
- the warning is documented as "at least this fraction" (`config.rs:81`), and a
  run at exactly the fraction does not warn (`runner.rs:269`);
  `WarningIsDeserved` says nothing of that point;
- a panic in `setup` comes before the journal is reset (`runner.rs:330`), so the
  report shows the steps of the case before, although it is "reset at the start
  of every case" (`report.rs:110`);
- two spellings of one file are two files (`lib.rs:181`, `lib.rs:184`) and its
  findings are reported twice;
- `failing_step` (`report.rs:282`) is the first step with a breach, even if the
  target ignored that breach and failed later; `FailingStepIsTheFailure` is
  stated for the cases in which no earlier breach was swallowed, and the
  instances have targets that swallow one;
- `estimate.rs:10` calls the result a lower bound; the bodies' instructions are
  added whole, both arms of a branch included (`estimate.rs:230`);
- `config.rs:144` says a configuration means the same however it is run; its
  relative paths are made absolute (`main.rs:390`), so a baseline written with
  them matches nothing in another checkout;
- a call is taken to delegate to a local function by its bare name
  (`missing_require_auth.rs:76`), so `client.transfer(..)` is excused by a local
  `transfer` that authorizes;
- a finding of the read budget is said to mean that the call cannot land, an
  over-estimate being possible for a `while` only (`read_budget.rs:21`, `:27`);
  the bound of each loop around a read is a factor of its cost (`:147`), also of
  a read in the header of a `for`, which is made once;
- a read in the body of `while i <= n` is made once more than it is counted, as
  is one in the header of any `while`, the bound of `while i > 0` is 0
  (`syntax.rs:759`), and a range that starts below zero or at no literal is
  counted from zero (`syntax.rs:745`): such loops are under-estimated;
- a product of bounds that overflows saturates even when a later factor is zero
  (`read_budget.rs:160`). `EstimateJudgesTheReads` counts by the turns of the
  loops, and leaves the reads of these three points out on the side on which the
  estimate is off;
- `authorize` and `call_without_auth` take `AuthPolicy::MockAll` out of force for
  the rest of the action (`config.rs:24`, `runtime.rs:372`);
- `expect_rejected` counts a call that went through with a result the caller
  cannot read as refused (`runtime.rs:187`);
- `StorageGrowthBounded` counts temporary entries that have expired and were not
  read since;
- in a directory any entry named `.rs` that is neither a directory nor a link is
  taken for a file (`walk.rs:98`).

## 5. Proofs

TLAPS checks the theorems of eight modules. Each invariant is proved from an
inductive one, the conjunction of named parts that `TypeOK` and the properties
follow from; TLC checks the same parts on the instances.

**`OrderingProof`** is what the others use of numbers and sorting. The library's
induction takes an operator the provers cannot instantiate, so induction is
stated over sets: a set of naturals that has 0 and successors is all of them
(`NatInducts`, from the least element of what is missing). `RecursionExists`
and `RecursionUnique` turn it into the equations of a recursive function, given
as a function of the previous value. `OrderedSorts` shows that the sorted
listing of a finite set is strictly increasing and has each element once. The
fold of `Functions`, a CHOOSE over all ways to add a function up, is shown to
exist for functions on finite sets (`FoldExists`, partial sums over the subsets
by their cardinality), so that a sum is what it should be: changing one number
changes it by the difference (`SumOfChanged`).

**`FuzzRunProof`**. `IInv` is `TypeOK`, `Progress` (how far `pos` may be in each
phase, and what exists then) and `Indexing` (until a case fails, the closure's
index is the number of cases drawn, less the one about to run). Without
`Progress`, `Act` could read past the sequence; without `Indexing`, a replay's
comparison of the index says nothing about which case of the stream it runs.
From it: `TypeCorrect` and `ReplayIsExact`. The assumptions are those on the
constants: what a target's callbacks may come to, that simplifying stays within
the actions and the initial states, that a program names finitely many kinds of
action, at least one, and that `None` is none of the values it stands beside.

**`FuzzSearchProof`** is about what the run's answer is worth. `SearchInv` says
of the case in flight that the journal holds the actions executed and nothing
went wrong in them (`InFlight`), of a case that failed that the journal names
its first fault (`Failed`), of the shrinker that the last failing case and the
candidate are reductions of the case drawn, and in a replay, which runs no
candidate, that the journal is still that of the failing case (`Shrunk`), and
of the cases drawn before that none fails (`Drawn`). With it every step of
`FuzzRun` maps to a step of `FuzzSearch` or a stutter (`RunImplementsSearch`);
that reductions compose is what a chain of shrinks needs. `JournalDescribes` and
`FailingStepIsRight` are about the step that reports, unless the iteration budget
ended the search on a candidate that passed, where the first is false
(`FuzzRun_journal`). `TallyInv` has the tally of the case equal to the actions
executed and the tally of the run to those of the cases over: sums over cases
are cardinalities of sets of pairs, so that no induction over a sequence is
needed. From it `EveryActionCounted` and `WarningDeserved`, which says nothing at
the threshold itself.

**`AnalyzePathsProof`**. `IInv` is `TypeOK`, `EachFileClaimedOnce`,
`EveryFileIsReached` and `Stages` (which phases have threads, a list, an
answer). For any number of threads and files, each index below the counter is
with exactly one thread or in exactly one outcome, and the merge starts only
after the counter has passed the last file.

`RequestFinds` is about the walk, for every tree. `AnalyzeOnce` says what is
open from a directory by looking up from an entry (`Above`, `Open`), the code
walks down; both are recursive functions, and that each has its equations is
proved from the least and the greatest name (`AboveIs`, `WalkedIs`). What is
open from a directory is itself and what is open from those entered from it
(`OpenFromBelow`): the way up passes through exactly one of its entries
(`AboveIsALine`). That the walk's problems come out in order, without a sort,
rests on the order of `PathBuf`, which keeps what is below a directory together
(`TreeAssumption`): everything open from one entry comes before everything open
from the next (`OpenIsTogether`), so that lists in order, put in a row, are in
order (`OrdersFlatten`).

`PoolImplementsOnce` is the refinement: the answer is that of one pass, for any
tree, threads and order of pushing. Besides `IInv` it takes `AnswerSoFar`: the
names are the request's, every outcome is its file's and no panic, a thread that
panicked did so on its file, and the merge finds no thread at work. Then each
index is in one outcome, so the rank the sort gives an outcome is its index
(`RankIsIndex`, `SortRestores`), and what is merged of a kind is the files of
that kind in order (`MergedInOrder`). Every step but the last is a stutter.

**`BudgetProof`** has three layers, each with an inductive invariant over the one
before. What `Parse` returns is proved to be a module with typed facts from the
type of a binary (`BinariesAssumption`).

`IInv` is about flags: `path` is a chain without repetition within the guard,
`seen` are defined functions and hold the path, calls read so far have been
followed, and a row's flags record every loop, indirect call, cycle and cut met
so far. The last makes a row that ends without a flag closed:
`ExactRowsAreClosed`.

`TreeInv` is about what a row says of the call tree. For each call a frame has
finished, all that chains of calls get to from there, avoiding the frames
above, is in `seen`, and unless recursion is flagged the chains end within the
guard (`Settled`, `Thorough`). A function cut as a repetition is covered by the
frame it repeats: any chain through it can be cut at the last occurrence of a
function of the path. Unless recursion is flagged the count is what each frame
has come to, itself and the trees of its finished calls (`Spent`); a cycle, on
the other hand, has chains of every length, so a flag is deserved. `RowsSoFar`
keeps the rows to the first exports of their functions. From it:
`ReasonsComplete`, `ExactRowsAreTreeSums`, `FunctionsCountOnce`.

`ExecInv` is about an invocation. What was executed, with what every frame has
still to do, each operator left counted once and each call left as its tree, is
no more than the tree of the function invoked (`RunIsBounded`). A function
without a reason has neither loops nor indirect calls in reach, so a frame's
counter only rises and a frame entered is a call in the tree one level down;
the depth of the frames is within the guard since chains are. `ZeroIsEarned`
ties exit status 0 to both gates. From it: `ExactRowsBoundRuns` and
`GatedModulesStayUnder`, which say of every binary, whatever its data decides,
that the number printed bounds what runs. `MaxExecuted` and `MaxFrames`, which
keep TLC's runs short, are arbitrary in the proof.

**`GateProof`**. `IInv` is `TypeOK`, `FileIsTheReviewed` (a complete file holds
what was reviewed), `ExcusesAreTheFile` (what a run has read is what the file
held), `Stages`, `ReportIsTheRuns` (the report is of the findings this run
analysed) and `JobFollowsStatus`. The second and the third connect two runs:
the promise about a run is over what an earlier one wrote, and holds through
deaths between creating the file and filling it. From them: `RatchetHolds`,
`FindingsAreAccountedFor`, `StaleEntriesAreGone`, `GreenMeansNothingNew`. The last
is about steps whose script refused an input or could not redirect too: one that
is to fail on findings has come to a report when it is green, one that is not has
if its analyser was started.

**`FuzzCaseProof`**. `Sane` (the host is one, its clock within its ceilings, what
is left of a script is operations of the target) gives `ClockForward` and, with
lemmas on the comparison of limits, `BreachNeverPassed`: a sum that saturates
still exceeds its limit because no limit is as large as what it saturates to
(`LimitAssumption`), one limit of several is named because a least place exists
among eight, and none of the conversions makes a success of it. `AuthOK` adds,
while an action runs, that what is left of its script is the script's tail and
that whatever the host would grant has its cause in the part already done: a
credential installed and not used by a call since, or a recording call and no
reset since. Whatever `setup` left in force is gone by then, the worlds of the
theorem being any. It is what `AuthorizationStays` needs at each call, and it is
inductive because the policy re-applied before each action leaves no credential
and each operation either keeps a cause one operation longer, is itself the
cause, or takes the grant away.
`Accounted` says that the records of the step in flight balance
call by call and that the last of them holds what the host holds; a note or a
closed ledger carries it on because neither touches the ledger, and a measured
call because its difference balances (`DiffBalances`, summed over the
durabilities). It gives `RecordsAlwaysAccount`. `TypeInv` splits
`TypeOK` by what a step touches (host, journal, failure, control, checker), and
adds that while an action runs there is a step in flight and no panic in its
outcome: `TypeCorrect`. Three facts about the contract are hypotheses of these
theorems, since no instance could enumerate what every contract does: it writes
finitely many entries (`FiniteWrites`), to known keys (`KnownWrites`), and what
it is metered at is a number and a refused call no success (`SoundContract`, for
`NegativeTestsExact`).

`Guarded` is about the read-only guard. In a case whose invariants write nothing
but the value an entry already has, remove nothing but temporary entries, and ask
no tracked address for an authorization, which would leave a nonce, the tracked
storage is, while they are gone through, what it was before the first of them,
but for temporary entries the host reclaimed; and that is all the guard lets pass
(`ReadOnlyIsReclaimed`). So it blames no such case, and where it does blame one,
some invariant can reach a call that changes the storage (`GuardBlamesAWriter`,
whatever the contract). `ReadOnlyGuardIsExact` asks more, that an invariant the
guard let pass has nothing left to change; as what a call writes may depend on
the storage, and so on the invariants that ran before it, that is a matter of
the contract, and is model-checked, for targets whose invariants write.

What a check leaves: with the storage before the first invariant in `before`,
and kinds and keys known (`KnownKinds`, `KnownWrites`), a check that passed took
nothing but temporary entries (`Untouched`), whatever the invariants did in
between: `ChecksLeaveStorage`. `Passing` says of the invariants gone through so
far that each holds of the host as it stands, though later ones ran after it,
provided they look through getters (`Getters`); with what their objects remember
that is `PassedChecksAlwaysHold`.

`TokenInv` is of one target, the example's. Between actions the token is what
the model says, balances, supply and admin (`Stands`). The model runs ahead: it
is stepped before the action, so while a script runs the invariant names the
balances the action began with, and the token stands at those until its call has
gone through and at the model's after it (`Fresh`, `Authorized`, `Done`). That
the call goes through needs the grant `authorize` installed to be still there,
and that it leaves the token at the model's is `TokenInStep`: a transfer to
oneself reads the receiver's balance after the sender's is written, and the
supply, a sum over all actors, moves by what one balance moves (`SumOfChanged`).
A transfer of more than the sender holds (`Overdraws`) is refused: the target
does not generate one, but states no precondition against it, so a candidate of
the shrinker may hold one. From it `PlantedBugAlwaysFound`: for any number of
actors, amounts and policy a case fails exactly at `set_fee`, which the token
leaves unprotected, or at such a transfer (`Condemned`), and nothing else fails
it, the bound on the entries and the read-only guard included. Each action
leaves a nonce at most (`NoncesOfSteps`). The hypotheses are the contract of
`TokenFuzz`, metered below every limit (`TokenContract`), and its target,
deployed alone with nothing authorised yet, under a bound on the entries that
leaves room for each actor, the three of the instance and a nonce for each
action (`TokenTarget`; the example has three actors, twelve actions and a bound
of 64); the constants are as `TokenAssumption` says, which TLC evaluates in
`FuzzCase_run`.

Some of its theorems have no behaviour, only ledgers and snapshots: the counts
of two snapshots balance with their difference (`DiffBalances`), a difference
is empty exactly between equal snapshots (`EmptyDiffIsEquality`), restricting
afterwards is restricting at once (`ScopedIsCaptureScoped`), and
`ReadOnlyIsReclaimed` and `TokenInStep`, of one call of the token.

**`CheckFileProof`**. `WalkInv` says of the detector at work that each range it
keeps is a reported finding, that every loop of unknown count already passed
whose body touches storage lies inside a reported one, and that no range
written backwards has been passed; a panic has such a range to blame. The second
part is what lets the detector skip the loops inside one it has reported. From
it: `TypeCorrect`, `UncountedBodiesAreInReportedLoops`, `PanicsAreReversedRanges`.

`ExactInv` says that the places found so far are the places due so far: all
those of the detectors behind, those of the entrypoints behind and those of the
nodes passed, with the ranges kept being those of the outermost of them. A
detector skips a node by looking at its ranges only; that this leaves exactly
the outermost rests on nodes being nested (`ContainedIsInner`). That a marker
decides where a finding goes is `SuppressedIsExcused`: lines from the top and
lines upwards from an item, each cut off by the first line that is no comment,
are what `Excused` says without either search. That the names found by
`storage_derived_bindings` are those a storage read leads to is `DerivedIsHeld`:
it takes as many rounds as there are lets, and a round that changes anything
takes in all the names of a let that was not taken in whole before, so that the
last round leaves nothing to find (`RoundsClose`); and nothing is taken in that
a closed set could do without (`RoundsAreNeeded`). Together:
`FindingsAreWhatIsThere`.

`CountInv` is about the estimate against the number of reads made, counted by the
turns of the loops: in a body once for each value of the counter from its start,
or zero, to the literal it ends at, in the header of a `for` once, in that of a
`while` once more than in its body, when no branch or break is in the way. Node
by node the estimate is no less than the reads made among those counted in full
(`FullReads`: in bodies, of loops that leave out their end or are ranges) unless
it stands at its limit, and no more than those among the ones not counted too
often (`FairReads`: in no header of a `for`, in no loop that counts down or never
runs) if there were no others; the sink and the result judge the entrypoints
behind accordingly. That the bound the code takes is the number of turns, or on
which side of it, is `TurnsAreCounted` and `TimesAreCounted`. A read costs the
product of its loops' bounds or, from an overflow on, the limit (`CostIsFair`): a
product that has overflown stays above the limit as it is multiplied on, unless
by zero (`ProductsGrow`). As the ceiling is below the limit, a saturated estimate
is over it: `ReadsAreJudged`.

`FilesAssumption` is what every parsed file has: lists have lengths, literals
are numbers within the width, the body of a range between two literals begins at
once, the nodes inside a node end inside it, and the line a finding is
reported on has code on it or above it, as a line with an expression has. The
model's files are checked against it.

Only model-checked are: `Terminates` of the run, of the pool and of the walk,
liveness, which is out of the prover's reach; `ReadOnlyGuardIsExact`, for the
reason given; and `PassedCaseLostNothing` of `MCFuzzCase`, which
names the numbers of the run's contracts, the supply deployed and the
collections counted. What of it holds of every contract is
`PassedChecksAlwaysHold`; for the token's balances, `PlantedBugAlwaysFound`.

## 6. Not modelled, and why

- Rendering (text, JSON, SARIF, tables) in all three crates, and the parsing of
  arguments: they read a state and change none; a command line is the choice of
  a request.
- The splitting of names into words (`segments` in `syntax.rs`), the spelling of
  a marker and the text of a rule: a name is its words, a marker what it asks
  for, a rule what it is accepted or refused for. Doc comments and attributes
  belong to the span of an item, so a marker below them is not above the item;
  the model's items begin where syn's do.
- The numbers of the default limits, and the loading of a fuzzer's configuration
  from the environment.
- `panic_output` in `runner.rs`: one process-wide hook of the standard library
  behind a thread-local depth. It decides whether the message of a panic reaches
  the console; no report, count or exit status reads it.
- What a panic in `setup` should leave in a report: the order is modelled
  (`FuzzRun`), the code states no promise about it.
- One file under two names: a path is its name in the model.
- `arbitrary_bridge.rs`, `prelude.rs`: a bridge between two libraries' random
  generators and a list of names.
- `scripts/check-docs.py` and the vendored example contract: no part of the
  tools.
