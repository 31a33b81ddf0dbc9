---------------------------- MODULE AnalyzePaths ----------------------------
(***************************************************************************)
(* analyze_paths in soroban-analyzer/src/lib.rs: the walk over the named   *)
(* paths, the pool of scoped threads that claim files from an atomic       *)
(* counter and push what they found under a mutex, the join, and the merge *)
(* that restores the order of the files.                                   *)
(*                                                                         *)
(* Reading, parsing and checking a file depends on the file alone: it is   *)
(* analysed, unreadable, or a detector panics on it.                       *)
(* The findings of a file are the file's name; suppressed findings are     *)
(* merged exactly as findings are.                                         *)
(***************************************************************************)
EXTENDS Listing

CONSTANTS
  Analysis(_),   \* what reading and checking the named file comes to
  MaxJobs,       \* the largest number of threads asked for
  Requests,      \* the calls explored: [paths, jobs]
  None

Results == {"analysed", "unreadable", "panics"}

ASSUME AnalysisAssumption == \A name \in Names : Analysis(name) \in Results

ASSUME RequestsAssumption ==
  \A r \in Requests : r.jobs \in 0..MaxJobs /\ r.paths \in Seq(Int)

ASSUME MaxJobsAssumption == MaxJobs \in Nat \ {0}

VARIABLES
  request,    \* the arguments of the call
  phase,      \* where the calling thread is
  files,      \* the names to analyse, sorted and without duplicates
  problems,   \* what could not be read
  next,       \* the counter the threads claim indexes from
  pc,         \* where each thread is
  claimed,    \* the index each thread works on
  outcomes,   \* (index, outcome) pairs in the order they were pushed
  result      \* what the call returns, None before that

vars == <<request, phase, files, problems, next, pc, claimed, outcomes, result>>

Phases == {"walk", "join", "scan", "merge", "returned", "unwound"}

PoolStates == {"idle", "claim", "analyse", "push", "done", "panicked"}

\* As many threads as asked for, but no more than files, and at least one.
Clamp(n, low, high) == IF n < low THEN low ELSE IF n > high THEN high ELSE n

Jobs(asked, n) == Clamp(asked, 1, IF n > 1 THEN n ELSE 1)

Threads == 1..MaxJobs

-----------------------------------------------------------------------------

Init ==
  /\ request \in Requests
  /\ phase = "walk"
  /\ files = <<>>
  /\ problems = <<>>
  /\ next = 1
  /\ pc = [w \in Threads |-> "idle"]
  /\ claimed = [w \in Threads |-> 0]
  /\ outcomes = <<>>
  /\ result = None

\* The walk, the sort and the dedup (Ordered), then the threads or a loop.
Walk ==
  /\ phase = "walk"
  /\ files' = Ordered(FoundBy(request.paths))
  /\ problems' = SkippedBy(request.paths)
  /\ LET jobs == Jobs(request.jobs, Len(files'))
     IN  /\ phase' = IF jobs > 1 THEN "join" ELSE "scan"
         /\ pc' = [w \in Threads |->
                     IF jobs > 1 /\ w <= jobs THEN "claim" ELSE "idle"]
  /\ UNCHANGED <<request, next, claimed, outcomes, result>>

\* Mutation: the index is off by one.
OutcomeCountedFromZero(i) == [index |-> i - 1, kind |-> Analysis(files[i])]

Outcome(i) == [index |-> i, kind |-> Analysis(files[i])]

-----------------------------------------------------------------------------
(* A thread of the pool *)

\* Mutation: the counter is read, not moved on.
Load == UNCHANGED next

FetchAdd == next' = next + 1

\* Mutation: the last file is left out.
StopsBeforeLast(i) == i >= Len(files)

PastTheEnd(i) == i > Len(files)

\* Reading the counter and moving it on is one step.
Claim(w) ==
  /\ phase = "join"
  /\ pc[w] = "claim"
  /\ FetchAdd
  /\ claimed' = [claimed EXCEPT ![w] = next]
  /\ pc' = [pc EXCEPT ![w] = IF PastTheEnd(next) THEN "done" ELSE "analyse"]
  /\ UNCHANGED <<request, phase, files, problems, outcomes, result>>

\* No lock is held while a file is checked, so a panic poisons nothing.
Analyse(w) ==
  /\ phase = "join"
  /\ pc[w] = "analyse"
  /\ pc' = [pc EXCEPT ![w] = IF Analysis(files[claimed[w]]) = "panics"
                             THEN "panicked" ELSE "push"]
  /\ UNCHANGED <<request, phase, files, problems, next, claimed, outcomes,
                 result>>

Push(w) ==
  /\ phase = "join"
  /\ pc[w] = "push"
  /\ outcomes' = Append(outcomes, Outcome(claimed[w]))
  /\ pc' = [pc EXCEPT ![w] = "claim"]
  /\ UNCHANGED <<request, phase, files, problems, next, claimed, result>>

-----------------------------------------------------------------------------
(* The calling thread *)

\* Mutation: a thread that panicked is waited for.
ReturnedNormally(w) == pc[w] \in {"idle", "done"}

Finished(w) == pc[w] \in {"idle", "done", "panicked"}

\* thread::scope waits for every thread and panics if one of them did.
Join ==
  /\ phase = "join"
  /\ \A w \in Threads : Finished(w)
  /\ IF \E w \in Threads : pc[w] = "panicked"
     THEN phase' = "unwound" /\ result' = [kind |-> "panicked"]
     ELSE phase' = "merge" /\ UNCHANGED result
  /\ UNCHANGED <<request, files, problems, next, pc, claimed, outcomes>>

\* With one thread the caller does the work itself, and unwinds itself.
Scan ==
  /\ phase = "scan"
  /\ IF PastTheEnd(next)
     THEN /\ phase' = "merge"
          /\ UNCHANGED <<next, outcomes, result>>
     ELSE IF Analysis(files[next]) = "panics"
     THEN /\ phase' = "unwound"
          /\ result' = [kind |-> "panicked"]
          /\ UNCHANGED <<next, outcomes>>
     ELSE /\ outcomes' = Append(outcomes, Outcome(next))
          /\ next' = next + 1
          /\ UNCHANGED <<phase, result>>
  /\ UNCHANGED <<request, files, problems, pc, claimed>>

\* Mutation: the outcomes stay in the order of arrival.
Unsorted(s) == s

\* sort_by_key on the index: stable, so equal keys would keep their order.
SortByIndex(s) ==
  LET Before(k, l) == s[k].index < s[l].index \/ (s[k].index = s[l].index /\ k < l)
      Rank(l)      == 1 + Cardinality({k \in 1..Len(s) : Before(k, l)})
  IN  [r \in 1..Len(s) |-> s[CHOOSE l \in 1..Len(s) : Rank(l) = r]]

\* The files of the sorted outcomes of one kind, in order.
MergedAs(s, kind) ==
  LET kept == Ordered({i \in 1..Len(s) : s[i].kind = kind})
  IN  [i \in 1..Len(kept) |-> files[s[kept[i]].index]]

Merge ==
  /\ phase = "merge"
  /\ LET sorted == SortByIndex(outcomes)
     IN  result' = [kind     |-> "merged",
                    findings |-> MergedAs(sorted, "analysed"),
                    problems |-> problems \o MergedAs(sorted, "unreadable")]
  /\ phase' = "returned"
  /\ UNCHANGED <<request, files, problems, next, pc, claimed, outcomes>>

Next ==
  \/ Walk \/ Join \/ Scan \/ Merge
  \/ \E w \in Threads : Claim(w) \/ Analyse(w) \/ Push(w)

Spec == Init /\ [][Next]_vars

\* Every thread the operating system was given runs on, and so does the
\* caller once the threads it waits for have ended.
FairSpec ==
  /\ Spec
  /\ WF_vars(Walk) /\ WF_vars(Join) /\ WF_vars(Scan) /\ WF_vars(Merge)
  /\ \A w \in Threads : WF_vars(Claim(w) \/ Analyse(w) \/ Push(w))

-----------------------------------------------------------------------------

Once == INSTANCE AnalyzeOnce WITH answer <- result

TypeOK ==
  /\ request \in Requests
  /\ phase \in Phases
  /\ files \in Seq(Names)
  /\ next \in Nat \ {0}
  /\ pc \in [Threads -> PoolStates]
  /\ claimed \in [Threads -> Nat]
  /\ outcomes \in Seq([index : 1..Len(files), kind : Results])
  /\ result = None \/ result.kind \in {"merged", "panicked"}

\* The indexes a thread holds, has pushed, or took down with it.
Held(w) == IF pc[w] \in {"analyse", "push", "panicked"} THEN {claimed[w]} ELSE {}

Pushed == {outcomes[k].index : k \in 1..Len(outcomes)}

\* Every index that was claimed is with exactly one thread or in exactly one
\* pushed outcome (the fetch_add and the push in analyze_paths): no file is
\* checked twice, and none is lost between the counter and the results.
EachFileClaimedOnce ==
  /\ \A v, w \in Threads : v # w => Held(v) \cap Held(w) = {}
  /\ \A w \in Threads : Held(w) \cap Pushed = {}
  /\ \A k, l \in 1..Len(outcomes) :
       outcomes[k].index = outcomes[l].index => k = l
  /\ \A i \in 1..Len(files) :
       i < next <=> i \in Pushed \/ \E w \in Threads : i \in Held(w)

\* The answer is the one a single pass would give, whatever the number of
\* threads and the order in which they push ("the same bytes whether jobs is
\* 1 or 64", lib.rs).
ImplementsOnce == Once!Spec

\* "A detector that panicked on one file must not also lose every other
\* file's work" (lib.rs, analyze_paths).
PanicKeepsOtherFindings ==
  result # None =>
    \A k \in 1..Len(outcomes) :
      outcomes[k].kind = "analysed" =>
        /\ result.kind = "merged"
        /\ \E i \in 1..Len(result.findings) :
             result.findings[i] = files[outcomes[k].index]

\* A thread that panics takes its own file down, not the pool's: the others
\* go on until the counter is past the last file, unless all have panicked.
EveryFileIsReached ==
  /\ phase \in {"merge", "returned"} => next > Len(files)
  /\ phase = "unwound" =>
       \/ next > Len(files)
       \/ \A w \in Threads : pc[w] \in {"idle", "panicked"}

\* What TypeOK, EachFileClaimedOnce and EveryFileIsReached need to be
\* inductive: a thread works on a file there is, nothing is claimed before
\* the walk, only a pool has threads, and a thread stops at the end only.
Stages ==
  /\ \A w \in Threads : Held(w) \subseteq 1..Len(files)
  /\ \A w \in Threads : pc[w] = "done" => next > Len(files)
  /\ phase = "walk" => next = 1 /\ outcomes = <<>> /\ files = <<>>
  /\ phase \in {"walk", "scan"} => \A w \in Threads : pc[w] = "idle"
  /\ phase = "join" => \E w \in Threads : pc[w] # "idle"

IInv == TypeOK /\ EachFileClaimedOnce /\ EveryFileIsReached /\ Stages

\* What ImplementsOnce needs besides: the names are those of the request, each
\* outcome is its file's, a thread that panicked did so on its file, and the
\* merge finds no thread at work.
AnswerSoFar ==
  /\ phase # "walk" => /\ files = Ordered(FoundBy(request.paths))
                       /\ problems = SkippedBy(request.paths)
  /\ \A k \in 1..Len(outcomes) :
       /\ outcomes[k].kind = Analysis(files[outcomes[k].index])
       /\ outcomes[k].kind # "panics"
  /\ \A w \in Threads :
       /\ pc[w] = "push" => Analysis(files[claimed[w]]) # "panics"
       /\ pc[w] = "panicked" => Analysis(files[claimed[w]]) = "panics"
  /\ phase = "merge" => \A w \in Threads : Held(w) = {}
  /\ phase \notin {"returned", "unwound"} => result = None

\* The call returns or unwinds: no thread waits for another but the caller.
Terminates == <>(result # None)
=============================================================================
