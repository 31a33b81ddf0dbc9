---------------------------- MODULE FuzzRunProof ----------------------------
(***************************************************************************)
(* Proofs about FuzzRun for any target, any set of configurations and any  *)
(* shrinker: its types, and that a replay executes nothing but the case it *)
(* names.                                                                  *)
(***************************************************************************)
EXTENDS FuzzRun, OrderingProof

-----------------------------------------------------------------------------
(* Cases *)

LEMMA CaseFields ==
  ASSUME NEW case \in CaseSpace
  PROVE  /\ case.initial \in Initials
         /\ case.actions \in Seq(Actions)
         /\ Len(case.actions) \in 0..MaxActions
         /\ case = [initial |-> case.initial, actions |-> case.actions]
BY MaxActionsAssumption DEF CaseSpace, ActionSeqs

LEMMA ShortSequence ==
  ASSUME NEW seq \in Seq(Actions), Len(seq) <= MaxActions
  PROVE  seq \in ActionSeqs
<1>1. Len(seq) \in 0..MaxActions /\ seq \in [1..Len(seq) -> Actions]
  BY MaxActionsAssumption
<1>2. QED
  BY <1>1 DEF ActionSeqs

\* A case cut short is a case.
LEMMA UptoIsACase ==
  ASSUME NEW case \in CaseSpace, NEW k \in 0..Len(case.actions)
  PROVE  Upto(case, k) \in CaseSpace /\ Len(Upto(case, k).actions) = k
<1>1. /\ case.initial \in Initials
      /\ case.actions \in Seq(Actions)
      /\ Len(case.actions) \in 0..MaxActions
      /\ case = [initial |-> case.initial, actions |-> case.actions]
  BY CaseFields
<1>2. /\ SubSeq(case.actions, 1, k) \in Seq(Actions)
      /\ Len(SubSeq(case.actions, 1, k)) = k
  BY <1>1
<1>3. SubSeq(case.actions, 1, k) \in ActionSeqs
  <2>1. k <= MaxActions
    BY <1>1, MaxActionsAssumption
  <2>2. QED
    BY <1>2, <2>1, ShortSequence
<1>4. Upto(case, k) = [initial |-> case.initial,
                       actions |-> SubSeq(case.actions, 1, k)]
  <2>1. \A f : [case EXCEPT !.actions = f] = [initial |-> case.initial, actions |-> f]
    BY DEF CaseSpace
  <2>2. Upto(case, k) = [case EXCEPT !.actions = SubSeq(case.actions, 1, k)]
    BY Zenon DEF Upto
  <2>3. QED
    BY <2>1, <2>2
<1>5. QED
  BY <1>1, <1>2, <1>3, <1>4 DEF CaseSpace

\* So is a case with an action removed.
LEMMA DeletionsAreCases ==
  ASSUME NEW case \in CaseSpace
  PROVE  Deletions(case) \subseteq CaseSpace
<1>1. /\ case.initial \in Initials
      /\ case.actions \in Seq(Actions)
      /\ Len(case.actions) \in 0..MaxActions
      /\ case = [initial |-> case.initial, actions |-> case.actions]
  BY CaseFields
<1>2. ASSUME NEW i \in 1..Len(case.actions)
      PROVE  [case EXCEPT !.actions = Without(@, i)] \in CaseSpace
  <2>1. /\ Without(case.actions, i) \in Seq(Actions)
        /\ Len(Without(case.actions, i)) = Len(case.actions) - 1
    BY <1>1 DEF Without
  <2>2. Without(case.actions, i) \in ActionSeqs
    BY <1>1, <2>1, ShortSequence, MaxActionsAssumption
  <2>3. [case EXCEPT !.actions = Without(@, i)]
          = [initial |-> case.initial, actions |-> Without(case.actions, i)]
    BY <1>1
  <2>4. QED
    BY <1>1, <2>2, <2>3 DEF CaseSpace
<1>3. QED
  BY <1>2 DEF Deletions

\* And a case with something replaced by a simpler one.
LEMMA ReplacementsAreCases ==
  ASSUME NEW case \in CaseSpace
  PROVE  Replacements(case) \subseteq CaseSpace
<1>1. /\ case.initial \in Initials
      /\ case.actions \in Seq(Actions)
      /\ Len(case.actions) \in 0..MaxActions
      /\ case = [initial |-> case.initial, actions |-> case.actions]
  BY CaseFields
<1>2. ASSUME NEW x \in Simpler(case.initial)
      PROVE  [case EXCEPT !.initial = x] \in CaseSpace
  <2>1. x \in Initials /\ case.actions \in ActionSeqs
    BY <1>1, SimplerAssumption DEF CaseSpace
  <2>2. [case EXCEPT !.initial = x] = [initial |-> x, actions |-> case.actions]
    BY <1>1
  <2>3. QED
    BY <2>1, <2>2 DEF CaseSpace
<1>3. ASSUME NEW i \in 1..Len(case.actions), NEW x \in Simpler(case.actions[i])
      PROVE  [case EXCEPT !.actions[i] = x] \in CaseSpace
  <2>1. x \in Actions
    BY <1>1, SimplerAssumption
  <2>2. /\ [case.actions EXCEPT ![i] = x] \in Seq(Actions)
        /\ Len([case.actions EXCEPT ![i] = x]) = Len(case.actions)
    BY <1>1, <2>1
  <2>3. [case.actions EXCEPT ![i] = x] \in ActionSeqs
    BY <1>1, <2>2, ShortSequence
  <2>4. [case EXCEPT !.actions[i] = x]
          = [initial |-> case.initial, actions |-> [case.actions EXCEPT ![i] = x]]
    <3>1. PICK initial, actions : case = [initial |-> initial, actions |-> actions]
      BY <1>1
    <3>2. QED
      BY <3>1
  <2>5. QED
    BY <1>1, <2>3, <2>4 DEF CaseSpace
<1>4. ASSUME NEW c \in Replacements(case)
      PROVE  c \in CaseSpace
  <2>1. CASE c \in {[case EXCEPT !.initial = x] : x \in Simpler(case.initial)}
    BY <1>2, <2>1
  <2>2. CASE \E i \in 1..Len(case.actions) :
               c \in {[case EXCEPT !.actions[i] = x] : x \in Simpler(case.actions[i])}
    BY <1>3, <2>2
  <2>3. QED
    BY <1>4, <2>1, <2>2 DEF Replacements
<1>5. QED
  BY <1>4

-----------------------------------------------------------------------------
(* The journal *)

LEMMA JournalFields ==
  ASSUME NEW j \in Journals(Actions)
  PROVE  /\ j.steps \in Seq(StepRecords(Actions))
         /\ j.failure \in FailureNotes \cup {None}
         /\ j = [steps |-> j.steps, failure |-> j.failure]
BY DEF Journals

LEMMA BeginStepType ==
  ASSUME NEW j \in Journals(Actions), NEW i \in Nat, NEW action \in Actions
  PROVE  BeginStep(j, i, action) \in Journals(Actions)
         /\ BeginStep(j, i, action).steps # <<>>
<1> DEFINE step == [index |-> i, action |-> action, outcome |-> "pending",
                    breach |-> FALSE]
<1>1. /\ j.steps \in Seq(StepRecords(Actions))
      /\ j.failure \in FailureNotes \cup {None}
      /\ j = [steps |-> j.steps, failure |-> j.failure]
  BY JournalFields
<1>2. step \in StepRecords(Actions)
  BY DEF StepRecords, Outcomes
<1>3. BeginStep(j, i, action) = [steps |-> Append(j.steps, step), failure |-> j.failure]
  BY DEF BeginStep, Journals
<1> HIDE DEF step
<1>4. Append(j.steps, step) \in Seq(StepRecords(Actions)) /\ Append(j.steps, step) # <<>>
  BY <1>1, <1>2
<1>5. QED
  BY <1>1, <1>3, <1>4 DEF Journals

LEMMA LastStepType ==
  ASSUME NEW steps \in Seq(StepRecords(Actions)), steps # <<>>,
         NEW step \in StepRecords(Actions)
  PROVE  /\ Len(steps) \in 1..Len(steps)
         /\ steps[Len(steps)] \in StepRecords(Actions)
         /\ [steps EXCEPT ![Len(steps)] = step] \in Seq(StepRecords(Actions))
         /\ [steps EXCEPT ![Len(steps)] = step] # <<>>
<1>1. Len(steps) \in 1..Len(steps)
  OBVIOUS
<1>2. /\ [steps EXCEPT ![Len(steps)] = step] \in Seq(StepRecords(Actions))
      /\ Len([steps EXCEPT ![Len(steps)] = step]) = Len(steps)
  BY <1>1
<1>3. QED
  BY <1>1, <1>2

LEMMA FinishStepType ==
  ASSUME NEW j \in Journals(Actions), NEW outcome_ \in Outcomes
  PROVE  FinishStep(j, outcome_) \in Journals(Actions)
<1>1. /\ j.steps \in Seq(StepRecords(Actions))
      /\ j.failure \in FailureNotes \cup {None}
      /\ j = [steps |-> j.steps, failure |-> j.failure]
  BY JournalFields
<1>2. CASE j.steps = <<>>
  BY <1>2 DEF FinishStep
<1>3. CASE j.steps # <<>>
  <2> DEFINE last == j.steps[Len(j.steps)]
             step == [last EXCEPT !.outcome = outcome_]
  <2>1. last \in StepRecords(Actions)
    BY <1>1, <1>3
  <2>2. step \in StepRecords(Actions)
    BY <2>1 DEF StepRecords
  <2>3. FinishStep(j, outcome_)
          = [steps |-> [j.steps EXCEPT ![Len(j.steps)] = step], failure |-> j.failure]
    BY <1>1, <1>3 DEF FinishStep
  <2> HIDE DEF step
  <2>4. [j.steps EXCEPT ![Len(j.steps)] = step] \in Seq(StepRecords(Actions))
    BY <1>1, <1>3, <2>2, LastStepType
  <2>5. QED
    BY <1>1, <2>3, <2>4 DEF Journals
<1>4. QED
  BY <1>2, <1>3

LEMMA PushCallType ==
  ASSUME NEW j \in Journals(Actions), j.steps # <<>>, NEW breach \in BOOLEAN
  PROVE  PushCall(j, breach) \in Journals(Actions)
<1>1. /\ j.steps \in Seq(StepRecords(Actions))
      /\ j.failure \in FailureNotes \cup {None}
      /\ j = [steps |-> j.steps, failure |-> j.failure]
  BY JournalFields
<1> DEFINE last == j.steps[Len(j.steps)]
           step == [last EXCEPT !.breach = @ \/ breach]
<1>2. last \in StepRecords(Actions)
  BY <1>1
<1>3. (last.breach \/ breach) \in BOOLEAN
  OBVIOUS
<1>4. step \in StepRecords(Actions)
  BY <1>2, <1>3 DEF StepRecords
<1>5. PushCall(j, breach)
        = [steps |-> [j.steps EXCEPT ![Len(j.steps)] = step], failure |-> j.failure]
  BY <1>1 DEF PushCall
<1> HIDE DEF step
<1>6. [j.steps EXCEPT ![Len(j.steps)] = step] \in Seq(StepRecords(Actions))
  BY <1>1, <1>4, LastStepType
<1>7. QED
  BY <1>1, <1>5, <1>6 DEF Journals

LEMMA FailType ==
  ASSUME NEW j \in Journals(Actions), NEW kind \in Kinds
  PROVE  Fail(j, kind) \in Journals(Actions)
<1>1. /\ j.steps \in Seq(StepRecords(Actions))
      /\ j.failure \in FailureNotes \cup {None}
      /\ j = [steps |-> j.steps, failure |-> j.failure]
  BY JournalFields
<1>2. LastIndex(j.steps) \in Nat \cup {None}
  <2>1. CASE j.steps # <<>>
    <3>1. j.steps[Len(j.steps)] \in StepRecords(Actions)
      BY <1>1, <2>1
    <3>2. QED
      BY <2>1, <3>1 DEF LastIndex, StepRecords
  <2>2. QED
    BY <2>1 DEF LastIndex
<1>3. [kind |-> kind, step |-> LastIndex(j.steps)] \in FailureNotes
  BY <1>2 DEF FailureNotes
<1>4. Fail(j, kind) = [steps   |-> j.steps,
                       failure |-> [kind |-> kind, step |-> LastIndex(j.steps)]]
  BY <1>1 DEF Fail
<1>5. QED
  BY <1>1, <1>3, <1>4 DEF Journals

-----------------------------------------------------------------------------
(* The tally *)

CaseTallies == [stats : Stats, kinds : Seq(Ranks)]

Tallies == [stats : Stats, byKind : [Ranks -> Nat]]

LEMMA AbsorbType ==
  ASSUME NEW t \in Tallies, NEW case \in CaseTallies
  PROVE  Absorb(t, case) \in Tallies
<1>1. /\ t.stats \in Stats /\ case.stats \in Stats
      /\ t.byKind \in [Ranks -> Nat]
      /\ case.kinds \in Seq(Ranks)
  BY DEF Tallies, CaseTallies
<1>2. [accepted   |-> t.stats.accepted + case.stats.accepted,
       expected   |-> t.stats.expected + case.stats.expected,
       unexpected |-> t.stats.unexpected + case.stats.unexpected] \in Stats
  BY <1>1 DEF Stats
<1>3. ASSUME NEW k \in Ranks
      PROVE  Cardinality({i \in 1..Len(case.kinds) : case.kinds[i] = k}) \in Nat
  <2>1. IsFiniteSet(1..Len(case.kinds))
    BY <1>1, FS_Interval
  <2>2. IsFiniteSet({i \in 1..Len(case.kinds) : case.kinds[i] = k})
    BY <2>1, FS_Subset
  <2>3. QED
    BY <2>2, FS_CardinalityType
<1>4. ASSUME NEW k \in Ranks
      PROVE  t.byKind[k] + Cardinality({i \in 1..Len(case.kinds) : case.kinds[i] = k})
               \in Nat
  BY <1>1, <1>3
<1>5. QED
  BY <1>2, <1>4 DEF Absorb, Tallies

LEMMA ClassifyType ==
  ASSUME NEW t \in CaseTallies, NEW action \in Actions, target \in Targets, NEW result
  PROVE  Classify(t, action, result) \in CaseTallies
<1>1. /\ t.stats \in Stats
      /\ t.kinds \in Seq(Ranks)
      /\ t = [stats |-> t.stats, kinds |-> t.kinds]
  BY DEF CaseTallies
<1>2. /\ [t.stats EXCEPT !.accepted = @ + 1] \in Stats
      /\ [t.stats EXCEPT !.expected = @ + 1] \in Stats
      /\ [t.stats EXCEPT !.unexpected = @ + 1] \in Stats
  BY <1>1 DEF Stats
<1>3. Kind(target, action) \in Ranks /\ Expects(target, action) \in BOOLEAN
  BY TargetsAssumption
<1>4. Append(t.kinds, Kind(target, action)) \in Seq(Ranks)
  BY <1>1, <1>3
<1>5. \/ Classify(t, action, result) = t
      \/ Classify(t, action, result)
           = [stats |-> [t.stats EXCEPT !.accepted = @ + 1], kinds |-> t.kinds]
      \/ Classify(t, action, result)
           = [stats |-> [t.stats EXCEPT !.expected = @ + 1], kinds |-> t.kinds]
      \/ Classify(t, action, result)
           = [stats |-> [t.stats EXCEPT !.unexpected = @ + 1],
              kinds |-> Append(t.kinds, Kind(target, action))]
  BY <1>1, <1>3 DEF Classify
<1>6. QED
  BY <1>1, <1>2, <1>4, <1>5 DEF CaseTallies
-----------------------------------------------------------------------------
(* The kind rejected most often *)

\* k is rejected more often than l, or as often and comes first by name.
Worse(byKind, k, l) == \/ byKind[l] < byKind[k]
                       \/ byKind[l] = byKind[k] /\ k < l

\* There is a kind rejected most often: the one with the fewest worse kinds.
LEMMA WorstKindExists ==
  ASSUME NEW byKind \in [Ranks -> Nat]
  PROVE  /\ WorstKind(byKind) \in Ranks
         /\ \A kind \in Ranks : byKind[kind] <= byKind[WorstKind(byKind)]
<1> DEFINE Above(k) == {l \in Ranks : Worse(byKind, l, k)}
           Sizes    == {n \in Nat : \E k \in Ranks : n = Cardinality(Above(k))}
<1>1. ASSUME NEW k \in Ranks
      PROVE  IsFiniteSet(Above(k)) /\ Cardinality(Above(k)) \in Nat
  BY RanksAssumption, FS_Subset, FS_CardinalityType
<1>2. Sizes \in SUBSET Nat /\ Sizes # {}
  BY <1>1, RanksAssumption
<1>3. PICK n \in Sizes : \A m \in Sizes : n <= m
  <2> HIDE DEF Sizes
  <2>1. QED
    BY <1>2, LeastNatural
<1>4. PICK k \in Ranks : n = Cardinality(Above(k))
  BY <1>3
<1>5. ASSUME NEW l \in Above(k)
      PROVE  FALSE
  <2>1. l \in Ranks /\ Worse(byKind, l, k)
    BY <1>5
  <2>2. \A x \in Ranks : Worse(byKind, x, l) => Worse(byKind, x, k)
    BY <2>1, RanksAssumption DEF Worse
  <2>3. ~Worse(byKind, l, l)
    BY <2>1, RanksAssumption DEF Worse
  <2>4. Above(l) \subseteq Above(k) /\ l \notin Above(l)
    BY <2>2, <2>3
  <2>5. Cardinality(Above(l)) <= Cardinality(Above(k)) /\ Above(l) # Above(k)
        /\ (Cardinality(Above(k)) = Cardinality(Above(l)) => Above(k) = Above(l))
    <3> HIDE DEF Above
    <3>1. IsFiniteSet(Above(k))
      BY <1>1, <1>4
    <3>2. QED
      BY <1>5, <2>4, <3>1, FS_Subset
  <2>6. Cardinality(Above(l)) \in Sizes
    BY <1>1, <2>1
  <2>7. n <= Cardinality(Above(l)) /\ n \in Nat /\ Cardinality(Above(l)) \in Nat
    BY <1>3, <2>6
  <2>8. QED
    BY <1>4, <2>5, <2>7
<1>6. \A l \in Ranks : byKind[l] < byKind[k] \/ (byKind[l] = byKind[k] /\ k <= l)
  <2> SUFFICES ASSUME NEW l \in Ranks
               PROVE  byKind[l] < byKind[k] \/ (byKind[l] = byKind[k] /\ k <= l)
    OBVIOUS
  <2>1. ~Worse(byKind, l, k)
    BY <1>5
  <2>2. byKind[l] \in Nat /\ byKind[k] \in Nat /\ k \in Nat /\ l \in Nat
    BY RanksAssumption
  <2>3. QED
    BY <2>1, <2>2 DEF Worse
<1>7. /\ WorstKind(byKind) \in Ranks
      /\ \A l \in Ranks : \/ byKind[l] < byKind[WorstKind(byKind)]
                          \/ byKind[l] = byKind[WorstKind(byKind)] /\ WorstKind(byKind) <= l
  BY <1>6, Zenon DEF WorstKind
<1>8. QED
  BY <1>7

-----------------------------------------------------------------------------
(* Types *)

\* The step marked as panicked is the first one pending.
LEMMA MarkPanickedPicks ==
  ASSUME NEW steps, Len(steps) \in Nat
  PROVE  \/ /\ \A i \in 1..Len(steps) : steps[i].outcome # "pending"
            /\ MarkPanicked(steps) = steps
         \/ \E first \in 1..Len(steps) :
              /\ steps[first].outcome = "pending"
              /\ MarkPanicked(steps) = [steps EXCEPT ![first].outcome = "<panicked>"]
<1> DEFINE Pending == {i \in 1..Len(steps) : steps[i].outcome = "pending"}
           first   == CHOOSE i \in Pending : \A k \in Pending : i <= k
<1>1. CASE Pending = {}
  BY <1>1 DEF MarkPanicked
<1>2. CASE Pending # {}
  <2>1. Pending \in SUBSET Nat
    OBVIOUS
  <2>2. \E i \in Pending : \A k \in Pending : i <= k
    <3> HIDE DEF Pending
    <3>1. QED
      BY <1>2, <2>1, LeastNatural
  <2>3. first \in Pending
    <3> HIDE DEF Pending
    <3>1. QED
      BY <2>2
  <2>4. MarkPanicked(steps) = [steps EXCEPT ![first].outcome = "<panicked>"]
    BY <1>2, Zenon DEF MarkPanicked
  <2>5. QED
    BY <2>3, <2>4
<1>3. QED
  BY <1>1, <1>2

LEMMA MarkPanickedType ==
  ASSUME NEW steps \in Seq(StepRecords(Actions))
  PROVE  MarkPanicked(steps) \in Seq(StepRecords(Actions))
<1>1. ASSUME NEW first \in 1..Len(steps)
      PROVE  [steps EXCEPT ![first].outcome = "<panicked>"] \in Seq(StepRecords(Actions))
  <2> DEFINE step == [steps[first] EXCEPT !.outcome = "<panicked>"]
  <2>1. steps[first] \in StepRecords(Actions)
    OBVIOUS
  <2>2. step \in StepRecords(Actions)
    BY <2>1 DEF StepRecords, Outcomes
  <2>3. [steps EXCEPT ![first].outcome = "<panicked>"] = [steps EXCEPT ![first] = step]
    OBVIOUS
  <2> HIDE DEF step
  <2>4. QED
    BY <2>2, <2>3
<1>2. Len(steps) \in Nat
  OBVIOUS
<1>3. CASE MarkPanicked(steps) = steps
  BY <1>3
<1>4. CASE \E first \in 1..Len(steps) :
             MarkPanicked(steps) = [steps EXCEPT ![first].outcome = "<panicked>"]
  BY <1>1, <1>4
<1>5. QED
  BY <1>2, <1>3, <1>4, MarkPanickedPicks, Zenon

LEMMA NewReportType ==
  ASSUME TypeOK, NEW minimal \in CaseSpace
  PROVE  NewReport(minimal, journal, tally.stats) \in Reports(Actions, CaseSpace, Stats)
<1>1. /\ journal.steps \in Seq(StepRecords(Actions))
      /\ journal.failure \in FailureNotes \cup {None}
      /\ tally.stats \in Stats
  BY JournalFields DEF TypeOK
<1>2. MarkPanicked(journal.steps) \in Seq(StepRecords(Actions))
  BY <1>1, MarkPanickedType
<1>3. (IF journal.failure = None THEN "panic" ELSE journal.failure.kind) \in Kinds
  BY <1>1 DEF FailureNotes, Kinds
<1>4. QED
  BY <1>1, <1>2, <1>3 DEF NewReport, Reports

\* Reporting a case ends the run with a report of its type.
LEMMA ReportType ==
  ASSUME TypeOK, NEW minimal \in CaseSpace, Report(minimal)
  PROVE  outcome' \in FuzzOutcomes
<1>1. NewReport(minimal, journal, tally.stats) \in Reports(Actions, CaseSpace, Stats)
  BY NewReportType
<1>2. outcome' = [kind |-> "failed", report |-> NewReport(minimal, journal, tally.stats)]
  BY DEF Report
<1>3. QED
  BY <1>1, <1>2 DEF FuzzOutcomes

LEMMA InitIInv == Init => IInv
<1> SUFFICES ASSUME Init
             PROVE  IInv
  OBVIOUS
<1>1. journal \in Journals(Actions)
  BY DEF Init, EmptyJournal, Journals
<1>2. caseTally \in [stats : Stats, kinds : Seq(Ranks)]
  BY DEF Init, Stats, NoStats
<1>3. tally \in [stats : Stats, byKind : [Ranks -> Nat]]
  BY DEF Init, Stats, NoStats
<1>4. TypeOK
  <2>1. generated \in Seq(CaseSpace) /\ current \in {NoCase} /\ undo \in {None}
    BY DEF Init
  <2>2. seen \in 0..MaxActions /\ pos \in 0..MaxActions
    BY MaxActionsAssumption DEF Init
  <2>3. /\ target \in Targets /\ config \in Configs /\ phase \in Phases
        /\ index \in Nat /\ iters \in Nat /\ shrinking \in BOOLEAN /\ outcome = None
    BY DEF Init, Phases
  <2>4. QED
    BY <1>1, <1>2, <1>3, <2>1, <2>2, <2>3 DEF TypeOK
<1>5. Progress /\ Indexing
  BY ConfigsAssumption, NoneAssumption DEF Init, Progress, Indexing
<1>6. QED
  BY <1>4, <1>5 DEF IInv

\* What is left of the failing case once the unseen transitions are dropped.
LEMMA ExecutedType ==
  ASSUME TypeOK, Progress, phase = "failed"
  PROVE  current \in CaseSpace /\ Executed \in CaseSpace
<1>1. current \in CaseSpace
  BY DEF Progress
<1>2. CASE shrinking
  BY <1>1, <1>2 DEF Executed
<1>3. CASE ~shrinking
  <2>1. seen \in 0..Len(current.actions)
    BY <1>3, MaxActionsAssumption DEF TypeOK, Progress
  <2>2. Upto(current, seen) \in CaseSpace
    BY <1>1, <2>1, UptoIsACase
  <2>3. QED
    BY <1>1, <1>3, <2>2 DEF Executed
<1>4. QED
  BY <1>2, <1>3

LEMMA RerunType ==
  ASSUME TypeOK, NEW candidate \in CaseSpace, NEW back \in CaseSpace \cup {None},
         Rerun(candidate, back),
         UNCHANGED <<inputs, generated, index, seen, pos, journal, caseTally, tally>>
  PROVE  TypeOK'
<1>1. UNCHANGED <<target, config, generated, index, seen, pos, journal,
                  caseTally, tally>>
  BY DEF inputs
<1>2. current' \in CaseSpace /\ undo' \in CaseSpace \cup {None} /\ shrinking' \in BOOLEAN
  BY DEF Rerun
<1>3. iters' \in Nat /\ phase' \in Phases
  BY DEF Rerun, Report, TypeOK, Phases
<1>4. outcome' \in FuzzOutcomes \cup {None}
  <2>1. CASE BudgetSpent
    <3>1. (IF back = None THEN candidate ELSE back) \in CaseSpace
      BY NoneAssumption
    <3>2. Report(IF back = None THEN candidate ELSE back)
      BY <2>1 DEF Rerun
    <3>3. QED
      BY <3>1, <3>2, ReportType
  <2>2. CASE ~BudgetSpent
    BY <2>2 DEF Rerun, TypeOK
  <2>3. QED
    BY <2>1, <2>2
<1>5. QED
  BY <1>1, <1>2, <1>3, <1>4 DEF TypeOK

\* An action is executed: its record, its outcome and its count.
LEMMA ActType == TypeOK /\ Progress /\ Act => TypeOK'
<1> SUFFICES ASSUME TypeOK, Progress, Act
             PROVE  TypeOK'
  OBVIOUS
<1>1. /\ current \in CaseSpace
      /\ pos \in Nat /\ pos + 1 \in 1..Len(current.actions)
      /\ ~shrinking => seen = pos
      /\ current.actions \in Seq(Actions)
      /\ Len(current.actions) \in 0..MaxActions
  <2>1. phase = "act"
    BY DEF Act
  <2>2. current \in CaseSpace /\ pos < Len(current.actions) /\ (~shrinking => seen = pos)
    BY <2>1 DEF Progress
  <2>3. current.actions \in Seq(Actions) /\ Len(current.actions) \in 0..MaxActions
    BY <2>2, CaseFields
  <2>4. pos \in Nat
    BY MaxActionsAssumption DEF TypeOK
  <2>5. QED
    BY <2>2, <2>3, <2>4
<1> DEFINE action == current.actions[pos + 1]
           effect == Execute(target, Upto(current, pos + 1))
           begun  == PushCall(BeginStep(journal, pos, action), effect.breach)
<1>2. action \in Actions
  BY <1>1
<1>3. effect \in Effects
  <2>1. Upto(current, pos + 1) \in CaseSpace
    BY <1>1, UptoIsACase
  <2>2. QED
    BY <2>1, TargetsAssumption DEF TypeOK
<1>4. /\ effect.breach \in BOOLEAN
      /\ effect.result \in {"ok", "rejected", "violation", "panics"}
  BY <1>3 DEF Effects
<1>5. /\ journal' = CASE effect.result = "panics" -> begun
                      [] effect.result = "violation" ->
                           Fail(FinishStep(begun, "violation"), "unexpected-error")
                      [] OTHER -> FinishStep(begun, effect.result)
      /\ caseTally' = Classify(caseTally, action, effect.result)
      /\ phase' = IF effect.result \in {"violation", "panics"}
                  THEN "failed" ELSE "check"
      /\ seen' = IF shrinking THEN seen ELSE seen + 1
      /\ pos' = pos + 1
      /\ UNCHANGED <<target, config, generated, shrinking, undo, iters, index,
                     current, tally, outcome>>
  BY DEF Act, inputs, driver
<1> HIDE DEF action, effect
<1>6. begun \in Journals(Actions)
  <2>1. BeginStep(journal, pos, action) \in Journals(Actions)
        /\ BeginStep(journal, pos, action).steps # <<>>
    BY <1>1, <1>2, BeginStepType DEF TypeOK
  <2>2. QED
    BY <1>4, <2>1, PushCallType
<1> HIDE DEF begun
<1>7. journal' \in Journals(Actions)
  <2>1. CASE effect.result = "panics"
    BY <1>5, <1>6, <2>1
  <2>2. CASE effect.result = "violation"
    <3>1. "violation" \in Outcomes /\ "unexpected-error" \in Kinds
      BY DEF Outcomes, Kinds
    <3>2. FinishStep(begun, "violation") \in Journals(Actions)
      BY <1>6, <3>1, FinishStepType
    <3>3. Fail(FinishStep(begun, "violation"), "unexpected-error") \in Journals(Actions)
      BY <3>1, <3>2, FailType
    <3>4. QED
      BY <1>5, <2>2, <3>3
  <2>3. CASE effect.result \in {"ok", "rejected"}
    <3>1. effect.result \in Outcomes
      BY <2>3 DEF Outcomes
    <3>2. FinishStep(begun, effect.result) \in Journals(Actions)
      BY <1>6, <3>1, FinishStepType
    <3>3. QED
      BY <1>5, <2>3, <3>2
  <2>4. QED
    BY <1>4, <2>1, <2>2, <2>3
<1>8. caseTally' \in CaseTallies
  BY <1>2, <1>5, ClassifyType DEF TypeOK, CaseTallies
<1>9. seen' \in 0..MaxActions /\ pos' \in 0..MaxActions
  BY <1>1, <1>5, MaxActionsAssumption DEF TypeOK
<1>10. phase' \in Phases
  BY <1>5 DEF Phases
<1>11. QED
  BY <1>5, <1>7, <1>8, <1>9, <1>10 DEF TypeOK, CaseTallies

LEMMA TypeStep == TypeOK /\ Progress /\ [Next]_vars => TypeOK'
<1> SUFFICES ASSUME TypeOK, Progress, [Next]_vars
             PROVE  TypeOK'
  OBVIOUS
<1> USE DEF TypeOK, Phases, inputs, driver
<1>1. CASE Start
  BY <1>1 DEF Start, FuzzOutcomes
<1>2. CASE Generate
  <2>1. PICK case \in CaseSpace : current' = case /\ generated' = Append(generated, case)
    BY <1>2 DEF Generate
  <2>2. generated' \in Seq(CaseSpace) /\ current' \in CaseSpace
    BY <2>1
  <2>3. seen' = 0 /\ 0 \in 0..MaxActions
    BY <1>2, MaxActionsAssumption DEF Generate
  <2>4. QED
    BY <1>2, <2>2, <2>3 DEF Generate
<1>3. CASE AbortGeneration
  BY <1>3 DEF AbortGeneration, FuzzOutcomes
<1>4. CASE Finish
  <2>1. Warning(tally, config.warnAbove) \in Ranks \cup {None}
    BY WorstKindExists DEF Warning
  <2>2. (IF config.replay = None THEN config.cases ELSE 1) \in Nat /\ tally.stats \in Stats
    BY ConfigsAssumption
  <2>3. outcome' \in FuzzOutcomes
    BY <1>4, <2>1, <2>2 DEF Finish, FuzzOutcomes
  <2>4. QED
    BY <1>4, <2>3 DEF Finish
<1>5. CASE SkipCase
  BY <1>5 DEF SkipCase
<1>6. CASE SetupPanics
  BY <1>6 DEF SetupPanics
<1>7. CASE BeginCase
  <2>1. journal' \in Journals(Actions)
    BY <1>7 DEF BeginCase, Reset, EmptyJournal, Journals
  <2>2. caseTally' \in [stats : Stats, kinds : Seq(Ranks)]
    BY <1>7 DEF BeginCase, Stats, NoStats
  <2>3. pos' \in 0..MaxActions
    BY <1>7, MaxActionsAssumption DEF BeginCase
  <2>4. QED
    BY <1>7, <2>1, <2>2, <2>3 DEF BeginCase
<1>8. CASE CheckInvariants
  <2>1. Fail(journal, "invariant") \in Journals(Actions)
    BY FailType DEF Kinds
  <2>2. journal' \in Journals(Actions) /\ phase' \in Phases
    BY <1>8, <2>1 DEF CheckInvariants, AfterCheck
  <2>3. QED
    BY <1>8, <2>2 DEF CheckInvariants
<1>9. CASE Act
  BY <1>9, ActType
<1>10. CASE ReturnCase
  <2>1. tally' \in Tallies
    BY <1>10, AbsorbType DEF ReturnCase, Tallies, CaseTallies
  <2>2. QED
    BY <1>10, <2>1 DEF ReturnCase, Tallies
<1>11. CASE NextCase
  BY <1>11 DEF NextCase
<1>12. CASE DropUnseen
  <2>1. Executed \in CaseSpace
    BY <1>12, ExecutedType DEF DropUnseen
  <2>2. QED
    BY <1>12, <2>1, RerunType DEF DropUnseen
<1>13. CASE Simplify
  <2>1. Executed \in CaseSpace
    BY <1>13, ExecutedType DEF Simplify
  <2>2. Deletions(Executed) \subseteq CaseSpace /\ Replacements(Executed) \subseteq CaseSpace
    BY <2>1, DeletionsAreCases, ReplacementsAreCases
  <2>3. PICK candidate \in Deletions(Executed) \cup Replacements(Executed) :
          Rerun(candidate, Executed)
    BY <1>13 DEF Simplify
  <2>4. QED
    BY <1>13, <2>1, <2>2, <2>3, RerunType DEF Simplify
<1>14. CASE Minimal
  <2>1. current \in CaseSpace /\ Report(current)
    BY <1>14 DEF Minimal, Progress
  <2>2. outcome' \in FuzzOutcomes /\ phase' = "done"
    BY <2>1, ReportType DEF Report
  <2>3. QED
    BY <1>14, <2>2 DEF Minimal
<1>15. CASE Complicate
  <2>1. undo \in CaseSpace
    BY <1>15 DEF Complicate
  <2>2. Replacements(undo) \subseteq CaseSpace
    BY <2>1, ReplacementsAreCases
  <2>3. PICK case \in {undo} \cup {c \in Replacements(undo) : current \in Replacements(c)} :
          Rerun(case, IF case = undo THEN None ELSE undo)
    BY <1>15 DEF Complicate
  <2>4. case \in CaseSpace
    BY <2>1, <2>2, <2>3
  <2>5. QED
    BY <1>15, <2>1, <2>3, <2>4, RerunType DEF Complicate
<1>16. CASE GiveUp
  <2>1. current \in CaseSpace /\ Report(current)
    BY <1>16 DEF GiveUp, Progress
  <2>2. outcome' \in FuzzOutcomes /\ phase' = "done"
    BY <2>1, ReportType DEF Report
  <2>3. QED
    BY <1>16, <2>2 DEF GiveUp
<1>17. CASE UNCHANGED vars
  BY <1>17 DEF vars
<1>18. QED
  BY <1>1, <1>2, <1>3, <1>4, <1>5, <1>6, <1>7, <1>8, <1>9, <1>10, <1>11,
     <1>12, <1>13, <1>14, <1>15, <1>16, <1>17 DEF Next

-----------------------------------------------------------------------------
(* How far a run is *)

\* A candidate is about to be run, or the run is over.
LEMMA RerunFacts ==
  ASSUME NEW candidate, NEW back, Rerun(candidate, back)
  PROVE  /\ phase' \in {"invoke", "done"}
         /\ shrinking' = TRUE
         /\ current' = candidate
BY DEF Rerun, Report

LEMMA ProgressStep == TypeOK /\ Progress /\ [Next]_vars => Progress'
<1> SUFFICES ASSUME TypeOK, Progress, [Next]_vars
             PROVE  Progress'
  OBVIOUS
<1> USE DEF inputs, driver
<1>1. CASE Start
  BY <1>1 DEF Start, Progress
<1>2. CASE Generate
  <2>1. current' \in CaseSpace /\ seen' = 0 /\ phase' = "invoke"
    BY <1>2 DEF Generate
  <2>2. QED
    BY <2>1 DEF Progress
<1>3. CASE AbortGeneration \/ Finish \/ Minimal \/ GiveUp
  <2>1. phase' = "done"
    BY <1>3 DEF AbortGeneration, Finish, Minimal, GiveUp, Report
  <2>2. QED
    BY <2>1 DEF Progress
<1>4. CASE SkipCase
  BY <1>4 DEF SkipCase, Progress
<1>5. CASE SetupPanics
  <2>1. current \in CaseSpace /\ (~shrinking => seen = 0)
    BY <1>5 DEF SetupPanics, Progress
  <2>2. Len(current.actions) \in 0..MaxActions
    BY <2>1, CaseFields
  <2>3. ~shrinking => seen <= Len(current.actions)
    BY <2>1, <2>2, MaxActionsAssumption
  <2>4. phase' = "failed" /\ UNCHANGED <<current, seen, shrinking>>
    BY <1>5 DEF SetupPanics
  <2>5. QED
    BY <2>1, <2>3, <2>4 DEF Progress
<1>6. CASE BeginCase
  <2>1. current \in CaseSpace /\ (~shrinking => seen = 0)
    BY <1>6 DEF BeginCase, Progress
  <2>2. Len(current.actions) \in 0..MaxActions
    BY <2>1, CaseFields
  <2>3. 0 <= Len(current.actions)
    BY <2>2, MaxActionsAssumption
  <2>4. phase' = "check" /\ pos' = 0 /\ UNCHANGED <<current, seen, shrinking>>
    BY <1>6 DEF BeginCase
  <2>5. QED
    BY <2>1, <2>3, <2>4 DEF Progress
<1>7. CASE CheckInvariants
  <2>1. /\ current \in CaseSpace
        /\ pos <= Len(current.actions)
        /\ ~shrinking => seen = pos
    BY <1>7 DEF CheckInvariants, Progress
  <2>2. /\ phase' \in {"failed", "act", "return"}
        /\ phase' = "act" => pos < Len(current.actions)
        /\ UNCHANGED <<current, seen, pos, shrinking>>
    BY <1>7 DEF CheckInvariants, AfterCheck
  <2>3. QED
    BY <2>1, <2>2 DEF Progress
<1>8. CASE Act
  <2>1. /\ current \in CaseSpace
        /\ pos < Len(current.actions)
        /\ ~shrinking => seen = pos
    BY <1>8 DEF Act, Progress
  <2>2. pos \in Nat /\ Len(current.actions) \in Nat
    BY <2>1, CaseFields, MaxActionsAssumption DEF TypeOK
  <2>3. pos + 1 <= Len(current.actions)
    BY <2>1, <2>2
  <2>4. /\ phase' \in {"failed", "check"}
        /\ pos' = pos + 1
        /\ seen' = IF shrinking THEN seen ELSE seen + 1
        /\ UNCHANGED <<current, shrinking>>
    BY <1>8 DEF Act
  <2>5. QED
    BY <2>1, <2>3, <2>4 DEF Progress
<1>9. CASE ReturnCase
  BY <1>9 DEF ReturnCase, Progress
<1>10. CASE NextCase
  BY <1>10 DEF NextCase, Progress
<1>11. CASE DropUnseen \/ Simplify \/ Complicate
  <2>1. /\ phase' \in {"invoke", "done"}
        /\ shrinking' = TRUE
    BY <1>11, RerunFacts DEF DropUnseen, Simplify, Complicate
  <2>2. current' \in CaseSpace
    <3>1. CASE DropUnseen
      BY <3>1, ExecutedType, RerunFacts DEF DropUnseen
    <3>2. CASE Simplify
      <4>1. Deletions(Executed) \subseteq CaseSpace /\ Replacements(Executed) \subseteq CaseSpace
        BY <3>2, ExecutedType, DeletionsAreCases, ReplacementsAreCases DEF Simplify
      <4>2. QED
        BY <3>2, <4>1, RerunFacts DEF Simplify
    <3>3. CASE Complicate
      <4>1. undo \in CaseSpace
        BY <3>3 DEF Complicate, TypeOK
      <4>2. Replacements(undo) \subseteq CaseSpace
        BY <4>1, ReplacementsAreCases
      <4>3. QED
        BY <3>3, <4>1, <4>2, RerunFacts DEF Complicate
    <3>4. QED
      BY <1>11, <3>1, <3>2, <3>3
  <2>3. QED
    BY <2>1, <2>2 DEF Progress
<1>12. CASE UNCHANGED vars
  BY <1>12 DEF vars, Progress
<1>13. QED
  BY <1>1, <1>2, <1>3, <1>4, <1>5, <1>6, <1>7, <1>8, <1>9, <1>10, <1>11, <1>12
  DEF Next

-----------------------------------------------------------------------------
(* Replaying *)

\* When the closure does not skip a case it was called with, that case is
\* one drawn, and in a replay the one named.
LEMMA NotSkipped ==
  ASSUME TypeOK, Indexing, phase = "invoke", ~Skips
  PROVE  config.replay # None => ~shrinking /\ index = config.replay
<1>1. CASE config.replay = None
  BY <1>1
<1>2. CASE config.replay # None
  <2>1. index = config.replay
    BY <1>2 DEF Skips
  <2>2. config.replay \in Nat /\ index \in Nat
    BY <1>2, ConfigsAssumption DEF TypeOK
  <2>3. shrinking => index > config.replay
    BY <1>2 DEF Indexing
  <2>4. QED
    BY <2>1, <2>2, <2>3 DEF TypeOK
<1>3. QED
  BY <1>1, <1>2

\* The closure takes its index on every call.
LEMMA Invoked ==
  ASSUME TypeOK, Indexing, phase = "invoke", index' = index + 1,
         phase' \in {"passed", "failed", "check"},
         UNCHANGED <<inputs, driver, current>>,
         phase' # "passed" => ~Skips
  PROVE  Indexing'
<1> USE DEF inputs, driver
<1>1. ~shrinking => Len(generated) = index' /\ current = generated[Len(generated)]
  BY DEF Indexing
<1>2. config.replay # None /\ phase' # "passed" =>
        ~shrinking /\ index' = config.replay + 1
  BY NotSkipped
<1>3. config.replay # None /\ shrinking => index' > config.replay
  <2>1. config.replay # None /\ shrinking => index > config.replay
    BY DEF Indexing
  <2>2. config.replay # None => config.replay \in Nat
    BY ConfigsAssumption DEF TypeOK
  <2>3. index \in Nat
    BY DEF TypeOK
  <2>4. QED
    BY <2>1, <2>2, <2>3
<1>4. /\ config' = config /\ generated' = generated
      /\ shrinking' = shrinking /\ current' = current
  OBVIOUS
<1> HIDE DEF inputs, driver
<1>5. QED
  BY <1>1, <1>2, <1>3, <1>4 DEF Indexing

\* From one phase of running a case to the next.
LEMMA Carried ==
  ASSUME Indexing, UNCHANGED <<config, generated, shrinking, index, current>>,
         \/ phase \in {"check", "act", "return"}
            /\ phase' \in {"check", "act", "return", "failed"}
         \/ phase = "return" /\ phase' = "passed"
         \/ phase' = "done"
  PROVE  Indexing'
BY DEF Indexing

LEMMA IndexingStep == TypeOK /\ Indexing /\ [Next]_vars => Indexing'
<1> SUFFICES ASSUME TypeOK, Indexing, [Next]_vars
             PROVE  Indexing'
  OBVIOUS
<1>1. CASE Start
  <2>1. /\ phase' \in {"done", "generate"}
        /\ UNCHANGED <<config, generated, shrinking, index, current>>
        /\ phase = "start"
    BY <1>1 DEF Start, inputs, driver
  <2>2. QED
    BY <2>1 DEF Indexing
<1>2. CASE Generate
  <2>1. PICK case \in CaseSpace : current' = case /\ generated' = Append(generated, case)
    BY <1>2 DEF Generate
  <2>2. /\ Len(generated') = Len(generated) + 1
        /\ generated'[Len(generated')] = current'
    BY <2>1 DEF TypeOK
  <2>3. ~shrinking /\ index = Len(generated)
    BY <1>2 DEF Generate, Indexing
  <2>4. phase' = "invoke" /\ UNCHANGED <<config, shrinking, index>>
    BY <1>2 DEF Generate, inputs
  <2>5. QED
    BY <2>2, <2>3, <2>4 DEF Indexing
<1>3. CASE AbortGeneration \/ Finish \/ Minimal \/ GiveUp
  <2>1. /\ phase' = "done"
        /\ UNCHANGED <<config, generated, shrinking, index, current>>
    BY <1>3 DEF AbortGeneration, Finish, Minimal, GiveUp, Report, inputs, driver
  <2>2. QED
    BY <2>1, Carried
<1>4. CASE SkipCase
  BY <1>4, Invoked DEF SkipCase
<1>5. CASE SetupPanics
  BY <1>5, Invoked DEF SetupPanics
<1>6. CASE BeginCase
  BY <1>6, Invoked DEF BeginCase
<1>7. CASE CheckInvariants
  <2>1. /\ phase = "check" /\ phase' \in {"act", "return", "failed"}
        /\ UNCHANGED <<config, generated, shrinking, index, current>>
    BY <1>7 DEF CheckInvariants, AfterCheck, inputs, driver
  <2>2. QED
    BY <2>1, Carried
<1>8. CASE Act
  <2>1. /\ phase = "act" /\ phase' \in {"check", "failed"}
        /\ UNCHANGED <<config, generated, shrinking, index, current>>
    BY <1>8 DEF Act, inputs, driver
  <2>2. QED
    BY <2>1, Carried
<1>9. CASE ReturnCase
  <2>1. /\ phase = "return" /\ phase' = "passed"
        /\ UNCHANGED <<config, generated, shrinking, index, current>>
    BY <1>9 DEF ReturnCase, inputs, driver
  <2>2. QED
    BY <2>1, Carried
<1>10. CASE NextCase
  <2>1. /\ phase = "passed" /\ phase' = "generate" /\ ~shrinking
        /\ UNCHANGED <<config, generated, shrinking, index, current>>
    BY <1>10 DEF NextCase, inputs, driver
  <2>2. QED
    BY <2>1 DEF Indexing
<1>11. CASE DropUnseen \/ Simplify
  <2>1. phase = "failed" /\ phase' \in {"invoke", "done"} /\ shrinking' = TRUE
    BY <1>11, RerunFacts DEF DropUnseen, Simplify
  <2>2. UNCHANGED <<config, index>>
    BY <1>11 DEF DropUnseen, Simplify, inputs
  <2>3. config.replay # None => index > config.replay
    <3>1. config.replay # None => index = config.replay + 1
      BY <2>1 DEF Indexing
    <3>2. config.replay # None => config.replay \in Nat
      BY ConfigsAssumption DEF TypeOK
    <3>3. QED
      BY <3>1, <3>2
  <2>4. QED
    BY <2>1, <2>2, <2>3 DEF Indexing
<1>12. CASE Complicate
  <2>1. shrinking /\ phase' \in {"invoke", "done"} /\ shrinking' = TRUE
    BY <1>12, RerunFacts DEF Complicate
  <2>2. UNCHANGED <<config, index>>
    BY <1>12 DEF Complicate, inputs
  <2>3. QED
    BY <2>1, <2>2 DEF Indexing
<1>13. CASE UNCHANGED vars
  BY <1>13 DEF vars, Indexing
<1>14. QED
  BY <1>1, <1>2, <1>3, <1>4, <1>5, <1>6, <1>7, <1>8, <1>9, <1>10, <1>11, <1>12,
     <1>13 DEF Next

-----------------------------------------------------------------------------

\* The invariant of a run, for every target and every shrinker.
THEOREM RunInvariant == Spec => []IInv
<1>1. IInv /\ [Next]_vars => IInv'
  BY TypeStep, ProgressStep, IndexingStep DEF IInv
<1>2. QED
  BY InitIInv, <1>1, PTL DEF Spec

\* Type correctness of run.
THEOREM TypeCorrect == Spec => []TypeOK
<1>1. IInv => TypeOK
  BY DEF IInv
<1>2. QED
  BY <1>1, RunInvariant, PTL

\* A replay executes no action and checks no invariant of any case but the
\* one at the index it was given, shrink candidates included.
THEOREM ReplayIsExact == Spec => []ReplayRunsTheCaseNamed
<1>1. IInv => ReplayRunsTheCaseNamed
  <2> SUFFICES ASSUME IInv, phase \in {"check", "act", "return"}, config.replay # None
               PROVE  /\ ~shrinking
                      /\ Len(generated) = config.replay + 1
                      /\ current = generated[config.replay + 1]
    BY DEF ReplayRunsTheCaseNamed
  <2>1. ~shrinking /\ index = config.replay + 1
    BY DEF IInv, Indexing
  <2>2. Len(generated) = config.replay + 1 /\ current = generated[Len(generated)]
    BY <2>1 DEF IInv, Indexing
  <2>3. QED
    BY <2>1, <2>2
<1>2. QED
  BY <1>1, RunInvariant, PTL
=============================================================================
