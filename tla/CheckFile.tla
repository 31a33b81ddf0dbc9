------------------------------ MODULE CheckFile -----------------------------
(***************************************************************************)
(* Analyzer::check_file (soroban-analyzer/src/detector.rs): every detector *)
(* with a rule walks every entrypoint of one file, node by node, and hands *)
(* what it finds to a sink that asks the suppression markers which list it *)
(* belongs to. A panic in the walk leaves check_file with nothing.         *)
(***************************************************************************)
EXTENDS Detectors, FiniteSets

CONSTANTS
    LookUpLines,
    Files,          \* parsed files
    RuleSources     \* lists of rule files a binary may carry

M == INSTANCE Suppress
R == INSTANCE Rules

ASSUME LookUpLinesAssumption == LookUpLines \in Nat

\* A line of a file with code on it or somewhere above.
IsBelowCode(f, line) ==
    line \in 1..Len(f.lines) /\ \E k \in 1..line : f.lines[k].text = "code"

\* The literals in the header of a loop are numbers of the width.
HasNumbers(node) ==
    /\ node.kind = "for" /\ node.iter # None
          => {node.iter.start, node.iter.end} \subseteq 0..MaxU64 \cup {None}
    /\ node.kind = "while" /\ node.cond # None
          => {node.cond.left, node.cond.right} \subseteq 0..MaxU64 \cup {None}

\* Between two literals there is no room for another node.
IsLiteralRange(node) ==
    /\ node.kind = "for" /\ node.iter # None
    /\ node.iter.start # None /\ node.iter.end # None

ASSUME NoneAssumption == None \notin Nat

\* A parsed file: lists have lengths; a node covers itself and all of the nodes
\* that begin inside it; and what a finding is about is a part of some function,
\* of which code stands on the same line or above it.
ASSUME FilesAssumption ==
    \A f \in Files :
        /\ Len(f.fns) \in Nat /\ Len(f.lines) \in Nat
        /\ \A item \in f.items : item.from \in Nat
        /\ \A k \in 1..Len(f.fns) :
              LET nodes == f.fns[k].body.nodes
              IN  /\ Len(nodes) \in Nat /\ Len(f.fns[k].body.lets) \in Nat
                  /\ IsBelowCode(f, f.fns[k].line)
                  /\ \A i \in 1..Len(nodes) :
                        /\ HasNumbers(nodes[i])
                        /\ IsLiteralRange(nodes[i]) => nodes[i].body = i + 1
                        /\ nodes[i].end \in Nat /\ i <= nodes[i].end
                        /\ \A j \in 1..Len(nodes) :
                              i < j /\ j <= nodes[i].end => nodes[j].end <= nodes[i].end
                        /\ IsBelowCode(f, nodes[i].line)
                        /\ IsStorageWrite(nodes[i]) /\ nodes[i].key # None
                              => IsBelowCode(f, nodes[i].key.line)

VARIABLES
    file,       \* the SourceFile
    sources,    \* the rule files the analyzer was built from
    pc,         \* "checking", "done", or "panicked"
    d,          \* position in the registry
    e,          \* position among the functions, 0 between two detectors
    n,          \* position in the body, 0 between two entrypoints
    spans,      \* the detector's `reported' ranges
    estimate,   \* read_budget's Estimate
    sink,       \* Findings: what the running detector has reported
    result      \* FileFindings

vars == <<file, sources, pc, d, e, n, spans, estimate, sink, result>>

Nothing == [findings |-> {}, suppressed |-> {}]

Init ==
    /\ file \in Files /\ sources \in RuleSources
    /\ pc = "checking" /\ d = 1 /\ e = 0 /\ n = 0
    /\ spans = {} /\ estimate = NoEstimate
    /\ sink = Nothing /\ result = Nothing

Loaded == R!RuleIds(sources)
Entry == file.fns[e]
Nodes == Entry.body.nodes
Exempt(fn) == ~IsEntrypoint(fn) \/ IsExempt(fn)

-----------------------------------------------------------------------------
(***************************************************************************)
(* The sink.                                                               *)
(***************************************************************************)
\* A finding of the running detector about nodes from..to of the entrypoint,
\* located on a line; 0..0 is the signature.
Finding(from, to, line, what) ==
    [rule |-> Registry[d], entry |-> e, from |-> from, to |-> to, line |-> line, what |-> what]

\* A sink that asks only the innermost item, the one that begins last.
ReportInnermost(finding) ==
    IF \E start \in M!EnclosingItems(file, finding.line) :
          /\ \A other \in M!EnclosingItems(file, finding.line) : other <= start
          /\ \E l \in M!CommentBlockAbove(file, start) :
                M!Allows(file.lines[l], "item", finding.rule)
    THEN sink' = [sink EXCEPT !.suppressed = @ \cup {finding}]
    ELSE sink' = [sink EXCEPT !.findings = @ \cup {finding}]

Report(finding) ==
    IF M!IsSuppressed(file, finding.rule, finding.line)
    THEN sink' = [sink EXCEPT !.suppressed = @ \cup {finding}]
    ELSE sink' = [sink EXCEPT !.findings = @ \cup {finding}]

-----------------------------------------------------------------------------
(***************************************************************************)
(* From detector to detector.                                              *)
(***************************************************************************)
BetweenDetectors == pc = "checking" /\ e = 0 /\ d <= Len(Registry)

SkipDetector ==
    /\ BetweenDetectors
    /\ Registry[d] \notin Loaded
    /\ d' = d + 1
    /\ UNCHANGED <<file, sources, pc, e, n, spans, estimate, sink, result>>

BeginDetector ==
    /\ BetweenDetectors
    /\ Registry[d] \in Loaded
    /\ e' = 1 /\ sink' = Nothing
    /\ UNCHANGED <<file, sources, pc, d, n, spans, estimate, result>>

\* The last entrypoint is behind: the sink's lists join the file's.
EndDetector ==
    /\ pc = "checking" /\ e = Len(file.fns) + 1
    /\ result' = [findings |-> result.findings \cup sink.findings,
                  suppressed |-> result.suppressed \cup sink.suppressed]
    /\ d' = d + 1 /\ e' = 0
    /\ UNCHANGED <<file, sources, pc, n, spans, estimate, sink>>

ReturnFindings ==
    /\ pc = "checking" /\ e = 0 /\ d = Len(Registry) + 1
    /\ pc' = "done"
    /\ UNCHANGED <<file, sources, d, e, n, spans, estimate, sink, result>>

-----------------------------------------------------------------------------
(***************************************************************************)
(* From entrypoint to entrypoint.                                          *)
(***************************************************************************)
AtEntry == pc = "checking" /\ e \in 1..Len(file.fns) /\ n = 0

SkipEntry ==
    /\ AtEntry
    /\ Exempt(Entry)
    /\ e' = e + 1
    /\ UNCHANGED <<file, sources, pc, d, n, spans, estimate, sink, result>>

CheckAuth ==
    /\ AtEntry
    /\ ~Exempt(Entry)
    /\ Registry[d] = MissingRequireAuth
    /\ IF IsUnauthorized(file, Entry)
       THEN Report(Finding(0, 0, Entry.line, Effects(Entry)))
       ELSE UNCHANGED sink
    /\ e' = e + 1
    /\ UNCHANGED <<file, sources, pc, d, n, spans, estimate, result>>

EnterEntry ==
    /\ AtEntry
    /\ ~Exempt(Entry)
    /\ Registry[d] # MissingRequireAuth
    /\ n' = 1 /\ spans' = {} /\ estimate' = NoEstimate
    /\ UNCHANGED <<file, sources, pc, d, e, sink, result>>

\* read_budget judges an entrypoint once it has counted all of it.
LeaveEntry ==
    /\ pc = "checking" /\ e \in 1..Len(file.fns) /\ n = Len(Nodes) + 1
    /\ IF Registry[d] = ReadBudget /\ estimate.total > ReadCeiling
       THEN Report(Finding(0, 0, Entry.line, estimate))
       ELSE UNCHANGED sink
    /\ e' = e + 1 /\ n' = 0
    /\ UNCHANGED <<file, sources, pc, d, spans, estimate, result>>

-----------------------------------------------------------------------------
(***************************************************************************)
(* From node to node.                                                      *)
(***************************************************************************)
AtNode(detector) ==
    /\ pc = "checking" /\ e \in 1..Len(file.fns) /\ n \in 1..Len(Nodes)
    /\ Registry[d] = detector

Walk == n' = n + 1 /\ UNCHANGED <<file, sources, pc, d, e, result>>

Panic ==
    /\ pc' = "panicked"
    /\ UNCHANGED <<file, sources, d, e, n, spans, estimate, sink, result>>

CountRead ==
    /\ AtNode(ReadBudget)
    /\ IsStorageRead(Nodes[n])
    /\ \A l \in BoundsAskedFor(Nodes, n) : ~Underflows(Nodes[l])
    /\ estimate' = Count(estimate, Nodes, n)
    /\ Walk /\ UNCHANGED <<spans, sink>>

CountReadPanics ==
    /\ AtNode(ReadBudget)
    /\ IsStorageRead(Nodes[n])
    /\ \E l \in BoundsAskedFor(Nodes, n) : Underflows(Nodes[l])
    /\ Panic

MeetWrite ==
    /\ AtNode(StorageDurability)
    /\ IsMisplaced(Nodes[n])
    /\ Report(Finding(n, Nodes[n].end, Nodes[n].key.line, [key |-> Nodes[n].key.names]))
    /\ Walk /\ UNCHANGED <<spans, estimate>>

MeetLoop ==
    /\ AtNode(UnboundedStorageLoop)
    /\ ~Underflows(Nodes[n])
    /\ IsUnboundedLoop(Nodes, n)
    /\ ~SpanContainedIn(n, Nodes[n].end, spans)
    /\ spans' = spans \cup {<<n, Nodes[n].end>>}
    /\ Report(Finding(n, Nodes[n].end, Nodes[n].line, [origin |-> Origin(Entry.body, n)]))
    /\ Walk /\ UNCHANGED estimate

MeetLoopPanics ==
    /\ AtNode(UnboundedStorageLoop)
    /\ Underflows(Nodes[n])
    /\ Panic

MeetArithmetic ==
    /\ AtNode(UncheckedArithmetic)
    /\ IsUncheckedArithmetic(Nodes, n)
    /\ ~SpanContainedIn(n, Nodes[n].end, spans)
    /\ spans' = spans \cup {<<n, Nodes[n].end>>}
    /\ Report(Finding(n, Nodes[n].end, Nodes[n].line, [operands |-> AmountOperands(Nodes, n)]))
    /\ Walk /\ UNCHANGED estimate

\* A node the detector has nothing to say about.
PassNode ==
    /\ \/ AtNode(ReadBudget) /\ ~IsStorageRead(Nodes[n])
       \/ AtNode(StorageDurability) /\ ~IsMisplaced(Nodes[n])
       \/ /\ AtNode(UnboundedStorageLoop) /\ ~Underflows(Nodes[n])
          /\ ~IsUnboundedLoop(Nodes, n) \/ SpanContainedIn(n, Nodes[n].end, spans)
       \/ /\ AtNode(UncheckedArithmetic)
          /\ ~IsUncheckedArithmetic(Nodes, n) \/ SpanContainedIn(n, Nodes[n].end, spans)
    /\ Walk /\ UNCHANGED <<spans, estimate, sink>>

Finished == pc # "checking" /\ UNCHANGED vars

Next ==
    \/ SkipDetector \/ BeginDetector \/ EndDetector \/ ReturnFindings
    \/ SkipEntry \/ CheckAuth \/ EnterEntry \/ LeaveEntry
    \/ CountRead \/ CountReadPanics \/ MeetWrite \/ MeetLoop \/ MeetLoopPanics
    \/ MeetArithmetic \/ PassNode
    \/ Finished

Spec == Init /\ [][Next]_vars

-----------------------------------------------------------------------------
(***************************************************************************)
(* Properties.                                                             *)
(***************************************************************************)
RegisteredIds == {Registry[k] : k \in 1..Len(Registry)}

Findings == result.findings \cup result.suppressed

TypeOK ==
    /\ pc \in {"checking", "done", "panicked"}
    /\ d \in 1..(Len(Registry) + 1)
    /\ e \in 0..(Len(file.fns) + 1)
    /\ n \in Nat /\ (n # 0 => e \in 1..Len(file.fns) /\ n <= Len(Nodes) + 1)
    /\ spans \subseteq Nat \X Nat
    /\ estimate \in Estimates
    /\ DOMAIN sink = {"findings", "suppressed"}
    /\ DOMAIN result = {"findings", "suppressed"}

\* The members of a set of nodes that are inside no other member.
Outermost(S, nodes) == {i \in S : \A j \in S : j < i => nodes[j].end < i}

\* Where a detector has something to say about a function, 0 for its signature.
Due(rule, fn) ==
    LET nodes == fn.body.nodes
        at == At(fn.body)
    IN  IF Exempt(fn) THEN {}
        ELSE CASE rule = MissingRequireAuth -> IF IsUnauthorized(file, fn) THEN {0} ELSE {}
               [] rule = StorageDurability -> {i \in at : IsMisplaced(nodes[i])}
               [] rule = UnboundedStorageLoop ->
                     Outermost({i \in at : IsUnboundedLoop(nodes, i)}, nodes)
               [] rule = UncheckedArithmetic ->
                     Outermost({i \in at : IsUncheckedArithmetic(nodes, i)}, nodes)

\* A marker is next to what it excuses: at the head of the file, or right above
\* an item around the finding with nothing but comments in between.
Excused(finding) ==
    \E l \in 1..(finding.line - 1) :
       \/ /\ M!Allows(file.lines[l], "file", finding.rule)
          /\ \A k \in 1..l : file.lines[k].text # "code"
       \/ /\ M!Allows(file.lines[l], "item", finding.rule)
          /\ \E item \in file.items :
                /\ item.from <= finding.line /\ finding.line <= item.to
                /\ l < item.from /\ item.from - l <= LookUpLines
                /\ {k \in 1..(item.from - 1) : l <= k /\ file.lines[k].text # "comment"} = {}

\* The names that hold something read from storage: no set closed under the
\* lets of a function leaves one of them out.
HoldsStorage(fn) ==
    LET names == UNION {fn.body.lets[k].names : k \in 1..Len(fn.body.lets)}
        closed == {S \in SUBSET names :
                     \A k \in 1..Len(fn.body.lets) :
                        fn.body.lets[k].reads \/ fn.body.lets[k].init \cap S # {}
                           => fn.body.lets[k].names \subseteq S}
    IN  {name \in names : \A S \in closed : name \in S}

\* What check_file returns of a file is what is there, whatever the markers
\* say: each rule that validate does not name is applied at every place it is
\* about and at no other, at the outermost of nested ones; the markers next to
\* a finding, and only those, decide which of the two lists it is in
\* (suppress.rs:21-23); and a loop is said to be bounded by storage when a chain
\* of lets leads from a storage read to its header, through however many.
FindingsAreExact ==
    pc = "done" =>
        /\ \A k \in 1..Len(file.fns), r \in 1..Len(Registry) :
              Registry[r] # ReadBudget =>
                 {f.from : f \in {g \in Findings : g.rule = Registry[r] /\ g.entry = k}}
                    = IF Registry[r] \in R!Validate(RegisteredIds, Loaded) THEN {}
                      ELSE Due(Registry[r], file.fns[k])
        /\ \A f \in result.findings : ~Excused(f)
        /\ \A f \in result.suppressed : Excused(f)
        /\ \A f \in Findings :
              f.rule = UnboundedStorageLoop =>
                 LET fn == file.fns[f.entry]
                     header == HeaderIdentifiers(fn.body.nodes, f.from)
                 IN  f.what.origin = "storage" <=>
                        /\ fn.body.nodes[f.from].kind # "loop"
                        /\ header \cap HoldsStorage(fn) # {}

\* The literal an ascending comparison ends at, None where the literal is on
\* the other side: from where such a loop counts down is not in its header.
Top(cond) ==
    IF cond.op \in {"<", "<="} /\ cond.left = None THEN cond.right
    ELSE IF cond.op \in {">", ">="} /\ cond.right = None THEN cond.left
    ELSE None

IsInclusive(cond) == cond.op \in {"<=", ">="}

\* A loop whose header says where it ends.
HasTop(node) ==
    \/ node.kind = "for" /\ node.iter # None /\ node.iter.end # None
    \/ node.kind = "while" /\ node.cond # None /\ Top(node.cond) # None

\* The values the counter of such a loop has in the body: one after the other,
\* and from zero when the header does not say from where.
Turns(node) ==
    IF node.kind = "for"
    THEN {c \in 0..MaxU64 :
            /\ node.iter.start # None => node.iter.start <= c
            /\ c < node.iter.end \/ (node.iter.closed /\ c = node.iter.end)}
    ELSE {c \in 0..MaxU64 :
            c < Top(node.cond) \/ (IsInclusive(node.cond) /\ c = Top(node.cond))}

\* How often a loop around a node runs it: in the body once a turn; in the
\* header of a `for' once; in the header of a `while' once more than the body.
Times(nodes, l, i) ==
    IF InLoopBody(nodes, l, i) THEN Cardinality(Turns(nodes[l]))
    ELSE IF nodes[l].kind = "for" THEN 1
    ELSE Cardinality(Turns(nodes[l])) + 1

\* How often a node is run, at the most: when no branch or break is in the way.
Trips(nodes, i) ==
    LET upto[j \in 0..(i - 1)] ==
            IF j = 0 THEN 1
            ELSE IF j \in LoopsAround(nodes, i) THEN upto[j - 1] * Times(nodes, j, i)
            ELSE upto[j - 1]
    IN  upto[i - 1]

CountedReads(fn) == {i \in Reads(fn.body) : IsBounded(fn.body.nodes, i)}

\* Reads that are counted as often as they are made: in the bodies of all the
\* loops around them, none of which is a `while' that includes its end.
FullReads(fn) ==
    {i \in CountedReads(fn) :
        \A l \in LoopsAround(fn.body.nodes, i) :
           LET loop == fn.body.nodes[l]
           IN  /\ HasTop(loop) /\ InLoopBody(fn.body.nodes, l, i)
               /\ loop.kind = "while" => ~IsInclusive(loop.cond)}

\* Reads that are not counted more often than they are made: in no header of a
\* `for', and in no loop that does not run.
FairReads(fn) ==
    {i \in CountedReads(fn) :
        /\ \A l \in LoopsAround(fn.body.nodes, i) :
              LET loop == fn.body.nodes[l]
              IN  /\ HasTop(loop)
                  /\ loop.kind = "for" => InLoopBody(fn.body.nodes, l, i)
        /\ Trips(fn.body.nodes, i) # 0}

\* How often some reads of a function are made.
Made(fn, reads) ==
    LET upto[j \in 0..Len(fn.body.nodes)] ==
            IF j = 0 THEN 0
            ELSE IF j \in reads THEN upto[j - 1] + Trips(fn.body.nodes, j)
            ELSE upto[j - 1]
    IN  upto[Len(fn.body.nodes)]

IsOverBudget(k) == \E f \in Findings : f.rule = ReadBudget /\ f.entry = k

\* An entrypoint that can make more reads than the ceiling in the bodies of loops
\* that end at a literal is reported, whatever saturates or overflows on the way
\* (read_budget.rs:160-166). One that is reported can make more reads than the
\* ceiling, unless one of them is counted too often: in the header of a `for',
\* in a loop that counts down, or in one that never runs below an overflow.
\* Reads are counted here by the turns of the loops, a counter without a start
\* in its header beginning at zero, and not by the bounds the code takes.
EstimateJudgesTheReads ==
    pc = "done" /\ ReadBudget \in Loaded =>
        \A k \in 1..Len(file.fns) :
           LET fn == file.fns[k]
           IN  ~Exempt(fn) =>
                  /\ Made(fn, FullReads(fn)) > ReadCeiling => IsOverBudget(k)
                  /\ IsOverBudget(k) => \/ FairReads(fn) # CountedReads(fn)
                                        \/ Made(fn, FairReads(fn)) > ReadCeiling

\* Whether a read is inside a loop that is reported.
IsReported(k, i) ==
    \E f \in Findings :
       /\ f.rule = UnboundedStorageLoop /\ f.entry = k
       /\ f.from <= i /\ i <= f.to

\* The two rules about loops share the reads between them: one that is left out
\* of the estimate because it is in the body of a loop of unknown count is in a
\* loop that the other rule reports, though that rule skips the loops inside
\* one it has reported (unbounded_storage_loop.rs:69).
UncountedBodiesAreReported ==
    pc = "done" /\ UnboundedStorageLoop \in Loaded =>
        \A k \in 1..Len(file.fns) :
           ~Exempt(file.fns[k]) =>
              \A i \in Reads(file.fns[k].body) :
                 (\E l \in LoopsAround(file.fns[k].body.nodes, i) :
                     /\ StaticLoopBound(file.fns[k].body.nodes[l]) = None
                     /\ InLoopBody(file.fns[k].body.nodes, l, i))
                    => IsReported(k, i)

\* "Where one does not [have a statically known trip count], the count is not
\* estimated at all and is reported by unbounded_storage_loop instead"
\* (read_budget.rs:19-20): so said of every read, also of one in the header.
UncountedReadsAreReported ==
    pc = "done" /\ UnboundedStorageLoop \in Loaded =>
        \A k \in 1..Len(file.fns) :
           ~Exempt(file.fns[k]) =>
              \A i \in Reads(file.fns[k].body) :
                 ~IsBounded(file.fns[k].body.nodes, i) => IsReported(k, i)

\* A range written backwards in a loop of an entrypoint ends the walk of the
\* file in a panic (syntax.rs:752), and nothing else does: with it go the
\* findings of every detector that had come before.
PanicsExactlyOnReversedRange ==
    pc # "checking" /\ UnboundedStorageLoop \in Loaded =>
        (pc = "panicked" <=>
            \E k \in 1..Len(file.fns) :
               /\ ~Exempt(file.fns[k])
               /\ \E i \in At(file.fns[k].body) :
                     LET node == file.fns[k].body.nodes[i]
                     IN  /\ node.kind = "for" /\ node.iter # None
                         /\ node.iter.closed /\ node.iter.start # None
                         /\ node.iter.end # None /\ node.iter.end # MaxU64
                         /\ node.iter.end + 1 < node.iter.start)

=============================================================================
