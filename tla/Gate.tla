-------------------------------- MODULE Gate --------------------------------
(***************************************************************************)
(* soroban-analyze over the life of a repository: analyze in               *)
(* soroban-analyzer/src/main.rs with the configuration, the baseline file  *)
(* one run writes and later runs read, the report's four lists and the     *)
(* exit status, and the step of a workflow around it                       *)
(* (scripts/run-analysis.sh).  Between and during runs the repository      *)
(* changes: findings come and go, are marked as allowed, files stop        *)
(* parsing, the checkout moves; and a run may die at any point.            *)
(*                                                                         *)
(* An occurrence is a finding at its place: [rule, file, message, line].   *)
(* What a run prints is left out, and with it the order of its lists.      *)
(***************************************************************************)
EXTENDS Naturals, FiniteSets

CONSTANTS
  Occurrences,   \* what may be found in the repository
  Severity(_),   \* the severity of a rule, a number
  High,          \* Severity::High, the gate when nothing names one
  Places,        \* the directories the repository may be checked out in
  Projects,      \* its .soroban-analyzer.json, or that there is none
  Requests,      \* the command lines, and the inputs of the action
  Trees,         \* what may be in it to begin with
  MaxEdits,      \* how often it changes
  MaxRuns,       \* how often it is analysed
  None

Files == {o.file : o \in Occurrences}
Rules == {o.rule : o \in Occurrences}

\* What a baseline keeps of a finding, the file aside, which is not known
\* under the same name everywhere.
Key(o) == [rule |-> o.rule, file |-> o.file, message |-> o.message]
Keys == {Key(o) : o \in Occurrences}

\* A path that is given relative to the working directory stays so.
Relative == "."
Prefixes == Places \cup {Relative}

\* What a baseline entry has to agree on: rule, file as named, message.
Identity(o, under) ==
  [rule |-> o.rule, file |-> <<under, o.file>>, message |-> o.message]
Identities == {Identity(o, p) : o \in Occurrences, p \in Prefixes}

\* The status of a process that panics; one that is killed has another, and
\* the script tells them apart no more than this module does.
Died == 101

\* No status of a process: the script's shell could not open the files it
\* redirects the analyser to, and did not start it.
NotStarted == 256

ASSUME PlacesAssumption == Relative \notin Places

ASSUME SeverityAssumption ==
  High \in Nat /\ \A r \in Rules : Severity(r) \in Nat

ASSUME ProjectsAssumption ==
  \A p \in Projects :
    /\ p.config \in {"none", "unreadable", "readable"}
    /\ p.paths \in BOOLEAN /\ p.baseline \in BOOLEAN
    /\ p.severity \in Nat \cup {None}
    /\ p.disabled \subseteq Rules
    /\ p.config # "readable" =>
         ~p.paths /\ ~p.baseline /\ p.severity = None /\ p.disabled = {}

\* The script names a path and a severity and never writes.
ASSUME RequestsAssumption ==
  \A r \in Requests :
    /\ {r.paths, r.explicit, r.baseline, r.write, r.script, r.fail} \subseteq BOOLEAN
    /\ r.severity \in Nat \cup {None}
    /\ r.script => r.paths /\ ~r.explicit /\ ~r.write /\ r.severity # None

ASSUME TreesAssumption == \A T \in Trees : T \subseteq Occurrences

ASSUME BoundsAssumption == MaxEdits \in Nat /\ MaxRuns \in Nat

\* What a run recorded in a baseline, as reviewed remembers it.
Reviews == [keys : SUBSET Keys, under : Prefixes]

ASSUME NoneAssumption ==
  /\ None \notin Nat /\ None \notin {"passed", "failed"}
  /\ \A r \in Reviews : r # None

VARIABLES
  project,     \* the configuration file
  tree,        \* the occurrences in the repository
  marked,      \* those next to an allow marker
  broken,      \* the files that do not parse
  baseline,    \* the baseline file
  place,       \* where the checkout is
  edits, runs, \* how often it has changed and been analysed
  phase,       \* where the run is
  request,     \* its options
  prefix,      \* what the names of files begin with in this run
  found, suppressed, problems,   \* what analyze_paths returned
  excuses,     \* the baseline in memory, Absent without one
  report,      \* the lists of the Report
  stale,       \* the entries that match nothing
  status,      \* the exit status
  job          \* what became of the workflow's step

\* What the last complete baseline was written from: the keys of the findings
\* of that run and the prefix they had.  None when the file is not whole.
VARIABLE reviewed

repository == <<project, tree, marked, broken, place, edits>>
analysis == <<prefix, found, suppressed, problems>>
vars == <<project, tree, marked, broken, baseline, place, edits, runs, phase,
          request, prefix, found, suppressed, problems, excuses, report, stale,
          status, job, reviewed>>

Absent == [state |-> "absent", entries |-> {}]
Torn == [state |-> "torn", entries |-> {}]
Whole(entries) == [state |-> "whole", entries |-> entries]

NoReport == [findings |-> {}, suppressed |-> {}, baselined |-> {}, disabled |-> {}]

Init ==
  /\ project \in Projects
  /\ tree \in Trees
  /\ marked = {} /\ broken = {}
  /\ baseline = Absent
  /\ place \in Places
  /\ edits = 0 /\ runs = 0
  /\ phase = "idle"
  /\ request \in Requests
  /\ prefix = Relative
  /\ found = {} /\ suppressed = {} /\ problems = {}
  /\ excuses = Absent
  /\ report = NoReport
  /\ stale = {}
  /\ status = None
  /\ job = None
  /\ reviewed = None

-----------------------------------------------------------------------------
(* The repository *)

Edit ==
  /\ edits < MaxEdits
  /\ edits' = edits + 1
  /\ UNCHANGED <<project, baseline, runs, phase, request, analysis, excuses,
                 report, stale, status, job, reviewed>>

\* A finding appears or is fixed; a marker is put next to one or removed.
EditFinding ==
  /\ Edit
  /\ \E o \in Occurrences :
       \/ tree' = tree \cup {o} /\ UNCHANGED marked
       \/ tree' = tree \ {o} /\ UNCHANGED marked
       \/ marked' = marked \cup {o} /\ UNCHANGED tree
       \/ marked' = marked \ {o} /\ UNCHANGED tree
  /\ UNCHANGED <<broken, place>>

\* The same finding on another line.
MoveFinding ==
  /\ Edit
  /\ \E o \in tree, p \in Occurrences \ tree :
       Key(o) = Key(p) /\ tree' = (tree \ {o}) \cup {p}
  /\ UNCHANGED <<marked, broken, place>>

EditFile ==
  /\ Edit
  /\ \E f \in Files : broken' = IF f \in broken THEN broken \ {f} ELSE broken \cup {f}
  /\ UNCHANGED <<tree, marked, place>>

\* The next run is in another directory: another machine, a workflow.
Relocate ==
  /\ Edit
  /\ phase = "idle"
  /\ place' \in Places \ {place}
  /\ UNCHANGED <<tree, marked, broken>>

-----------------------------------------------------------------------------
(* analyze *)

Start ==
  /\ phase = "idle"
  /\ runs < MaxRuns
  /\ runs' = runs + 1
  /\ request' \in Requests
  /\ phase' = "configure"
  /\ prefix' = Relative
  /\ found' = {} /\ suppressed' = {} /\ problems' = {}
  /\ excuses' = Absent
  /\ report' = NoReport
  /\ stale' = {}
  /\ status' = None
  /\ job' = None
  /\ UNCHANGED <<repository, baseline, reviewed>>

Exit(code) == phase' = "ended" /\ status' = code

\* The configuration's own paths are joined to the directory it was found in,
\* which is the working directory in full unless --config named the file.
Prefix ==
  IF ~request.paths /\ project.paths /\ ~request.explicit THEN place ELSE Relative

HasBaseline == request.baseline \/ project.baseline

\* The command line's gate, else the configuration's, else high.
Threshold ==
  CASE request.severity # None -> request.severity
    [] request.severity = None /\ project.severity # None -> project.severity
    [] OTHER -> High

\* resolve_config, and what is refused once it is known.
Configure ==
  /\ phase = "configure"
  /\ IF \/ project.config = "unreadable"
        \/ project.config = "none" /\ request.explicit
        \/ request.write /\ ~HasBaseline
     THEN Exit(2)
     ELSE phase' = "analyse" /\ UNCHANGED status
  /\ UNCHANGED <<repository, baseline, runs, request, analysis, excuses,
                 report, stale, job, reviewed>>

\* analyze_paths, in one step: see AnalyzePaths.
Analyse ==
  /\ phase = "analyse"
  /\ prefix' = Prefix
  /\ found' = {o \in tree : o.file \notin broken /\ o \notin marked}
  /\ suppressed' = {o \in tree : o.file \notin broken /\ o \in marked}
  /\ problems' = broken
  /\ phase' = CASE ~HasBaseline -> "report"
                [] HasBaseline /\ request.write -> "write"
                [] HasBaseline /\ ~request.write -> "read"
  /\ UNCHANGED <<repository, baseline, runs, request, excuses, report, stale,
                 status, job, reviewed>>

\* Baseline::from_findings: one entry per identity.
FromFindings == {Identity(o, prefix) : o \in found}

\* std::fs::write empties the file before it fills it.
OpenBaseline ==
  /\ phase = "write"
  /\ \/ /\ baseline' = Torn
        /\ reviewed' = None
        /\ phase' = "writing"
        /\ UNCHANGED status
     \/ /\ Exit(2)
        /\ UNCHANGED <<baseline, reviewed>>
  /\ UNCHANGED <<repository, runs, request, analysis, excuses, report, stale, job>>

WriteBaseline ==
  /\ phase = "writing"
  /\ \/ /\ baseline' = Whole(FromFindings)
        /\ excuses' = Whole(FromFindings)
        /\ reviewed' = [keys |-> {Key(o) : o \in found}, under |-> prefix]
        /\ phase' = "report"
        /\ UNCHANGED status
     \/ /\ Exit(2)
        /\ UNCHANGED <<baseline, excuses, reviewed>>
  /\ UNCHANGED <<repository, runs, request, analysis, report, stale, job>>

\* Mutation: the file is taken as it is.
ReadUnchecked ==
  /\ phase = "read"
  /\ excuses' = baseline /\ phase' = "report"
  /\ UNCHANGED <<repository, baseline, runs, request, analysis, report, stale,
                 status, job, reviewed>>

\* Baseline::parse, of a file that has to be there and be whole.
ReadBaseline ==
  /\ phase = "read"
  /\ IF baseline.state = "whole"
     THEN excuses' = baseline /\ phase' = "report" /\ UNCHANGED status
     ELSE Exit(2) /\ UNCHANGED excuses
  /\ UNCHANGED <<repository, baseline, runs, request, analysis, report, stale,
                 job, reviewed>>

-----------------------------------------------------------------------------
(* The report *)

\* Mutation: a whole line has to match.
MatchesInPlace(o) == Identity(o, prefix) \in excuses.entries /\ o.line = 1

\* Baseline::matches.
Matches(o) == Identity(o, prefix) \in excuses.entries

\* with_baseline, then with_disabled_rules on what is left.
Baselined == {o \in found : Matches(o)}

\* Mutation: the list is taken from all findings.
DisabledOfAll == {o \in found : o.rule \in project.disabled}

DisabledOnly == {o \in found \ Baselined : o.rule \in project.disabled}

Gating == found \ (Baselined \cup DisabledOnly)

\* Mutation: suppressed findings count as found.
StaleOfAll ==
  excuses.entries \ {Identity(o, prefix) : o \in found \cup suppressed}

\* Baseline::stale, before anything is excused.
Stale == excuses.entries \ {Identity(o, prefix) : o \in found}

\* Report::exit_code.
ExitCode ==
  IF problems # {} \/ \E o \in Gating : Severity(o.rule) >= Threshold THEN 1 ELSE 0

Finish ==
  /\ phase = "report"
  /\ stale' = Stale
  /\ report' = [findings |-> Gating, suppressed |-> suppressed,
                baselined |-> Baselined, disabled |-> DisabledOnly]
  /\ Exit(ExitCode)
  /\ UNCHANGED <<repository, baseline, runs, request, analysis, excuses, job,
                 reviewed>>

\* A detector panics, or the process is killed.
Die ==
  /\ phase \in {"configure", "analyse", "write", "writing", "read", "report"}
  /\ Exit(Died)
  /\ UNCHANGED <<repository, baseline, runs, request, analysis, excuses,
                 report, stale, job, reviewed>>

\* What comes before the analyser in the script: an input it refuses, for
\* which it exits as after a status of 2, or a redirection that fails.
NeverStarts ==
  /\ phase = "configure"
  /\ request.script
  /\ Exit(2) \/ Exit(NotStarted)
  /\ UNCHANGED <<repository, baseline, runs, request, analysis, excuses,
                 report, stale, job, reviewed>>

\* What $? is after the analyser's line: 1 if a redirection failed.
ShellStatus == IF status = NotStarted THEN 1 ELSE status

\* Mutation: only findings fail the step.
StepFailsOnFindings == ShellStatus = 1 /\ request.fail

\* run-analysis.sh: 2 always fails, 1 unless it was asked not to.
StepFails == ShellStatus = 2 \/ (ShellStatus = 1 /\ request.fail)

Conclude ==
  /\ phase = "ended"
  /\ phase' = "idle"
  /\ job' = IF ~request.script THEN None ELSE IF StepFails THEN "failed" ELSE "passed"
  /\ UNCHANGED <<repository, baseline, runs, request, analysis, excuses,
                 report, stale, status, reviewed>>

Next ==
  \/ EditFinding \/ MoveFinding \/ EditFile \/ Relocate
  \/ Start \/ NeverStarts \/ Configure \/ Analyse
  \/ OpenBaseline \/ WriteBaseline \/ ReadBaseline
  \/ Finish \/ Die \/ Conclude

Spec == Init /\ [][Next]_vars

-----------------------------------------------------------------------------
\* The run has come to a report.
Reported == status \in {0, 1}

\* The types of the state.
TypeOK ==
  /\ project \in Projects
  /\ tree \subseteq Occurrences /\ marked \subseteq Occurrences
  /\ broken \subseteq Files
  /\ baseline \in [state : {"absent", "torn", "whole"}, entries : SUBSET Identities]
  /\ place \in Places
  /\ edits \in 0..MaxEdits /\ runs \in 0..MaxRuns
  /\ phase \in {"idle", "configure", "analyse", "write", "writing", "read",
                "report", "ended"}
  /\ request \in Requests
  /\ prefix \in Prefixes
  /\ found \subseteq Occurrences /\ suppressed \subseteq Occurrences
  /\ problems \subseteq Files
  /\ excuses \in [state : {"absent", "whole"}, entries : SUBSET Identities]
  /\ report \in [findings : SUBSET Occurrences, suppressed : SUBSET Occurrences,
                 baselined : SUBSET Occurrences, disabled : SUBSET Occurrences]
  /\ stale \subseteq Identities
  /\ status \in {0, 1, 2, Died, NotStarted, None}
  /\ job \in {"passed", "failed", None}
  /\ reviewed \in Reviews \cup {None}

\* "The excused findings are reported rather than dropped" (report.rs): what
\* the run came across is in exactly one of the four lists, and a finding
\* that is both recorded and of a disabled rule is in the baselined one.
EveryFindingIsAccountedFor ==
  Reported =>
    /\ report.findings \cup report.suppressed \cup report.baselined
         \cup report.disabled = found \cup suppressed
    /\ report.findings \cap (report.suppressed \cup report.baselined
                               \cup report.disabled) = {}
    /\ report.suppressed \cap (report.baselined \cup report.disabled) = {}
    /\ report.baselined \cap report.disabled = {}
    /\ \A o \in report.disabled : Identity(o, prefix) \notin excuses.entries

\* A finding at or above the gate that nobody has reviewed or excused.
NewAtTheGate ==
  \E o \in found :
    /\ Severity(o.rule) >= Threshold
    /\ o.rule \notin project.disabled
    /\ Key(o) \notin reviewed.keys

\* "Fails only on what is new" (baseline.rs): a run with a baseline fails
\* exactly when a file could not be analysed or it found something at the gate
\* that was not there when the baseline was last written, whatever has moved,
\* come or gone since and whatever became of the runs between; the run that
\* writes it passes.  Both runs name files in the same way.
FailsExactlyOnWhatIsNew ==
  Reported /\ HasBaseline =>
    /\ reviewed # None
    /\ reviewed.under = prefix => (status = 1 <=> problems # {} \/ NewAtTheGate)

\* "Entries that match nothing are counted" (baseline.rs): those of findings
\* that are no longer found, neither more nor fewer.
StaleEntriesAreTheGone ==
  Reported /\ HasBaseline /\ reviewed.under = prefix =>
    {[rule |-> e.rule, file |-> e.file[2], message |-> e.message] : e \in stale}
      = reviewed.keys \ {Key(o) : o \in found}

\* A step that is to fail on findings and passes has come to a report with
\* no hole and nothing at the gate that is not excused: a baseline that is
\* missing or half written never passes for an empty one, nor a redirection
\* that failed for a run.  One that is not to fail on findings has come to a
\* report when its analyser was started.  A run that died is another matter.
GreenStepHasNothingNew ==
  job = "passed" /\ status # Died =>
    /\ status # NotStarted => Reported
    /\ request.fail =>
         /\ Reported
         /\ problems = {}
         /\ \A o \in report.findings : Severity(o.rule) < Threshold
         /\ HasBaseline => reviewed # None

\* "A run of the analyser that could not run always fails the step ...: a
\* workflow that continues after the tool failed has published a green tick
\* over nothing" (README.md), whether it died or was never started.
GreenStepWasChecked == job = "passed" => Reported

\* What makes these inductive.  The file, when it is whole, holds what the run
\* that wrote it found, named as that run named it.
Recorded(keys, under) ==
  {[rule |-> k.rule, file |-> <<under, k.file>>, message |-> k.message] : k \in keys}

FileIsTheReviewed ==
  IF baseline.state = "whole"
  THEN reviewed # None /\ baseline.entries = Recorded(reviewed.keys, reviewed.under)
  ELSE reviewed = None

\* What a run goes by, from when it has a baseline until the next run.
ExcusesAreTheFile ==
  /\ phase \in {"configure", "analyse", "write", "writing", "read"} => excuses = Absent
  /\ phase = "report" \/ Reported =>
       /\ HasBaseline => baseline.state = "whole" /\ excuses = baseline
       /\ ~HasBaseline => excuses = Absent

Stages ==
  /\ phase \notin {"idle", "ended"} => status = None
  /\ phase = "ended" => status # None
  /\ phase \in {"write", "writing", "read"} => HasBaseline
  /\ job # None => phase = "idle"

ReportIsTheRuns ==
  /\ found \cap suppressed = {}
  /\ Reported =>
       /\ report = [findings |-> Gating, suppressed |-> suppressed,
                    baselined |-> Baselined, disabled |-> DisabledOnly]
       /\ stale = Stale
       /\ status = ExitCode

JobFollowsStatus == job = "passed" => status # None /\ ~StepFails

IInv ==
  /\ TypeOK
  /\ FileIsTheReviewed
  /\ ExcusesAreTheFile
  /\ Stages
  /\ ReportIsTheRuns
  /\ JobFollowsStatus
=============================================================================
