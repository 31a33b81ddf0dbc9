------------------------------ MODULE GateProof ------------------------------
(***************************************************************************)
(* Proofs about Gate for any repository, configuration and sequence of     *)
(* runs.  An action either leaves a part of the state alone, or is one of  *)
(* the few that set it; each part of IInv is kept by its own lemma.        *)
(***************************************************************************)
EXTENDS Gate, TLAPS

LEMMA OccurrenceTypes ==
  ASSUME NEW o \in Occurrences
  PROVE  /\ o.file \in Files /\ o.rule \in Rules /\ Key(o) \in Keys
         /\ \A p \in Prefixes : Identity(o, p) \in Identities
  BY DEF Files, Rules, Keys, Identities

LEMMA FromFindingsTyped == TypeOK => FromFindings \in SUBSET Identities
  BY OccurrenceTypes DEF TypeOK, FromFindings

LEMMA ListsTyped ==
  TypeOK => /\ Baselined \subseteq found /\ DisabledOnly \subseteq found
            /\ Gating \subseteq found
            /\ Stale \subseteq Identities
  BY DEF TypeOK, Baselined, DisabledOnly, Gating, Stale

LEMMA ThresholdTyped == TypeOK => Threshold \in Nat
<1> SUFFICES ASSUME TypeOK PROVE Threshold \in Nat
  OBVIOUS
<1>1. request.severity \in Nat \cup {None} /\ project.severity \in Nat \cup {None}
  BY ProjectsAssumption, RequestsAssumption DEF TypeOK
<1>2. High \in Nat
  BY SeverityAssumption
<1> QED
  BY <1>1, <1>2 DEF Threshold

LEMMA NoneIsNoStatus == None \notin {0, 1, 2, Died, NotStarted}
<1>1. None \notin Nat
  BY NoneAssumption
<1> QED
  BY <1>1 DEF Died, NotStarted

LEMMA NoneIsNoJob == None # "passed" /\ None # "failed"
  BY NoneAssumption

LEMMA InitHolds == Init => IInv
<1> SUFFICES ASSUME Init PROVE IInv
  OBVIOUS
<1>1. TypeOK
  <2>1. baseline \in [state : {"absent", "torn", "whole"}, entries : SUBSET Identities]
    BY DEF Init, Absent
  <2>2. excuses \in [state : {"absent", "whole"}, entries : SUBSET Identities]
    BY DEF Init, Absent
  <2>3. report \in [findings : SUBSET Occurrences, suppressed : SUBSET Occurrences,
                    baselined : SUBSET Occurrences, disabled : SUBSET Occurrences]
    BY DEF Init, NoReport
  <2>4. /\ project \in Projects /\ tree \subseteq Occurrences /\ marked \subseteq Occurrences
        /\ broken \subseteq Files /\ place \in Places
        /\ edits \in 0..MaxEdits /\ runs \in 0..MaxRuns
        /\ request \in Requests /\ prefix \in Prefixes
    BY TreesAssumption, BoundsAssumption DEF Init, Prefixes
  <2>5. /\ phase = "idle" /\ found = {} /\ suppressed = {} /\ problems = {}
        /\ stale = {} /\ status = None /\ job = None /\ reviewed = None
    BY DEF Init
  <2>6. QED
    BY <2>1, <2>2, <2>3, <2>4, <2>5 DEF TypeOK
<1>2. ~Reported
  <2>1. status = None
    BY DEF Init
  <2>2. QED
    BY <2>1, NoneIsNoStatus DEF Reported
<1>3. FileIsTheReviewed
  BY DEF Init, Absent, FileIsTheReviewed
<1>4. ExcusesAreTheFile /\ ReportIsTheRuns
  BY <1>2 DEF Init, ExcusesAreTheFile, ReportIsTheRuns
<1>5. Stages /\ JobFollowsStatus
  BY NoneIsNoJob DEF Init, Stages, JobFollowsStatus
<1>6. QED
  BY <1>1, <1>3, <1>4, <1>5 DEF IInv

\* What the lists and the exit status are computed from.
Basis == <<project, request, prefix, found, suppressed, problems, excuses>>

LEMMA SameBasis ==
  ASSUME UNCHANGED Basis
  PROVE  /\ HasBaseline' = HasBaseline /\ Threshold' = Threshold
         /\ Baselined' = Baselined /\ DisabledOnly' = DisabledOnly
         /\ Gating' = Gating /\ Stale' = Stale /\ ExitCode' = ExitCode
<1>1. HasBaseline' = HasBaseline /\ Threshold' = Threshold
  BY DEF Basis, HasBaseline, Threshold
<1>2. Baselined' = Baselined /\ Stale' = Stale
  BY DEF Basis, Baselined, Matches, Stale
<1>3. DisabledOnly' = DisabledOnly /\ Gating' = Gating
  BY <1>2 DEF Basis, DisabledOnly, Gating
<1>4. ExitCode' = ExitCode
  BY <1>1, <1>3 DEF Basis, ExitCode
<1> QED
  BY <1>1, <1>2, <1>3, <1>4

\* A step that leaves the run and its file alone.
LEMMA RunUnchanged ==
  ASSUME IInv, UNCHANGED Basis,
         UNCHANGED <<baseline, phase, report, stale, status, job, reviewed>>
  PROVE  /\ FileIsTheReviewed' /\ ExcusesAreTheFile' /\ Stages'
         /\ ReportIsTheRuns' /\ JobFollowsStatus'
<1>1. FileIsTheReviewed' /\ Stages'
  BY SameBasis DEF IInv, FileIsTheReviewed, Stages
<1>2. ExcusesAreTheFile'
  BY SameBasis DEF IInv, Basis, ExcusesAreTheFile, Reported
<1>3. ReportIsTheRuns'
  BY SameBasis DEF IInv, Basis, ReportIsTheRuns, Reported
<1>4. JobFollowsStatus'
  BY DEF IInv, Basis, JobFollowsStatus, StepFails, ShellStatus
<1> QED
  BY <1>1, <1>2, <1>3, <1>4

LEMMA EditKeeps ==
  IInv /\ (EditFinding \/ MoveFinding \/ EditFile \/ Relocate) => IInv'
<1> SUFFICES ASSUME IInv, EditFinding \/ MoveFinding \/ EditFile \/ Relocate
             PROVE  IInv'
  OBVIOUS
<1>1. Edit
  BY DEF EditFinding, MoveFinding, EditFile, Relocate
<1>2. /\ edits < MaxEdits /\ edits' = edits + 1
      /\ UNCHANGED <<baseline, runs, phase, report, stale, status, job, reviewed>>
      /\ UNCHANGED Basis
  BY <1>1 DEF Edit, analysis, Basis
<1>3. /\ tree' \subseteq Occurrences /\ marked' \subseteq Occurrences
      /\ broken' \subseteq Files /\ place' \in Places
  <2>1. /\ tree \subseteq Occurrences /\ marked \subseteq Occurrences
        /\ broken \subseteq Files /\ place \in Places
    BY DEF IInv, TypeOK
  <2>2. CASE EditFinding
    BY <2>1, <2>2 DEF EditFinding
  <2>3. CASE MoveFinding
    BY <2>1, <2>3 DEF MoveFinding
  <2>4. CASE EditFile
    BY <2>1, <2>4 DEF EditFile
  <2>5. CASE Relocate
    BY <2>1, <2>5 DEF Relocate
  <2>6. QED
    BY <2>2, <2>3, <2>4, <2>5
<1>4. edits' \in 0..MaxEdits
  BY <1>2, BoundsAssumption DEF IInv, TypeOK
<1>5. TypeOK'
  BY <1>2, <1>3, <1>4 DEF IInv, TypeOK, Basis
<1> QED
  BY <1>2, <1>5, RunUnchanged DEF IInv

\* The repository is left alone by every step of a run.
RepositoryTyped ==
  /\ project \in Projects
  /\ tree \subseteq Occurrences /\ marked \subseteq Occurrences
  /\ broken \subseteq Files /\ place \in Places
  /\ edits \in 0..MaxEdits

LEMMA RepositoryUnchanged ==
  ASSUME TypeOK, UNCHANGED repository
  PROVE  RepositoryTyped'
  BY DEF TypeOK, repository, RepositoryTyped

LEMMA StartKeeps == IInv /\ Start => IInv'
<1> SUFFICES ASSUME IInv, Start PROVE IInv'
  OBVIOUS
<1>1. /\ runs < MaxRuns /\ runs' = runs + 1 /\ request' \in Requests
      /\ phase' = "configure" /\ prefix' = Relative
      /\ found' = {} /\ suppressed' = {} /\ problems' = {}
      /\ excuses' = Absent /\ report' = NoReport /\ stale' = {}
      /\ status' = None /\ job' = None
      /\ UNCHANGED <<baseline, reviewed>>
      /\ RepositoryTyped'
  BY RepositoryUnchanged DEF Start, IInv
<1>2. TypeOK'
  <2>1. runs' \in 0..MaxRuns
    BY <1>1, BoundsAssumption DEF IInv, TypeOK
  <2>2. excuses' \in [state : {"absent", "whole"}, entries : SUBSET Identities]
    BY <1>1 DEF Absent
  <2>3. report' \in [findings : SUBSET Occurrences, suppressed : SUBSET Occurrences,
                     baselined : SUBSET Occurrences, disabled : SUBSET Occurrences]
    BY <1>1 DEF NoReport
  <2>4. prefix' \in Prefixes
    BY <1>1 DEF Prefixes
  <2>5. QED
    BY <1>1, <2>1, <2>2, <2>3, <2>4 DEF IInv, TypeOK, RepositoryTyped
<1>3. ~Reported'
  BY <1>1, NoneIsNoStatus DEF Reported
<1>4. FileIsTheReviewed'
  BY <1>1 DEF IInv, FileIsTheReviewed
<1>5. ExcusesAreTheFile' /\ ReportIsTheRuns'
  BY <1>1, <1>3 DEF ExcusesAreTheFile, ReportIsTheRuns
<1>6. Stages' /\ JobFollowsStatus'
  BY <1>1, NoneIsNoJob DEF Stages, JobFollowsStatus
<1> QED
  BY <1>2, <1>4, <1>5, <1>6 DEF IInv

\* A step within a run before its report: there is no status and no job yet.
Early == phase \notin {"idle", "ended"}

LEMMA NoStatusEarly == IInv /\ Early => ~Reported /\ status = None /\ job = None
  BY NoneIsNoStatus DEF IInv, Stages, Early, Reported

\* Where a run ends without a report.
LEMMA GivesUp ==
  ASSUME IInv, Early, phase' = "ended", status' \in {2, Died, NotStarted},
         UNCHANGED repository, UNCHANGED Basis,
         UNCHANGED <<runs, report, stale, job>>,
         FileIsTheReviewed',
         baseline' \in [state : {"absent", "torn", "whole"}, entries : SUBSET Identities],
         reviewed' \in Reviews \cup {None}
  PROVE  IInv'
<1>1. job' = None /\ job = None
  BY NoStatusEarly
<1>2. ~Reported'
  BY DEF Reported, Died, NotStarted
<1>3. TypeOK'
  BY <1>1, RepositoryUnchanged DEF IInv, TypeOK, Basis, RepositoryTyped
<1>4. ExcusesAreTheFile' /\ ReportIsTheRuns'
  BY <1>2 DEF IInv, ExcusesAreTheFile, ReportIsTheRuns, Basis
<1>5. Stages'
  BY <1>1, NoneIsNoStatus DEF Stages
<1>6. JobFollowsStatus'
  BY <1>1, NoneIsNoJob DEF JobFollowsStatus
<1> QED
  BY <1>3, <1>4, <1>5, <1>6 DEF IInv

LEMMA ConfigureKeeps == IInv /\ Configure => IInv'
<1> SUFFICES ASSUME IInv, Configure PROVE IInv'
  OBVIOUS
<1>1. /\ phase = "configure" /\ Early /\ UNCHANGED repository /\ UNCHANGED Basis
      /\ UNCHANGED <<baseline, runs, report, stale, job, reviewed>>
      /\ \/ phase' = "ended" /\ status' = 2
         \/ phase' = "analyse" /\ status' = status
  BY DEF Configure, Exit, Early, Basis, analysis, repository
<1>2. FileIsTheReviewed'
  BY <1>1 DEF IInv, FileIsTheReviewed
<1>3. CASE phase' = "ended" /\ status' = 2
  BY <1>1, <1>2, <1>3, GivesUp DEF IInv, TypeOK
<1>4. CASE phase' = "analyse" /\ status' = status
  <2>1. status' = None /\ job' = None /\ ~Reported'
    BY <1>1, <1>4, NoStatusEarly, NoneIsNoStatus DEF Reported
  <2>2. TypeOK'
    BY <1>1, <1>4, RepositoryUnchanged DEF IInv, TypeOK, Basis, RepositoryTyped
  <2>3. ExcusesAreTheFile' /\ ReportIsTheRuns'
    BY <1>1, <1>4, <2>1 DEF IInv, ExcusesAreTheFile, ReportIsTheRuns, Basis
  <2>4. Stages' /\ JobFollowsStatus'
    BY <1>4, <2>1, NoneIsNoJob DEF Stages, JobFollowsStatus
  <2>5. QED
    BY <1>2, <2>2, <2>3, <2>4 DEF IInv
<1> QED
  BY <1>1, <1>3, <1>4

LEMMA NeverStartsKeeps == IInv /\ NeverStarts => IInv'
<1> SUFFICES ASSUME IInv, NeverStarts PROVE IInv'
  OBVIOUS
<1>1. /\ Early /\ UNCHANGED repository /\ UNCHANGED Basis
      /\ UNCHANGED <<baseline, runs, report, stale, job, reviewed>>
      /\ phase' = "ended" /\ status' \in {2, NotStarted}
  BY DEF NeverStarts, Exit, Early, Basis, analysis, repository
<1>2. FileIsTheReviewed'
  BY <1>1 DEF IInv, FileIsTheReviewed
<1> QED
  BY <1>1, <1>2, GivesUp DEF IInv, TypeOK

LEMMA DieKeeps == IInv /\ Die => IInv'
<1> SUFFICES ASSUME IInv, Die PROVE IInv'
  OBVIOUS
<1>1. /\ Early /\ UNCHANGED repository /\ UNCHANGED Basis
      /\ UNCHANGED <<baseline, runs, report, stale, job, reviewed>>
      /\ phase' = "ended" /\ status' = Died
  BY DEF Die, Exit, Early, Basis, analysis, repository
<1>2. FileIsTheReviewed'
  BY <1>1 DEF IInv, FileIsTheReviewed
<1> QED
  BY <1>1, <1>2, GivesUp DEF IInv, TypeOK

LEMMA AnalyseKeeps == IInv /\ Analyse => IInv'
<1> SUFFICES ASSUME IInv, Analyse PROVE IInv'
  OBVIOUS
<1>1. /\ phase = "analyse" /\ Early
      /\ UNCHANGED <<baseline, runs, request, excuses, report, stale, status, job, reviewed>>
      /\ UNCHANGED repository
      /\ prefix' = Prefix
      /\ found' = {o \in tree : o.file \notin broken /\ o \notin marked}
      /\ suppressed' = {o \in tree : o.file \notin broken /\ o \in marked}
      /\ problems' = broken
  BY DEF Analyse, Early
<1>2. /\ phase' \in {"report", "write", "read"}
      /\ phase' = "report" <=> ~HasBaseline
  BY RequestsAssumption DEF Analyse, IInv, TypeOK
<1>3. status' = None /\ job' = None /\ ~Reported'
  BY <1>1, NoStatusEarly, NoneIsNoStatus DEF Reported
<1>4. HasBaseline' = HasBaseline
  BY <1>1 DEF HasBaseline, repository
<1>5. TypeOK'
  <2>1. prefix' \in Prefixes
    BY <1>1 DEF Prefix, Prefixes, IInv, TypeOK
  <2>2. found' \subseteq Occurrences /\ suppressed' \subseteq Occurrences /\ problems' \subseteq Files
    BY <1>1 DEF IInv, TypeOK
  <2>3. QED
    BY <1>1, <1>2, <2>1, <2>2, RepositoryUnchanged DEF IInv, TypeOK, RepositoryTyped
<1>6. FileIsTheReviewed'
  BY <1>1 DEF IInv, FileIsTheReviewed
<1>7. ExcusesAreTheFile'
  BY <1>1, <1>2, <1>3, <1>4 DEF IInv, ExcusesAreTheFile
<1>8. ReportIsTheRuns'
  BY <1>1, <1>3 DEF ReportIsTheRuns
<1>9. Stages' /\ JobFollowsStatus'
  BY <1>2, <1>3, <1>4, NoneIsNoJob DEF Stages, JobFollowsStatus
<1> QED
  BY <1>5, <1>6, <1>7, <1>8, <1>9 DEF IInv

LEMMA FromFindingsRecorded ==
  TypeOK => FromFindings = Recorded({Key(o) : o \in found}, prefix)
<1> DEFINE Entry(k) == [rule |-> k.rule, file |-> <<prefix, k.file>>, message |-> k.message]
<1>1. \A o \in found : Identity(o, prefix) = Entry(Key(o))
  BY DEF Identity, Key
<1>2. Recorded({Key(o) : o \in found}, prefix) = {Entry(k) : k \in {Key(o) : o \in found}}
  BY DEF Recorded
<1> HIDE DEF Entry
<1>3. {Entry(k) : k \in {Key(o) : o \in found}} = {Entry(Key(o)) : o \in found}
  OBVIOUS
<1>4. FromFindings = {Entry(Key(o)) : o \in found}
  BY <1>1 DEF FromFindings
<1> QED
  BY <1>2, <1>3, <1>4

\* What the run that writes the baseline leaves behind in memory and on disk.
LEMMA OpenBaselineKeeps == IInv /\ OpenBaseline => IInv'
<1> SUFFICES ASSUME IInv, OpenBaseline PROVE IInv'
  OBVIOUS
<1>1. /\ phase = "write" /\ Early /\ UNCHANGED repository /\ UNCHANGED Basis
      /\ UNCHANGED <<runs, report, stale, job>>
  BY DEF OpenBaseline, Early, Basis, analysis, repository
<1>2. CASE /\ baseline' = Torn /\ reviewed' = None /\ phase' = "writing"
           /\ status' = status
  <2>1. status' = None /\ job' = None /\ ~Reported'
    BY <1>1, <1>2, NoStatusEarly, NoneIsNoStatus DEF Reported
  <2>2. baseline' \in [state : {"absent", "torn", "whole"}, entries : SUBSET Identities]
    BY <1>2 DEF Torn
  <2>3. TypeOK'
    BY <1>1, <1>2, <2>2, RepositoryUnchanged DEF IInv, TypeOK, Basis, RepositoryTyped
  <2>4. FileIsTheReviewed'
    BY <1>2 DEF FileIsTheReviewed, Torn
  <2>5. ExcusesAreTheFile' /\ ReportIsTheRuns'
    BY <1>1, <1>2, <2>1 DEF IInv, ExcusesAreTheFile, ReportIsTheRuns, Basis
  <2>6. Stages' /\ JobFollowsStatus'
    BY <1>1, <1>2, <2>1, SameBasis, NoneIsNoJob DEF IInv, Stages, JobFollowsStatus
  <2>7. QED
    BY <2>3, <2>4, <2>5, <2>6 DEF IInv
<1>3. CASE phase' = "ended" /\ status' = 2 /\ UNCHANGED <<baseline, reviewed>>
  <2>1. FileIsTheReviewed'
    BY <1>3 DEF IInv, FileIsTheReviewed
  <2>2. QED
    BY <1>1, <1>3, <2>1, GivesUp DEF IInv, TypeOK
<1> QED
  BY <1>2, <1>3 DEF OpenBaseline, Exit

LEMMA WriteBaselineKeeps == IInv /\ WriteBaseline => IInv'
<1> SUFFICES ASSUME IInv, WriteBaseline PROVE IInv'
  OBVIOUS
<1>1. /\ phase = "writing" /\ Early /\ UNCHANGED repository
      /\ UNCHANGED <<runs, request, prefix, found, suppressed, problems>>
      /\ UNCHANGED <<report, stale, job>>
  BY DEF WriteBaseline, Early, analysis
<1>2. CASE /\ baseline' = Whole(FromFindings) /\ excuses' = Whole(FromFindings)
           /\ reviewed' = [keys |-> {Key(o) : o \in found}, under |-> prefix]
           /\ phase' = "report" /\ status' = status
  <2>1. status' = None /\ job' = None /\ ~Reported'
    BY <1>1, <1>2, NoStatusEarly, NoneIsNoStatus DEF Reported
  <2>2. /\ baseline' = [state |-> "whole", entries |-> FromFindings]
        /\ excuses' = [state |-> "whole", entries |-> FromFindings]
    BY <1>2 DEF Whole
  <2>3. reviewed' \in Reviews
    BY <1>2, OccurrenceTypes DEF IInv, TypeOK, Reviews
  <2>4. TypeOK'
    <3>1. FromFindings \in SUBSET Identities
      BY FromFindingsTyped DEF IInv
    <3>2. /\ baseline' \in [state : {"absent", "torn", "whole"}, entries : SUBSET Identities]
          /\ excuses' \in [state : {"absent", "whole"}, entries : SUBSET Identities]
      BY <2>2, <3>1
    <3>3. QED
      BY <1>1, <1>2, <2>3, <3>2, RepositoryUnchanged DEF IInv, TypeOK, RepositoryTyped
  <2>5. FileIsTheReviewed'
    <3>1. reviewed' # None
      BY <2>3, NoneAssumption
    <3>2. /\ reviewed'.keys = {Key(o) : o \in found} /\ reviewed'.under = prefix
      BY <1>2
    <3>3. FromFindings = Recorded(reviewed'.keys, reviewed'.under)
      BY <3>2, FromFindingsRecorded DEF IInv
    <3>4. QED
      BY <2>2, <3>1, <3>3 DEF FileIsTheReviewed, Recorded
  <2>6. HasBaseline
    BY <1>1 DEF IInv, Stages
  <2>7. HasBaseline'
    BY <1>1, <2>6 DEF HasBaseline, repository
  <2>8. ExcusesAreTheFile' /\ ReportIsTheRuns'
    BY <1>1, <1>2, <2>1, <2>2, <2>7 DEF IInv, ExcusesAreTheFile, ReportIsTheRuns
  <2>9. Stages' /\ JobFollowsStatus'
    BY <1>2, <2>1, NoneIsNoJob DEF Stages, JobFollowsStatus
  <2>10. QED
    BY <2>4, <2>5, <2>8, <2>9 DEF IInv
<1>3. CASE /\ phase' = "ended" /\ status' = 2
           /\ UNCHANGED <<baseline, excuses, reviewed>>
  <2>1. FileIsTheReviewed' /\ UNCHANGED Basis
    BY <1>1, <1>3 DEF IInv, FileIsTheReviewed, Basis, repository
  <2>2. QED
    BY <1>1, <1>3, <2>1, GivesUp DEF IInv, TypeOK
<1> QED
  BY <1>2, <1>3 DEF WriteBaseline, Exit

LEMMA ReadBaselineKeeps == IInv /\ ReadBaseline => IInv'
<1> SUFFICES ASSUME IInv, ReadBaseline PROVE IInv'
  OBVIOUS
<1>1. /\ phase = "read" /\ Early /\ UNCHANGED repository
      /\ UNCHANGED <<baseline, reviewed>>
      /\ UNCHANGED <<runs, request, prefix, found, suppressed, problems>>
      /\ UNCHANGED <<report, stale, job>>
  BY DEF ReadBaseline, Early, analysis
<1>2. FileIsTheReviewed'
  BY <1>1 DEF IInv, FileIsTheReviewed
<1>3. CASE /\ baseline.state = "whole" /\ excuses' = baseline
           /\ phase' = "report" /\ status' = status
  <2>1. status' = None /\ job' = None /\ ~Reported'
    BY <1>1, <1>3, NoStatusEarly, NoneIsNoStatus DEF Reported
  <2>2. TypeOK'
    <3>1. excuses' \in [state : {"absent", "whole"}, entries : SUBSET Identities]
      BY <1>3 DEF IInv, TypeOK
    <3>2. QED
      BY <1>1, <1>3, <3>1, RepositoryUnchanged DEF IInv, TypeOK, RepositoryTyped
  <2>3. HasBaseline'
    BY <1>1 DEF IInv, Stages, HasBaseline, repository
  <2>4. ExcusesAreTheFile' /\ ReportIsTheRuns'
    BY <1>1, <1>3, <2>1, <2>3 DEF IInv, ExcusesAreTheFile, ReportIsTheRuns
  <2>5. Stages' /\ JobFollowsStatus'
    BY <1>3, <2>1, NoneIsNoJob DEF Stages, JobFollowsStatus
  <2>6. QED
    BY <1>2, <2>2, <2>4, <2>5 DEF IInv
<1>4. CASE phase' = "ended" /\ status' = 2 /\ UNCHANGED excuses
  <2>1. UNCHANGED Basis
    BY <1>1, <1>4 DEF Basis, repository
  <2>2. QED
    BY <1>1, <1>2, <1>4, <2>1, GivesUp DEF IInv, TypeOK
<1> QED
  BY <1>3, <1>4 DEF ReadBaseline, Exit

LEMMA FinishKeeps == IInv /\ Finish => IInv'
<1> SUFFICES ASSUME IInv, Finish PROVE IInv'
  OBVIOUS
<1>1. /\ phase = "report" /\ Early /\ UNCHANGED repository /\ UNCHANGED Basis
      /\ UNCHANGED <<baseline, runs, job, reviewed>>
      /\ stale' = Stale
      /\ report' = [findings |-> Gating, suppressed |-> suppressed,
                    baselined |-> Baselined, disabled |-> DisabledOnly]
      /\ phase' = "ended" /\ status' = ExitCode
  BY DEF Finish, Exit, Early, Basis, analysis, repository
<1>2. job' = None /\ status' \in {0, 1}
  BY <1>1, NoStatusEarly DEF ExitCode
<1>3. TypeOK'
  <2>1. report' \in [findings : SUBSET Occurrences, suppressed : SUBSET Occurrences,
                     baselined : SUBSET Occurrences, disabled : SUBSET Occurrences]
    BY <1>1, ListsTyped DEF IInv, TypeOK
  <2>2. stale' \subseteq Identities
    BY <1>1, ListsTyped DEF IInv
  <2>3. QED
    BY <1>1, <1>2, <2>1, <2>2, RepositoryUnchanged DEF IInv, TypeOK, Basis, RepositoryTyped
<1>4. FileIsTheReviewed'
  BY <1>1 DEF IInv, FileIsTheReviewed
<1>5. ExcusesAreTheFile'
  BY <1>1, SameBasis DEF IInv, ExcusesAreTheFile, Basis
<1>6. ReportIsTheRuns'
  BY <1>1, SameBasis DEF IInv, ReportIsTheRuns, Basis
<1>7. Stages' /\ JobFollowsStatus'
  BY <1>1, <1>2, NoneIsNoStatus, NoneIsNoJob DEF Stages, JobFollowsStatus
<1> QED
  BY <1>3, <1>4, <1>5, <1>6, <1>7 DEF IInv

LEMMA ConcludeKeeps == IInv /\ Conclude => IInv'
<1> SUFFICES ASSUME IInv, Conclude PROVE IInv'
  OBVIOUS
<1>1. /\ phase = "ended" /\ phase' = "idle" /\ UNCHANGED repository /\ UNCHANGED Basis
      /\ UNCHANGED <<baseline, runs, report, stale, status, reviewed>>
      /\ job' \in {None, "failed", "passed"}
      /\ job' = "passed" => ~StepFails
  BY NoneIsNoJob DEF Conclude, Basis, analysis, repository
<1>2. status # None
  BY <1>1 DEF IInv, Stages
<1>3. TypeOK'
  BY <1>1, RepositoryUnchanged DEF IInv, TypeOK, Basis, RepositoryTyped
<1>4. FileIsTheReviewed' /\ Stages'
  BY <1>1, <1>2 DEF IInv, FileIsTheReviewed, Stages
<1>5. ExcusesAreTheFile' /\ ReportIsTheRuns'
  BY <1>1, SameBasis DEF IInv, ExcusesAreTheFile, ReportIsTheRuns, Reported, Basis
<1>6. JobFollowsStatus'
  BY <1>1, <1>2 DEF JobFollowsStatus, StepFails, ShellStatus, Basis
<1> QED
  BY <1>3, <1>4, <1>5, <1>6 DEF IInv

\* The state between and during the runs of soroban-analyze is always as IInv
\* says, for any repository, configuration, command lines and edits.
THEOREM GateInvariant == Spec => []IInv
<1>1. IInv /\ [Next]_vars => IInv'
  <2> SUFFICES ASSUME IInv, [Next]_vars PROVE IInv'
    OBVIOUS
  <2>1. CASE Next
    BY <2>1, EditKeeps, StartKeeps, NeverStartsKeeps, ConfigureKeeps, AnalyseKeeps, OpenBaselineKeeps,
       WriteBaselineKeeps, ReadBaselineKeeps, FinishKeeps, DieKeeps, ConcludeKeeps
       DEF Next
  <2>2. CASE UNCHANGED vars
    <3>1. /\ UNCHANGED <<baseline, phase, report, stale, status, job, reviewed>>
          /\ UNCHANGED Basis /\ UNCHANGED <<tree, marked, broken, place, edits, runs>>
      BY <2>2 DEF vars, Basis
    <3>2. TypeOK'
      BY <3>1 DEF IInv, TypeOK, Basis
    <3>3. QED
      BY <3>1, <3>2, RunUnchanged DEF IInv
  <2>3. QED
    BY <2>1, <2>2
<1> QED
  BY InitHolds, <1>1, PTL DEF Spec

\* The runs keep their types.
THEOREM TypeCorrect == Spec => []TypeOK
<1>1. IInv => TypeOK
  BY DEF IInv
<1> QED
  BY GateInvariant, <1>1, PTL

\* What a run came across is in exactly one of the report's four lists
\* (Report in report.rs).
THEOREM FindingsAreAccountedFor == Spec => []EveryFindingIsAccountedFor
<1>1. IInv => EveryFindingIsAccountedFor
  <2> SUFFICES ASSUME IInv, Reported
               PROVE  /\ report.findings \cup report.suppressed \cup report.baselined
                           \cup report.disabled = found \cup suppressed
                      /\ report.findings \cap (report.suppressed \cup report.baselined
                                                 \cup report.disabled) = {}
                      /\ report.suppressed \cap (report.baselined \cup report.disabled) = {}
                      /\ report.baselined \cap report.disabled = {}
                      /\ \A o \in report.disabled : Identity(o, prefix) \notin excuses.entries
    BY DEF EveryFindingIsAccountedFor
  <2>1. /\ report.findings = Gating /\ report.suppressed = suppressed
        /\ report.baselined = Baselined /\ report.disabled = DisabledOnly
        /\ found \cap suppressed = {}
    BY DEF IInv, ReportIsTheRuns
  <2>2. /\ Baselined \subseteq found /\ DisabledOnly \subseteq found \ Baselined
        /\ Gating = found \ (Baselined \cup DisabledOnly)
    BY DEF Baselined, DisabledOnly, Gating
  <2>3. \A o \in found : o \notin Baselined => Identity(o, prefix) \notin excuses.entries
    BY DEF Baselined, Matches
  <2>4. QED
    BY <2>1, <2>2, <2>3
<1> QED
  BY GateInvariant, <1>1, PTL

\* A finding matches the baseline when its key was reviewed under the name the
\* run gives its file.
LEMMA MatchesReviewed ==
  ASSUME IInv, Reported, HasBaseline, NEW o \in Occurrences, reviewed.under = prefix
  PROVE  Matches(o) <=> Key(o) \in reviewed.keys
<1>1. /\ excuses = baseline
      /\ reviewed \in Reviews
      /\ baseline.entries = Recorded(reviewed.keys, prefix)
  BY DEF IInv, ExcusesAreTheFile, FileIsTheReviewed, TypeOK
<1> DEFINE Entry(k) == [rule |-> k.rule, file |-> <<prefix, k.file>>, message |-> k.message]
<1>2. excuses.entries = {Entry(k) : k \in reviewed.keys}
  BY <1>1 DEF Recorded
<1>3. Identity(o, prefix) = Entry(Key(o))
  BY DEF Identity, Key
<1>4. ASSUME NEW k \in reviewed.keys, Entry(k) = Entry(Key(o))
      PROVE  k = Key(o)
  <2>1. PICK p \in Occurrences : k = Key(p)
    BY <1>1 DEF Reviews, Keys
  <2>2. k.rule = o.rule /\ <<prefix, k.file>> = <<prefix, o.file>> /\ k.message = o.message
    BY <1>4 DEF Key
  <2>3. k.file = o.file
    BY <2>2
  <2>4. QED
    BY <2>1, <2>2, <2>3 DEF Key
<1> HIDE DEF Entry
<1> QED
  BY <1>2, <1>3, <1>4 DEF Matches

LEMMA BaselineReviewed ==
  IInv /\ Reported /\ HasBaseline => reviewed # None /\ reviewed \in Reviews
  BY DEF IInv, ExcusesAreTheFile, FileIsTheReviewed, TypeOK

\* A run with a baseline fails exactly on a file it could not analyse or on a
\* finding at the gate that was not reviewed ("fails only on what is new",
\* baseline.rs), over any sequence of edits, runs and deaths of runs.
THEOREM RatchetHolds == Spec => []FailsExactlyOnWhatIsNew
<1>1. IInv => FailsExactlyOnWhatIsNew
  <2> SUFFICES ASSUME IInv, Reported, HasBaseline, reviewed.under = prefix
               PROVE  status = 1 <=> problems # {} \/ NewAtTheGate
    BY BaselineReviewed DEF FailsExactlyOnWhatIsNew
  <2>1. status = 1 <=> problems # {} \/ \E o \in Gating : Severity(o.rule) >= Threshold
    BY DEF IInv, ReportIsTheRuns, ExitCode
  <2>2. \A o \in found : o \in Gating <=> ~Matches(o) /\ o.rule \notin project.disabled
    BY DEF Gating, Baselined, DisabledOnly
  <2>3. \A o \in found : Matches(o) <=> Key(o) \in reviewed.keys
    BY MatchesReviewed DEF IInv, TypeOK
  <2>4. (\E o \in Gating : Severity(o.rule) >= Threshold) <=> NewAtTheGate
    <3>1. Gating \subseteq found
      BY DEF Gating
    <3>2. QED
      BY <2>2, <2>3, <3>1 DEF NewAtTheGate
  <2>5. QED
    BY <2>1, <2>4
<1> QED
  BY GateInvariant, <1>1, PTL

\* The entries counted as stale are those of findings that are gone
\* (Baseline::stale).
THEOREM StaleEntriesAreGone == Spec => []StaleEntriesAreTheGone
<1>1. IInv => StaleEntriesAreTheGone
  <2> DEFINE KeyOf(e) == [rule |-> e.rule, file |-> e.file[2], message |-> e.message]
             Entry(k) == [rule |-> k.rule, file |-> <<prefix, k.file>>, message |-> k.message]
  <2> SUFFICES ASSUME IInv, Reported, HasBaseline, reviewed.under = prefix
               PROVE  {KeyOf(e) : e \in stale} = reviewed.keys \ {Key(o) : o \in found}
    BY DEF StaleEntriesAreTheGone
  <2>1. /\ stale = excuses.entries \ {Identity(o, prefix) : o \in found}
        /\ excuses.entries = {Entry(k) : k \in reviewed.keys}
        /\ reviewed.keys \subseteq Keys
    BY BaselineReviewed
       DEF IInv, ReportIsTheRuns, Stale, ExcusesAreTheFile, FileIsTheReviewed,
           Recorded, Reviews
  <2>2. \A k \in Keys : KeyOf(Entry(k)) = k
    BY DEF Keys, Key
  <2>3. \A o \in found : Identity(o, prefix) = Entry(Key(o)) /\ Key(o) \in Keys
    BY OccurrenceTypes DEF IInv, TypeOK, Identity, Key
  <2> HIDE DEF KeyOf, Entry
  <2>4. ASSUME NEW k \in reviewed.keys, k \notin {Key(o) : o \in found}
        PROVE  k \in {KeyOf(e) : e \in stale}
    <3>1. Entry(k) \in excuses.entries /\ k \in Keys
      BY <2>1
    <3>2. \A o \in found : Identity(o, prefix) # Entry(k)
      BY <2>2, <2>3, <2>4, <3>1
    <3>3. Entry(k) \in stale
      BY <2>1, <3>1, <3>2
    <3>4. QED
      BY <2>2, <3>1, <3>3
  <2>5. ASSUME NEW e \in stale
        PROVE  KeyOf(e) \in reviewed.keys \ {Key(o) : o \in found}
    <3>1. PICK k \in reviewed.keys : e = Entry(k)
      BY <2>1
    <3>2. KeyOf(e) = k
      BY <2>1, <2>2, <3>1
    <3>3. \A o \in found : Key(o) # k
      BY <2>1, <2>3, <3>1
    <3>4. QED
      BY <3>2, <3>3
  <2>6. QED
    BY <2>4, <2>5
<1> QED
  BY GateInvariant, <1>1, PTL

\* A step of a workflow that is to fail on findings and passes, its run not
\* having died, has come to a report without holes or anything unexcused at
\* the gate; one that is not to, to a report if its analyser was started
\* (run-analysis.sh).
THEOREM GreenMeansNothingNew == Spec => []GreenStepHasNothingNew
<1>1. IInv => GreenStepHasNothingNew
  <2> SUFFICES ASSUME IInv, job = "passed", status # Died
               PROVE  /\ status # NotStarted => Reported
                      /\ request.fail =>
                           /\ Reported
                           /\ problems = {}
                           /\ \A o \in report.findings : Severity(o.rule) < Threshold
                           /\ HasBaseline => reviewed # None
    BY DEF GreenStepHasNothingNew
  <2>1. status # None /\ ShellStatus # 2 /\ ~(ShellStatus = 1 /\ request.fail)
    BY DEF IInv, JobFollowsStatus, StepFails
  <2>2. status # NotStarted => Reported
    BY <2>1 DEF IInv, TypeOK, Reported, ShellStatus
  <2>3. ASSUME request.fail
        PROVE  /\ Reported /\ problems = {}
               /\ \A o \in report.findings : Severity(o.rule) < Threshold
    <3>1. status # NotStarted /\ status # 1 /\ Reported
      BY <2>1, <2>2, <2>3 DEF ShellStatus
    <3>2. status = 0 /\ status = ExitCode /\ report.findings = Gating
      BY <3>1 DEF IInv, ReportIsTheRuns, Reported
    <3>3. problems = {} /\ \A o \in Gating : ~(Severity(o.rule) >= Threshold)
      BY <3>2 DEF ExitCode
    <3>4. Threshold \in Nat /\ \A o \in Gating : Severity(o.rule) \in Nat
      BY ThresholdTyped, ListsTyped, OccurrenceTypes, SeverityAssumption DEF IInv, TypeOK
    <3>5. QED
      BY <3>1, <3>2, <3>3, <3>4
  <2>4. QED
    BY <2>2, <2>3, BaselineReviewed
<1> QED
  BY GateInvariant, <1>1, PTL
=============================================================================
