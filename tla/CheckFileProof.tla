---------------------------- MODULE CheckFileProof --------------------------
(***************************************************************************)
(* For every file and every set of rule files: the state of check_file     *)
(* keeps its shape, every loop of unknown count that touches storage is    *)
(* inside a reported one, though a loop inside a reported one is skipped,  *)
(* a walk panics when, and only when, it meets a reversed range, what is   *)
(* returned is what the rules are about, on the lists the markers say, and *)
(* an entrypoint is over the ceiling when the true count of its reads is.  *)
(***************************************************************************)
EXTENDS CheckFile, OrderingProof

\* The loop rule is the fourth of the five detectors.
LEMMA RegistryFacts ==
  /\ Len(Registry) = 5
  /\ Registry[4] = UnboundedStorageLoop
  /\ \A k \in 1..5 : Registry[k] = UnboundedStorageLoop => k = 4
BY DEF Registry, MissingRequireAuth, ReadBudget, StorageDurability, UnboundedStorageLoop,
       UncheckedArithmetic

\* What a sink holds, on either list.
Reported == sink.findings \cup sink.suppressed

LoopNode(k, l) ==
  /\ ~Exempt(file.fns[k])
  /\ l \in At(file.fns[k].body)
  /\ IsUnboundedLoop(file.fns[k].body.nodes, l)

Inside(k, l, findings) ==
  \E f \in findings :
    /\ f.rule = UnboundedStorageLoop /\ f.entry = k
    /\ f.from \in Nat /\ f.to \in Nat
    /\ f.from <= l /\ file.fns[k].body.nodes[l].end <= f.to

\* Node l of function k is behind the walk.
Sound(k, l, findings) ==
  /\ LoopNode(k, l) => Inside(k, l, findings)
  /\ ~Exempt(file.fns[k]) => ~Underflows(file.fns[k].body.nodes[l])

\* Every loop range kept by the detector is a finding of this entrypoint.
SpansAreReported ==
  \A s \in spans :
    \E f \in Reported :
      /\ f.rule = UnboundedStorageLoop /\ f.entry = e
      /\ f.from = s[1] /\ f.to = s[2] /\ f.from \in Nat /\ f.to \in Nat

Shape ==
  /\ TypeOK
  /\ file \in Files
  /\ pc = "done" => d = 6
  /\ e # 0 => d <= 5 /\ Registry[d] \in Loaded

WalkIsSound ==
  e # 0 /\ d = 4 =>
    /\ \A k \in 1..Len(file.fns) :
         k < e => \A l \in At(file.fns[k].body) : Sound(k, l, Reported)
    /\ n # 0 => /\ ~Exempt(Entry)
                /\ SpansAreReported
                /\ \A l \in At(Entry.body) : l < n => Sound(e, l, Reported)

ResultIsSound ==
  d > 4 /\ UnboundedStorageLoop \in Loaded =>
    \A k \in 1..Len(file.fns) : \A l \in At(file.fns[k].body) : Sound(k, l, Findings)

\* A panic has a reversed range to blame.
PanicIsDue ==
  pc = "panicked" =>
    \E k \in 1..Len(file.fns) :
      ~Exempt(file.fns[k]) /\ \E l \in At(file.fns[k].body) :
                                 Underflows(file.fns[k].body.nodes[l])

\* The function entered is an entrypoint.
EnteredOnly == n # 0 => ~Exempt(Entry)

WalkInv == Shape /\ WalkIsSound /\ ResultIsSound /\ PanicIsDue /\ EnteredOnly

-----------------------------------------------------------------------------
\* Whichever list it goes to, a finding is added to what is reported.
LEMMA ReportAdds ==
  ASSUME TypeOK, NEW f, Report(f)
  PROVE  /\ Reported' = Reported \cup {f}
         /\ DOMAIN sink' = {"findings", "suppressed"}
BY DEF TypeOK, Report, Reported

LEMMA SameSink == ASSUME UNCHANGED sink PROVE Reported' = Reported
BY DEF Reported

\* More findings excuse no node.
LEMMA SoundGrows ==
  ASSUME NEW k, NEW l, NEW F, NEW G, F \subseteq G, Sound(k, l, F)
  PROVE  Sound(k, l, G)
BY DEF Sound, Inside

\* The file stays, and so does what is said of it.
LEMMA SameFile ==
  ASSUME UNCHANGED <<file, sources>>
  PROVE  /\ Loaded' = Loaded
         /\ \A k : Exempt(file.fns[k])' = Exempt(file.fns[k])
         /\ \A k, l, F : Sound(k, l, F)' = Sound(k, l, F)
BY DEF Loaded, Exempt, Sound, LoopNode, Inside

\* Steps that leave the detector and the result alone keep what was returned.
LEMMA ResultStays ==
  ASSUME ResultIsSound, UNCHANGED <<file, sources, d, result>>
  PROVE  ResultIsSound'
<1>1. Findings' = Findings
  BY DEF Findings
<1>2. QED
  BY <1>1, SameFile DEF ResultIsSound

\* Steps that go on checking blame nobody, and neither does standing still.
LEMMA PanicStays ==
  ASSUME PanicIsDue, UNCHANGED file, pc' # "panicked" \/ UNCHANGED pc
  PROVE  PanicIsDue'
BY DEF PanicIsDue, Exempt

LEMMA Lengths ==
  ASSUME Shape
  PROVE  /\ Len(file.fns) \in Nat
         /\ \A k \in 1..Len(file.fns) :
              /\ Len(file.fns[k].body.nodes) \in Nat
              /\ At(file.fns[k].body) = 1..Len(file.fns[k].body.nodes)
              /\ \A l \in At(file.fns[k].body) : file.fns[k].body.nodes[l].end \in Nat
BY FilesAssumption DEF Shape, At

-----------------------------------------------------------------------------
LEMMA InitIsSound == Init => WalkInv
<1> SUFFICES ASSUME Init PROVE WalkInv
  OBVIOUS
<1>1. Shape
  BY RegistryFacts, FilesAssumption, MaxU64Assumption
     DEF Init, Shape, TypeOK, NoEstimate, Estimates, Nothing
<1>2. QED
  BY <1>1 DEF Init, WalkInv, WalkIsSound, ResultIsSound, PanicIsDue, EnteredOnly

(***************************************************************************)
(* From detector to detector.                                              *)
(***************************************************************************)
LEMMA SkipDetectorStep == ASSUME WalkInv, SkipDetector PROVE WalkInv'
<1> USE DEF SkipDetector, BetweenDetectors
<1>0. Shape /\ d \in 1..6 /\ d <= 5
  BY RegistryFacts DEF WalkInv, Shape, TypeOK
<1>1. Shape'
  BY <1>0, RegistryFacts DEF Shape, TypeOK, Nodes, Entry, Loaded
<1>2. WalkIsSound'
  BY DEF WalkIsSound
<1>3. ResultIsSound'
  <2>1. Findings' = Findings
    BY DEF Findings
  <2>2. CASE d = 4
    BY <2>2, RegistryFacts, SameFile DEF ResultIsSound
  <2>3. CASE d # 4
    <3>1. d' > 4 => d > 4
      BY <1>0, <2>3
    <3>2. QED
      BY <3>1, <2>1, SameFile DEF ResultIsSound, WalkInv
  <2>4. QED
    BY <2>2, <2>3
<1>4. PanicIsDue' /\ EnteredOnly'
  BY PanicStays DEF WalkInv, EnteredOnly, Entry, Exempt
<1>5. QED
  BY <1>1, <1>2, <1>3, <1>4 DEF WalkInv

LEMMA BeginDetectorStep == ASSUME WalkInv, BeginDetector PROVE WalkInv'
<1> USE DEF BeginDetector, BetweenDetectors
<1>0. Shape /\ d \in 1..5 /\ n = 0 /\ Len(file.fns) \in Nat
  BY RegistryFacts, Lengths DEF WalkInv, Shape, TypeOK
<1>1. Shape'
  BY <1>0, RegistryFacts DEF Shape, TypeOK, Nodes, Entry, Loaded, Nothing
<1>2. WalkIsSound'
  BY <1>0 DEF WalkIsSound
<1>3. ResultIsSound'
  BY ResultStays DEF WalkInv
<1>4. PanicIsDue' /\ EnteredOnly'
  BY <1>0, PanicStays DEF WalkInv, EnteredOnly
<1>5. QED
  BY <1>1, <1>2, <1>3, <1>4 DEF WalkInv

LEMMA EndDetectorStep == ASSUME WalkInv, EndDetector PROVE WalkInv'
<1> USE DEF EndDetector
<1>0. /\ Shape /\ Len(file.fns) \in Nat /\ e # 0 /\ n = 0
      /\ d \in 1..5 /\ Registry[d] \in Loaded
  BY RegistryFacts, Lengths DEF WalkInv, Shape, TypeOK
<1>1. Shape'
  BY <1>0, RegistryFacts DEF Shape, TypeOK, Nodes, Entry, Loaded
<1>2. WalkIsSound'
  BY DEF WalkIsSound
<1>3. ResultIsSound'
  <2>1. Findings' = Findings \cup Reported
    BY DEF Findings, Reported
  <2>2. SUFFICES ASSUME d' > 4, UnboundedStorageLoop \in Loaded,
                        NEW k \in 1..Len(file.fns), NEW l \in At(file.fns[k].body)
                 PROVE  Sound(k, l, Findings')
    BY SameFile DEF ResultIsSound
  <2>3. CASE d = 4
    <3>1. Sound(k, l, Reported)
      BY <2>3, <1>0 DEF WalkInv, WalkIsSound
    <3>2. QED
      BY <3>1, <2>1, SoundGrows
  <2>4. CASE d # 4
    <3>1. Sound(k, l, Findings)
      BY <2>4, <2>2, <1>0 DEF WalkInv, ResultIsSound
    <3>2. QED
      BY <3>1, <2>1, SoundGrows
  <2>5. QED
    BY <2>3, <2>4
<1>4. PanicIsDue' /\ EnteredOnly'
  BY <1>0, PanicStays DEF WalkInv, EnteredOnly
<1>5. QED
  BY <1>1, <1>2, <1>3, <1>4 DEF WalkInv

LEMMA ReturnStep == ASSUME WalkInv, ReturnFindings PROVE WalkInv'
<1> USE DEF ReturnFindings
<1>1. Shape'
  BY RegistryFacts DEF WalkInv, Shape, TypeOK, Nodes, Entry, Loaded
<1>2. WalkIsSound'
  BY DEF WalkIsSound
<1>3. ResultIsSound'
  BY ResultStays DEF WalkInv
<1>4. PanicIsDue' /\ EnteredOnly'
  BY PanicStays DEF WalkInv, EnteredOnly, Entry, Exempt
<1>5. QED
  BY <1>1, <1>2, <1>3, <1>4 DEF WalkInv

(***************************************************************************)
(* From entrypoint to entrypoint.                                          *)
(***************************************************************************)
LEMMA SkipEntryStep == ASSUME WalkInv, SkipEntry PROVE WalkInv'
<1> USE DEF SkipEntry, AtEntry
<1>0. Shape /\ Len(file.fns) \in Nat /\ d \in 1..5
  BY RegistryFacts, Lengths DEF WalkInv, Shape, TypeOK
<1>1. Shape'
  BY <1>0 DEF WalkInv, Shape, TypeOK, Nodes, Entry, Loaded
<1>2. WalkIsSound'
  <2>1. SUFFICES ASSUME d = 4, NEW k \in 1..Len(file.fns), k < e + 1,
                        NEW l \in At(file.fns[k].body)
                 PROVE  Sound(k, l, Reported)
    BY SameFile, SameSink DEF WalkIsSound
  <2>2. CASE k = e
    BY <2>2 DEF Entry, Sound, LoopNode
  <2>3. CASE k < e
    BY <2>1, <2>3 DEF WalkInv, WalkIsSound
  <2>4. QED
    BY <2>1, <2>2, <2>3
<1>3. ResultIsSound'
  BY ResultStays DEF WalkInv
<1>4. PanicIsDue' /\ EnteredOnly'
  BY PanicStays DEF WalkInv, EnteredOnly
<1>5. QED
  BY <1>1, <1>2, <1>3, <1>4 DEF WalkInv

LEMMA CheckAuthStep == ASSUME WalkInv, CheckAuth PROVE WalkInv'
<1> USE DEF CheckAuth, AtEntry
<1>0. Shape /\ TypeOK /\ Len(file.fns) \in Nat /\ d \in 1..5
  BY RegistryFacts, Lengths DEF WalkInv, Shape, TypeOK
<1>1. DOMAIN sink' = {"findings", "suppressed"}
  BY <1>0, ReportAdds DEF TypeOK
<1>2. Shape'
  BY <1>0, <1>1 DEF WalkInv, Shape, TypeOK, Nodes, Entry, Loaded
<1>3. WalkIsSound'
  <2>1. d # 4
    BY RegistryFacts DEF MissingRequireAuth, UnboundedStorageLoop
  <2>2. QED
    BY <2>1 DEF WalkIsSound
<1>4. ResultIsSound'
  BY ResultStays DEF WalkInv
<1>5. PanicIsDue' /\ EnteredOnly'
  BY PanicStays DEF WalkInv, EnteredOnly
<1>6. QED
  BY <1>2, <1>3, <1>4, <1>5 DEF WalkInv

LEMMA EnterEntryStep == ASSUME WalkInv, EnterEntry PROVE WalkInv'
<1> USE DEF EnterEntry, AtEntry
<1>0. Shape /\ Len(file.fns) \in Nat /\ d \in 1..5
      /\ Len(Nodes) \in Nat /\ At(Entry.body) = 1..Len(Nodes)
  BY RegistryFacts, Lengths DEF WalkInv, Shape, TypeOK, Nodes, Entry
<1>1. Shape'
  <2>1. Nodes' = Nodes
    BY DEF Nodes, Entry
  <2>2. TypeOK'
    BY <2>1, <1>0, MaxU64Assumption DEF Shape, TypeOK, NoEstimate, Estimates
  <2>3. QED
    BY <2>2 DEF WalkInv, Shape, Loaded
<1>2. WalkIsSound'
  <2>1. Entry' = Entry /\ ~Exempt(Entry)'
    BY DEF Entry, Exempt
  <2>2. SpansAreReported'
    BY DEF SpansAreReported
  <2>3. SUFFICES ASSUME d = 4
                 PROVE  /\ \A k \in 1..Len(file.fns) :
                             k < e => \A l \in At(file.fns[k].body) : Sound(k, l, Reported)
                        /\ \A l \in At(Entry.body) : l < 1 => Sound(e, l, Reported)
    BY <2>1, <2>2, SameFile, SameSink DEF WalkIsSound
  <2>4. QED
    BY <2>3, <1>0 DEF WalkInv, WalkIsSound
<1>3. ResultIsSound'
  BY ResultStays DEF WalkInv
<1>4. PanicIsDue' /\ EnteredOnly'
  BY PanicStays DEF WalkInv, EnteredOnly, Entry, Exempt
<1>5. QED
  BY <1>1, <1>2, <1>3, <1>4 DEF WalkInv

LEMMA LeaveEntryStep == ASSUME WalkInv, LeaveEntry PROVE WalkInv'
<1> USE DEF LeaveEntry
<1>0. Shape /\ TypeOK /\ Len(file.fns) \in Nat /\ d \in 1..5
      /\ Len(Nodes) \in Nat /\ At(Entry.body) = 1..Len(Nodes)
  <2>1. Shape /\ TypeOK /\ d \in 1..5
    BY RegistryFacts DEF WalkInv, Shape, TypeOK
  <2>2. QED
    BY <2>1, Lengths DEF Nodes, Entry
<1>1. DOMAIN sink' = {"findings", "suppressed"}
  BY <1>0, ReportAdds DEF TypeOK
<1>2. Shape'
  BY <1>0, <1>1 DEF WalkInv, Shape, TypeOK, Nodes, Entry, Loaded
<1>3. WalkIsSound'
  <2>1. d = 4 => UNCHANGED sink
    BY RegistryFacts DEF ReadBudget, UnboundedStorageLoop
  <2>2. SUFFICES ASSUME d = 4, NEW k \in 1..Len(file.fns), k < e + 1,
                        NEW l \in At(file.fns[k].body)
                 PROVE  Sound(k, l, Reported)
    BY <2>1, SameFile, SameSink DEF WalkIsSound
  <2>3. CASE k = e
    <3>1. l < n
      BY <2>3, <1>0 DEF Entry
    <3>2. QED
      BY <3>1, <2>2, <2>3, <1>0 DEF WalkInv, WalkIsSound, Entry
  <2>4. CASE k < e
    BY <2>2, <2>4 DEF WalkInv, WalkIsSound
  <2>5. QED
    BY <2>2, <2>3, <2>4
<1>4. ResultIsSound'
  BY ResultStays DEF WalkInv
<1>5. PanicIsDue' /\ EnteredOnly'
  BY PanicStays DEF WalkInv, EnteredOnly
<1>6. QED
  BY <1>2, <1>3, <1>4, <1>5 DEF WalkInv

(***************************************************************************)
(* From node to node.                                                      *)
(***************************************************************************)
\* Where the walk is when it is at a node.
LEMMA AtNodeFacts ==
  ASSUME WalkInv, NEW detector, AtNode(detector)
  PROVE  /\ Shape /\ TypeOK /\ d \in 1..5 /\ Registry[d] = detector
         /\ e \in 1..Len(file.fns) /\ e \in Nat /\ e # 0
         /\ n \in Nat /\ n # 0 /\ n \in At(Entry.body)
         /\ Len(Nodes) \in Nat /\ At(Entry.body) = 1..Len(Nodes)
         /\ Nodes[n].end \in Nat
         /\ ~Exempt(Entry)
<1>1. Shape /\ TypeOK /\ d \in 1..5 /\ e \in 1..Len(file.fns) /\ n \in 1..Len(Nodes)
  BY RegistryFacts DEF WalkInv, Shape, TypeOK, AtNode
<1>2. e \in Nat /\ e # 0 /\ Len(Nodes) \in Nat /\ At(Entry.body) = 1..Len(Nodes)
  BY <1>1, Lengths DEF Nodes, Entry
<1>3. Nodes[n].end \in Nat
  BY <1>1, Lengths DEF Nodes, Entry, At
<1>4. n \in Nat /\ n # 0 /\ ~Exempt(Entry)
  BY <1>1, <1>2 DEF WalkInv, EnteredOnly
<1>5. QED
  BY <1>1, <1>2, <1>3, <1>4 DEF AtNode

\* A step to the next node, on which the loop rule has nothing to overlook.
LEMMA WalkStep ==
  ASSUME WalkInv, NEW detector, AtNode(detector), Walk,
         TypeOK' , d = 4 => Reported \subseteq Reported' /\ SpansAreReported'
                            /\ Sound(e, n, Reported')
  PROVE  WalkInv'
<1> USE DEF Walk
<1>0. /\ Shape /\ d \in 1..5 /\ e \in 1..Len(file.fns) /\ e # 0 /\ n \in Nat /\ n # 0
      /\ ~Exempt(Entry) /\ At(Entry.body) = 1..Len(Nodes)
  BY AtNodeFacts
<1>1. Shape'
  BY DEF WalkInv, Shape, Loaded
<1>2. Entry' = Entry /\ ~Exempt(Entry)'
  BY <1>0 DEF Entry, Exempt
<1>3. WalkIsSound'
  <2>1. SUFFICES ASSUME d = 4
                 PROVE  /\ \A k \in 1..Len(file.fns) :
                             k < e => \A l \in At(file.fns[k].body) : Sound(k, l, Reported')
                        /\ \A l \in At(Entry.body) : l < n + 1 => Sound(e, l, Reported')
    BY <1>2, SameFile DEF WalkIsSound
  <2>2. ASSUME NEW k \in 1..Len(file.fns), k < e, NEW l \in At(file.fns[k].body)
        PROVE  Sound(k, l, Reported')
    <3>1. Sound(k, l, Reported)
      BY <1>0, <2>1, <2>2 DEF WalkInv, WalkIsSound
    <3>2. QED
      BY <3>1, <2>1, SoundGrows
  <2>3. ASSUME NEW l \in At(Entry.body), l < n + 1
        PROVE  Sound(e, l, Reported')
    <3>1. CASE l = n
      BY <3>1, <2>1
    <3>2. CASE l < n
      <4>1. Sound(e, l, Reported)
        BY <1>0, <2>1, <2>3, <3>2 DEF WalkInv, WalkIsSound
      <4>2. QED
        BY <4>1, <2>1, SoundGrows
    <3>3. QED
      BY <3>1, <3>2, <2>3, <1>0
  <2>4. QED
    BY <2>2, <2>3
<1>4. ResultIsSound'
  BY ResultStays DEF WalkInv
<1>5. PanicIsDue' /\ EnteredOnly'
  BY <1>2, PanicStays DEF WalkInv, EnteredOnly
<1>6. QED
  BY <1>1, <1>3, <1>4, <1>5 DEF WalkInv

\* A step that panics, on a function with a reversed range.
LEMMA PanicStep ==
  ASSUME WalkInv, NEW detector, AtNode(detector), Panic,
         NEW l \in At(Entry.body), Underflows(Nodes[l])
  PROVE  WalkInv'
<1> USE DEF Panic
<1>1. Shape'
  BY DEF WalkInv, Shape, TypeOK, Nodes, Entry, Loaded
<1>2. Entry' = Entry /\ Exempt(Entry)' = Exempt(Entry)
  BY DEF Entry, Exempt
<1>3. WalkIsSound'
  BY <1>2, SameFile, SameSink DEF WalkInv, WalkIsSound, SpansAreReported
<1>4. ResultIsSound'
  BY ResultStays DEF WalkInv
<1>5. PanicIsDue' /\ EnteredOnly'
  BY <1>2, AtNodeFacts DEF WalkInv, PanicIsDue, EnteredOnly, Entry, Nodes, Exempt
<1>6. QED
  BY <1>1, <1>3, <1>4, <1>5 DEF WalkInv

LEMMA TypeStays ==
  ASSUME TypeOK, NEW detector, AtNode(detector), Walk, Len(Nodes) \in Nat,
         spans' \subseteq Nat \X Nat,
         estimate' \in Estimates,
         DOMAIN sink' = {"findings", "suppressed"}
  PROVE  TypeOK'
<1>1. Nodes' = Nodes
  BY DEF Walk, Nodes, Entry
<1>2. n' \in Nat /\ n' <= Len(Nodes) + 1 /\ e \in 1..Len(file.fns)
  BY DEF AtNode, Walk
<1>3. QED
  BY <1>1, <1>2 DEF TypeOK, Walk

\* Counting a read keeps the total within its width.
LEMMA CountStays ==
  ASSUME NEW est \in Estimates, NEW nodes, NEW i
  PROVE  Count(est, nodes, i) \in Estimates
<1>1. est.total \in 0..MaxU64 /\ est.sites \in Nat /\ est.unbounded \in Nat
  BY DEF Estimates
<1>2. Cost(nodes, i) \in 0..MaxU64
  BY MaxU64Assumption DEF Cost
<1>3. SaturatingAdd(est.total, Cost(nodes, i)) \in 0..MaxU64
  <2> HIDE DEF Cost
  <2>1. QED
    BY <1>1, <1>2, MaxU64Assumption DEF SaturatingAdd
<1>4. [est EXCEPT !.unbounded = @ + 1] \in Estimates
  BY <1>1 DEF Estimates
<1>5. ASSUME NEW c \in 0..MaxU64
      PROVE  [est EXCEPT !.total = c, !.sites = @ + 1] \in Estimates
  <2> DEFINE moved == [est EXCEPT !.total = c]
  <2>1. moved \in Estimates /\ moved.sites = est.sites
    BY DEF Estimates
  <2> HIDE DEF moved
  <2>2. [moved EXCEPT !.sites = est.sites + 1] \in Estimates
    BY <1>1, <2>1 DEF Estimates
  <2>3. QED
    BY <2>2 DEF moved
<1>6. QED
  <2> DEFINE c == SaturatingAdd(est.total, Cost(nodes, i))
  <2>1. Count(est, nodes, i) = IF IsBounded(nodes, i)
                               THEN [est EXCEPT !.total = c, !.sites = @ + 1]
                               ELSE [est EXCEPT !.unbounded = @ + 1]
    BY DEF Count
  <2>2. c \in 0..MaxU64
    BY <1>3
  <2> HIDE DEF c
  <2>3. QED
    BY <2>1, <2>2, <1>4, <1>5

LEMMA CountReadStep == ASSUME WalkInv, CountRead PROVE WalkInv'
<1>0. AtNode(ReadBudget) /\ Walk /\ UNCHANGED <<spans, sink>>
  BY DEF CountRead
<1>1. TypeOK /\ Len(Nodes) \in Nat /\ d # 4
  BY <1>0, AtNodeFacts, RegistryFacts DEF ReadBudget, UnboundedStorageLoop
<1>2. estimate' \in Estimates
  BY <1>1, CountStays DEF CountRead, TypeOK
<1>3. TypeOK'
  BY <1>0, <1>1, <1>2, TypeStays DEF TypeOK
<1>4. QED
  BY <1>0, <1>1, <1>3, WalkStep

LEMMA CountReadPanicsStep == ASSUME WalkInv, CountReadPanics PROVE WalkInv'
<1>0. AtNode(ReadBudget) /\ Panic
  BY DEF CountReadPanics
<1>1. PICK l \in BoundsAskedFor(Nodes, n) : Underflows(Nodes[l])
  BY DEF CountReadPanics
<1>2. l \in At(Entry.body)
  BY <1>0, AtNodeFacts DEF BoundsAskedFor, LoopsAround
<1>3. QED
  BY <1>0, <1>1, <1>2, PanicStep

LEMMA MeetWriteStep == ASSUME WalkInv, MeetWrite PROVE WalkInv'
<1>0. AtNode(StorageDurability) /\ Walk /\ UNCHANGED <<spans, estimate>>
  BY DEF MeetWrite
<1>1. TypeOK /\ Len(Nodes) \in Nat /\ d # 4
  BY <1>0, AtNodeFacts, RegistryFacts DEF StorageDurability, UnboundedStorageLoop
<1>2. DOMAIN sink' = {"findings", "suppressed"}
  BY <1>1, ReportAdds DEF MeetWrite
<1>3. TypeOK'
  BY <1>0, <1>1, <1>2, TypeStays DEF TypeOK
<1>4. QED
  BY <1>0, <1>1, <1>3, WalkStep

LEMMA MeetArithmeticStep == ASSUME WalkInv, MeetArithmetic PROVE WalkInv'
<1>0. AtNode(UncheckedArithmetic) /\ Walk /\ UNCHANGED estimate
  BY DEF MeetArithmetic
<1>1. TypeOK /\ Len(Nodes) \in Nat /\ d # 4 /\ n \in Nat /\ Nodes[n].end \in Nat
  BY <1>0, AtNodeFacts, RegistryFacts DEF UncheckedArithmetic, UnboundedStorageLoop
<1>2. DOMAIN sink' = {"findings", "suppressed"}
  BY <1>1, ReportAdds DEF MeetArithmetic
<1>3. spans' \subseteq Nat \X Nat
  BY <1>1 DEF MeetArithmetic, TypeOK
<1>4. TypeOK'
  BY <1>0, <1>1, <1>2, <1>3, TypeStays DEF TypeOK
<1>5. QED
  BY <1>0, <1>1, <1>4, WalkStep

LEMMA MeetLoopStep == ASSUME WalkInv, MeetLoop PROVE WalkInv'
<1> DEFINE new == Finding(n, Nodes[n].end, Nodes[n].line, [origin |-> Origin(Entry.body, n)])
<1>0. /\ AtNode(UnboundedStorageLoop) /\ Walk /\ UNCHANGED estimate
      /\ Report(new) /\ spans' = spans \cup {<<n, Nodes[n].end>>}
      /\ ~Underflows(Nodes[n])
  BY DEF MeetLoop
<1>1. /\ WalkInv /\ TypeOK /\ Len(Nodes) \in Nat /\ n \in Nat /\ n # 0 /\ e # 0
      /\ Nodes[n].end \in Nat /\ Registry[d] = UnboundedStorageLoop
  BY <1>0, AtNodeFacts
<1>2. DOMAIN sink' = {"findings", "suppressed"} /\ Reported' = Reported \cup {new}
  BY <1>0, <1>1, ReportAdds
<1>3. spans' \subseteq Nat \X Nat
  BY <1>0, <1>1 DEF TypeOK
<1>4. TypeOK'
  BY <1>0, <1>1, <1>2, <1>3, TypeStays DEF TypeOK
<1>5. /\ new.rule = UnboundedStorageLoop /\ new.entry = e
      /\ new.from = n /\ new.to = Nodes[n].end
  BY <1>1 DEF Finding
<1> HIDE DEF new
<1>6. ASSUME d = 4 PROVE SpansAreReported'
  <2>1. SpansAreReported
    BY <1>1, <1>6 DEF WalkInv, WalkIsSound
  <2>2. e' = e
    BY <1>0 DEF Walk
  <2>3. QED
    BY <2>1, <2>2, <1>0, <1>1, <1>2, <1>5 DEF SpansAreReported
<1>7. Sound(e, n, Reported')
  BY <1>0, <1>1, <1>2, <1>5 DEF Sound, Inside, Nodes, Entry
<1>8. QED
  BY <1>0, <1>1, <1>2, <1>4, <1>6, <1>7, WalkStep

LEMMA MeetLoopPanicsStep == ASSUME WalkInv, MeetLoopPanics PROVE WalkInv'
BY AtNodeFacts, PanicStep DEF MeetLoopPanics

LEMMA PassNodeStep == ASSUME WalkInv, PassNode PROVE WalkInv'
<1>0. PICK detector \in {ReadBudget, StorageDurability, UnboundedStorageLoop,
                         UncheckedArithmetic} : AtNode(detector)
  BY DEF PassNode
<1>1. Walk /\ UNCHANGED <<spans, estimate, sink>>
  BY DEF PassNode
<1>2. /\ TypeOK /\ Len(Nodes) \in Nat /\ n \in Nat /\ n # 0 /\ e # 0 /\ e \in Nat
      /\ d \in 1..5 /\ Nodes[n].end \in Nat /\ Registry[d] = detector
  BY <1>0, AtNodeFacts
<1>3. TypeOK'
  BY <1>0, <1>1, <1>2, TypeStays DEF TypeOK
<1>4. ASSUME d = 4
      PROVE  SpansAreReported /\ Sound(e, n, Reported)
  <2>1. SpansAreReported
    BY <1>2, <1>4 DEF WalkInv, WalkIsSound
  <2>2. /\ ~Underflows(Nodes[n])
        /\ ~IsUnboundedLoop(Nodes, n) \/ SpanContainedIn(n, Nodes[n].end, spans)
    BY <1>4, RegistryFacts DEF PassNode, AtNode, ReadBudget, StorageDurability,
       UnboundedStorageLoop, UncheckedArithmetic
  <2>3. CASE SpanContainedIn(n, Nodes[n].end, spans)
    <3>1. PICK s \in spans : s[1] <= n /\ Nodes[n].end <= s[2]
      BY <2>3 DEF SpanContainedIn
    <3>2. QED
      BY <2>1, <2>2, <3>1 DEF SpansAreReported, Sound, Inside, Nodes, Entry
  <2>4. QED
    BY <2>1, <2>2, <2>3 DEF Sound, LoopNode, Nodes, Entry
<1>5. Reported' = Reported /\ (SpansAreReported => SpansAreReported')
  BY <1>1, SameSink DEF SpansAreReported, Walk
<1>6. QED
  BY <1>0, <1>1, <1>3, <1>4, <1>5, WalkStep

LEMMA StutterStep == ASSUME WalkInv, UNCHANGED vars PROVE WalkInv'
<1> USE DEF vars
<1>1. Shape'
  BY DEF WalkInv, Shape, TypeOK, Nodes, Entry, Loaded
<1>2. Entry' = Entry /\ Exempt(Entry)' = Exempt(Entry)
  BY DEF Entry, Exempt
<1>3. WalkIsSound'
  BY <1>2, SameFile, SameSink DEF WalkInv, WalkIsSound, SpansAreReported
<1>4. ResultIsSound'
  BY ResultStays DEF WalkInv
<1>5. PanicIsDue' /\ EnteredOnly'
  BY <1>2, PanicStays DEF WalkInv, EnteredOnly
<1>6. QED
  BY <1>1, <1>3, <1>4, <1>5 DEF WalkInv

-----------------------------------------------------------------------------
(***************************************************************************)
(* What the sink asks of the markers.                                      *)
(***************************************************************************)
\* The lines the sink looks at are those of Excused: one at the head of a file
\* is above all that is found in it.
LEMMA SuppressedIsExcused ==
  ASSUME file \in Files, NEW f, IsBelowCode(file, f.line)
  PROVE  M!IsSuppressed(file, f.rule, f.line) <=> Excused(f)
<1> DEFINE line == f.line
<1>1. /\ line \in 1..Len(file.lines) /\ Len(file.lines) \in Nat
      /\ \A item \in file.items : item.from \in Nat
  BY FilesAssumption DEF IsBelowCode
<1>2. PICK c \in 1..line : file.lines[c].text = "code"
  BY DEF IsBelowCode
<1>3. \A l \in Nat : (\A k \in 1..l : file.lines[k].text # "code") => l < c
  BY <1>1, <1>2
<1>4. M!LeadingCommentLines(file) =
        {l \in 1..(line - 1) : /\ file.lines[l].text = "comment"
                               /\ \A k \in 1..l : file.lines[k].text # "code"}
  <2>1. ASSUME NEW l \in 1..Len(file.lines), \A k \in 1..l : file.lines[k].text # "code"
        PROVE  l \in 1..(line - 1)
    BY <1>1, <1>2, <1>3, <2>1
  <2>2. 1..(line - 1) \subseteq 1..Len(file.lines)
    BY <1>1
  <2>3. QED
    BY <2>1, <2>2 DEF M!LeadingCommentLines
<1>5. (\E l \in M!LeadingCommentLines(file) : M!Allows(file.lines[l], "file", f.rule))
        <=> \E l \in 1..(line - 1) :
              /\ M!Allows(file.lines[l], "file", f.rule)
              /\ \A k \in 1..l : file.lines[k].text # "code"
  BY <1>4 DEF M!Allows
<1>6. ASSUME NEW item \in file.items, NEW l \in Nat
      PROVE  l \in M!CommentBlockAbove(file, item.from)
               <=> /\ l \in 1..(item.from - 1) /\ item.from - l <= LookUpLines
                   /\ {k \in 1..(item.from - 1) :
                         l <= k /\ file.lines[k].text # "comment"} = {}
  <2>1. item.from \in Nat /\ LookUpLines \in Nat
    BY <1>1, LookUpLinesAssumption
  <2>2. l \in 1..(item.from - 1)
          => (\A k \in l..(item.from - 1) : file.lines[k].text = "comment")
               <=> {k \in 1..(item.from - 1) :
                      l <= k /\ file.lines[k].text # "comment"} = {}
    <3> SUFFICES ASSUME l \in 1..(item.from - 1)
                 PROVE  (\A k \in l..(item.from - 1) : file.lines[k].text = "comment")
                         <=> {k \in 1..(item.from - 1) :
                                l <= k /\ file.lines[k].text # "comment"} = {}
      OBVIOUS
    <3>1. l..(item.from - 1) = {k \in 1..(item.from - 1) : l <= k}
      BY <2>1
    <3>2. QED
      BY <3>1
  <2>3. l \in 1..(item.from - 1) => (item.from <= l + LookUpLines <=> item.from - l <= LookUpLines)
    BY <2>1
  <2>4. QED
    BY <2>2, <2>3 DEF M!CommentBlockAbove
<1>7. (\E start \in M!EnclosingItems(file, line) :
         \E l \in M!CommentBlockAbove(file, start) : M!Allows(file.lines[l], "item", f.rule))
        <=> \E l \in 1..(line - 1) :
              /\ M!Allows(file.lines[l], "item", f.rule)
              /\ \E item \in file.items :
                    /\ item.from <= line /\ line <= item.to
                    /\ l < item.from /\ item.from - l <= LookUpLines
                    /\ {k \in 1..(item.from - 1) :
                          l <= k /\ file.lines[k].text # "comment"} = {}
  <2>1. ASSUME NEW item \in file.items, item.from <= line, NEW l \in M!CommentBlockAbove(file, item.from)
        PROVE  l \in 1..(line - 1) /\ l \in Nat /\ l < item.from
    BY <1>1, <2>1 DEF M!CommentBlockAbove
  <2>2. ASSUME NEW item \in file.items, NEW l \in 1..(line - 1), l < item.from
        PROVE  l \in 1..(item.from - 1) /\ l \in Nat
    BY <1>1, <2>2
  <2>3. QED
    BY <1>6, <2>1, <2>2 DEF M!EnclosingItems
<1>8. QED
  BY <1>5, <1>7 DEF M!IsSuppressed, Excused

(***************************************************************************)
(* Outermost nodes.                                                        *)
(***************************************************************************)
\* The nodes of a body are nested in each other or apart.
IsNested(nodes, m) ==
  \A i \in 1..m :
    /\ nodes[i].end \in Nat /\ i <= nodes[i].end
    /\ \A j \in 1..m : i < j /\ j <= nodes[i].end => nodes[j].end <= nodes[i].end

\* A node is in the range of an outermost one before it just when it is not
\* outermost: to keep the ranges of those is to know of all.
LEMMA ContainedIsInner ==
  ASSUME NEW m \in Nat, NEW nodes, IsNested(nodes, m), NEW S \in SUBSET (1..m), NEW i \in S
  PROVE  SpanContainedIn(i, nodes[i].end,
                         {<<j, nodes[j].end>> : j \in {k \in Outermost(S, nodes) : k < i}})
           <=> i \notin Outermost(S, nodes)
<1> DEFINE spansBefore == {<<j, nodes[j].end>> : j \in {k \in Outermost(S, nodes) : k < i}}
<1>1. /\ \A j \in S : j \in Nat /\ nodes[j].end \in Nat /\ j <= nodes[j].end
      /\ i \in Nat /\ nodes[i].end \in Nat /\ i <= nodes[i].end
  BY DEF IsNested
<1>2. ASSUME SpanContainedIn(i, nodes[i].end, spansBefore)
      PROVE  i \notin Outermost(S, nodes)
  <2>1. PICK j \in Outermost(S, nodes) : j < i /\ nodes[i].end <= nodes[j].end
    BY <1>2 DEF SpanContainedIn
  <2>2. j \in S /\ ~(nodes[j].end < i)
    <3>1. j \in S
      BY <2>1 DEF Outermost
    <3>2. nodes[j].end \in Nat
      BY <1>1, <3>1
    <3>3. QED
      BY <1>1, <2>1, <3>1, <3>2
  <2>3. QED
    BY <2>1, <2>2 DEF Outermost
<1>3. ASSUME i \notin Outermost(S, nodes)
      PROVE  SpanContainedIn(i, nodes[i].end, spansBefore)
  <2> DEFINE around == {j \in S : j < i /\ i <= nodes[j].end}
  <2>1. around # {}
    BY <1>1, <1>3 DEF Outermost
  <2>2. PICK j \in around : \A k \in around : j <= k
    <3>1. around \in SUBSET Nat
      BY <1>1
    <3> HIDE DEF around
    <3>2. QED
      BY <2>1, <3>1, LeastNatural
  <2>3. ASSUME NEW k \in S, k < j
        PROVE  nodes[k].end < j
    <3>1. SUFFICES ASSUME j <= nodes[k].end
                   PROVE  FALSE
      BY <1>1, <2>3
    <3>2. nodes[j].end <= nodes[k].end
      BY <2>3, <3>1 DEF IsNested
    <3>3. k \in around
      <4>1. /\ j \in S /\ j \in Nat /\ j < i /\ i <= nodes[j].end
            /\ nodes[j].end \in Nat /\ k \in Nat /\ nodes[k].end \in Nat
        BY <1>1
      <4>2. k < i /\ i <= nodes[k].end
        BY <1>1, <2>3, <3>2, <4>1
      <4>3. QED
        BY <2>3, <4>2
    <3>4. QED
      BY <1>1, <2>2, <2>3, <3>3
  <2>4. j \in Outermost(S, nodes) /\ j < i
    BY <2>3 DEF Outermost
  <2>5. nodes[i].end <= nodes[j].end
    BY DEF IsNested
  <2>6. <<j, nodes[j].end>> \in spansBefore /\ j <= i
    BY <1>1, <2>4
  <2> HIDE DEF spansBefore
  <2>7. <<j, nodes[j].end>>[1] = j /\ <<j, nodes[j].end>>[2] = nodes[j].end
    OBVIOUS
  <2>8. QED
    BY <2>5, <2>6, <2>7 DEF SpanContainedIn
<1>4. QED
  BY <1>2, <1>3

(***************************************************************************)
(* Names fed from storage.                                                 *)
(***************************************************************************)
LetNames(lets) == UNION {lets[k].names : k \in 1..Len(lets)}

\* Q[k] is what k rounds over the lets find.
AreRounds(Q, lets) ==
  /\ Q \in [0..Len(lets) -> SUBSET LetNames(lets)]
  /\ Q[0] = ReadsBindings(lets)
  /\ \A k \in 1..Len(lets) : Q[k] = Q[k - 1] \cup BoundFrom(lets, Q[k - 1])

LEMMA RoundsAreTaken ==
  ASSUME NEW body, Len(body.lets) \in Nat
  PROVE  \E Q : AreRounds(Q, body.lets) /\ StorageDerivedBindings(body) = Q[Len(body.lets)]
<1> DEFINE lets == body.lets
           m == Len(lets)
           V == SUBSET LetNames(lets)
           step == [x \in Nat \X V |-> x[2] \cup BoundFrom(lets, x[2])]
<1>0. \A from : BoundFrom(lets, from) \in V
  BY DEF BoundFrom, LetNames
<1>1. step \in [Nat \X V -> V] /\ ReadsBindings(lets) \in V
  BY <1>0 DEF ReadsBindings, LetNames
<1>2. \A i \in Nat : \A x \in V : step[<<i, x>>] = x \cup BoundFrom(lets, x)
  OBVIOUS
<1> HIDE DEF step, V
<1>3. PICK Q : IsRun(Q, V, ReadsBindings(lets), step, m)
  BY <1>1, RecursionExists
<1>4. /\ Q \in [0..m -> V] /\ Q[0] = ReadsBindings(lets)
      /\ \A k \in 1..m : Q[k] = Q[k - 1] \cup BoundFrom(lets, Q[k - 1])
  <2>1. /\ Q \in [0..m -> V] /\ Q[0] = ReadsBindings(lets)
        /\ \A i \in 1..m : Q[i] = step[<<i, Q[i - 1]>>]
    BY <1>3 DEF IsRun
  <2>2. \A i \in 1..m : Q[i - 1] \in V /\ i \in Nat
    BY <2>1
  <2>3. QED
    BY <1>2, <2>1, <2>2
<1>5. AreRounds(Q, lets)
  BY <1>4 DEF AreRounds, V
<1> DEFINE Rec(g) == g = [k \in 0..m |-> IF k = 0 THEN ReadsBindings(lets)
                                         ELSE g[k - 1] \cup BoundFrom(lets, g[k - 1])]
           f == CHOOSE g : Rec(g)
<1>6. StorageDerivedBindings(body) = f[m]
  BY DEF StorageDerivedBindings
<1>7. Rec(Q)
  <2>1. ASSUME NEW k \in 0..m
        PROVE  Q[k] = IF k = 0 THEN ReadsBindings(lets)
                      ELSE Q[k - 1] \cup BoundFrom(lets, Q[k - 1])
    <3>1. k = 0 \/ k \in 1..m
      OBVIOUS
    <3>2. QED
      BY <1>4, <3>1
  <2>2. Q = [k \in 0..m |-> Q[k]]
    BY <1>4
  <2>3. QED
    BY <2>1, <2>2
<1>8. Rec(f)
  <2> HIDE DEF Rec
  <2>1. QED
    BY <1>7
<1>9. \A k \in 0..m : f[k] = Q[k]
  <2>1. /\ f[0] = ReadsBindings(lets)
        /\ \A k \in 1..m : f[k] = f[k - 1] \cup BoundFrom(lets, f[k - 1])
    <3> HIDE DEF f
    <3>1. 0 \in 0..m /\ \A k \in 1..m : k \in 0..m /\ k # 0
      OBVIOUS
    <3>2. ASSUME NEW k \in 0..m
          PROVE  f[k] = IF k = 0 THEN ReadsBindings(lets)
                        ELSE f[k - 1] \cup BoundFrom(lets, f[k - 1])
      BY <1>8, Zenon
    <3>3. QED
      BY <3>1, <3>2
  <2> HIDE DEF f
  <2> DEFINE T == {k \in Nat : k <= m => f[k] = Q[k]}
  <2>2. 0 \in T
    BY <1>4, <2>1
  <2>3. ASSUME NEW k \in T
        PROVE  k + 1 \in T
    <3>1. SUFFICES ASSUME k + 1 <= m
                   PROVE  f[k + 1] = Q[k + 1]
      OBVIOUS
    <3>2. k + 1 \in 1..m /\ (k + 1) - 1 = k /\ f[k] = Q[k]
      BY <3>1
    <3>3. QED
      BY <1>4, <2>1, <3>2
  <2>4. T = Nat
    <3>1. T \in SUBSET Nat
      OBVIOUS
    <3> HIDE DEF T
    <3>2. QED
      BY <2>2, <2>3, <3>1, NatInducts
  <2>5. QED
    BY <2>4
<1>10. m \in 0..m
  OBVIOUS
<1> HIDE DEF f
<1>11. QED
  BY <1>5, <1>6, <1>9, <1>10

\* A set of names is closed when no let leads out of it.
IsClosed(S, lets) ==
  \A k \in 1..Len(lets) :
    lets[k].reads \/ lets[k].init \cap S # {} => lets[k].names \subseteq S

\* Each round that finds something finds all the names of one more let: after
\* as many rounds as there are lets nothing is left to find.
LEMMA RoundsClose ==
  ASSUME NEW lets, Len(lets) \in Nat, NEW Q, AreRounds(Q, lets)
  PROVE  IsClosed(Q[Len(lets)], lets)
<1> DEFINE m == Len(lets)
           Fed(S) == {l \in 1..m : lets[l].names \subseteq S}
           Stable(S) == BoundFrom(lets, S) \subseteq S
           T == {k \in Nat : k <= m => /\ ReadsBindings(lets) \subseteq Q[k]
                                       /\ Stable(Q[k]) \/ Cardinality(Fed(Q[k])) >= k}
<1>1. IsFiniteSet(1..m) /\ Cardinality(1..m) = m
  <2>1. m \in Nat /\ m \in Int /\ 1 \in Int /\ (1 > m => m = 0) /\ m - 1 + 1 = m
    OBVIOUS
  <2> HIDE DEF m
  <2>2. IsFiniteSet(1..m) /\ Cardinality(1..m) = IF 1 > m THEN 0 ELSE m - 1 + 1
    BY <2>1, FS_Interval
  <2>3. QED
    BY <2>1, <2>2
<1>2. \A S : IsFiniteSet(Fed(S)) /\ Cardinality(Fed(S)) \in Nat
  BY <1>1, FS_Subset, FS_CardinalityType
<1>3. 0 \in T
  <2>1. Cardinality(Fed(Q[0])) >= 0
    <3>1. \A c \in Nat : c >= 0
      OBVIOUS
    <3> HIDE DEF Fed
    <3>2. QED
      BY <1>2, <3>1
  <2>2. Q[0] = ReadsBindings(lets)
    BY DEF AreRounds
  <2> HIDE DEF Fed
  <2>3. QED
    BY <2>1, <2>2
<1>4. ASSUME NEW k \in T
      PROVE  k + 1 \in T
  <2>1. SUFFICES ASSUME k + 1 <= m
                 PROVE  /\ ReadsBindings(lets) \subseteq Q[k + 1]
                        /\ Stable(Q[k + 1]) \/ Cardinality(Fed(Q[k + 1])) >= k + 1
    OBVIOUS
  <2>2. /\ k \in Nat /\ k + 1 \in 1..m /\ (k + 1) - 1 = k
        /\ ReadsBindings(lets) \subseteq Q[k]
        /\ Stable(Q[k]) \/ Cardinality(Fed(Q[k])) >= k
    BY <2>1
  <2>3. Q[k + 1] = Q[k] \cup BoundFrom(lets, Q[k])
    BY <2>2 DEF AreRounds
  <2>4. CASE Stable(Q[k])
    <3>1. Q[k + 1] = Q[k]
      BY <2>3, <2>4
    <3>2. QED
      BY <2>2, <2>4, <3>1
  <2>5. CASE ~Stable(Q[k])
    <3>1. PICK l \in 1..m : lets[l].init \cap Q[k] # {} /\ ~(lets[l].names \subseteq Q[k])
      BY <2>5 DEF BoundFrom
    <3>2. l \notin Fed(Q[k]) /\ l \in Fed(Q[k + 1]) /\ Fed(Q[k]) \subseteq Fed(Q[k + 1])
      BY <2>3, <3>1 DEF BoundFrom
    <3> HIDE DEF Fed
    <3>3. /\ Cardinality(Fed(Q[k]) \cup {l}) = Cardinality(Fed(Q[k])) + 1
          /\ IsFiniteSet(Fed(Q[k]) \cup {l})
      BY <1>2, <3>2, FS_AddElement
    <3>4. Cardinality(Fed(Q[k]) \cup {l}) <= Cardinality(Fed(Q[k + 1]))
      <4>1. (Fed(Q[k]) \cup {l}) \in SUBSET Fed(Q[k + 1])
        BY <3>2
      <4>2. QED
        BY <1>2, <4>1, FS_Subset
    <3>5. Cardinality(Fed(Q[k + 1])) >= k + 1
      BY <1>2, <2>2, <2>5, <3>3, <3>4
    <3>6. QED
      BY <2>2, <2>3, <3>5
  <2>6. QED
    BY <2>4, <2>5
<1>5. T = Nat
  <2>1. T \in SUBSET Nat
    OBVIOUS
  <2> HIDE DEF T
  <2>2. QED
    BY <1>3, <1>4, <2>1, NatInducts
<1>6. /\ ReadsBindings(lets) \subseteq Q[m]
      /\ Stable(Q[m]) \/ Cardinality(Fed(Q[m])) >= m
  <2>1. m \in T
    BY <1>5
  <2> HIDE DEF Fed, Stable
  <2>2. QED
    BY <2>1
<1>7. Stable(Q[m]) => IsClosed(Q[m], lets)
  BY <1>6 DEF IsClosed, BoundFrom, ReadsBindings
<1>8. Cardinality(Fed(Q[m])) >= m => IsClosed(Q[m], lets)
  <2>1. ASSUME Cardinality(Fed(Q[m])) >= m
        PROVE  Fed(Q[m]) = 1..m
    <3>1. Fed(Q[m]) \in SUBSET (1..m)
      OBVIOUS
    <3> HIDE DEF Fed
    <3>2. Cardinality(Fed(Q[m])) <= m
      BY <1>1, <3>1, FS_Subset
    <3>3. Cardinality(1..m) = Cardinality(Fed(Q[m]))
      BY <1>1, <1>2, <2>1, <3>2
    <3>4. QED
      BY <1>1, <3>1, <3>3, FS_Subset
  <2>2. QED
    BY <2>1 DEF IsClosed
<1>9. QED
  BY <1>6, <1>7, <1>8

\* What the rounds find is in every closed set.
LEMMA RoundsAreNeeded ==
  ASSUME NEW lets, Len(lets) \in Nat, NEW Q, AreRounds(Q, lets), NEW S, IsClosed(S, lets)
  PROVE  Q[Len(lets)] \subseteq S
<1> DEFINE m == Len(lets)
           T == {k \in Nat : k <= m => Q[k] \subseteq S}
<1>1. 0 \in T
  BY DEF AreRounds, IsClosed, ReadsBindings
<1>2. ASSUME NEW k \in T
      PROVE  k + 1 \in T
  <2>1. SUFFICES ASSUME k + 1 <= m
                 PROVE  Q[k + 1] \subseteq S
    OBVIOUS
  <2>2. k + 1 \in 1..m /\ (k + 1) - 1 = k /\ Q[k] \subseteq S
    BY <2>1
  <2>3. Q[k + 1] = Q[k] \cup BoundFrom(lets, Q[k])
    BY <2>2 DEF AreRounds
  <2>4. BoundFrom(lets, Q[k]) \subseteq S
    BY <2>2 DEF BoundFrom, IsClosed
  <2>5. QED
    BY <2>2, <2>3, <2>4
<1>3. T = Nat
  <2>1. T \in SUBSET Nat
    OBVIOUS
  <2> HIDE DEF T
  <2>2. QED
    BY <1>1, <1>2, <2>1, NatInducts
<1>4. QED
  BY <1>3

\* The names that storage_derived_bindings finds in the order of the lets are
\* those that some chain of lets, in any order, leads to.
THEOREM DerivedIsHeld ==
  ASSUME NEW fn, Len(fn.body.lets) \in Nat
  PROVE  StorageDerivedBindings(fn.body) = HoldsStorage(fn)
<1> DEFINE lets == fn.body.lets
           names == LetNames(lets)
           closed == {S \in SUBSET names : IsClosed(S, lets)}
<1>1. PICK Q : AreRounds(Q, lets) /\ StorageDerivedBindings(fn.body) = Q[Len(lets)]
  BY RoundsAreTaken
<1>2. Q[Len(lets)] \in closed
  BY <1>1, RoundsClose DEF AreRounds
<1>3. \A S \in closed : Q[Len(lets)] \subseteq S
  BY <1>1, RoundsAreNeeded
<1>4. HoldsStorage(fn) = {name \in names : \A S \in closed : name \in S}
  BY DEF HoldsStorage, LetNames, IsClosed
<1>5. QED
  BY <1>1, <1>2, <1>3, <1>4

-----------------------------------------------------------------------------
(***************************************************************************)
(* What is returned is exact. The inductive invariant says the same of the *)
(* part of the file that is behind the walk.                               *)
(***************************************************************************)
\* Where a rule is applied to a function by a set of findings.
Places(F, rule, k) == {f.from : f \in {g \in F : g.rule = rule /\ g.entry = k}}

\* A finding says of its place what is there.
IsTrue(f) ==
  /\ f.entry \in 1..Len(file.fns)
  /\ f.rule = UnboundedStorageLoop =>
        f.what.origin = Origin(file.fns[f.entry].body, f.from)

ListsAreRight(lists) ==
  /\ \A f \in lists.findings : IsTrue(f) /\ ~Excused(f)
  /\ \A f \in lists.suppressed : IsTrue(f) /\ Excused(f)

\* The running detector has applied its rule in the functions before the
\* current one, and in that one at the nodes before the current one.
SinkIsExact ==
  e # 0 =>
    /\ ListsAreRight(sink)
    /\ \A f \in Reported : f.rule = Registry[d]
    /\ d # 2 => \A k \in 1..Len(file.fns) :
                  Places(Reported, Registry[d], k) =
                    {i \in Due(Registry[d], file.fns[k]) : k < e \/ (k = e /\ i < n)}

\* The ranges kept are those of the outermost nodes met so far.
SpansAreOutermost ==
  n # 0 => /\ d # 1
           /\ d \in {4, 5} =>
                spans = {<<i, Nodes[i].end>> : i \in {j \in Due(Registry[d], Entry) : j < n}}

ResultIsExact ==
  /\ ListsAreRight(result)
  /\ \A r \in 1..5, k \in 1..Len(file.fns) :
       r # 2 => Places(Findings, Registry[r], k) =
                  IF r < d /\ Registry[r] \in Loaded THEN Due(Registry[r], file.fns[k]) ELSE {}

ExactInv == SinkIsExact /\ SpansAreOutermost /\ ResultIsExact

\* The five detectors are different.
LEMMA DetectorsDiffer ==
  /\ \A r, s \in 1..5 : Registry[r] = Registry[s] => r = s
  /\ Registry[1] = MissingRequireAuth /\ Registry[2] = ReadBudget
  /\ Registry[3] = StorageDurability /\ Registry[4] = UnboundedStorageLoop
  /\ Registry[5] = UncheckedArithmetic
BY DEF Registry, MissingRequireAuth, ReadBudget, StorageDurability, UnboundedStorageLoop,
       UncheckedArithmetic

\* The nodes of a rule, for the rules that are asked at nodes.
DueAt(r, fn) ==
  CASE r = 3 -> {i \in At(fn.body) : IsMisplaced(fn.body.nodes[i])}
    [] r = 4 -> Outermost({i \in At(fn.body) : IsUnboundedLoop(fn.body.nodes, i)}, fn.body.nodes)
    [] r = 5 -> Outermost({i \in At(fn.body) : IsUncheckedArithmetic(fn.body.nodes, i)},
                          fn.body.nodes)

LEMMA DueByRule ==
  ASSUME NEW fn
  PROVE  /\ \A r \in 1..5 : r # 2 /\ Exempt(fn) => Due(Registry[r], fn) = {}
         /\ ~Exempt(fn) =>
               /\ Due(Registry[1], fn) = IF IsUnauthorized(file, fn) THEN {0} ELSE {}
               /\ \A r \in 3..5 : Due(Registry[r], fn) = DueAt(r, fn)
<1>1. \A r \in 1..5 : r # 2 /\ Exempt(fn) => Due(Registry[r], fn) = {}
  BY DEF Due
<1>2. ASSUME ~Exempt(fn)
      PROVE  Due(Registry[1], fn) = IF IsUnauthorized(file, fn) THEN {0} ELSE {}
  BY <1>2, DetectorsDiffer DEF Due
<1>3. ASSUME ~Exempt(fn), NEW r \in 3..5
      PROVE  Due(Registry[r], fn) = DueAt(r, fn)
  <2>1. /\ Registry[r] = StorageDurability <=> r = 3
        /\ Registry[r] = UnboundedStorageLoop <=> r = 4
        /\ Registry[r] = UncheckedArithmetic <=> r = 5
        /\ Registry[r] # MissingRequireAuth
    BY DetectorsDiffer
  <2>2. r = 3 \/ r = 4 \/ r = 5
    OBVIOUS
  <2>3. CASE r = 3
    BY <1>3, <2>1, <2>3 DEF Due, DueAt
  <2>4. CASE r = 4
    BY <1>3, <2>1, <2>4 DEF Due, DueAt
  <2>5. CASE r = 5
    BY <1>3, <2>1, <2>5 DEF Due, DueAt
  <2>6. QED
    BY <2>2, <2>3, <2>4, <2>5
<1>4. QED
  BY <1>1, <1>2, <1>3

\* A rule applies to the signature of a function or to its nodes.
LEMMA DueIsInside ==
  ASSUME NEW fn, Len(fn.body.nodes) \in Nat, NEW r \in 1..5, r # 2
  PROVE  /\ Due(Registry[r], fn) \subseteq Nat
         /\ r = 1 => Due(Registry[r], fn) \subseteq {0}
         /\ r # 1 => Due(Registry[r], fn) \subseteq 1..Len(fn.body.nodes)
<1>1. CASE Exempt(fn)
  BY <1>1, DueByRule
<1>2. CASE ~Exempt(fn)
  <2>1. CASE r = 1
    BY <1>2, <2>1, DueByRule
  <2>2. CASE r # 1
    <3>1. r = 3 \/ r = 4 \/ r = 5
      BY <2>2
    <3>2. DueAt(r, fn) \subseteq 1..Len(fn.body.nodes)
      BY <3>1 DEF DueAt, Outermost, At
    <3>3. QED
      BY <1>2, <2>2, <3>1, <3>2, DueByRule
  <2>3. QED
    BY <2>1, <2>2
<1>3. QED
  BY <1>1, <1>2

\* What is said of the file stays said of it.
LEMMA SameJudgement ==
  ASSUME UNCHANGED <<file, sources>>
  PROVE  /\ \A rule, fn : Due(rule, fn)' = Due(rule, fn)
         /\ \A f : Excused(f)' = Excused(f) /\ IsTrue(f)' = IsTrue(f)
BY DEF Due, Exempt, Excused, IsTrue

LEMMA PlacesGrow ==
  ASSUME NEW F, NEW g, NEW rule, NEW k
  PROVE  Places(F \cup {g}, rule, k) =
           Places(F, rule, k) \cup IF g.rule = rule /\ g.entry = k THEN {g.from} ELSE {}
BY DEF Places

\* The sink puts a true finding on the list it belongs to.
LEMMA ReportIsRight ==
  ASSUME TypeOK, file \in Files, UNCHANGED <<file, sources>>, ListsAreRight(sink),
         NEW f, Report(f), IsTrue(f), IsBelowCode(file, f.line)
  PROVE  ListsAreRight(sink)'
<1>1. M!IsSuppressed(file, f.rule, f.line) <=> Excused(f)
  BY SuppressedIsExcused
<1>2. CASE Excused(f)
  <2>1. sink'.findings = sink.findings /\ sink'.suppressed = sink.suppressed \cup {f}
    BY <1>1, <1>2 DEF Report, TypeOK
  <2>2. QED
    BY <1>2, <2>1, SameJudgement DEF ListsAreRight
<1>3. CASE ~Excused(f)
  <2>1. sink'.findings = sink.findings \cup {f} /\ sink'.suppressed = sink.suppressed
    BY <1>1, <1>3 DEF Report, TypeOK
  <2>2. QED
    BY <1>3, <2>1, SameJudgement DEF ListsAreRight
<1>4. QED
  BY <1>2, <1>3

\* Steps that leave the detector and the result alone.
LEMMA ExactResultStays ==
  ASSUME ResultIsExact, UNCHANGED <<file, sources, d, result>>
  PROVE  ResultIsExact'
<1>1. Findings' = Findings /\ Loaded' = Loaded
  BY DEF Findings, Loaded
<1>2. QED
  BY <1>1, SameJudgement DEF ResultIsExact, ListsAreRight

LEMMA SinkStays ==
  ASSUME UNCHANGED <<file, sources, sink>>
  PROVE  ListsAreRight(sink)' = ListsAreRight(sink)
BY SameJudgement DEF ListsAreRight

LEMMA InitIsExact == Init => ExactInv
<1> SUFFICES ASSUME Init PROVE ExactInv
  OBVIOUS
<1>1. Findings = {} /\ d = 1 /\ e = 0 /\ n = 0
  BY DEF Init, Findings, Nothing
<1>2. \A rule, k : Places({}, rule, k) = {}
  BY DEF Places
<1>3. \A r \in 1..5 : ~(r < 1)
  OBVIOUS
<1>4. ResultIsExact
  BY <1>1, <1>2, <1>3 DEF ResultIsExact, ListsAreRight, Init, Nothing
<1>5. QED
  BY <1>1, <1>4 DEF ExactInv, SinkIsExact, SpansAreOutermost

(***************************************************************************)
(* From detector to detector.                                              *)
(***************************************************************************)
LEMMA SkipDetectorExact == ASSUME WalkInv, ExactInv, SkipDetector PROVE ExactInv'
<1> USE DEF SkipDetector, BetweenDetectors
<1>0. d \in 1..5 /\ n = 0
  BY RegistryFacts DEF WalkInv, Shape, TypeOK
<1>1. SinkIsExact' /\ SpansAreOutermost'
  BY <1>0 DEF SinkIsExact, SpansAreOutermost
<1>2. Findings' = Findings /\ Loaded' = Loaded /\ ListsAreRight(result)'
  BY SameJudgement DEF Findings, Loaded, ExactInv, ResultIsExact, ListsAreRight
<1>3. ASSUME NEW r \in 1..5
      PROVE  (r < d' /\ Registry[r] \in Loaded) <=> (r < d /\ Registry[r] \in Loaded)
  BY <1>0
<1>4. ResultIsExact'
  BY <1>2, <1>3, SameJudgement DEF ExactInv, ResultIsExact
<1>5. QED
  BY <1>1, <1>4 DEF ExactInv

LEMMA BeginDetectorExact == ASSUME WalkInv, ExactInv, BeginDetector PROVE ExactInv'
<1> USE DEF BeginDetector, BetweenDetectors
<1>0. /\ d \in 1..5 /\ n = 0 /\ file \in Files /\ Len(file.fns) \in Nat
      /\ \A k \in 1..Len(file.fns) : Len(file.fns[k].body.nodes) \in Nat
  BY RegistryFacts, Lengths DEF WalkInv, Shape, TypeOK
<1>1. Reported' = {} /\ e' = 1 /\ n' = 0 /\ d' = d
  BY <1>0 DEF Reported, Nothing
<1>2. ListsAreRight(sink)'
  BY DEF ListsAreRight, Nothing
<1>3. ASSUME d # 2, NEW k \in 1..Len(file.fns)
      PROVE  {i \in Due(Registry[d], file.fns[k]) : k < 1 \/ (k = 1 /\ i < 0)} = {}
  <2>1. Due(Registry[d], file.fns[k]) \subseteq Nat
    BY <1>0, <1>3, DueIsInside
  <2>2. ~(k < 1) /\ \A i \in Nat : ~(i < 0)
    OBVIOUS
  <2>3. QED
    BY <2>1, <2>2
<1>4. \A rule, k : Places({}, rule, k) = {}
  BY DEF Places
<1>5. SinkIsExact'
  BY <1>0, <1>1, <1>2, <1>3, <1>4, SameJudgement DEF SinkIsExact
<1>6. SpansAreOutermost' /\ ResultIsExact'
  BY <1>0, ExactResultStays DEF SpansAreOutermost, ExactInv
<1>7. QED
  BY <1>5, <1>6 DEF ExactInv

LEMMA EndDetectorExact == ASSUME WalkInv, ExactInv, EndDetector PROVE ExactInv'
<1> USE DEF EndDetector
<1>0. /\ Shape /\ Len(file.fns) \in Nat /\ e # 0 /\ n = 0
      /\ d \in 1..5 /\ Registry[d] \in Loaded
  BY RegistryFacts, Lengths DEF WalkInv, Shape, TypeOK
<1>1. SinkIsExact' /\ SpansAreOutermost'
  BY <1>0 DEF SinkIsExact, SpansAreOutermost
<1>2. Findings' = Findings \cup Reported /\ Loaded' = Loaded
  BY DEF Findings, Reported, Loaded
<1>3. ListsAreRight(result)'
  BY <1>0, SameJudgement DEF ExactInv, ResultIsExact, SinkIsExact, ListsAreRight
<1>4. ASSUME NEW r \in 1..5, NEW k \in 1..Len(file.fns), r # 2
      PROVE  Places(Findings', Registry[r], k)
               = IF r < d + 1 /\ Registry[r] \in Loaded THEN Due(Registry[r], file.fns[k]) ELSE {}
  <2>1. Places(Findings', Registry[r], k)
          = Places(Findings, Registry[r], k) \cup Places(Reported, Registry[r], k)
    BY <1>2 DEF Places
  <2>2. Places(Findings, Registry[r], k)
          = IF r < d /\ Registry[r] \in Loaded THEN Due(Registry[r], file.fns[k]) ELSE {}
    BY <1>4 DEF ExactInv, ResultIsExact
  <2>3. CASE r = d
    <3>1. Places(Reported, Registry[r], k)
            = {i \in Due(Registry[r], file.fns[k]) : k < e \/ (k = e /\ i < n)}
      BY <1>0, <1>4, <2>3 DEF ExactInv, SinkIsExact
    <3>2. k < e /\ r < d + 1 /\ ~(r < d)
      BY <1>0, <2>3
    <3>3. QED
      BY <1>0, <2>1, <2>2, <2>3, <3>1, <3>2
  <2>4. CASE r # d
    <3>1. Places(Reported, Registry[r], k) = {}
      BY <1>0, <2>4, DetectorsDiffer DEF ExactInv, SinkIsExact, Places
    <3>2. r < d + 1 <=> r < d
      BY <1>0, <2>4
    <3>3. QED
      BY <2>1, <2>2, <3>1, <3>2
  <2>5. QED
    BY <2>3, <2>4
<1>5. ResultIsExact'
  BY <1>2, <1>3, <1>4, SameJudgement DEF ResultIsExact
<1>6. QED
  BY <1>1, <1>5 DEF ExactInv

\* Steps that change nothing but pc.
LEMMA StillExact ==
  ASSUME ExactInv, UNCHANGED <<file, sources, d, e, n, spans, sink, result>>
  PROVE  ExactInv'
<1>1. Reported' = Reported /\ Nodes' = Nodes /\ Entry' = Entry
  BY DEF Reported, Nodes, Entry
<1>2. SinkIsExact' /\ SpansAreOutermost'
  BY <1>1, SameJudgement, SinkStays DEF ExactInv, SinkIsExact, SpansAreOutermost
<1>3. QED
  BY <1>2, ExactResultStays DEF ExactInv

(***************************************************************************)
(* From entrypoint to entrypoint.                                          *)
(***************************************************************************)
\* A step past the current function.
LEMMA PastEntry ==
  ASSUME WalkInv, ExactInv, e # 0, e' = e + 1, n' = 0, UNCHANGED <<file, sources, d, result>>,
         ListsAreRight(sink)', \A f \in Reported' : f.rule = Registry[d],
         d # 2 => \A k \in 1..Len(file.fns) :
                     Places(Reported', Registry[d], k)
                       = {i \in Due(Registry[d], file.fns[k]) : k < e + 1}
  PROVE  ExactInv'
<1>0. /\ d \in 1..5 /\ file \in Files /\ e \in Nat
      /\ \A k \in 1..Len(file.fns) : Len(file.fns[k].body.nodes) \in Nat
  BY RegistryFacts, Lengths DEF WalkInv, Shape, TypeOK
<1>1. ASSUME d # 2, NEW k \in 1..Len(file.fns)
      PROVE  {i \in Due(Registry[d], file.fns[k]) : k < e + 1}
               = {i \in Due(Registry[d], file.fns[k]) : k < e + 1 \/ (k = e + 1 /\ i < 0)}
  <2>1. Due(Registry[d], file.fns[k]) \subseteq Nat
    BY <1>0, <1>1, DueIsInside
  <2>2. \A i \in Nat : ~(i < 0)
    OBVIOUS
  <2>3. QED
    BY <2>1, <2>2
<1>2. SinkIsExact'
  BY <1>1, SameJudgement DEF SinkIsExact
<1>3. SpansAreOutermost' /\ ResultIsExact'
  BY ExactResultStays DEF SpansAreOutermost, ExactInv
<1>4. QED
  BY <1>2, <1>3 DEF ExactInv

LEMMA SkipEntryExact == ASSUME WalkInv, ExactInv, SkipEntry PROVE ExactInv'
<1> USE DEF SkipEntry, AtEntry
<1>0. /\ d \in 1..5 /\ e # 0 /\ Reported' = Reported /\ ListsAreRight(sink)'
      /\ \A f \in Reported : f.rule = Registry[d]
  BY RegistryFacts, SinkStays, SameSink DEF WalkInv, Shape, TypeOK, ExactInv, SinkIsExact
<1>1. ASSUME d # 2, NEW k \in 1..Len(file.fns)
      PROVE  Places(Reported, Registry[d], k)
               = {i \in Due(Registry[d], file.fns[k]) : k < e + 1}
  <2>1. Places(Reported, Registry[d], k)
          = {i \in Due(Registry[d], file.fns[k]) : k < e \/ (k = e /\ i < n)}
    BY <1>0, <1>1 DEF ExactInv, SinkIsExact
  <2>2. CASE k = e
    <3>1. Due(Registry[d], file.fns[k]) = {}
      BY <1>0, <1>1, <2>2, DueByRule DEF Entry
    <3>2. QED
      BY <2>1, <3>1
  <2>3. CASE k # e
    <3>1. k < e + 1 <=> k < e
      BY <2>3
    <3>2. QED
      BY <2>1, <2>3, <3>1
  <2>4. QED
    BY <2>2, <2>3
<1>2. QED
  BY <1>0, <1>1, PastEntry

LEMMA CheckAuthExact == ASSUME WalkInv, ExactInv, CheckAuth PROVE ExactInv'
<1> USE DEF CheckAuth, AtEntry
<1> DEFINE new == Finding(0, 0, Entry.line, Effects(Entry))
<1>0. /\ d = 1 /\ e # 0 /\ e \in 1..Len(file.fns) /\ file \in Files /\ TypeOK
      /\ ListsAreRight(sink) /\ \A f \in Reported : f.rule = Registry[d]
      /\ Len(file.fns) \in Nat
  BY RegistryFacts, DetectorsDiffer, Lengths
     DEF WalkInv, Shape, TypeOK, ExactInv, SinkIsExact
<1>1. /\ new.rule = Registry[d] /\ new.entry = e /\ new.from = 0
      /\ IsTrue(new) /\ IsBelowCode(file, new.line)
  <2>1. IsBelowCode(file, file.fns[e].line)
    BY <1>0, FilesAssumption
  <2>2. Registry[d] # UnboundedStorageLoop
    BY <1>0, DetectorsDiffer
  <2>3. QED
    BY <1>0, <2>1, <2>2 DEF Finding, IsTrue, Entry
<1>2. Due(Registry[d], Entry) = IF IsUnauthorized(file, Entry) THEN {0} ELSE {}
  BY <1>0, DueByRule
<1>3. CASE IsUnauthorized(file, Entry)
  <2>1. Report(new)
    BY <1>3
  <2> HIDE DEF new
  <2>2. ListsAreRight(sink)' /\ Reported' = Reported \cup {new}
    BY <1>0, <1>1, <2>1, ReportIsRight, ReportAdds
  <2>3. ASSUME NEW k \in 1..Len(file.fns)
        PROVE  Places(Reported', Registry[d], k)
                 = {i \in Due(Registry[d], file.fns[k]) : k < e + 1}
    <3>1. /\ Places(Reported, Registry[d], k)
               = {i \in Due(Registry[d], file.fns[k]) : k < e \/ (k = e /\ i < n)}
          /\ Places(Reported', Registry[d], k)
               = Places(Reported, Registry[d], k) \cup IF e = k THEN {0} ELSE {}
      BY <1>0, <1>1, <2>2, PlacesGrow DEF ExactInv, SinkIsExact
    <3>2. CASE k = e
      BY <1>2, <1>3, <3>1, <3>2, <1>0 DEF Entry
    <3>3. CASE k # e
      <4>1. k < e + 1 <=> k < e
        BY <3>3, <1>0
      <4>2. QED
        BY <3>1, <3>3, <4>1
    <3>4. QED
      BY <3>2, <3>3
  <2>4. QED
    BY <1>0, <1>1, <2>2, <2>3, PastEntry
<1>4. CASE ~IsUnauthorized(file, Entry)
  <2>1. UNCHANGED sink /\ ListsAreRight(sink)' /\ Reported' = Reported
    BY <1>0, <1>4, SinkStays, SameSink
  <2>2. ASSUME NEW k \in 1..Len(file.fns)
        PROVE  Places(Reported', Registry[d], k)
                 = {i \in Due(Registry[d], file.fns[k]) : k < e + 1}
    <3>1. Places(Reported, Registry[d], k)
               = {i \in Due(Registry[d], file.fns[k]) : k < e \/ (k = e /\ i < n)}
      BY <1>0 DEF ExactInv, SinkIsExact
    <3>2. CASE k = e
      BY <1>2, <1>4, <2>1, <3>1, <3>2 DEF Entry
    <3>3. CASE k # e
      <4>1. k < e + 1 <=> k < e
        BY <3>3, <1>0
      <4>2. QED
        BY <2>1, <3>1, <3>3, <4>1
    <3>4. QED
      BY <3>2, <3>3
  <2>3. QED
    BY <1>0, <2>1, <2>2, PastEntry
<1>5. QED
  BY <1>3, <1>4

LEMMA EnterEntryExact == ASSUME WalkInv, ExactInv, EnterEntry PROVE ExactInv'
<1> USE DEF EnterEntry, AtEntry
<1>0. /\ d \in 1..5 /\ d # 1 /\ e # 0 /\ e \in 1..Len(file.fns) /\ file \in Files
      /\ Reported' = Reported /\ ListsAreRight(sink)'
      /\ \A f \in Reported : f.rule = Registry[d]
      /\ \A k \in 1..Len(file.fns) : Len(file.fns[k].body.nodes) \in Nat
  BY RegistryFacts, DetectorsDiffer, Lengths, SinkStays, SameSink
     DEF WalkInv, Shape, TypeOK, ExactInv, SinkIsExact
<1>1. ASSUME d # 2, NEW k \in 1..Len(file.fns)
      PROVE  \A i \in Due(Registry[d], file.fns[k]) : i \in Nat /\ ~(i < 1) /\ ~(i < 0)
  <2>1. /\ Due(Registry[d], file.fns[k]) \subseteq 1..Len(file.fns[k].body.nodes)
        /\ Len(file.fns[k].body.nodes) \in Nat
    BY <1>0, <1>1, DueIsInside
  <2>2. QED
    BY <2>1
<1>2. SinkIsExact'
  BY <1>0, <1>1, SameJudgement DEF ExactInv, SinkIsExact
<1>3. SpansAreOutermost'
  <2>1. Entry' = Entry
    BY DEF Entry
  <2>2. d \in {4, 5} => {j \in Due(Registry[d], Entry) : j < 1} = {}
    BY <1>0, <1>1 DEF Entry
  <2>3. QED
    BY <1>0, <2>1, <2>2, SameJudgement DEF SpansAreOutermost
<1>4. QED
  BY <1>2, <1>3, ExactResultStays DEF ExactInv

LEMMA LeaveEntryExact == ASSUME WalkInv, ExactInv, LeaveEntry PROVE ExactInv'
<1> USE DEF LeaveEntry
<1> DEFINE new == Finding(0, 0, Entry.line, estimate)
<1>0. /\ d \in 1..5 /\ e # 0 /\ e \in 1..Len(file.fns) /\ file \in Files /\ TypeOK
      /\ ListsAreRight(sink) /\ \A f \in Reported : f.rule = Registry[d]
      /\ \A k \in 1..Len(file.fns) : Len(file.fns[k].body.nodes) \in Nat
      /\ n # 0 /\ d # 1
  <2>1. /\ d \in 1..5 /\ e # 0 /\ e \in 1..Len(file.fns) /\ file \in Files /\ TypeOK
        /\ ListsAreRight(sink) /\ \A f \in Reported : f.rule = Registry[d]
        /\ \A k \in 1..Len(file.fns) : Len(file.fns[k].body.nodes) \in Nat
    BY RegistryFacts, Lengths DEF WalkInv, Shape, TypeOK, ExactInv, SinkIsExact
  <2>2. n # 0
    BY <2>1 DEF Nodes, Entry
  <2>3. QED
    BY <2>1, <2>2 DEF ExactInv, SpansAreOutermost
<1>1. ListsAreRight(sink)' /\ \A f \in Reported' : f.rule = Registry[d]
  <2>1. CASE Registry[d] = ReadBudget /\ estimate.total > ReadCeiling
    <3>1. /\ new.rule = Registry[d] /\ new.rule # UnboundedStorageLoop /\ Report(new)
          /\ new.entry = e /\ new.line = file.fns[e].line
      BY <2>1 DEF Finding, Entry, ReadBudget, UnboundedStorageLoop
    <3>2. IsBelowCode(file, file.fns[e].line)
      BY <1>0, FilesAssumption
    <3>3. IsTrue(new) /\ IsBelowCode(file, new.line)
      BY <1>0, <3>1, <3>2 DEF IsTrue
    <3> HIDE DEF new
    <3>4. ListsAreRight(sink)' /\ Reported' = Reported \cup {new}
      BY <1>0, <3>1, <3>3, ReportIsRight, ReportAdds
    <3>5. QED
      BY <1>0, <3>1, <3>4
  <2>2. CASE ~(Registry[d] = ReadBudget /\ estimate.total > ReadCeiling)
    BY <1>0, <2>2, SinkStays, SameSink
  <2>3. QED
    BY <2>1, <2>2
<1>2. ASSUME d # 2, NEW k \in 1..Len(file.fns)
      PROVE  Places(Reported', Registry[d], k)
               = {i \in Due(Registry[d], file.fns[k]) : k < e + 1}
  <2>1. Reported' = Reported
    BY <1>0, <1>2, DetectorsDiffer, SameSink
  <2>2. Places(Reported, Registry[d], k)
          = {i \in Due(Registry[d], file.fns[k]) : k < e \/ (k = e /\ i < n)}
    BY <1>0, <1>2 DEF ExactInv, SinkIsExact
  <2>3. CASE k = e
    <3>1. Due(Registry[d], file.fns[k]) \subseteq 1..Len(Nodes) /\ Len(Nodes) \in Nat
      BY <1>0, <1>2, <2>3, DueIsInside DEF Nodes, Entry
    <3>2. \A i \in Due(Registry[d], file.fns[k]) : i < n
      BY <3>1
    <3>3. QED
      BY <1>0, <2>1, <2>2, <2>3, <3>2
  <2>4. CASE k # e
    <3>1. k < e + 1 <=> k < e
      BY <2>4, <1>0
    <3>2. QED
      BY <2>1, <2>2, <2>4, <3>1
  <2>5. QED
    BY <2>3, <2>4
<1>3. QED
  BY <1>0, <1>1, <1>2, PastEntry

(***************************************************************************)
(* From node to node.                                                      *)
(***************************************************************************)
\* Where the invariants stand at a node.
LEMMA ExactAtNode ==
  ASSUME WalkInv, ExactInv, NEW detector, AtNode(detector)
  PROVE  /\ d \in 2..5 /\ d \in 1..5 /\ Registry[d] = detector /\ file \in Files /\ TypeOK
         /\ e \in 1..Len(file.fns) /\ e # 0 /\ n \in Nat /\ n # 0 /\ n \in 1..Len(Nodes)
         /\ ~Exempt(Entry) /\ ListsAreRight(sink)
         /\ \A f \in Reported : f.rule = Registry[d]
         /\ d # 2 => Due(Registry[d], Entry) = DueAt(d, Entry)
         /\ d # 2 => Due(Registry[d], Entry) \subseteq Nat
         /\ Len(Nodes) \in Nat /\ IsNested(Nodes, Len(Nodes))
         /\ IsBelowCode(file, Nodes[n].line)
         /\ IsMisplaced(Nodes[n]) => IsBelowCode(file, Nodes[n].key.line)
<1>1. /\ d \in 1..5 /\ Registry[d] = detector /\ file \in Files /\ TypeOK
      /\ e \in 1..Len(file.fns) /\ e # 0 /\ n \in Nat /\ n # 0
      /\ Len(Nodes) \in Nat /\ ~Exempt(Entry)
  BY AtNodeFacts DEF Shape
<1>2. n \in 1..Len(Nodes)
  BY DEF AtNode
<1>3. d # 1 /\ ListsAreRight(sink) /\ \A f \in Reported : f.rule = Registry[d]
  BY <1>1 DEF ExactInv, SinkIsExact, SpansAreOutermost
<1>4. d # 2 => Due(Registry[d], Entry) = DueAt(d, Entry)
  BY <1>1, <1>3, DueByRule
<1>5. d # 2 => Due(Registry[d], Entry) \subseteq Nat
  BY <1>1, DueIsInside DEF Nodes
<1>6. \A i \in 1..Len(Nodes) :
        /\ Nodes[i].end \in Nat /\ i <= Nodes[i].end
        /\ \A j \in 1..Len(Nodes) : i < j /\ j <= Nodes[i].end => Nodes[j].end <= Nodes[i].end
        /\ IsBelowCode(file, Nodes[i].line)
        /\ IsStorageWrite(Nodes[i]) /\ Nodes[i].key # None => IsBelowCode(file, Nodes[i].key.line)
  BY <1>1, FilesAssumption DEF Nodes, Entry
<1>7. IsNested(Nodes, Len(Nodes))
  BY <1>6 DEF IsNested
<1>8. IsMisplaced(Nodes[n]) => IsBelowCode(file, Nodes[n].key.line)
  BY <1>2, <1>6 DEF IsMisplaced
<1>9. QED
  BY <1>1, <1>2, <1>3, <1>4, <1>5, <1>6, <1>7, <1>8

\* A step to the next node, whose places are those there were and this node when
\* the rule is about it.
LEMMA ExactWalk ==
  ASSUME WalkInv, ExactInv, NEW detector, AtNode(detector), Walk,
         ListsAreRight(sink)', \A f \in Reported' : f.rule = Registry[d],
         NEW now, now = IF d # 2 /\ n \in Due(Registry[d], Entry) THEN {n} ELSE {},
         d # 2 => \A k \in 1..Len(file.fns) :
                     Places(Reported', Registry[d], k)
                       = Places(Reported, Registry[d], k) \cup IF k = e THEN now ELSE {},
         d \in {4, 5} => spans' = spans \cup {<<i, Nodes[i].end>> : i \in now}
  PROVE  ExactInv'
<1> USE DEF Walk
<1>0. /\ d \in 2..5 /\ e \in 1..Len(file.fns) /\ e # 0 /\ n \in Nat /\ n # 0
      /\ d # 2 => Due(Registry[d], Entry) \subseteq Nat
  BY ExactAtNode
<1>1. ASSUME d # 2
      PROVE  {i \in Due(Registry[d], Entry) : i < n + 1}
               = {i \in Due(Registry[d], Entry) : i < n} \cup now
  <2>1. \A i \in Nat : i < n + 1 <=> i < n \/ i = n
    BY <1>0
  <2>2. QED
    BY <1>0, <1>1, <2>1
<1>2. ASSUME d # 2, NEW k \in 1..Len(file.fns)
      PROVE  Places(Reported', Registry[d], k)
               = {i \in Due(Registry[d], file.fns[k]) : k < e \/ (k = e /\ i < n + 1)}
  <2>1. Places(Reported, Registry[d], k)
          = {i \in Due(Registry[d], file.fns[k]) : k < e \/ (k = e /\ i < n)}
    BY <1>0, <1>2 DEF ExactInv, SinkIsExact
  <2>2. CASE k = e
    <3>1. ~(k < e)
      BY <1>0, <2>2
    <3>2. Places(Reported, Registry[d], k) = {i \in Due(Registry[d], Entry) : i < n}
      BY <2>1, <2>2, <3>1 DEF Entry
    <3>3. Places(Reported', Registry[d], k) = {i \in Due(Registry[d], Entry) : i < n + 1}
      BY <1>1, <1>2, <2>2, <3>2
    <3>4. QED
      BY <2>2, <3>1, <3>3 DEF Entry
  <2>3. CASE k # e
    BY <1>2, <2>1, <2>3
  <2>4. QED
    BY <2>2, <2>3
<1>3. SinkIsExact'
  BY <1>0, <1>2, SameJudgement DEF SinkIsExact
<1>4. SpansAreOutermost'
  <2>1. Entry' = Entry /\ Nodes' = Nodes
    BY DEF Entry, Nodes
  <2>2. ASSUME d \in {4, 5}
        PROVE  spans' = {<<i, Nodes[i].end>> : i \in {j \in Due(Registry[d], Entry) : j < n + 1}}
    <3>1. spans = {<<i, Nodes[i].end>> : i \in {j \in Due(Registry[d], Entry) : j < n}}
      BY <1>0, <2>2 DEF ExactInv, SpansAreOutermost
    <3>2. {j \in Due(Registry[d], Entry) : j < n + 1}
            = {j \in Due(Registry[d], Entry) : j < n} \cup now
      BY <1>1, <2>2
    <3>3. QED
      BY <2>2, <3>1, <3>2
  <2>3. QED
    BY <1>0, <2>1, <2>2, SameJudgement DEF SpansAreOutermost
<1>5. QED
  BY <1>3, <1>4, ExactResultStays DEF ExactInv

\* A step that reports nothing, at a node the rule is not about.
LEMMA ExactSilence ==
  ASSUME WalkInv, ExactInv, NEW detector, AtNode(detector), Walk, UNCHANGED <<sink, spans>>,
         d # 2 => n \notin Due(Registry[d], Entry)
  PROVE  ExactInv'
<1>1. ListsAreRight(sink)' /\ Reported' = Reported /\ \A f \in Reported : f.rule = Registry[d]
  BY ExactAtNode, SinkStays, SameSink DEF Walk
<1> DEFINE now == IF d # 2 /\ n \in Due(Registry[d], Entry) THEN {n} ELSE {}
<1>2. now = {}
  OBVIOUS
<1>3. \A k \in 1..Len(file.fns) :
        Places(Reported', Registry[d], k)
          = Places(Reported, Registry[d], k) \cup IF k = e THEN now ELSE {}
  BY <1>1, <1>2
<1>4. spans' = spans \cup {<<i, Nodes[i].end>> : i \in now}
  BY <1>2
<1> HIDE DEF now
<1>5. now = IF d # 2 /\ n \in Due(Registry[d], Entry) THEN {n} ELSE {}
  BY DEF now
<1>6. QED
  BY <1>1, <1>3, <1>4, <1>5, ExactWalk

\* A step that reports a node the rule is about.
LEMMA ExactReport ==
  ASSUME WalkInv, ExactInv, NEW detector, AtNode(detector), Walk, d # 2,
         NEW f, Report(f), f.rule = Registry[d], f.entry = e, f.from = n,
         IsTrue(f), IsBelowCode(file, f.line),
         n \in Due(Registry[d], Entry),
         d \in {4, 5} => spans' = spans \cup {<<n, Nodes[n].end>>}
  PROVE  ExactInv'
<1>1. /\ TypeOK /\ file \in Files /\ ListsAreRight(sink)
      /\ \A g \in Reported : g.rule = Registry[d]
  BY ExactAtNode
<1>2. ListsAreRight(sink)' /\ Reported' = Reported \cup {f}
  BY <1>1, ReportIsRight, ReportAdds DEF Walk
<1>3. \A k \in 1..Len(file.fns) :
        Places(Reported', Registry[d], k)
          = Places(Reported, Registry[d], k) \cup IF k = e THEN {n} ELSE {}
  BY <1>2, PlacesGrow
<1>4. d \in {4, 5} => spans' = spans \cup {<<i, Nodes[i].end>> : i \in {n}}
  OBVIOUS
<1>5. QED
  BY <1>1, <1>2, <1>3, <1>4, ExactWalk

\* Whether the detectors that keep ranges take this node for contained.
LEMMA ContainedAtNode ==
  ASSUME WalkInv, ExactInv, NEW detector, AtNode(detector), d \in {4, 5},
         NEW S, S \subseteq 1..Len(Nodes), n \in S, Due(Registry[d], Entry) = Outermost(S, Nodes)
  PROVE  SpanContainedIn(n, Nodes[n].end, spans) <=> n \notin Due(Registry[d], Entry)
<1>1. /\ Len(Nodes) \in Nat /\ IsNested(Nodes, Len(Nodes)) /\ n # 0
  BY ExactAtNode
<1>2. spans = {<<i, Nodes[i].end>> : i \in {j \in Outermost(S, Nodes) : j < n}}
  BY <1>1 DEF ExactInv, SpansAreOutermost
<1>3. QED
  BY <1>1, <1>2, ContainedIsInner

LEMMA CountReadExact == ASSUME WalkInv, ExactInv, CountRead PROVE ExactInv'
<1>1. AtNode(ReadBudget) /\ Walk /\ UNCHANGED <<spans, sink>>
  BY DEF CountRead
<1>2. d = 2
  BY <1>1, ExactAtNode, DetectorsDiffer
<1>3. QED
  BY <1>1, <1>2, ExactSilence

LEMMA MeetWriteExact == ASSUME WalkInv, ExactInv, MeetWrite PROVE ExactInv'
<1> DEFINE new == Finding(n, Nodes[n].end, Nodes[n].key.line, [key |-> Nodes[n].key.names])
<1>1. AtNode(StorageDurability) /\ Walk /\ Report(new) /\ IsMisplaced(Nodes[n])
  BY DEF MeetWrite
<1>2. /\ d = 3 /\ n \in 1..Len(Nodes) /\ IsBelowCode(file, Nodes[n].key.line)
      /\ e \in 1..Len(file.fns) /\ Due(Registry[d], Entry) = DueAt(3, Entry)
  BY <1>1, ExactAtNode, DetectorsDiffer
<1>3. n \in Due(Registry[d], Entry)
  BY <1>1, <1>2 DEF DueAt, At, Nodes
<1>4. /\ new.rule = Registry[d] /\ new.entry = e /\ new.from = n /\ new.line = Nodes[n].key.line
  BY DEF Finding
<1> HIDE DEF new
<1>5. IsTrue(new)
  BY <1>2, <1>4, DetectorsDiffer DEF IsTrue
<1>6. QED
  BY <1>1, <1>2, <1>3, <1>4, <1>5, ExactReport

LEMMA MeetLoopExact == ASSUME WalkInv, ExactInv, MeetLoop PROVE ExactInv'
<1> DEFINE new == Finding(n, Nodes[n].end, Nodes[n].line, [origin |-> Origin(Entry.body, n)])
           S == {i \in At(Entry.body) : IsUnboundedLoop(Nodes, i)}
<1>1. /\ AtNode(UnboundedStorageLoop) /\ Walk /\ Report(new) /\ IsUnboundedLoop(Nodes, n)
      /\ ~SpanContainedIn(n, Nodes[n].end, spans) /\ spans' = spans \cup {<<n, Nodes[n].end>>}
  BY DEF MeetLoop
<1>2. /\ d = 4 /\ n \in 1..Len(Nodes) /\ IsBelowCode(file, Nodes[n].line)
      /\ e \in 1..Len(file.fns) /\ Due(Registry[d], Entry) = Outermost(S, Nodes)
  <2>1. /\ d = 4 /\ n \in 1..Len(Nodes) /\ IsBelowCode(file, Nodes[n].line)
        /\ e \in 1..Len(file.fns) /\ Due(Registry[d], Entry) = DueAt(4, Entry)
    BY <1>1, ExactAtNode, DetectorsDiffer
  <2>2. DueAt(4, Entry) = Outermost(S, Nodes)
    BY DEF DueAt, Nodes
  <2>3. QED
    BY <2>1, <2>2
<1>3. S \subseteq 1..Len(Nodes) /\ n \in S
  BY <1>1, <1>2 DEF At, Nodes
<1> HIDE DEF S
<1>4. n \in Due(Registry[d], Entry)
  BY <1>1, <1>2, <1>3, ContainedAtNode
<1>5. /\ new.rule = Registry[d] /\ new.entry = e /\ new.from = n /\ new.line = Nodes[n].line
      /\ new.what.origin = Origin(file.fns[e].body, n)
  BY DEF Finding, Entry
<1> HIDE DEF new
<1>6. IsTrue(new)
  BY <1>2, <1>5 DEF IsTrue
<1>7. QED
  BY <1>1, <1>2, <1>4, <1>5, <1>6, ExactReport

LEMMA MeetArithmeticExact == ASSUME WalkInv, ExactInv, MeetArithmetic PROVE ExactInv'
<1> DEFINE new == Finding(n, Nodes[n].end, Nodes[n].line, [operands |-> AmountOperands(Nodes, n)])
           S == {i \in At(Entry.body) : IsUncheckedArithmetic(Nodes, i)}
<1>1. /\ AtNode(UncheckedArithmetic) /\ Walk /\ Report(new) /\ IsUncheckedArithmetic(Nodes, n)
      /\ ~SpanContainedIn(n, Nodes[n].end, spans) /\ spans' = spans \cup {<<n, Nodes[n].end>>}
  BY DEF MeetArithmetic
<1>2. /\ d = 5 /\ n \in 1..Len(Nodes) /\ IsBelowCode(file, Nodes[n].line)
      /\ e \in 1..Len(file.fns) /\ Due(Registry[d], Entry) = Outermost(S, Nodes)
  <2>1. /\ d = 5 /\ n \in 1..Len(Nodes) /\ IsBelowCode(file, Nodes[n].line)
        /\ e \in 1..Len(file.fns) /\ Due(Registry[d], Entry) = DueAt(5, Entry)
    BY <1>1, ExactAtNode, DetectorsDiffer
  <2>2. DueAt(5, Entry) = Outermost(S, Nodes)
    BY DEF DueAt, Nodes
  <2>3. QED
    BY <2>1, <2>2
<1>3. S \subseteq 1..Len(Nodes) /\ n \in S
  BY <1>1, <1>2 DEF At, Nodes
<1> HIDE DEF S
<1>4. n \in Due(Registry[d], Entry)
  BY <1>1, <1>2, <1>3, ContainedAtNode
<1>5. /\ new.rule = Registry[d] /\ new.entry = e /\ new.from = n /\ new.line = Nodes[n].line
  BY DEF Finding
<1> HIDE DEF new
<1>6. IsTrue(new)
  BY <1>2, <1>5, DetectorsDiffer DEF IsTrue
<1>7. QED
  BY <1>1, <1>2, <1>4, <1>5, <1>6, ExactReport

LEMMA PassNodeExact == ASSUME WalkInv, ExactInv, PassNode PROVE ExactInv'
<1>0. PICK detector \in {ReadBudget, StorageDurability, UnboundedStorageLoop,
                         UncheckedArithmetic} : AtNode(detector)
  BY DEF PassNode
<1>1. Walk /\ UNCHANGED <<spans, sink>>
  BY DEF PassNode
<1>2. /\ d \in 2..5 /\ n \in 1..Len(Nodes) /\ Registry[d] = detector
      /\ d # 2 => Due(Registry[d], Entry) = DueAt(d, Entry)
  BY <1>0, ExactAtNode
<1>3. /\ d = 3 => ~IsMisplaced(Nodes[n])
      /\ d = 4 => ~IsUnboundedLoop(Nodes, n) \/ SpanContainedIn(n, Nodes[n].end, spans)
      /\ d = 5 => ~IsUncheckedArithmetic(Nodes, n) \/ SpanContainedIn(n, Nodes[n].end, spans)
  BY <1>2, DetectorsDiffer DEF PassNode, AtNode
<1>4. d = 3 => n \notin Due(Registry[d], Entry)
  BY <1>2, <1>3 DEF DueAt, Nodes
<1>5. ASSUME d = 4
      PROVE  n \notin Due(Registry[d], Entry)
  <2> DEFINE S == {i \in At(Entry.body) : IsUnboundedLoop(Nodes, i)}
  <2>1. S \subseteq 1..Len(Nodes) /\ Due(Registry[d], Entry) = Outermost(S, Nodes)
    BY <1>2, <1>5 DEF DueAt, Nodes, At
  <2>2. CASE n \in S
    <3>1. SpanContainedIn(n, Nodes[n].end, spans)
      BY <1>3, <1>5, <2>2
    <3> HIDE DEF S
    <3>2. QED
      BY <1>0, <1>5, <2>1, <2>2, <3>1, ContainedAtNode
  <2>3. CASE n \notin S
    BY <2>1, <2>3 DEF Outermost
  <2>4. QED
    BY <2>2, <2>3
<1>6. ASSUME d = 5
      PROVE  n \notin Due(Registry[d], Entry)
  <2> DEFINE S == {i \in At(Entry.body) : IsUncheckedArithmetic(Nodes, i)}
  <2>1. S \subseteq 1..Len(Nodes) /\ Due(Registry[d], Entry) = Outermost(S, Nodes)
    BY <1>2, <1>6 DEF DueAt, Nodes, At
  <2>2. CASE n \in S
    <3>1. SpanContainedIn(n, Nodes[n].end, spans)
      BY <1>3, <1>6, <2>2
    <3> HIDE DEF S
    <3>2. QED
      BY <1>0, <1>6, <2>1, <2>2, <3>1, ContainedAtNode
  <2>3. CASE n \notin S
    BY <2>1, <2>3 DEF Outermost
  <2>4. QED
    BY <2>2, <2>3
<1>7. d # 2 => n \notin Due(Registry[d], Entry)
  BY <1>2, <1>4, <1>5, <1>6
<1>8. QED
  BY <1>0, <1>1, <1>7, ExactSilence

-----------------------------------------------------------------------------
(***************************************************************************)
(* What the estimate says of the reads that are made.                      *)
(***************************************************************************)
\* U[j] is how often those of some reads that are among the first j nodes are
\* made.
AreTotals(U, fn, reads) ==
  /\ U \in [0..Len(fn.body.nodes) -> Nat]
  /\ U[0] = 0
  /\ \A j \in 1..Len(fn.body.nodes) :
       U[j] = IF j \in reads THEN U[j - 1] + Trips(fn.body.nodes, j) ELSE U[j - 1]

\* The total is no less than the number of the reads counted in full unless it
\* is at its limit, and, as long as no read was counted too often, no more than
\* the number of the others.
EstimateIsFair ==
  d = 2 /\ n # 0 =>
    /\ \A U : AreTotals(U, Entry, FullReads(Entry)) =>
         estimate.total = MaxU64 \/ U[n - 1] <= estimate.total
    /\ \A U : AreTotals(U, Entry, FairReads(Entry)) =>
         ((\A i \in CountedReads(Entry) : i < n => i \in FairReads(Entry))
            => estimate.total <= U[n - 1])

IsOver(F, k) == \E f \in F : f.rule = ReadBudget /\ f.entry = k

\* EstimateJudgesTheReads, of one function.
Judged(fn, over) ==
  /\ Made(fn, FullReads(fn)) > ReadCeiling => over
  /\ over => \/ FairReads(fn) # CountedReads(fn)
             \/ Made(fn, FairReads(fn)) > ReadCeiling

SinkIsFair ==
  e # 0 /\ d = 2 =>
    \A k \in 1..Len(file.fns) :
      /\ k < e /\ ~Exempt(file.fns[k]) => Judged(file.fns[k], IsOver(Reported, k))
      /\ k >= e => ~IsOver(Reported, k)

ResultIsFair ==
  /\ d <= 2 => \A f \in Findings : f.rule # ReadBudget
  /\ d > 2 /\ ReadBudget \in Loaded =>
       \A k \in 1..Len(file.fns) :
         ~Exempt(file.fns[k]) => Judged(file.fns[k], IsOver(Findings, k))

CountInv == EstimateIsFair /\ SinkIsFair /\ ResultIsFair

(***************************************************************************)
(* Products and sums along a body.                                         *)
(***************************************************************************)
\* f takes the steps of a recursion over 1..m, from b, as long as it is in V.
Follows(f, V, b, step, m) ==
  f[0] = b /\ \A j \in 1..m : f[j - 1] \in V => f[j] = step[<<j, f[j - 1]>>]

\* A function that takes the steps of a recursion is its only solution.
LEMMA RunsAgree ==
  ASSUME NEW V, NEW b, NEW step, NEW m \in Nat, NEW Q, IsRun(Q, V, b, step, m),
         NEW f, Follows(f, V, b, step, m)
  PROVE  \A j \in 0..m : f[j] = Q[j]
<1> DEFINE T == {j \in Nat : j <= m => f[j] = Q[j]}
<1>1. 0 \in T
  BY DEF IsRun, Follows
<1>2. ASSUME NEW j \in T
      PROVE  j + 1 \in T
  <2>1. SUFFICES ASSUME j + 1 <= m
                 PROVE  f[j + 1] = Q[j + 1]
    OBVIOUS
  <2>2. j + 1 \in 1..m /\ (j + 1) - 1 = j /\ f[j] = Q[j] /\ j \in 0..m
    BY <2>1
  <2>3. Q[j + 1] = step[<<j + 1, Q[j]>>] /\ Q[j] \in V
    BY <2>2 DEF IsRun
  <2>4. f[j + 1] = step[<<j + 1, f[j]>>]
    BY <2>2, <2>3 DEF Follows
  <2>5. QED
    BY <2>2, <2>3, <2>4
<1>3. T = Nat
  <2>1. T \in SUBSET Nat
    OBVIOUS
  <2> HIDE DEF T
  <2>2. QED
    BY <1>1, <1>2, <2>1, NatInducts
<1>4. QED
  BY <1>3

\* Where the loops around a node have bounds, the bounds are numbers.
LEMMA BoundsAreNumbers ==
  ASSUME NEW node, HasNumbers(node), StaticLoopBound(node) # None
  PROVE  StaticLoopBound(node) \in Nat
<1>1. CASE node.kind = "for" /\ node.iter # None
  <2>1. node.iter.start \in Nat \cup {None} /\ node.iter.end \in Nat \cup {None}
    BY <1>1, MaxU64Assumption DEF HasNumbers
  <2>2. StaticLoopBound(node) = RangeLength(node.iter)
    BY <1>1 DEF StaticLoopBound
  <2>3. RangeLength(node.iter) # None
    BY <2>2
  <2> DEFINE start == IF node.iter.start = None THEN 0 ELSE node.iter.start
  <2>4. start \in Nat
    BY <2>1
  <2>5. RangeLength(node.iter)
          = IF node.iter.end = None THEN None
            ELSE IF node.iter.closed
            THEN IF node.iter.end = MaxU64 \/ node.iter.end + 1 < start THEN None
                 ELSE node.iter.end + 1 - start
            ELSE IF node.iter.end < start THEN None ELSE node.iter.end - start
    BY DEF RangeLength
  <2> HIDE DEF start
  <2>6. QED
    BY <2>1, <2>2, <2>3, <2>4, <2>5
<1>2. CASE node.kind = "while" /\ node.cond # None
  <2>1. node.cond.left \in Nat \cup {None} /\ node.cond.right \in Nat \cup {None}
    BY <1>2, MaxU64Assumption DEF HasNumbers
  <2>2. StaticLoopBound(node) = ComparisonBound(node.cond)
    BY <1>2 DEF StaticLoopBound
  <2>3. QED
    BY <2>1, <2>2 DEF ComparisonBound
<1>3. CASE ~(node.kind = "for" /\ node.iter # None) /\ ~(node.kind = "while" /\ node.cond # None)
  BY <1>3 DEF StaticLoopBound
<1>4. QED
  BY <1>1, <1>2, <1>3

\* A loop that ends at a literal turns as often as its bound says, and a `while'
\* that includes its end once more.
LEMMA TurnsAreCounted ==
  ASSUME NEW node, HasNumbers(node), HasTop(node), StaticLoopBound(node) # None
  PROVE  /\ IsFiniteSet(Turns(node)) /\ Cardinality(Turns(node)) \in Nat
         /\ StaticLoopBound(node) <= Cardinality(Turns(node))
         /\ (node.kind = "while" => ~IsInclusive(node.cond))
              => StaticLoopBound(node) = Cardinality(Turns(node))
<1>0. MaxU64 \in Nat
  BY MaxU64Assumption
<1>1. CASE node.kind = "for" /\ node.iter # None /\ node.iter.end # None
  <2> DEFINE start == IF node.iter.start = None THEN 0 ELSE node.iter.start
             end   == node.iter.end
             last  == IF node.iter.closed THEN end ELSE end - 1
  <2>1. start \in 0..MaxU64 /\ end \in 0..MaxU64
    BY <1>0, <1>1 DEF HasNumbers
  <2>2. StaticLoopBound(node) = RangeLength(node.iter)
    BY <1>1 DEF StaticLoopBound
  <2>3. RangeLength(node.iter)
          = IF node.iter.closed
            THEN IF end = MaxU64 \/ end + 1 < start THEN None ELSE end + 1 - start
            ELSE IF end < start THEN None ELSE end - start
    BY <1>1 DEF RangeLength
  <2>4. \A c \in 0..MaxU64 :
          /\ node.iter.start # None => node.iter.start <= c
          /\ c < node.iter.end \/ (node.iter.closed /\ c = node.iter.end)
          <=> start <= c /\ c <= last
    <3>1. \A c \in 0..MaxU64 : (node.iter.start # None => node.iter.start <= c) <=> start <= c
      BY <1>0
    <3>2. \A c \in 0..MaxU64 : c < end \/ (node.iter.closed /\ c = end) <=> c <= last
      <4> HIDE DEF end
      <4> QED BY <1>0, <2>1
    <3> QED BY <3>1, <3>2
  <2>5. start <= last + 1 /\ StaticLoopBound(node) = last - start + 1
    <3> HIDE DEF start, end
    <3>1. CASE node.iter.closed
      BY <1>0, <2>1, <2>2, <2>3, <3>1
    <3>2. CASE ~node.iter.closed
      BY <1>0, <2>1, <2>2, <2>3, <3>2
    <3> QED BY <3>1, <3>2
  <2>6. Turns(node) = {c \in 0..MaxU64 : start <= c /\ c <= last}
    <3>1. Turns(node) = {c \in 0..MaxU64 :
             /\ node.iter.start # None => node.iter.start <= c
             /\ c < node.iter.end \/ (node.iter.closed /\ c = node.iter.end)}
      BY <1>1 DEF Turns
    <3> HIDE DEF start, last
    <3> QED BY <2>4, <3>1
  <2>7. start \in Int /\ last \in Int /\ 0 <= start /\ last <= MaxU64
    BY <1>0, <2>1
  <2> HIDE DEF start, end, last
  <2>8. Turns(node) = start..last
    BY <1>0, <2>6, <2>7
  <2>9. IsFiniteSet(start..last)
        /\ Cardinality(start..last) = IF start > last THEN 0 ELSE last - start + 1
    BY <2>7, FS_Interval
  <2> QED BY <2>5, <2>7, <2>8, <2>9
<1>2. CASE node.kind = "while" /\ node.cond # None /\ Top(node.cond) # None
  <2> DEFINE top  == Top(node.cond)
             last == IF IsInclusive(node.cond) THEN top ELSE top - 1
  <2>1. top \in 0..MaxU64
    BY <1>2 DEF HasNumbers, Top
  <2>2. StaticLoopBound(node) = top
    <3>1. StaticLoopBound(node) = ComparisonBound(node.cond)
      BY <1>2 DEF StaticLoopBound
    <3>2. ComparisonBound(node.cond) = top
      BY <1>2 DEF ComparisonBound, Top
    <3> QED BY <3>1, <3>2
  <2>3. Turns(node) = {c \in 0..MaxU64 : c < top \/ (IsInclusive(node.cond) /\ c = top)}
    BY <1>2 DEF Turns
  <2> HIDE DEF top
  <2>4. \A c \in 0..MaxU64 : c < top \/ (IsInclusive(node.cond) /\ c = top) <=> c <= last
    BY <1>0, <2>1
  <2>5. last \in Int /\ last <= MaxU64 /\ last + 1 >= top
        /\ (~IsInclusive(node.cond) => last + 1 = top) /\ last + 1 >= 0
    BY <1>0, <2>1
  <2>6. Turns(node) = {c \in 0..MaxU64 : c <= last}
    <3> HIDE DEF last
    <3> QED BY <2>3, <2>4
  <2> HIDE DEF last
  <2>7. Turns(node) = 0..last
    BY <1>0, <2>5, <2>6
  <2>8. IsFiniteSet(0..last) /\ Cardinality(0..last) = IF 0 > last THEN 0 ELSE last - 0 + 1
    BY <2>5, FS_Interval
  <2> QED BY <1>2, <2>1, <2>2, <2>5, <2>7, <2>8
<1> QED BY <1>1, <1>2 DEF HasTop

\* A read in the body of a loop, or in the header of a `while', is made no less
\* often than the bound says; in the body as often, when the end is not included.
LEMMA TimesAreCounted ==
  ASSUME NEW nodes, NEW l, NEW i, HasNumbers(nodes[l]), HasTop(nodes[l]),
         StaticLoopBound(nodes[l]) # None,
         nodes[l].kind = "for" => InLoopBody(nodes, l, i)
  PROVE  /\ Times(nodes, l, i) \in Nat
         /\ StaticLoopBound(nodes[l]) <= Times(nodes, l, i)
         /\ InLoopBody(nodes, l, i) /\ (nodes[l].kind = "while" => ~IsInclusive(nodes[l].cond))
              => StaticLoopBound(nodes[l]) = Times(nodes, l, i)
<1> DEFINE turns == Cardinality(Turns(nodes[l]))
           bound == StaticLoopBound(nodes[l])
<1>1. turns \in Nat /\ bound \in Nat /\ bound <= turns
  BY TurnsAreCounted, BoundsAreNumbers
<1>2. (nodes[l].kind = "while" => ~IsInclusive(nodes[l].cond)) => bound = turns
  BY TurnsAreCounted
<1>3. Times(nodes, l, i) = IF InLoopBody(nodes, l, i) THEN turns ELSE turns + 1
  BY DEF Times
<1> HIDE DEF turns
<1> QED BY <1>1, <1>2, <1>3

\* T[j] is the product over the loops around node i up to node j.
AreTrips(T, nodes, i) ==
  /\ T \in [0..(i - 1) -> Nat]
  /\ T[0] = 1
  /\ \A j \in 1..(i - 1) :
       T[j] = IF j \in LoopsAround(nodes, i) THEN T[j - 1] * Times(nodes, j, i) ELSE T[j - 1]

LEMMA TripsAreTaken ==
  ASSUME NEW nodes, NEW i \in Nat \ {0},
         \A j \in LoopsAround(nodes, i) : Times(nodes, j, i) \in Nat
  PROVE  \E T : AreTrips(T, nodes, i) /\ Trips(nodes, i) = T[i - 1]
<1> DEFINE around == LoopsAround(nodes, i)
           Taken(j, x) == IF j \in around THEN x * Times(nodes, j, i) ELSE x
           step == [x \in Nat \X Nat |-> Taken(x[1], x[2])]
           m == i - 1
<1>0. m \in Nat /\ i - 1 \in 0..(i - 1)
  OBVIOUS
<1>1. \A j \in Nat : \A x \in Nat : Taken(j, x) \in Nat
  <2>1. \A a, c \in Nat : a * c \in Nat
    OBVIOUS
  <2>2. QED
    BY <2>1
<1>2. /\ step \in [Nat \X Nat -> Nat]
      /\ \A j \in Nat : \A x \in Nat : step[<<j, x>>] = Taken(j, x)
  <2> HIDE DEF Taken
  <2>1. QED
    BY <1>1
<1> HIDE DEF step
<1>3. PICK T : IsRun(T, Nat, 1, step, m)
  BY <1>0, <1>2, RecursionExists
<1>4. T \in [0..m -> Nat] /\ T[0] = 1 /\ \A j \in 1..m : T[j] = Taken(j, T[j - 1])
  <2> HIDE DEF Taken
  <2>1. T \in [0..m -> Nat] /\ T[0] = 1 /\ \A j \in 1..m : T[j] = step[<<j, T[j - 1]>>]
    BY <1>3 DEF IsRun
  <2>2. \A j \in 1..m : T[j - 1] \in Nat /\ j \in Nat
    BY <1>0, <2>1
  <2>3. QED
    BY <1>2, <2>1, <2>2
<1> DEFINE Rec(g) == g = [j \in 0..m |-> IF j = 0 THEN 1 ELSE Taken(j, g[j - 1])]
           f == CHOOSE g : Rec(g)
<1>5. Trips(nodes, i) = f[m]
  BY DEF Trips
<1>6. Rec(T)
  <2> HIDE DEF Taken
  <2>1. \A j \in 0..m : j = 0 \/ j \in 1..m
    OBVIOUS
  <2>2. \A j \in 0..m : T[j] = IF j = 0 THEN 1 ELSE Taken(j, T[j - 1])
    BY <1>4, <2>1
  <2>3. T = [j \in 0..m |-> T[j]]
    BY <1>4
  <2>4. QED
    BY <2>2, <2>3
<1>7. Rec(f)
  <2> HIDE DEF Rec
  <2>1. QED
    BY <1>6
<1>8. f[0] = 1 /\ \A j \in 1..m : f[j] = Taken(j, f[j - 1])
  <2> HIDE DEF f, Taken
  <2>1. 0 \in 0..m /\ \A j \in 1..m : j \in 0..m /\ j # 0
    BY <1>0
  <2>2. ASSUME NEW j \in 0..m
        PROVE  f[j] = IF j = 0 THEN 1 ELSE Taken(j, f[j - 1])
    BY <1>7, Zenon
  <2>3. QED
    BY <2>1, <2>2
<1> HIDE DEF f
<1>9. f[m] = T[m]
  <2> HIDE DEF Taken
  <2>1. \A j \in 1..m : f[j - 1] \in Nat => f[j] = step[<<j, f[j - 1]>>]
    BY <1>2, <1>8
  <2>2. Follows(f, Nat, 1, step, m)
    BY <1>8, <2>1 DEF Follows
  <2>3. m \in 0..m
    BY <1>0
  <2> HIDE DEF m
  <2>4. QED
    BY <1>0, <1>3, <2>2, <2>3, RunsAgree
<1>10. AreTrips(T, nodes, i)
  BY <1>4 DEF AreTrips
<1>11. QED
  BY <1>5, <1>9, <1>10

\* P[j] is the same product as the code takes it, None from an overflow on.
AreProducts(P, nodes, i) ==
  /\ P[0] = 1
  /\ \A j \in 1..(i - 1) :
       P[j] = IF j \notin LoopsAround(nodes, i) \/ P[j - 1] = None THEN P[j - 1]
              ELSE IF P[j - 1] * StaticLoopBound(nodes[j]) > MaxU64 THEN None
              ELSE P[j - 1] * StaticLoopBound(nodes[j])

LEMMA ProductsAreTaken ==
  ASSUME NEW nodes, NEW i \in Nat \ {0},
         \A j \in LoopsAround(nodes, i) : StaticLoopBound(nodes[j]) \in Nat
  PROVE  \E P : AreProducts(P, nodes, i) /\ Product(nodes, i) = P[i - 1]
<1> DEFINE around == LoopsAround(nodes, i)
           V == Nat \cup {None}
           Taken(j, x) == IF j \notin around \/ x = None THEN x
                          ELSE IF x * StaticLoopBound(nodes[j]) > MaxU64 THEN None
                          ELSE x * StaticLoopBound(nodes[j])
           step == [x \in Nat \X V |-> Taken(x[1], x[2])]
           m == i - 1
<1>0. m \in Nat /\ i - 1 \in 0..(i - 1) /\ 1 \in V
  OBVIOUS
<1>1. \A j \in Nat : \A x \in V : Taken(j, x) \in V
  <2>1. \A a, c \in Nat : a * c \in Nat
    OBVIOUS
  <2>2. QED
    BY <2>1
<1>2. /\ step \in [Nat \X V -> V]
      /\ \A j \in Nat : \A x \in V : step[<<j, x>>] = Taken(j, x)
  <2> HIDE DEF Taken, V
  <2>1. QED
    BY <1>1
<1> HIDE DEF step, V
<1>3. PICK P : IsRun(P, V, 1, step, m)
  BY <1>0, <1>2, RecursionExists
<1>4. P \in [0..m -> V] /\ P[0] = 1 /\ \A j \in 1..m : P[j] = Taken(j, P[j - 1])
  <2> HIDE DEF Taken
  <2>1. P \in [0..m -> V] /\ P[0] = 1 /\ \A j \in 1..m : P[j] = step[<<j, P[j - 1]>>]
    BY <1>3 DEF IsRun
  <2>2. \A j \in 1..m : P[j - 1] \in V /\ j \in Nat
    BY <1>0, <2>1
  <2>3. QED
    BY <1>2, <2>1, <2>2
<1> DEFINE Rec(g) == g = [j \in 0..m |-> IF j = 0 THEN 1 ELSE Taken(j, g[j - 1])]
           f == CHOOSE g : Rec(g)
<1>5. Product(nodes, i) = f[m]
  BY DEF Product
<1>6. Rec(P)
  <2> HIDE DEF Taken
  <2>1. \A j \in 0..m : j = 0 \/ j \in 1..m
    OBVIOUS
  <2>2. \A j \in 0..m : P[j] = IF j = 0 THEN 1 ELSE Taken(j, P[j - 1])
    BY <1>4, <2>1
  <2>3. P = [j \in 0..m |-> P[j]]
    BY <1>4
  <2>4. QED
    BY <2>2, <2>3
<1>7. Rec(f)
  <2> HIDE DEF Rec
  <2>1. QED
    BY <1>6
<1>8. f[0] = 1 /\ \A j \in 1..m : f[j] = Taken(j, f[j - 1])
  <2> HIDE DEF f, Taken
  <2>1. 0 \in 0..m /\ \A j \in 1..m : j \in 0..m /\ j # 0
    BY <1>0
  <2>2. ASSUME NEW j \in 0..m
        PROVE  f[j] = IF j = 0 THEN 1 ELSE Taken(j, f[j - 1])
    BY <1>7, Zenon
  <2>3. QED
    BY <2>1, <2>2
<1> HIDE DEF f
<1>9. f[m] = P[m]
  <2> HIDE DEF Taken
  <2>1. \A j \in 1..m : f[j - 1] \in V => f[j] = step[<<j, f[j - 1]>>]
    BY <1>2, <1>8
  <2>2. Follows(f, V, 1, step, m)
    BY <1>8, <2>1 DEF Follows
  <2>3. m \in 0..m
    BY <1>0
  <2> HIDE DEF m
  <2>4. QED
    BY <1>0, <1>3, <2>2, <2>3, RunsAgree
<1>10. AreProducts(P, nodes, i)
  BY <1>4 DEF AreProducts
<1>11. QED
  BY <1>5, <1>9, <1>10

\* A number over the limit stays over it, or comes to nothing.
LEMMA OverOrNothing ==
  ASSUME NEW t \in Nat, NEW c \in Nat, NEW max \in Nat, t > max
  PROVE  t * c > max \/ t * c = 0
<1>1. CASE c = 0
  BY <1>1
<1>2. CASE c # 0
  <2>1. PICK k \in Nat : c = k + 1
    <3>1. c - 1 \in Nat /\ c = (c - 1) + 1
      BY <1>2
    <3>2. QED
      BY <3>1
  <2>2. t * c = t * k + t /\ t * k \in Nat
    BY <2>1
  <2>3. QED
    BY <2>2
<1>3. QED
  BY <1>1, <1>2

\* Products of numbers are in the order of their factors.
LEMMA ProductsGrow ==
  ASSUME NEW a \in Nat, NEW b \in Nat, NEW c \in Nat, NEW f \in Nat, a <= b, c <= f
  PROVE  a * c <= b * f
<1>1. PICK x \in Nat : b = a + x
  <2>1. b - a \in Nat /\ b = a + (b - a)
    OBVIOUS
  <2> QED BY <2>1
<1>2. PICK y \in Nat : f = c + y
  <2>1. f - c \in Nat /\ f = c + (f - c)
    OBVIOUS
  <2> QED BY <2>1
<1>3. b * f = a * c + a * y + x * c + x * y
  BY <1>1, <1>2
<1>4. a * c \in Nat /\ a * y \in Nat /\ x * c \in Nat /\ x * y \in Nat
  OBVIOUS
<1> QED BY <1>3, <1>4

\* Where no bound around a read is more than how often its loop runs it, the
\* cost of the read is no more than the number of its trips, unless it has none;
\* where all of them are the same, so is the cost, or it is the limit.
LEMMA CostIsFair ==
  ASSUME NEW nodes, NEW i \in Nat \ {0},
         \A l \in LoopsAround(nodes, i) :
            /\ StaticLoopBound(nodes[l]) \in Nat /\ Times(nodes, l, i) \in Nat
            /\ StaticLoopBound(nodes[l]) <= Times(nodes, l, i)
  PROVE  /\ Trips(nodes, i) \in Nat
         /\ Cost(nodes, i) \in 0..MaxU64
         /\ Trips(nodes, i) # 0 => Cost(nodes, i) <= Trips(nodes, i)
         /\ (\A l \in LoopsAround(nodes, i) :
                StaticLoopBound(nodes[l]) = Times(nodes, l, i))
              => Cost(nodes, i) = Trips(nodes, i) \/ Cost(nodes, i) = MaxU64
<1> DEFINE around == LoopsAround(nodes, i)
           m == i - 1
           Equal == \A l \in around : StaticLoopBound(nodes[l]) = Times(nodes, l, i)
<1>0. m \in Nat /\ MaxU64 \in Nat /\ MaxU64 >= 1
  BY MaxU64Assumption
<1>1. \A l \in around : /\ StaticLoopBound(nodes[l]) \in Nat /\ Times(nodes, l, i) \in Nat
                         /\ StaticLoopBound(nodes[l]) <= Times(nodes, l, i)
  OBVIOUS
<1>2. PICK T : AreTrips(T, nodes, i) /\ Trips(nodes, i) = T[m]
  BY <1>1, TripsAreTaken
<1>3. PICK P : AreProducts(P, nodes, i) /\ Product(nodes, i) = P[m]
  BY <1>1, ProductsAreTaken
<1>4. /\ T \in [0..m -> Nat] /\ T[0] = 1
      /\ \A j \in 1..m : T[j] = IF j \in around THEN T[j - 1] * Times(nodes, j, i) ELSE T[j - 1]
  BY <1>2 DEF AreTrips
<1>5. /\ P[0] = 1
      /\ \A j \in 1..m : P[j] = IF j \notin around \/ P[j - 1] = None THEN P[j - 1]
                                ELSE IF P[j - 1] * StaticLoopBound(nodes[j]) > MaxU64 THEN None
                                ELSE P[j - 1] * StaticLoopBound(nodes[j])
  BY <1>3 DEF AreProducts
<1> HIDE DEF Equal
<1> DEFINE Fair(j) == /\ P[j] # None => /\ P[j] \in 0..MaxU64 /\ P[j] <= T[j]
                                        /\ Equal => P[j] = T[j]
                      /\ P[j] = None => T[j] = 0 \/ T[j] > MaxU64
           S == {j \in Nat : j <= m => Fair(j)}
<1>6. 0 \in S
  <2>1. P[0] # None
    BY <1>5, NoneAssumption
  <2>2. QED
    BY <1>0, <1>4, <1>5, <2>1
<1>7. ASSUME NEW j \in S
      PROVE  j + 1 \in S
  <2>1. SUFFICES ASSUME j + 1 <= m
                 PROVE  Fair(j + 1)
    OBVIOUS
  <2>2. /\ j + 1 \in 1..m /\ (j + 1) - 1 = j /\ j \in 0..m /\ Fair(j)
        /\ T[j] \in Nat /\ j \in Nat
    BY <1>0, <1>4, <2>1
  <2> DEFINE c == StaticLoopBound(nodes[j + 1])
             t == Times(nodes, j + 1, i)
  <2>3. CASE j + 1 \notin around
    <3>1. T[j + 1] = T[j] /\ P[j + 1] = P[j]
      BY <1>4, <1>5, <2>2, <2>3
    <3>2. QED
      BY <2>2, <3>1
  <2>4. CASE j + 1 \in around
    <3>1. /\ c \in Nat /\ t \in Nat /\ c <= t /\ T[j + 1] = T[j] * t
          /\ Equal => c = t
      BY <1>1, <1>4, <2>2, <2>4 DEF Equal
    <3>2. P[j + 1] = IF P[j] = None THEN None
                     ELSE IF P[j] * c > MaxU64 THEN None ELSE P[j] * c
      BY <1>5, <2>2, <2>4
    <3> HIDE DEF c, t
    <3>3. T[j] * t \in Nat
      BY <2>2, <3>1
    <3>4. CASE P[j] = None
      <4>1. T[j] = 0 => T[j] * t = 0
        BY <3>1
      <4>2. T[j] > MaxU64 => T[j] * t > MaxU64 \/ T[j] * t = 0
        BY <1>0, <2>2, <3>1, OverOrNothing
      <4>3. QED
        BY <2>2, <3>1, <3>2, <3>4, <4>1, <4>2
    <3>5. CASE P[j] # None
      <4> DEFINE p == P[j]
                 v == T[j]
                 x == P[j] * c
                 y == T[j] * t
      <4>1. p \in Nat /\ v \in Nat /\ p <= v /\ (Equal => p = v)
        BY <1>0, <2>2, <3>5
      <4>2. x \in Nat /\ y \in Nat /\ x <= y
        <5> HIDE DEF p, v
        <5>1. p * c <= v * t /\ p * c \in Nat /\ v * t \in Nat
          BY <3>1, <4>1, ProductsGrow
        <5> QED BY <5>1 DEF p, v
      <4>3. Equal => x = y
        BY <3>1, <4>1
      <4>4. P[j + 1] = (IF x > MaxU64 THEN None ELSE x) /\ T[j + 1] = y
        BY <3>1, <3>2, <3>5
      <4> HIDE DEF p, v, x, y
      <4>5. CASE x > MaxU64
        <5>1. P[j + 1] = None /\ T[j + 1] > MaxU64
          BY <1>0, <4>2, <4>4, <4>5
        <5> QED BY <5>1
      <4>6. CASE ~(x > MaxU64)
        <5>1. P[j + 1] = x /\ x \in 0..MaxU64 /\ x # None
          BY <1>0, <4>2, <4>4, <4>6, NoneAssumption
        <5> QED BY <4>2, <4>3, <4>4, <5>1
      <4> QED BY <4>5, <4>6
    <3>6. QED
      BY <3>4, <3>5
  <2>5. QED
    BY <2>3, <2>4
<1>8. S = Nat
  <2>1. S \in SUBSET Nat
    OBVIOUS
  <2> HIDE DEF S
  <2>2. QED
    BY <1>6, <1>7, <2>1, NatInducts
<1>9. Fair(m)
  BY <1>0, <1>8
<1>10. T[m] \in Nat
  BY <1>0, <1>4
<1>11. CASE P[m] # None
  <2>1. P[m] \in 0..MaxU64 /\ P[m] <= T[m] /\ (Equal => P[m] = T[m])
    BY <1>9, <1>11
  <2>2. Cost(nodes, i) = P[m]
    BY <1>3, <2>1 DEF Cost
  <2>3. QED
    BY <1>2, <1>10, <2>1, <2>2 DEF Equal
<1>12. CASE P[m] = None
  <2>1. Cost(nodes, i) = MaxU64
    BY <1>3, <1>12, NoneAssumption DEF Cost
  <2>2. QED
    BY <1>0, <1>2, <1>9, <1>10, <1>12, <2>1
<1>13. QED
  BY <1>11, <1>12

\* The total is taken read by read.
LEMMA TotalsAreTaken ==
  ASSUME NEW fn, Len(fn.body.nodes) \in Nat, NEW reads,
         \A i \in reads : Trips(fn.body.nodes, i) \in Nat
  PROVE  \E U : AreTotals(U, fn, reads) /\ Made(fn, reads) = U[Len(fn.body.nodes)]
<1> DEFINE m == Len(fn.body.nodes)
           Taken(j, x) == IF j \in reads THEN x + Trips(fn.body.nodes, j) ELSE x
           step == [x \in Nat \X Nat |-> Taken(x[1], x[2])]
<1>0. m \in Nat /\ m \in 0..m
  OBVIOUS
<1>1. \A j \in Nat : \A x \in Nat : Taken(j, x) \in Nat
  OBVIOUS
<1>2. /\ step \in [Nat \X Nat -> Nat]
      /\ \A j \in Nat : \A x \in Nat : step[<<j, x>>] = Taken(j, x)
  <2> HIDE DEF Taken
  <2>1. QED
    BY <1>1
<1> HIDE DEF step
<1>3. PICK U : IsRun(U, Nat, 0, step, m)
  BY <1>2, RecursionExists
<1>4. U \in [0..m -> Nat] /\ U[0] = 0 /\ \A j \in 1..m : U[j] = Taken(j, U[j - 1])
  <2> HIDE DEF Taken
  <2>1. U \in [0..m -> Nat] /\ U[0] = 0 /\ \A j \in 1..m : U[j] = step[<<j, U[j - 1]>>]
    BY <1>3 DEF IsRun
  <2>2. \A j \in 1..m : U[j - 1] \in Nat /\ j \in Nat
    BY <2>1
  <2>3. QED
    BY <1>2, <2>1, <2>2
<1> DEFINE Rec(g) == g = [j \in 0..m |-> IF j = 0 THEN 0 ELSE Taken(j, g[j - 1])]
           f == CHOOSE g : Rec(g)
<1>5. Made(fn, reads) = f[m]
  <2>1. Made(fn, reads) =
          (CHOOSE g : g = [j \in 0..m |-> IF j = 0 THEN 0
                             ELSE IF j \in reads THEN g[j - 1] + Trips(fn.body.nodes, j)
                             ELSE g[j - 1]])[m]
    BY DEF Made
  <2>2. QED
    BY <2>1
<1>6. Rec(U)
  <2> HIDE DEF Taken
  <2>1. \A j \in 0..m : j = 0 \/ j \in 1..m
    OBVIOUS
  <2>2. \A j \in 0..m : U[j] = IF j = 0 THEN 0 ELSE Taken(j, U[j - 1])
    BY <1>4, <2>1
  <2>3. U = [j \in 0..m |-> U[j]]
    BY <1>4
  <2>4. QED
    BY <2>2, <2>3
<1>7. Rec(f)
  <2> HIDE DEF Rec
  <2>1. QED
    BY <1>6
<1>8. f[0] = 0 /\ \A j \in 1..m : f[j] = Taken(j, f[j - 1])
  <2> HIDE DEF f, Taken
  <2>1. 0 \in 0..m /\ \A j \in 1..m : j \in 0..m /\ j # 0
    OBVIOUS
  <2>2. ASSUME NEW j \in 0..m
        PROVE  f[j] = IF j = 0 THEN 0 ELSE Taken(j, f[j - 1])
    BY <1>7, Zenon
  <2>3. QED
    BY <2>1, <2>2
<1> HIDE DEF f
<1>9. f[m] = U[m]
  <2> HIDE DEF Taken
  <2>1. \A j \in 1..m : f[j - 1] \in Nat => f[j] = step[<<j, f[j - 1]>>]
    BY <1>2, <1>8
  <2>2. Follows(f, Nat, 0, step, m)
    BY <1>8, <2>1 DEF Follows
  <2> HIDE DEF m
  <2>3. ASSUME NEW k \in Nat, k = m
        PROVE  f[k] = U[k]
    <3>1. IsRun(U, Nat, 0, step, k) /\ Follows(f, Nat, 0, step, k) /\ k \in 0..k
      BY <1>3, <2>2, <2>3
    <3>2. QED
      BY <3>1, RunsAgree
  <2>4. QED
    BY <1>0, <2>3, Zenon
<1>10. AreTotals(U, fn, reads)
  BY <1>4 DEF AreTotals
<1>11. QED
  BY <1>5, <1>9, <1>10

\* What is added up: the counted reads, each with the cost it is given.
LEMMA ReadsAreFair ==
  ASSUME file \in Files, NEW k \in 1..Len(file.fns), NEW i \in CountedReads(file.fns[k])
  PROVE  LET fn == file.fns[k]
             nodes == fn.body.nodes
         IN  /\ i \in 1..Len(nodes)
             /\ Cost(nodes, i) \in 0..MaxU64
             /\ i \in FullReads(fn) =>
                  /\ Trips(nodes, i) \in Nat
                  /\ Cost(nodes, i) = Trips(nodes, i) \/ Cost(nodes, i) = MaxU64
             /\ i \in FairReads(fn) =>
                  /\ Trips(nodes, i) \in Nat
                  /\ Cost(nodes, i) <= Trips(nodes, i)
<1> DEFINE fn == file.fns[k]
           nodes == fn.body.nodes
           around == LoopsAround(nodes, i)
<1>1. Len(nodes) \in Nat /\ \A j \in 1..Len(nodes) : HasNumbers(nodes[j])
  BY FilesAssumption
<1>2. i \in 1..Len(nodes) /\ IsBounded(nodes, i) /\ i \in Nat \ {0}
  BY <1>1 DEF CountedReads, Reads, At
<1>3. \A l \in around : HasNumbers(nodes[l]) /\ StaticLoopBound(nodes[l]) # None
  BY <1>1, <1>2 DEF LoopsAround, IsBounded
<1>4. \A l \in around : StaticLoopBound(nodes[l]) \in Nat
  BY <1>3, BoundsAreNumbers
<1>5. Cost(nodes, i) \in 0..MaxU64
  BY MaxU64Assumption DEF Cost
<1>6. ASSUME i \in FullReads(fn)
      PROVE  /\ Trips(nodes, i) \in Nat
             /\ Cost(nodes, i) = Trips(nodes, i) \/ Cost(nodes, i) = MaxU64
  <2>1. ASSUME NEW l \in around
        PROVE  /\ HasTop(nodes[l]) /\ InLoopBody(nodes, l, i)
               /\ nodes[l].kind = "while" => ~IsInclusive(nodes[l].cond)
    BY <1>6 DEF FullReads
  <2>2. ASSUME NEW l \in around
        PROVE  Times(nodes, l, i) \in Nat /\ StaticLoopBound(nodes[l]) = Times(nodes, l, i)
    BY <1>3, <2>1, TimesAreCounted
  <2>3. \A l \in around : StaticLoopBound(nodes[l]) <= Times(nodes, l, i)
    BY <1>4, <2>2
  <2> QED BY <1>2, <1>4, <2>2, <2>3, CostIsFair
<1>7. ASSUME i \in FairReads(fn)
      PROVE  Trips(nodes, i) \in Nat /\ Cost(nodes, i) <= Trips(nodes, i)
  <2>1. ASSUME NEW l \in around
        PROVE  HasTop(nodes[l]) /\ (nodes[l].kind = "for" => InLoopBody(nodes, l, i))
    BY <1>7 DEF FairReads
  <2>2. Trips(nodes, i) # 0
    BY <1>7 DEF FairReads
  <2>3. ASSUME NEW l \in around
        PROVE  Times(nodes, l, i) \in Nat /\ StaticLoopBound(nodes[l]) <= Times(nodes, l, i)
    BY <1>3, <2>1, TimesAreCounted
  <2> QED BY <1>2, <1>4, <2>2, <2>3, CostIsFair
<1> QED BY <1>2, <1>5, <1>6, <1>7

\* The estimate at the end of an entrypoint judges it.
LEMMA EndIsJudged ==
  ASSUME TypeOK, file \in Files, e \in 1..Len(file.fns), d = 2, n = Len(Nodes) + 1, EstimateIsFair
  PROVE  Judged(Entry, estimate.total > ReadCeiling)
<1> DEFINE full == FullReads(Entry)
           fair == FairReads(Entry)
<1>1. Len(Nodes) \in Nat /\ Entry = file.fns[e] /\ Nodes = Entry.body.nodes
  BY FilesAssumption DEF Nodes, Entry
<1>2. full \subseteq CountedReads(Entry) /\ fair \subseteq CountedReads(Entry)
  BY DEF FullReads, FairReads
<1>3. /\ \A i \in full : Trips(Nodes, i) \in Nat
      /\ \A i \in fair : Trips(Nodes, i) \in Nat
  BY <1>1, <1>2, ReadsAreFair
<1> HIDE DEF full, fair
<1>4. PICK L : AreTotals(L, Entry, full) /\ Made(Entry, full) = L[Len(Nodes)]
  BY <1>1, <1>3, TotalsAreTaken
<1>5. PICK U : AreTotals(U, Entry, fair) /\ Made(Entry, fair) = U[Len(Nodes)]
  BY <1>1, <1>3, TotalsAreTaken
<1>6. n # 0 /\ n - 1 = Len(Nodes)
  BY <1>1
<1>7. /\ estimate.total = MaxU64 \/ Made(Entry, full) <= estimate.total
      /\ fair = CountedReads(Entry) => estimate.total <= Made(Entry, fair)
  BY <1>4, <1>5, <1>6 DEF EstimateIsFair, full, fair
<1>8. /\ estimate.total \in Nat /\ Made(Entry, full) \in Nat /\ Made(Entry, fair) \in Nat
      /\ ReadCeiling \in Nat /\ MaxU64 \in Nat /\ ReadCeiling < MaxU64
  <2>1. estimate.total \in Nat
    BY MaxU64Assumption DEF TypeOK, Estimates
  <2>2. /\ L \in [0..Len(Nodes) -> Nat] /\ U \in [0..Len(Nodes) -> Nat]
        /\ Len(Nodes) \in 0..Len(Nodes)
    BY <1>1, <1>4, <1>5 DEF AreTotals
  <2>3. Made(Entry, full) \in Nat /\ Made(Entry, fair) \in Nat
    BY <1>4, <1>5, <2>2
  <2>4. QED
    BY <2>1, <2>3, ReadCeilingAssumption, MaxU64Assumption
<1>9. Made(Entry, full) > ReadCeiling => estimate.total > ReadCeiling
  BY <1>7, <1>8
<1>10. estimate.total > ReadCeiling /\ fair = CountedReads(Entry) => Made(Entry, fair) > ReadCeiling
  BY <1>7, <1>8
<1>11. QED
  BY <1>9, <1>10 DEF Judged, full, fair

-----------------------------------------------------------------------------
\* Nothing changes that the count is about.
LEMMA FairStays ==
  ASSUME CountInv, UNCHANGED <<file, sources, d, result>>,
         d = 2 => UNCHANGED <<e, n, estimate, sink>>
  PROVE  CountInv'
<1>1. /\ Findings' = Findings /\ Loaded' = Loaded
      /\ d = 2 => Reported' = Reported /\ Entry' = Entry /\ Nodes' = Nodes
  BY DEF Findings, Loaded, Reported, Entry, Nodes
<1>2. \A fn : Exempt(fn)' = Exempt(fn)
  BY DEF Exempt
<1>3. EstimateIsFair'
  BY <1>1 DEF CountInv, EstimateIsFair
<1>4. SinkIsFair'
  BY <1>1, <1>2 DEF CountInv, SinkIsFair
<1>5. ResultIsFair'
  BY <1>1, <1>2 DEF CountInv, ResultIsFair
<1>6. QED
  BY <1>3, <1>4, <1>5 DEF CountInv

LEMMA InitIsFair == Init => CountInv
<1>1. Init => Findings = {} /\ d = 1 /\ e = 0 /\ n = 0
  BY DEF Init, Findings, Nothing
<1>2. QED
  BY <1>1 DEF CountInv, EstimateIsFair, SinkIsFair, ResultIsFair

LEMMA SkipDetectorFair == ASSUME WalkInv, CountInv, SkipDetector PROVE CountInv'
<1> USE DEF SkipDetector, BetweenDetectors
<1>0. d \in 1..5 /\ n = 0 /\ Registry[2] = ReadBudget
  BY RegistryFacts, DetectorsDiffer DEF WalkInv, Shape, TypeOK
<1>1. EstimateIsFair' /\ SinkIsFair'
  BY <1>0 DEF EstimateIsFair, SinkIsFair
<1>2. Findings' = Findings /\ Loaded' = Loaded /\ \A fn : Exempt(fn)' = Exempt(fn)
  BY DEF Findings, Loaded, Exempt
<1>3. ResultIsFair'
  <2>1. d' <= 2 => d <= 2
    BY <1>0
  <2>2. d' > 2 /\ ReadBudget \in Loaded => d > 2
    BY <1>0
  <2>3. QED
    BY <1>2, <2>1, <2>2 DEF CountInv, ResultIsFair
<1>4. QED
  BY <1>1, <1>3 DEF CountInv

LEMMA BeginDetectorFair == ASSUME WalkInv, CountInv, BeginDetector PROVE CountInv'
<1> USE DEF BeginDetector, BetweenDetectors
<1>0. n = 0 /\ Reported' = {}
  BY DEF WalkInv, Shape, TypeOK, Reported, Nothing
<1>1. EstimateIsFair'
  BY <1>0 DEF EstimateIsFair
<1>2. SinkIsFair'
  <2>1. \A k \in 1..Len(file.fns) : ~(k < 1) /\ ~IsOver({}, k)
    BY DEF IsOver
  <2>2. QED
    BY <1>0, <2>1 DEF SinkIsFair
<1>3. Findings' = Findings /\ Loaded' = Loaded /\ \A fn : Exempt(fn)' = Exempt(fn)
  BY DEF Findings, Loaded, Exempt
<1>4. ResultIsFair'
  BY <1>3 DEF CountInv, ResultIsFair
<1>5. QED
  BY <1>1, <1>2, <1>4 DEF CountInv

LEMMA EndDetectorFair == ASSUME WalkInv, ExactInv, CountInv, EndDetector PROVE CountInv'
<1> USE DEF EndDetector
<1>0. /\ Len(file.fns) \in Nat /\ e # 0 /\ n = 0 /\ d \in 1..5
      /\ \A f \in Reported : f.rule = Registry[d]
  BY RegistryFacts, Lengths DEF WalkInv, Shape, TypeOK, ExactInv, SinkIsExact
<1>1. EstimateIsFair' /\ SinkIsFair'
  BY <1>0 DEF EstimateIsFair, SinkIsFair
<1>2. Findings' = Findings \cup Reported /\ Loaded' = Loaded /\ \A fn : Exempt(fn)' = Exempt(fn)
  BY DEF Findings, Reported, Loaded, Exempt
<1>3. \A k : IsOver(Findings', k) <=> IsOver(Findings, k) \/ IsOver(Reported, k)
  BY <1>2 DEF IsOver
<1>4. CASE d = 2
  <2>1. \A f \in Findings : f.rule # ReadBudget
    BY <1>4 DEF CountInv, ResultIsFair
  <2>2. \A k : IsOver(Findings', k) <=> IsOver(Reported, k)
    BY <1>3, <2>1 DEF IsOver
  <2>3. \A k \in 1..Len(file.fns) :
          ~Exempt(file.fns[k]) => Judged(file.fns[k], IsOver(Reported, k))
    <3>1. \A k \in 1..Len(file.fns) : k < e
      BY <1>0
    <3>2. QED
      BY <1>0, <1>4, <3>1 DEF CountInv, SinkIsFair
  <2>4. \A k \in 1..Len(file.fns) :
          ~Exempt(file.fns[k]) => Judged(file.fns[k], IsOver(Findings', k))
    BY <2>2, <2>3 DEF Judged
  <2>5. ~(d' <= 2) /\ file' = file
    BY <1>4
  <2>6. \A fn, over : Judged(fn, over)' = Judged(fn, over)
    OBVIOUS
  <2>7. \A k : IsOver(Findings, k)' = IsOver(Findings', k)
    BY DEF IsOver
  <2>8. ResultIsFair'
    BY <1>2, <2>4, <2>5, <2>7 DEF ResultIsFair
  <2>9. QED
    BY <1>1, <2>8 DEF CountInv
<1>5. CASE d # 2
  <2>1. \A f \in Reported : f.rule # ReadBudget
    BY <1>0, <1>5, DetectorsDiffer
  <2>2. \A k : IsOver(Findings', k) <=> IsOver(Findings, k)
    BY <1>3, <2>1 DEF IsOver
  <2>3. (d' <= 2 => d <= 2) /\ (d' > 2 => d > 2)
    BY <1>0, <1>5
  <2>4. d' <= 2 => \A f \in Findings' : f.rule # ReadBudget
    BY <1>2, <2>1, <2>3 DEF CountInv, ResultIsFair
  <2>5. d' > 2 /\ ReadBudget \in Loaded =>
          \A k \in 1..Len(file.fns) :
            ~Exempt(file.fns[k]) => Judged(file.fns[k], IsOver(Findings', k))
    BY <2>2, <2>3 DEF CountInv, ResultIsFair, Judged
  <2>6. ResultIsFair'
    BY <1>2, <2>4, <2>5 DEF ResultIsFair
  <2>7. QED
    BY <1>1, <2>6 DEF CountInv
<1>6. QED
  BY <1>4, <1>5

LEMMA SkipEntryFair == ASSUME WalkInv, CountInv, SkipEntry PROVE CountInv'
<1> USE DEF SkipEntry, AtEntry
<1>0. e \in Nat /\ e # 0 /\ Reported' = Reported /\ Entry = file.fns[e]
  BY DEF WalkInv, Shape, TypeOK, Reported, Entry
<1>1. Findings' = Findings /\ Loaded' = Loaded /\ \A fn : Exempt(fn)' = Exempt(fn)
  BY DEF Findings, Loaded, Exempt
<1>2. EstimateIsFair'
  BY DEF EstimateIsFair
<1>3. ASSUME d = 2, NEW k \in 1..Len(file.fns)
      PROVE  /\ k < e + 1 /\ ~Exempt(file.fns[k]) => Judged(file.fns[k], IsOver(Reported, k))
             /\ k >= e + 1 => ~IsOver(Reported, k)
  <2>1. (k < e + 1 => k < e \/ k = e) /\ (k >= e + 1 => k >= e)
    BY <1>0
  <2>2. QED
    BY <1>0, <1>3, <2>1 DEF CountInv, SinkIsFair
<1>4. SinkIsFair' /\ ResultIsFair'
  BY <1>0, <1>1, <1>3 DEF CountInv, SinkIsFair, ResultIsFair
<1>5. QED
  BY <1>2, <1>4 DEF CountInv

LEMMA EnterEntryFair == ASSUME WalkInv, CountInv, EnterEntry PROVE CountInv'
<1> USE DEF EnterEntry, AtEntry
<1>0. Reported' = Reported /\ Entry' = Entry
  BY DEF Reported, Entry
<1>1. Findings' = Findings /\ Loaded' = Loaded /\ \A fn : Exempt(fn)' = Exempt(fn)
  BY DEF Findings, Loaded, Exempt
<1>2. EstimateIsFair'
  <2>1. estimate'.total = 0 /\ n' - 1 = 0
    BY DEF NoEstimate
  <2>2. \A U, S : AreTotals(U, Entry, S) => U[0] = 0
    BY DEF AreTotals
  <2>3. QED
    BY <1>0, <2>1, <2>2 DEF EstimateIsFair
<1>3. SinkIsFair' /\ ResultIsFair'
  BY <1>0, <1>1 DEF CountInv, SinkIsFair, ResultIsFair
<1>4. QED
  BY <1>2, <1>3 DEF CountInv

LEMMA LeaveEntryFair == ASSUME WalkInv, ExactInv, CountInv, LeaveEntry PROVE CountInv'
<1> USE DEF LeaveEntry
<1> DEFINE new == Finding(0, 0, Entry.line, estimate)
<1>0. /\ TypeOK /\ file \in Files /\ e \in Nat /\ e # 0 /\ Entry = file.fns[e]
      /\ \A f \in Reported : f.rule = Registry[d]
  BY RegistryFacts DEF WalkInv, Shape, TypeOK, Entry, ExactInv, SinkIsExact
<1>1. Findings' = Findings /\ Loaded' = Loaded /\ \A fn : Exempt(fn)' = Exempt(fn)
  BY DEF Findings, Loaded, Exempt
<1>2. EstimateIsFair'
  BY DEF EstimateIsFair
<1>3. ASSUME d = 2, NEW k \in 1..Len(file.fns)
      PROVE  /\ k < e + 1 /\ ~Exempt(file.fns[k]) => Judged(file.fns[k], IsOver(Reported', k))
             /\ k >= e + 1 => ~IsOver(Reported', k)
  <2>1. Judged(Entry, estimate.total > ReadCeiling)
    BY <1>0, <1>3, EndIsJudged DEF CountInv
  <2>2. ~IsOver(Reported, e)
    BY <1>0, <1>3 DEF CountInv, SinkIsFair
  <2>3. Registry[d] = ReadBudget /\ new.rule = ReadBudget /\ new.entry = e
    BY <1>3, DetectorsDiffer DEF Finding
  <2>4. Reported' = IF estimate.total > ReadCeiling THEN Reported \cup {new} ELSE Reported
    BY <1>0, <2>3, ReportAdds, SameSink
  <2> HIDE DEF new
  <2>5. /\ IsOver(Reported', e) <=> estimate.total > ReadCeiling
        /\ k # e => (IsOver(Reported', k) <=> IsOver(Reported, k))
    BY <2>2, <2>3, <2>4 DEF IsOver
  <2>6. CASE k = e
    <3>1. Judged(Entry, IsOver(Reported', e)) /\ ~(k >= e + 1)
      BY <1>0, <2>1, <2>5, <2>6 DEF Judged
    <3>2. QED
      BY <1>0, <2>6, <3>1
  <2>7. CASE k # e
    <3>1. (k < e + 1 => k < e) /\ (k >= e + 1 => k >= e)
      BY <1>0, <2>7
    <3>2. /\ k < e /\ ~Exempt(file.fns[k]) => Judged(file.fns[k], IsOver(Reported, k))
          /\ k >= e => ~IsOver(Reported, k)
      BY <1>0, <1>3 DEF CountInv, SinkIsFair
    <3>3. QED
      BY <2>5, <2>7, <3>1, <3>2 DEF Judged
  <2>8. QED
    BY <2>6, <2>7
<1>4. SinkIsFair' /\ ResultIsFair'
  BY <1>1, <1>3 DEF CountInv, SinkIsFair, ResultIsFair
<1>5. QED
  BY <1>2, <1>4 DEF CountInv

\* Past a node of the detector that counts, with the estimate as it has to be.
LEMMA FairWalk ==
  ASSUME WalkInv, ExactInv, CountInv, AtNode(ReadBudget), Walk, UNCHANGED sink,
         estimate'.total = IF n \in CountedReads(Entry)
                           THEN SaturatingAdd(estimate.total, Cost(Nodes, n))
                           ELSE estimate.total
  PROVE  CountInv'
<1> USE DEF Walk
<1>0. /\ d = 2 /\ TypeOK /\ file \in Files /\ e \in 1..Len(file.fns) /\ e # 0 /\ n \in Nat /\ n # 0
      /\ n \in 1..Len(Nodes) /\ Len(Nodes) \in Nat
      /\ Entry = file.fns[e] /\ Nodes = Entry.body.nodes
  BY ExactAtNode, DetectorsDiffer DEF Entry, Nodes
<1>1. Findings' = Findings /\ Loaded' = Loaded /\ \A fn : Exempt(fn)' = Exempt(fn)
  BY DEF Findings, Loaded, Exempt
<1>2. Reported' = Reported /\ Entry' = Entry /\ Nodes' = Nodes
  BY DEF Reported, Entry, Nodes
<1> DEFINE counted == CountedReads(Entry)
           full == FullReads(Entry)
           fair == FairReads(Entry)
           t == Trips(Nodes, n)
           c == Cost(Nodes, n)
           a == estimate.total
<1>3. a \in 0..MaxU64 /\ MaxU64 \in Nat
  BY <1>0, MaxU64Assumption DEF TypeOK, Estimates
<1>4. full \subseteq counted /\ fair \subseteq counted
  BY DEF FullReads, FairReads
<1>5. n \in counted =>
        /\ c \in 0..MaxU64
        /\ n \in full => t \in Nat /\ (c = t \/ c = MaxU64)
        /\ n \in fair => t \in Nat /\ c <= t
  BY <1>0, ReadsAreFair
<1>6. estimate'.total = IF n \in counted THEN (IF a + c > MaxU64 THEN MaxU64 ELSE a + c) ELSE a
  BY DEF SaturatingAdd
<1>7. ASSUME NEW S, NEW U, AreTotals(U, Entry, S)
      PROVE  U[n] = (IF n \in S THEN U[n - 1] + t ELSE U[n - 1]) /\ U[n - 1] \in Nat
  <2>1. U \in [0..Len(Nodes) -> Nat] /\ n - 1 \in 0..Len(Nodes)
    BY <1>0, <1>7 DEF AreTotals
  <2>2. \A j \in 1..Len(Nodes) : U[j] = IF j \in S THEN U[j - 1] + Trips(Nodes, j) ELSE U[j - 1]
    BY <1>0, <1>7 DEF AreTotals
  <2>3. QED
    BY <1>0, <2>1, <2>2
<1>8. ASSUME NEW U, AreTotals(U, Entry, full)
      PROVE  estimate'.total = MaxU64 \/ U[n] <= estimate'.total
  <2> DEFINE u == U[n - 1]
  <2>1. a = MaxU64 \/ u <= a
    BY <1>0, <1>8 DEF CountInv, EstimateIsFair
  <2>2. U[n] = (IF n \in full THEN u + t ELSE u) /\ u \in Nat
    BY <1>7, <1>8
  <2> HIDE DEF a, c, t, u, counted, full
  <2> QED BY <1>3, <1>4, <1>5, <1>6, <2>1, <2>2
<1>9. ASSUME NEW U, AreTotals(U, Entry, fair), \A i \in counted : i < n + 1 => i \in fair
      PROVE  estimate'.total <= U[n]
  <2> DEFINE u == U[n - 1]
  <2>1. \A i \in counted : i < n => i \in fair
    <3>1. \A i \in counted : i \in 1..Len(Nodes)
      BY <1>0, ReadsAreFair
    <3>2. \A i \in 1..Len(Nodes) : i < n => i < n + 1
      BY <1>0
    <3>3. QED
      BY <1>9, <3>1, <3>2
  <2>2. a <= u
    BY <1>0, <1>9, <2>1 DEF CountInv, EstimateIsFair
  <2>3. U[n] = (IF n \in fair THEN u + t ELSE u) /\ u \in Nat
    BY <1>7, <1>9
  <2>4. n \in counted => n \in fair
    BY <1>0, <1>9
  <2> HIDE DEF a, c, t, u, counted, fair
  <2> QED BY <1>3, <1>4, <1>5, <1>6, <2>2, <2>3, <2>4
<1>10. EstimateIsFair'
  <2>1. n' = n + 1 /\ n' - 1 = n
    BY <1>0
  <2>2. /\ FullReads(Entry)' = full /\ FairReads(Entry)' = fair /\ CountedReads(Entry)' = counted
    BY <1>2
  <2> HIDE DEF full, fair, counted
  <2>3. QED
    BY <1>2, <1>8, <1>9, <2>1, <2>2 DEF EstimateIsFair
<1>11. SinkIsFair' /\ ResultIsFair'
  BY <1>1, <1>2 DEF CountInv, SinkIsFair, ResultIsFair
<1>12. QED
  BY <1>10, <1>11 DEF CountInv

LEMMA CountReadFair == ASSUME WalkInv, ExactInv, CountInv, CountRead PROVE CountInv'
<1>1. /\ AtNode(ReadBudget) /\ Walk /\ UNCHANGED sink /\ IsStorageRead(Nodes[n])
      /\ estimate' = Count(estimate, Nodes, n)
  BY DEF CountRead
<1>2. n \in At(Entry.body) /\ Nodes = Entry.body.nodes /\ estimate \in Estimates
  BY <1>1, AtNodeFacts DEF Nodes, TypeOK
<1>3. n \in CountedReads(Entry) <=> IsBounded(Nodes, n)
  BY <1>1, <1>2 DEF CountedReads, Reads
<1>4. estimate'.total = IF n \in CountedReads(Entry)
                        THEN SaturatingAdd(estimate.total, Cost(Nodes, n)) ELSE estimate.total
  BY <1>1, <1>2, <1>3 DEF Count, Estimates
<1>5. QED
  BY <1>1, <1>4, FairWalk

LEMMA PassNodeFair == ASSUME WalkInv, ExactInv, CountInv, PassNode PROVE CountInv'
<1>0. PICK detector \in {ReadBudget, StorageDurability, UnboundedStorageLoop,
                         UncheckedArithmetic} : AtNode(detector)
  BY DEF PassNode
<1>1. Walk /\ UNCHANGED <<estimate, sink>> /\ Registry[d] = detector /\ d \in 2..5
  BY <1>0, ExactAtNode DEF PassNode
<1>2. CASE d = 2
  <2>1. AtNode(ReadBudget) /\ ~IsStorageRead(Nodes[n])
    BY <1>2, DetectorsDiffer DEF PassNode, AtNode
  <2>2. n \notin CountedReads(Entry)
    BY <2>1 DEF CountedReads, Reads, Nodes
  <2>3. QED
    BY <1>1, <2>1, <2>2, FairWalk
<1>3. CASE d # 2
  BY <1>1, <1>3, FairStays DEF Walk
<1>4. QED
  BY <1>2, <1>3

\* A node step of another detector.
LEMMA OtherNodeFair ==
  ASSUME WalkInv, ExactInv, CountInv, MeetWrite \/ MeetLoop \/ MeetArithmetic
  PROVE  CountInv'
<1>1. Walk /\ \E detector \in {StorageDurability, UnboundedStorageLoop, UncheckedArithmetic} :
                AtNode(detector)
  BY DEF MeetWrite, MeetLoop, MeetArithmetic
<1>2. d # 2
  BY <1>1, ExactAtNode, DetectorsDiffer
<1>3. QED
  BY <1>1, <1>2, FairStays DEF Walk

-----------------------------------------------------------------------------
(***************************************************************************)
(* The theorems.                                                           *)
(***************************************************************************)
\* The walk keeps its invariant, for every file and every set of rules.
THEOREM WalkInvariant == Spec => []WalkInv
<1>1. Init => WalkInv
  BY InitIsSound
<1>2. WalkInv /\ [Next]_vars => WalkInv'
  <2> SUFFICES ASSUME WalkInv, [Next]_vars PROVE WalkInv'
    OBVIOUS
  <2>1. CASE SkipDetector
    BY <2>1, SkipDetectorStep
  <2>2. CASE BeginDetector
    BY <2>2, BeginDetectorStep
  <2>3. CASE EndDetector
    BY <2>3, EndDetectorStep
  <2>4. CASE ReturnFindings
    BY <2>4, ReturnStep
  <2>5. CASE SkipEntry
    BY <2>5, SkipEntryStep
  <2>6. CASE CheckAuth
    BY <2>6, CheckAuthStep
  <2>7. CASE EnterEntry
    BY <2>7, EnterEntryStep
  <2>8. CASE LeaveEntry
    BY <2>8, LeaveEntryStep
  <2>9. CASE CountRead
    BY <2>9, CountReadStep
  <2>10. CASE CountReadPanics
    BY <2>10, CountReadPanicsStep
  <2>11. CASE MeetWrite
    BY <2>11, MeetWriteStep
  <2>12. CASE MeetLoop
    BY <2>12, MeetLoopStep
  <2>13. CASE MeetLoopPanics
    BY <2>13, MeetLoopPanicsStep
  <2>14. CASE MeetArithmetic
    BY <2>14, MeetArithmeticStep
  <2>15. CASE PassNode
    BY <2>15, PassNodeStep
  <2>16. CASE Finished \/ UNCHANGED vars
    BY <2>16, StutterStep DEF Finished
  <2>17. QED
    BY <2>1, <2>2, <2>3, <2>4, <2>5, <2>6, <2>7, <2>8, <2>9, <2>10, <2>11, <2>12,
       <2>13, <2>14, <2>15, <2>16 DEF Next
<1>3. QED
  BY <1>1, <1>2, PTL DEF Spec

\* The state of check_file always has its shape; the estimate in particular
\* never leaves the width of its counter.
THEOREM TypeCorrect == Spec => []TypeOK
<1>1. WalkInv => TypeOK
  BY DEF WalkInv, Shape
<1>2. QED
  BY <1>1, WalkInvariant, PTL

\* Whatever is nested in whatever, a read that is not counted because it is in
\* the body of a loop of unknown count is in a loop that is reported.
THEOREM UncountedBodiesAreInReportedLoops == Spec => []UncountedBodiesAreReported
<1>1. WalkInv => UncountedBodiesAreReported
  <2> SUFFICES ASSUME WalkInv, pc = "done", UnboundedStorageLoop \in Loaded,
                      NEW k \in 1..Len(file.fns), ~Exempt(file.fns[k]),
                      NEW i \in Reads(file.fns[k].body),
                      NEW l \in LoopsAround(file.fns[k].body.nodes, i),
                      StaticLoopBound(file.fns[k].body.nodes[l]) = None,
                      InLoopBody(file.fns[k].body.nodes, l, i)
               PROVE  IsReported(k, i)
    BY DEF UncountedBodiesAreReported
  <2> DEFINE nodes == file.fns[k].body.nodes
  <2>1. /\ Len(nodes) \in Nat /\ At(file.fns[k].body) = 1..Len(nodes)
        /\ \A j \in 1..Len(nodes) : nodes[j].end \in Nat
    BY Lengths DEF WalkInv
  <2>2. i \in 1..Len(nodes) /\ IsStorageMethod(nodes[i])
    BY <2>1 DEF Reads, IsStorageRead
  <2>3. l \in 1..Len(nodes) /\ l < i /\ i <= nodes[l].end /\ IsLoop(nodes[l])
    BY <2>1, <2>2 DEF LoopsAround
  <2>4. LoopNode(k, l)
    BY <2>1, <2>2, <2>3 DEF LoopNode, IsUnboundedLoop, TouchesStorage
  <2>5. Sound(k, l, Findings)
    BY <2>1, <2>3 DEF WalkInv, Shape, ResultIsSound
  <2>6. PICK f \in Findings :
          /\ f.rule = UnboundedStorageLoop /\ f.entry = k
          /\ f.from \in Nat /\ f.to \in Nat /\ f.from <= l /\ nodes[l].end <= f.to
    BY <2>4, <2>5 DEF Sound, Inside
  <2>7. f.from <= i /\ i <= f.to
    BY <2>1, <2>2, <2>3, <2>6
  <2>8. QED
    BY <2>6, <2>7 DEF IsReported
<1>2. QED
  BY <1>1, WalkInvariant, PTL

\* A walk that applies the loop rule panics on a file with a range written
\* backwards in an entrypoint, and on no other.
THEOREM PanicsAreReversedRanges == Spec => []PanicsExactlyOnReversedRange
<1> DEFINE Reversed ==
      \E k \in 1..Len(file.fns) :
        ~Exempt(file.fns[k]) /\ \E l \in At(file.fns[k].body) :
                                   Underflows(file.fns[k].body.nodes[l])
<1>1. ASSUME WalkInv, pc # "checking", UnboundedStorageLoop \in Loaded
      PROVE  pc = "panicked" <=> Reversed
  <2>1. CASE pc = "panicked"
    BY <1>1, <2>1 DEF WalkInv, PanicIsDue
  <2>2. CASE pc # "panicked"
    <3>1. d = 6
      BY <1>1, <2>2 DEF WalkInv, Shape, TypeOK
    <3>2. QED
      BY <1>1, <2>2, <3>1 DEF WalkInv, ResultIsSound, Sound
  <2>3. QED
    BY <2>1, <2>2
<1>2. WalkInv => PanicsExactlyOnReversedRange
  BY <1>1 DEF PanicsExactlyOnReversedRange, Underflows
<1>3. QED
  BY <1>2, WalkInvariant, PTL

\* What a check keeps of the part of the file behind it.
THEOREM ExactInvariant == Spec => [](WalkInv /\ ExactInv)
<1>1. Init => WalkInv /\ ExactInv
  BY InitIsSound, InitIsExact
<1>2. ASSUME WalkInv, ExactInv, [Next]_vars
      PROVE  ExactInv'
  <2>1. CASE SkipDetector
    BY <1>2, <2>1, SkipDetectorExact
  <2>2. CASE BeginDetector
    BY <1>2, <2>2, BeginDetectorExact
  <2>3. CASE EndDetector
    BY <1>2, <2>3, EndDetectorExact
  <2>4. CASE ReturnFindings \/ CountReadPanics \/ MeetLoopPanics \/ Finished \/ UNCHANGED vars
    BY <1>2, <2>4, StillExact DEF ReturnFindings, CountReadPanics, MeetLoopPanics, Panic,
       Finished, vars
  <2>5. CASE SkipEntry
    BY <1>2, <2>5, SkipEntryExact
  <2>6. CASE CheckAuth
    BY <1>2, <2>6, CheckAuthExact
  <2>7. CASE EnterEntry
    BY <1>2, <2>7, EnterEntryExact
  <2>8. CASE LeaveEntry
    BY <1>2, <2>8, LeaveEntryExact
  <2>9. CASE CountRead
    BY <1>2, <2>9, CountReadExact
  <2>10. CASE MeetWrite
    BY <1>2, <2>10, MeetWriteExact
  <2>11. CASE MeetLoop
    BY <1>2, <2>11, MeetLoopExact
  <2>12. CASE MeetArithmetic
    BY <1>2, <2>12, MeetArithmeticExact
  <2>13. CASE PassNode
    BY <1>2, <2>13, PassNodeExact
  <2>14. QED
    BY <1>2, <2>1, <2>2, <2>3, <2>4, <2>5, <2>6, <2>7, <2>8, <2>9, <2>10, <2>11, <2>12,
       <2>13 DEF Next
<1>3. QED
  BY <1>1, <1>2, WalkInvariant, PTL DEF Spec

\* Every rule that has a rule file is applied at every place of every entrypoint
\* it is about, at the outermost of nested ones, and nowhere else; the markers
\* next to a finding, and no others, choose its list; and a loop is said to be
\* bounded by storage when some chain of lets leads there.
THEOREM FindingsAreWhatIsThere == Spec => []FindingsAreExact
<1>1. ASSUME WalkInv, ExactInv, pc = "done"
      PROVE  FindingsAreExact
  <2>1. /\ d = 6 /\ file \in Files
        /\ \A k \in 1..Len(file.fns) : Len(file.fns[k].body.lets) \in Nat
    BY <1>1, FilesAssumption DEF WalkInv, Shape
  <2>2. ASSUME NEW r \in 1..5, NEW k \in 1..Len(file.fns), r # 2
        PROVE  Places(Findings, Registry[r], k)
                 = IF Registry[r] \in R!Validate(RegisteredIds, Loaded) THEN {}
                   ELSE Due(Registry[r], file.fns[k])
    <3>1. Registry[r] \in RegisteredIds
      BY RegistryFacts DEF RegisteredIds
    <3>2. Registry[r] \in R!Validate(RegisteredIds, Loaded) <=> Registry[r] \notin Loaded
      BY <3>1 DEF R!Validate
    <3>3. Places(Findings, Registry[r], k)
            = IF r < d /\ Registry[r] \in Loaded THEN Due(Registry[r], file.fns[k]) ELSE {}
      BY <1>1, <2>2 DEF ExactInv, ResultIsExact
    <3>4. r < d
      BY <2>1
    <3>5. QED
      BY <3>2, <3>3, <3>4
  <2>3. \A k \in 1..Len(file.fns), r \in 1..Len(Registry) :
           Registry[r] # ReadBudget =>
              {f.from : f \in {g \in Findings : g.rule = Registry[r] /\ g.entry = k}}
                 = IF Registry[r] \in R!Validate(RegisteredIds, Loaded) THEN {}
                   ELSE Due(Registry[r], file.fns[k])
    BY <2>2, RegistryFacts, DetectorsDiffer DEF Places
  <2>4. /\ \A f \in result.findings : ~Excused(f) /\ IsTrue(f)
        /\ \A f \in result.suppressed : Excused(f) /\ IsTrue(f)
    BY <1>1 DEF ExactInv, ResultIsExact, ListsAreRight
  <2>5. ASSUME NEW f \in Findings, f.rule = UnboundedStorageLoop
        PROVE  f.what.origin = "storage" <=>
                 /\ file.fns[f.entry].body.nodes[f.from].kind # "loop"
                 /\ HeaderIdentifiers(file.fns[f.entry].body.nodes, f.from)
                      \cap HoldsStorage(file.fns[f.entry]) # {}
    <3>1. /\ f.entry \in 1..Len(file.fns)
          /\ f.what.origin = Origin(file.fns[f.entry].body, f.from)
      BY <2>4, <2>5 DEF Findings, IsTrue
    <3>2. StorageDerivedBindings(file.fns[f.entry].body) = HoldsStorage(file.fns[f.entry])
      BY <2>1, <3>1, DerivedIsHeld
    <3>3. QED
      BY <3>1, <3>2 DEF Origin
  <2>6. QED
    BY <2>3, <2>4, <2>5 DEF FindingsAreExact
<1>2. WalkInv /\ ExactInv => FindingsAreExact
  BY <1>1 DEF FindingsAreExact
<1>3. QED
  BY <1>2, ExactInvariant, PTL

\* The same, with what holds of the estimate, of the sink and of the result
\* while the reads of an entrypoint are counted.
THEOREM CountInvariant == Spec => [](WalkInv /\ ExactInv /\ CountInv)
<1>1. Init => CountInv
  BY InitIsFair
<1>2. ASSUME WalkInv, ExactInv, CountInv, [Next]_vars
      PROVE  CountInv'
  <2>1. CASE SkipDetector
    BY <1>2, <2>1, SkipDetectorFair
  <2>2. CASE BeginDetector
    BY <1>2, <2>2, BeginDetectorFair
  <2>3. CASE EndDetector
    BY <1>2, <2>3, EndDetectorFair
  <2>4. CASE ReturnFindings \/ CountReadPanics \/ MeetLoopPanics \/ Finished \/ UNCHANGED vars
    BY <1>2, <2>4, FairStays DEF ReturnFindings, CountReadPanics, MeetLoopPanics, Panic,
       Finished, vars
  <2>5. CASE SkipEntry
    BY <1>2, <2>5, SkipEntryFair
  <2>6. CASE CheckAuth
    <3>1. d # 2 /\ UNCHANGED <<file, sources, d, result>>
      BY <2>6, DetectorsDiffer DEF CheckAuth
    <3>2. QED
      BY <1>2, <3>1, FairStays
  <2>7. CASE EnterEntry
    BY <1>2, <2>7, EnterEntryFair
  <2>8. CASE LeaveEntry
    BY <1>2, <2>8, LeaveEntryFair
  <2>9. CASE CountRead
    BY <1>2, <2>9, CountReadFair
  <2>10. CASE MeetWrite \/ MeetLoop \/ MeetArithmetic
    BY <1>2, <2>10, OtherNodeFair
  <2>11. CASE PassNode
    BY <1>2, <2>11, PassNodeFair
  <2>12. QED
    BY <1>2, <2>1, <2>2, <2>3, <2>4, <2>5, <2>6, <2>7, <2>8, <2>9, <2>10, <2>11 DEF Next
<1>3. QED
  BY <1>1, <1>2, ExactInvariant, PTL DEF Spec

\* An entrypoint is reported when it can make more reads than the ceiling in the
\* bodies of loops that end at a literal, whatever saturates or overflows; one
\* that is reported can make more, or has a read that is counted too often.
THEOREM ReadsAreJudged == Spec => []EstimateJudgesTheReads
<1>1. ASSUME WalkInv, CountInv, pc = "done", ReadBudget \in Loaded,
             NEW k \in 1..Len(file.fns), ~Exempt(file.fns[k])
      PROVE  Judged(file.fns[k], IsOver(Findings, k))
  <2>1. d = 6
    BY <1>1 DEF WalkInv, Shape
  <2>2. d > 2
    BY <2>1
  <2>3. QED
    BY <1>1, <2>2 DEF CountInv, ResultIsFair
<1>2. WalkInv /\ CountInv => EstimateJudgesTheReads
  BY <1>1 DEF EstimateJudgesTheReads, IsOverBudget, Judged, IsOver
<1>3. QED
  BY <1>2, CountInvariant, PTL

=============================================================================
