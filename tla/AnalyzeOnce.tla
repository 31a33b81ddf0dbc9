----------------------------- MODULE AnalyzeOnce -----------------------------
(***************************************************************************)
(* What analysing a request promises: one answer, a function of the        *)
(* request and the file system alone, however the tree is walked, however  *)
(* many threads work on it and in whatever order they finish.              *)
(* AnalyzePaths implements it.                                             *)
(***************************************************************************)
EXTENDS Listing

CONSTANTS
  Analysis(_),   \* what reading and checking a file comes to
  None

VARIABLES
  request,
  answer         \* None until the analysis is over

vars == <<request, answer>>

Above[p \in Names] ==
  IF Tree[p].under \in Names THEN {Tree[p].under} \cup Above[Tree[p].under] ELSE {}

\* The directories one gets to from a root through directories that can be
\* read, passing none of a skipped name.
Open(root) ==
  {d \in Directories :
     /\ d = root \/ root \in Above[d]
     /\ \A x \in {d} \cup Above[d] : root \in Above[x] => ~Tree[x].skipped
     /\ \A x \in Above[d] : x = root \/ root \in Above[x] => Tree[x].state # "closed"}

\* Every .rs file in an open directory that can be read, or the file named.
FilesUnder(root) ==
  IF root \in Names /\ Tree[root].kind = "file" THEN {root}
  ELSE {f \in Names : /\ Tree[f].kind \notin {"dir", "link"} /\ Tree[f].rust
                      /\ \E d \in Open(root) : Tree[f].under = d /\ Tree[d].state # "closed"}

\* Every open directory that could not be read, or the path that is nothing to walk.
HolesUnder(root) ==
  {d \in Open(root) : Tree[d].state # "whole"}
    \cup {p \in {root} : p \notin Names \/ Tree[p].kind \in {"link", "other"}}

These(kind) ==
  {f \in UNION {FilesUnder(request.paths[i]) : i \in 1..Len(request.paths)} : Analysis(f) = kind}

Holes ==
  FlattenSeq([i \in 1..Len(request.paths) |-> Ordered(HolesUnder(request.paths[i]))])

\* Every readable file's findings, every hole of the tree and every unreadable
\* file's problem, each once and in the order of the paths; nothing when a
\* detector panics.
Answer ==
  IF These("panics") # {}
  THEN [kind |-> "panicked"]
  ELSE [kind     |-> "merged",
        findings |-> Ordered(These("analysed")),
        problems |-> Holes \o Ordered(These("unreadable"))]

Init == answer = None

Analyse == answer = None /\ answer' = Answer /\ UNCHANGED request

Spec == Init /\ [][Analyse]_vars
=============================================================================
