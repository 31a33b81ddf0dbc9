------------------------------- MODULE Listing -------------------------------
(***************************************************************************)
(* What the analyser is pointed at: the walk from a path                   *)
(* (soroban-analyzer/src/walk.rs) and the sort and dedup at the top of     *)
(* analyze_paths.  A path is its rank among all paths in the order of      *)
(* PathBuf: a directory comes before what is in it, and what is in it      *)
(* before whatever follows the directory.                                  *)
(*                                                                         *)
(* An entry of the tree is [kind, under, skipped, rust, state]: its kind   *)
(* ("file", "dir", "link" or "other"), the directory it is in, whether its *)
(* name is one of SKIPPED_DIRS or ends in .rs, and for a directory whether *)
(* it can be read: "whole", "torn" when one of its entries cannot, or      *)
(* "closed".                                                               *)
(***************************************************************************)
EXTENDS Ordering, SequencesExt

CONSTANT Tree   \* path -> entry

Names == DOMAIN Tree

ASSUME NamesAssumption == Names \subseteq Int /\ IsFiniteSet(Names)

\* The order of PathBuf, which compares component by component: a name between
\* a directory and something in it is itself below that directory.
ASSUME TreeAssumption ==
  \A p \in Names :
    /\ Tree[p].kind \in {"file", "dir", "link", "other"}
    /\ Tree[p].state \in {"whole", "torn", "closed"}
    /\ Tree[p].under \in Names =>
         /\ Tree[Tree[p].under].kind = "dir"
         /\ Tree[p].under < p
         /\ \A q \in Names : Tree[p].under < q /\ q < p =>
              Tree[q].under \in Names /\ Tree[p].under <= Tree[q].under

-----------------------------------------------------------------------------
(* The walk *)

Directories == {p \in Names : Tree[p].kind = "dir"}

Entries(dir) == {p \in Names : Tree[p].under = dir}

\* A link is not followed, and a directory of a skipped name is not entered.
Subdirectories(dir) == {p \in Entries(dir) \cap Directories : ~Tree[p].skipped}

\* Whatever else is called .rs, a file or not.
Sources(dir) == {p \in Entries(dir) : Tree[p].kind \in {"file", "other"} /\ Tree[p].rust}

\* Mutation: a directory that cannot be read passes for an empty one.
OnlyTorn(dir) == IF Tree[dir].state = "torn" THEN <<dir>> ELSE <<>>

\* A hole in the analysis is reported.
Problems(dir) == IF Tree[dir].state = "whole" THEN <<>> ELSE <<dir>>

\* walk_directory: the directory's own entries, then its directories in order.
Walked[dir \in Directories] ==
  LET below == IF Tree[dir].state = "closed" THEN <<>> ELSE Ordered(Subdirectories(dir))
  IN  [files    |-> (IF Tree[dir].state = "closed" THEN {} ELSE Sources(dir))
                      \cup UNION {Walked[below[i]].files : i \in 1..Len(below)},
       problems |-> Problems(dir)
                      \o FlattenSeq([i \in 1..Len(below) |-> Walked[below[i]].problems])]

\* A file that is named is taken, and a directory that is named entered, whatever
\* it is called.
Collect(path) ==
  CASE path \notin Names -> [files |-> {}, problems |-> <<path>>]
    [] path \in Names /\ Tree[path].kind = "file" -> [files |-> {path}, problems |-> <<>>]
    [] path \in Directories -> Walked[path]
    [] path \in Names /\ Tree[path].kind \in {"link", "other"} ->
         [files |-> {}, problems |-> <<path>>]

-----------------------------------------------------------------------------
(* What the walks from all paths of a call give *)

FoundBy(paths) == UNION {Collect(paths[i]).files : i \in 1..Len(paths)}

SkippedBy(paths) == FlattenSeq([i \in 1..Len(paths) |-> Collect(paths[i]).problems])
=============================================================================
