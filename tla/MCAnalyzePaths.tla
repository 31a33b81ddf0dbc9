--------------------------- MODULE MCAnalyzePaths ---------------------------
(***************************************************************************)
(* A tree for AnalyzePaths, with whatever the walk tells apart, and the    *)
(* ways of naming one or two places in it.                                 *)
(***************************************************************************)
EXTENDS AnalyzePaths

Root == 0

Dir(under, state) ==
  [kind |-> "dir", under |-> under, skipped |-> FALSE, rust |-> FALSE, state |-> state]
Hidden(under) == [Dir(under, "whole") EXCEPT !.skipped = TRUE]
File(under, rust) ==
  [kind |-> "file", under |-> under, skipped |-> FALSE, rust |-> rust, state |-> "whole"]
Special(kind, under) == [File(under, TRUE) EXCEPT !.kind = kind]

MCTree ==
  <<Dir(Root, "whole"),     \* 1
      File(1, TRUE),
      Hidden(1),            \* 3, called target
        File(3, TRUE),
        File(3, TRUE),
      Dir(1, "torn"),       \* 6
        File(6, TRUE),
        Dir(6, "closed"),   \* 8
          File(8, TRUE),
        Dir(6, "whole"),    \* 10
          Special("other", 10),
          Special("link", 10),
        File(6, FALSE),
      File(1, TRUE),        \* 14
    Dir(Root, "whole"),     \* 15
      File(15, TRUE),
      Dir(15, "whole"),     \* 17
        File(17, TRUE),
        File(17, TRUE),
      File(15, FALSE),      \* 20
    Special("link", Root)>>

\* 9 and 11 cannot be read or parsed, and a detector panics on 5 and 18.
MCAnalysis(name) ==
  CASE name \in {9, 11, 20} -> "unreadable"
    [] name \in {5, 18}     -> "panics"
    [] OTHER                -> "analysed"

\* A directory, a file, a link or nothing; a directory and what is in it, in
\* either order; and two directories. Two requests lead to four files.
PathLists ==
  {<<p>> : p \in {1, 3, 6, 8, 10, 11, 13, 15, 17, 21, 22}}
    \cup {<<10, 6>>, <<6, 7>>, <<6, 9>>, <<3, 6>>, <<10, 8>>, <<16, 6, 2>>, <<17, 14>>, <<3, 14, 22>>}

MCRequests == [paths : PathLists, jobs : 0..3]

PanicRequests == [paths : {<<15>>, <<2, 17>>}, jobs : 2..3]
=============================================================================
