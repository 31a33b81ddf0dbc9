------------------------------ MODULE MCBudget ------------------------------
(***************************************************************************)
(* Instances of the walk: every small call graph, every small body, and    *)
(* exports with every selection.                                           *)
(***************************************************************************)
EXTENDS MCBinaries

AllBinaries == UNION {GraphBinaries, ChainBinaries, ShapeBinaries, ExportBinaries}

\* TLC evaluates a definition once, but what a constant stands for each time.
MCBinaries == AllBinaries

MCRequests == Selections

\* Only the binaries that are about exports meet every selection.
MCInit ==
  /\ Init
  /\ request = Anything \/ binary \in ExportBinaries

MCSpec == MCInit /\ [][Next]_vars /\ WF_vars(Next)
=============================================================================
