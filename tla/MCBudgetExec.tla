---------------------------- MODULE MCBudgetExec ----------------------------
(***************************************************************************)
(* Instances of the estimate with an invocation beside it.                 *)
(***************************************************************************)
EXTENDS BudgetExec, MCBinaries

AllBinaries == UNION {ShapeBinaries, LongBinaries}

MCBinaries == AllBinaries

MCRequests == Gated
=============================================================================
