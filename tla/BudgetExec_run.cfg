SPECIFICATION ExecSpec
CONSTANTS
  NoLimit = NoLimit
  MaxDepth = 2
  MaxExecuted = 8
  MaxFrames = 4
  Binaries <- MCBinaries
  Requests <- MCRequests
INVARIANTS
  ExactRowBoundsTheRun
  GatedModuleStaysUnder
CHECK_DEADLOCK FALSE
