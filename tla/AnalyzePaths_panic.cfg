CONSTANTS
  None = None
  MaxJobs = 3
  Tree <- MCTree
  Analysis <- MCAnalysis
  Requests <- PanicRequests
SPECIFICATION Spec
INVARIANTS
  PanicKeepsOtherFindings
CHECK_DEADLOCK FALSE
