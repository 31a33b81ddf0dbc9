CONSTANTS
  None = None
  MaxJobs = 3
  Tree <- MCTree
  Analysis <- MCAnalysis
  Requests <- MCRequests
SPECIFICATION FairSpec
INVARIANTS
  TypeOK
  EachFileClaimedOnce
  EveryFileIsReached
PROPERTIES
  ImplementsOnce
  Terminates
CHECK_DEADLOCK FALSE
