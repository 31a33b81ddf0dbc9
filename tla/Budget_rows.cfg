SPECIFICATION MCSpec
CONSTANTS
  NoLimit = NoLimit
  MaxDepth = 2
  Binaries <- MCBinaries
  Requests <- MCRequests
INVARIANTS
  TypeOK
  PathIsASimpleChain
  ReasonsAreComplete
  ExactRowIsTheTreeSum
  EachFunctionCountsOnce
PROPERTIES
  ExactRowIsClosed
  Terminates
CHECK_DEADLOCK FALSE
